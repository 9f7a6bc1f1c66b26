------------------------------- MODULE ProcTable -------------------------------
(***************************************************************************)
(* Processes as kern/proc/proc.c and kern/syscall/proc_syscalls.c manage   *)
(* them: the table of pids, fork, exit and waitpid with its semaphore, and *)
(* the menu, which starts a program and waits for it.                      *)
(*                                                                         *)
(* A process is known by the address of its struct proc, which kmalloc may *)
(* hand out again after kfree.  A process has one thread, so the address   *)
(* also names the thread.  What blocks or can be preempted with a visible  *)
(* effect is a step of its own: proc_destroy sleeps in as_destroy before   *)
(* it clears the table, and sys_fork reads newp->p_pid after the child has *)
(* been started.                                                           *)
(***************************************************************************)
EXTENDS Integers

CONSTANTS
  Structs,    \* addresses of struct proc
  kproc,      \* the kernel process; its thread runs the menu
  NULL,
  MAX_PROC,
  WaitFor,    \* whom programs call waitpid for: "children", also pids that
              \* are not in use ("unused"), or "any" pid
  LoadFails   \* as_create or load_elf may fail in runprogram

ASSUME ProcTableAssumption ==
  /\ kproc \in Structs /\ NULL \notin Structs
  /\ MAX_PROC \in Nat /\ MAX_PROC > 1
  /\ WaitFor \in {"children", "unused", "any"} /\ LoadFails \in BOOLEAN

VARIABLES
  table,         \* processTable.proc
  last_i,        \* processTable.last_i
  allocated,     \* the struct procs that exist
  p_pid, p_numthreads, p_sem,
  pc,            \* where the thread of a process is
  ref,           \* the struct proc its system call works on
  kids           \* pids that fork returned to a program that runs, and that it
                 \* has not yet called waitpid for

procVars == <<table, last_i, allocated, p_pid>>
vars == <<procVars, p_numthreads, p_sem, pc, ref, kids>>

Pids == 1..MAX_PROC
Locations == {"none", "user", "start", "copying", "started", "wait", "destroy", "exit"}

TypeOK ==
  /\ table \in [Pids -> Structs \cup {NULL}]
  /\ last_i \in Pids
  /\ allocated \subseteq Structs
  /\ p_pid \in [Structs -> 0..MAX_PROC]
  /\ p_numthreads \in [Structs -> {0, 1}]
  /\ p_sem \in [Structs -> {0, 1}]
  /\ pc \in [Structs -> Locations]
  /\ ref \in [Structs -> Structs \cup {NULL}]
  /\ kids \in [Structs -> SUBSET Pids]

(* proc_bootstrap: the kernel process gets the first pid. *)
Init ==
  /\ table = [i \in Pids |-> IF i = 1 THEN kproc ELSE NULL]
  /\ last_i = 1
  /\ allocated = {kproc}
  /\ p_pid = [s \in Structs |-> IF s = kproc THEN 1 ELSE 0]
  /\ p_numthreads = [s \in Structs |-> IF s = kproc THEN 1 ELSE 0]
  /\ p_sem = [s \in Structs |-> 0]
  /\ pc = [s \in Structs |-> IF s = kproc THEN "user" ELSE "none"]
  /\ ref = [s \in Structs |-> NULL]
  /\ kids = [s \in Structs |-> {}]

-----------------------------------------------------------------------------
Goto(s, l, p) ==
  /\ pc' = [pc EXCEPT ![s] = l]
  /\ ref' = [ref EXCEPT ![s] = p]

(* proc_init_waitpid: the first free slot after last_i, cyclically; the slot *)
(* of last_i itself is not tried. With no free slot the kernel panics.       *)
After(i) == (i % MAX_PROC) + 1
Distance(i) == (i - last_i) % MAX_PROC
FreePids == {i \in Pids \ {last_i} : table[i] = NULL}

NextPidUntested == After(last_i)

NextPid == CHOOSE i \in FreePids : \A j \in FreePids : Distance(i) <= Distance(j)

proc_create(p) ==
  /\ p \notin allocated /\ FreePids # {}
  /\ allocated' = allocated \cup {p}
  /\ p_pid' = [p_pid EXCEPT ![p] = NextPid]
  /\ table' = [table EXCEPT ![NextPid] = p]
  /\ last_i' = NextPid

(* proc_destroy from proc_end_waitpid on. *)
proc_destroy(p) ==
  /\ p_numthreads[p] = 0
  /\ table' = [table EXCEPT ![p_pid[p]] = NULL]
  /\ allocated' = allocated \ {p}
  /\ p_pid' = [p_pid EXCEPT ![p] = 0]
  /\ p_sem' = [p_sem EXCEPT ![p] = 0]
  /\ UNCHANGED last_i

(* common_prog: proc_create_runprogram, thread_fork; then sys_waitpid, with   *)
(* the KASSERT of proc_search_pid.                                           *)
common_prog(p) ==
  /\ pc[kproc] = "user"
  /\ proc_create(p) /\ NextPid < MAX_PROC
  /\ pc' = [pc EXCEPT ![kproc] = "wait", ![p] = "start"]
  /\ ref' = [ref EXCEPT ![kproc] = p]
  /\ p_numthreads' = [p_numthreads EXCEPT ![p] = 1]
  /\ UNCHANGED <<p_sem, kids>>

(* ... or thread_fork fails and the new struct is destroyed at once. *)
ProgramNotStarted ==
  /\ pc[kproc] = "user" /\ FreePids # {} /\ Structs # allocated
  /\ last_i' = NextPid
  /\ UNCHANGED <<table, allocated, p_pid, p_numthreads, p_sem, pc, ref, kids>>

(* runprogram. When vfs_open fails the thread leaves the process and signals *)
(* its end; when as_create or load_elf fails thread_exit removes it from the *)
(* process and nothing is signalled.                                         *)
runprogram(s) ==
  /\ pc[s] = "start"
  /\ \/ Goto(s, "user", NULL) /\ UNCHANGED p_numthreads
     \/ Goto(s, "exit", NULL) /\ p_numthreads' = [p_numthreads EXCEPT ![s] = 0]
     \/ LoadFails /\ Goto(s, "none", NULL) /\ p_numthreads' = [p_numthreads EXCEPT ![s] = 0]
  /\ UNCHANGED <<procVars, p_sem, kids>>

-----------------------------------------------------------------------------
InUserMode(s) == pc[s] = "user" /\ s # kproc

(* sys_fork: the new struct, then as_copy, which takes a while and may fail; *)
(* thread_fork; and the pid read from the new struct for the parent.         *)
sys_fork(s, p) ==
  /\ InUserMode(s)
  /\ proc_create(p)
  /\ Goto(s, "copying", p)
  /\ UNCHANGED <<p_numthreads, p_sem, kids>>

ForkFails(s) ==
  /\ pc[s] = "copying"
  /\ proc_destroy(ref[s])
  /\ Goto(s, "user", NULL)
  /\ UNCHANGED <<p_numthreads, kids>>

StartChild(s) ==
  /\ pc[s] = "copying"
  /\ p_numthreads' = [p_numthreads EXCEPT ![ref[s]] = 1]
  /\ pc' = [pc EXCEPT ![s] = "started", ![ref[s]] = "user"]
  /\ UNCHANGED <<procVars, p_sem, ref, kids>>

ReturnPid(s) ==
  /\ pc[s] = "started"
  /\ kids' = [kids EXCEPT ![s] = @ \cup {p_pid[ref[s]]}]
  /\ Goto(s, "user", NULL)
  /\ UNCHANGED <<procVars, p_numthreads, p_sem>>

(* sys__exit: proc_remthread, then proc_signal_end. *)
Exit(s) ==
  /\ p_numthreads' = [p_numthreads EXCEPT ![s] = 0]
  /\ kids' = [kids EXCEPT ![s] = {}]
  /\ Goto(s, "exit", NULL)

sys__exit(s) ==
  /\ InUserMode(s)
  /\ Exit(s)
  /\ UNCHANGED <<procVars, p_sem>>

proc_signal_endFreesPid(s) ==
  /\ pc[s] = "exit"
  /\ p_sem' = [p_sem EXCEPT ![s] = @ + 1]
  /\ table' = [table EXCEPT ![p_pid[s]] = NULL]
  /\ Goto(s, "none", NULL)
  /\ UNCHANGED <<last_i, allocated, p_pid, p_numthreads, kids>>

proc_signal_endLost(s) ==
  /\ pc[s] = "exit"
  /\ Goto(s, "none", NULL)
  /\ UNCHANGED <<procVars, p_numthreads, p_sem, kids>>

proc_signal_end(s) ==
  /\ pc[s] = "exit"
  /\ p_sem' = [p_sem EXCEPT ![s] = @ + 1]
  /\ Goto(s, "none", NULL)
  /\ UNCHANGED <<procVars, p_numthreads, kids>>

(* sys_waitpid: proc_search_pid. Its KASSERT and the one of proc_wait stop   *)
(* the machine. With no process in the slot p->p_pid is read through a null  *)
(* pointer, and vm_fault calls sys__exit for the caller.                     *)
sys_waitpid(s, i) ==
  /\ InUserMode(s)
  /\ i < MAX_PROC /\ table[i] # kproc
  /\ i \in kids[s] \/ WaitFor = "any" \/ (WaitFor = "unused" /\ table[i] = NULL)
  /\ \/ /\ table[i] # NULL
        /\ Goto(s, "wait", table[i])
        /\ kids' = [kids EXCEPT ![s] = @ \ {i}]
        /\ UNCHANGED p_numthreads
     \/ table[i] = NULL /\ Exit(s)
  /\ UNCHANGED <<procVars, p_sem>>

(* proc_wait: P, then proc_destroy. *)
proc_wait(s) ==
  /\ pc[s] = "wait" /\ p_sem[ref[s]] > 0
  /\ p_sem' = [p_sem EXCEPT ![ref[s]] = @ - 1]
  /\ Goto(s, "destroy", ref[s])
  /\ UNCHANGED <<procVars, p_numthreads, kids>>

Destroy(s) ==
  /\ pc[s] = "destroy"
  /\ proc_destroy(ref[s])
  /\ Goto(s, "user", NULL)
  /\ UNCHANGED <<p_numthreads, kids>>

(* What a thread does once it has entered the kernel. *)
Proceed(s) ==
  runprogram(s) \/ ForkFails(s) \/ StartChild(s) \/ ReturnPid(s) \/ proc_signal_end(s)
    \/ proc_wait(s) \/ Destroy(s)

Next ==
  \/ ProgramNotStarted \/ \E p \in Structs : common_prog(p)
  \/ \E s \in Structs :
       \/ \E p \in Structs : sys_fork(s, p)
       \/ \E i \in Pids : sys_waitpid(s, i)
       \/ sys__exit(s) \/ Proceed(s)

Spec == Init /\ [][Next]_vars

(* Threads in the kernel are scheduled round robin. *)
FairSpec == Spec /\ \A s \in Structs : WF_vars(Proceed(s))

-----------------------------------------------------------------------------
(* The table and the structs agree: every process that exists is in the slot *)
(* of its pid and in no other, and the table holds nothing that was freed.   *)
TableExact ==
  /\ \A p \in allocated : p_pid[p] \in Pids
  /\ \A i \in Pids, p \in Structs : table[i] = p <=> p \in allocated /\ p_pid[p] = i

(* proc_destroy is called by whoever has "the only reference to this         *)
(* structure" (proc.c): no other system call works on the struct then.       *)
OnlyReference ==
  \A s, u \in Structs : s # u /\ pc[s] = "destroy" => ref[u] # ref[s]

(* proc_destroy: KASSERT(proc->p_numthreads == 0), whenever it is reached.   *)
NoThreadLeft == \A s \in Structs : pc[s] = "destroy" => p_numthreads[ref[s]] = 0

(* The pid that fork returned designates the child until the parent has      *)
(* waited for it, however many processes come and go meanwhile: waitpid for  *)
(* a child finds a process, and two parents never wait for the same one.     *)
PidsNotReused ==
  \A s \in Structs : \A i \in kids[s] :
    /\ table[i] \notin {NULL, kproc, s}
    /\ \A u \in Structs : ref[u] # table[i]
    /\ \A u \in Structs \ {s} : i \notin kids[u]

(* A wait for a process that exits, or whose program file could not be       *)
(* opened, ends: the signal is not lost and nobody else consumes it.         *)
WaitsEnd ==
  \A s, p \in Structs : pc[s] = "wait" /\ ref[s] = p /\ pc[p] = "exit" ~> pc[s] # "wait"

-----------------------------------------------------------------------------
(* The inductive strengthening, for programs that wait only for children or  *)
(* for pids not in use: what a struct that does not exist looks like, what a *)
(* thread and the struct it works on do, and that no two threads work on the *)
(* same struct.                                                              *)
Absent ==
  \A p \in Structs \ allocated : pc[p] = "none" /\ p_numthreads[p] = 0 /\ p_sem[p] = 0

ThreadStates ==
  \A s \in Structs :
    /\ p_numthreads[s] = 1 <=> pc[s] \notin {"none", "exit"}
    /\ p_sem[s] = 1 => pc[s] = "none"
    /\ ref[s] # NULL <=> pc[s] \in {"copying", "started", "wait", "destroy"}
    /\ kids[s] # {} => pc[s] \notin {"none", "start", "exit"}

Targets ==
  \A s \in Structs : ref[s] # NULL =>
    /\ ref[s] \in allocated \ {kproc, s}
    /\ \A u \in Structs \ {s} : ref[u] # ref[s]
    /\ pc[s] \in {"copying", "destroy"} => pc[ref[s]] = "none" /\ p_sem[ref[s]] = 0

IInv ==
  /\ TypeOK /\ kproc \in allocated /\ TableExact
  /\ Absent /\ ThreadStates /\ Targets /\ PidsNotReused

-----------------------------------------------------------------------------
(* What comments and assertions say, which the code does not keep.           *)

(* proc_search_pid: KASSERT(pid >= 0 && pid < MAX_PROC), for a child's pid.  *)
ChildSearchable == \A s \in Structs : \A i \in kids[s] : i < MAX_PROC

(* proc_init_waitpid: panic("too many processes. proc table is full"), only  *)
(* when it is.                                                               *)
PanicsWhenFull == FreePids = {} => \A i \in Pids : table[i] # NULL

(* proc.h: proc_wait waits for process termination. A wait for a process     *)
(* that has no thread any more ends, however its thread ended.               *)
TerminationSeen ==
  \A s, p \in Structs :
    pc[s] = "wait" /\ ref[s] = p /\ p_numthreads[p] = 0 ~> pc[s] # "wait"

(* sys_waitpid: if (p==NULL) return -1. The call does not end the caller.    *)
WaitpidReturns ==
  [][\A s \in Structs, i \in Pids : sys_waitpid(s, i) => pc'[s] # "exit"]_vars
=============================================================================
