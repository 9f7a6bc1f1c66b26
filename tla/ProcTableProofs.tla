---------------------------- MODULE ProcTableProofs ----------------------------
(***************************************************************************)
(* The process table is exact, and a process is waited for and destroyed   *)
(* by one other process only, after its thread has left it: for any number *)
(* of processes and any MAX_PROC, when programs wait for their children or *)
(* for pids that are not in use.                                           *)
(***************************************************************************)
EXTENDS ProcTable, NaturalsInduction, WellFoundedInduction, TLAPS

(* A nonempty set of naturals has a least element. *)
LEMMA LeastNat ==
  ASSUME NEW S \in SUBSET Nat, S # {}
  PROVE  \E f \in S : \A g \in S : f <= g
<1> DEFINE R == {ss \in Nat \X Nat : ss[1] < ss[2]}
<1>1. IsWellFoundedOn(R, Nat)
  BY NatLessThanWellFounded, Zenon DEF OpToRel
<1>2. \A x, y \in Nat : y < x => <<y, x>> \in R
  OBVIOUS
<1> HIDE DEF R
<1>3. PICK x \in S : \A y \in S : ~(<<y, x>> \in R)
  BY <1>1, WFMin, Zenon
<1>4. ASSUME NEW y \in S PROVE x <= y
  <2>1. x \in Nat /\ y \in Nat
    OBVIOUS
  <2>2. ~(y < x)
    BY <1>2, <1>3, <2>1, Zenon
  <2> QED BY <2>1, <2>2
<1> QED BY <1>4

(* The search of proc_init_waitpid ends at a free slot. *)
LEMMA NextPidFree ==
  ASSUME TypeOK, FreePids # {}
  PROVE  NextPid \in Pids /\ NextPid # last_i /\ table[NextPid] = NULL
<1> DEFINE D == {Distance(i) : i \in FreePids}
<1>1. ASSUME NEW i \in FreePids PROVE Distance(i) \in Nat
  BY ProcTableAssumption DEF TypeOK, Pids, FreePids, Distance
<1>2. D \in SUBSET Nat /\ D # {}
  BY <1>1
<1> HIDE DEF Distance
<1>3. PICK d \in D : \A e \in D : d <= e
  <2> HIDE DEF D
  <2> QED BY <1>2, LeastNat
<1>4. PICK i \in FreePids : d = Distance(i)
  OBVIOUS
<1>5. \A j \in FreePids : Distance(i) <= Distance(j)
  BY <1>3, <1>4
<1>6. NextPid \in FreePids
  BY <1>5, Zenon DEF NextPid
<1> QED BY <1>6, Zenon DEF FreePids

(* proc_create enters the struct in the table, and nothing else changes. *)
LEMMA CreateExact ==
  ASSUME IInv, NEW p \in Structs, proc_create(p)
  PROVE  /\ table' \in [Pids -> Structs \cup {NULL}] /\ last_i' \in Pids
         /\ p_pid' \in [Structs -> 0..MAX_PROC]
         /\ allocated' \subseteq Structs /\ kproc \in allocated'
         /\ TableExact'
         /\ \A i \in Pids : table[i] # NULL => table'[i] = table[i]
<1>1. NextPid \in Pids /\ table[NextPid] = NULL
  BY NextPidFree DEF IInv, proc_create
<1>2. NextPid \in 0..MAX_PROC
  BY <1>1, ProcTableAssumption DEF Pids
<1>3. TypeOK /\ TableExact /\ kproc \in allocated /\ p \notin allocated
  BY Zenon DEF IInv, proc_create
<1> HIDE DEF NextPid
<1>5. \A q \in allocated' : p_pid'[q] \in Pids
  BY <1>1, <1>3 DEF TableExact, proc_create, TypeOK
<1>4. TableExact'
  <2> SUFFICES ASSUME NEW i \in Pids, NEW q \in Structs
      PROVE table'[i] = q <=> q \in allocated' /\ p_pid'[q] = i
    BY <1>5, Zenon DEF TableExact
  <2>1. table[i] = q <=> q \in allocated /\ p_pid[q] = i
    BY <1>3, Zenon DEF TableExact
  <2>2. table[NextPid] # q
    BY <1>1, ProcTableAssumption
  <2>3. table'[i] = IF i = NextPid THEN p ELSE table[i]
    BY <1>3, Zenon DEF proc_create, TypeOK
  <2>4. p_pid'[q] = IF q = p THEN NextPid ELSE p_pid[q]
    BY <1>3, Zenon DEF proc_create, TypeOK
  <2>5. q \in allocated' <=> q \in allocated \/ q = p
    BY Zenon DEF proc_create
  <2> QED BY <1>1, <1>3, <2>1, <2>2, <2>3, <2>4, <2>5
<1> QED BY <1>1, <1>2, <1>3, <1>4 DEF proc_create, TypeOK

(* proc_destroy takes the struct out of the table, and nothing else changes. *)
LEMMA DestroyExact ==
  ASSUME IInv, NEW p \in allocated, p # kproc, proc_destroy(p)
  PROVE  /\ table' \in [Pids -> Structs \cup {NULL}] /\ last_i' \in Pids
         /\ p_pid' \in [Structs -> 0..MAX_PROC]
         /\ p_sem' \in [Structs -> {0, 1}]
         /\ allocated' \subseteq Structs /\ kproc \in allocated'
         /\ TableExact'
         /\ \A i \in Pids : table[i] # p => table'[i] = table[i]
<1>1. TypeOK /\ TableExact /\ kproc \in allocated /\ p \in Structs
  BY Zenon DEF IInv, TypeOK
<1>2. 0 \in 0..MAX_PROC /\ 0 \notin Pids
  BY ProcTableAssumption DEF Pids
<1>3. \A i \in Pids : table[i] = p <=> p_pid[p] = i
  BY <1>1, Zenon DEF TableExact
<1>5. \A q \in allocated' : p_pid'[q] \in Pids
  BY <1>1 DEF TableExact, proc_destroy, TypeOK
<1>4. TableExact'
  <2> SUFFICES ASSUME NEW i \in Pids, NEW q \in Structs
      PROVE table'[i] = q <=> q \in allocated' /\ p_pid'[q] = i
    BY <1>5, Zenon DEF TableExact
  <2>1. table[i] = q <=> q \in allocated /\ p_pid[q] = i
    BY <1>1, Zenon DEF TableExact
  <2>2. table'[i] = IF i = p_pid[p] THEN NULL ELSE table[i]
    BY <1>1, Zenon DEF proc_destroy, TypeOK
  <2>3. p_pid'[q] = IF q = p THEN 0 ELSE p_pid[q]
    BY <1>1, Zenon DEF proc_destroy, TypeOK
  <2>4. q \in allocated' <=> q \in allocated /\ q # p
    BY Zenon DEF proc_destroy
  <2> QED BY <1>1, <1>2, <1>3, <2>1, <2>2, <2>3, <2>4, ProcTableAssumption
<1> QED BY <1>1, <1>2, <1>3, <1>4, Zenon DEF proc_destroy, TypeOK

(* A program that is not started costs a pid only. *)
LEMMA ProgramNotStartedStep ==
  ASSUME IInv, ProgramNotStarted
  PROVE  IInv'
<1>0. TypeOK /\ kproc \in allocated /\ TableExact /\ Absent /\ ThreadStates /\ Targets /\ PidsNotReused
  BY Zenon DEF IInv
<1>a. last_i' \in Pids
  BY <1>0, NextPidFree DEF ProgramNotStarted
<1>1. TypeOK'
  BY <1>0, ProcTableAssumption, <1>a DEF TypeOK, Locations, ProgramNotStarted
<1>2. kproc \in allocated' /\ TableExact'
  BY <1>0, ProcTableAssumption, <1>a DEF TableExact, ProgramNotStarted
<1>3. Absent'
  BY <1>0, ProcTableAssumption, <1>a DEF Absent, TypeOK, ProgramNotStarted
<1>4. ThreadStates'
  BY <1>0, ProcTableAssumption, <1>a DEF ThreadStates, TypeOK, ProgramNotStarted
<1>5. Targets'
  BY <1>0, ProcTableAssumption, <1>a DEF Targets, TypeOK, ThreadStates, ProgramNotStarted
<1>6. PidsNotReused'
  BY <1>0, ProcTableAssumption, <1>a DEF PidsNotReused, TypeOK, ThreadStates, Targets, ProgramNotStarted
<1> QED BY <1>1, <1>2, <1>3, <1>4, <1>5, <1>6, Zenon DEF IInv

(* runprogram ends in user mode, or with its thread out of the process. *)
LEMMA runprogramStep ==
  ASSUME IInv, NEW s \in Structs, runprogram(s)
  PROVE  IInv'
<1>0. TypeOK /\ kproc \in allocated /\ TableExact /\ Absent /\ ThreadStates /\ Targets /\ PidsNotReused
  BY Zenon DEF IInv
<1>1. TypeOK'
  BY <1>0, ProcTableAssumption DEF TypeOK, Locations, runprogram, Goto, procVars
<1>2. kproc \in allocated' /\ TableExact'
  BY <1>0, ProcTableAssumption DEF TableExact, runprogram, Goto, procVars
<1>3. Absent'
  BY <1>0, ProcTableAssumption DEF Absent, TypeOK, runprogram, Goto, procVars
<1>4. ThreadStates'
  <2> SUFFICES ASSUME NEW u \in Structs
      PROVE /\ p_numthreads'[u] = 1 <=> pc'[u] \notin {"none", "exit"}
            /\ p_sem'[u] = 1 => pc'[u] = "none"
            /\ ref'[u] # NULL <=> pc'[u] \in {"copying", "started", "wait", "destroy"}
            /\ kids'[u] # {} => pc'[u] \notin {"none", "start", "exit"}
    BY Zenon DEF ThreadStates
  <2>1. CASE u # s
    BY <1>0, <2>1 DEF ThreadStates, TypeOK, runprogram, Goto, procVars
  <2>2. CASE u = s
    <3>1. ref'[s] = NULL /\ p_sem'[s] = p_sem[s] /\ kids'[s] = kids[s]
      BY <1>0 DEF TypeOK, runprogram, Goto, procVars
    <3>2. p_sem[s] # 1 /\ p_numthreads[s] = 1
      BY <1>0 DEF ThreadStates, runprogram
    <3>3. kids[s] = {}
      BY <1>0 DEF ThreadStates, runprogram
    <3>4. \/ pc'[s] = "user" /\ p_numthreads'[s] = p_numthreads[s]
          \/ pc'[s] \in {"exit", "none"} /\ p_numthreads'[s] = 0
      BY <1>0 DEF TypeOK, runprogram, Goto
    <3> QED BY <2>2, <3>1, <3>2, <3>3, <3>4
  <2> QED BY <2>1, <2>2
<1>5. Targets'
  BY <1>0, ProcTableAssumption DEF Targets, TypeOK, ThreadStates, runprogram, Goto, procVars
<1>6. PidsNotReused'
  BY <1>0, ProcTableAssumption DEF PidsNotReused, TypeOK, ThreadStates, Targets, runprogram, Goto, procVars
<1> QED BY <1>1, <1>2, <1>3, <1>4, <1>5, <1>6, Zenon DEF IInv

(* fork returns the pid of a child that nobody else works on. *)
LEMMA ReturnPidStep ==
  ASSUME IInv, NEW s \in Structs, ReturnPid(s)
  PROVE  IInv'
<1>0. TypeOK /\ kproc \in allocated /\ TableExact /\ Absent /\ ThreadStates /\ Targets /\ PidsNotReused
  BY Zenon DEF IInv
<1>t. s \in Structs /\ ref[s] \in Structs /\ ref[s] # s /\ ref[s] \in allocated /\ ref[s] # kproc
  BY <1>0 DEF TypeOK, ThreadStates, Targets, ReturnPid
<1>p. p_pid[ref[s]] \in Pids /\ table[p_pid[ref[s]]] = ref[s]
  BY <1>0, <1>t DEF TableExact
<1>1. TypeOK'
  BY <1>0, <1>t, <1>p, ProcTableAssumption DEF TypeOK, Locations, ReturnPid, Goto, procVars
<1>2. kproc \in allocated' /\ TableExact'
  BY <1>0, <1>t, <1>p, ProcTableAssumption DEF TableExact, ReturnPid, Goto, procVars
<1>3. Absent'
  BY <1>0, <1>t, <1>p, ProcTableAssumption DEF Absent, TypeOK, ReturnPid, Goto, procVars
<1>4. ThreadStates'
  BY <1>0, <1>t, <1>p, ProcTableAssumption DEF ThreadStates, TypeOK, ReturnPid, Goto, procVars
<1>5. Targets'
  BY <1>0, <1>t, <1>p, ProcTableAssumption DEF Targets, TypeOK, ThreadStates, ReturnPid, Goto, procVars
<1>6. PidsNotReused'
  BY <1>0, <1>t, <1>p, ProcTableAssumption DEF PidsNotReused, TypeOK, ThreadStates, Targets, ReturnPid, Goto, procVars
<1> QED BY <1>1, <1>2, <1>3, <1>4, <1>5, <1>6, Zenon DEF IInv

(* The thread leaves the process before it signals. *)
LEMMA sys__exitStep ==
  ASSUME IInv, NEW s \in Structs, sys__exit(s)
  PROVE  IInv'
<1>0. TypeOK /\ kproc \in allocated /\ TableExact /\ Absent /\ ThreadStates /\ Targets /\ PidsNotReused
  BY Zenon DEF IInv
<1>1. TypeOK'
  BY <1>0, ProcTableAssumption DEF TypeOK, Locations, sys__exit, InUserMode, Exit, Goto, procVars
<1>2. kproc \in allocated' /\ TableExact'
  BY <1>0, ProcTableAssumption DEF TableExact, sys__exit, InUserMode, Exit, Goto, procVars
<1>3. Absent'
  BY <1>0, ProcTableAssumption DEF Absent, TypeOK, sys__exit, InUserMode, Exit, Goto, procVars
<1>4. ThreadStates'
  BY <1>0, ProcTableAssumption DEF ThreadStates, TypeOK, sys__exit, InUserMode, Exit, Goto, procVars
<1>5. Targets'
  BY <1>0, ProcTableAssumption DEF Targets, TypeOK, ThreadStates, sys__exit, InUserMode, Exit, Goto, procVars
<1>6. PidsNotReused'
  BY <1>0, ProcTableAssumption DEF PidsNotReused, TypeOK, ThreadStates, Targets, sys__exit, InUserMode, Exit, Goto, procVars
<1> QED BY <1>1, <1>2, <1>3, <1>4, <1>5, <1>6, Zenon DEF IInv

(* The end is signalled once. *)
LEMMA proc_signal_endStep ==
  ASSUME IInv, NEW s \in Structs, proc_signal_end(s)
  PROVE  IInv'
<1>0. TypeOK /\ kproc \in allocated /\ TableExact /\ Absent /\ ThreadStates /\ Targets /\ PidsNotReused
  BY Zenon DEF IInv
<1>1. TypeOK'
  BY <1>0, ProcTableAssumption DEF TypeOK, ThreadStates, Locations, proc_signal_end, Goto, procVars
<1>2. kproc \in allocated' /\ TableExact'
  BY <1>0, ProcTableAssumption DEF TableExact, proc_signal_end, Goto, procVars
<1>3. Absent'
  BY <1>0, ProcTableAssumption DEF Absent, TypeOK, proc_signal_end, Goto, procVars
<1>4. ThreadStates'
  BY <1>0, ProcTableAssumption DEF ThreadStates, TypeOK, proc_signal_end, Goto, procVars
<1>5. Targets'
  BY <1>0, ProcTableAssumption DEF Targets, TypeOK, ThreadStates, proc_signal_end, Goto, procVars
<1>6. PidsNotReused'
  BY <1>0, ProcTableAssumption DEF PidsNotReused, TypeOK, ThreadStates, Targets, proc_signal_end, Goto, procVars
<1> QED BY <1>1, <1>2, <1>3, <1>4, <1>5, <1>6, Zenon DEF IInv

(* A wait for a child starts when the pid leaves the parent's hands. *)
LEMMA sys_waitpidStep ==
  ASSUME IInv, NEW s \in Structs, NEW i \in Pids, WaitFor # "any", sys_waitpid(s, i)
  PROVE  IInv'
<1>0. TypeOK /\ kproc \in allocated /\ TableExact /\ Absent /\ ThreadStates /\ Targets /\ PidsNotReused
  BY Zenon DEF IInv
<1>1. TypeOK'
  BY <1>0, ProcTableAssumption DEF TypeOK, Locations, sys_waitpid, InUserMode, Exit, Goto, procVars
<1>2. kproc \in allocated' /\ TableExact'
  BY <1>0, ProcTableAssumption DEF TableExact, sys_waitpid, InUserMode, Exit, Goto, procVars
<1>3. Absent'
  BY <1>0, ProcTableAssumption DEF Absent, TypeOK, sys_waitpid, InUserMode, Exit, Goto, procVars
<1>4. ThreadStates'
  BY <1>0, ProcTableAssumption DEF ThreadStates, TypeOK, sys_waitpid, InUserMode, Exit, Goto, procVars
<1>7. ASSUME table[i] # NULL PROVE Targets' /\ PidsNotReused'
  <2> DEFINE p == table[i]
  <2>1. p \in Structs /\ p \in allocated /\ p_pid[p] = i
    BY <1>0, <1>7 DEF TypeOK, TableExact
  <2>2. i \in kids[s]
    BY <1>7, Zenon DEF sys_waitpid
  <2>3. p # kproc /\ p # s /\ \A u \in Structs : ref[u] # p
    BY <1>0, <2>2, Zenon DEF PidsNotReused
  <2>4. /\ pc' = [pc EXCEPT ![s] = "wait"] /\ ref' = [ref EXCEPT ![s] = p]
        /\ kids' = [kids EXCEPT ![s] = @ \ {i}]
        /\ UNCHANGED <<table, allocated, p_pid, p_sem>>
    BY <1>7, Zenon DEF sys_waitpid, Goto, procVars
  <2>5. pc[s] = "user"
    BY Zenon DEF sys_waitpid, InUserMode
  <2>6. \A u \in Structs : ref'[u] = IF u = s THEN p ELSE ref[u]
    BY <1>0, <2>4, Zenon DEF TypeOK
  <2>7. \A u \in Structs : pc'[u] = IF u = s THEN "wait" ELSE pc[u]
    BY <1>0, <2>4, Zenon DEF TypeOK
  <2>8. \A u \in Structs : kids'[u] = IF u = s THEN kids[s] \ {i} ELSE kids[u]
    BY <1>0, <2>4, Zenon DEF TypeOK
  <2> HIDE DEF p
  <2>9. Targets'
    <3> SUFFICES ASSUME NEW u \in Structs, ref'[u] # NULL
        PROVE /\ ref'[u] \in allocated' \ {kproc, u}
              /\ \A v \in Structs \ {u} : ref'[v] # ref'[u]
              /\ pc'[u] \in {"copying", "destroy"} => pc'[ref'[u]] = "none" /\ p_sem'[ref'[u]] = 0
      BY Zenon DEF Targets
    <3>1. CASE u = s
      BY <2>1, <2>3, <2>4, <2>6, <2>7, <3>1
    <3>2. CASE u # s
      <4>1. ref[u] \in allocated \ {kproc, u} /\ \A v \in Structs \ {u} : ref[v] # ref[u]
        BY <1>0, <2>6, <3>2 DEF Targets
      <4>2. ref'[u] = ref[u] /\ ref[u] # p /\ pc'[u] = pc[u] /\ ref[u] \in Structs
        BY <1>0, <2>3, <2>6, <2>7, <3>2, <4>1 DEF TypeOK
      <4>3. pc[u] \in {"copying", "destroy"} => pc[ref[u]] = "none" /\ p_sem[ref[u]] = 0
        BY <1>0, <4>2 DEF Targets
      <4>4. pc[ref[u]] = "none" => pc'[ref[u]] = "none"
        BY <2>5, <2>7, <4>2
      <4>5. \A v \in Structs \ {u} : ref'[v] # ref'[u]
        BY <2>6, <4>1, <4>2, Zenon
      <4> QED BY <2>4, <4>1, <4>2, <4>3, <4>4, <4>5
    <3> QED BY <3>1, <3>2
  <2>10. PidsNotReused'
    <3> SUFFICES ASSUME NEW v \in Structs, NEW j \in kids'[v]
        PROVE /\ table'[j] \notin {NULL, kproc, v}
              /\ \A u \in Structs : ref'[u] # table'[j]
              /\ \A u \in Structs \ {v} : j \notin kids'[u]
      BY Zenon DEF PidsNotReused
    <3>1. j \in kids[v] /\ j # i
      BY <1>0, <2>2, <2>8 DEF PidsNotReused
    <3>2. j \in Pids
      BY <1>0, <3>1 DEF TypeOK
    <3>3. table[j] # p
      BY <1>0, <2>1, <3>1, <3>2 DEF TableExact
    <3>4. /\ table[j] \notin {NULL, kproc, v}
          /\ \A u \in Structs : ref[u] # table[j]
          /\ \A u \in Structs \ {v} : j \notin kids[u]
      BY <1>0, <3>1, Zenon DEF PidsNotReused
    <3>5. \A u \in Structs : ref'[u] # table[j]
      BY <2>6, <3>3, <3>4
    <3>6. \A u \in Structs \ {v} : j \notin kids'[u]
      BY <2>8, <3>4
    <3> QED BY <2>4, <3>4, <3>5, <3>6
  <2> QED BY <2>9, <2>10
<1>8. ASSUME table[i] = NULL PROVE Targets' /\ PidsNotReused'
  <2>1. /\ pc' = [pc EXCEPT ![s] = "exit"] /\ ref' = [ref EXCEPT ![s] = NULL]
        /\ kids' = [kids EXCEPT ![s] = {}] /\ pc[s] = "user"
        /\ UNCHANGED <<table, allocated, p_pid, p_sem>>
    BY <1>8, Zenon DEF sys_waitpid, InUserMode, Exit, Goto, procVars
  <2>2. Targets'
    BY <1>0, <2>1 DEF Targets, TypeOK
  <2>3. PidsNotReused'
    BY <1>0, <2>1, ProcTableAssumption DEF PidsNotReused, TypeOK
  <2> QED BY <2>2, <2>3
<1>5. Targets'
  BY <1>7, <1>8
<1>6. PidsNotReused'
  BY <1>7, <1>8
<1> QED BY <1>1, <1>2, <1>3, <1>4, <1>5, <1>6, Zenon DEF IInv

(* A wait ends when the thread of the child is gone. *)
LEMMA proc_waitStep ==
  ASSUME IInv, NEW s \in Structs, proc_wait(s)
  PROVE  IInv'
<1>0. TypeOK /\ kproc \in allocated /\ TableExact /\ Absent /\ ThreadStates /\ Targets /\ PidsNotReused
  BY Zenon DEF IInv
<1>t. s \in Structs /\ ref[s] \in Structs /\ ref[s] # s /\ ref[s] \in allocated /\ ref[s] # kproc
  BY <1>0 DEF TypeOK, ThreadStates, Targets, proc_wait
<1>1. TypeOK'
  BY <1>0, <1>t, ProcTableAssumption DEF TypeOK, Locations, proc_wait, Goto, procVars
<1>2. kproc \in allocated' /\ TableExact'
  BY <1>0, <1>t, ProcTableAssumption DEF TableExact, proc_wait, Goto, procVars
<1>3. Absent'
  BY <1>0, <1>t, ProcTableAssumption DEF Absent, TypeOK, proc_wait, Goto, procVars
<1>4. ThreadStates'
  BY <1>0, <1>t, ProcTableAssumption DEF ThreadStates, TypeOK, proc_wait, Goto, procVars
<1>5. Targets'
  BY <1>0, <1>t, ProcTableAssumption DEF Targets, TypeOK, ThreadStates, proc_wait, Goto, procVars
<1>6. PidsNotReused'
  BY <1>0, <1>t, ProcTableAssumption DEF PidsNotReused, TypeOK, ThreadStates, Targets, proc_wait, Goto, procVars
<1> QED BY <1>1, <1>2, <1>3, <1>4, <1>5, <1>6, Zenon DEF IInv

(* The child starts in user mode. *)
LEMMA StartChildStep ==
  ASSUME IInv, NEW s \in Structs, StartChild(s)
  PROVE  IInv'
<1>0. TypeOK /\ kproc \in allocated /\ TableExact /\ Absent /\ ThreadStates /\ Targets /\ PidsNotReused
  BY Zenon DEF IInv
<1>t. s \in Structs /\ ref[s] \in Structs /\ ref[s] # s /\ ref[s] \in allocated /\ ref[s] # kproc
  BY <1>0 DEF TypeOK, ThreadStates, Targets, StartChild
<1>1. TypeOK'
  BY <1>0, <1>t, ProcTableAssumption DEF TypeOK, Locations, StartChild, procVars
<1>2. kproc \in allocated' /\ TableExact'
  BY <1>0, <1>t, ProcTableAssumption DEF TableExact, StartChild, procVars
<1>3. Absent'
  BY <1>0, <1>t, ProcTableAssumption DEF Absent, TypeOK, StartChild, procVars
<1>4. ThreadStates'
  <2> SUFFICES ASSUME NEW u \in Structs
      PROVE /\ p_numthreads'[u] = 1 <=> pc'[u] \notin {"none", "exit"}
            /\ p_sem'[u] = 1 => pc'[u] = "none"
            /\ ref'[u] # NULL <=> pc'[u] \in {"copying", "started", "wait", "destroy"}
            /\ kids'[u] # {} => pc'[u] \notin {"none", "start", "exit"}
    BY Zenon DEF ThreadStates
  <2>1. pc[ref[s]] = "none" /\ p_sem[ref[s]] = 0 /\ ref[ref[s]] = NULL /\ kids[ref[s]] = {}
    BY <1>0, <1>t DEF ThreadStates, Targets, StartChild
  <2>2. pc'[ref[s]] = "user" /\ pc'[s] = "started" /\ p_numthreads'[ref[s]] = 1
    BY <1>0, <1>t DEF TypeOK, StartChild
  <2>3. UNCHANGED <<p_sem, ref, kids>> /\ p_numthreads'[s] = p_numthreads[s]
    BY <1>0, <1>t DEF TypeOK, StartChild
  <2>4. CASE u = ref[s]
    BY <2>1, <2>2, <2>3, <2>4
  <2>5. CASE u = s
    BY <1>0, <2>2, <2>3, <2>5 DEF ThreadStates, StartChild
  <2>6. CASE u # s /\ u # ref[s]
    BY <1>0, <1>t, <2>3, <2>6 DEF ThreadStates, TypeOK, StartChild
  <2> QED BY <2>4, <2>5, <2>6
<1>5. Targets'
  BY <1>0, <1>t, ProcTableAssumption DEF Targets, TypeOK, ThreadStates, StartChild, procVars
<1>6. PidsNotReused'
  BY <1>0, <1>t, ProcTableAssumption DEF PidsNotReused, TypeOK, ThreadStates, Targets, StartChild, procVars
<1> QED BY <1>1, <1>2, <1>3, <1>4, <1>5, <1>6, Zenon DEF IInv

(* A struct that was just created is worked on by its creator only. *)
LEMMA NewTarget ==
  ASSUME IInv, NEW s \in Structs, NEW p \in Structs, proc_create(p), s # p,
         pc[s] = "user", ref' = [ref EXCEPT ![s] = p],
         \A u \in Structs \ {s, p} : pc'[u] = pc[u],
         pc'[s] # "destroy", pc'[s] = "copying" => pc'[p] = "none",
         UNCHANGED <<p_sem, kids>>
  PROVE  Targets' /\ PidsNotReused'
<1>0. TypeOK /\ kproc \in allocated /\ TableExact /\ Absent /\ ThreadStates /\ Targets /\ PidsNotReused
  BY Zenon DEF IInv
<1>1. p \notin allocated /\ p # kproc /\ allocated' = allocated \cup {p}
  BY <1>0, Zenon DEF proc_create
<1>2. p_sem[p] = 0 /\ \A u \in Structs : ref[u] # p
  BY <1>0, <1>1, ProcTableAssumption DEF Absent, Targets
<1>3. \A i \in Pids : table[i] # NULL => table'[i] = table[i]
  BY CreateExact, Zenon
<1>r. DOMAIN ref = Structs
  BY <1>0 DEF TypeOK
<1>4. \A u \in Structs : ref'[u] = IF u = s THEN p ELSE ref[u]
  BY <1>r, Zenon
<1>5. ASSUME NEW u \in Structs, ref'[u] # NULL
      PROVE /\ ref'[u] \in allocated' \ {kproc, u}
            /\ \A v \in Structs \ {u} : ref'[v] # ref'[u]
            /\ pc'[u] \in {"copying", "destroy"} => pc'[ref'[u]] = "none" /\ p_sem'[ref'[u]] = 0
  <2>1. CASE u = s
    BY <1>1, <1>2, <1>4, <2>1
  <2>2. CASE u # s
    <3>1. ref'[u] = ref[u]
      BY <1>4, <2>2, Zenon
    <3>2. /\ ref[u] \in allocated \ {kproc, u} /\ \A v \in Structs \ {u} : ref[v] # ref[u]
          /\ pc[u] \in {"copying", "destroy"} => pc[ref[u]] = "none" /\ p_sem[ref[u]] = 0
      BY <1>0, <1>5, <3>1 DEF Targets
    <3>3. u # p
      BY <1>0, <1>1, <1>5, <3>1 DEF Absent, ThreadStates
    <3>4. pc'[u] = pc[u] /\ ref[u] \in Structs /\ ref[u] # p
      BY <1>0, <1>1, <2>2, <3>2, <3>3 DEF TypeOK
    <3>5. pc[ref[u]] = "none" => pc'[ref[u]] = "none"
      BY <3>4
    <3>6. \A v \in Structs \ {u} : ref'[v] # ref'[u]
      BY <1>2, <1>4, <3>1, <3>2
    <3> QED BY <1>1, <3>1, <3>2, <3>4, <3>5, <3>6
  <2> QED BY <2>1, <2>2
<1>6. ASSUME NEW v \in Structs, NEW j \in kids[v]
      PROVE /\ table'[j] \notin {NULL, kproc, v}
            /\ \A u \in Structs : ref'[u] # table'[j]
            /\ \A u \in Structs \ {v} : j \notin kids[u]
  <2>1. j \in Pids
    BY <1>0 DEF TypeOK
  <2>2. /\ table[j] \notin {NULL, kproc, v} /\ \A u \in Structs : ref[u] # table[j]
        /\ \A u \in Structs \ {v} : j \notin kids[u]
    BY <1>0, Zenon DEF PidsNotReused
  <2>3. table'[j] = table[j] /\ table[j] \in Structs
    BY <1>0, <1>3, <2>1, <2>2 DEF TypeOK
  <2>4. table[j] # p
    BY <1>0, <1>1, <2>1 DEF TableExact
  <2> QED BY <1>4, <2>2, <2>3, <2>4
<1>7. Targets'
  BY <1>5, Zenon DEF Targets
<1>8. PidsNotReused'
  BY <1>6, Zenon DEF PidsNotReused
<1> QED BY <1>7, <1>8

(* The menu creates a process and waits for it. *)
LEMMA common_progStep ==
  ASSUME IInv, NEW p \in Structs, common_prog(p)
  PROVE  IInv'
<1>0. TypeOK /\ kproc \in allocated /\ TableExact /\ Absent /\ ThreadStates /\ Targets /\ PidsNotReused
  BY Zenon DEF IInv
<1>1. proc_create(p) /\ p \notin allocated /\ p # kproc /\ pc[kproc] = "user"
  BY <1>0, Zenon DEF common_prog, proc_create
<1>2. pc[p] = "none" /\ p_sem[p] = 0 /\ ref[p] = NULL /\ kids[p] = {}
  BY <1>0, <1>1 DEF Absent, ThreadStates
<1>3. TypeOK'
  BY <1>0, <1>1, CreateExact, ProcTableAssumption DEF TypeOK, Locations, common_prog
<1>4. kproc \in allocated' /\ TableExact'
  BY <1>1, CreateExact
<1>5. Absent'
  BY <1>0, <1>1, ProcTableAssumption DEF Absent, TypeOK, common_prog, proc_create
<1>6. ThreadStates'
  BY <1>0, <1>1, <1>2, ProcTableAssumption DEF ThreadStates, TypeOK, common_prog
<1>7. /\ ref' = [ref EXCEPT ![kproc] = p] /\ UNCHANGED <<p_sem, kids>> /\ pc'[kproc] = "wait"
      /\ \A u \in Structs \ {kproc, p} : pc'[u] = pc[u]
  BY <1>0, <1>1, ProcTableAssumption DEF TypeOK, common_prog
<1>8. Targets' /\ PidsNotReused'
  BY <1>1, <1>7, NewTarget, ProcTableAssumption, Zenon
<1> QED BY <1>3, <1>4, <1>5, <1>6, <1>8, Zenon DEF IInv

(* fork creates a process that has no thread yet. *)
LEMMA sys_forkStep ==
  ASSUME IInv, NEW s \in Structs, NEW p \in Structs, sys_fork(s, p)
  PROVE  IInv'
<1>0. TypeOK /\ kproc \in allocated /\ TableExact /\ Absent /\ ThreadStates /\ Targets /\ PidsNotReused
  BY Zenon DEF IInv
<1>1. proc_create(p) /\ p \notin allocated /\ pc[s] = "user"
  BY Zenon DEF sys_fork, InUserMode, proc_create
<1>2. pc[p] = "none" /\ p_sem[p] = 0 /\ p # s
  BY <1>0, <1>1 DEF Absent
<1>3. TypeOK'
  BY <1>0, <1>1, CreateExact DEF TypeOK, Locations, sys_fork, Goto
<1>4. kproc \in allocated' /\ TableExact'
  BY <1>1, CreateExact
<1>5. Absent'
  BY <1>0, <1>1 DEF Absent, TypeOK, sys_fork, Goto, proc_create
<1>6. ThreadStates'
  BY <1>0, <1>1, <1>2, ProcTableAssumption DEF ThreadStates, TypeOK, sys_fork, Goto
<1>7. /\ ref' = [ref EXCEPT ![s] = p] /\ UNCHANGED <<p_sem, kids>> /\ pc'[s] = "copying"
      /\ \A u \in Structs \ {s} : pc'[u] = pc[u]
  BY <1>0 DEF TypeOK, sys_fork, Goto
<1>8. Targets' /\ PidsNotReused'
  BY <1>1, <1>2, <1>7, NewTarget, Zenon
<1> QED BY <1>3, <1>4, <1>5, <1>6, <1>8, Zenon DEF IInv

(* proc_destroy, at the end of a wait or when as_copy has failed, takes away *)
(* a struct that nobody else works on and whose pid no parent holds.         *)
LEMMA DestroyStep ==
  ASSUME IInv, NEW s \in Structs, pc[s] \in {"copying", "destroy"},
         proc_destroy(ref[s]), Goto(s, "user", NULL), UNCHANGED <<p_numthreads, kids>>
  PROVE  IInv'
<1>0. TypeOK /\ kproc \in allocated /\ TableExact /\ Absent /\ ThreadStates /\ Targets /\ PidsNotReused
  BY Zenon DEF IInv
<1>1. ref[s] \in allocated /\ ref[s] # kproc /\ ref[s] # s /\ ref[s] \in Structs
  BY <1>0 DEF TypeOK, ThreadStates, Targets
<1>2. pc[ref[s]] = "none" /\ \A u \in Structs \ {s} : ref[u] # ref[s]
  BY <1>0, <1>1, ProcTableAssumption DEF Targets
<1>3. p_numthreads[ref[s]] = 0
  BY Zenon DEF proc_destroy
<1>4. TypeOK'
  BY <1>0, <1>1, DestroyExact DEF TypeOK, Locations, Goto
<1>5. kproc \in allocated' /\ TableExact'
  BY <1>1, DestroyExact
<1>6. Absent'
  BY <1>0, <1>1, <1>2, <1>3 DEF Absent, TypeOK, Goto, proc_destroy
<1>7. ThreadStates'
  BY <1>0, <1>1, <1>2, ProcTableAssumption DEF ThreadStates, TypeOK, Goto, proc_destroy
<1>8. Targets'
  BY <1>0, <1>1, <1>2 DEF Targets, TypeOK, Goto, proc_destroy
<1>9. PidsNotReused'
  <2> SUFFICES ASSUME NEW v \in Structs, NEW j \in kids[v]
      PROVE /\ table'[j] \notin {NULL, kproc, v}
            /\ \A u \in Structs : ref'[u] # table'[j]
            /\ \A u \in Structs \ {v} : j \notin kids[u]
    BY Zenon DEF PidsNotReused
  <2>1. j \in Pids
    BY <1>0 DEF TypeOK
  <2>2. /\ table[j] \notin {NULL, kproc, v} /\ \A u \in Structs : ref[u] # table[j]
        /\ \A u \in Structs \ {v} : j \notin kids[u]
    BY <1>0, Zenon DEF PidsNotReused
  <2>3. table'[j] = table[j]
    BY <1>1, <2>1, <2>2, DestroyExact
  <2>4. \A u \in Structs : ref'[u] = ref[u] \/ ref'[u] = NULL
    BY <1>0 DEF TypeOK, Goto
  <2> QED BY <2>2, <2>3, <2>4
<1> QED BY <1>4, <1>5, <1>6, <1>7, <1>8, <1>9, Zenon DEF IInv

(* proc_bootstrap establishes the invariant. *)
LEMMA InitIInv ==
  ASSUME Init
  PROVE  IInv
<1>1. TypeOK /\ kproc \in allocated /\ TableExact
  BY ProcTableAssumption DEF Init, TypeOK, Locations, Pids, TableExact
<1>2. Absent /\ ThreadStates /\ Targets /\ PidsNotReused
  BY ProcTableAssumption DEF Init, Absent, ThreadStates, Targets, PidsNotReused
<1> QED BY <1>1, <1>2, Zenon DEF IInv

(* Every step of the menu, of fork, of exit and of waitpid keeps it. *)
LEMMA NextIInv ==
  ASSUME IInv, WaitFor # "any", [Next]_vars
  PROVE  IInv'
<1>1. CASE UNCHANGED vars
  BY <1>1 DEF vars, procVars, IInv, TypeOK, TableExact, Absent, ThreadStates, Targets,
    PidsNotReused
<1>2. CASE ProgramNotStarted
  BY <1>2, ProgramNotStartedStep, Zenon
<1>3. CASE \E p \in Structs : common_prog(p)
  BY <1>3, common_progStep, Zenon
<1>4. ASSUME NEW s \in Structs, \E p \in Structs : sys_fork(s, p) PROVE IInv'
  BY <1>4, sys_forkStep, Zenon
<1>5. ASSUME NEW s \in Structs, \E i \in Pids : sys_waitpid(s, i) PROVE IInv'
  BY <1>5, sys_waitpidStep, Zenon
<1>6. ASSUME NEW s \in Structs, sys__exit(s) PROVE IInv'
  BY <1>6, sys__exitStep, Zenon
<1>7. ASSUME NEW s \in Structs, Proceed(s) PROVE IInv'
  <2>1. CASE runprogram(s)
    BY <2>1, runprogramStep, Zenon
  <2>2. CASE ForkFails(s)
    BY <2>2, DestroyStep, Zenon DEF ForkFails
  <2>3. CASE StartChild(s)
    BY <2>3, StartChildStep, Zenon
  <2>4. CASE ReturnPid(s)
    BY <2>4, ReturnPidStep, Zenon
  <2>5. CASE proc_signal_end(s)
    BY <2>5, proc_signal_endStep, Zenon
  <2>6. CASE proc_wait(s)
    BY <2>6, proc_waitStep, Zenon
  <2>7. CASE Destroy(s)
    BY <2>7, DestroyStep, Zenon DEF Destroy
  <2> QED BY <1>7, <2>1, <2>2, <2>3, <2>4, <2>5, <2>6, <2>7, Zenon DEF Proceed
<1> QED BY <1>1, <1>2, <1>3, <1>4, <1>5, <1>6, <1>7, Zenon DEF Next

(* The inductive invariant of the process table, when programs wait only for *)
(* their children or for pids not in use.                                    *)
THEOREM ProcTableInvariant ==
  ASSUME WaitFor # "any"
  PROVE  Spec => []IInv
<1>1. Init => IInv
  BY InitIInv
<1>2. IInv /\ [Next]_vars => IInv'
  BY NextIInv
<1> QED BY <1>1, <1>2, PTL DEF Spec

(* proc_create and proc_destroy keep the table and the structs in agreement: *)
(* every process is in the slot of its pid, and no slot holds a freed struct. *)
THEOREM TableExactAlways ==
  ASSUME WaitFor # "any"
  PROVE  Spec => []TableExact
<1>1. IInv => TableExact
  BY Zenon DEF IInv
<1> QED BY <1>1, ProcTableInvariant, PTL

(* Whoever calls proc_destroy at the end of proc_wait has the only reference. *)
THEOREM OnlyReferenceAlways ==
  ASSUME WaitFor # "any"
  PROVE  Spec => []OnlyReference
<1>1. IInv => OnlyReference
  BY Zenon DEF IInv, ThreadStates, Targets, OnlyReference
<1> QED BY <1>1, ProcTableInvariant, PTL

(* The KASSERT of proc_destroy on p_numthreads holds at the end of a wait:   *)
(* sys__exit removes the thread before it signals.                           *)
THEOREM NoThreadLeftAlways ==
  ASSUME WaitFor # "any"
  PROVE  Spec => []NoThreadLeft
<1>1. ASSUME IInv, NEW s \in Structs, pc[s] = "destroy" PROVE p_numthreads[ref[s]] = 0
  <2>1. TypeOK /\ ThreadStates /\ Targets
    BY <1>1, Zenon DEF IInv
  <2>2. ref[s] # NULL /\ ref[s] \in Structs
    BY <1>1, <2>1 DEF TypeOK, ThreadStates
  <2>3. pc[ref[s]] = "none" /\ p_numthreads[ref[s]] \in {0, 1}
    BY <1>1, <2>1, <2>2 DEF TypeOK, Targets
  <2> QED BY <2>1, <2>2, <2>3 DEF ThreadStates
<1>2. IInv => NoThreadLeft
  BY <1>1, Zenon DEF NoThreadLeft
<1> QED BY <1>2, ProcTableInvariant, PTL

(* The pid that fork returned is the child's until its parent waits for it,  *)
(* and only that parent waits for it.                                        *)
THEOREM PidsNotReusedAlways ==
  ASSUME WaitFor # "any"
  PROVE  Spec => []PidsNotReused
<1>1. IInv => PidsNotReused
  BY Zenon DEF IInv
<1> QED BY <1>1, ProcTableInvariant, PTL
=============================================================================
