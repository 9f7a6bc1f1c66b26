---------------------------------- MODULE Vm ----------------------------------
(***************************************************************************)
(* The virtual memory system as a whole: single-threaded processes that    *)
(* fault (vm_fault, pt_get_frame_from_page), evict each other's pages      *)
(* (get_n_frames), swap them in (load_from_swap), fork (pt_copy), exit and *)
(* are destroyed by whoever waits for them (pt_destroy), and a kernel      *)
(* thread that allocates and frees single frames (alloc_kpages).           *)
(*                                                                         *)
(* A step is what runs without a switch to another thread that could see a *)
(* difference: an interval with interrupts off, or one under swap_lock.    *)
(* Each step of thread t runs after t was dispatched; thread_switch calls  *)
(* as_activate, which empties the TLB, so only the entries that t itself   *)
(* loaded since then are left.                                             *)
(***************************************************************************)
EXTENDS Coremap, Swapfile, FiniteSets

CONSTANTS
  Procs,         \* processes, each with one thread
  KernelThread,  \* a thread of the kernel process
  LastPage,      \* pages of a process, all in one second-level table
  Values,        \* what a page can hold
  Zero,          \* ... and what it holds after bzero or load_page
  MaxKern,       \* bound: frames the kernel thread holds at a time
  ForkResident,  \* bound: pages in memory when a process calls fork
  Exits,         \* processes that may call exit
  Waiters,       \* threads that call waitpid
  IOErrors       \* whether VOP_READ and VOP_WRITE may fail

Pages == 1..LastPage
Threads == Procs \cup {KernelThread}

ASSUME VmAssumption ==
  /\ Entries = Procs \X Pages
  /\ KernelThread \notin Procs /\ NoThread \notin Threads
  /\ IsFiniteSet(Procs) /\ NULL \notin Procs \cup Frames
  /\ LastPage \in Nat \ {0} /\ Zero \in Values
  /\ MaxKern \in Nat /\ ForkResident \in Nat /\ Exits \subseteq Procs
  /\ Waiters \subseteq Threads /\ IOErrors \in BOOLEAN

VARIABLES
  valid,    \* pt_entry.valid: set of entries
  row,      \* the frame of a process's second-level table, or NULL
  mem,      \* what each frame holds
  tlb,      \* pairs <<entry, frame>>
  status,   \* of a process
  pt_lock,  \* processes that hold their own pt_lock while in user mode
  kern,     \* frames the kernel thread holds
  th        \* program counter and locals of each thread

swapVars == <<refs, stored, swap_lock>>
vars == <<cmVars, pteVars, swapVars, valid, row, mem, tlb, status, pt_lock, kern, th>>

Locations == {"none", "user", "fault", "alloc", "swap", "evict", "drop", "got", "install", "tlb",
              "copy", "reap", "destroy", "free", "recheck"}
Purposes == {"none", "row", "load", "swapin", "copy", "kern"}

TypeOK ==
  /\ CoremapTypeOK
  /\ frame_no \in [Entries -> Frames \cup Slots]
  /\ swp \subseteq Entries /\ swapping \subseteq Entries /\ valid \subseteq Entries
  /\ refs \in [Slots -> 0..Cardinality(Procs)]
  /\ stored \in [Slots -> Values \cup {Junk}]
  /\ swap_lock \in Threads \cup {NoThread}
  /\ row \in [Procs -> Frames \cup {NULL}]
  /\ mem \in [Frames -> Values \cup {Junk}]
  /\ tlb \subseteq Entries \X Frames
  /\ status \in [Procs -> {"unborn", "embryo", "run", "exited", "reaped"}]
  /\ pt_lock \subseteq Procs
  /\ kern \subseteq Frames
  /\ th \in [Threads -> [pc  : Locations,
                         for : Purposes,            \* what get_n_frames is called for
                         pg  : 0..LastPage+1,       \* the page being handled
                         frm : Frames,              \* the victim, or the frame obtained
                         idx : Slots,               \* swap_index
                         as  : Procs \cup {NULL}]]  \* the table being copied to or destroyed

At(l) == [pc |-> l, for |-> "none", pg |-> 0, frm |-> 0, idx |-> 0, as |-> NULL]

(* After vm_bootstrap and swap_init, with the kernel thread in the menu. *)
Init ==
  /\ coremap_bootstrap
  /\ frame_no = [e \in Entries |-> 0]
  /\ swp = {} /\ swapping = {} /\ valid = {}
  /\ refs = [s \in Slots |-> 0]
  /\ stored = [s \in Slots |-> Junk]
  /\ swap_lock = NoThread
  /\ row = [p \in Procs |-> NULL]
  /\ mem = [f \in Frames |-> Zero]
  /\ tlb = {} /\ pt_lock = {} /\ kern = {}
  /\ status = [p \in Procs |-> "unborn"]
  /\ th = [t \in Threads |-> At(IF t = KernelThread THEN "user" ELSE "none")]

-----------------------------------------------------------------------------
pc(t) == th[t].pc
Goto(t, l) == th' = [th EXCEPT ![t].pc = l]
Leave(t) == th' = [th EXCEPT ![t] = At("user")]

Resident(e) == e \in valid \ swp

(* What is left of the TLB when t runs; and p's translation of its page q. *)
Tlb(t) == {x \in tlb : x[1][1] = t}

Mapped(p, q) == {x[2] : x \in {y \in Tlb(p) : y[1] = <<p, q>>}}

invalidate_nothing(T, f) == T

invalidate_entry_by_paddr(T, f) == {x \in T : x[2] # f}

UsableThoughSwapping(e) == Resident(e)

(* The page is in memory and not being swapped out. *)
Usable(e) == Resident(e) /\ e \notin swapping

(* The loops of pt_copy and pt_destroy over the second-level table. *)
MorePages(t) == th[t].pg <= LastPage

(* The page table entry that get_n_frames will make the owner of the frame. *)
Entry(t) ==
  IF th[t].for \in {"row", "kern"} THEN NULL
  ELSE <<IF th[t].for = "copy" THEN th[t].as ELSE t, th[t].pg>>

(* get_user_frame or get_kernel_frame is called. *)
Request(t, use) == th' = [th EXCEPT ![t].pc = "alloc", ![t].for = use]

(* User code stores v in its page q. *)
Write(p, q, v) ==
  /\ pc(p) = "user" /\ status[p] = "run"
  /\ \E f \in Mapped(p, q) : mem' = [mem EXCEPT ![f] = v]
  /\ tlb' = Tlb(p)
  /\ UNCHANGED <<cmVars, pteVars, swapVars, valid, row, status, pt_lock, kern, th>>

-----------------------------------------------------------------------------
(* vm_fault and pt_get_frame_from_page. A process that already holds its     *)
(* pt_lock is taken to be inside load_page: the KASSERTs of lines 108-110.   *)
vm_fault(p, q) ==
  /\ pc(p) = "user" /\ status[p] = "run" /\ Mapped(p, q) = {}
  /\ p \in pt_lock => row[p] # NULL /\ <<p, q>> \in valid /\ frame_no[<<p, q>>] # 0
  /\ th' = [th EXCEPT ![p].pc = "fault", ![p].pg = q]
  /\ tlb' = Tlb(p)
  /\ UNCHANGED <<cmVars, pteVars, swapVars, valid, row, mem, status, pt_lock, kern>>

NeedFrame(p) ==
  LET e == <<p, th[p].pg>> IN
  /\ pc(p) = "fault"
  /\ \/ row[p] = NULL /\ Request(p, "row")
     \/ row[p] # NULL /\ e \notin valid /\ Request(p, "load")
     \/ row[p] # NULL /\ e \in valid \cap swp /\ e \notin swapping /\ Request(p, "swapin")
  /\ tlb' = Tlb(p)
  /\ UNCHANGED <<cmVars, pteVars, swapVars, valid, row, mem, status, pt_lock, kern>>

(* The page is in memory. While it is swapping the thread yields and retries. *)
tlb_reload(p) ==
  LET e == <<p, th[p].pg>> IN
  /\ pc(p) = "fault" /\ row[p] # NULL /\ Usable(e)
  /\ coremap_set_fixed(frame_no[e])
  /\ th' = [th EXCEPT ![p].pc = "tlb", ![p].frm = frame_no[e]]
  /\ tlb' = Tlb(p)
  /\ UNCHANGED <<pteVars, swapVars, valid, row, mem, status, pt_lock, kern>>

(* The end of vm_fault: tlb_write and coremap_set_unfixed. *)
FillTlb(p) ==
  /\ pc(p) = "tlb"
  /\ tlb' = Tlb(p) \cup {<<<<p, th[p].pg>>, th[p].frm>>}
  /\ coremap_set_unfixed(th[p].frm)
  /\ Leave(p)
  /\ UNCHANGED <<pteVars, swapVars, valid, row, mem, status, pt_lock, kern>>

-----------------------------------------------------------------------------
(* get_user_frame and get_kernel_frame. The attempts are not counted: a      *)
(* thread that finds no frame gives up now or tries again.                   *)
TakeFree(t) ==
  /\ pc(t) = "alloc" /\ Found(1)
  /\ TakeFrames(FirstFit(1), 1, Entry(t))
  /\ mem' = [mem EXCEPT ![FirstFit(1)] = Zero]
  /\ th' = [th EXCEPT ![t].pc = "got", ![t].frm = FirstFit(1)]
  /\ tlb' = Tlb(t)
  /\ UNCHANGED <<pteVars, swapVars, valid, row, status, pt_lock, kern>>

StartSwapOut(t) ==
  /\ pc(t) = "alloc" /\ ~Found(1) /\ get_victim # -1
  /\ MarkVictim(get_victim)
  /\ th' = [th EXCEPT ![t].pc = "swap", ![t].frm = get_victim]
  /\ tlb' = Tlb(t)
  /\ UNCHANGED <<swapVars, valid, row, mem, status, pt_lock, kern>>

(* swap_set. Nobody writes the victim's frame meanwhile (NoWriteDuringSwapOut). *)
SwapSet(t) ==
  /\ pc(t) = "swap" /\ MayUseSwap(t)
  /\ swap_set(mem[th[t].frm])
  /\ th' = [th EXCEPT ![t].pc = "evict", ![t].idx = FirstFree]
  /\ tlb' = Tlb(t)
  /\ UNCHANGED <<cmVars, pteVars, swap_lock, valid, row, mem, status, pt_lock, kern>>

(* The atomic section after swap_set, with invalidate_entry_by_paddr, and    *)
(* the bzero of the frame.                                                   *)
Evict(t) ==
  LET f   == th[t].frm
      old == pt_entry[f]
  IN
  /\ pc(t) = "evict"
  /\ ReassignVictim(f, th[t].idx, Entry(t))
  /\ mem' = [mem EXCEPT ![f] = Zero]
  /\ th' = [th EXCEPT ![t].pc = IF old = NULL THEN "drop" ELSE "got",
                      ![t].idx = IF old = NULL THEN @ ELSE 0]
  /\ tlb' = IF old = NULL THEN Tlb(t) ELSE invalidate_entry_by_paddr(Tlb(t), frame_no[old])
  /\ UNCHANGED <<swapVars, valid, row, status, pt_lock, kern>>

(* victim_free: the slot just written is not needed. *)
DropSlot(t) ==
  /\ pc(t) = "drop" /\ MayUseSwap(t)
  /\ swap_get(th[t].idx)
  /\ th' = [th EXCEPT ![t].pc = "got", ![t].idx = 0]
  /\ tlb' = Tlb(t)
  /\ UNCHANGED <<cmVars, pteVars, swap_lock, valid, row, mem, status, pt_lock, kern>>

(* sys__exit, from user mode or from vm_fault: the address space stays until *)
(* proc_destroy.                                                             *)
Die(p) ==
  /\ th' = [th EXCEPT ![p] = At("none")]
  /\ status' = [status EXCEPT ![p] = "exited"]

(* No frame: alloc_kpages returns 0, a fault ends the process, and pt_copy   *)
(* returns to as_copy, which destroys the new address space. pt_copy         *)
(* releases swap_lock but not the pt_lock of the old table.                  *)
GiveUp(t) ==
  IF t = KernelThread
    THEN Leave(t) /\ UNCHANGED <<swap_lock, status, pt_lock>>
  ELSE IF th[t].as # NULL
    THEN /\ th' = [th EXCEPT ![t] = [At("reap") EXCEPT !.as = th[t].as]]
         /\ swap_lock' = NoThread
         /\ pt_lock' = pt_lock \cup {t}
         /\ UNCHANGED status
  ELSE Die(t) /\ UNCHANGED <<swap_lock, pt_lock>>

NoFrame(t) ==
  /\ pc(t) = "alloc" /\ ~Found(1) /\ get_victim = -1
  /\ GiveUp(t)
  /\ tlb' = Tlb(t)
  /\ UNCHANGED <<cmVars, pteVars, refs, stored, valid, row, mem, kern>>

RetryWithVictim(t) == Goto(t, "got")

(* The next attempt of get_n_frames. *)
Retry(t) == th' = [th EXCEPT ![t].pc = "alloc", ![t].frm = 0]

(* VOP_WRITE failed: the victim stays where it is, and the thread tries      *)
(* again or gives up. When the victim's owner is gone the code stores        *)
(* through a null pointer, and the fault that follows ends the process.      *)
SwapSetFails(t) ==
  /\ IOErrors /\ pc(t) = "swap" /\ MayUseSwap(t)
  /\ swap_set(mem[th[t].frm])
  /\ UnmarkVictim(th[t].frm)
  /\ \/ pt_entry[th[t].frm] # NULL /\ Retry(t) /\ UNCHANGED <<swap_lock, status, pt_lock>>
     \/ pt_entry[th[t].frm] # NULL /\ GiveUp(t)
     \/ /\ pt_entry[th[t].frm] = NULL /\ t \in Procs
        /\ Die(t) /\ UNCHANGED <<swap_lock, pt_lock>>
  /\ tlb' = Tlb(t)
  /\ UNCHANGED <<valid, row, mem, kern>>

-----------------------------------------------------------------------------
(* What the caller does with the frame. *)

(* init_rows, called by pt_get_frame_from_page or by pt_copy. *)
init_rows(t) ==
  LET new == th[t].as IN
  /\ pc(t) = "got" /\ th[t].for = "row"
  /\ row' = [row EXCEPT ![IF new = NULL THEN t ELSE new] = th[t].frm]
  /\ th' = [th EXCEPT ![t] = [At(IF new = NULL THEN "fault" ELSE "copy") EXCEPT
                                !.pg = IF new = NULL THEN th[t].pg ELSE 1, !.as = new]]
  /\ tlb' = Tlb(t)
  /\ UNCHANGED <<cmVars, pteVars, swapVars, valid, mem, status, pt_lock, kern>>

(* load_frame; reading the executable may fail. *)
load_frame(p) ==
  /\ pc(p) = "got" /\ th[p].for = "load"
  /\ frame_no' = [frame_no EXCEPT ![Entry(p)] = th[p].frm]
  /\ valid' = valid \cup {Entry(p)}
  /\ \/ Goto(p, "tlb") /\ UNCHANGED status
     \/ IOErrors /\ Die(p)
  /\ tlb' = Tlb(p)
  /\ UNCHANGED <<cmVars, swp, swapping, swapVars, row, mem, pt_lock, kern>>

(* load_from_swap: swap_get reads the slot into the frame; afterwards,       *)
(* without swap_lock, the entry is updated.                                  *)
SwapIn(p) ==
  /\ pc(p) = "got" /\ th[p].for = "swapin" /\ MayUseSwap(p)
  /\ swap_get(frame_no[Entry(p)])
  /\ \/ /\ mem' = [mem EXCEPT ![th[p].frm] = stored[frame_no[Entry(p)]]]
        /\ Goto(p, "install") /\ UNCHANGED status
     \/ IOErrors /\ Die(p) /\ UNCHANGED mem
  /\ tlb' = Tlb(p)
  /\ UNCHANGED <<cmVars, pteVars, swap_lock, valid, row, pt_lock, kern>>

Install(p) ==
  /\ pc(p) = "install"
  /\ frame_no' = [frame_no EXCEPT ![Entry(p)] = th[p].frm]
  /\ swp' = swp \ {Entry(p)}
  /\ Goto(p, "tlb")
  /\ tlb' = Tlb(p)
  /\ UNCHANGED <<cmVars, swapping, swapVars, valid, row, mem, status, pt_lock, kern>>

(* The kernel thread: alloc_kpages(1) and free_kpages. *)
AllocKernel ==
  /\ pc(KernelThread) = "user" /\ Cardinality(kern) < MaxKern
  /\ Request(KernelThread, "kern")
  /\ tlb' = {}
  /\ UNCHANGED <<cmVars, pteVars, swapVars, valid, row, mem, status, pt_lock, kern>>

GotKernel ==
  /\ pc(KernelThread) = "got"
  /\ kern' = kern \cup {th[KernelThread].frm}
  /\ Leave(KernelThread)
  /\ tlb' = {}
  /\ UNCHANGED <<cmVars, pteVars, swapVars, valid, row, mem, status, pt_lock>>

FreeKernel(f) ==
  /\ pc(KernelThread) = "user" /\ f \in kern
  /\ free_frame(f)
  /\ kern' = kern \ {f}
  /\ tlb' = {}
  /\ UNCHANGED <<pteVars, swapVars, valid, row, mem, status, pt_lock, th>>

-----------------------------------------------------------------------------
(* The menu starts a program, in the model only when no process is left. *)
runprogram(p) ==
  /\ pc(KernelThread) = "user" /\ \A q \in Procs : status[q] = "unborn"
  /\ status' = [status EXCEPT ![p] = "run"]
  /\ th' = [th EXCEPT ![p] = At("user")]
  /\ tlb' = {}
  /\ UNCHANGED <<cmVars, pteVars, swapVars, valid, row, mem, pt_lock, kern>>

(* fork: pt_copy holds the pt_lock of the old table and swap_lock. *)
Fork(p, c) ==
  /\ pc(p) = "user" /\ status[p] = "run" /\ status[c] = "unborn"
  /\ Cardinality({q \in Pages : Resident(<<p, q>>)}) <= ForkResident
  /\ p \notin pt_lock /\ swap_lock = NoThread
  /\ swap_lock' = p
  /\ status' = [status EXCEPT ![c] = "embryo"]
  /\ th' = [th EXCEPT ![p] = IF row[p] = NULL
                               THEN [At("copy") EXCEPT !.as = c, !.pg = LastPage + 1]
                               ELSE [At("alloc") EXCEPT !.as = c, !.for = "row"]]
  /\ tlb' = Tlb(p)
  /\ UNCHANGED <<cmVars, pteVars, refs, stored, valid, row, mem, pt_lock, kern>>

(* One turn of pt_copy's loop: a page in the swap file is shared, a page in  *)
(* memory gets a frame, into which it is then copied.                        *)
CopyEntry(p) ==
  LET old == <<p, th[p].pg>>
      new == <<th[p].as, th[p].pg>>
  IN
  /\ pc(p) = "copy" /\ MorePages(p)
  /\ \/ /\ old \notin valid
        /\ th' = [th EXCEPT ![p].pg = @ + 1]
        /\ UNCHANGED <<frame_no, swp, refs, stored, valid>>
     \/ /\ old \in valid \cap swp
        /\ swp' = swp \cup {new}
        /\ valid' = valid \cup {new}
        /\ frame_no' = [frame_no EXCEPT ![new] = frame_no[old]]
        /\ swap_inc_ref(frame_no[old])
        /\ th' = [th EXCEPT ![p].pg = @ + 1]
     \/ /\ Resident(old)
        /\ valid' = valid \cup {new}
        /\ Request(p, "copy")
        /\ UNCHANGED <<frame_no, swp, refs, stored>>
  /\ tlb' = Tlb(p)
  /\ UNCHANGED <<cmVars, swapping, swap_lock, row, mem, status, pt_lock, kern>>

memcpy_never(dst, src) == UNCHANGED mem

memcpy(dst, src) == mem' = [mem EXCEPT ![dst] = mem[src]]

(* memcpy from the frame that the old entry names now. *)
CopyFrame(p) ==
  LET old == <<p, th[p].pg>>
      f   == th[p].frm
  IN
  /\ pc(p) = "got" /\ th[p].for = "copy"
  /\ frame_no' = [frame_no EXCEPT ![Entry(p)] = f]
  /\ memcpy(f, frame_no[old])
  /\ coremap_set_unfixed(f)
  /\ th' = [th EXCEPT ![p] = [At("copy") EXCEPT !.as = th[p].as, !.pg = th[p].pg + 1]]
  /\ tlb' = Tlb(p)
  /\ UNCHANGED <<swp, swapping, swapVars, valid, row, status, pt_lock, kern>>

CopyDone(p) ==
  /\ pc(p) = "copy" /\ ~MorePages(p)
  /\ swap_lock' = NoThread
  /\ status' = [status EXCEPT ![th[p].as] = "run"]
  /\ th' = [th EXCEPT ![p] = At("user"), ![th[p].as] = At("user")]
  /\ tlb' = Tlb(p)
  /\ UNCHANGED <<cmVars, pteVars, refs, stored, valid, row, mem, pt_lock, kern>>

-----------------------------------------------------------------------------
sys__exit(p) ==
  /\ p \in Exits /\ pc(p) = "user" /\ status[p] = "run"
  /\ Die(p)
  /\ tlb' = Tlb(p)
  /\ UNCHANGED <<cmVars, pteVars, swapVars, valid, row, mem, pt_lock, kern>>

(* waitpid by another process or by the menu: proc_wait calls proc_destroy. *)
proc_wait(t, c) ==
  /\ t \in Waiters /\ pc(t) = "user" /\ t # c /\ status[c] = "exited"
  /\ status' = [status EXCEPT ![c] = "reaped"]
  /\ th' = [th EXCEPT ![t] = [At("reap") EXCEPT !.as = c]]
  /\ tlb' = Tlb(t)
  /\ UNCHANGED <<cmVars, pteVars, swapVars, valid, row, mem, pt_lock, kern>>

(* pt_destroy. *)
StartDestroy(t) ==
  /\ pc(t) = "reap" /\ swap_lock = NoThread
  /\ swap_lock' = t
  /\ th' = [th EXCEPT ![t].pc = "destroy",
                      ![t].pg = IF row[th[t].as] = NULL THEN LastPage + 1 ELSE 1]
  /\ tlb' = Tlb(t)
  /\ UNCHANGED <<cmVars, pteVars, refs, stored, valid, row, mem, status, pt_lock, kern>>

NextEntry(t) ==
  th' = [th EXCEPT ![t].pc = "destroy", ![t].pg = @ + 1, ![t].frm = 0]

(* The loop body: the test of line 48, the call of line 49, and the test and *)
(* call of lines 50-51.                                                      *)
CheckEntry(t) ==
  LET e == <<th[t].as, th[t].pg>> IN
  /\ pc(t) = "destroy" /\ MorePages(t)
  /\ \/ /\ Resident(e)
        /\ th' = [th EXCEPT ![t].pc = "free", ![t].frm = frame_no[e]]
        /\ UNCHANGED <<refs, stored>>
     \/ e \in valid \cap swp /\ swap_get(frame_no[e]) /\ NextEntry(t)
     \/ e \notin valid /\ NextEntry(t) /\ UNCHANGED <<refs, stored>>
  /\ tlb' = Tlb(t)
  /\ UNCHANGED <<cmVars, pteVars, swap_lock, valid, row, mem, status, pt_lock, kern>>

(* The build may keep the entry it read for the test, or read it again. *)
FreeEntry(t) ==
  LET e == <<th[t].as, th[t].pg>> IN
  /\ pc(t) = "free"
  /\ \E f \in {th[t].frm, frame_no[e]} : nframes[f] > 0 /\ free_frame(f)
  /\ Goto(t, "recheck")
  /\ tlb' = Tlb(t)
  /\ UNCHANGED <<pteVars, swapVars, valid, row, mem, status, pt_lock, kern>>

RecheckEntry(t) ==
  LET e == <<th[t].as, th[t].pg>> IN
  /\ pc(t) = "recheck"
  /\ IF e \in swp THEN swap_get(frame_no[e]) ELSE UNCHANGED <<refs, stored>>
  /\ NextEntry(t)
  /\ tlb' = Tlb(t)
  /\ UNCHANGED <<cmVars, pteVars, swap_lock, valid, row, mem, status, pt_lock, kern>>

FreeRow(c) == IF row[c] = NULL THEN UNCHANGED cmVars ELSE free_frame(row[c])

(* kfree of the second-level table; its memory no longer holds entries. *)
DestroyDone(t) ==
  LET c    == th[t].as
      mine == {e \in Entries : e[1] = c}
  IN
  /\ pc(t) = "destroy" /\ ~MorePages(t)
  /\ FreeRow(c)
  /\ row' = [row EXCEPT ![c] = NULL]
  /\ valid' = valid \ mine /\ swp' = swp \ mine /\ swapping' = swapping \ mine
  /\ frame_no' = [e \in Entries |-> IF e \in mine THEN 0 ELSE frame_no[e]]
  /\ swap_lock' = NoThread
  /\ status' = [status EXCEPT ![c] = "unborn"]
  /\ Leave(t)
  /\ tlb' = Tlb(t)
  /\ UNCHANGED <<refs, stored, mem, pt_lock, kern>>

-----------------------------------------------------------------------------
(* The steps a thread takes inside the kernel once it has entered it. *)
Allocate(t) == TakeFree(t) \/ StartSwapOut(t) \/ SwapSet(t) \/ SwapSetFails(t) \/ Evict(t)
                 \/ DropSlot(t) \/ NoFrame(t)
Handle(p)   == NeedFrame(p) \/ tlb_reload(p) \/ load_frame(p) \/ SwapIn(p) \/ Install(p)
                 \/ FillTlb(p)
Copy(p)     == CopyEntry(p) \/ CopyFrame(p) \/ CopyDone(p)
Destroy(t)  == StartDestroy(t) \/ CheckEntry(t) \/ FreeEntry(t) \/ RecheckEntry(t)
                 \/ DestroyDone(t)

Next ==
  \/ \E p \in Procs, q \in Pages : vm_fault(p, q) \/ \E v \in Values : Write(p, q, v)
  \/ \E p \in Procs : Handle(p) \/ Copy(p) \/ init_rows(p) \/ runprogram(p) \/ sys__exit(p)
  \/ \E p, c \in Procs : Fork(p, c)
  \/ \E t \in Threads : Allocate(t) \/ Destroy(t) \/ \E c \in Procs : proc_wait(t, c)
  \/ AllocKernel \/ GotKernel \/ \E f \in Frames : FreeKernel(f)

Spec == Init /\ [][Next]_vars

-----------------------------------------------------------------------------
(* What a process reads in its page: the page's frame or swap slot, or the  *)
(* frame it has just been read into.                                        *)
Content(e) ==
  IF e \notin valid THEN Zero
  ELSE IF e \notin swp THEN mem[frame_no[e]]
  ELSE IF pc(e[1]) = "install" /\ Entry(e[1]) = e THEN mem[th[e[1]].frm]
  ELSE stored[frame_no[e]]

Live == {p \in Procs : status[p] = "run"}

Memory == INSTANCE PrivateMemory WITH
  live <- Live,
  memory <- [p \in Procs |-> [q \in Pages |-> IF p \in Live THEN Content(<<p, q>>) ELSE Zero]]

(* Paging is invisible: faults, evictions, swap-ins and forks of any         *)
(* processes in any order give every process the private memory that         *)
(* PrivateMemory describes.                                                  *)
ImplementsPrivateMemory == Memory!Spec

(* ... and what a process reads changes only by its own stores: never while  *)
(* it is in the kernel, nor by a step of another thread, be it the one that  *)
(* evicts its page, reads it back or copies it.                              *)
OwnStoresOnly ==
  [][\A p \in Live, q \in Pages :
       p \in Live' /\ Content(<<p, q>>)' # Content(<<p, q>>) => \E v \in Values : Write(p, q, v)]_vars

Evicting(t) == pc(t) \in {"swap", "evict"}

(* Who uses frame f: pages in memory, second-level tables, the kernel, and   *)
(* threads that have obtained it but not stored it anywhere yet.             *)
Users(f) ==
  {e \in Entries : Resident(e) /\ frame_no[e] = f /\ pt_entry[f] = e}
    \cup {p \in Procs : row[p] = f}
    \cup (IF f \in kern THEN {NULL} ELSE {})
    \cup {<<t>> : t \in {u \in Threads : th[u].frm = f /\ pc(u) \in {"drop", "got", "install"}}}

(* An entry whose slot pt_destroy or load_from_swap has already released. *)
Released(e) ==
  \/ pc(e[1]) = "install" /\ Entry(e[1]) = e
  \/ \E t \in Threads : pc(t) \in {"destroy", "free", "recheck"} /\ th[t].as = e[1] /\ e[2] < th[t].pg

(* Every allocated frame has exactly one user or is the frame of a victim    *)
(* whose owner was destroyed during the swap-out, and every frame in use is  *)
(* allocated: no interleaving of faults, evictions, forks, exits and kernel  *)
(* allocations shares a frame or loses one.                                  *)
FramesAccounted ==
  \A f \in Frames : f >= FirstPage =>
    IF f \in occ
      THEN Cardinality(Users(f)) = IF \E t \in Threads : Evicting(t) /\ th[t].frm = f /\ pt_entry[f] = NULL
                                     THEN 0 ELSE 1
      ELSE Users(f) = {}

(* A slot's count is the number of pages that refer to it, plus the swap-out *)
(* that has just written it: pt_copy's sharing and the releases by swap-in   *)
(* and pt_destroy neither leak a slot nor free one in use.                   *)
RefsExact ==
  \A s \in Slots :
    refs[s] = Cardinality({e \in valid \cap swp : frame_no[e] = s /\ ~Released(e)})
            + Cardinality({t \in Threads : pc(t) \in {"evict", "drop"} /\ th[t].idx = s})

(* A TLB entry translates a page to the frame it is in now, although only    *)
(* the evicting thread's own entries are invalidated one by one.             *)
TlbCoherent == \A x \in tlb : Resident(x[1]) /\ frame_no[x[1]] = x[2]

(* A page that get_n_frames is writing to the swap file is in the TLB of no  *)
(* process that could be storing into it: what the slot receives is what the *)
(* page holds when its frame is given away.                                  *)
NoWriteDuringSwapOut ==
  \A x \in tlb : pc(x[1][1]) = "user" => \A t \in Threads : Evicting(t) => th[t].frm # x[2]

(* swap_get: KASSERT(swap->refs[index] > 0), wherever it is about to run. *)
SlotReferenced ==
  \A t \in Threads :
    /\ pc(t) = "drop" => refs[th[t].idx] > 0
    /\ pc(t) = "got" /\ th[t].for = "swapin" => refs[frame_no[Entry(t)]] > 0
    /\ pc(t) = "destroy" /\ th[t].pg <= LastPage =>
         LET e == <<th[t].as, th[t].pg>> IN e \in valid \cap swp => refs[frame_no[e]] > 0

(* With as many slots as there are pages swap_set finds a free one: sharing, *)
(* dropped slots and swap-outs in progress never exhaust the swap file.      *)
SwapSpaceLeft == \A t \in Threads : pc(t) = "swap" => FreeSlots # {}

(* When every process has been waited for and the kernel thread has freed    *)
(* its frames, memory is the single free block of coremap_bootstrap and the  *)
(* swap file is empty.                                                       *)
AllReturned ==
  (\A p \in Procs : status[p] = "unborn") /\ pc(KernelThread) = "user" /\ kern = {} =>
    /\ occ = 0..(FirstPage-1)
    /\ nframes[FirstPage] = NPages - FirstPage
    /\ refs = [s \in Slots |-> 0]

-----------------------------------------------------------------------------
(* What the comments and assertions of the code say, which the code does not *)
(* keep.                                                                     *)

(* pt.h: pt_copy makes a deep copy of the table. *)
DeepCopy ==
  \A p \in Procs : pc(p) = "copy" =>
    \A q \in 1..(th[p].pg - 1) : Content(<<th[p].as, q>>) = Content(<<p, q>>)

(* coremap.h: pt_entry is the entry that contains the frame, if the frame    *)
(* belongs to an address space. So it is for every page in memory of a       *)
(* process that runs, whatever is being destroyed meanwhile.                 *)
BackPointersAgree == \A e \in Entries : e[1] \in Live /\ Resident(e) => pt_entry[frame_no[e]] = e

(* pt.h: the frame of a valid entry can be used. It is not set while pt_copy *)
(* asks for it.                                                              *)
ValidUsable ==
  \A e \in Entries : Resident(e) =>
    \/ frame_no[e] >= FirstPage
    \/ \E t \in Threads : th[t].for = "copy" /\ Entry(t) = e

(* pt_get_frame_from_page: KASSERT(table->table[exte][inte].valid) when the  *)
(* thread holds pt_lock. A process in user mode may touch any page next.     *)
LoadingPageValid ==
  \A p \in pt_lock : pc(p) = "user" => \A q \in Pages : <<p, q>> \in valid

(* A constraint for runs that ask what else could go wrong: no page is       *)
(* swapped out between lines 48 and 49 of pt_destroy.                        *)
NoDestroyRace == \A t \in Threads : pc(t) = "free" => <<th[t].as, th[t].pg>> \notin swp

(* And no page is swapped out while pt_copy asks for the frame of its copy. *)
NoCopyRace == \A p \in Procs : th[p].for = "copy" => <<p, th[p].pg>> \notin swp \cup swapping

(* And no page table is destroyed while one of its pages is swapped out. *)
OwnersStay == \A t \in Threads : Evicting(t) => pt_entry[th[t].frm] # NULL

-----------------------------------------------------------------------------
(* Threads are scheduled round robin with a timer, so a thread that can take *)
(* a step inside the kernel eventually takes it. What a process does in user *)
(* mode, and whether it faults, forks or exits, is its own choice.           *)
Fairness ==
  /\ \A t \in Threads : WF_vars(Allocate(t)) /\ WF_vars(Destroy(t))
  /\ \A p \in Procs : WF_vars(Handle(p)) /\ WF_vars(Copy(p)) /\ WF_vars(init_rows(p))
  /\ WF_vars(GotKernel)

FairSpec == Spec /\ Fairness

(* Every page fault ends: the page is in the TLB or the process is over,     *)
(* unless swap_set panics because failed writes have used up the slots.      *)
FaultsEnd == \A p \in Procs : pc(p) = "fault" ~> (pc(p) \in {"user", "none"} \/ ~SwapSpaceLeft)

(* Every swap-out ends, up to the same panic: the busy wait of               *)
(* pt_get_frame_from_page is finite.                                         *)
SwapOutsEnd == \A e \in Entries : e \in swapping ~> (e \notin swapping \/ ~SwapSpaceLeft)
-----------------------------------------------------------------------------
(* An inductive invariant for a machine whose disk does not fail and whose   *)
(* threads meet neither of the two races above (VmProofs proves it).         *)

Asking(t) == pc(t) \in {"alloc", "swap", "evict", "drop", "got"}

Holding(t) == pc(t) \in {"drop", "got", "install"}

(* th[t].frm is a frame whose fixed bit t has set. *)
Pinning(t) == Evicting(t) \/ Holding(t) \/ pc(t) = "tlb"

Copying(t) == th[t].as # NULL /\ (Asking(t) \/ pc(t) = "copy")

Destroying(t) == pc(t) \in {"destroy", "free", "recheck"}

(* pt_destroy has released what the entry referred to. *)
Gone(e) ==
  \E t \in Threads :
    /\ Destroying(t) /\ th[t].as = e[1]
    /\ e[2] < th[t].pg \/ (pc(t) = "recheck" /\ e[2] = th[t].pg)

(* pt_copy has set the valid bit but has no frame for the entry yet. *)
Coming(e) == \E p \in Procs : th[p].for = "copy" /\ Entry(p) = e

ThreadStates ==
  [pc : Locations, for : Purposes, pg : 0..LastPage+1, frm : Frames, idx : Slots, as : Procs \cup {NULL}]

(* What a thread's locals say at each place, and who holds swap_lock. *)
ThreadInv(t) ==
  /\ pc(t) \in {"none", "user"} =>
       /\ th[t].for = "none" /\ th[t].pg = 0
       /\ th[t].frm = 0 /\ th[t].idx = 0 /\ th[t].as = NULL
  /\ pc(t) = "none" <=> t \in Procs /\ status[t] # "run"
  /\ pc(t) \in {"fault", "tlb", "install", "copy"} => t \in Procs
  /\ Asking(t) => IF t = KernelThread THEN th[t].for = "kern" /\ th[t].as = NULL
                  ELSE th[t].for \in {"row", "load", "swapin", "copy"}
  /\ pc(t) \in {"fault", "install", "tlb"} \/ (Asking(t) /\ th[t].for \in {"load", "swapin"})
       => th[t].as = NULL /\ th[t].pg \in Pages
  /\ pc(t) = "install" => th[t].for = "swapin"
  /\ Asking(t) /\ th[t].for = "row" /\ th[t].as = NULL => th[t].pg \in Pages
  /\ th[t].for = "copy" => Asking(t) /\ th[t].as # NULL /\ th[t].pg \in Pages
  /\ pc(t) \in {"copy", "destroy"} => th[t].pg >= 1
  /\ pc(t) \in {"free", "recheck"} => th[t].pg \in Pages
  /\ pc(t) \in {"copy", "reap", "destroy", "free", "recheck"} => th[t].as # NULL
  /\ th[t].as # NULL =>
       /\ Copying(t) \/ pc(t) = "reap" \/ Destroying(t)
       /\ th[t].as # t
       /\ status[th[t].as] = "embryo" \/ (~Copying(t) /\ status[th[t].as] = "reaped")
  /\ swap_lock = t <=> Copying(t) \/ Destroying(t)

ControlInv ==
  /\ th \in [Threads -> ThreadStates]
  /\ status \in [Procs -> {"unborn", "embryo", "run", "exited", "reaped"}]
  /\ swap_lock \in Threads \cup {NoThread}
  /\ \A t \in Threads : ThreadInv(t)
  /\ \A t, u \in Threads : th[t].as # NULL /\ th[t].as = th[u].as => t = u

(* The page table entries, and what the thread that handles one relies on. *)
PageInv(t) ==
  LET own == <<t, th[t].pg>>
      new == <<th[t].as, th[t].pg>>
  IN
  /\ Asking(t) /\ th[t].for = "row" => row[IF th[t].as = NULL THEN t ELSE th[t].as] = NULL
  /\ Asking(t) /\ th[t].for = "load" => row[t] # NULL /\ own \notin valid
  /\ (Asking(t) /\ th[t].for = "swapin") \/ pc(t) = "install" => own \in swp
  /\ th[t].for = "copy" => own \in valid /\ new \in valid \ swp /\ frame_no[new] = 0
  /\ pc(t) = "tlb" => own \in valid \ swp /\ frame_no[own] = th[t].frm
  /\ Copying(t) => \A q \in Pages : q > th[t].pg \/ (q = th[t].pg /\ pc(t) = "copy")
                                      => <<th[t].as, q>> \notin valid
  /\ pc(t) = "copy" => row[th[t].as] # NULL \/ th[t].pg = LastPage + 1
  /\ pc(t) = "free" => new \in valid /\ (new \notin swp => frame_no[new] = th[t].frm)
  /\ pc(t) = "recheck" => new \in valid \ swp

EntryInv ==
  /\ valid \subseteq Entries /\ swp \subseteq valid /\ swapping \subseteq valid
  /\ row \in [Procs -> Frames \cup {NULL}]
  /\ \A p \in Procs : status[p] = "unborn" => row[p] = NULL
  /\ frame_no \in [Entries -> Frames \cup Slots]
  /\ \A e \in Entries :
       /\ e \in valid => row[e[1]] # NULL
       /\ e \notin valid => frame_no[e] = 0
       /\ frame_no[e] \in IF e \in swp THEN Slots ELSE Frames
  /\ \A t \in Threads : PageInv(t)

(* The blocks of the coremap: every allocation is of one frame. *)
BlockInv ==
  /\ CoremapTypeOK /\ Tiles(occ, nframes) /\ Merged(occ, nframes)
  /\ 0..(FirstPage-1) \subseteq occ
  /\ \A f \in occ : f >= FirstPage => nframes[f] = 1
  /\ prev_victim = 0 \/ prev_victim >= FirstPage

(* A frame that no page table entry owns and get_victim passes over. *)
Private(f) == f \in occ \cap fixed /\ f >= FirstPage /\ pt_entry[f] = NULL

(* The owner of frame f, and who uses it or has fixed it. *)
OwnerInv(f) ==
  /\ f \notin occ \/ f < FirstPage => pt_entry[f] = NULL
  /\ pt_entry[f] # NULL =>
       \/ Resident(pt_entry[f]) /\ frame_no[pt_entry[f]] = f /\ ~Gone(pt_entry[f])
       \/ \E t \in Threads : Holding(t) /\ th[t].frm = f /\ Entry(t) = pt_entry[f]
  /\ f \in occ /\ f >= FirstPage =>
       \/ pt_entry[f] # NULL \/ f \in kern \/ \E p \in Procs : row[p] = f
       \/ \E t \in Threads : (Evicting(t) \/ Holding(t)) /\ th[t].frm = f
  /\ f \in fixed /\ f >= FirstPage /\ pt_entry[f] # NULL => \E t \in Threads : Pinning(t) /\ th[t].frm = f

(* A page in memory, and a page that is being swapped out. *)
PlacedInv(e) ==
  /\ Resident(e) => Gone(e) \/ Coming(e) \/ pt_entry[frame_no[e]] = e
  /\ e \in swapping => Gone(e) \/ \E t \in Threads : Evicting(t) /\ pt_entry[th[t].frm] = e

RowInv(p) ==
  row[p] # NULL =>
    /\ Private(row[p]) /\ row[p] \notin kern
    /\ \A r \in Procs : row[r] = row[p] => r = p

FrameInv ==
  /\ \A f \in Frames : OwnerInv(f)
  /\ \A e \in Entries : PlacedInv(e)
  /\ \A p \in Procs : RowInv(p)
  /\ kern \subseteq Frames /\ \A f \in kern : Private(f)

(* The frame that a thread relies on. *)
PinnedInv(t) ==
  Pinning(t) =>
    /\ th[t].frm \in occ \cap fixed /\ th[t].frm >= FirstPage
    /\ th[t].frm \notin kern /\ \A p \in Procs : row[p] # th[t].frm
    /\ Evicting(t) => pt_entry[th[t].frm] = NULL \/ pt_entry[th[t].frm] \in swapping
    /\ Holding(t) => pt_entry[th[t].frm] = Entry(t)
    /\ pc(t) = "tlb" => pt_entry[th[t].frm] = <<t, th[t].pg>>

PinInv ==
  /\ \A t \in Threads : PinnedInv(t)
  /\ \A t, u \in Threads : Pinning(t) /\ Pinning(u) /\ th[t].frm = th[u].frm => t = u

TlbInv ==
  /\ tlb \subseteq Entries \X Frames
  /\ TlbCoherent
  /\ \A x \in tlb, t \in Threads : Evicting(t) /\ th[t].frm = x[2] => x[1][1] = t
=============================================================================
