----------------------------- MODULE VmProofs -------------------------------
(****************************************************************************)
(* fork and pt_destroy keep the invariant too, and what follows from it for*)
(* any number of processes, pages, frames and slots: frames, TLB entries,  *)
(* swap slots and swap space are accounted for.                            *)
(****************************************************************************)
EXTENDS VmPagingProofs, FiniteSetTheorems

(* The end of pt_destroy: kfree of the second-level table. *)
LEMMA DestroyDoneFrames ==
  ASSUME Inv, NEW t \in Threads, DestroyDone(t)
  PROVE  BlockInv' /\ FrameInv' /\ PinInv'
<1>0. /\ FrameInv /\ PinInv /\ BlockInv /\ ThreadInv(t) /\ th[t] \in ThreadStates
      /\ pt_entry \in [Frames -> Entries \cup {NULL}] /\ NULL \notin Entries
      /\ fixed \subseteq Frames /\ occ \subseteq Frames /\ swapping \subseteq Entries /\ Entries = Procs \X Pages
      /\ kern \subseteq Frames /\ row \in [Procs -> Frames \cup {NULL}] /\ NULL \notin Frames
      /\ pc(t) = "destroy" /\ ~(th[t].pg <= LastPage) /\ th[t].for # "copy" /\ ~Pinning(t) /\ Destroying(t)
  BY FrameSorts, Sorts, Zenon DEF DestroyDone, MorePages, Holding, Evicting, Pinning, ThreadInv, Asking, Destroying
<1>1. PICK c \in Procs : c = th[t].as
  BY <1>0, Zenon DEF ThreadInv, ThreadStates
<1>2. \A e \in Entries : e[1] = c => Gone(e)
  <2>1. \A e \in Entries : e[2] \in Pages
    BY <1>0, Zenon
  <2>2. th[t].pg \in Nat /\ LastPage \in Nat
    BY <1>0, Sorts DEF ThreadStates
  <2>3. \A e \in Entries : e[2] < th[t].pg
    BY <1>0, <2>1, <2>2 DEF Pages
  <2> QED BY <1>0, <1>1, <2>3, Zenon DEF Gone
<1>3. th'[t].pc = "user" /\ th'[t].for = "none" /\ \A u \in Threads \ {t} : th'[u] = th[u]
  BY TableMoves, Zenon DEF MovesTo
<1>4. ~Pinning(t)' /\ ~Destroying(t)'
  BY <1>3, Zenon DEF Pinning, Evicting, Holding, pc, Destroying
<1>5. \A e \in Entries : Coming(e)' <=> Coming(e)
  BY <1>0, <1>3, ComingKept, Sorts, Zenon
<1>6. \A e \in Entries : e[1] # c => (Gone(e)' <=> Gone(e))
  <2>1. \A u \in Threads \ {t} : (Destroying(u)' <=> Destroying(u)) /\ pc(u)' = pc(u) /\ th'[u] = th[u]
    BY <1>3, Zenon DEF Destroying, pc
  <2> QED BY <1>1, <1>4, <2>1, Zenon DEF Gone
<1>7. /\ row' = [row EXCEPT ![c] = NULL] /\ kern' = kern
      /\ \A e \in Entries : e[1] = c => e \notin valid' /\ e \notin swapping'
      /\ \A e \in Entries : e[1] # c => /\ (e \in valid' <=> e \in valid) /\ (e \in swp' <=> e \in swp)
                                        /\ (e \in swapping' <=> e \in swapping) /\ frame_no'[e] = frame_no[e]
  BY <1>1, Zenon DEF DestroyDone
<1>8. \A e \in Entries : e[1] # c => (Resident(e)' <=> Resident(e))
  BY <1>7, Zenon DEF Resident
<1>9. PICK f \in Frames : /\ f = IF row[c] = NULL THEN 0 ELSE row[c]
                          /\ f \notin kern /\ pt_entry[f] = NULL
                          /\ (\A p \in Procs : row[p] = f => p = c)
                          /\ \A u \in Threads : Pinning(u) => th[u].frm # f
  <2>1. 0 \in Frames /\ FirstPage > 0 /\ FirstPage \in Nat /\ ~(0 >= FirstPage)
    BY Sorts, CoremapAssumption
  <2>2. CASE row[c] = NULL
    <3>1. ~Private(0) /\ 0 < FirstPage /\ 0 # NULL
      BY <1>0, <2>1 DEF Private
    <3>2. pt_entry[0] = NULL /\ 0 \notin kern
      BY <1>0, <2>1, <3>1, Zenon DEF FrameInv, OwnerInv
    <3>3. \A p \in Procs : row[p] # 0
      BY <1>0, <3>1, Zenon DEF FrameInv, RowInv
    <3>4. \A u \in Threads : Pinning(u) => th[u].frm # 0
      BY <1>0, <2>1, Zenon DEF PinInv, PinnedInv
    <3> QED BY <2>1, <2>2, <3>2, <3>3, <3>4, Zenon
  <2>3. CASE row[c] # NULL
    <3>1. row[c] \in Frames
      BY <1>0, <2>3, Zenon
    <3>2. row[c] \notin kern /\ pt_entry[row[c]] = NULL /\ \A p \in Procs : row[p] = row[c] => p = c
      BY <1>0, <2>3, Zenon DEF FrameInv, RowInv, Private
    <3>3. \A u \in Threads : Pinning(u) => th[u].frm # row[c]
      BY <1>0, Zenon DEF PinInv, PinnedInv
    <3> QED BY <2>3, <3>1, <3>2, <3>3, Zenon
  <2> QED BY <2>2, <2>3, Zenon
<1>10. /\ BlockInv' /\ pt_entry'[f] = NULL /\ OwnerInv(f)'
       /\ \A g \in Frames \ {f} : (g \in occ' <=> g \in occ) /\ (g \in fixed' <=> g \in fixed) /\ pt_entry'[g] = pt_entry[g]
       /\ occ' \subseteq Frames /\ fixed' \subseteq Frames
  <2>1. CASE row[c] = NULL
    <3>1. UNCHANGED <<occ, fixed, nframes, pt_entry, prev_victim>>
      BY <1>1, <2>1, Zenon DEF DestroyDone, FreeRow, cmVars
    <3>2. BlockInv'
      BY <1>0, <3>1, SameBlocks, Zenon
    <3>3. pt_entry'[f] = NULL /\ ~(f >= FirstPage)
      BY <1>9, <2>1, <3>1, CoremapAssumption
    <3>4. OwnerInv(f)'
      BY <3>3, Zenon DEF OwnerInv
    <3> QED BY <1>0, <3>1, <3>2, <3>3, <3>4, Zenon
  <2>2. CASE row[c] # NULL
    <3>1. f \in occ /\ f >= FirstPage /\ free_frame(f)
      BY <1>0, <1>1, <1>9, <2>2, Zenon DEF DestroyDone, FreeRow, FrameInv, RowInv, Private
    <3>2. BlockInv' /\ occ' = occ \ {f} /\ fixed' = fixed \ {f} /\ pt_entry' = [pt_entry EXCEPT ![f] = NULL]
      BY <1>0, <1>9, <3>1, FreeBlock, Zenon
    <3>3. pt_entry'[f] = NULL /\ f \notin occ'
      BY <1>0, <3>2, Zenon
    <3>4. OwnerInv(f)'
      BY <3>3, Zenon DEF OwnerInv
    <3> QED BY <1>0, <3>2, <3>3, <3>4, Zenon
  <2> QED BY <2>1, <2>2, Zenon
<1>11. ASSUME NEW g \in Frames \ {f}, pt_entry[g] # NULL
       PROVE  /\ Resident(pt_entry[g]) /\ frame_no[pt_entry[g]] = g /\ ~Gone(pt_entry[g]) =>
                   Resident(pt_entry[g])' /\ frame_no'[pt_entry[g]] = g /\ ~Gone(pt_entry[g])'
              /\ pt_entry[g] \in swapping => pt_entry[g] \in swapping'
  <2>1. PICK x \in Entries : x = pt_entry[g] /\ x = pt_entry'[g]
    BY <1>0, <1>10, <1>11, Zenon
  <2>2. x[1] # c
    <3> SUFFICES ASSUME x[1] = c PROVE FALSE
      BY Zenon
    <3>1. PICK u \in Threads : Holding(u) /\ Entry(u) = x
      <4>1. Gone(x) /\ OwnerInv(g)
        BY <1>0, <1>2, Zenon DEF FrameInv
      <4> QED BY <1>11, <2>1, <4>1, Zenon DEF OwnerInv
    <3>2. x # NULL /\ ~Holding(t)
      BY <1>0, Zenon DEF Holding
    <3>3. CASE th[u].for \in {"row", "kern"}
      BY <3>1, <3>2, <3>3, Zenon DEF Entry
    <3>4. CASE th[u].for = "copy"
      <4>1. th[u].as = c
        BY <3>1, <3>4, Zenon DEF Entry
      <4> QED BY <1>1, <3>1, <3>2, <4>1, OwnTable
    <3>5. CASE th[u].for \notin {"row", "kern", "copy"}
      <4>1. u = c
        BY <3>1, <3>5, Zenon DEF Entry
      <4>2. pc(c) = "none"
        BY <1>1, OwnTable, Zenon
      <4> QED BY <3>1, <4>1, <4>2, Zenon DEF Holding
    <3> QED BY <3>3, <3>4, <3>5, Zenon
  <2>3. /\ Resident(x) /\ frame_no[x] = g /\ ~Gone(x) => Resident(x)' /\ frame_no'[x] = g /\ ~Gone(x)'
        /\ x \in swapping => x \in swapping'
    BY <1>6, <1>7, <1>8, <2>2, Zenon
  <2> QED BY <2>1, <2>3, Zenon
<1>12. \A u \in Threads \ {t} : SameRole(u)
  BY <1>3, SameThread, Zenon
<1>13. \A p \in Procs : row'[p] = row[p] \/ (row[p] \in {NULL, f} /\ row'[p] \in {NULL, f})
  BY <1>0, <1>7, <1>9, ZenonT(60)
<1>14. Touches(t, f)
  BY <1>0, <1>4, <1>7, <1>9, <1>10, <1>11, <1>12, <1>13, Zenon DEF Touches
<1>15. ASSUME NEW x \in Entries PROVE PlacedInv(x)'
  <2>1. CASE x[1] # c
    <3>1. x # pt_entry[f] /\ (Gone(x) => Gone(x)') /\ (Coming(x) => Coming(x)')
          /\ (Resident(x)' => Resident(x) /\ frame_no'[x] = frame_no[x]) /\ (x \in swapping' => x \in swapping)
      BY <1>0, <1>5, <1>6, <1>7, <1>8, <1>9, <2>1, Zenon
    <3> QED BY <1>14, <3>1, PlacedAway, Zenon
  <2>2. CASE x[1] = c
    BY <1>7, <2>2, Zenon DEF PlacedInv, Resident
  <2> QED BY <2>1, <2>2, Zenon
<1>16. PinnedInv(t)'
  BY <1>4, Zenon DEF PinnedInv
<1>17. kern' \subseteq Frames /\ f \notin kern' /\ \A p \in Procs : row'[p] # f
  BY <1>0, <1>7, <1>9, ZenonT(60)
<1>18. FrameInv' /\ PinInv'
  BY <1>10, <1>14, <1>15, <1>16, <1>17, AwayStep, Zenon
<1> QED BY <1>10, <1>18, Zenon

-----------------------------------------------------------------------------
(* The invariant holds initially. *)
LEMMA InitInv == Init => Inv
<1> SUFFICES ASSUME Init PROVE Inv
  BY Zenon
<1>1. ControlInv /\ EntryInv /\ BlockInv
  BY InitControl, InitEntry, InitBlock, Zenon
<1>2. \A t \in Threads : pc(t) \in {"user", "none"}
  BY Zenon DEF Init, pc, At
<1>3. \A t \in Threads : ~Pinning(t)
  BY <1>2, Zenon DEF Pinning, Evicting, Holding
<1>4. /\ valid = {} /\ swapping = {} /\ kern = {} /\ row = [p \in Procs |-> NULL]
      /\ \A f \in Frames : pt_entry[f] = NULL /\ (f \in occ => f < FirstPage)
  BY CoremapAssumption, Sorts DEF Init, coremap_bootstrap
<1>5. \A f \in Frames : OwnerInv(f)
  <2>1. \A f \in Frames : f \in Nat /\ FirstPage \in Nat
    BY Sorts, CoremapAssumption, Zenon
  <2> QED BY <1>4, <2>1 DEF OwnerInv
<1>6. FrameInv
  BY <1>4, <1>5, Zenon DEF FrameInv, PlacedInv, Resident, RowInv
<1>7. PinInv
  BY <1>3, Zenon DEF PinInv, PinnedInv
<1> QED BY <1>1, <1>6, <1>7, Zenon DEF Inv

(* A step that leaves threads and tables alone. *)
LEMMA SameControl ==
  ASSUME Inv, UNCHANGED <<th, status, swap_lock, row, valid, swp, frame_no, swapping>>
  PROVE  ControlInv' /\ EntryInv'
<1>1. ControlInv'
  BY DEF Inv, ControlInv, ThreadInv, pc, Asking, Copying, Destroying
<1>2. EntryInv'
  BY EntryStep, Zenon DEF Inv, EntryInv
<1> QED BY <1>1, <1>2, Zenon

(* Every step keeps the invariant, on a machine whose disk does not fail    *)
(* and in states where neither race has happened.                           *)
LEMMA NextInv ==
  ASSUME Inv, ~IOErrors, NoDestroyRace, NoCopyRace, [Next]_vars
  PROVE  Inv'
<1>0. BlockInv /\ KernelThread \in Threads /\ Procs \subseteq Threads /\ fixed \subseteq Frames
      /\ pt_entry \in [Frames -> Entries \cup {NULL}]
  BY Sorts, FrameSorts, Zenon
<1>b. UNCHANGED cmVars => BlockInv'
  BY <1>0, SameBlocks, Zenon DEF cmVars
<1>1. ASSUME NEW t \in Threads, Allocate(t) PROVE Inv'
  <2>0. ~SwapSetFails(t)
    BY Zenon DEF SwapSetFails
  <2>1. CASE NoFrame(t)
    <3>1. ControlInv' /\ EntryInv' /\ FrameInv' /\ PinInv'
      BY <2>1, OtherControl, OtherEntry, QuietNoFrame, Zenon
    <3>2. BlockInv'
      BY <1>b, <2>1, Zenon DEF NoFrame
    <3> QED BY <3>1, <3>2, Zenon DEF Inv
  <2>2. CASE TakeFree(t) \/ StartSwapOut(t) \/ SwapSet(t) \/ Evict(t) \/ DropSlot(t)
    <3>1. ControlInv' /\ EntryInv'
      BY <2>2, AllocateControl, AllocateEntry, Zenon
    <3>2. BlockInv' /\ FrameInv' /\ PinInv'
      <4>1. CASE SwapSet(t) \/ DropSlot(t)
        <5>1. BlockInv'
          BY <1>b, <4>1, Zenon DEF SwapSet, DropSlot
        <5> QED BY <4>1, <5>1, QuietAllocate, Zenon
      <4>2. CASE TakeFree(t)
        BY <4>2, TakeFreeFrames, Zenon
      <4>3. CASE StartSwapOut(t)
        BY <4>3, StartSwapOutFrames, Zenon
      <4>4. CASE Evict(t)
        BY <4>4, EvictFrames, Zenon
      <4> QED BY <2>2, <4>1, <4>2, <4>3, <4>4, Zenon
    <3> QED BY <3>1, <3>2, Zenon DEF Inv
  <2> QED BY <1>1, <2>0, <2>1, <2>2, Zenon DEF Allocate
<1>2. ASSUME NEW p \in Procs, (\E q \in Pages : vm_fault(p, q)) \/ Handle(p) PROVE Inv'
  <2>1. ControlInv' /\ EntryInv'
    BY <1>2, HandleControl, HandleEntry, Zenon
  <2>2. BlockInv' /\ FrameInv' /\ PinInv'
    <3>1. CASE (\E q \in Pages : vm_fault(p, q)) \/ NeedFrame(p)
      <4>1. BlockInv'
        BY <1>b, <3>1, Zenon DEF vm_fault, NeedFrame
      <4> QED BY <1>0, <3>1, <4>1, QuietUser, Zenon
    <3>2. CASE SwapIn(p)
      <4>1. BlockInv'
        BY <1>b, <3>2, Zenon DEF SwapIn
      <4> QED BY <1>0, <3>2, <4>1, QuietAllocate, Zenon
    <3>3. CASE tlb_reload(p)
      BY <3>3, ReloadFrames, Zenon
    <3>4. CASE load_frame(p) \/ Install(p)
      BY <3>4, InstallFrames, Zenon
    <3>5. CASE FillTlb(p)
      BY <3>5, FillTlbFrames, Zenon
    <3> QED BY <1>2, <3>1, <3>2, <3>3, <3>4, <3>5, Zenon DEF Handle
  <2> QED BY <2>1, <2>2, Zenon DEF Inv
<1>3. ASSUME NEW p \in Procs, (\E c \in Procs : Fork(p, c)) \/ Copy(p) PROVE Inv'
  <2>1. ControlInv' /\ EntryInv'
    BY <1>0, <1>3, TableControl, CopyEntryInv, Zenon
  <2>2. BlockInv' /\ FrameInv' /\ PinInv'
    <3>1. CASE \E c \in Procs : Fork(p, c)
      <4>1. BlockInv'
        BY <1>b, <3>1, Zenon DEF Fork
      <4> QED BY <1>0, <3>1, <4>1, QuietUser, Zenon
    <3>2. CASE CopyDone(p)
      <4>1. BlockInv'
        BY <1>b, <3>2, Zenon DEF CopyDone
      <4> QED BY <3>2, <4>1, QuietCopyDone, Zenon
    <3>3. CASE CopyFrame(p)
      BY <3>3, CopyFrameFrames, Zenon
    <3>4. CASE CopyEntry(p)
      <4>1. BlockInv'
        BY <1>b, <3>4, Zenon DEF CopyEntry
      <4> QED BY <3>4, <4>1, QuietCopyNothing, CopyEntryFrames, Zenon
    <3> QED BY <1>3, <3>1, <3>2, <3>3, <3>4, Zenon DEF Copy
  <2> QED BY <2>1, <2>2, Zenon DEF Inv
<1>4. ASSUME NEW t \in Threads, Destroy(t) PROVE Inv'
  <2>1. ControlInv' /\ EntryInv'
    BY <1>4, TableControl, DestroyEntryInv, Zenon
  <2>2. BlockInv' /\ FrameInv' /\ PinInv'
    <3>1. CASE StartDestroy(t) \/ CheckEntry(t) \/ RecheckEntry(t)
      <4>1. BlockInv'
        BY <1>b, <3>1, Zenon DEF StartDestroy, CheckEntry, RecheckEntry
      <4> QED BY <3>1, <4>1, QuietDestroy, Zenon
    <3>2. CASE FreeEntry(t)
      BY <3>2, FreeEntryFrames, Zenon
    <3>3. CASE DestroyDone(t)
      BY <3>3, DestroyDoneFrames, Zenon
    <3> QED BY <1>4, <3>1, <3>2, <3>3, Zenon DEF Destroy
  <2> QED BY <2>1, <2>2, Zenon DEF Inv
<1>5. ASSUME NEW t \in Threads,
             \/ init_rows(t) \/ (t = KernelThread /\ (AllocKernel \/ GotKernel))
             \/ (t \in Procs /\ (runprogram(t) \/ sys__exit(t))) \/ \E c \in Procs : proc_wait(t, c)
      PROVE  Inv'
  <2>1. ControlInv' /\ EntryInv'
    BY <1>5, OtherControl, OtherEntry, Zenon
  <2>2. BlockInv' /\ FrameInv' /\ PinInv'
    <3>1. CASE init_rows(t) \/ (t = KernelThread /\ GotKernel)
      BY <3>1, KeepFrames, Zenon
    <3>2. CASE \/ t = KernelThread /\ AllocKernel
               \/ t \in Procs /\ (runprogram(t) \/ sys__exit(t))
               \/ \E c \in Procs : proc_wait(t, c)
      <4>1. BlockInv'
        BY <1>b, <3>2, Zenon DEF AllocKernel, runprogram, sys__exit, proc_wait
      <4> QED BY <3>2, <4>1, QuietUser, Zenon
    <3> QED BY <1>5, <3>1, <3>2, Zenon
  <2> QED BY <2>1, <2>2, Zenon DEF Inv
<1>6. ASSUME NEW f \in Frames, FreeKernel(f) PROVE Inv'
  <2>1. ControlInv' /\ EntryInv'
    BY <1>6, SameControl, Zenon DEF FreeKernel, pteVars, swapVars
  <2> QED BY <1>6, <2>1, FreeKernelFrames, Zenon DEF Inv
<1>7. ASSUME UNCHANGED <<cmVars, pteVars, swapVars, valid, row, status, kern, th>> PROVE Inv'
  <2>1. ControlInv' /\ EntryInv'
    BY <1>7, SameControl, Zenon DEF pteVars, swapVars
  <2>2. FrameInv' /\ PinInv'
    BY <1>7, QuietWrite, Zenon
  <2>3. BlockInv'
    BY <1>b, <1>7, Zenon
  <2> QED BY <2>1, <2>2, <2>3, Zenon DEF Inv
<1>8. CASE Next
  <2>1. CASE \E p \in Procs, q \in Pages : vm_fault(p, q) \/ \E v \in Values : Write(p, q, v)
    BY <1>2, <1>7, <2>1, Zenon DEF Write
  <2>2. CASE \E p \in Procs : Handle(p) \/ Copy(p) \/ init_rows(p) \/ runprogram(p) \/ sys__exit(p)
    BY <1>0, <1>2, <1>3, <1>5, <2>2, Zenon
  <2>3. CASE \E p, c \in Procs : Fork(p, c)
    BY <1>3, <2>3, Zenon
  <2>4. CASE \E t \in Threads : Allocate(t) \/ Destroy(t) \/ \E c \in Procs : proc_wait(t, c)
    BY <1>1, <1>4, <1>5, <2>4, Zenon
  <2>5. CASE AllocKernel \/ GotKernel \/ \E f \in Frames : FreeKernel(f)
    BY <1>0, <1>5, <1>6, <2>5, Zenon
  <2> QED BY <1>8, <2>1, <2>2, <2>3, <2>4, <2>5, Zenon DEF Next
<1>9. CASE UNCHANGED vars
  BY <1>7, <1>9, Zenon DEF vars
<1> QED BY <1>8, <1>9, Zenon

(* The inductive invariant, while neither race has happened. *)
THEOREM InvAlways ==
  ASSUME ~IOErrors
  PROVE  Spec /\ []NoDestroyRace /\ []NoCopyRace => []Inv
<1>1. Init => Inv
  BY InitInv, Zenon
<1>2. Inv /\ NoDestroyRace /\ NoCopyRace /\ [Next]_vars => Inv'
  BY NextInv, Zenon
<1> QED BY <1>1, <1>2, PTL DEF Spec

-----------------------------------------------------------------------------
(* Frames are accounted for, and the TLB is coherent.                       *)

(* Every frame has the users that FramesAccounted allows it. *)
LEMMA InvAccounts == Inv => FramesAccounted
<1> SUFFICES ASSUME Inv, NEW f \in Frames, f >= FirstPage
             PROVE  IF f \in occ
                      THEN Cardinality(Users(f)) = IF \E t \in Threads : Evicting(t) /\ th[t].frm = f /\ pt_entry[f] = NULL
                                                     THEN 0 ELSE 1
                      ELSE Users(f) = {}
  BY Zenon DEF FramesAccounted
<1> DEFINE InMemory == {e \in Entries : Resident(e) /\ frame_no[e] = f /\ pt_entry[f] = e}
           Rows == {p \in Procs : row[p] = f}
           Kernel == IF f \in kern THEN {NULL} ELSE {}
           Holders == {u \in Threads : th[u].frm = f /\ pc(u) \in {"drop", "got", "install"}}
<1>0. /\ FrameInv /\ PinInv /\ OwnerInv(f) /\ NULL \notin Entries /\ NULL \notin Frames
      /\ pt_entry[f] \in Entries \cup {NULL}
      /\ \A p \in Procs : row[p] = f => Private(f) /\ f \notin kern /\ \A r \in Procs : row[r] = f => r = p
      /\ f \in kern => Private(f)
      /\ \A u \in Threads : Pinning(u) /\ th[u].frm = f => PinnedInv(u) /\ f \in occ /\ f \notin kern /\ Rows = {}
  BY FrameSorts DEF FrameInv, RowInv, PinInv, PinnedInv
<1>1. Users(f) = InMemory \cup Rows \cup Kernel \cup {<<u>> : u \in Holders}
  BY Zenon DEF Users
<1>2. \A u \in Holders : u \in Threads /\ Holding(u) /\ Pinning(u) /\ ~Evicting(u) /\ th[u].frm = f /\ pt_entry[f] = Entry(u)
  BY <1>0, Zenon DEF Holding, Pinning, Evicting, PinnedInv
<1>3. \A u \in Threads : Holding(u) /\ th[u].frm = f => u \in Holders
  BY Zenon DEF Holding
<1>4. \A u, v \in Holders : u = v
  BY <1>0, <1>2, Zenon DEF PinInv
<1>5. CASE f \notin occ
  <2>1. InMemory = {} /\ Rows = {} /\ Kernel = {} /\ Holders = {}
    BY <1>0, <1>2, <1>5, Zenon DEF OwnerInv, Private
  <2> QED BY <1>1, <1>5, <2>1, Zenon
<1>6. CASE f \in occ /\ \E t \in Threads : Evicting(t) /\ th[t].frm = f /\ pt_entry[f] = NULL
  <2>1. PICK t \in Threads : Evicting(t) /\ th[t].frm = f /\ pt_entry[f] = NULL
    BY <1>6, Zenon
  <2>2. Pinning(t)
    BY <2>1, Zenon DEF Pinning
  <2>3. InMemory = {} /\ Rows = {} /\ Kernel = {}
    BY <1>0, <2>1, <2>2, Zenon
  <2>4. Holders = {}
    BY <1>0, <1>2, <2>1, <2>2, Zenon DEF PinInv
  <2>5. Users(f) = {}
    BY <1>1, <2>3, <2>4, Zenon
  <2> QED BY <1>6, <2>5, FS_EmptySet, Zenon
<1>7. CASE f \in occ /\ ~\E t \in Threads : Evicting(t) /\ th[t].frm = f /\ pt_entry[f] = NULL
  <2>1. SUFFICES \E x : Users(f) = {x}
    BY <1>7, FS_Singleton, Zenon
  <2>2. CASE pt_entry[f] # NULL
    <3>1. PICK e \in Entries : e = pt_entry[f]
      BY <1>0, <2>2, Zenon
    <3>2. Rows = {} /\ Kernel = {}
      BY <1>0, <2>2, Zenon DEF Private
    <3>3. CASE Resident(e) /\ frame_no[e] = f
      <4>1. Holders = {}
        <5> SUFFICES ASSUME NEW u \in Holders PROVE FALSE
          BY Zenon
        <5>1. f # 0
          BY CoremapAssumption
        <5>2. u \in Threads /\ Holding(u) /\ Entry(u) = e /\ e # NULL
          BY <1>0, <1>2, <3>1, Zenon
        <5> QED BY <3>3, <5>1, <5>2, EntryOf, Zenon
      <4>2. InMemory = {e}
        BY <3>1, <3>3, Zenon
      <4>3. Users(f) = {e}
        BY <1>1, <3>2, <4>1, <4>2, Zenon
      <4> QED BY <4>3, Zenon
    <3>4. CASE ~(Resident(e) /\ frame_no[e] = f)
      <4>1. PICK u \in Threads : Holding(u) /\ th[u].frm = f
        BY <1>0, <2>2, <3>1, <3>4, Zenon DEF OwnerInv
      <4>2. Holders = {u} /\ InMemory = {}
        BY <1>3, <1>4, <3>1, <3>4, <4>1, Zenon
      <4>3. Users(f) = {<<u>>}
        BY <1>1, <3>2, <4>2, Zenon
      <4> QED BY <4>3, Zenon
    <3> QED BY <3>3, <3>4, Zenon
  <2>3. CASE pt_entry[f] = NULL
    <3>1. InMemory = {}
      BY <1>0, <2>3, Zenon
    <3>2. CASE f \in kern
      <4>1. Rows = {} /\ Holders = {} /\ Kernel = {NULL}
        BY <1>0, <1>2, <3>2, Zenon
      <4>2. Users(f) = {NULL}
        BY <1>1, <3>1, <4>1, Zenon
      <4> QED BY <4>2, Zenon
    <3>3. CASE \E p \in Procs : row[p] = f
      <4>1. PICK p \in Procs : row[p] = f
        BY <3>3, Zenon
      <4>2. Rows = {p} /\ Holders = {} /\ Kernel = {}
        BY <1>0, <1>2, <4>1, Zenon
      <4>3. Users(f) = {p}
        BY <1>1, <3>1, <4>2, Zenon
      <4> QED BY <4>3, Zenon
    <3>4. CASE \E u \in Threads : (Evicting(u) \/ Holding(u)) /\ th[u].frm = f
      <4>1. PICK u \in Threads : Holding(u) /\ th[u].frm = f
        BY <1>7, <2>3, <3>4, Zenon
      <4>2. Pinning(u) /\ Holders = {u}
        BY <1>3, <1>4, <4>1, Zenon DEF Pinning
      <4>3. Rows = {} /\ Kernel = {}
        BY <1>0, <4>1, <4>2, Zenon
      <4>4. Users(f) = {<<u>>}
        BY <1>1, <3>1, <4>2, <4>3, Zenon
      <4> QED BY <4>4, Zenon
    <3> QED BY <1>0, <1>7, <2>3, <3>2, <3>3, <3>4, Zenon DEF OwnerInv
  <2> QED BY <2>2, <2>3, Zenon
<1> QED BY <1>5, <1>6, <1>7, Zenon

(* No frame is shared or lost. *)
THEOREM FramesNeverLost ==
  ASSUME ~IOErrors
  PROVE  Spec /\ []NoDestroyRace /\ []NoCopyRace => []FramesAccounted
BY InvAlways, InvAccounts, PTL

-----------------------------------------------------------------------------
(* A step of t leaves in the TLB only translations of t's own pages that    *)
(* are still in their frames.                                               *)
LEMMA TlbStep ==
  ASSUME Inv, TlbInv, NEW t \in Threads, tlb' \subseteq Tlb(t),
         \A u \in Threads \ {t} : Evicting(u)' => Evicting(u) /\ th'[u].frm = th[u].frm,
         \A x \in tlb' : Resident(x[1]) => Resident(x[1])' /\ frame_no'[x[1]] = frame_no[x[1]]
  PROVE  TlbInv'
<1>1. \A x \in tlb' : x \in tlb /\ x[1][1] = t
  BY Zenon DEF Tlb
<1>2. tlb' \subseteq Entries \X Frames
  BY <1>1, Zenon DEF TlbInv
<1>3. \A x \in tlb' : Resident(x[1])' /\ frame_no'[x[1]] = x[2]
  BY <1>1, Zenon DEF TlbInv, TlbCoherent
<1>4. \A x \in tlb', u \in Threads : Evicting(u)' /\ th'[u].frm = x[2] => x[1][1] = u
  <2> SUFFICES ASSUME NEW x \in tlb', NEW u \in Threads, Evicting(u)', th'[u].frm = x[2], u # t
               PROVE  FALSE
    BY <1>1, Zenon
  <2>1. Evicting(u) /\ th[u].frm = x[2]
    BY Zenon
  <2>2. x[1][1] = u
    BY <1>1, <2>1, Zenon DEF TlbInv
  <2> QED BY <1>1, <2>2, Zenon
<1>5. \A x \in tlb' : (x[1] = x[1])'
  BY Zenon
<1> QED BY <1>2, <1>3, <1>4, Zenon DEF TlbInv, TlbCoherent

(* ... in particular a step of t that moves no page. *)
LEMMA TlbQuiet ==
  ASSUME Inv, TlbInv, NEW t \in Threads, tlb' \subseteq Tlb(t),
         \A u \in Threads \ {t} : th'[u] = th[u], UNCHANGED <<valid, swp, frame_no>>
  PROVE  TlbInv'
<1>1. \A u \in Threads \ {t} : Evicting(u)' => Evicting(u) /\ th'[u].frm = th[u].frm
  BY SameThread, Zenon
<1>2. \A x \in tlb' : Resident(x[1]) => Resident(x[1])' /\ frame_no'[x[1]] = frame_no[x[1]]
  BY Zenon DEF Resident
<1> QED BY <1>1, <1>2, TlbStep, Zenon

(* ... or one that moves a page of another process only, or a page of its   *)
(* own that was not in memory.                                              *)
LEMMA TlbOther ==
  ASSUME Inv, TlbInv, NEW t \in Threads, tlb' \subseteq Tlb(t),
         \A u \in Threads \ {t} : th'[u] = th[u] \/ ~Evicting(u)',
         \A e \in Entries : e[1] = t /\ Resident(e) => Resident(e)' /\ frame_no'[e] = frame_no[e]
  PROVE  TlbInv'
<1>1. \A u \in Threads \ {t} : Evicting(u)' => Evicting(u) /\ th'[u].frm = th[u].frm
  BY SameThread, Zenon
<1>2. \A x \in tlb' : x[1] \in Entries /\ x[1][1] = t
  BY Zenon DEF Tlb, TlbInv
<1>3. \A x \in tlb' : Resident(x[1]) => Resident(x[1])' /\ frame_no'[x[1]] = frame_no[x[1]]
  BY <1>2, Zenon
<1> QED BY <1>1, <1>3, TlbStep, Zenon

(* A switch to another address space empties the TLB.                       *)
LEMMA TlbEmpty == tlb' = {} => TlbInv'
BY Zenon DEF TlbInv, TlbCoherent

(* get_n_frames invalidates the translation of the victim if it is its own. *)
LEMMA TlbEvict ==
  ASSUME Inv, TlbInv, NEW t \in Threads, Evict(t)
  PROVE  TlbInv'
<1>0. \A u \in Threads \ {t} : th'[u] = th[u]
  BY AllocateMoves, Zenon DEF MovesTo
<1> DEFINE old == pt_entry[th[t].frm]
<1>1. CASE old = NULL
  <2>1. UNCHANGED <<valid, swp, frame_no>> /\ tlb' \subseteq Tlb(t)
    BY <1>1, Zenon DEF Evict, ReassignVictim, pteVars
  <2> QED BY <1>0, <2>1, TlbQuiet, Zenon
<1>2. CASE old # NULL
  <2>0. Evicting(t) /\ th[t].frm \in Frames /\ old \in Entries /\ frame_no[old] = th[t].frm
    BY <1>2, VictimStays, Zenon DEF Evict, Evicting
  <2>1. /\ tlb' = {x \in Tlb(t) : x[2] # frame_no[old]}
        /\ valid' = valid /\ swp' = swp \cup {old} /\ frame_no' = [frame_no EXCEPT ![old] = th[t].idx]
    BY <1>2, Zenon DEF Evict, ReassignVictim, invalidate_entry_by_paddr
  <2>2. \A u \in Threads \ {t} : Evicting(u)' => Evicting(u) /\ th'[u].frm = th[u].frm
    BY <1>0, SameThread, Zenon
  <2>3. \A x \in tlb' : Resident(x[1]) => Resident(x[1])' /\ frame_no'[x[1]] = frame_no[x[1]]
    <3> SUFFICES ASSUME NEW x \in tlb', Resident(x[1])
                 PROVE  x[1] \notin swp' /\ x[1] \in valid' /\ frame_no'[x[1]] = frame_no[x[1]]
      BY Zenon DEF Resident
    <3>1. x \in tlb /\ frame_no[x[1]] = x[2] /\ x[2] # frame_no[old] /\ x[1] \in Entries
      BY <2>1, Zenon DEF Tlb, TlbInv, TlbCoherent
    <3>2. x[1] # old
      BY <3>1, Zenon
    <3> QED BY <2>1, <3>1, <3>2, FrameSorts, Zenon DEF Resident
  <2> QED BY <2>1, <2>2, <2>3, TlbStep, Zenon
<1> QED BY <1>1, <1>2, Zenon

(* tlb_write at the end of vm_fault: the frame is still fixed. *)
LEMMA TlbFill ==
  ASSUME Inv, ~IOErrors, TlbInv, NEW p \in Procs, FillTlb(p)
  PROVE  TlbInv'
<1>0. /\ p \in Threads /\ \A u \in Threads \ {p} : th'[u] = th[u]
      /\ th'[p].pc = "user"
  BY HandleMoves, Sorts, Zenon DEF MovesTo
<1>1. th[p].pg \in Pages /\ <<p, th[p].pg>> \in Entries /\ th[p].frm \in Frames /\ pc(p) = "tlb"
  BY <1>0, FrameSorts, Sorts, Zenon DEF ThreadInv, FillTlb
<1>2. PICK e \in Entries : e = <<p, th[p].pg>>
  BY <1>1, Zenon
<1>3. e[1] = p /\ Resident(e) /\ frame_no[e] = th[p].frm
  <2>1. PageInv(p)
    BY <1>0, FrameSorts, Zenon
  <2>2. <<p, th[p].pg>> \in valid \ swp /\ frame_no[<<p, th[p].pg>>] = th[p].frm
    BY <1>1, <2>1, Zenon DEF PageInv
  <2>3. e[1] = p
    BY <1>2, Zenon
  <2> QED BY <1>2, <2>2, <2>3, Zenon DEF Resident
<1>4. PICK y \in Entries \X Frames : y = <<e, th[p].frm>> /\ y[1] = e /\ y[2] = th[p].frm
  <2>1. /\ <<e, th[p].frm>> \in Entries \X Frames
        /\ <<e, th[p].frm>>[1] = e /\ <<e, th[p].frm>>[2] = th[p].frm
    BY <1>1, Zenon
  <2> QED BY <2>1, Zenon
<1>5. tlb' = Tlb(p) \cup {y} /\ UNCHANGED <<valid, swp, frame_no>>
  BY <1>2, <1>4, Zenon DEF FillTlb, pteVars
<1>6. tlb' \subseteq Entries \X Frames
  BY <1>5, Zenon DEF Tlb, TlbInv
<1>7. \A x \in tlb' : Resident(x[1])' /\ frame_no'[x[1]] = x[2]
  BY <1>3, <1>4, <1>5, Zenon DEF Tlb, TlbInv, TlbCoherent, Resident
<1>8. \A x \in tlb' : x[1][1] = p
  BY <1>3, <1>4, <1>5, Zenon DEF Tlb
<1>9. \A x \in tlb', u \in Threads : Evicting(u)' /\ th'[u].frm = x[2] => x[1][1] = u
  <2> SUFFICES ASSUME NEW x \in tlb', NEW u \in Threads, Evicting(u)', th'[u].frm = x[2], u # p
               PROVE  FALSE
    BY <1>8, Zenon
  <2>1. Evicting(u) /\ th[u].frm = x[2]
    BY <1>0, SameThread, Zenon
  <2>2. CASE x \in tlb
    BY <1>8, <2>1, <2>2, Zenon DEF TlbInv
  <2>3. CASE x = y
    <3>1. Pinning(u) /\ Pinning(p) /\ th[u].frm = th[p].frm
      BY <1>1, <1>4, <2>1, <2>3, Zenon DEF Pinning
    <3> QED BY <1>0, <3>1, FrameSorts, Zenon DEF PinInv
  <2> QED BY <1>5, <2>2, <2>3, Zenon DEF Tlb
<1> QED BY <1>6, <1>7, <1>9, Zenon DEF TlbInv, TlbCoherent

(* Every step keeps the TLB coherent. *)
LEMMA NextTlb ==
  ASSUME Inv, TlbInv, ~IOErrors, [Next]_vars
  PROVE  TlbInv'
<1>0. Procs \subseteq Threads /\ \A t : Tlb(t) \subseteq tlb
  BY Sorts, Zenon DEF Tlb
<1>1. ASSUME NEW t \in Threads, Allocate(t) PROVE TlbInv'
  <2>0. ~SwapSetFails(t)
    BY Zenon DEF SwapSetFails
  <2>1. CASE TakeFree(t) \/ StartSwapOut(t) \/ SwapSet(t) \/ DropSlot(t) \/ NoFrame(t)
    <3>1. tlb' \subseteq Tlb(t) /\ UNCHANGED <<valid, swp, frame_no>>
      BY <2>1, Zenon DEF TakeFree, StartSwapOut, MarkVictim, SwapSet, DropSlot, NoFrame, pteVars
    <3>2. \A u \in Threads \ {t} : th'[u] = th[u]
      BY <2>1, AllocateMoves, OtherMoves, Zenon DEF MovesTo
    <3> QED BY <3>1, <3>2, TlbQuiet, Zenon
  <2> QED BY <1>1, <2>0, <2>1, TlbEvict, Zenon DEF Allocate
<1>2. ASSUME NEW p \in Procs, (\E q \in Pages : vm_fault(p, q)) \/ Handle(p) PROVE TlbInv'
  <2>1. p \in Threads
    BY <1>0, Zenon
  <2>2. \A u \in Threads \ {p} : th'[u] = th[u]
    BY <1>2, HandleMoves, Zenon DEF MovesTo, Handle
  <2>3. CASE (\E q \in Pages : vm_fault(p, q)) \/ NeedFrame(p) \/ tlb_reload(p) \/ SwapIn(p)
    <3>1. tlb' \subseteq Tlb(p) /\ UNCHANGED <<valid, swp, frame_no>>
      BY <2>3, Zenon DEF vm_fault, NeedFrame, tlb_reload, SwapIn, pteVars
    <3> QED BY <2>1, <2>2, <3>1, TlbQuiet, Zenon
  <2>4. CASE load_frame(p) \/ Install(p)
    <3>1. Entry(p) = <<p, th[p].pg>> /\ Entry(p) \in Entries /\ ~Resident(Entry(p))
      <4>1. th[p].pg \in Pages /\ <<p, th[p].pg>> \in Entries /\ th[p].for \in {"load", "swapin"}
        BY <2>1, <2>4, FrameSorts, Sorts, Zenon DEF ThreadInv, load_frame, Install, Asking
      <4>2. Entry(p) = <<p, th[p].pg>>
        BY <4>1, Zenon DEF Entry
      <4>3. ~Resident(<<p, th[p].pg>>)
        BY <2>1, <2>4, FrameSorts, Zenon DEF PageInv, load_frame, Install, Asking, Resident
      <4> QED BY <4>1, <4>2, <4>3, Zenon
    <3>2. /\ tlb' \subseteq Tlb(p) /\ frame_no' = [frame_no EXCEPT ![Entry(p)] = th[p].frm]
          /\ valid \subseteq valid' /\ swp' \subseteq swp
      BY <2>4, Zenon DEF load_frame, Install
    <3>3. \A e \in Entries : Resident(e) => Resident(e)' /\ frame_no'[e] = frame_no[e]
      BY <3>1, <3>2, FrameSorts, Zenon DEF Resident
    <3> QED BY <2>1, <2>2, <3>2, <3>3, TlbOther, Zenon
  <2> QED BY <1>2, <2>3, <2>4, TlbFill, Zenon DEF Handle
<1>3. ASSUME NEW p \in Procs, (\E c \in Procs : Fork(p, c)) \/ Copy(p) PROVE TlbInv'
  <2>1. p \in Threads
    BY <1>0, Zenon
  <2>2. CASE \E c \in Procs : Fork(p, c)
    <3>1. tlb' \subseteq Tlb(p) /\ UNCHANGED <<valid, swp, frame_no>>
      BY <2>2, Zenon DEF Fork, pteVars
    <3>2. \A u \in Threads \ {p} : th'[u] = th[u]
      BY <2>1, <2>2, TableMoves, Zenon DEF MovesTo
    <3> QED BY <2>1, <3>1, <3>2, TlbQuiet, Zenon
  <2>3. CASE CopyDone(p)
    <3>1. tlb' \subseteq Tlb(p) /\ UNCHANGED <<valid, swp, frame_no>>
      BY <2>3, Zenon DEF CopyDone, pteVars
    <3>2. \A e \in Entries : Resident(e) => Resident(e)' /\ frame_no'[e] = frame_no[e]
      BY <3>1, Zenon DEF Resident
    <3>3. PICK c \in Procs : c = th[p].as
      BY <2>1, <2>3, FrameSorts, Zenon DEF ThreadInv, CopyDone, ThreadStates
    <3>4. th \in [Threads -> ThreadStates] /\ th' = [th EXCEPT ![p] = At("user"), ![c] = At("user")]
      BY <2>3, <3>3, Zenon DEF CopyDone, Inv, ControlInv
    <3>5. \A u \in Threads \ {p} : th'[u] = th[u] \/ th'[u].pc = "user"
      BY <3>4, Zenon DEF At
    <3>6. \A u \in Threads \ {p} : th'[u] = th[u] \/ ~Evicting(u)'
      BY <3>5, Zenon DEF Evicting, pc
    <3> QED BY <2>1, <3>1, <3>2, <3>6, TlbOther, Zenon
  <2>4. CASE CopyEntry(p) \/ CopyFrame(p)
    <3>1. PICK c \in Procs : c = th[p].as /\ c # p
      BY <2>1, <2>4, FrameSorts, Zenon DEF ThreadInv, CopyEntry, CopyFrame, ThreadStates
    <3>2. th[p].pg \in Pages /\ <<c, th[p].pg>> \in Entries /\ <<c, th[p].pg>>[1] = c
      <4>1. th[p].pg \in Pages
        BY <2>1, <2>4, FrameSorts, Sorts, Zenon DEF ThreadInv, CopyEntry, CopyFrame, MorePages, ThreadStates
      <4> QED BY <4>1, Sorts, Zenon
    <3>3. PICK new \in Entries : new = <<c, th[p].pg>> /\ new[1] = c
      BY <3>2, Zenon
    <3>4. /\ tlb' \subseteq Tlb(p) /\ valid \subseteq valid' /\ swp' \subseteq swp \cup {new}
          /\ \E i : frame_no' = [frame_no EXCEPT ![new] = i]
      <4>1. CASE CopyFrame(p)
        <5>1. Entry(p) = new
          BY <3>1, <3>3, <4>1, Zenon DEF CopyFrame, Entry
        <5> QED BY <4>1, <5>1, Zenon DEF CopyFrame
      <4>2. CASE CopyEntry(p)
        <5>1. frame_no' = frame_no => frame_no' = [frame_no EXCEPT ![new] = frame_no[new]]
          BY FrameSorts, Zenon
        <5> QED BY <3>1, <3>3, <4>2, <5>1, Zenon DEF CopyEntry
      <4> QED BY <2>4, <4>1, <4>2, Zenon
    <3>5. \A e \in Entries : e[1] = p /\ Resident(e) => Resident(e)' /\ frame_no'[e] = frame_no[e]
      BY <3>1, <3>3, <3>4, FrameSorts, Zenon DEF Resident
    <3>6. \A u \in Threads \ {p} : th'[u] = th[u]
      BY <2>1, <2>4, TableMoves, Zenon DEF MovesTo
    <3> QED BY <2>1, <3>4, <3>5, <3>6, TlbOther, Zenon
  <2> QED BY <1>3, <2>2, <2>3, <2>4, Zenon DEF Copy
<1>4. ASSUME NEW t \in Threads, Destroy(t) PROVE TlbInv'
  <2>1. \A u \in Threads \ {t} : th'[u] = th[u]
    BY <1>4, TableMoves, Zenon DEF MovesTo, Destroy
  <2>2. CASE StartDestroy(t) \/ CheckEntry(t) \/ FreeEntry(t) \/ RecheckEntry(t)
    <3>1. tlb' \subseteq Tlb(t) /\ UNCHANGED <<valid, swp, frame_no>>
      BY <2>2, Zenon DEF StartDestroy, CheckEntry, FreeEntry, RecheckEntry, pteVars
    <3> QED BY <2>1, <3>1, TlbQuiet, Zenon
  <2>3. CASE DestroyDone(t)
    <3>1. th[t].as # t
      BY <2>3, FrameSorts, Zenon DEF ThreadInv, DestroyDone
    <3>2. \A e \in Entries : e[1] = t /\ Resident(e) => Resident(e)' /\ frame_no'[e] = frame_no[e]
      BY <2>3, <3>1, Zenon DEF DestroyDone, Resident
    <3>3. tlb' \subseteq Tlb(t)
      BY <2>3, Zenon DEF DestroyDone
    <3> QED BY <2>1, <3>2, <3>3, TlbOther, Zenon
  <2> QED BY <1>4, <2>2, <2>3, Zenon DEF Destroy
<1>5. ASSUME NEW t \in Threads,
             init_rows(t) \/ (t \in Procs /\ sys__exit(t)) \/ \E c \in Procs : proc_wait(t, c)
      PROVE  TlbInv'
  <2>1. tlb' \subseteq Tlb(t) /\ UNCHANGED <<valid, swp, frame_no>>
    BY <1>5, Zenon DEF init_rows, sys__exit, proc_wait, pteVars
  <2>2. \A u \in Threads \ {t} : th'[u] = th[u]
    BY <1>5, OtherMoves, Zenon DEF MovesTo
  <2> QED BY <2>1, <2>2, TlbQuiet, Zenon
<1>6. ASSUME NEW p \in Procs, NEW q, NEW v, Write(p, q, v) PROVE TlbInv'
  BY <1>0, <1>6, TlbQuiet, Zenon DEF Write, pteVars
<1>7. AllocKernel \/ GotKernel \/ (\E f \in Frames : FreeKernel(f)) \/ (\E p \in Procs : runprogram(p)) => tlb' = {}
  BY Zenon DEF AllocKernel, GotKernel, FreeKernel, runprogram
<1>8. CASE UNCHANGED vars
  BY <1>8, Zenon DEF vars, pteVars, TlbInv, TlbCoherent, Resident, Evicting, pc
<1>9. CASE Next
  <2>1. CASE \E p \in Procs, q \in Pages : vm_fault(p, q) \/ \E v \in Values : Write(p, q, v)
    BY <1>2, <1>6, <2>1, Zenon
  <2>2. CASE \E p \in Procs : Handle(p) \/ Copy(p) \/ init_rows(p) \/ runprogram(p) \/ sys__exit(p)
    BY <1>0, <1>2, <1>3, <1>5, <1>7, <2>2, TlbEmpty, Zenon
  <2>3. CASE \E p, c \in Procs : Fork(p, c)
    BY <1>3, <2>3, Zenon
  <2>4. CASE \E t \in Threads : Allocate(t) \/ Destroy(t) \/ \E c \in Procs : proc_wait(t, c)
    BY <1>1, <1>4, <1>5, <2>4, Zenon
  <2>5. CASE AllocKernel \/ GotKernel \/ \E f \in Frames : FreeKernel(f)
    BY <1>7, <2>5, TlbEmpty, Zenon
  <2> QED BY <1>9, <2>1, <2>2, <2>3, <2>4, <2>5, Zenon DEF Next
<1> QED BY <1>8, <1>9, Zenon

(* A translation that is left in the TLB is right. *)
THEOREM TlbStaysCoherent ==
  ASSUME ~IOErrors
  PROVE  Spec /\ []NoDestroyRace /\ []NoCopyRace => []TlbCoherent
<1>1. Init => TlbInv
  BY Zenon DEF Init, TlbInv, TlbCoherent
<1>2. Inv /\ TlbInv /\ [Next]_vars => TlbInv'
  BY NextTlb, Zenon
<1>3. TlbInv => TlbCoherent
  BY Zenon DEF TlbInv
<1> QED BY <1>1, <1>2, <1>3, InvAlways, PTL DEF Spec

(* No process stores into a page while get_n_frames writes it to the swap   *)
(* file, whichever thread runs there.                                       *)
THEOREM SwappedOutAsWritten ==
  ASSUME ~IOErrors
  PROVE  Spec /\ []NoDestroyRace /\ []NoCopyRace => []NoWriteDuringSwapOut
<1>1. Init => TlbInv
  BY Zenon DEF Init, TlbInv, TlbCoherent
<1>2. Inv /\ TlbInv /\ [Next]_vars => TlbInv'
  BY NextTlb, Zenon
<1>3. TlbInv => NoWriteDuringSwapOut
  BY Zenon DEF TlbInv, NoWriteDuringSwapOut, Evicting
<1> QED BY <1>1, <1>2, <1>3, InvAlways, PTL DEF Spec

-----------------------------------------------------------------------------
(* The reference counts of the swap slots.                                  *)

(* The pages and the swap-outs in progress that refer to slot s. *)
Referrers(s) == {e \in valid \cap swp : frame_no[e] = s /\ ~Released(e)}
Writers(s) == {t \in Threads : pc(t) \in {"evict", "drop"} /\ th[t].idx = s}

RefsInv ==
  /\ refs \in [Slots -> Nat]
  /\ \A s \in Slots : refs[s] = Cardinality(Referrers(s)) + Cardinality(Writers(s))

(* Thread u is what makes Released(e) true. *)
Frees(u, e) ==
  \/ pc(u) = "install" /\ Entry(u) = e /\ e[1] = u
  \/ Destroying(u) /\ th[u].as = e[1] /\ e[2] < th[u].pg

(* The threads and the pages are finitely many.                             *)
LEMMA FiniteSorts ==
  /\ IsFiniteSet(Threads) /\ IsFiniteSet(Entries)
  /\ Cardinality(Threads) = Cardinality(Procs) + 1
<1>1. IsFiniteSet(Pages)
  BY VmAssumption, FS_Interval DEF Pages
<1>2. IsFiniteSet(Procs) /\ KernelThread \notin Procs /\ Entries = Procs \X Pages
  BY VmAssumption, Zenon
<1>3. IsFiniteSet(Threads) /\ Cardinality(Threads) = Cardinality(Procs) + 1
  BY <1>2, FS_AddElement, Zenon DEF Threads
<1>4. IsFiniteSet(Procs \X Pages)
  BY <1>1, <1>2, FS_Product, Zenon
<1> QED BY <1>2, <1>3, <1>4, Zenon

(* ... and so are the references to a slot.                                 *)
LEMMA FiniteReferences ==
  ASSUME Inv, NEW s
  PROVE  /\ IsFiniteSet(Referrers(s)) /\ Cardinality(Referrers(s)) \in Nat
         /\ IsFiniteSet(Writers(s)) /\ Cardinality(Writers(s)) \in Nat
<1>1. Referrers(s) \subseteq Entries /\ Writers(s) \subseteq Threads
  BY FrameSorts, Zenon DEF Referrers, Writers
<1>2. IsFiniteSet(Referrers(s)) /\ IsFiniteSet(Writers(s))
  BY <1>1, FiniteSorts, FS_Subset, Zenon
<1> QED BY <1>2, FS_CardinalityType, Zenon

(* Who refers to a slot depends on the entries in the swap file only. *)
LEMMA ReleasedFrees ==
  ASSUME NEW e \in Entries
  PROVE  /\ Released(e) <=> \E u \in Threads : Frees(u, e)
         /\ Released(e)' <=> \E u \in Threads : Frees(u, e)'
<1>1. e[1] \in Threads
  BY Sorts, Zenon
<1> QED BY <1>1, Zenon DEF Released, Frees, Destroying

(* A step of t changes which slots are released only through t.             *)
LEMMA ReleasedStep ==
  ASSUME NEW e \in Entries, NEW t \in Threads,
         \A u \in Threads \ {t} : th'[u] = th[u]
  PROVE  /\ (Frees(t, e)' <=> Frees(t, e)) => (Released(e)' <=> Released(e))
         /\ ~Released(e) /\ ~Frees(t, e)' => ~Released(e)'
         /\ Frees(t, e)' => Released(e)'
         /\ Frees(t, e) => Released(e)
<1>1. Released(e)' <=> \E u \in Threads : Frees(u, e)'
  BY ReleasedFrees, Zenon
<1>2. \A u \in Threads \ {t} : Frees(u, e)' <=> Frees(u, e)
  BY SameThread, Zenon DEF Frees
<1>3. Released(e) <=> \E u \in Threads : Frees(u, e)
  BY ReleasedFrees, Zenon
<1> QED BY <1>1, <1>2, <1>3, Zenon

(* A step that changes the references to slot s only. *)
LEMMA RefsStep ==
  ASSUME Inv, RefsInv, NEW s \in Slots,
         refs' \in [Slots -> Nat],
         \A r \in Slots : r # s => /\ refs'[r] = refs[r]
                                   /\ Referrers(r)' = Referrers(r) /\ Writers(r)' = Writers(r),
         refs'[s] = Cardinality(Referrers(s)') + Cardinality(Writers(s)')
  PROVE  RefsInv'
BY Zenon DEF RefsInv

(* ... or none. *)
LEMMA RefsSame ==
  ASSUME RefsInv, refs' = refs,
         \A r \in Slots : Referrers(r)' = Referrers(r) /\ Writers(r)' = Writers(r)
  PROVE  RefsInv'
BY Zenon DEF RefsInv

Idle(u) == pc(u) \notin {"install", "destroy", "free", "recheck", "evict", "drop"}

(* A step that neither moves a page from or to the swap file nor moves a    *)
(* thread that refers to a slot.                                            *)
LEMMA RefsQuiet ==
  ASSUME Inv, RefsInv, refs' = refs, swp' = swp, valid \subseteq valid',
         \A e \in swp : frame_no'[e] = frame_no[e],
         \A u \in Threads : th'[u] = th[u] \/ (Idle(u) /\ Idle(u)')
  PROVE  RefsInv'
<1>1. \A u \in Threads, e \in Entries : Frees(u, e)' <=> Frees(u, e)
  <2> TAKE u \in Threads, e \in Entries
  <2>1. CASE th'[u] = th[u]
    BY <2>1, SameThread, Zenon DEF Frees
  <2>2. CASE Idle(u) /\ Idle(u)'
    BY <2>2, Zenon DEF Idle, Frees, Destroying
  <2> QED BY <2>1, <2>2, Zenon
<1>2. \A e \in Entries : Released(e)' <=> Released(e)
  <2> TAKE e \in Entries
  <2>1. Released(e)' <=> \E u \in Threads : Frees(u, e)'
    BY ReleasedFrees, Zenon
  <2>2. Released(e) <=> \E u \in Threads : Frees(u, e)
    BY ReleasedFrees, Zenon
  <2> QED BY <1>1, <2>1, <2>2, Zenon
<1>3. \A r : Writers(r)' = Writers(r)
  BY Zenon DEF Idle, Writers, pc
<1>4. \A r : Referrers(r)' = Referrers(r)
  <2>1. swp \subseteq Entries /\ swp \subseteq valid
    BY FrameSorts, Zenon
  <2> QED BY <1>2, <2>1, Zenon DEF Referrers
<1> QED BY <1>3, <1>4, RefsSame, Zenon

(* The thread that moves refers to no slot through a page. *)
LEMMA SameReleased ==
  ASSUME Inv, NEW t \in Threads, \A u \in Threads \ {t} : th'[u] = th[u],
         pc(t) # "install", pc(t)' # "install", ~Destroying(t), ~Destroying(t)'
  PROVE  \A e \in Entries : Released(e)' <=> Released(e)
<1>1. \A e \in Entries : ~Frees(t, e) /\ ~Frees(t, e)'
  BY Zenon DEF Frees
<1> QED BY <1>1, ReleasedStep, Zenon

(* swap_set gives the slot its first reference. *)
LEMMA RefsSwapSet ==
  ASSUME Inv, RefsInv, NEW t \in Threads, SwapSet(t)
  PROVE  RefsInv'
<1>0. FirstFree \in Slots /\ refs[FirstFree] = 0 /\ BlockInv
  BY Picks, Zenon DEF SwapSet, swap_set, Inv
<1> DEFINE s == FirstFree
<1>1. /\ pc(t) = "swap" /\ th'[t].pc = "evict" /\ th'[t].idx = s
      /\ \A u \in Threads \ {t} : th'[u] = th[u]
  BY AllocateMoves, Zenon DEF MovesTo, SwapSet
<1>2. refs' = [refs EXCEPT ![s] = 1] /\ UNCHANGED <<swp, valid, frame_no>>
  BY Zenon DEF SwapSet, swap_set, pteVars
<1>3. \A e \in Entries : Released(e)' <=> Released(e)
  BY <1>1, SameReleased, Zenon DEF Destroying, pc
<1>4. \A r \in Slots : Referrers(r)' = Referrers(r)
  BY <1>2, <1>3, FrameSorts, Zenon DEF Referrers
<1>5. PICK k \in Slots : k = FirstFree
  BY <1>0, Zenon
<1>6. Writers(k)' = Writers(k) \cup {t} /\ t \notin Writers(k)
  BY <1>1, <1>5, Zenon DEF Writers, pc
<1>7. \A r \in Slots : r # k => Writers(r)' = Writers(r)
  BY <1>1, <1>5, Zenon DEF Writers, pc
<1>8. Cardinality(Writers(k)') = Cardinality(Writers(k)) + 1
  BY <1>6, FiniteReferences, FS_AddElement, Zenon
<1>9. refs' \in [Slots -> Nat] /\ \A r \in Slots : r # k => refs'[r] = refs[r]
  BY <1>2, <1>5, Zenon DEF RefsInv
<1>10. refs'[k] = Cardinality(Referrers(k)') + Cardinality(Writers(k)')
  <2>1. refs[k] = Cardinality(Referrers(k)) + Cardinality(Writers(k)) /\ refs[k] = 0 /\ refs'[k] = 1
    BY <1>0, <1>2, <1>5, Zenon DEF RefsInv
  <2>2. Referrers(k)' = Referrers(k)
    BY <1>4, Zenon
  <2> QED BY <1>8, <2>1, <2>2, FiniteReferences
<1> QED BY <1>4, <1>7, <1>9, <1>10, RefsStep, Zenon

(* victim_free takes the reference back. *)
LEMMA RefsDropSlot ==
  ASSUME Inv, RefsInv, NEW t \in Threads, DropSlot(t)
  PROVE  RefsInv'
<1>1. /\ pc(t) = "drop" /\ th'[t].pc = "got" /\ \A u \in Threads \ {t} : th'[u] = th[u]
  BY AllocateMoves, Zenon DEF MovesTo, DropSlot
<1>2. PICK k \in Slots : k = th[t].idx
  BY FrameSorts, Zenon DEF ThreadStates
<1>3. refs[k] > 0 /\ refs' = [refs EXCEPT ![k] = @ - 1] /\ UNCHANGED <<swp, valid, frame_no>>
  BY <1>2, Zenon DEF DropSlot, swap_get, pteVars
<1>4. \A e \in Entries : Released(e)' <=> Released(e)
  BY <1>1, SameReleased, Zenon DEF Destroying, pc
<1>5. \A r \in Slots : Referrers(r)' = Referrers(r)
  BY <1>3, <1>4, FrameSorts, Zenon DEF Referrers
<1>6. Writers(k)' = Writers(k) \ {t} /\ t \in Writers(k)
  BY <1>1, <1>2, Zenon DEF Writers, pc
<1>7. \A r \in Slots : r # k => Writers(r)' = Writers(r)
  BY <1>1, <1>2, Zenon DEF Writers, pc
<1>8. Cardinality(Writers(k)') = Cardinality(Writers(k)) - 1
  BY <1>6, FiniteReferences, FS_RemoveElement, Zenon
<1>9. refs' \in [Slots -> Nat] /\ \A r \in Slots : r # k => refs'[r] = refs[r]
  BY <1>3 DEF RefsInv
<1>10. refs'[k] = Cardinality(Referrers(k)') + Cardinality(Writers(k)')
  <2>1. refs[k] = Cardinality(Referrers(k)) + Cardinality(Writers(k)) /\ refs'[k] = refs[k] - 1
    BY <1>3, Zenon DEF RefsInv
  <2>2. Referrers(k)' = Referrers(k)
    BY <1>5, Zenon
  <2> QED BY <1>8, <2>1, <2>2, FiniteReferences
<1> QED BY <1>5, <1>7, <1>9, <1>10, RefsStep, Zenon

(* get_n_frames hands the reference over to the victim. *)
LEMMA RefsEvict ==
  ASSUME Inv, RefsInv, NEW t \in Threads, Evict(t)
  PROVE  RefsInv'
<1>0. pc(t) = "evict" /\ refs' = refs /\ valid' = valid
  BY Zenon DEF Evict, swapVars
<1>1. \A u \in Threads \ {t} : th'[u] = th[u]
  BY AllocateMoves, Zenon DEF MovesTo
<1>2. PICK k \in Slots : k = th[t].idx
  BY FrameSorts, Zenon DEF ThreadStates
<1>3. CASE pt_entry[th[t].frm] = NULL
  <2>1. th'[t].pc = "drop" /\ th'[t].idx = k
    BY <1>2, <1>3, AllocateMoves, Zenon DEF MovesTo
  <2>2. UNCHANGED <<swp, frame_no>>
    BY <1>3, Zenon DEF Evict, ReassignVictim, pteVars
  <2>3. \A e \in Entries : Released(e)' <=> Released(e)
    BY <1>0, <1>1, <2>1, SameReleased, Zenon DEF Destroying, pc
  <2>4. \A r \in Slots : Referrers(r)' = Referrers(r)
    BY <1>0, <2>2, <2>3, FrameSorts, Zenon DEF Referrers
  <2>5. \A r \in Slots : Writers(r)' = Writers(r)
    BY <1>0, <1>1, <1>2, <2>1, ZenonT(60) DEF Writers, pc
  <2> QED BY <1>0, <2>4, <2>5, RefsSame, Zenon
<1>4. CASE pt_entry[th[t].frm] # NULL
  <2>0. Evicting(t)
    BY <1>0, Zenon DEF Evicting
  <2>1. PICK old \in Entries : old = pt_entry[th[t].frm] /\ Resident(old) /\ ~Gone(old)
    BY <1>4, <2>0, VictimStays, Zenon
  <2>2. th'[t].pc = "got"
    BY <1>4, AllocateMoves, Zenon DEF MovesTo
  <2>3. swp' = swp \cup {old} /\ frame_no' = [frame_no EXCEPT ![old] = k]
    BY <1>2, <1>4, <2>1, Zenon DEF Evict, ReassignVictim
  <2>4. \A e \in Entries : Released(e)' <=> Released(e)
    BY <1>0, <1>1, <2>2, SameReleased, Zenon DEF Destroying, pc
  <2>5. ~Released(old)
    <3>1. \A u \in Threads : ~Frees(u, old)
      <4> SUFFICES ASSUME NEW u \in Threads, Frees(u, old) PROVE FALSE
        BY Zenon
      <4>1. CASE pc(u) = "install" /\ Entry(u) = old /\ old[1] = u
        <5>1. th[u].for = "swapin" /\ Entry(u) = <<u, th[u].pg>> /\ <<u, th[u].pg>> \in swp
          BY <4>1, FrameSorts, Zenon DEF ThreadInv, PageInv, Entry
        <5> QED BY <2>1, <4>1, <5>1, Zenon DEF Resident
      <4>2. CASE Destroying(u) /\ th[u].as = old[1] /\ old[2] < th[u].pg
        BY <2>1, <4>2, Zenon DEF Gone
      <4> QED BY <4>1, <4>2, Zenon DEF Frees
    <3> QED BY <3>1, ReleasedFrees, Zenon
  <2>6. old \in valid /\ old \notin swp /\ swp \subseteq Entries /\ frame_no \in [Entries -> Frames \cup Slots]
    BY <2>1, FrameSorts, Zenon DEF Resident
  <2>7. \A r \in Slots : r # k => Referrers(r)' = Referrers(r)
    BY <1>0, <2>3, <2>4, <2>6, Zenon DEF Referrers
  <2>8. Referrers(k)' = Referrers(k) \cup {old} /\ old \notin Referrers(k)
    BY <1>0, <2>3, <2>4, <2>5, <2>6, Zenon DEF Referrers
  <2>9. Writers(k)' = Writers(k) \ {t} /\ t \in Writers(k)
    BY <1>0, <1>1, <1>2, <2>2, Zenon DEF Writers, pc
  <2>10. \A r \in Slots : r # k => Writers(r)' = Writers(r)
    BY <1>0, <1>1, <1>2, <2>2, Zenon DEF Writers, pc
  <2>11. /\ Cardinality(Writers(k)') = Cardinality(Writers(k)) - 1
         /\ Cardinality(Referrers(k)') = Cardinality(Referrers(k)) + 1
    <3>1. IsFiniteSet(Writers(k)) /\ IsFiniteSet(Referrers(k))
      BY FiniteReferences, Zenon
    <3>2. Cardinality(Writers(k)') = Cardinality(Writers(k)) - 1
      BY <2>9, <3>1, FS_RemoveElement, Zenon
    <3>3. Cardinality(Referrers(k)') = Cardinality(Referrers(k)) + 1
      BY <2>8, <3>1, FS_AddElement, Zenon
    <3> QED BY <3>2, <3>3, Zenon
  <2>12. refs'[k] = Cardinality(Referrers(k)') + Cardinality(Writers(k)')
    <3>1. refs[k] = Cardinality(Referrers(k)) + Cardinality(Writers(k))
      BY Zenon DEF RefsInv
    <3> QED BY <1>0, <2>11, <3>1, FiniteReferences
  <2>13. refs' \in [Slots -> Nat] /\ \A r \in Slots : r # k => refs'[r] = refs[r]
    BY <1>0, Zenon DEF RefsInv
  <2> QED BY <2>7, <2>10, <2>12, <2>13, RefsStep, Zenon
<1> QED BY <1>3, <1>4, Zenon

(* A thread that is not swapping out refers to no slot itself. *)
LEMMA SameWriters ==
  ASSUME NEW t \in Threads, \A u \in Threads \ {t} : th'[u] = th[u],
         th[t].pc \notin {"evict", "drop"}, th'[t].pc \notin {"evict", "drop"}
  PROVE  \A r : Writers(r)' = Writers(r)
BY Zenon DEF Writers, pc

(* swap_get for page e, whose reference is not counted any longer. *)
LEMMA RefsRelease ==
  ASSUME Inv, RefsInv, NEW e \in swp, ~Released(e), swap_get(frame_no[e]),
         UNCHANGED <<swp, valid, frame_no>>,
         \A x \in swp : Released(x)' <=> Released(x) \/ x = e,
         \A r : Writers(r)' = Writers(r)
  PROVE  RefsInv'
<1>0. swp \subseteq valid /\ swp \subseteq Entries /\ frame_no[e] \in Slots
  BY FrameSorts, Zenon DEF EntryInv
<1>1. PICK k \in Slots : k = frame_no[e]
  BY <1>0, Zenon
<1>2. refs[k] > 0 /\ refs' = [refs EXCEPT ![k] = @ - 1]
  BY <1>1, Zenon DEF swap_get
<1>3. Referrers(k)' = Referrers(k) \ {e} /\ e \in Referrers(k)
  BY <1>0, <1>1, Zenon DEF Referrers
<1>4. \A r \in Slots : r # k => Referrers(r)' = Referrers(r)
  BY <1>0, <1>1, Zenon DEF Referrers
<1>5. Cardinality(Referrers(k)') = Cardinality(Referrers(k)) - 1
  BY <1>3, FiniteReferences, FS_RemoveElement, Zenon
<1>6. refs' \in [Slots -> Nat] /\ \A r \in Slots : r # k => refs'[r] = refs[r]
  BY <1>2 DEF RefsInv
<1>7. refs'[k] = Cardinality(Referrers(k)') + Cardinality(Writers(k)')
  <2>1. refs[k] = Cardinality(Referrers(k)) + Cardinality(Writers(k)) /\ refs'[k] = refs[k] - 1
    BY <1>2, Zenon DEF RefsInv
  <2>2. Writers(k)' = Writers(k)
    BY Zenon
  <2> QED BY <1>5, <2>1, <2>2, FiniteReferences
<1> QED BY <1>4, <1>6, <1>7, RefsStep, Zenon

(* The page that thread p is swapping in. *)
LEMMA SwapInPage ==
  ASSUME Inv, NEW p \in Procs, SwapIn(p) \/ Install(p)
  PROVE  /\ Entry(p) = <<p, th[p].pg>> /\ Entry(p) \in Entries /\ Entry(p)[1] = p /\ Entry(p) \in swp
         /\ \A u \in Threads, x \in Entries : x[1] = p /\ Frees(u, x) => u = p
<1>1. p \in Threads /\ pc(p) # "none"
  BY Sorts, Zenon DEF SwapIn, Install
<1>2. th[p].pg \in Pages /\ <<p, th[p].pg>> \in Entries /\ th[p].for = "swapin" /\ <<p, th[p].pg>>[1] = p
  BY <1>1, FrameSorts, Sorts, Zenon DEF ThreadInv, SwapIn, Install, Asking
<1>3. Entry(p) = <<p, th[p].pg>>
  BY <1>2, Zenon DEF Entry
<1>4. <<p, th[p].pg>> \in swp
  BY <1>1, <1>2, FrameSorts, Zenon DEF PageInv, SwapIn, Install, Asking
<1>5. \A u \in Threads : th[u].as # p
  BY <1>1, LiveOwner, Zenon
<1>6. \A u \in Threads, x \in Entries : x[1] = p /\ Frees(u, x) => u = p
  BY <1>5, Zenon DEF Frees
<1> QED BY <1>2, <1>3, <1>4, <1>6, Zenon

(* load_from_swap releases the slot before the entry leaves it. *)
LEMMA RefsSwapIn ==
  ASSUME Inv, ~IOErrors, RefsInv, NEW p \in Procs, SwapIn(p)
  PROVE  RefsInv'
<1>0. p \in Threads /\ pc(p) = "got" /\ UNCHANGED <<swp, valid, frame_no>> /\ swap_get(frame_no[Entry(p)])
  BY Sorts, Zenon DEF SwapIn, pteVars
<1>1. /\ \A u \in Threads \ {p} : th'[u] = th[u]
      /\ th'[p].pc = "install" /\ th'[p].for = "swapin" /\ th'[p].pg = th[p].pg
  BY HandleMoves, Zenon DEF MovesTo
<1>2. PICK e \in Entries : e = Entry(p) /\ e = <<p, th[p].pg>> /\ e[1] = p /\ e \in swp
  BY SwapInPage, Zenon
<1>3. Entry(p)' = e
  BY <1>1, <1>2, Zenon DEF Entry
<1>4. \A x \in Entries : ~Frees(p, x) /\ (Frees(p, x)' <=> x = e)
  BY <1>0, <1>1, <1>2, <1>3, Zenon DEF Frees, Destroying, pc
<1>5. \A x \in Entries : x # e => (Released(x)' <=> Released(x))
  BY <1>0, <1>1, <1>4, ReleasedStep, Zenon
<1>6. Released(e)' /\ ~Released(e)
  <2>1. \A u \in Threads : ~Frees(u, e)
    BY <1>2, <1>4, SwapInPage, Zenon
  <2>2. Released(e)'
    BY <1>0, <1>1, <1>4, ReleasedStep, Zenon
  <2> QED BY <2>1, <2>2, ReleasedFrees, Zenon
<1>7. \A x \in swp : Released(x)' <=> Released(x) \/ x = e
  BY <1>5, <1>6, FrameSorts, Zenon
<1>8. \A r : Writers(r)' = Writers(r)
  BY <1>0, <1>1, SameWriters, Zenon DEF pc
<1> QED BY <1>0, <1>2, <1>6, <1>7, <1>8, RefsRelease, Zenon

(* The page read back in refers to its slot no more; the slot was released. *)
LEMMA RefsInstall ==
  ASSUME Inv, ~IOErrors, RefsInv, NEW p \in Procs, Install(p)
  PROVE  RefsInv'
<1>0. p \in Threads /\ pc(p) = "install" /\ UNCHANGED <<refs, valid>>
  BY Sorts, Zenon DEF Install, swapVars
<1>1. (\A u \in Threads \ {p} : th'[u] = th[u]) /\ th'[p].pc = "tlb"
  BY HandleMoves, Zenon DEF MovesTo
<1>2. PICK e \in Entries : e = Entry(p) /\ e[1] = p
  BY SwapInPage, Zenon
<1>3. swp' = swp \ {e} /\ frame_no' = [frame_no EXCEPT ![e] = th[p].frm]
  BY <1>2, Zenon DEF Install
<1>4. \A x \in Entries : (Frees(p, x) <=> x = e) /\ ~Frees(p, x)'
  BY <1>0, <1>1, <1>2, Zenon DEF Frees, Destroying, pc
<1>5. \A x \in Entries : x # e => (Released(x)' <=> Released(x))
  BY <1>0, <1>1, <1>4, ReleasedStep, Zenon
<1>6. Released(e)
  BY <1>0, <1>1, <1>4, ReleasedStep, Zenon
<1>7. \A r \in Slots : Referrers(r)' = Referrers(r)
  <2>1. swp \subseteq Entries /\ frame_no \in [Entries -> Frames \cup Slots]
    BY FrameSorts, Zenon
  <2> QED BY <1>0, <1>3, <1>5, <1>6, <2>1, Zenon DEF Referrers
<1>8. \A r : Writers(r)' = Writers(r)
  BY <1>0, <1>1, SameWriters, Zenon DEF pc
<1> QED BY <1>0, <1>7, <1>8, RefsSame, Zenon

(* The pages of a table that t copies to or destroys are released by t only. *)
LEMMA TableOwner ==
  ASSUME Inv, NEW t \in Threads, NEW c \in Procs, th[t].as = c
  PROVE  \A u \in Threads, x \in Entries : x[1] = c /\ Frees(u, x) => u = t
<1>1. c \in Threads /\ ThreadInv(t) /\ ThreadInv(c) /\ c # NULL
  BY FrameSorts, Sorts, Zenon
<1>2. status[c] # "run"
  BY <1>1, Zenon DEF ThreadInv
<1>3. pc(c) = "none"
  BY <1>1, <1>2, Zenon DEF ThreadInv
<1>4. \A u \in Threads : th[u].as = c => u = t
  BY <1>1, Zenon DEF Inv, ControlInv
<1> QED BY <1>3, <1>4, Zenon DEF Frees

(* pt_copy shares a page that is in the swap file. *)
LEMMA RefsShare ==
  ASSUME Inv, RefsInv, NEW t \in Procs, CopyEntry(t), <<t, th[t].pg>> \in valid \cap swp
  PROVE  RefsInv'
<1>0. t \in Threads /\ pc(t) = "copy"
  BY Sorts, Zenon DEF CopyEntry
<1>1. PICK c \in Procs : c = th[t].as
  BY <1>0, FrameSorts, Zenon DEF ThreadInv, ThreadStates
<1>2. th[t].pg \in Pages /\ <<c, th[t].pg>> \in Entries /\ <<c, th[t].pg>>[1] = c /\ <<t, th[t].pg>> \in Entries
  <2>1. th[t].pg \in Pages
    BY <1>0, FrameSorts, Sorts, Zenon DEF ThreadInv, CopyEntry, MorePages, ThreadStates
  <2> QED BY <2>1, Sorts, Zenon
<1>3. PICK new \in Entries : new = <<c, th[t].pg>> /\ new[1] = c
  BY <1>2, Zenon
<1>4. PICK old \in Entries : old = <<t, th[t].pg>> /\ old \in swp
  BY <1>2, Zenon
<1>5. PICK k \in Slots : k = frame_no[old]
  BY <1>4, FrameSorts, Zenon DEF EntryInv
<1>6. /\ swp' = swp \cup {new} /\ valid' = valid \cup {new} /\ frame_no' = [frame_no EXCEPT ![new] = k]
      /\ refs' = [refs EXCEPT ![k] = @ + 1]
  BY <1>1, <1>3, <1>4, <1>5, Zenon DEF CopyEntry, swap_inc_ref, Resident
<1>7. (\A u \in Threads \ {t} : th'[u] = th[u]) /\ th'[t].pc = "copy"
  BY <1>0, TableMoves, Zenon DEF MovesTo, Resident
<1>8. \A e \in Entries : Released(e)' <=> Released(e)
  BY <1>0, <1>7, SameReleased, Zenon DEF Destroying, pc
<1>9. ~Released(new)
  <2>1. \A u \in Threads : Frees(u, new) => u = t
    BY <1>0, <1>1, <1>3, TableOwner
  <2>2. ~Frees(t, new)
    BY <1>0, Zenon DEF Frees, Destroying
  <2> QED BY <2>1, <2>2, ReleasedFrees, Zenon
<1>10. new \notin valid
  <2>1. Copying(t)
    BY <1>0, <1>1, Sorts, Zenon DEF Copying
  <2> QED BY <1>0, <1>1, <1>2, <1>3, <2>1, FrameSorts, Zenon DEF PageInv
<1>11. swp \subseteq valid /\ swp \subseteq Entries /\ frame_no \in [Entries -> Frames \cup Slots] /\ new \notin swp
  BY <1>10, FrameSorts, Zenon
<1>12. Referrers(k)' = Referrers(k) \cup {new} /\ new \notin Referrers(k)
  BY <1>6, <1>8, <1>9, <1>11, Zenon DEF Referrers
<1>13. \A r \in Slots : r # k => Referrers(r)' = Referrers(r)
  BY <1>6, <1>8, <1>11, Zenon DEF Referrers
<1>14. \A r : Writers(r)' = Writers(r)
  BY <1>0, <1>7, SameWriters, Zenon DEF pc
<1>15. Cardinality(Referrers(k)') = Cardinality(Referrers(k)) + 1
  BY <1>12, FiniteReferences, FS_AddElement, Zenon
<1>16. refs' \in [Slots -> Nat] /\ \A r \in Slots : r # k => refs'[r] = refs[r]
  BY <1>6 DEF RefsInv
<1>17. refs'[k] = Cardinality(Referrers(k)') + Cardinality(Writers(k)')
  <2>1. refs[k] = Cardinality(Referrers(k)) + Cardinality(Writers(k)) /\ refs'[k] = refs[k] + 1
    BY <1>6, Zenon DEF RefsInv
  <2>2. Writers(k)' = Writers(k)
    BY <1>14, Zenon
  <2> QED BY <1>15, <2>1, <2>2, FiniteReferences
<1> QED BY <1>13, <1>14, <1>16, <1>17, RefsStep, Zenon

(* A step of pt_destroy that releases no slot. *)
LEMMA RefsDestroying ==
  ASSUME Inv, RefsInv, NEW t \in Threads, refs' = refs, \A u \in Threads \ {t} : th'[u] = th[u],
         th[t].pc \in {"reap", "destroy", "free", "recheck"},
         th'[t].pc \in {"user", "destroy", "free", "recheck"},
         swp' \subseteq swp, swp' \subseteq valid', \A x \in swp' : frame_no'[x] = frame_no[x],
         \A x \in swp' : Frees(t, x)' <=> Frees(t, x),
         \A x \in swp \ swp' : Frees(t, x)
  PROVE  RefsInv'
<1>0. swp \subseteq Entries /\ swp \subseteq valid
  BY FrameSorts, Zenon
<1>1. \A x \in swp' : Released(x)' <=> Released(x)
  BY <1>0, ReleasedStep, Zenon
<1>2. \A x \in swp \ swp' : Released(x)
  BY <1>0, ReleasedFrees, Zenon
<1>3. \A r \in Slots : Referrers(r)' = Referrers(r)
  BY <1>0, <1>1, <1>2, Zenon DEF Referrers
<1>4. \A r : Writers(r)' = Writers(r)
  BY SameWriters, Zenon
<1> QED BY <1>3, <1>4, RefsSame, Zenon

(* pt_destroy releases every slot of the table once. *)
LEMMA RefsDestroy ==
  ASSUME Inv, RefsInv, NEW t \in Threads, Destroy(t)
  PROVE  RefsInv'
<1>1. th[t].pc \in {"reap", "destroy", "free", "recheck"} /\ \A u \in Threads \ {t} : th'[u] = th[u]
  <2>1. th[t].pc \in {"reap", "destroy", "free", "recheck"}
    BY Zenon DEF Destroy, StartDestroy, CheckEntry, FreeEntry, RecheckEntry, DestroyDone, pc
  <2> QED BY <2>1, TableMoves, Zenon DEF Destroy, MovesTo
<1>2. PICK c \in Procs : c = th[t].as
  BY <1>1, FrameSorts, Zenon DEF ThreadInv, ThreadStates, pc
<1>3. /\ swp \subseteq valid /\ swp \subseteq Entries /\ frame_no \in [Entries -> Frames \cup Slots]
      /\ th[t].pg \in Nat /\ \A x \in swp : x[1] \in Procs /\ x[2] \in Pages /\ x[2] \in Nat /\ x = <<x[1], x[2]>>
  BY FrameSorts, Sorts DEF ThreadStates
<1>4. \A x \in swp : Frees(t, x) <=> Destroying(t) /\ x[1] = c /\ x[2] < th[t].pg
  BY <1>1, <1>2, Zenon DEF Frees, pc
<1> DEFINE e == <<c, th[t].pg>>
<1>5. /\ e[1] = c /\ e[2] = th[t].pg
      /\ \A x \in swp : x # e /\ x[1] = c => (x[2] < th[t].pg + 1 <=> x[2] < th[t].pg)
  <2>1. e[1] = c /\ e[2] = th[t].pg
    BY Zenon
  <2>2. \A x \in swp : x # e /\ x[1] = c => x[2] # th[t].pg
    BY <1>3, Zenon
  <2> QED BY <1>3, <2>1, <2>2
<1> HIDE DEF e
<1>6. CASE StartDestroy(t)
  <2>1. /\ th'[t].pc = "destroy" /\ th'[t].as = c /\ th'[t].pg = (IF row[c] = NULL THEN LastPage + 1 ELSE 1)
        /\ pc(t) = "reap" /\ UNCHANGED <<refs, swp, valid, frame_no>>
    <3>1. MovesTo(t, "destroy", th[t].for, IF row[th[t].as] = NULL THEN LastPage + 1 ELSE 1,
                  th[t].frm, th[t].idx, th[t].as)
      BY <1>6, TableMoves, Zenon
    <3>2. pc(t) = "reap" /\ UNCHANGED <<refs, swp, valid, frame_no>>
      BY <1>6, Zenon DEF StartDestroy, pteVars
    <3> QED BY <1>2, <3>1, <3>2, Zenon DEF MovesTo
  <2>2. \A x \in swp : ~Frees(t, x)
    BY <1>4, <2>1, Zenon DEF Destroying
  <2>3. \A x \in swp : ~Frees(t, x)'
    <3> SUFFICES ASSUME NEW x \in swp, x[1] = c, x[2] < th'[t].pg PROVE FALSE
      BY <2>1, Zenon DEF Frees, pc
    <3>1. row[c] # NULL
      BY <1>3, FrameSorts, Zenon DEF EntryInv
    <3>2. x[2] < 1 /\ x[2] \in Pages
      BY <1>3, <2>1, <3>1, Zenon
    <3> QED BY <3>2, Sorts
  <2> QED BY <1>1, <1>3, <2>1, <2>2, <2>3, RefsDestroying, Zenon
<1>7. CASE CheckEntry(t) /\ e \in valid \cap swp
  <2>1. /\ pc(t) = "destroy" /\ UNCHANGED <<swp, valid, frame_no>> /\ swap_get(frame_no[e])
    BY <1>2, <1>7, Zenon DEF CheckEntry, pteVars, e, Resident
  <2>2. th'[t].pc = "destroy" /\ th'[t].as = c /\ th'[t].pg = th[t].pg + 1
    BY <1>2, <1>7, TableMoves, Zenon DEF MovesTo, e, Resident
  <2>3. \A x \in swp : Frees(t, x)' <=> x[1] = c /\ x[2] < th[t].pg + 1
    BY <2>2, Zenon DEF Frees, Destroying, pc
  <2>4. \A x \in swp : Frees(t, x)' <=> Frees(t, x) \/ x = e
    BY <1>3, <1>4, <1>5, <2>1, <2>3 DEF Destroying
  <2>5. ~Frees(t, e)
    BY <1>3, <1>4, <1>5, <1>7
  <2>6. ~Released(e)
    <3>1. e \in Entries
      BY <1>3, <1>7, Zenon
    <3>2. \A u \in Threads : ~Frees(u, e)
      BY <1>2, <1>5, <2>5, <3>1, TableOwner, Zenon
    <3> QED BY <3>1, <3>2, ReleasedFrees, Zenon
  <2>7. \A x \in swp : Released(x)' <=> Released(x) \/ x = e
    <3> TAKE x \in swp
    <3>1. x \in Entries
      BY <1>3, Zenon
    <3>2. CASE x = e
      BY <1>1, <2>4, <3>1, <3>2, ReleasedStep, Zenon
    <3>3. CASE x # e
      BY <1>1, <2>4, <3>1, <3>3, ReleasedStep, Zenon
    <3> QED BY <3>2, <3>3, Zenon
  <2>8. \A r : Writers(r)' = Writers(r)
    BY <1>1, <2>2, SameWriters, Zenon
  <2> QED BY <1>7, <2>1, <2>6, <2>7, <2>8, RefsRelease, Zenon
<1>8. CASE (CheckEntry(t) /\ Resident(e)) \/ FreeEntry(t)
  <2>1. UNCHANGED <<refs, swp, valid, frame_no>> /\ Destroying(t)
    BY <1>2, <1>8, Zenon DEF CheckEntry, FreeEntry, pteVars, swapVars, e, Resident, Destroying
  <2>2. th'[t].pc \in {"free", "recheck"} /\ th'[t].as = c /\ th'[t].pg = th[t].pg
    BY <1>2, <1>8, TableMoves, Zenon DEF MovesTo, e
  <2>3. \A x \in swp : Frees(t, x)' <=> Frees(t, x)
    BY <1>4, <2>1, <2>2, Zenon DEF Frees, Destroying, pc
  <2> QED BY <1>1, <1>3, <2>1, <2>2, <2>3, RefsDestroying, Zenon
<1>9. CASE (CheckEntry(t) /\ e \notin valid) \/ RecheckEntry(t)
  <2>1. e \notin swp
    BY <1>2, <1>3, <1>9, FrameSorts, Zenon DEF RecheckEntry, PageInv, e
  <2>2. UNCHANGED <<refs, swp, valid, frame_no>> /\ Destroying(t)
    BY <1>2, <1>9, <2>1, Zenon DEF CheckEntry, RecheckEntry, pteVars, e, Resident, Destroying
  <2>3. th'[t].pc = "destroy" /\ th'[t].as = c /\ th'[t].pg = th[t].pg + 1
    BY <1>2, <1>9, TableMoves, Zenon DEF MovesTo, e, Resident
  <2>4. \A x \in swp : Frees(t, x)' <=> x[1] = c /\ x[2] < th[t].pg + 1
    BY <2>3, Zenon DEF Frees, Destroying, pc
  <2>5. \A x \in swp : Frees(t, x)' <=> Frees(t, x)
    BY <1>4, <1>5, <2>1, <2>2, <2>4, Zenon
  <2> QED BY <1>1, <1>3, <2>2, <2>3, <2>5, RefsDestroying, Zenon
<1>10. CASE DestroyDone(t)
  <2>1. /\ pc(t) = "destroy" /\ ~MorePages(t) /\ refs' = refs
        /\ swp' = swp \ {x \in Entries : x[1] = c} /\ valid' = valid \ {x \in Entries : x[1] = c}
        /\ frame_no' = [x \in Entries |-> IF x \in {y \in Entries : y[1] = c} THEN 0 ELSE frame_no[x]]
    BY <1>2, <1>10, Zenon DEF DestroyDone
  <2>2. th'[t].pc = "user"
    BY <1>10, TableMoves, Zenon DEF MovesTo
  <2>3. \A x \in swp \ swp' : Frees(t, x)
    <3> TAKE x \in swp \ swp'
    <3>1. x[1] = c /\ x[2] \in Pages
      BY <1>3, <2>1, Zenon
    <3>2. x[2] < th[t].pg
      BY <1>3, <2>1, <3>1, Sorts DEF MorePages
    <3> QED BY <1>4, <2>1, <3>1, <3>2, Zenon DEF Destroying
  <2>4. \A x \in swp' : x \in swp /\ x \in Entries /\ x \in valid' /\ x[1] # c /\ frame_no'[x] = frame_no[x]
    BY <1>3, <2>1, Zenon
  <2>5. \A x \in swp' : Frees(t, x)' <=> Frees(t, x)
    BY <1>4, <2>2, <2>4, Zenon DEF Frees, Destroying, pc
  <2> QED BY <1>1, <2>1, <2>2, <2>3, <2>4, <2>5, RefsDestroying, Zenon
<1> QED
  <2>1. CheckEntry(t) => (CheckEntry(t) /\ e \in valid \cap swp) \/ (CheckEntry(t) /\ Resident(e))
                           \/ (CheckEntry(t) /\ e \notin valid)
    BY Zenon DEF Resident
  <2> QED BY <1>6, <1>7, <1>8, <1>9, <1>10, <2>1, Zenon DEF Destroy

(* One idle thread moves, and what is in the swap file stays as it is. *)
LEMMA RefsIdle ==
  ASSUME Inv, RefsInv, UNCHANGED <<refs, swp>>, valid \subseteq valid',
         \A e \in swp : frame_no'[e] = frame_no[e],
         NEW t \in Threads, \A u \in Threads \ {t} : th'[u] = th[u],
         pc(t) \in {"none", "user", "fault", "alloc", "swap", "got", "tlb", "copy", "reap"},
         th'[t].pc \in {"none", "user", "fault", "alloc", "swap", "got", "tlb", "copy", "reap"}
  PROVE  RefsInv'
<1>1. Idle(t) /\ Idle(t)'
  BY Zenon DEF Idle, pc
<1> QED BY <1>1, RefsQuiet, Zenon

(* Every step keeps the counts exact. *)
LEMMA NextRefs ==
  ASSUME Inv, RefsInv, ~IOErrors, [Next]_vars
  PROVE  RefsInv'
<1>0. Procs \subseteq Threads /\ KernelThread \in Threads /\ swp \subseteq Entries /\ swp \subseteq valid
      /\ frame_no \in [Entries -> Frames \cup Slots]
  BY Sorts, FrameSorts, Zenon
<1>1. ASSUME NEW t \in Threads, Allocate(t) PROVE RefsInv'
  <2>0. ~SwapSetFails(t)
    BY Zenon DEF SwapSetFails
  <2>1. CASE TakeFree(t) \/ StartSwapOut(t) \/ NoFrame(t)
    <3>1. pc(t) = "alloc" /\ UNCHANGED <<refs, swp, valid, frame_no>>
      BY <2>1, Zenon DEF TakeFree, StartSwapOut, MarkVictim, NoFrame, pteVars, swapVars
    <3>2. (\A u \in Threads \ {t} : th'[u] = th[u]) /\ th'[t].pc \in {"got", "swap", "user", "reap", "none"}
      BY <2>1, AllocateMoves, OtherMoves, Zenon DEF MovesTo
    <3> QED BY <3>1, <3>2, RefsIdle, Zenon
  <2> QED BY <1>1, <2>0, <2>1, RefsSwapSet, RefsEvict, RefsDropSlot, Zenon DEF Allocate
<1>2. ASSUME NEW p \in Procs, (\E q \in Pages : vm_fault(p, q)) \/ Handle(p) PROVE RefsInv'
  <2>1. p \in Threads
    BY <1>0, Zenon
  <2>2. CASE (\E q \in Pages : vm_fault(p, q)) \/ NeedFrame(p) \/ tlb_reload(p) \/ FillTlb(p)
    <3>1. pc(p) \in {"user", "fault", "tlb"} /\ UNCHANGED <<refs, swp, valid, frame_no>>
      BY <2>2, Zenon DEF vm_fault, NeedFrame, tlb_reload, FillTlb, pteVars, swapVars
    <3>2. (\A u \in Threads \ {p} : th'[u] = th[u]) /\ th'[p].pc \in {"fault", "alloc", "tlb", "user"}
      BY <2>2, HandleMoves, Zenon DEF MovesTo
    <3> QED BY <2>1, <3>1, <3>2, RefsIdle, Zenon
  <2>3. CASE load_frame(p)
    <3>1. Entry(p) = <<p, th[p].pg>> /\ <<p, th[p].pg>> \notin valid
      BY <2>1, <2>3, FrameSorts, Zenon DEF PageInv, load_frame, Asking, Entry
    <3>2. /\ pc(p) = "got" /\ UNCHANGED <<refs, swp>> /\ valid \subseteq valid'
          /\ frame_no' = [frame_no EXCEPT ![Entry(p)] = th[p].frm]
      BY <2>3, Zenon DEF load_frame, swapVars
    <3>3. \A e \in swp : frame_no'[e] = frame_no[e]
      BY <1>0, <3>1, <3>2, Zenon
    <3>4. (\A u \in Threads \ {p} : th'[u] = th[u]) /\ th'[p].pc = "tlb"
      BY <2>3, HandleMoves, Zenon DEF MovesTo
    <3> QED BY <2>1, <3>2, <3>3, <3>4, RefsIdle, Zenon
  <2> QED BY <1>2, <2>2, <2>3, RefsSwapIn, RefsInstall, Zenon DEF Handle
<1>3. ASSUME NEW p \in Procs, (\E c \in Procs : Fork(p, c)) \/ Copy(p) PROVE RefsInv'
  <2>1. p \in Threads
    BY <1>0, Zenon
  <2>2. CASE \E c \in Procs : Fork(p, c)
    <3>1. pc(p) = "user" /\ UNCHANGED <<refs, swp, valid, frame_no>>
      BY <2>2, Zenon DEF Fork, pteVars
    <3>2. (\A u \in Threads \ {p} : th'[u] = th[u]) /\ th'[p].pc \in {"copy", "alloc"}
      BY <2>1, <2>2, TableMoves, Zenon DEF MovesTo
    <3> QED BY <2>1, <3>1, <3>2, RefsIdle, Zenon
  <2>3. CASE CopyDone(p)
    <3>1. UNCHANGED <<refs, swp, valid, frame_no>>
      BY <2>3, Zenon DEF CopyDone, pteVars
    <3>2. PICK c \in Procs : c = th[p].as
      BY <2>1, <2>3, FrameSorts, Zenon DEF ThreadInv, CopyDone, ThreadStates
    <3>3. th \in [Threads -> ThreadStates] /\ th' = [th EXCEPT ![p] = At("user"), ![c] = At("user")]
      BY <2>3, <3>2, Zenon DEF CopyDone, Inv, ControlInv
    <3>4. \A u \in Threads : th'[u] = th[u] \/ (u \in {p, c} /\ th'[u].pc = "user")
      BY <3>3, Zenon DEF At
    <3>5. pc(p) = "copy" /\ pc(c) = "none"
      BY <1>0, <2>1, <2>3, <3>2, FrameSorts, Sorts, Zenon DEF CopyDone, ThreadInv
    <3>6. \A u \in Threads : th'[u] = th[u] \/ (Idle(u) /\ Idle(u)')
      BY <3>4, <3>5, Zenon DEF Idle, pc
    <3> QED BY <3>1, <3>6, RefsQuiet, Zenon
  <2>4. CASE CopyFrame(p)
    <3>1. PICK c \in Procs : c = th[p].as
      BY <2>1, <2>4, FrameSorts, Zenon DEF ThreadInv, CopyFrame, ThreadStates
    <3>2. Entry(p) \notin swp
      BY <2>1, <2>4, FrameSorts, Zenon DEF PageInv, CopyFrame, Entry
    <3>3. /\ pc(p) = "got" /\ UNCHANGED <<refs, swp, valid>>
          /\ frame_no' = [frame_no EXCEPT ![Entry(p)] = th[p].frm]
      BY <2>4, Zenon DEF CopyFrame, swapVars
    <3>4. \A e \in swp : frame_no'[e] = frame_no[e]
      BY <1>0, <3>2, <3>3, Zenon
    <3>5. (\A u \in Threads \ {p} : th'[u] = th[u]) /\ th'[p].pc = "copy"
      BY <2>1, <2>4, TableMoves, Zenon DEF MovesTo
    <3> QED BY <2>1, <3>3, <3>4, <3>5, RefsIdle, Zenon
  <2>5. CASE CopyEntry(p) /\ <<p, th[p].pg>> \notin valid \cap swp
    <3>1. pc(p) = "copy" /\ UNCHANGED <<refs, swp, frame_no>> /\ valid \subseteq valid'
      BY <2>5, Zenon DEF CopyEntry
    <3>2. (\A u \in Threads \ {p} : th'[u] = th[u]) /\ th'[p].pc \in {"copy", "alloc"}
      BY <2>1, <2>5, TableMoves, Zenon DEF MovesTo
    <3> QED BY <2>1, <3>1, <3>2, RefsIdle, Zenon
  <2> QED BY <1>3, <2>2, <2>3, <2>4, <2>5, RefsShare, Zenon DEF Copy
<1>4. ASSUME NEW t \in Threads,
             \/ init_rows(t) \/ (t = KernelThread /\ (AllocKernel \/ GotKernel))
             \/ (t \in Procs /\ (runprogram(t) \/ sys__exit(t))) \/ \E c \in Procs : proc_wait(t, c)
      PROVE  RefsInv'
  <2>1. UNCHANGED <<refs, swp, valid, frame_no>>
    BY <1>4, Zenon DEF init_rows, AllocKernel, GotKernel, runprogram, sys__exit, proc_wait, pteVars, swapVars
  <2>2. /\ \A u \in Threads \ {t} : th'[u] = th[u]
        /\ th'[t].pc \in {"none", "user", "fault", "alloc", "swap", "got", "tlb", "copy", "reap"}
    BY <1>4, OtherMoves, Zenon DEF MovesTo
  <2>3. CASE t \in Procs /\ runprogram(t)
    <3>1. pc(t) = "none"
      BY <2>3, FrameSorts, Zenon DEF runprogram, ThreadInv
    <3> QED BY <2>1, <2>2, <3>1, RefsIdle, Zenon
  <2>4. CASE ~(t \in Procs /\ runprogram(t))
    <3>1. pc(t) \in {"user", "got"}
      BY <1>4, <2>4, Zenon DEF init_rows, AllocKernel, GotKernel, sys__exit, proc_wait
    <3> QED BY <2>1, <2>2, <3>1, RefsIdle, Zenon
  <2> QED BY <2>3, <2>4, Zenon
<1>5. ASSUME UNCHANGED <<refs, swp, valid, frame_no, th>> PROVE RefsInv'
  BY <1>5, RefsQuiet, Zenon
<1>6. CASE UNCHANGED vars
  BY <1>5, <1>6, Zenon DEF vars, pteVars, swapVars
<1>7. CASE Next
  <2>1. CASE \E p \in Procs, q \in Pages : vm_fault(p, q) \/ \E v \in Values : Write(p, q, v)
    BY <1>2, <1>5, <2>1, Zenon DEF Write, pteVars, swapVars
  <2>2. CASE \E p \in Procs : Handle(p) \/ Copy(p) \/ init_rows(p) \/ runprogram(p) \/ sys__exit(p)
    BY <1>0, <1>2, <1>3, <1>4, <2>2, Zenon
  <2>3. CASE \E p, c \in Procs : Fork(p, c)
    BY <1>3, <2>3, Zenon
  <2>4. CASE \E t \in Threads : Allocate(t) \/ Destroy(t) \/ \E c \in Procs : proc_wait(t, c)
    BY <1>1, <1>4, <2>4, RefsDestroy, Zenon
  <2>5. CASE AllocKernel \/ GotKernel \/ \E f \in Frames : FreeKernel(f)
    BY <1>0, <1>4, <1>5, <2>5, Zenon DEF FreeKernel, pteVars, swapVars
  <2> QED BY <1>7, <2>1, <2>2, <2>3, <2>4, <2>5, Zenon DEF Next
<1> QED BY <1>6, <1>7, Zenon

(* The counts are exact from the start. *)
LEMMA InitRefs == Init => RefsInv
<1> SUFFICES ASSUME Init, NEW s \in Slots
             PROVE  Cardinality(Referrers(s)) = 0 /\ Cardinality(Writers(s)) = 0
  BY DEF Init, RefsInv
<1>1. Referrers(s) = {}
  BY Zenon DEF Init, Referrers
<1>2. \A t \in Threads : pc(t) \in {"user", "none"}
  BY Zenon DEF Init, At, pc
<1>3. Writers(s) = {}
  BY <1>2, Zenon DEF Writers
<1> QED BY <1>1, <1>3, FS_EmptySet, Zenon

(* Every slot is counted exactly as often as it is referred to. *)
THEOREM RefsStayExact ==
  ASSUME ~IOErrors
  PROVE  Spec /\ []NoDestroyRace /\ []NoCopyRace => []RefsExact
<1>1. Init => RefsInv
  BY InitRefs, Zenon
<1>2. Inv /\ RefsInv /\ [Next]_vars => RefsInv'
  BY NextRefs, Zenon
<1>3. RefsInv => RefsExact
  BY Zenon DEF RefsInv, RefsExact, Referrers, Writers
<1> QED BY <1>1, <1>2, <1>3, InvAlways, PTL DEF Spec

-----------------------------------------------------------------------------
(* A set is no larger than one it is related to one to one. *)
LEMMA Pigeons ==
  ASSUME NEW S, NEW T, IsFiniteSet(T), NEW R,
         \A s \in S : \E e \in T : <<s, e>> \in R,
         \A s, r \in S, e \in T : <<s, e>> \in R /\ <<r, e>> \in R => s = r
  PROVE  IsFiniteSet(S) /\ Cardinality(S) <= Cardinality(T)
<1> DEFINE f == [s \in S |-> CHOOSE e \in T : <<s, e>> \in R]
<1>1. \A s \in S : f[s] \in T /\ <<s, f[s]>> \in R
  BY Zenon
<1>2. f \in [S -> T]
  BY <1>1, Zenon
<1> HIDE DEF f
<1>3. f \in Injection(S, T)
  BY <1>1, <1>2, Zenon DEF Injection, IsInjective
<1> QED BY <1>3, FS_Injection, Zenon

(* The slot s belongs to page e or to the swap-out of page e. *)
Slotted == {x \in Slots \X Entries :
              \/ x[2] \in Referrers(x[1])
              \/ \E u \in Writers(x[1]) : pc(u) = "evict" /\ pt_entry[th[u].frm] = x[2]}

(* A page has one slot, and none while get_n_frames looks for one for it.   *)
LEMMA SlottedOnce ==
  ASSUME Inv
  PROVE  /\ \A s, r \in Slots, e \in Entries : <<s, e>> \in Slotted /\ <<r, e>> \in Slotted => s = r
         /\ \A t \in Threads, s \in Slots : pc(t) = "swap" => <<s, pt_entry[th[t].frm]>> \notin Slotted
<1>0. NULL \notin Entries
  BY FrameSorts, Zenon
<1>1. \A s \in Slots, e \in Entries :
        <<s, e>> \in Slotted <=> \/ e \in Referrers(s)
                                 \/ \E u \in Writers(s) : pc(u) = "evict" /\ pt_entry[th[u].frm] = e
  BY Zenon DEF Slotted
<1>2. \A u \in Threads, e \in Entries : Evicting(u) /\ pt_entry[th[u].frm] = e => Resident(e) /\ frame_no[e] = th[u].frm
  BY <1>0, VictimStays, Zenon
<1>3. \A s, e : e \in Referrers(s) => ~Resident(e) /\ frame_no[e] = s
  BY Zenon DEF Referrers, Resident
<1>4. \A s, u : u \in Writers(s) => u \in Threads /\ th[u].idx = s /\ (pc(u) = "evict" => Evicting(u)) /\ pc(u) # "swap"
  BY Zenon DEF Writers, Evicting
<1>5. \A u, v \in Threads, e \in Entries :
        Evicting(u) /\ Evicting(v) /\ pt_entry[th[u].frm] = e /\ pt_entry[th[v].frm] = e => u = v
  BY <1>2, FrameSorts DEF PinInv, Pinning
<1>6. ASSUME NEW s \in Slots, NEW r \in Slots, NEW e \in Entries, <<s, e>> \in Slotted, <<r, e>> \in Slotted
      PROVE  s = r
  <2>1. CASE e \in Referrers(s)
    BY <1>1, <1>2, <1>3, <1>4, <1>6, <2>1
  <2>2. CASE e \notin Referrers(s)
    <3>1. PICK u \in Writers(s) : pc(u) = "evict" /\ pt_entry[th[u].frm] = e
      BY <1>1, <1>6, <2>2, Zenon
    <3>2. e \notin Referrers(r)
      BY <1>2, <1>3, <1>4, <3>1
    <3>3. PICK v \in Writers(r) : pc(v) = "evict" /\ pt_entry[th[v].frm] = e
      BY <1>1, <1>6, <3>2, Zenon
    <3>4. u = v
      BY <1>4, <1>5, <3>1, <3>3
    <3> QED BY <1>4, <3>1, <3>3, <3>4
  <2> QED BY <2>1, <2>2, Zenon
<1>7. ASSUME NEW t \in Threads, NEW s \in Slots, pc(t) = "swap", <<s, pt_entry[th[t].frm]>> \in Slotted
      PROVE  FALSE
  <2>1. pt_entry[th[t].frm] \in Entries
    BY <1>7, Zenon DEF Slotted
  <2>2. PICK e \in Entries : e = pt_entry[th[t].frm]
    BY <2>1, Zenon
  <2>3. Evicting(t) /\ Resident(e)
    BY <1>2, <1>7, <2>2, Zenon DEF Evicting
  <2>4. PICK u \in Writers(s) : pc(u) = "evict" /\ pt_entry[th[u].frm] = e
    BY <1>1, <1>3, <1>7, <2>2, <2>3
  <2>5. u = t
    BY <1>4, <1>5, <2>2, <2>3, <2>4, Zenon
  <2> QED BY <1>7, <2>4, <2>5, Zenon
<1> QED BY <1>6, <1>7, Zenon

-----------------------------------------------------------------------------
(* Swap space.                                                              *)

PageSlots == {s \in Slots : \E e \in Entries : <<s, e>> \in Slotted}

(* When every slot is in use: those of pages, and those of swap-outs whose  *)
(* page is gone.                                                            *)
LEMMA SlotsInUse ==
  ASSUME Inv, RefsInv, NEW t \in Threads, pc(t) = "swap", FreeSlots = {}
  PROVE  /\ IsFiniteSet(PageSlots) /\ IsFiniteSet(Slots \ PageSlots)
         /\ SWAP_MAX = Cardinality(PageSlots) + Cardinality(Slots \ PageSlots)
         /\ pt_entry[th[t].frm] = NULL => Cardinality(PageSlots) <= Cardinality(Entries)
         /\ pt_entry[th[t].frm] # NULL => Cardinality(PageSlots) <= Cardinality(Entries) - 1
         /\ Cardinality(Slots \ PageSlots) <= Cardinality(Procs)
         /\ \A s \in Slots \ PageSlots : \E u \in Writers(s) : pc(u) = "drop" \/ pt_entry[th[u].frm] = NULL
<1>0. /\ IsFiniteSet(Entries) /\ IsFiniteSet(Threads) /\ Cardinality(Threads) = Cardinality(Procs) + 1
      /\ IsFiniteSet(Procs) /\ Cardinality(Procs) \in Nat /\ Cardinality(Entries) \in Nat
  BY FiniteSorts, VmAssumption, FS_CardinalityType, Zenon
<1> DEFINE v == pt_entry[th[t].frm]
           R == {x \in Slots \X Threads : x[2] \in Writers(x[1])}
<1>1. \A s \in Slots : Referrers(s) # {} \/ Writers(s) # {}
  <2> SUFFICES ASSUME NEW s \in Slots, Referrers(s) = {}, Writers(s) = {} PROVE FALSE
    BY Zenon
  <2>1. refs[s] = 0
    BY FS_EmptySet DEF RefsInv
  <2> QED BY <2>1, Zenon DEF FreeSlots
<1>2. \A s \in Slots \ PageSlots : Writers(s) # {}
  <2> SUFFICES ASSUME NEW s \in Slots, NEW e \in Referrers(s) PROVE s \in PageSlots
    BY <1>1, Zenon
  <2>1. e \in Entries
    BY FrameSorts, Zenon DEF Referrers
  <2>2. <<s, e>> \in Slotted
    BY <2>1, Zenon DEF Slotted
  <2> QED BY <2>1, <2>2, Zenon DEF PageSlots
<1>3. \A s \in Slots \ PageSlots : \E u \in Writers(s) : pc(u) = "drop" \/ pt_entry[th[u].frm] = NULL
  <2> SUFFICES ASSUME NEW s \in Slots \ PageSlots,
                      \A u \in Writers(s) : pc(u) # "drop" /\ pt_entry[th[u].frm] # NULL
               PROVE  FALSE
    BY Zenon
  <2>1. PICK u \in Writers(s) : u \in Threads /\ pc(u) = "evict"
    BY <1>2, Zenon DEF Writers
  <2>2. pt_entry[th[u].frm] \in Entries
    BY <2>1, VictimStays, Zenon DEF Evicting
  <2>3. PICK e \in Entries : e = pt_entry[th[u].frm]
    BY <2>2, Zenon
  <2>4. <<s, e>> \in Slotted
    BY <2>1, <2>3, Zenon DEF Slotted
  <2> QED BY <2>4, Zenon DEF PageSlots
<1>4. /\ IsFiniteSet(Slots \ PageSlots)
      /\ Cardinality(Slots \ PageSlots) <= Cardinality(Procs)
  <2>1. IsFiniteSet(Threads \ {t}) /\ Cardinality(Threads \ {t}) = Cardinality(Procs)
    <3>1. IsFiniteSet(Threads \ {t}) /\ Cardinality(Threads \ {t}) = Cardinality(Threads) - 1
      BY <1>0, FS_RemoveElement, Zenon
    <3> QED BY <1>0, <3>1
  <2>2. \A s \in Slots : \A u \in Writers(s) : u \in Threads \ {t} /\ <<s, u>> \in R
    BY Zenon DEF Writers
  <2>3. \A s, r \in Slots, u \in Threads : <<s, u>> \in R /\ <<r, u>> \in R => s = r
    BY Zenon DEF Writers
  <2> HIDE DEF R
  <2>4. \A s \in Slots \ PageSlots : \E u \in Threads \ {t} : <<s, u>> \in R
    BY <1>2, <2>2, Zenon
  <2>5. \A s, r \in Slots \ PageSlots, u \in Threads \ {t} : <<s, u>> \in R /\ <<r, u>> \in R => s = r
    BY <2>3, Zenon
  <2>6. IsFiniteSet(Slots \ PageSlots) /\ Cardinality(Slots \ PageSlots) <= Cardinality(Threads \ {t})
    BY <2>1, <2>4, <2>5, Pigeons, Zenon
  <2> QED BY <2>1, <2>6, Zenon
<1>5. \A s \in PageSlots : s \in Slots /\ \E e \in Entries : <<s, e>> \in Slotted
  BY Zenon DEF PageSlots
<1>6. \A s, r \in PageSlots, e \in Entries : <<s, e>> \in Slotted /\ <<r, e>> \in Slotted => s = r
  BY <1>5, SlottedOnce, Zenon
<1>7. IsFiniteSet(PageSlots) /\ Cardinality(PageSlots) <= Cardinality(Entries)
  BY <1>0, <1>5, <1>6, Pigeons, Zenon
<1>8. ASSUME v # NULL PROVE Cardinality(PageSlots) <= Cardinality(Entries) - 1
  <2>1. v \in Entries
    BY <1>8, VictimStays, Zenon DEF Evicting
  <2>2. PICK w \in Entries : w = v
    BY <2>1, Zenon
  <2>3. \A s \in PageSlots : \E e \in Entries \ {w} : <<s, e>> \in Slotted
    BY <1>5, <2>2, SlottedOnce, Zenon
  <2>4. IsFiniteSet(Entries \ {w}) /\ Cardinality(Entries \ {w}) = Cardinality(Entries) - 1
    BY <1>0, FS_RemoveElement, Zenon
  <2>5. \A s, r \in PageSlots, e \in Entries \ {w} : <<s, e>> \in Slotted /\ <<r, e>> \in Slotted => s = r
    BY <1>6, Zenon
  <2>6. Cardinality(PageSlots) <= Cardinality(Entries \ {w})
    BY <2>3, <2>4, <2>5, Pigeons, Zenon
  <2> QED BY <2>4, <2>6, Zenon
<1>9. SWAP_MAX = Cardinality(PageSlots) + Cardinality(Slots \ PageSlots)
  <2>1. Cardinality(Slots) = SWAP_MAX
    <3>1. SWAP_MAX \in Nat /\ SWAP_MAX > 0 /\ 0 \in Int /\ SWAP_MAX - 1 \in Int
      BY SwapfileAssumption
    <3>2. Cardinality(0 .. SWAP_MAX - 1) = IF 0 > SWAP_MAX - 1 THEN 0 ELSE SWAP_MAX - 1 - 0 + 1
      BY <3>1, FS_Interval, Zenon
    <3> QED BY <3>1, <3>2 DEF Slots
  <2>2. PageSlots \cup (Slots \ PageSlots) = Slots /\ PageSlots \cap (Slots \ PageSlots) = {}
    BY <1>5, Zenon
  <2>3. Cardinality(PageSlots \cup (Slots \ PageSlots))
          = Cardinality(PageSlots) + Cardinality(Slots \ PageSlots) - Cardinality(PageSlots \cap (Slots \ PageSlots))
    BY <1>4, <1>7, FS_Union, Zenon
  <2>4. Cardinality(PageSlots) \in Nat /\ Cardinality(Slots \ PageSlots) \in Nat /\ Cardinality({}) = 0
    BY <1>4, <1>7, FS_CardinalityType, FS_EmptySet, Zenon
  <2> QED BY <2>1, <2>2, <2>3, <2>4
<1> QED BY <1>3, <1>4, <1>7, <1>8, <1>9, Zenon

(* swap_set finds a slot when there is one for every page and process. *)
THEOREM SwapNeverFull ==
  ASSUME ~IOErrors, SWAP_MAX > Cardinality(Entries) + Cardinality(Procs)
  PROVE  Spec /\ []NoDestroyRace /\ []NoCopyRace => []SwapSpaceLeft
<1>1. Init => RefsInv
  BY InitRefs, Zenon
<1>2. Inv /\ RefsInv /\ [Next]_vars => RefsInv'
  BY NextRefs, Zenon
<1>3. Inv /\ RefsInv => SwapSpaceLeft
  <2> SUFFICES ASSUME Inv, RefsInv, NEW t \in Threads, pc(t) = "swap", FreeSlots = {} PROVE FALSE
    BY Zenon DEF SwapSpaceLeft
  <2>1. /\ Cardinality(Procs) \in Nat /\ Cardinality(Entries) \in Nat /\ SWAP_MAX \in Nat
    BY FiniteSorts, VmAssumption, FS_CardinalityType, SwapfileAssumption, Zenon
  <2>2. /\ IsFiniteSet(PageSlots) /\ IsFiniteSet(Slots \ PageSlots)
        /\ SWAP_MAX = Cardinality(PageSlots) + Cardinality(Slots \ PageSlots)
        /\ pt_entry[th[t].frm] = NULL => Cardinality(PageSlots) <= Cardinality(Entries)
        /\ pt_entry[th[t].frm] # NULL => Cardinality(PageSlots) <= Cardinality(Entries) - 1
        /\ Cardinality(Slots \ PageSlots) <= Cardinality(Procs)
    BY SlotsInUse, Zenon
  <2>3. Cardinality(PageSlots) \in Nat /\ Cardinality(Slots \ PageSlots) \in Nat
    BY <2>2, FS_CardinalityType, Zenon
  <2> QED BY <2>1, <2>2, <2>3
<1> QED BY <1>1, <1>2, <1>3, InvAlways, PTL DEF Spec

(* No swap-out has to give a slot back because its page is gone. *)
NoDrop == \A t \in Threads : pc(t) # "drop"

(* ... and no step makes one, as long as the pages keep their owners.       *)
LEMMA NextNoDrop ==
  ASSUME Inv, NoDrop, OwnersStay, ~IOErrors, [Next]_vars
  PROVE  NoDrop'
<1>0. Procs \subseteq Threads /\ KernelThread \in Threads
  BY Sorts, Zenon
<1> SUFFICES \A u \in Threads : th'[u] = th[u] \/ th'[u].pc # "drop"
  BY Zenon DEF NoDrop, pc
<1>1. ASSUME NEW t \in Threads, Allocate(t) PROVE \A u \in Threads : th'[u] = th[u] \/ th'[u].pc # "drop"
  <2>1. CASE Evict(t)
    <3>1. pt_entry[th[t].frm] # NULL
      BY <2>1, Zenon DEF Evict, OwnersStay, Evicting
    <3> QED BY <2>1, <3>1, AllocateMoves, Zenon DEF MovesTo
  <2>2. CASE TakeFree(t) \/ StartSwapOut(t) \/ SwapSet(t) \/ DropSlot(t) \/ NoFrame(t)
    BY <2>2, AllocateMoves, OtherMoves, Zenon DEF MovesTo
  <2> QED BY <1>1, <2>1, <2>2, Zenon DEF Allocate, SwapSetFails
<1>2. ASSUME NEW p \in Procs, (\E q \in Pages : vm_fault(p, q)) \/ Handle(p)
      PROVE  \A u \in Threads : th'[u] = th[u] \/ th'[u].pc # "drop"
  BY <1>2, HandleMoves, Zenon DEF MovesTo, Handle
<1>3. ASSUME NEW p \in Procs, CopyDone(p) PROVE \A u \in Threads : th'[u] = th[u] \/ th'[u].pc # "drop"
  <2>1. PICK c \in Procs : c = th[p].as
    BY <1>0, <1>3, FrameSorts, Zenon DEF ThreadInv, CopyDone, ThreadStates
  <2>2. th \in [Threads -> ThreadStates] /\ th' = [th EXCEPT ![p] = At("user"), ![c] = At("user")]
    BY <1>3, <2>1, Zenon DEF CopyDone, Inv, ControlInv
  <2> QED BY <2>2, Zenon DEF At
<1>4. ASSUME NEW t \in Threads, (\E c \in Procs : Fork(t, c)) \/ CopyEntry(t) \/ CopyFrame(t) \/ Destroy(t)
      PROVE  \A u \in Threads : th'[u] = th[u] \/ th'[u].pc # "drop"
  BY <1>4, TableMoves, Zenon DEF MovesTo, Destroy
<1>5. ASSUME NEW t \in Threads,
             init_rows(t) \/ runprogram(t) \/ sys__exit(t) \/ \E c \in Procs : proc_wait(t, c)
      PROVE  \A u \in Threads : th'[u] = th[u] \/ th'[u].pc # "drop"
  BY <1>5, OtherMoves, Zenon DEF MovesTo
<1>6. CASE AllocKernel \/ GotKernel
  BY <1>0, <1>6, OtherMoves, Zenon DEF MovesTo
<1>7. CASE UNCHANGED th
  BY <1>7, Zenon
<1>8. ASSUME NEW p \in Procs, NEW q \in Pages, NEW v \in Values, Write(p, q, v) PROVE UNCHANGED th
  BY <1>8, Zenon DEF Write
<1>9. ASSUME NEW f \in Frames, FreeKernel(f) PROVE UNCHANGED th
  BY <1>9, Zenon DEF FreeKernel
<1>10. UNCHANGED vars => UNCHANGED th
  BY Zenon DEF vars
<1> QED BY <1>0, <1>1, <1>2, <1>3, <1>4, <1>5, <1>6, <1>7, <1>8, <1>9, <1>10, Zenon DEF Next, Copy

(* One slot per page is enough as long as no table is destroyed while one   *)
(* of its pages is swapped out.                                             *)
THEOREM SwapFitsPages ==
  ASSUME ~IOErrors, SWAP_MAX >= Cardinality(Entries)
  PROVE  Spec /\ []NoDestroyRace /\ []NoCopyRace /\ []OwnersStay => []SwapSpaceLeft
<1>1. Init => RefsInv /\ NoDrop
  <2>1. Init => NoDrop
    BY Sorts DEF Init, NoDrop, pc, At
  <2> QED BY <2>1, InitRefs, Zenon
<1>2. Inv /\ RefsInv /\ [Next]_vars => RefsInv'
  BY NextRefs, Zenon
<1>3. Inv /\ NoDrop /\ OwnersStay /\ [Next]_vars => NoDrop'
  BY NextNoDrop, Zenon
<1>4. Inv /\ RefsInv /\ NoDrop /\ OwnersStay => SwapSpaceLeft
  <2> SUFFICES ASSUME Inv, RefsInv, NoDrop, OwnersStay, NEW t \in Threads, pc(t) = "swap", FreeSlots = {}
               PROVE  FALSE
    BY Zenon DEF SwapSpaceLeft
  <2>1. Cardinality(Entries) \in Nat /\ SWAP_MAX \in Nat
    BY FiniteSorts, FS_CardinalityType, SwapfileAssumption, Zenon
  <2>2. pt_entry[th[t].frm] # NULL /\ \A u \in Threads : pc(u) = "evict" => pt_entry[th[u].frm] # NULL
    BY Zenon DEF OwnersStay, Evicting
  <2>3. \A s : \A u \in Writers(s) : u \in Threads /\ pc(u) = "evict"
    BY Zenon DEF Writers, NoDrop
  <2>4. Slots \ PageSlots = {}
    BY <2>2, <2>3, SlotsInUse, Zenon
  <2>5. /\ IsFiniteSet(PageSlots) /\ SWAP_MAX = Cardinality(PageSlots) + Cardinality(Slots \ PageSlots)
        /\ Cardinality(PageSlots) <= Cardinality(Entries) - 1
    BY <2>2, SlotsInUse, Zenon
  <2>6. Cardinality(PageSlots) \in Nat /\ Cardinality({}) = 0
    BY <2>5, FS_CardinalityType, FS_EmptySet, Zenon
  <2>7. Cardinality(Slots \ PageSlots) = 0
    BY <2>4, <2>6, Zenon
  <2> QED BY <2>1, <2>5, <2>6, <2>7
<1> QED BY <1>1, <1>2, <1>3, <1>4, InvAlways, PTL DEF Spec
=============================================================================
