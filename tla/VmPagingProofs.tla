-------------------------- MODULE VmPagingProofs ----------------------------
(****************************************************************************)
(* What the steps of the paging code keep of the invariant of Vm: threads, *)
(* page tables, blocks of the coremap, and the frames that get_n_frames,   *)
(* the fault handler and the kernel allocate.                              *)
(****************************************************************************)
EXTENDS Vm, CoremapProofs

(* The sets the types are made of. *)
LEMMA Sorts ==
  /\ Frames \subseteq Nat /\ 0 \in Frames /\ Slots \subseteq Nat /\ 0 \in Slots
  /\ Pages \subseteq Nat /\ LastPage \in Pages /\ 0 \notin Pages /\ LastPage \in Nat
  /\ \A q \in 0..LastPage+1 : q >= 1 /\ q <= LastPage => q \in Pages
  /\ \A q \in Pages : q \in 0..LastPage+1 /\ q + 1 \in 0..LastPage+1 /\ q >= 1 /\ q <= LastPage
  /\ 0 \in 0..LastPage+1 /\ 1 \in 0..LastPage+1 /\ LastPage+1 \in 0..LastPage+1
  /\ Entries = Procs \X Pages
  /\ NULL \notin Procs /\ NULL \notin Frames /\ NULL \notin Entries
  /\ Procs \subseteq Threads /\ KernelThread \in Threads /\ KernelThread \notin Procs
  /\ \A t \in Threads : t = KernelThread \/ t \in Procs
  /\ NoThread \notin Threads
BY VmAssumption, CoremapAssumption, SwapfileAssumption DEF Frames, Slots, Pages, Threads

(* The locals of a thread at rest are well typed. *)
LEMMA AtType ==
  ASSUME NEW l \in Locations
  PROVE  At(l) \in ThreadStates
BY Sorts, Zenon DEF At, ThreadStates, Purposes

-----------------------------------------------------------------------------
(* The initial state satisfies the control invariant. *)
LEMMA InitControl == Init => ControlInv
<1> SUFFICES ASSUME Init PROVE ControlInv
  BY Zenon
<1>1. th \in [Threads -> ThreadStates]
  BY AtType, Zenon DEF Init, Locations
<1>2. \A t \in Threads : th[t] = At(IF t = KernelThread THEN "user" ELSE "none")
  BY Zenon DEF Init
<1>3. /\ status \in [Procs -> {"unborn", "embryo", "run", "exited", "reaped"}]
      /\ \A p \in Procs : status[p] = "unborn"
      /\ swap_lock = NoThread
  BY Zenon DEF Init
<1>4. ASSUME NEW t \in Threads PROVE ThreadInv(t) /\ th[t].as = NULL
  <2>1. /\ t = KernelThread => th[t] = At("user")
        /\ t # KernelThread => th[t] = At("none")
    BY <1>2, Zenon
  <2>2. /\ t = KernelThread => pc(t) = "user"
        /\ t # KernelThread => pc(t) = "none" /\ t \in Procs
        /\ th[t].for = "none" /\ th[t].pg = 0 /\ th[t].frm = 0 /\ th[t].idx = 0 /\ th[t].as = NULL
    BY <2>1, Sorts DEF At, pc
  <2> QED BY <2>2, <1>3, Sorts, Zenon DEF ThreadInv, Asking, Copying, Destroying
<1> QED BY <1>1, <1>3, <1>4, Zenon DEF ControlInv

(* A step of one thread that leaves alone what other threads rely on. *)
LEMMA ControlStep ==
  ASSUME ControlInv, NEW t \in Threads, UNCHANGED <<status, swap_lock>>,
         th' \in [Threads -> ThreadStates], \A u \in Threads \ {t} : th'[u] = th[u],
         th'[t].as = th[t].as, ThreadInv(t)'
  PROVE  ControlInv'
<1>1. ASSUME NEW u \in Threads \ {t} PROVE ThreadInv(u)'
  BY <1>1 DEF ControlInv, ThreadInv, pc, Asking, Copying, Destroying
<1>2. \A u \in Threads : th'[u].as = th[u].as
  BY Zenon
<1> QED BY <1>1, <1>2, ZenonT(60) DEF ControlInv

(* The frames and slots that a step picks. *)
LEMMA Picks ==
  ASSUME BlockInv
  PROVE  /\ Found(1) => FirstFit(1) \in Frames \ occ /\ FirstFit(1) >= FirstPage
                        /\ nframes[FirstFit(1)] >= 1
         /\ get_victim # -1 => get_victim \in Frames /\ Evictable(get_victim)
         /\ FreeSlots # {} => FirstFree \in Slots /\ refs[FirstFree] = 0
<1>1. Found(1) => FirstFit(1) \in Frames \ occ /\ FirstFit(1) >= FirstPage
                    /\ nframes[FirstFit(1)] >= 1
  BY FirstFitIn, Zenon DEF BlockInv
<1>2. get_victim # -1 => get_victim \in Frames /\ Evictable(get_victim)
  BY VictimIn, Zenon DEF BlockInv
<1>3. FreeSlots \in SUBSET Nat
  BY Sorts, Zenon DEF FreeSlots
<1>4. FreeSlots # {} => FirstFree \in FreeSlots
  <2>1. FreeSlots # {} => \E s \in FreeSlots : \A r \in FreeSlots : s <= r
    BY <1>3, LeastNat, Zenon
  <2> QED BY <2>1, Zenon DEF FirstFree
<1> QED BY <1>1, <1>2, <1>4, Zenon DEF FreeSlots

Inv == ControlInv /\ EntryInv /\ BlockInv /\ FrameInv /\ PinInv

(* The locals r of a thread that has just come to l. *)
Fresh(r, l, use, q, c) ==
  r \in ThreadStates /\ r.pc = l /\ r.for = use /\ r.pg = q /\ r.frm = 0 /\ r.idx = 0 /\ r.as = c

(* ... as the steps set them. *)
LEMMA AtWith ==
  ASSUME NEW l \in Locations, NEW use \in Purposes, NEW q \in 0..LastPage+1, NEW c \in Procs \cup {NULL}
  PROVE  /\ Fresh([At(l) EXCEPT !.pg = q, !.as = c], l, "none", q, c)
         /\ Fresh([At(l) EXCEPT !.as = c, !.pg = q], l, "none", q, c)
         /\ Fresh([At(l) EXCEPT !.as = c, !.for = use], l, use, 0, c)
         /\ Fresh([At(l) EXCEPT !.as = c], l, "none", 0, c)
         /\ Fresh(At(l), l, "none", 0, NULL)
<1>b. 0 \in Slots /\ 0 \in Frames /\ 0 \in 0..LastPage+1 /\ "none" \in Purposes
  BY Sorts, Zenon DEF Purposes
<1>0. At(l) \in ThreadStates
  BY AtType, Zenon
<1>1. Fresh(At(l), l, "none", 0, NULL)
  BY <1>b, <1>0, Zenon DEF At, Fresh
<1> DEFINE a == At(l)
<1> HIDE DEF a
<1>2. Fresh([a EXCEPT !.pg = q, !.as = c], l, "none", q, c)
  BY <1>b, <1>1, Zenon DEF a, Fresh, ThreadStates
<1>3. Fresh([a EXCEPT !.as = c, !.pg = q], l, "none", q, c)
  BY <1>b, <1>1, Zenon DEF a, Fresh, ThreadStates
<1>4. Fresh([a EXCEPT !.as = c, !.for = use], l, use, 0, c)
  BY <1>b, <1>1, Zenon DEF a, Fresh, ThreadStates
<1>5. Fresh([a EXCEPT !.as = c], l, "none", 0, c)
  BY <1>b, <1>1, Zenon DEF a, Fresh, ThreadStates
<1> QED BY <1>1, <1>2, <1>3, <1>4, <1>5, Zenon DEF a

(* A step of thread t that leaves it with these locals, and others alone. *)
MovesTo(t, l, use, q, f, i, c) ==
  /\ th' \in [Threads -> ThreadStates] /\ \A u \in Threads \ {t} : th'[u] = th[u]
  /\ th'[t].pc = l /\ th'[t].for = use /\ th'[t].pg = q
  /\ th'[t].frm = f /\ th'[t].idx = i /\ th'[t].as = c

(* The moves of a thread inside get_n_frames. *)
LEMMA AllocateMoves ==
  ASSUME Inv, NEW t \in Threads
  PROVE  /\ TakeFree(t) => MovesTo(t, "got", th[t].for, th[t].pg, FirstFit(1), th[t].idx, th[t].as)
         /\ StartSwapOut(t) => MovesTo(t, "swap", th[t].for, th[t].pg, get_victim, th[t].idx, th[t].as)
         /\ SwapSet(t) => MovesTo(t, "evict", th[t].for, th[t].pg, th[t].frm, FirstFree, th[t].as)
         /\ Evict(t) => IF pt_entry[th[t].frm] = NULL
              THEN MovesTo(t, "drop", th[t].for, th[t].pg, th[t].frm, th[t].idx, th[t].as)
              ELSE MovesTo(t, "got", th[t].for, th[t].pg, th[t].frm, 0, th[t].as)
         /\ DropSlot(t) => MovesTo(t, "got", th[t].for, th[t].pg, th[t].frm, 0, th[t].as)
<1>a. th \in [Threads -> ThreadStates] /\ BlockInv
  BY Zenon DEF Inv, ControlInv
<1>b. 0 \in Slots
  BY Sorts, Zenon
<1>1. ASSUME TakeFree(t)
      PROVE  MovesTo(t, "got", th[t].for, th[t].pg, FirstFit(1), th[t].idx, th[t].as)
  <2>1. FirstFit(1) \in Frames
    BY <1>1, <1>a, Picks, Zenon DEF TakeFree
  <2> QED BY <1>1, <1>a, <2>1, ZenonT(60) DEF TakeFree, ThreadStates, Locations, MovesTo
<1>2. ASSUME StartSwapOut(t)
      PROVE  MovesTo(t, "swap", th[t].for, th[t].pg, get_victim, th[t].idx, th[t].as)
  <2>1. get_victim \in Frames
    BY <1>2, <1>a, Picks, Zenon DEF StartSwapOut
  <2> QED BY <1>2, <1>a, <2>1, ZenonT(60) DEF StartSwapOut, ThreadStates, Locations, MovesTo
<1>3. ASSUME SwapSet(t)
      PROVE  MovesTo(t, "evict", th[t].for, th[t].pg, th[t].frm, FirstFree, th[t].as)
  <2>1. FirstFree \in Slots
    BY <1>3, <1>a, Picks, Zenon DEF SwapSet, swap_set
  <2> QED BY <1>3, <1>a, <2>1, ZenonT(60) DEF SwapSet, ThreadStates, Locations, MovesTo
<1>4. ASSUME Evict(t)
      PROVE  IF pt_entry[th[t].frm] = NULL
               THEN MovesTo(t, "drop", th[t].for, th[t].pg, th[t].frm, th[t].idx, th[t].as)
               ELSE MovesTo(t, "got", th[t].for, th[t].pg, th[t].frm, 0, th[t].as)
  <2>1. CASE pt_entry[th[t].frm] = NULL
    <3>1. th' = [th EXCEPT ![t].pc = "drop", ![t].idx = @]
      BY <1>4, <2>1, Zenon DEF Evict
    <3> QED BY <1>a, <2>1, <3>1, ZenonT(60) DEF ThreadStates, Locations, MovesTo
  <2>2. CASE pt_entry[th[t].frm] # NULL
    <3>1. th' = [th EXCEPT ![t].pc = "got", ![t].idx = 0]
      BY <1>4, <2>2, Zenon DEF Evict
    <3> QED BY <1>a, <1>b, <2>2, <3>1, Zenon DEF ThreadStates, Locations, MovesTo
  <2> QED BY <2>1, <2>2, Zenon
<1>5. ASSUME DropSlot(t)
      PROVE  MovesTo(t, "got", th[t].for, th[t].pg, th[t].frm, 0, th[t].as)
  BY <1>5, <1>a, <1>b, Zenon DEF DropSlot, ThreadStates, Locations, MovesTo
<1> QED BY <1>1, <1>2, <1>3, <1>4, <1>5, Zenon

(* The moves of a process that handles a fault. *)
LEMMA HandleMoves ==
  ASSUME Inv, ~IOErrors, NEW p \in Procs
  PROVE  /\ \A q \in Pages : vm_fault(p, q) => MovesTo(p, "fault", "none", q, 0, 0, NULL)
         /\ NeedFrame(p) => \E use \in {"row", "load", "swapin"} :
              MovesTo(p, "alloc", use, th[p].pg, th[p].frm, th[p].idx, th[p].as)
         /\ tlb_reload(p) =>
              MovesTo(p, "tlb", th[p].for, th[p].pg, frame_no[<<p, th[p].pg>>], th[p].idx, th[p].as)
         /\ FillTlb(p) => MovesTo(p, "user", "none", 0, 0, 0, NULL)
         /\ load_frame(p) => MovesTo(p, "tlb", "load", th[p].pg, th[p].frm, th[p].idx, th[p].as)
         /\ SwapIn(p) => MovesTo(p, "install", "swapin", th[p].pg, th[p].frm, th[p].idx, th[p].as)
         /\ Install(p) => MovesTo(p, "tlb", th[p].for, th[p].pg, th[p].frm, th[p].idx, th[p].as)
<1>a. th \in [Threads -> ThreadStates] /\ p \in Threads /\ ThreadInv(p)
  BY Sorts, Zenon DEF Inv, ControlInv
<1>b. 0 \in Slots /\ 0 \in Frames /\ 0 \in 0..LastPage+1 /\ Pages \subseteq 0..LastPage+1
  BY Sorts, Zenon
<1>1. ASSUME NEW q \in Pages, vm_fault(p, q)
      PROVE  MovesTo(p, "fault", "none", q, 0, 0, NULL)
  <2>2. th[p].for = "none" /\ th[p].frm = 0 /\ th[p].idx = 0 /\ th[p].as = NULL
    BY <1>1, <1>a, Zenon DEF vm_fault, ThreadInv, pc
  <2>3. th' = [th EXCEPT ![p].pc = "fault", ![p].pg = q] /\ q \in 0..LastPage+1
    BY <1>1, <1>b, Zenon DEF vm_fault
  <2>4. MovesTo(p, "fault", th[p].for, q, th[p].frm, th[p].idx, th[p].as)
    BY <1>a, <2>3, Zenon DEF ThreadStates, Locations, MovesTo
  <2> QED BY <2>2, <2>4, Zenon
<1>2. ASSUME NeedFrame(p)
      PROVE  \E use \in {"row", "load", "swapin"} :
               MovesTo(p, "alloc", use, th[p].pg, th[p].frm, th[p].idx, th[p].as)
  <2>1. PICK use \in {"row", "load", "swapin"} : Request(p, use)
    BY <1>2, Zenon DEF NeedFrame
  <2>2. MovesTo(p, "alloc", use, th[p].pg, th[p].frm, th[p].idx, th[p].as)
    BY <1>a, <2>1, ZenonT(60) DEF Request, ThreadStates, Locations, Purposes, MovesTo
  <2> QED BY <2>2, Zenon
<1>3. ASSUME tlb_reload(p)
      PROVE  MovesTo(p, "tlb", th[p].for, th[p].pg, frame_no[<<p, th[p].pg>>], th[p].idx, th[p].as)
  <2>1. frame_no[<<p, th[p].pg>>] \in Frames
    BY <1>3, Zenon DEF tlb_reload, Usable, Resident, Inv, EntryInv
  <2> QED BY <1>3, <1>a, <2>1, Zenon DEF tlb_reload, ThreadStates, Locations, MovesTo
<1>4. ASSUME FillTlb(p)
      PROVE  MovesTo(p, "user", "none", 0, 0, 0, NULL)
  BY <1>4, <1>a, <1>b, Zenon DEF FillTlb, Leave, At, ThreadStates, Locations, Purposes, MovesTo
<1>5. ASSUME load_frame(p)
      PROVE  MovesTo(p, "tlb", "load", th[p].pg, th[p].frm, th[p].idx, th[p].as)
  BY <1>5, <1>a DEF load_frame, Goto, ThreadStates, Locations, MovesTo
<1>6. ASSUME SwapIn(p)
      PROVE  MovesTo(p, "install", "swapin", th[p].pg, th[p].frm, th[p].idx, th[p].as)
  BY <1>6, <1>a DEF SwapIn, Goto, ThreadStates, Locations, MovesTo
<1>7. ASSUME Install(p)
      PROVE  MovesTo(p, "tlb", th[p].for, th[p].pg, th[p].frm, th[p].idx, th[p].as)
  BY <1>7, <1>a, Zenon DEF Install, Goto, ThreadStates, Locations, MovesTo
<1> QED BY <1>1, <1>2, <1>3, <1>4, <1>5, <1>6, <1>7, Zenon

(* The moves of a thread that enters or leaves the kernel, or gives up. *)
LEMMA OtherMoves ==
  ASSUME Inv, ~IOErrors, NEW t \in Threads
  PROVE  /\ init_rows(t) => IF th[t].as = NULL
              THEN MovesTo(t, "fault", "none", th[t].pg, 0, 0, NULL)
              ELSE MovesTo(t, "copy", "none", 1, 0, 0, th[t].as)
         /\ NoFrame(t) => IF t = KernelThread THEN MovesTo(t, "user", "none", 0, 0, 0, NULL)
              ELSE IF th[t].as # NULL THEN MovesTo(t, "reap", "none", 0, 0, 0, th[t].as)
              ELSE MovesTo(t, "none", "none", 0, 0, 0, NULL)
         /\ t = KernelThread /\ AllocKernel => MovesTo(t, "alloc", "kern", 0, 0, 0, NULL)
         /\ t = KernelThread /\ GotKernel => MovesTo(t, "user", "none", 0, 0, 0, NULL)
         /\ runprogram(t) => MovesTo(t, "user", "none", 0, 0, 0, NULL)
         /\ sys__exit(t) => MovesTo(t, "none", "none", 0, 0, 0, NULL)
         /\ \A c \in Procs : proc_wait(t, c) => MovesTo(t, "reap", "none", 0, 0, 0, c)
<1>a. th \in [Threads -> ThreadStates] /\ ThreadInv(t) /\ th[t] \in ThreadStates
  BY Zenon DEF Inv, ControlInv
<1>b. 0 \in Slots /\ 0 \in Frames /\ 0 \in 0..LastPage+1 /\ 1 \in 0..LastPage+1
  BY Sorts, Zenon
<1>f. "user" \in Locations /\ "none" \in Locations /\ "reap" \in Locations
      /\ "fault" \in Locations /\ "copy" \in Locations /\ "none" \in Purposes
  BY Zenon DEF Locations, Purposes
<1>c. ASSUME NEW r, NEW l, NEW q, NEW c, Fresh(r, l, "none", q, c), th' = [th EXCEPT ![t] = r]
      PROVE  MovesTo(t, l, "none", q, 0, 0, c)
  BY <1>a, <1>c, Zenon DEF Fresh, MovesTo
<1>d. ASSUME NEW l \in Locations, th' = [th EXCEPT ![t] = At(l)]
      PROVE  MovesTo(t, l, "none", 0, 0, 0, NULL)
  <2>1. Fresh(At(l), l, "none", 0, NULL)
    BY <1>b, <1>d, <1>f, AtWith, Zenon
  <2> QED BY <1>c, <1>d, <2>1, Zenon
<1>e. th[t].as \in Procs \cup {NULL} /\ th[t].pg \in 0..LastPage+1
  BY <1>a, Zenon DEF ThreadStates
<1>1. ASSUME init_rows(t)
      PROVE  IF th[t].as = NULL THEN MovesTo(t, "fault", "none", th[t].pg, 0, 0, NULL)
             ELSE MovesTo(t, "copy", "none", 1, 0, 0, th[t].as)
  <2>1. CASE th[t].as = NULL
    <3>1. th' = [th EXCEPT ![t] = [At("fault") EXCEPT !.pg = th[t].pg, !.as = NULL]]
      BY <1>1, <2>1, Zenon DEF init_rows
    <3>r. Fresh([At("fault") EXCEPT !.pg = th[t].pg, !.as = NULL], "fault", "none", th[t].pg, NULL)
      BY <1>b, <1>e, <1>f, AtWith, Zenon
    <3> QED BY <1>c, <3>r, <2>1, <3>1, Zenon
  <2>2. CASE th[t].as # NULL
    <3>1. th' = [th EXCEPT ![t] = [At("copy") EXCEPT !.pg = 1, !.as = th[t].as]]
      BY <1>1, <2>2, Zenon DEF init_rows
    <3>r. Fresh([At("copy") EXCEPT !.pg = 1, !.as = th[t].as], "copy", "none", 1, th[t].as)
      BY <1>b, <1>e, <1>f, AtWith, Zenon
    <3> QED BY <1>c, <3>r, <2>2, <3>1, Zenon
  <2> QED BY <2>1, <2>2, Zenon
<1>2. ASSUME NoFrame(t)
      PROVE  IF t = KernelThread THEN MovesTo(t, "user", "none", 0, 0, 0, NULL)
             ELSE IF th[t].as # NULL THEN MovesTo(t, "reap", "none", 0, 0, 0, th[t].as)
             ELSE MovesTo(t, "none", "none", 0, 0, 0, NULL)
  <2>1. CASE t = KernelThread
    BY <1>2, <1>d, <1>f, <2>1, Zenon DEF NoFrame, GiveUp, Leave
  <2>2. CASE t # KernelThread /\ th[t].as # NULL
    <3>1. th' = [th EXCEPT ![t] = [At("reap") EXCEPT !.as = th[t].as]]
      BY <1>2, <2>2, Zenon DEF NoFrame, GiveUp
    <3>r. Fresh([At("reap") EXCEPT !.as = th[t].as], "reap", "none", 0, th[t].as)
      BY <1>b, <1>e, <1>f, AtWith, Zenon
    <3> QED BY <1>c, <3>r, <2>2, <3>1, Zenon
  <2>3. CASE t # KernelThread /\ th[t].as = NULL
    BY <1>2, <1>d, <1>f, <2>3, Zenon DEF NoFrame, GiveUp, Die
  <2> QED BY <2>1, <2>2, <2>3, Zenon
<1>3. ASSUME t = KernelThread, AllocKernel
      PROVE  MovesTo(t, "alloc", "kern", 0, 0, 0, NULL)
  <2>2. th[t].pg = 0 /\ th[t].frm = 0 /\ th[t].idx = 0 /\ th[t].as = NULL
    BY <1>3, <1>a, Zenon DEF AllocKernel, ThreadInv, pc
  <2> QED BY <1>3, <1>a, <2>2, Zenon DEF AllocKernel, Request, ThreadStates, Locations, Purposes, MovesTo
<1>4. t = KernelThread /\ GotKernel => MovesTo(t, "user", "none", 0, 0, 0, NULL)
  BY <1>d, <1>f, Zenon DEF GotKernel, Leave
<1>5. runprogram(t) => MovesTo(t, "user", "none", 0, 0, 0, NULL)
  BY <1>d, <1>f, Zenon DEF runprogram
<1>6. sys__exit(t) => MovesTo(t, "none", "none", 0, 0, 0, NULL)
  BY <1>d, <1>f, Zenon DEF sys__exit, Die
<1>7. ASSUME NEW c \in Procs, proc_wait(t, c)
      PROVE  MovesTo(t, "reap", "none", 0, 0, 0, c)
  <2>1. th' = [th EXCEPT ![t] = [At("reap") EXCEPT !.as = c]]
    BY <1>7, Zenon DEF proc_wait
  <2>r. Fresh([At("reap") EXCEPT !.as = c], "reap", "none", 0, c)
    BY <1>b, <1>e, <1>f, AtWith, Zenon
  <2> QED BY <1>c, <2>r, <2>1, Zenon
<1> QED BY <1>1, <1>2, <1>3, <1>4, <1>5, <1>6, <1>7, Zenon

(* The moves of a thread that copies or destroys a page table. *)
LEMMA TableMoves ==
  ASSUME Inv, NEW t \in Threads
  PROVE  /\ \A c \in Procs : Fork(t, c) => IF row[t] = NULL
              THEN MovesTo(t, "copy", "none", LastPage + 1, 0, 0, c)
              ELSE MovesTo(t, "alloc", "row", 0, 0, 0, c)
         /\ CopyEntry(t) => IF Resident(<<t, th[t].pg>>)
              THEN MovesTo(t, "alloc", "copy", th[t].pg, th[t].frm, th[t].idx, th[t].as)
              ELSE MovesTo(t, "copy", th[t].for, th[t].pg + 1, th[t].frm, th[t].idx, th[t].as)
         /\ CopyFrame(t) => MovesTo(t, "copy", "none", th[t].pg + 1, 0, 0, th[t].as)
         /\ StartDestroy(t) => MovesTo(t, "destroy", th[t].for,
              IF row[th[t].as] = NULL THEN LastPage + 1 ELSE 1, th[t].frm, th[t].idx, th[t].as)
         /\ CheckEntry(t) => IF Resident(<<th[t].as, th[t].pg>>)
              THEN MovesTo(t, "free", th[t].for, th[t].pg, frame_no[<<th[t].as, th[t].pg>>],
                           th[t].idx, th[t].as)
              ELSE MovesTo(t, "destroy", th[t].for, th[t].pg + 1, 0, th[t].idx, th[t].as)
         /\ FreeEntry(t) => MovesTo(t, "recheck", th[t].for, th[t].pg, th[t].frm, th[t].idx, th[t].as)
         /\ RecheckEntry(t) => MovesTo(t, "destroy", th[t].for, th[t].pg + 1, 0, th[t].idx, th[t].as)
         /\ DestroyDone(t) => MovesTo(t, "user", "none", 0, 0, 0, NULL)
<1>a. th \in [Threads -> ThreadStates] /\ ThreadInv(t) /\ th[t] \in ThreadStates
  BY Zenon DEF Inv, ControlInv
<1>b. 0 \in Slots /\ 0 \in Frames /\ 0 \in 0..LastPage+1 /\ 1 \in 0..LastPage+1
      /\ LastPage+1 \in 0..LastPage+1
  BY Sorts, Zenon
<1>c. ASSUME NEW r, NEW l, NEW use, NEW q, NEW c, Fresh(r, l, use, q, c), th' = [th EXCEPT ![t] = r]
      PROVE  MovesTo(t, l, use, q, 0, 0, c)
  BY <1>a, <1>c, Zenon DEF Fresh, MovesTo
<1>e. th[t].as \in Procs \cup {NULL} /\ th[t].pg \in 0..LastPage+1
      /\ (th[t].pg <= LastPage => th[t].pg + 1 \in 0..LastPage+1)
      /\ (th[t].pg \in Pages => th[t].pg + 1 \in 0..LastPage+1)
  BY <1>a, Sorts DEF ThreadStates
<1>f. "user" \in Locations /\ "copy" \in Locations /\ "alloc" \in Locations
      /\ "none" \in Purposes /\ "row" \in Purposes
  BY Zenon DEF Locations, Purposes
<1>1. ASSUME NEW c \in Procs, Fork(t, c)
      PROVE  IF row[t] = NULL THEN MovesTo(t, "copy", "none", LastPage + 1, 0, 0, c)
             ELSE MovesTo(t, "alloc", "row", 0, 0, 0, c)
  <2>1. CASE row[t] = NULL
    <3>1. th' = [th EXCEPT ![t] = [At("copy") EXCEPT !.as = c, !.pg = LastPage + 1]]
      BY <1>1, <2>1, Zenon DEF Fork
    <3>r. Fresh([At("copy") EXCEPT !.as = c, !.pg = LastPage + 1], "copy", "none", LastPage + 1, c)
      BY <1>b, <1>e, <1>f, AtWith, Zenon
    <3> QED BY <1>c, <3>r, <2>1, <3>1, Zenon
  <2>2. CASE row[t] # NULL
    <3>1. th' = [th EXCEPT ![t] = [At("alloc") EXCEPT !.as = c, !.for = "row"]]
      BY <1>1, <2>2, Zenon DEF Fork
    <3>r. Fresh([At("alloc") EXCEPT !.as = c, !.for = "row"], "alloc", "row", 0, c)
      BY <1>b, <1>e, <1>f, AtWith, Zenon
    <3> QED BY <1>c, <3>r, <2>2, <3>1, Zenon
  <2> QED BY <2>1, <2>2, Zenon
<1>2. ASSUME CopyEntry(t)
      PROVE  IF Resident(<<t, th[t].pg>>)
               THEN MovesTo(t, "alloc", "copy", th[t].pg, th[t].frm, th[t].idx, th[t].as)
               ELSE MovesTo(t, "copy", th[t].for, th[t].pg + 1, th[t].frm, th[t].idx, th[t].as)
  <2>1. th[t].pc = "copy" /\ th[t].pg + 1 \in 0..LastPage+1
    BY <1>2, <1>e, Zenon DEF CopyEntry, MorePages, pc
  <2>2. CASE Resident(<<t, th[t].pg>>)
    <3>1. th' = [th EXCEPT ![t].pc = "alloc", ![t].for = "copy"]
      BY <1>2, <2>2, Zenon DEF CopyEntry, Resident, Request
    <3> QED BY <1>a, <2>2, <3>1, Zenon DEF ThreadStates, Locations, Purposes, MovesTo
  <2>3. CASE ~Resident(<<t, th[t].pg>>)
    <3>1. th' = [th EXCEPT ![t].pg = @ + 1]
      BY <1>2, <2>3, Zenon DEF CopyEntry, Resident
    <3> QED BY <1>a, <2>1, <2>3, <3>1, Zenon DEF ThreadStates, Locations, Purposes, MovesTo
  <2> QED BY <2>2, <2>3, Zenon
<1>3. ASSUME CopyFrame(t)
      PROVE  MovesTo(t, "copy", "none", th[t].pg + 1, 0, 0, th[t].as)
  <2>1. th[t].pg \in Pages
    BY <1>3, <1>a, Zenon DEF CopyFrame, ThreadInv
  <2>2. th' = [th EXCEPT ![t] = [At("copy") EXCEPT !.as = th[t].as, !.pg = th[t].pg + 1]]
    BY <1>3, Zenon DEF CopyFrame
  <2>r. Fresh([At("copy") EXCEPT !.as = th[t].as, !.pg = th[t].pg + 1], "copy", "none", th[t].pg + 1, th[t].as)
    BY <1>b, <1>e, <1>f, <2>1, AtWith, Zenon
  <2> QED BY <1>c, <2>r, <2>1, <2>2, Zenon
<1>4. ASSUME StartDestroy(t)
      PROVE  MovesTo(t, "destroy", th[t].for,
               IF row[th[t].as] = NULL THEN LastPage + 1 ELSE 1, th[t].frm, th[t].idx, th[t].as)
  <2> DEFINE q == IF row[th[t].as] = NULL THEN LastPage + 1 ELSE 1
  <2>1. th' = [th EXCEPT ![t].pc = "destroy", ![t].pg = q] /\ q \in 0..LastPage+1
    BY <1>4, <1>b, Zenon DEF StartDestroy
  <2> HIDE DEF q
  <2>2. MovesTo(t, "destroy", th[t].for, q, th[t].frm, th[t].idx, th[t].as)
    BY <1>a, <2>1, Zenon DEF ThreadStates, Locations, MovesTo
  <2> QED BY <2>2, Zenon DEF q
<1>5. ASSUME CheckEntry(t)
      PROVE  IF Resident(<<th[t].as, th[t].pg>>)
               THEN MovesTo(t, "free", th[t].for, th[t].pg, frame_no[<<th[t].as, th[t].pg>>],
                            th[t].idx, th[t].as)
               ELSE MovesTo(t, "destroy", th[t].for, th[t].pg + 1, 0, th[t].idx, th[t].as)
  <2>1. th[t].pc = "destroy" /\ th[t].pg + 1 \in 0..LastPage+1
    BY <1>5, <1>e, Zenon DEF CheckEntry, MorePages, pc
  <2>2. CASE Resident(<<th[t].as, th[t].pg>>)
    <3> DEFINE f == frame_no[<<th[t].as, th[t].pg>>]
    <3>1. th' = [th EXCEPT ![t].pc = "free", ![t].frm = f]
      BY <1>5, <2>2, Zenon DEF CheckEntry, Resident
    <3>2. f \in Frames
      BY <2>2, Zenon DEF Resident, Inv, EntryInv
    <3> HIDE DEF f
    <3>3. MovesTo(t, "free", th[t].for, th[t].pg, f, th[t].idx, th[t].as)
      BY <1>a, <3>1, <3>2, Zenon DEF ThreadStates, Locations, MovesTo
    <3> QED BY <2>2, <3>3, Zenon DEF f
  <2>3. CASE ~Resident(<<th[t].as, th[t].pg>>)
    <3>1. th' = [th EXCEPT ![t].pc = "destroy", ![t].pg = @ + 1, ![t].frm = 0]
      BY <1>5, <2>3, Zenon DEF CheckEntry, Resident, NextEntry
    <3> QED BY <1>a, <1>b, <2>1, <2>3, <3>1, Zenon DEF ThreadStates, Locations, MovesTo
  <2> QED BY <2>2, <2>3, Zenon
<1>6. ASSUME FreeEntry(t)
      PROVE  MovesTo(t, "recheck", th[t].for, th[t].pg, th[t].frm, th[t].idx, th[t].as)
  BY <1>6, <1>a, Zenon DEF FreeEntry, Goto, ThreadStates, Locations, MovesTo
<1>7. ASSUME RecheckEntry(t)
      PROVE  MovesTo(t, "destroy", th[t].for, th[t].pg + 1, 0, th[t].idx, th[t].as)
  <2>1. th[t].pg \in Pages
    BY <1>7, <1>a, Zenon DEF RecheckEntry, ThreadInv
  <2>2. th' = [th EXCEPT ![t].pc = "destroy", ![t].pg = @ + 1, ![t].frm = 0]
    BY <1>7, Zenon DEF RecheckEntry, NextEntry
  <2> QED BY <1>a, <1>b, <1>e, <2>1, <2>2, Zenon DEF ThreadStates, Locations, MovesTo
<1>8. ASSUME DestroyDone(t)
      PROVE  MovesTo(t, "user", "none", 0, 0, 0, NULL)
  <2>1. Fresh(At("user"), "user", "none", 0, NULL)
    BY <1>b, <1>f, AtWith, Zenon
  <2> QED BY <1>8, <1>c, <2>1, Zenon DEF DestroyDone, Leave
<1> QED BY <1>1, <1>2, <1>3, <1>4, <1>5, <1>6, <1>7, <1>8, Zenon

-----------------------------------------------------------------------------
(* Steps inside get_n_frames keep the control invariant. *)
LEMMA AllocateControl ==
  ASSUME Inv, NEW t \in Threads,
         TakeFree(t) \/ StartSwapOut(t) \/ SwapSet(t) \/ Evict(t) \/ DropSlot(t)
  PROVE  ControlInv'
<1>1. ControlInv /\ ThreadInv(t) /\ UNCHANGED <<status, swap_lock>>
  BY Zenon DEF Inv, ControlInv, TakeFree, StartSwapOut, SwapSet, Evict, DropSlot, swapVars
<1>2. th[t].pc \in {"alloc", "swap", "evict", "drop"}
  BY Zenon DEF TakeFree, StartSwapOut, SwapSet, Evict, DropSlot, pc
<1>3. PICK l \in {"swap", "evict", "drop", "got"} :
        MovesTo(t, l, th[t].for, th[t].pg, th'[t].frm, th'[t].idx, th[t].as)
  BY AllocateMoves, Zenon DEF MovesTo
<1>4. ThreadInv(t)'
  BY <1>1, <1>2, <1>3, Zenon DEF MovesTo, ThreadInv, pc, Asking, Copying, Destroying
<1> QED BY <1>1, <1>3, <1>4, ControlStep, Zenon DEF MovesTo

(* Steps that handle a fault keep the control invariant. *)
LEMMA HandleControl ==
  ASSUME Inv, ~IOErrors, NEW p \in Procs,
         (\E q \in Pages : vm_fault(p, q)) \/ Handle(p)
  PROVE  ControlInv'
<1>0. p \in Threads /\ p # KernelThread
  BY Sorts, Zenon
<1>1. ControlInv /\ ThreadInv(p)
  BY <1>0, Zenon DEF Inv, ControlInv
<1>2. UNCHANGED <<status, swap_lock>>
  BY Zenon DEF Handle, vm_fault, NeedFrame, tlb_reload, FillTlb, load_frame, SwapIn, Install, swapVars
<1>3. ASSUME NEW q \in Pages, vm_fault(p, q) PROVE ControlInv'
  <2>1. MovesTo(p, "fault", "none", q, 0, 0, NULL) /\ th[p].pc = "user"
    BY <1>3, HandleMoves, Zenon DEF vm_fault, pc
  <2>2. ThreadInv(p)'
    BY <1>0, <1>1, <1>2, <2>1, Zenon DEF MovesTo, ThreadInv, pc, Asking, Copying, Destroying
  <2> QED BY <1>0, <1>1, <1>2, <2>1, <2>2, ControlStep, Zenon DEF MovesTo, ThreadInv, pc
<1>4. CASE NeedFrame(p)
  <2>1. PICK use \in {"row", "load", "swapin"} :
          MovesTo(p, "alloc", use, th[p].pg, th[p].frm, th[p].idx, th[p].as)
    BY <1>4, HandleMoves, Zenon
  <2>2. th[p].pc = "fault"
    BY <1>4, Zenon DEF NeedFrame, pc
  <2>3. ThreadInv(p)'
    BY <1>0, <1>1, <1>2, <2>1, <2>2, Zenon DEF MovesTo, ThreadInv, pc, Asking, Copying, Destroying
  <2> QED BY <1>0, <1>1, <1>2, <2>1, <2>3, ControlStep, Zenon DEF MovesTo
<1>5. CASE tlb_reload(p) \/ load_frame(p) \/ Install(p)
  <2>1. MovesTo(p, "tlb", th[p].for, th[p].pg, th'[p].frm, th[p].idx, th[p].as)
    BY <1>5, HandleMoves, Zenon DEF load_frame, MovesTo
  <2>2. th[p].pc = "fault" \/ (th[p].pc = "got" /\ th[p].for = "load") \/ th[p].pc = "install"
    BY <1>5, Zenon DEF tlb_reload, load_frame, Install, pc
  <2>3. ThreadInv(p)'
    BY <1>0, <1>1, <1>2, <2>1, <2>2, Zenon DEF MovesTo, ThreadInv, pc, Asking, Copying, Destroying
  <2> QED BY <1>0, <1>1, <1>2, <2>1, <2>3, ControlStep, Zenon DEF MovesTo
<1>6. CASE FillTlb(p)
  <2>1. MovesTo(p, "user", "none", 0, 0, 0, NULL) /\ th[p].pc = "tlb"
    BY <1>6, HandleMoves, Zenon DEF FillTlb, pc
  <2>2. ThreadInv(p)'
    BY <1>0, <1>1, <1>2, <2>1, Zenon DEF MovesTo, ThreadInv, pc, Asking, Copying, Destroying
  <2> QED BY <1>0, <1>1, <1>2, <2>1, <2>2, ControlStep, Zenon DEF MovesTo, ThreadInv, pc
<1>7. CASE SwapIn(p)
  <2>1. MovesTo(p, "install", "swapin", th[p].pg, th[p].frm, th[p].idx, th[p].as)
        /\ th[p].pc = "got" /\ th[p].for = "swapin"
    BY <1>7, HandleMoves, Zenon DEF SwapIn, pc
  <2>2. ThreadInv(p)'
    BY <1>0, <1>1, <1>2, <2>1, Zenon DEF MovesTo, ThreadInv, pc, Asking, Copying, Destroying
  <2> QED BY <1>0, <1>1, <1>2, <2>1, <2>2, ControlStep, Zenon DEF MovesTo
<1> QED BY <1>3, <1>4, <1>5, <1>6, <1>7, Zenon DEF Handle

(* Steps that change the status of a process or the holder of swap_lock, or   *)
(* enter and leave the kernel, keep the control invariant.                    *)
LEMMA OtherControl ==
  ASSUME Inv, ~IOErrors, NEW t \in Threads,
         \/ init_rows(t) \/ NoFrame(t) \/ (t = KernelThread /\ (AllocKernel \/ GotKernel))
         \/ (t \in Procs /\ (runprogram(t) \/ sys__exit(t))) \/ \E c \in Procs : proc_wait(t, c)
  PROVE  ControlInv'
<1>0. NULL \notin Procs /\ KernelThread \notin Procs /\ (t = KernelThread \/ t \in Procs)
      /\ NoThread \notin Threads /\ Procs \subseteq Threads /\ 1 \in Nat
  BY Sorts, Zenon
<1>1. ControlInv /\ ThreadInv(t) /\ th[t] \in ThreadStates
  BY Zenon DEF Inv, ControlInv
<1>2. CASE init_rows(t)
  <2>1. th[t].pc = "got" /\ th[t].for = "row" /\ UNCHANGED <<status, swap_lock>>
    BY <1>2, Zenon DEF init_rows, pc, swapVars
  <2>2. CASE th[t].as = NULL
    <3>1. MovesTo(t, "fault", "none", th[t].pg, 0, 0, NULL)
      BY <1>2, <2>2, OtherMoves, Zenon
    <3>2. ThreadInv(t)'
      BY <1>0, <1>1, <2>1, <2>2, <3>1, Zenon DEF MovesTo, ThreadInv, pc, Asking, Copying, Destroying
    <3> QED BY <1>1, <2>1, <2>2, <3>1, <3>2, ControlStep, Zenon DEF MovesTo
  <2>3. CASE th[t].as # NULL
    <3>1. MovesTo(t, "copy", "none", 1, 0, 0, th[t].as)
      BY <1>2, <2>3, OtherMoves, Zenon
    <3>2. ThreadInv(t)'
      BY <1>0, <1>1, <2>1, <2>3, <3>1 DEF MovesTo, ThreadInv, pc, Asking, Copying, Destroying
    <3> QED BY <1>1, <2>1, <2>3, <3>1, <3>2, ControlStep, Zenon DEF MovesTo
  <2> QED BY <2>2, <2>3, Zenon
<1>3. CASE t = KernelThread /\ (AllocKernel \/ GotKernel)
  <2>1. UNCHANGED <<status, swap_lock>> /\ th[t].as = NULL
        /\ (th[t].pc = "user" \/ (th[t].pc = "got" /\ th[t].for = "kern"))
    BY <1>1, <1>3, Zenon DEF AllocKernel, GotKernel, pc, swapVars, ThreadInv, Asking
  <2>2. MovesTo(t, "alloc", "kern", 0, 0, 0, NULL) \/ MovesTo(t, "user", "none", 0, 0, 0, NULL)
    BY <1>3, OtherMoves, Zenon
  <2>3. ThreadInv(t)'
    BY <1>0, <1>1, <1>3, <2>1, <2>2, Zenon DEF MovesTo, ThreadInv, pc, Asking, Copying, Destroying
  <2> QED BY <1>1, <2>1, <2>2, <2>3, ControlStep, Zenon DEF MovesTo
<1>4. CASE NoFrame(t) /\ t = KernelThread
  <2>1. UNCHANGED <<status, swap_lock>> /\ th[t].as = NULL /\ th[t].pc = "alloc"
    BY <1>1, <1>4, Zenon DEF NoFrame, GiveUp, pc, ThreadInv, Asking
  <2>2. MovesTo(t, "user", "none", 0, 0, 0, NULL)
    BY <1>4, OtherMoves, Zenon
  <2>3. ThreadInv(t)'
    BY <1>0, <1>1, <1>4, <2>1, <2>2, Zenon DEF MovesTo, ThreadInv, pc, Asking, Copying, Destroying
  <2> QED BY <1>1, <2>1, <2>2, <2>3, ControlStep, Zenon DEF MovesTo
<1>5. CASE NoFrame(t) /\ t # KernelThread /\ th[t].as # NULL
  <2>1. status' = status /\ swap_lock' = NoThread /\ th[t].pc = "alloc"
    BY <1>5, Zenon DEF NoFrame, GiveUp, pc
  <2>2. MovesTo(t, "reap", "none", 0, 0, 0, th[t].as)
    BY <1>5, OtherMoves, Zenon
  <2>3. Copying(t) /\ swap_lock = t
    BY <1>1, <1>5, <2>1, Zenon DEF ThreadInv, Copying, Asking, pc
  <2>4. ThreadInv(t)'
    BY <1>0, <1>1, <1>5, <2>1, <2>2, Zenon DEF MovesTo, ThreadInv, pc, Asking, Copying, Destroying
  <2>5. ASSUME NEW u \in Threads \ {t} PROVE ThreadInv(u)'
    <3>1. ThreadInv(u) /\ th'[u] = th[u]
      BY <1>1, <2>2, Zenon DEF ControlInv, MovesTo
    <3> QED BY <1>0, <2>1, <2>3, <3>1, Zenon DEF ThreadInv, pc, Asking, Copying, Destroying
  <2>6. \A u \in Threads : th'[u].as = th[u].as
    BY <2>2, Zenon DEF MovesTo
  <2> QED BY <1>1, <2>1, <2>2, <2>4, <2>5, <2>6, ZenonT(60) DEF ControlInv, MovesTo
<1>6. CASE t \in Procs /\ (runprogram(t) \/ sys__exit(t) \/ (NoFrame(t) /\ th[t].as = NULL))
  <2>1. PICK s \in {"run", "exited"}, l \in {"user", "none"} :
          /\ status' = [status EXCEPT ![t] = s] /\ (s = "run" <=> l = "user")
          /\ MovesTo(t, l, "none", 0, 0, 0, NULL)
    BY <1>0, <1>6, OtherMoves, Zenon DEF runprogram, sys__exit, NoFrame, GiveUp, Die
  <2>2. /\ swap_lock' = swap_lock
        /\ status[t] = "unborn" \/ status[t] = "run"
        /\ th[t].as = NULL
    <3>1. CASE runprogram(t)
      <4>1. status[t] = "unborn"
        BY <1>6, <3>1, Zenon DEF runprogram
      <4>2. th[t].pc = "none"
        BY <1>1, <1>6, <4>1, Zenon DEF ThreadInv, pc
      <4> QED BY <1>1, <3>1, <4>1, <4>2, Zenon DEF ThreadInv, pc, runprogram, swapVars
    <3>2. CASE sys__exit(t)
      BY <1>1, <3>2, Zenon DEF ThreadInv, pc, sys__exit, swapVars
    <3>3. CASE NoFrame(t) /\ th[t].as = NULL
      BY <1>0, <1>1, <1>6, <3>3, Zenon DEF ThreadInv, pc, NoFrame, GiveUp, swapVars
    <3> QED BY <1>6, <3>1, <3>2, <3>3, Zenon
  <2>3. status \in [Procs -> {"unborn", "embryo", "run", "exited", "reaped"}]
        /\ status' \in [Procs -> {"unborn", "embryo", "run", "exited", "reaped"}]
    BY <1>1, <1>6, <2>1, Zenon DEF ControlInv
  <2>4. ThreadInv(t)'
    <3>1. ~Copying(t) /\ ~Destroying(t)
      BY <1>1, <1>6, <2>2, Zenon DEF Copying, Destroying, ThreadInv
    <3>2. swap_lock # t /\ status'[t] = s
      BY <1>1, <1>6, <2>1, <2>3, <3>1, Zenon DEF ThreadInv
    <3> QED BY <1>0, <1>6, <2>1, <2>2, <3>2, Zenon DEF MovesTo, ThreadInv, pc, Asking, Copying, Destroying
  <2>5. ASSUME NEW u \in Threads \ {t} PROVE ThreadInv(u)'
    <3>1. ThreadInv(u) /\ th'[u] = th[u] /\ th[u] \in ThreadStates
      BY <1>1, <2>1, Zenon DEF ControlInv, MovesTo
    <3>2. th[u].as # NULL => th[u].as \in Procs /\ th[u].as # t
      BY <2>2, <3>1, Zenon DEF ThreadInv, ThreadStates
    <3>3. \A r \in Procs : r # t => status'[r] = status[r]
      BY <2>1, <2>3, Zenon
    <3> QED BY <1>0, <2>2, <3>1, <3>2, <3>3, ZenonT(60) DEF ThreadInv, pc, Asking, Copying, Destroying
  <2>6. \A u \in Threads : th'[u].as = th[u].as
    BY <2>1, <2>2, Zenon DEF MovesTo
  <2> QED BY <1>1, <2>1, <2>2, <2>3, <2>4, <2>5, <2>6 DEF ControlInv, MovesTo
<1>7. ASSUME NEW c \in Procs, proc_wait(t, c) PROVE ControlInv'
  <2>1. /\ status' = [status EXCEPT ![c] = "reaped"] /\ status[c] = "exited" /\ t # c
        /\ swap_lock' = swap_lock /\ th[t].pc = "user"
        /\ MovesTo(t, "reap", "none", 0, 0, 0, c)
    BY <1>7, OtherMoves, Zenon DEF proc_wait, pc, swapVars
  <2>2. status \in [Procs -> {"unborn", "embryo", "run", "exited", "reaped"}]
        /\ status' \in [Procs -> {"unborn", "embryo", "run", "exited", "reaped"}]
    BY <1>1, <2>1, Zenon DEF ControlInv
  <2>3. ThreadInv(t)'
    BY <1>0, <1>1, <2>1, <2>2, Zenon DEF MovesTo, ThreadInv, pc, Asking, Copying, Destroying
  <2>4. \A u \in Threads : th[u].as # c
    BY <1>0, <1>1, <2>1 DEF ControlInv, ThreadInv
  <2>5. ASSUME NEW u \in Threads \ {t} PROVE ThreadInv(u)'
    <3>1. ThreadInv(u) /\ th'[u] = th[u] /\ th[u] \in ThreadStates
      BY <1>1, <2>1, Zenon DEF ControlInv, MovesTo
    <3>2. th[u].as # NULL => th[u].as \in Procs /\ th[u].as # c
      BY <2>4, <3>1, Zenon DEF ThreadStates
    <3>3. \A r \in Procs : r # c => status'[r] = status[r]
      BY <2>1, <2>2, Zenon
    <3> QED BY <1>0, <2>1, <2>2, <3>1, <3>2, <3>3, ZenonT(60) DEF ThreadInv, pc, Asking, Copying, Destroying
  <2>6. \A u \in Threads \ {t} : th'[u].as = th[u].as
    BY <2>1, Zenon DEF MovesTo
  <2>7. th'[t].as = c
    BY <2>1, Zenon DEF MovesTo
  <2>8. \A u, v \in Threads : th'[u].as # NULL /\ th'[u].as = th'[v].as => u = v
    BY <1>1, <2>4, <2>6, <2>7, Zenon DEF ControlInv
  <2> QED BY <1>1, <2>1, <2>2, <2>3, <2>5, <2>8, Zenon DEF ControlInv, MovesTo
<1> QED BY <1>0, <1>2, <1>3, <1>4, <1>5, <1>6, <1>7, Zenon

(* Steps of pt_copy and pt_destroy keep the control invariant. *)
LEMMA TableControl ==
  ASSUME Inv, NEW t \in Threads,
         \/ t \in Procs /\ ((\E c \in Procs : Fork(t, c)) \/ Copy(t))
         \/ Destroy(t)
  PROVE  ControlInv'
<1>0. NULL \notin Procs /\ KernelThread \notin Procs /\ (t = KernelThread \/ t \in Procs)
      /\ NoThread \notin Threads /\ Procs \subseteq Threads /\ LastPage \in Nat
      /\ (\A q \in 0..LastPage+1 : q >= 1 /\ q <= LastPage => q \in Pages)
      /\ (\A q \in Pages : q \in Nat /\ q >= 1)
  BY Sorts, Zenon
<1>1. ControlInv /\ ThreadInv(t) /\ th[t] \in ThreadStates
  BY Zenon DEF Inv, ControlInv
<1>a. /\ th[t].pg \in Nat
      /\ th[t].pg >= 1 /\ th[t].pg <= LastPage => th[t].pg \in Pages
  <2>1. th[t].pg \in 0..LastPage+1
    BY <1>1, Zenon DEF ThreadStates
  <2> QED BY <1>0, <2>1
<1>2. ASSUME t \in Procs, NEW c \in Procs, Fork(t, c) PROVE ControlInv'
  <2>1. /\ status' = [status EXCEPT ![c] = "embryo"] /\ status[c] = "unborn" /\ status[t] = "run"
        /\ swap_lock = NoThread /\ swap_lock' = t /\ th[t].pc = "user"
    BY <1>2, Zenon DEF Fork, pc
  <2>2. MovesTo(t, "copy", "none", LastPage + 1, 0, 0, c) \/ MovesTo(t, "alloc", "row", 0, 0, 0, c)
    BY <1>2, TableMoves, Zenon
  <2>3. status \in [Procs -> {"unborn", "embryo", "run", "exited", "reaped"}]
        /\ status' \in [Procs -> {"unborn", "embryo", "run", "exited", "reaped"}]
    BY <1>1, <2>1, Zenon DEF ControlInv
  <2>4. ThreadInv(t)'
    BY <1>0, <1>1, <1>2, <2>1, <2>2, <2>3 DEF MovesTo, ThreadInv, pc, Asking, Copying, Destroying
  <2>5. \A u \in Threads : th[u].as # c
    BY <1>0, <1>1, <2>1, Zenon DEF ControlInv, ThreadInv
  <2>6. ASSUME NEW u \in Threads \ {t} PROVE ThreadInv(u)'
    <3>1. ThreadInv(u) /\ th'[u] = th[u] /\ th[u] \in ThreadStates
      BY <1>1, <2>2, Zenon DEF ControlInv, MovesTo
    <3>2. th[u].as # NULL => th[u].as \in Procs /\ th[u].as # c
      BY <2>5, <3>1, Zenon DEF ThreadStates
    <3>3. \A r \in Procs : r # c => status'[r] = status[r]
      BY <2>1, <2>3, Zenon
    <3> QED BY <1>0, <2>1, <2>3, <3>1, <3>2, <3>3, ZenonT(60) DEF ThreadInv, pc, Asking, Copying, Destroying
  <2>7. /\ \A u \in Threads \ {t} : th'[u].as = th[u].as
        /\ th'[t].as = c /\ th' \in [Threads -> ThreadStates]
    BY <2>2, Zenon DEF MovesTo
  <2>8. \A u, v \in Threads : th'[u].as # NULL /\ th'[u].as = th'[v].as => u = v
    BY <1>1, <2>5, <2>7, Zenon DEF ControlInv
  <2> QED BY <2>1, <2>3, <2>4, <2>6, <2>7, <2>8, Zenon DEF ControlInv
<1>3. CASE t \in Procs /\ CopyEntry(t)
  <2>1. UNCHANGED <<status, swap_lock>> /\ th[t].pc = "copy" /\ th[t].pg <= LastPage
    BY <1>3, Zenon DEF CopyEntry, pc, MorePages
  <2>2. \/ MovesTo(t, "alloc", "copy", th[t].pg, th[t].frm, th[t].idx, th[t].as)
        \/ MovesTo(t, "copy", th[t].for, th[t].pg + 1, th[t].frm, th[t].idx, th[t].as)
    BY <1>3, TableMoves, Zenon
  <2>3. ThreadInv(t)'
    BY <1>0, <1>1, <1>a, <1>3, <2>1, <2>2 DEF MovesTo, ThreadInv, pc, Asking, Copying, Destroying
  <2> QED BY <1>1, <2>1, <2>2, <2>3, ControlStep, Zenon DEF MovesTo
<1>4. CASE t \in Procs /\ CopyFrame(t)
  <2>1. UNCHANGED <<status, swap_lock>> /\ th[t].pc = "got" /\ th[t].for = "copy"
    BY <1>4, Zenon DEF CopyFrame, pc, swapVars
  <2>2. MovesTo(t, "copy", "none", th[t].pg + 1, 0, 0, th[t].as)
    BY <1>4, TableMoves, Zenon
  <2>3. ThreadInv(t)'
    BY <1>0, <1>1, <1>a, <1>4, <2>1, <2>2 DEF MovesTo, ThreadInv, pc, Asking, Copying, Destroying
  <2> QED BY <1>1, <2>1, <2>2, <2>3, ControlStep, Zenon DEF MovesTo
<1>5. CASE t \in Procs /\ CopyDone(t)
  <2>c. PICK c \in Procs : c = th[t].as
    BY <1>0, <1>1, <1>5, Zenon DEF CopyDone, ThreadInv, ThreadStates
  <2>1. /\ status' = [status EXCEPT ![c] = "run"] /\ swap_lock' = NoThread /\ th[t].pc = "copy"
        /\ th' = [th EXCEPT ![t] = At("user"), ![c] = At("user")]
    BY <1>5, <2>c, Zenon DEF CopyDone, pc
  <2>2. c \in Procs /\ c # t /\ status[c] = "embryo" /\ swap_lock = t /\ Copying(t) /\ status[t] = "run"
    BY <1>0, <1>1, <1>5, <2>c, <2>1, Zenon DEF ThreadInv, ThreadStates, Copying, Asking, Destroying, pc
  <2>3. At("user") \in ThreadStates
    BY AtType, Zenon DEF Locations
  <2>4. /\ th' \in [Threads -> ThreadStates] /\ th'[t] = At("user") /\ th'[c] = At("user")
        /\ \A u \in Threads \ {t, c} : th'[u] = th[u]
    BY <1>0, <1>1, <2>1, <2>2, <2>3, Zenon DEF ControlInv
  <2>5. /\ \A r \in Procs : r # c => status'[r] = status[r]
        /\ status'[c] = "run" /\ status' \in [Procs -> {"unborn", "embryo", "run", "exited", "reaped"}]
    BY <1>1, <2>1, <2>2, Zenon DEF ControlInv
  <2>6. At("user").pc = "user" /\ At("user").for = "none" /\ At("user").pg = 0
        /\ At("user").frm = 0 /\ At("user").idx = 0 /\ At("user").as = NULL
    BY Zenon DEF At
  <2>7. ThreadInv(t)' /\ ThreadInv(c)'
    <3>1. ThreadInv(t)'
      BY <1>0, <2>1, <2>2, <2>4, <2>5, <2>6, ZenonT(60) DEF ThreadInv, pc, Asking, Copying, Destroying
    <3>2. ThreadInv(c)'
      BY <1>0, <2>1, <2>2, <2>4, <2>5, <2>6, ZenonT(60) DEF ThreadInv, pc, Asking, Copying, Destroying
    <3> QED BY <3>1, <3>2, Zenon
  <2>8. ASSUME NEW u \in Threads \ {t, c} PROVE ThreadInv(u)' /\ th'[u].as = th[u].as
    <3>1. ThreadInv(u) /\ th'[u] = th[u] /\ th[u] \in ThreadStates
      BY <1>1, <2>4, Zenon DEF ControlInv
    <3>2. th[u].as # NULL => th[u].as \in Procs /\ th[u].as # c
      BY <1>0, <1>1, <2>c, <2>2, <3>1, Zenon DEF ThreadStates, ControlInv
    <3> QED BY <1>0, <2>1, <2>2, <2>5, <3>1, <3>2, ZenonT(60) DEF ThreadInv, pc, Asking, Copying, Destroying
  <2>9. \A u, v \in Threads : th'[u].as # NULL /\ th'[u].as = th'[v].as => u = v
    BY <1>1, <2>4, <2>6, <2>8, ZenonT(60) DEF ControlInv
  <2> QED BY <2>1, <2>4, <2>5, <2>7, <2>8, <2>9, Zenon DEF ControlInv
<1>6. CASE StartDestroy(t)
  <2>1. UNCHANGED status /\ swap_lock = NoThread /\ swap_lock' = t /\ th[t].pc = "reap"
    BY <1>6, Zenon DEF StartDestroy, pc
  <2>2. PICK q \in {1, LastPage + 1} : MovesTo(t, "destroy", th[t].for, q, th[t].frm, th[t].idx, th[t].as)
    BY <1>6, TableMoves, Zenon
  <2>3. ThreadInv(t)'
    BY <1>0, <1>1, <2>1, <2>2 DEF MovesTo, ThreadInv, pc, Asking, Copying, Destroying
  <2>4. ASSUME NEW u \in Threads \ {t} PROVE ThreadInv(u)'
    <3>1. ThreadInv(u) /\ th'[u] = th[u]
      BY <1>1, <2>2, Zenon DEF ControlInv, MovesTo
    <3> QED BY <1>0, <2>1, <3>1, Zenon DEF ThreadInv, pc, Asking, Copying, Destroying
  <2>5. \A u \in Threads : th'[u].as = th[u].as
    BY <2>2, Zenon DEF MovesTo
  <2> QED BY <1>1, <2>1, <2>2, <2>3, <2>4, <2>5, ZenonT(60) DEF ControlInv, MovesTo
<1>7. CASE CheckEntry(t) \/ FreeEntry(t) \/ RecheckEntry(t)
  <2>1. UNCHANGED <<status, swap_lock>>
        /\ ((th[t].pc = "destroy" /\ th[t].pg <= LastPage) \/ th[t].pc \in {"free", "recheck"})
    BY <1>7, Zenon DEF CheckEntry, FreeEntry, RecheckEntry, MorePages, pc, swapVars
  <2>2. \/ MovesTo(t, "free", th[t].for, th[t].pg, th'[t].frm, th[t].idx, th[t].as) /\ th[t].pc = "destroy"
        \/ MovesTo(t, "destroy", th[t].for, th[t].pg + 1, 0, th[t].idx, th[t].as)
        \/ MovesTo(t, "recheck", th[t].for, th[t].pg, th[t].frm, th[t].idx, th[t].as) /\ th[t].pc = "free"
    BY <1>7, TableMoves, Zenon DEF CheckEntry, FreeEntry, pc, MovesTo
  <2>3. ThreadInv(t)'
    BY <1>0, <1>1, <1>a, <2>1, <2>2 DEF MovesTo, ThreadInv, pc, Asking, Copying, Destroying
  <2> QED BY <1>1, <2>1, <2>2, <2>3, ControlStep, Zenon DEF MovesTo
<1>8. CASE DestroyDone(t)
  <2> DEFINE c == th[t].as
  <2>1. /\ status' = [status EXCEPT ![c] = "unborn"] /\ swap_lock' = NoThread /\ th[t].pc = "destroy"
        /\ MovesTo(t, "user", "none", 0, 0, 0, NULL)
    BY <1>8, TableMoves, Zenon DEF DestroyDone, pc
  <2>2. c \in Procs /\ c # t /\ status[c] \in {"embryo", "reaped"} /\ swap_lock = t
        /\ (t \in Procs => status[t] = "run")
    BY <1>0, <1>1, <2>1, Zenon DEF ThreadInv, ThreadStates, Copying, Asking, Destroying, pc
  <2>3. /\ \A r \in Procs : r # c => status'[r] = status[r]
        /\ status'[c] = "unborn" /\ status' \in [Procs -> {"unborn", "embryo", "run", "exited", "reaped"}]
    BY <1>1, <2>1, <2>2, Zenon DEF ControlInv
  <2> HIDE DEF c
  <2>4. ThreadInv(t)'
    BY <1>0, <2>1, <2>2, <2>3, Zenon DEF MovesTo, ThreadInv, pc, Asking, Copying, Destroying
  <2>5. ASSUME NEW u \in Threads \ {t} PROVE ThreadInv(u)' /\ th'[u].as = th[u].as
    <3>1. ThreadInv(u) /\ th'[u] = th[u] /\ th[u] \in ThreadStates
      BY <1>1, <2>1, Zenon DEF ControlInv, MovesTo
    <3>2. th[u].as # NULL => th[u].as \in Procs /\ th[u].as # c
      BY <1>0, <1>1, <2>2, <3>1, Zenon DEF ThreadStates, ControlInv, c
    <3>3. pc(u) = "none" <=> u \in Procs /\ status'[u] # "run"
      BY <2>2, <2>3, <3>1, Zenon DEF ThreadInv
    <3> QED BY <1>0, <2>1, <2>2, <2>3, <3>1, <3>2, <3>3, ZenonT(60) DEF ThreadInv, pc, Asking, Copying, Destroying
  <2>6. th'[t].as = NULL
    BY <2>1, Zenon DEF MovesTo
  <2>7. \A u, v \in Threads : th'[u].as # NULL /\ th'[u].as = th'[v].as => u = v
    BY <1>1, <2>5, <2>6, Zenon DEF ControlInv
  <2> QED BY <2>1, <2>3, <2>4, <2>5, <2>7, Zenon DEF ControlInv, MovesTo
<1> QED BY <1>2, <1>3, <1>4, <1>5, <1>6, <1>7, <1>8, Zenon DEF Copy, Destroy

-----------------------------------------------------------------------------
(* The page tables.                                                         *)

(* What a step leaves of an entry. *)
SameEntry(e) ==
  (e \in valid' <=> e \in valid) /\ (e \in swp' <=> e \in swp) /\ frame_no'[e] = frame_no[e]

(* A thread at rest relies on no entry. *)
LEMMA NoPage ==
  ASSUME NEW t \in Threads, th'[t].for # "copy",
         th'[t].pc \in {"none", "user", "fault", "reap", "destroy"}
  PROVE  PageInv(t)'
BY Zenon DEF PageInv, pc, Asking, Copying, Destroying

(* What a thread relies on is kept by a step that leaves its entries alone. *)
LEMMA PageKept ==
  ASSUME Inv, NEW u \in Threads, th'[u] = th[u],
         u \in Procs => row'[u] = row[u] /\ \A q \in Pages : SameEntry(<<u, q>>),
         th[u].as # NULL => row'[th[u].as] = row[th[u].as] /\ \A q \in Pages : SameEntry(<<th[u].as, q>>)
  PROVE  PageInv(u)'
<1>1. PageInv(u) /\ ThreadInv(u) /\ (u = KernelThread \/ u \in Procs)
  BY Sorts, Zenon DEF Inv, EntryInv, ControlInv
<1>2. UNCHANGED <<th[u].pc, th[u].for, th[u].pg, th[u].as, th[u].frm>>
  BY Zenon
<1>3. CASE Asking(u) /\ th[u].for = "row"
  BY <1>1, <1>2, <1>3, Zenon DEF PageInv, ThreadInv, pc, Asking, Copying, SameEntry
<1>4. CASE Asking(u) /\ th[u].for \in {"load", "swapin"}
  BY <1>1, <1>2, <1>4, Zenon DEF PageInv, ThreadInv, pc, Asking, Copying, SameEntry
<1>5. CASE Asking(u) /\ th[u].for = "copy"
  BY <1>1, <1>2, <1>5, Zenon DEF PageInv, ThreadInv, pc, Asking, Copying, SameEntry
<1>6. CASE Asking(u) /\ th[u].for = "kern"
  BY <1>1, <1>2, <1>6, Zenon DEF PageInv, ThreadInv, pc, Asking, Copying, SameEntry
<1>7. CASE ~Asking(u)
  BY <1>1, <1>2, <1>7 DEF PageInv, ThreadInv, pc, Asking, Copying, SameEntry
<1> QED BY <1>1, <1>3, <1>4, <1>5, <1>6, <1>7, Zenon DEF ThreadInv

(* The entries of the process that t runs, or whose table it builds or       *)
(* destroys, concern no other thread.                                        *)
LEMMA OthersKept ==
  ASSUME Inv, NEW t \in Threads, NEW x \in Procs, x = t \/ x = th[t].as, pc(t) # "none",
         \A u \in Threads \ {t} : th'[u] = th[u],
         \A p \in Procs, q \in Pages : p # x => SameEntry(<<p, q>>),
         \A r \in Procs : r # x => row'[r] = row[r]
  PROVE  \A u \in Threads \ {t} : PageInv(u)'
<1> SUFFICES ASSUME NEW u \in Threads \ {t} PROVE PageInv(u)'
  BY Zenon
<1>1. ThreadInv(t) /\ ThreadInv(u) /\ NULL \notin Procs /\ th[u] \in ThreadStates /\ th'[u] = th[u]
  BY Sorts, Zenon DEF Inv, ControlInv
<1>2. th[u].as # NULL => th[u].as \in Procs /\ th[u].as # x
  BY <1>1 DEF Inv, ControlInv, ThreadInv, ThreadStates
<1>3. CASE pc(u) = "none"
  BY <1>1, <1>3, NoPage, Zenon DEF ThreadInv, pc
<1>4. CASE pc(u) # "none"
  <2>1. u # x
    BY <1>1, <1>4, Zenon DEF ThreadInv
  <2> QED BY <1>1, <1>2, <2>1, PageKept, Zenon
<1> QED BY <1>3, <1>4, Zenon

(* A step that changes at most the swapping bits and a thread's locals. *)
LEMMA EntryStep ==
  ASSUME Inv, UNCHANGED <<row, valid, swp, frame_no>>, swapping' \subseteq valid,
         \A p \in Procs : status'[p] = "unborn" => status[p] = "unborn",
         \A u \in Threads : th'[u] = th[u] \/ PageInv(u)'
  PROVE  EntryInv'
<1>1. ASSUME NEW u \in Threads PROVE PageInv(u)'
  <2>1. CASE th'[u] = th[u]
    BY <2>1, PageKept, Zenon DEF SameEntry
  <2> QED BY <2>1, Zenon
<1> QED BY <1>1, Zenon DEF Inv, EntryInv

(* The initial state satisfies the invariant of the page tables. *)
LEMMA InitEntry == Init => EntryInv
<1> SUFFICES ASSUME Init PROVE EntryInv
  BY Zenon
<1>1. ASSUME NEW t \in Threads PROVE PageInv(t)
  <2>1. th[t].pc \in {"none", "user"} /\ th[t].for = "none"
    BY Zenon DEF Init, At
  <2> QED BY <2>1, Zenon DEF PageInv, pc, Asking, Copying, Destroying
<1>2. 0 \in Frames
  BY Sorts, Zenon
<1> QED BY <1>1, <1>2, Zenon DEF Init, EntryInv

(* A victim is the frame of a page in memory. *)
LEMMA VictimResident ==
  ASSUME Inv, NEW f \in Frames, Evictable(f)
  PROVE  pt_entry[f] \in Entries /\ Resident(pt_entry[f]) /\ frame_no[pt_entry[f]] = f
         /\ ~Gone(pt_entry[f])
<1>1. f \notin fixed /\ pt_entry[f] # NULL /\ pt_entry[f] \in Entries
  BY Zenon DEF Evictable, Inv, BlockInv, CoremapTypeOK
<1>2. \A t \in Threads : Holding(t) => th[t].frm # f
  BY <1>1, Zenon DEF Inv, PinInv, PinnedInv, Pinning
<1> QED BY <1>1, <1>2, Zenon DEF Inv, FrameInv, OwnerInv

(* ... and still is when get_n_frames takes it, unless it was freed. *)
LEMMA VictimStays ==
  ASSUME Inv, NEW t \in Threads, Evicting(t), pt_entry[th[t].frm] # NULL
  PROVE  /\ th[t].frm \in Frames /\ th[t].frm >= FirstPage /\ pt_entry[th[t].frm] \in Entries
         /\ Resident(pt_entry[th[t].frm]) /\ frame_no[pt_entry[th[t].frm]] = th[t].frm
         /\ ~Gone(pt_entry[th[t].frm]) /\ pt_entry[th[t].frm] \in swapping
<1> DEFINE f == th[t].frm
<1>1. f \in Frames /\ f >= FirstPage /\ pt_entry[f] \in Entries /\ pt_entry[f] \in swapping
  BY Zenon DEF Inv, BlockInv, CoremapTypeOK, ControlInv, ThreadStates, PinInv, PinnedInv, Pinning
<1>2. \A u \in Threads : ~(Holding(u) /\ th[u].frm = f)
  BY Zenon DEF Inv, PinInv, PinnedInv, Pinning, Holding, Evicting
<1>3. Resident(pt_entry[f]) /\ frame_no[pt_entry[f]] = f /\ ~Gone(pt_entry[f])
  BY <1>1, <1>2, Zenon DEF Inv, FrameInv, OwnerInv
<1> QED BY <1>1, <1>3, Zenon

(* get_n_frames keeps the invariant of the page tables. *)
LEMMA AllocateEntry ==
  ASSUME Inv, NEW t \in Threads,
         TakeFree(t) \/ StartSwapOut(t) \/ SwapSet(t) \/ Evict(t) \/ DropSlot(t)
  PROVE  EntryInv'
<1>1. ThreadInv(t) /\ PageInv(t) /\ EntryInv /\ status' = status
  BY Zenon DEF Inv, ControlInv, EntryInv, TakeFree, StartSwapOut, SwapSet, Evict, DropSlot
<1>2. th[t].pc \in {"alloc", "swap", "evict", "drop"}
  BY Zenon DEF TakeFree, StartSwapOut, SwapSet, Evict, DropSlot, pc
<1>3. PICK l \in {"swap", "evict", "drop", "got"} :
        MovesTo(t, l, th[t].for, th[t].pg, th'[t].frm, th'[t].idx, th[t].as)
  BY AllocateMoves, Zenon DEF MovesTo
<1>4. ASSUME UNCHANGED <<row, valid, swp, frame_no>> PROVE PageInv(t)'
  BY <1>1, <1>2, <1>3, <1>4, Zenon DEF MovesTo, PageInv, ThreadInv, pc, Asking, Copying
<1>5. CASE TakeFree(t) \/ SwapSet(t) \/ DropSlot(t) \/ (Evict(t) /\ pt_entry[th[t].frm] = NULL)
  <2>1. UNCHANGED <<row, valid, swp, frame_no, swapping>>
    BY <1>5, Zenon DEF TakeFree, SwapSet, DropSlot, Evict, ReassignVictim, pteVars
  <2> QED BY <1>1, <1>3, <1>4, <2>1, EntryStep, Zenon DEF MovesTo, EntryInv
<1>6. CASE StartSwapOut(t)
  <2>1. UNCHANGED <<row, valid, swp, frame_no>> /\ swapping' = swapping \cup {pt_entry[get_victim]}
    BY <1>6, Zenon DEF StartSwapOut, MarkVictim
  <2>2. Resident(pt_entry[get_victim])
    BY <1>6, Picks, VictimResident, Zenon DEF StartSwapOut, Inv
  <2> QED BY <1>1, <1>3, <1>4, <2>1, <2>2, EntryStep, Zenon DEF MovesTo, EntryInv, Resident
<1>7. CASE Evict(t) /\ pt_entry[th[t].frm] # NULL
  <2>0. PICK old \in Entries : old = pt_entry[th[t].frm]
    BY <1>7, VictimStays, Zenon DEF Evict, Evicting
  <2>1. /\ th[t].frm \in Frames /\ th[t].frm >= FirstPage /\ FirstPage > 0
        /\ old \in valid /\ old \notin swp /\ frame_no[old] = th[t].frm /\ ~Gone(old)
    BY <1>7, <2>0, VictimStays, CoremapAssumption, Zenon DEF Evict, Evicting, Resident
  <2>2. /\ frame_no' = [frame_no EXCEPT ![old] = th[t].idx] /\ th[t].idx \in Slots
        /\ swp' = swp \cup {old} /\ swapping' = swapping \ {old} /\ UNCHANGED <<row, valid>>
    BY <1>7, <2>0, Zenon DEF Evict, ReassignVictim, Inv, ControlInv, ThreadStates
  <2>3. /\ frame_no' \in [Entries -> Frames \cup Slots] /\ frame_no'[old] \in Slots
        /\ \A e \in Entries : e # old => frame_no'[e] = frame_no[e]
    BY <1>1, <2>2, Zenon DEF EntryInv
  <2>4. ASSUME NEW u \in Threads PROVE PageInv(u)'
    <3>1. /\ PageInv(u) /\ ThreadInv(u) /\ ThreadInv(u)' /\ th[u] \in ThreadStates
          /\ (u = KernelThread \/ u \in Procs) /\ LastPage \in Nat /\ NULL \notin Procs
      BY Sorts, AllocateControl, Zenon DEF Inv, EntryInv, ControlInv
    <3>2. /\ th'[u].for = th[u].for /\ th'[u].pg = th[u].pg /\ th'[u].as = th[u].as
          /\ (Asking(u)' <=> Asking(u)) /\ (Copying(u)' <=> Copying(u))
          /\ (u # t => th'[u] = th[u])
          /\ (pc(u)' # pc(u) => u = t /\ pc(u)' \in {"drop", "got"} /\ pc(u) = "evict")
      <4>1. CASE u = t
        BY <1>2, <1>3, <1>7, <4>1 DEF MovesTo, Evict, pc, Asking, Copying
      <4>2. CASE u # t
        <5>1. th'[u] = th[u]
          BY <1>3, <4>2, Zenon DEF MovesTo
        <5> QED BY <4>2, <5>1, Zenon DEF pc, Asking, Copying
      <4> QED BY <4>1, <4>2, Zenon
    <3>3. th[u].for = "copy" => /\ <<th[u].as, th[u].pg>> \in Entries /\ <<th[u].as, th[u].pg>> # old
                                /\ th[u].as \in Procs /\ th[u].pg \in Pages
      <4>1. th[u].for = "copy" => th[u].as \in Procs /\ th[u].pg \in Pages
        BY <3>1, Zenon DEF ThreadInv, ThreadStates
      <4>2. th[u].for = "copy" => frame_no[<<th[u].as, th[u].pg>>] = 0
        BY <3>1, Zenon DEF PageInv
      <4>3. th[t].frm # 0
        BY <2>1, CoremapAssumption DEF Frames
      <4>4. th[u].for = "copy" => <<th[u].as, th[u].pg>> # old
        BY <2>1, <4>2, <4>3, Zenon
      <4>5. th[u].for = "copy" => <<th[u].as, th[u].pg>> \in Entries
        BY <4>1, VmAssumption, Zenon
      <4> QED BY <4>1, <4>4, <4>5, Zenon
    <3>4. pc(u) = "tlb" => u \in Procs /\ th[u].pg \in Pages /\ <<u, th[u].pg>> # old
      <4>1. pc(u) = "tlb" /\ <<u, th[u].pg>> = old => th[u].frm = th[t].frm
        BY <2>1, <3>1, Zenon DEF PageInv
      <4>2. Pinning(t) /\ (pc(u) = "tlb" => Pinning(u) /\ u # t)
        BY <1>7, Zenon DEF Pinning, Evict, Evicting
      <4> QED BY <3>1, <4>1, <4>2, Zenon DEF Inv, PinInv, PinnedInv, ThreadInv
    <3>5. pc(u) = "recheck" => /\ <<th[u].as, th[u].pg>> # old
                               /\ th[u].as \in Procs /\ th[u].pg \in Pages
      <4>1. ASSUME pc(u) = "recheck" PROVE Gone(<<th[u].as, th[u].pg>>)
        <5> DEFINE e == <<th[u].as, th[u].pg>>
        <5>1. e[1] = th[u].as /\ e[2] = th[u].pg
          BY Zenon
        <5> HIDE DEF e
        <5>2. Gone(e)
          BY <4>1, <5>1, Zenon DEF Gone, Destroying
        <5> QED BY <5>2, Zenon DEF e
      <4> QED BY <2>1, <3>1, <4>1, Zenon DEF ThreadInv, ThreadStates
    <3>6. pc(u) = "free" => th[u].as \in Procs /\ th[u].pg \in Pages
      BY <3>1, Zenon DEF ThreadInv, ThreadStates
    <3>7. CASE Asking(u)
      BY <2>2, <2>3, <3>1, <3>2, <3>3, <3>7, Sorts, ZenonT(60) DEF PageInv, ThreadInv, Asking, pc
    <3>8. CASE ~Asking(u)
      <4>1. th'[u] = th[u] /\ th[u].for # "copy"
        BY <1>2, <3>1, <3>2, <3>8, Zenon DEF ThreadInv, Asking, pc
      <4> QED BY <2>2, <2>3, <3>1, <3>2, <3>4, <3>5, <3>6, <3>8, <4>1, Sorts, Zenon DEF PageInv, pc, Asking, Copying
    <3> QED BY <3>7, <3>8, Zenon
  <2>5. \A e \in Entries : frame_no'[e] \in IF e \in swp' THEN Slots ELSE Frames
    BY <1>1, <2>2, <2>3, Zenon DEF EntryInv
  <2> QED BY <1>1, <2>1, <2>2, <2>3, <2>4, <2>5, Zenon DEF EntryInv
<1> QED BY <1>5, <1>6, <1>7, Zenon

(* Fault handling keeps the invariant of the page tables. *)
LEMMA HandleEntry ==
  ASSUME Inv, ~IOErrors, NEW p \in Procs,
         (\E q \in Pages : vm_fault(p, q)) \/ Handle(p)
  PROVE  EntryInv'
<1>0. p \in Threads /\ p # KernelThread /\ Entries = Procs \X Pages
  BY Sorts, Zenon
<1>1. ThreadInv(p) /\ PageInv(p) /\ EntryInv /\ status' = status /\ th[p] \in ThreadStates
  BY <1>0, Zenon DEF Inv, ControlInv, EntryInv, Handle, vm_fault, NeedFrame, tlb_reload, FillTlb, load_frame,
              SwapIn, Install
<1>2. ASSUME NEW q \in Pages, vm_fault(p, q) PROVE EntryInv'
  <2>1. MovesTo(p, "fault", "none", q, 0, 0, NULL) /\ UNCHANGED <<row, valid, swp, frame_no, swapping>>
    BY <1>2, HandleMoves, Zenon DEF vm_fault, pteVars
  <2>2. PageInv(p)'
    BY <1>0, <2>1, NoPage, Zenon DEF MovesTo
  <2> QED BY <1>1, <2>1, <2>2, EntryStep, Zenon DEF MovesTo, EntryInv
<1>3. CASE NeedFrame(p)
  <2>1. UNCHANGED <<row, valid, swp, frame_no, swapping>> /\ pc(p) = "fault"
    BY <1>3, Zenon DEF NeedFrame, pteVars
  <2>2. PICK use \in {"row", "load", "swapin"} :
          MovesTo(p, "alloc", use, th[p].pg, th[p].frm, th[p].idx, th[p].as)
    BY <1>3, HandleMoves, Zenon
  <2>3. /\ use = "row" => row[p] = NULL
        /\ use = "load" => row[p] # NULL /\ <<p, th[p].pg>> \notin valid
        /\ use = "swapin" => <<p, th[p].pg>> \in swp
    <3>1. th'[p].for = use /\ th \in [Threads -> ThreadStates]
      BY <2>2, Zenon DEF MovesTo, Inv, ControlInv
    <3>2. \A v : Request(p, v) => th'[p].for = v
      BY <1>0, <1>1, <3>1, Zenon DEF Request, ThreadStates
    <3> QED BY <1>3, <3>1, <3>2, Zenon DEF NeedFrame
  <2>4. PageInv(p)'
    BY <1>1, <2>1, <2>2, <2>3, Zenon DEF MovesTo, PageInv, ThreadInv, pc, Asking, Copying
  <2> QED BY <1>1, <2>1, <2>2, <2>4, EntryStep, Zenon DEF MovesTo, EntryInv
<1>4. CASE tlb_reload(p)
  <2>1. UNCHANGED <<row, valid, swp, frame_no, swapping>> /\ pc(p) = "fault"
        /\ <<p, th[p].pg>> \in valid \ swp
    BY <1>4, Zenon DEF tlb_reload, Usable, Resident, pteVars
  <2>2. MovesTo(p, "tlb", th[p].for, th[p].pg, frame_no[<<p, th[p].pg>>], th[p].idx, th[p].as)
    BY <1>4, HandleMoves, Zenon
  <2>3. PageInv(p)'
    BY <1>1, <2>1, <2>2, Zenon DEF MovesTo, PageInv, ThreadInv, pc, Asking, Copying
  <2> QED BY <1>1, <2>1, <2>2, <2>3, EntryStep, Zenon DEF MovesTo, EntryInv
<1>5. CASE FillTlb(p)
  <2>1. MovesTo(p, "user", "none", 0, 0, 0, NULL) /\ UNCHANGED <<row, valid, swp, frame_no, swapping>>
    BY <1>5, HandleMoves, Zenon DEF FillTlb, pteVars
  <2>2. PageInv(p)'
    BY <1>0, <2>1, NoPage, Zenon DEF MovesTo
  <2> QED BY <1>1, <2>1, <2>2, EntryStep, Zenon DEF MovesTo, EntryInv
<1>6. CASE SwapIn(p)
  <2>1. UNCHANGED <<row, valid, swp, frame_no, swapping>> /\ pc(p) = "got" /\ th[p].for = "swapin"
    BY <1>6, Zenon DEF SwapIn, pteVars
  <2>2. MovesTo(p, "install", "swapin", th[p].pg, th[p].frm, th[p].idx, th[p].as)
    BY <1>6, HandleMoves, Zenon
  <2>3. PageInv(p)'
    BY <1>1, <2>1, <2>2, Zenon DEF MovesTo, PageInv, ThreadInv, pc, Asking, Copying
  <2> QED BY <1>1, <2>1, <2>2, <2>3, EntryStep, Zenon DEF MovesTo, EntryInv
<1>7. CASE load_frame(p) \/ Install(p)
  <2>0. /\ pc(p) \in {"got", "install"} /\ th[p].as = NULL /\ th[p].pg \in Pages
        /\ th[p].for \in {"load", "swapin"}
    <3>1. CASE load_frame(p)
      BY <1>1, <3>1, Zenon DEF load_frame, ThreadInv, Asking
    <3>2. CASE Install(p)
      BY <1>1, <3>2, Zenon DEF Install, ThreadInv
    <3> QED BY <1>7, <3>1, <3>2, Zenon
  <2>1. PICK e \in Entries : e = <<p, th[p].pg>> /\ e = Entry(p) /\ e[1] = p
    <3>1. Entry(p) = <<p, th[p].pg>>
      BY <2>0, Zenon DEF Entry
    <3>2. <<p, th[p].pg>> \in Entries /\ <<p, th[p].pg>>[1] = p
      BY <1>0, <2>0, Zenon
    <3> QED BY <3>1, <3>2, Zenon
  <2>2. MovesTo(p, "tlb", th[p].for, th[p].pg, th[p].frm, th[p].idx, th[p].as)
    BY <1>7, HandleMoves, Zenon DEF load_frame
  <2>3. /\ frame_no' = [frame_no EXCEPT ![e] = th[p].frm] /\ UNCHANGED <<row, swapping>>
        /\ row[p] # NULL /\ e \in valid' /\ e \notin swp'
        /\ \A x \in Entries : x # e => (x \in valid' <=> x \in valid) /\ (x \in swp' <=> x \in swp)
        /\ valid \subseteq valid' /\ valid' \subseteq Entries /\ swp' \subseteq swp
    <3>1. CASE load_frame(p)
      <4>1. row[p] # NULL /\ e \notin valid
        BY <1>1, <2>0, <2>1, <3>1, Zenon DEF load_frame, PageInv, Asking
      <4> QED BY <1>1, <2>1, <3>1, <4>1, Zenon DEF load_frame, EntryInv
    <3>2. CASE Install(p)
      <4>1. e \in swp /\ e \in valid
        BY <1>1, <2>0, <2>1, <3>2 DEF Install, PageInv, EntryInv
      <4>2. row[p] # NULL
        BY <1>1, <2>1, <4>1, Zenon DEF EntryInv
      <4> QED BY <1>1, <2>1, <3>2, <4>1, <4>2, Zenon DEF Install, EntryInv
    <3> QED BY <1>7, <3>1, <3>2, Zenon
  <2>4. /\ frame_no' \in [Entries -> Frames \cup Slots] /\ frame_no'[e] = th[p].frm
        /\ th[p].frm \in Frames
        /\ \A x \in Entries : x # e => frame_no'[x] = frame_no[x]
    BY <1>1, <2>3, Zenon DEF EntryInv, ThreadStates
  <2>5. \A u \in Threads \ {p} : PageInv(u)'
    <3>1. \A r \in Procs, q \in Pages : r # p => SameEntry(<<r, q>>)
      <4> SUFFICES ASSUME NEW r \in Procs, NEW q \in Pages, r # p PROVE SameEntry(<<r, q>>)
        BY Zenon
      <4>1. <<r, q>> \in Entries /\ <<r, q>> # e
        BY <1>0, <2>1
      <4> QED BY <2>3, <2>4, <4>1, Zenon DEF SameEntry
    <3>2. pc(p) # "none"
      BY <2>0, Zenon
    <3> QED BY <1>0, <2>2, <2>3, <3>1, <3>2, OthersKept, Zenon DEF MovesTo
  <2>6. PageInv(p)'
    BY <1>1, <2>0, <2>1, <2>2, <2>3, <2>4 DEF MovesTo, PageInv, ThreadInv, pc, Asking, Copying
  <2>7. \A x \in Entries : /\ x \in valid' => row'[x[1]] # NULL
                           /\ x \notin valid' => frame_no'[x] = 0
                           /\ frame_no'[x] \in IF x \in swp' THEN Slots ELSE Frames
    BY <1>1, <2>1, <2>3, <2>4 DEF EntryInv
  <2>8. swp' \subseteq valid' /\ swapping' \subseteq valid'
    BY <1>1, <2>3, Zenon DEF EntryInv
  <2> QED BY <1>1, <2>3, <2>4, <2>5, <2>6, <2>7, <2>8, Zenon DEF EntryInv
<1> QED BY <1>2, <1>3, <1>4, <1>5, <1>6, <1>7, Zenon DEF Handle

(* Entering and leaving the kernel, and giving up. *)
LEMMA OtherEntry ==
  ASSUME Inv, ~IOErrors, NEW t \in Threads,
         \/ init_rows(t) \/ NoFrame(t) \/ (t = KernelThread /\ (AllocKernel \/ GotKernel))
         \/ (t \in Procs /\ (runprogram(t) \/ sys__exit(t))) \/ \E c \in Procs : proc_wait(t, c)
  PROVE  EntryInv'
<1>0. Procs \subseteq Threads /\ Entries = Procs \X Pages /\ NULL \notin Procs /\ NULL \notin Frames
      /\ (t = KernelThread \/ t \in Procs) /\ LastPage \in Nat
  BY Sorts, Zenon
<1>1. ThreadInv(t) /\ PageInv(t) /\ EntryInv /\ th[t] \in ThreadStates
      /\ status \in [Procs -> {"unborn", "embryo", "run", "exited", "reaped"}]
  BY Zenon DEF Inv, ControlInv, EntryInv
<1>2. CASE ~init_rows(t)
  <2>1. UNCHANGED <<row, valid, swp, frame_no, swapping>>
    BY <1>2, Zenon DEF NoFrame, AllocKernel, GotKernel, runprogram, sys__exit, proc_wait, pteVars
  <2>2. \A p \in Procs : status'[p] = "unborn" => status[p] = "unborn"
    BY <1>1, <1>2, Zenon DEF NoFrame, GiveUp, Die, AllocKernel, GotKernel, runprogram, sys__exit, proc_wait
  <2>3. \/ MovesTo(t, "alloc", "kern", 0, 0, 0, NULL)
        \/ \E l \in {"user", "none"} : MovesTo(t, l, "none", 0, 0, 0, NULL)
        \/ \E c \in Procs : MovesTo(t, "reap", "none", 0, 0, 0, c)
    BY <1>0, <1>1, <1>2, OtherMoves, Zenon DEF ThreadStates
  <2>4. PageInv(t)'
    <3>1. CASE MovesTo(t, "alloc", "kern", 0, 0, 0, NULL)
      BY <3>1, Zenon DEF MovesTo, PageInv, pc, Asking, Copying
    <3>2. CASE ~MovesTo(t, "alloc", "kern", 0, 0, 0, NULL)
      BY <2>3, <3>2, NoPage, Zenon DEF MovesTo
    <3> QED BY <3>1, <3>2, Zenon
  <2> QED BY <1>1, <2>1, <2>2, <2>3, <2>4, EntryStep, Zenon DEF MovesTo, EntryInv
<1>3. CASE init_rows(t)
  <2>0. pc(t) = "got" /\ th[t].for = "row" /\ Asking(t) /\ t \in Procs /\ th[t].frm \in Frames
    BY <1>0, <1>1, <1>3, Zenon DEF init_rows, ThreadInv, Asking, ThreadStates
  <2>1. PICK x \in Procs : x = IF th[t].as = NULL THEN t ELSE th[t].as
    BY <1>1, <2>0, Zenon DEF ThreadStates
  <2>2. /\ row' = [row EXCEPT ![x] = th[t].frm] /\ row[x] = NULL
        /\ UNCHANGED <<valid, swp, frame_no, swapping, status>>
    BY <1>1, <1>3, <2>0, <2>1, Zenon DEF init_rows, PageInv, pteVars
  <2>3. /\ row' \in [Procs -> Frames \cup {NULL}] /\ row'[x] = th[t].frm
        /\ \A r \in Procs : r # x => row'[r] = row[r]
    BY <1>1, <2>0, <2>2, Zenon DEF EntryInv
  <2>4. IF th[t].as = NULL THEN MovesTo(t, "fault", "none", th[t].pg, 0, 0, NULL)
        ELSE MovesTo(t, "copy", "none", 1, 0, 0, th[t].as)
    BY <1>3, OtherMoves, Zenon
  <2>5. \A u \in Threads \ {t} : PageInv(u)'
    <3>1. \A r \in Procs, q \in Pages : SameEntry(<<r, q>>)
      BY <2>2, Zenon DEF SameEntry
    <3> QED BY <2>0, <2>1, <2>3, <2>4, <3>1, OthersKept, Zenon DEF MovesTo
  <2>6. PageInv(t)'
    <3>1. CASE th[t].as = NULL
      BY <2>4, <3>1, NoPage, Zenon DEF MovesTo
    <3>2. CASE th[t].as # NULL
      <4>1. \A q \in Pages : <<x, q>> \notin valid
        <5> SUFFICES ASSUME NEW q \in Pages, <<x, q>> \in valid PROVE FALSE
          BY Zenon
        <5>1. <<x, q>> \in Entries /\ <<x, q>>[1] = x
          BY <1>0, Zenon
        <5> QED BY <1>1, <2>2, <5>1, Zenon DEF EntryInv
      <4> QED BY <1>0, <2>0, <2>1, <2>2, <2>3, <2>4, <3>2, <4>1, Zenon DEF MovesTo, PageInv, pc, Asking, Copying
    <3> QED BY <3>1, <3>2, Zenon
  <2>7. status[x] # "unborn"
    BY <1>0, <1>1, <2>0, <2>1, Zenon DEF ThreadInv, Copying
  <2>8. \A e \in Entries : e \in valid => row'[e[1]] # NULL
    BY <1>0, <1>1, <2>0, <2>2, <2>3, Zenon DEF EntryInv
  <2> QED BY <1>0, <1>1, <2>2, <2>3, <2>5, <2>6, <2>7, <2>8, Zenon DEF EntryInv
<1> QED BY <1>2, <1>3, Zenon

(* fork and pt_copy keep the invariant of the page tables. *)
LEMMA CopyEntryInv ==
  ASSUME Inv, NEW t \in Procs, (\E c \in Procs : Fork(t, c)) \/ Copy(t)
  PROVE  EntryInv'
<1>0. t \in Threads /\ Entries = Procs \X Pages /\ NULL \notin Procs /\ NULL \notin Frames
      /\ LastPage \in Nat /\ (\A q \in Pages : q \in Nat /\ q <= LastPage /\ q >= 1)
      /\ (\A q \in 0..LastPage+1 : q >= 1 /\ q <= LastPage => q \in Pages) /\ 0 \in Frames
  BY Sorts, Zenon
<1>1. ThreadInv(t) /\ PageInv(t) /\ EntryInv /\ th[t] \in ThreadStates
      /\ status \in [Procs -> {"unborn", "embryo", "run", "exited", "reaped"}]
  BY <1>0, Zenon DEF Inv, ControlInv, EntryInv
<1>a. th[t].pg \in 0..LastPage+1 /\ th[t].pg \in Nat
  BY <1>1, Sorts DEF ThreadStates
<1>2. ASSUME NEW c \in Procs, Fork(t, c) PROVE EntryInv'
  <2>1. UNCHANGED <<row, valid, swp, frame_no, swapping>> /\ status[c] = "unborn"
        /\ status' = [status EXCEPT ![c] = "embryo"]
    BY <1>2, Zenon DEF Fork, pteVars
  <2>2. IF row[t] = NULL THEN MovesTo(t, "copy", "none", LastPage + 1, 0, 0, c)
        ELSE MovesTo(t, "alloc", "row", 0, 0, 0, c)
    BY <1>0, <1>2, TableMoves, Zenon
  <2>3. row[c] = NULL
    BY <1>1, <2>1, Zenon DEF EntryInv
  <2>4. \A q \in Pages : <<c, q>> \notin valid
    <3> SUFFICES ASSUME NEW q \in Pages, <<c, q>> \in valid PROVE FALSE
      BY Zenon
    <3>1. <<c, q>> \in Entries /\ <<c, q>>[1] = c
      BY <1>0, Zenon
    <3> QED BY <1>1, <2>3, <3>1, Zenon DEF EntryInv
  <2>5. PageInv(t)'
    <3>1. CASE row[t] = NULL
      BY <1>0, <2>1, <2>2, <2>4, <3>1, Zenon DEF MovesTo, PageInv, pc, Asking, Copying
    <3>2. CASE row[t] # NULL
      BY <1>0, <2>1, <2>2, <2>3, <2>4, <3>2, Zenon DEF MovesTo, PageInv, pc, Asking, Copying
    <3> QED BY <3>1, <3>2, Zenon
  <2>6. \A p \in Procs : status'[p] = "unborn" => status[p] = "unborn"
    BY <1>1, <2>1, Zenon
  <2>7. \A u \in Threads : th'[u] = th[u] \/ PageInv(u)'
    BY <2>2, <2>5, Zenon DEF MovesTo
  <2> QED BY <1>1, <2>1, <2>6, <2>7, EntryStep, Zenon DEF EntryInv
<1>3. CASE CopyDone(t)
  <2>1. UNCHANGED <<row, valid, swp, frame_no, swapping>>
        /\ status' = [status EXCEPT ![th[t].as] = "run"]
        /\ th' = [th EXCEPT ![t] = At("user"), ![th[t].as] = At("user")]
    BY <1>3, Zenon DEF CopyDone, pteVars
  <2>2. \A u \in Threads : th'[u] = th[u] \/ th'[u] = At("user")
    BY <2>1, Zenon DEF Inv, ControlInv
  <2>3. At("user").pc = "user" /\ At("user").for = "none"
    BY Zenon DEF At
  <2>4. \A u \in Threads : th'[u] = th[u] \/ PageInv(u)'
    BY <2>2, <2>3, NoPage, Zenon
  <2>5. \A p \in Procs : status'[p] = "unborn" => status[p] = "unborn"
    BY <1>1, <2>1, Zenon
  <2> QED BY <1>1, <2>1, <2>4, <2>5, EntryStep, Zenon DEF EntryInv
<1>4. CASE CopyEntry(t) \/ CopyFrame(t)
  <2>0. /\ Copying(t) /\ th[t].pg \in Pages /\ th[t].as # NULL /\ pc(t) # "none"
        /\ CopyEntry(t) => pc(t) = "copy"
        /\ CopyFrame(t) => Asking(t) /\ th[t].for = "copy"
    <3>1. CASE CopyEntry(t)
      <4>1. pc(t) = "copy" /\ th[t].pg <= LastPage /\ th[t].pg >= 1 /\ th[t].as # NULL
        BY <1>1, <3>1, Zenon DEF CopyEntry, MorePages, ThreadInv
      <4>2. th[t].pg \in Pages
        BY <1>0, <1>a, <4>1, Zenon
      <4> QED BY <4>1, <4>2, Zenon DEF Copying, CopyFrame
    <3>2. CASE CopyFrame(t)
      BY <1>1, <3>2, Zenon DEF CopyEntry, CopyFrame, ThreadInv, Copying, Asking
    <3> QED BY <1>4, <3>1, <3>2, Zenon
  <2>1. PICK c \in Procs : c = th[t].as
    BY <1>1, <2>0, Zenon DEF ThreadStates
  <2>2. PICK new \in Entries : new = <<c, th[t].pg>> /\ new[1] = c
    <3>1. <<c, th[t].pg>> \in Entries /\ <<c, th[t].pg>>[1] = c
      BY <1>0, <2>0, Zenon
    <3> QED BY <3>1, Zenon
  <2>3. status' = status /\ row' = row /\ swapping' = swapping /\ c # t
    BY <1>1, <1>4, <2>0, <2>1, Zenon DEF CopyEntry, CopyFrame, ThreadInv
  <2>4. row[c] # NULL
    <3>1. CASE CopyEntry(t)
      <4>1. pc(t) = "copy" /\ th[t].pg # LastPage + 1
        BY <1>0, <1>a, <3>1 DEF CopyEntry, MorePages
      <4> QED BY <1>1, <2>1, <4>1, Zenon DEF PageInv
    <3>2. CASE CopyFrame(t)
      <4>1. new \in valid
        BY <1>1, <2>1, <2>2, <3>2, Zenon DEF CopyFrame, PageInv
      <4> QED BY <1>1, <2>2, <4>1, Zenon DEF EntryInv
    <3> QED BY <1>4, <3>1, <3>2, Zenon
  <2>5. CopyEntry(t) => new \notin valid /\ new \notin swp /\ frame_no[new] = 0
    BY <1>0, <1>1, <1>a, <2>0, <2>1, <2>2, ZenonT(60) DEF PageInv, EntryInv
  <2>6. /\ valid \subseteq valid' /\ swp \subseteq swp' /\ valid' \subseteq Entries
        /\ \A x \in Entries : x # new => SameEntry(x)
        /\ frame_no' \in [Entries -> Frames \cup Slots]
        /\ new \notin valid' => new \notin valid /\ frame_no'[new] = frame_no[new] /\ swp' = swp
        /\ frame_no'[new] \in IF new \in swp' THEN Slots ELSE Frames
        /\ new \in swp' => new \in valid'
    <3>1. CASE CopyEntry(t) /\ <<t, th[t].pg>> \notin valid
      <4>1. UNCHANGED <<frame_no, swp, valid>>
        BY <3>1, Zenon DEF CopyEntry, Resident
      <4> QED BY <1>1, <4>1, Zenon DEF EntryInv, SameEntry
    <3>2. CASE CopyEntry(t) /\ <<t, th[t].pg>> \in valid \cap swp
      <4>1. /\ swp' = swp \cup {new} /\ valid' = valid \cup {new}
            /\ frame_no' = [frame_no EXCEPT ![new] = frame_no[<<t, th[t].pg>>]]
        BY <2>1, <2>2, <3>2, Zenon DEF CopyEntry, Resident
      <4>2. frame_no[<<t, th[t].pg>>] \in Slots
        BY <1>0, <1>1, <3>2, Zenon DEF EntryInv
      <4> QED BY <1>1, <4>1, <4>2, Zenon DEF EntryInv, SameEntry
    <3>3. CASE CopyEntry(t) /\ Resident(<<t, th[t].pg>>)
      <4>1. valid' = valid \cup {new} /\ UNCHANGED <<frame_no, swp>>
        BY <2>1, <2>2, <3>3, Zenon DEF CopyEntry, Resident
      <4> QED BY <1>1, <2>5, <3>3, <4>1, Zenon DEF EntryInv, SameEntry
    <3>4. CASE CopyFrame(t)
      <4>1. frame_no' = [frame_no EXCEPT ![new] = th[t].frm] /\ UNCHANGED <<swp, valid>>
        BY <2>0, <2>1, <2>2, <3>4, Zenon DEF CopyFrame, Entry
      <4>2. new \in valid \ swp /\ th[t].frm \in Frames
        BY <1>1, <2>0, <2>1, <2>2, <3>4, Zenon DEF PageInv, ThreadStates
      <4> QED BY <1>1, <4>1, <4>2, Zenon DEF EntryInv, SameEntry
    <3> QED BY <1>4, <3>1, <3>2, <3>3, <3>4, Zenon DEF Resident
  <2>7. \A r \in Procs, q \in Pages : <<r, q>> # new => SameEntry(<<r, q>>)
    BY <1>0, <2>6, Zenon
  <2>8. /\ th' \in [Threads -> ThreadStates] /\ \A u \in Threads \ {t} : th'[u] = th[u]
        /\ th'[t].as = c
        /\ \/ CopyEntry(t) /\ Resident(<<t, th[t].pg>>) /\ th'[t].pc = "alloc" /\ th'[t].for = "copy"
              /\ th'[t].pg = th[t].pg
           \/ ~(CopyEntry(t) /\ Resident(<<t, th[t].pg>>)) /\ th'[t].pc = "copy" /\ th'[t].for # "copy"
              /\ th'[t].pg = th[t].pg + 1
    <3>1. CASE CopyEntry(t)
      <4>1. th[t].for # "copy"
        BY <1>1, <2>0, <3>1, Zenon DEF ThreadInv, Asking
      <4> QED BY <1>0, <2>1, <3>1, <4>1, TableMoves, Zenon DEF MovesTo
    <3>2. CASE CopyFrame(t)
      <4>1. ~CopyEntry(t)
        BY <2>0, <3>2, Zenon DEF CopyFrame
      <4> QED BY <1>0, <2>1, <3>2, <4>1, TableMoves, Zenon DEF MovesTo
    <3> QED BY <1>4, <3>1, <3>2, Zenon
  <2>9. \A u \in Threads \ {t} : PageInv(u)'
    BY <1>0, <2>0, <2>1, <2>2, <2>3, <2>7, <2>8, OthersKept, Zenon
  <2>10. \A q \in Pages : q > th[t].pg => <<c, q>> \notin valid'
    <3> SUFFICES ASSUME NEW q \in Pages, q > th[t].pg PROVE <<c, q>> \notin valid'
      BY Zenon
    <3>1. <<c, q>> # new
      BY <1>0, <2>0, <2>2
    <3>2. <<c, q>> \notin valid
      BY <1>1, <2>0, <2>1, Zenon DEF PageInv
    <3> QED BY <2>7, <3>1, <3>2, Zenon DEF SameEntry
  <2>11. PageInv(t)'
    <3>1. CASE CopyEntry(t) /\ Resident(<<t, th[t].pg>>)
      <4>1. valid' = valid \cup {new} /\ UNCHANGED <<frame_no, swp>>
        BY <2>1, <2>2, <3>1, Zenon DEF CopyEntry, Resident
      <4>2. <<t, th[t].pg>> \in valid' /\ new \in valid' \ swp' /\ frame_no'[new] = 0
        BY <2>5, <3>1, <4>1, Zenon DEF Resident
      <4> QED BY <1>0, <2>0, <2>1, <2>2, <2>8, <2>10, <3>1, <4>2, Zenon DEF PageInv, pc, Asking, Copying
    <3>2. CASE ~(CopyEntry(t) /\ Resident(<<t, th[t].pg>>))
      <4>1. \A q \in Pages : q >= th[t].pg + 1 => q > th[t].pg
        BY <1>0, <1>a
      <4>2. th'[t].pc = "copy" /\ th'[t].for # "copy" /\ th'[t].pg = th[t].pg + 1 /\ th'[t].as = c
        BY <2>8, <3>2, Zenon
      <4>3. \A q \in Pages : q > th'[t].pg \/ q = th'[t].pg => <<c, q>> \notin valid'
        BY <1>0, <1>a, <2>10, <4>1, <4>2
      <4> QED BY <2>3, <2>4, <4>2, <4>3, Zenon DEF PageInv, pc, Asking, Copying
    <3> QED BY <3>1, <3>2, Zenon
  <2>12. \A x \in Entries : /\ x \in valid' => row'[x[1]] # NULL
                            /\ x \notin valid' => frame_no'[x] = 0
                            /\ frame_no'[x] \in IF x \in swp' THEN Slots ELSE Frames
    <3> SUFFICES ASSUME NEW x \in Entries
                 PROVE  /\ x \in valid' => row'[x[1]] # NULL
                        /\ x \notin valid' => frame_no'[x] = 0
                        /\ frame_no'[x] \in IF x \in swp' THEN Slots ELSE Frames
      BY Zenon
    <3>1. CASE x = new
      BY <1>1, <2>2, <2>3, <2>4, <2>6, <3>1, Zenon DEF EntryInv
    <3>2. CASE x # new
      <4>1. SameEntry(x)
        BY <2>6, <3>2, Zenon
      <4> QED BY <1>1, <2>3, <4>1, Zenon DEF EntryInv, SameEntry
    <3> QED BY <3>1, <3>2, Zenon
  <2>13. swp' \subseteq valid'
    <3> SUFFICES ASSUME NEW x \in swp' PROVE x \in valid'
      BY Zenon
    <3>1. x \in Entries
      <4>1. x \in swp \/ x = new
        BY <1>4, <2>1, <2>2, Zenon DEF CopyEntry, CopyFrame
      <4> QED BY <1>1, <4>1, Zenon DEF EntryInv
    <3> QED BY <1>1, <2>6, <3>1, Zenon DEF EntryInv, SameEntry
  <2>14. swapping' \subseteq valid'
    BY <1>1, <2>3, <2>6, Zenon DEF EntryInv
  <2>15. \A u \in Threads : PageInv(u)'
    BY <2>9, <2>11, Zenon
  <2>16. row' \in [Procs -> Frames \cup {NULL}] /\ \A p \in Procs : status'[p] = "unborn" => row'[p] = NULL
    BY <1>1, <2>3, Zenon DEF EntryInv
  <2> QED BY <2>6, <2>12, <2>13, <2>14, <2>15, <2>16, Zenon DEF EntryInv
<1> QED BY <1>2, <1>3, <1>4, Zenon DEF Copy

(* pt_destroy keeps the invariant of the page tables. *)
LEMMA DestroyEntryInv ==
  ASSUME Inv, NoDestroyRace, NEW t \in Threads, Destroy(t)
  PROVE  EntryInv'
<1>0. Entries = Procs \X Pages /\ NULL \notin Procs /\ NULL \notin Frames /\ 0 \in Frames
  BY Sorts, Zenon
<1>1. ThreadInv(t) /\ PageInv(t) /\ EntryInv /\ th[t] \in ThreadStates
      /\ status \in [Procs -> {"unborn", "embryo", "run", "exited", "reaped"}]
  BY Zenon DEF Inv, ControlInv, EntryInv
<1>2. CASE StartDestroy(t)
  <2>1. UNCHANGED <<row, valid, swp, frame_no, swapping, status>> /\ pc(t) = "reap"
    BY <1>2, Zenon DEF StartDestroy, pteVars
  <2>2. PICK q \in {1, LastPage + 1} : MovesTo(t, "destroy", th[t].for, q, th[t].frm, th[t].idx, th[t].as)
    BY <1>2, TableMoves, Zenon
  <2>3. th[t].for # "copy"
    BY <1>1, <2>1, Zenon DEF ThreadInv, Asking
  <2>4. PageInv(t)'
    BY <2>2, <2>3, NoPage, Zenon DEF MovesTo
  <2> QED BY <1>1, <2>1, <2>2, <2>4, EntryStep, Zenon DEF MovesTo, EntryInv
<1>3. CASE CheckEntry(t) \/ FreeEntry(t) \/ RecheckEntry(t)
  <2>1. UNCHANGED <<row, valid, swp, frame_no, swapping, status>> /\ pc(t) \in {"destroy", "free", "recheck"}
    BY <1>3, Zenon DEF CheckEntry, FreeEntry, RecheckEntry, pteVars
  <2>2. th[t].for # "copy"
    BY <1>1, <2>1, Zenon DEF ThreadInv, Asking
  <2>3. \/ /\ MovesTo(t, "free", th[t].for, th[t].pg, frame_no[<<th[t].as, th[t].pg>>], th[t].idx, th[t].as)
           /\ Resident(<<th[t].as, th[t].pg>>)
        \/ MovesTo(t, "destroy", th[t].for, th[t].pg + 1, 0, th[t].idx, th[t].as)
        \/ /\ MovesTo(t, "recheck", th[t].for, th[t].pg, th[t].frm, th[t].idx, th[t].as)
           /\ pc(t) = "free"
    BY <1>3, TableMoves, Zenon DEF FreeEntry
  <2>4. PageInv(t)'
    <3>1. CASE MovesTo(t, "destroy", th[t].for, th[t].pg + 1, 0, th[t].idx, th[t].as)
      BY <2>2, <3>1, NoPage, Zenon DEF MovesTo
    <3>2. CASE /\ MovesTo(t, "free", th[t].for, th[t].pg, frame_no[<<th[t].as, th[t].pg>>], th[t].idx, th[t].as)
               /\ Resident(<<th[t].as, th[t].pg>>)
      BY <2>1, <2>2, <3>2, Zenon DEF MovesTo, PageInv, pc, Asking, Copying, Resident
    <3>3. CASE /\ MovesTo(t, "recheck", th[t].for, th[t].pg, th[t].frm, th[t].idx, th[t].as)
               /\ pc(t) = "free"
      <4>1. <<th[t].as, th[t].pg>> \in valid \ swp
        BY <1>1, <3>3, Zenon DEF PageInv, NoDestroyRace
      <4> QED BY <2>1, <2>2, <3>3, <4>1, Zenon DEF MovesTo, PageInv, pc, Asking, Copying
    <3> QED BY <2>3, <3>1, <3>2, <3>3, Zenon
  <2>5. \A u \in Threads : th'[u] = th[u] \/ PageInv(u)'
    BY <2>3, <2>4, Zenon DEF MovesTo
  <2> QED BY <1>1, <2>1, <2>5, EntryStep, Zenon DEF EntryInv
<1>4. CASE DestroyDone(t)
  <2>0. pc(t) = "destroy" /\ th[t].as # NULL /\ MovesTo(t, "user", "none", 0, 0, 0, NULL)
    BY <1>1, <1>4, TableMoves, Zenon DEF DestroyDone, ThreadInv
  <2>1. PICK c \in Procs : c = th[t].as
    BY <1>1, <2>0, Zenon DEF ThreadStates
  <2>2. /\ row' = [row EXCEPT ![c] = NULL]
        /\ \A e \in Entries : e[1] = c => e \notin valid' /\ e \notin swp' /\ e \notin swapping' /\ frame_no'[e] = 0
        /\ \A e \in Entries : e[1] # c => SameEntry(e)
        /\ valid' \subseteq valid /\ swp' \subseteq swp /\ swapping' \subseteq swapping
        /\ \A e \in Entries : frame_no'[e] = 0 \/ frame_no'[e] = frame_no[e]
        /\ frame_no' = [e \in Entries |-> frame_no'[e]]
        /\ status' = [status EXCEPT ![c] = "unborn"]
    BY <1>4, <2>1, Zenon DEF DestroyDone, SameEntry
  <2>3. /\ row' \in [Procs -> Frames \cup {NULL}] /\ row'[c] = NULL
        /\ \A r \in Procs : r # c => row'[r] = row[r] /\ status'[r] = status[r]
    BY <1>1, <2>2, Zenon DEF EntryInv
  <2>4. \A u \in Threads \ {t} : PageInv(u)'
    <3>1. \A r \in Procs, q \in Pages : r # c => SameEntry(<<r, q>>)
      BY <1>0, <2>2, Zenon
    <3>2. \A u \in Threads \ {t} : th'[u] = th[u]
      BY <2>0, Zenon DEF MovesTo
    <3>3. pc(t) # "none" /\ \A r \in Procs : r # c => row'[r] = row[r]
      BY <2>0, <2>3, Zenon
    <3> QED BY <2>1, <3>1, <3>2, <3>3, OthersKept, Zenon
  <2>5. PageInv(t)'
    BY <2>0, NoPage, Zenon DEF MovesTo
  <2>6. ASSUME NEW e \in Entries
        PROVE  /\ e \in valid' => row'[e[1]] # NULL
               /\ e \notin valid' => frame_no'[e] = 0
               /\ frame_no'[e] \in IF e \in swp' THEN Slots ELSE Frames
               /\ e \in swp' => e \in valid'
               /\ e \in swapping' => e \in valid'
    <3>1. CASE e[1] = c
      BY <1>0, <2>2, <3>1, Zenon
    <3>2. CASE e[1] # c
      <4>1. e[1] \in Procs /\ SameEntry(e)
        BY <1>0, <2>2, <3>2, Zenon
      <4> QED BY <1>1, <2>2, <2>3, <3>2, <4>1, Zenon DEF EntryInv, SameEntry
    <3> QED BY <3>1, <3>2, Zenon
  <2>7. frame_no' \in [Entries -> Frames \cup Slots]
    BY <1>0, <1>1, <2>2 DEF EntryInv
  <2>8. valid' \subseteq Entries /\ swp' \subseteq valid' /\ swapping' \subseteq valid'
    BY <1>1, <2>2, <2>6, Zenon DEF EntryInv
  <2>9. \A p \in Procs : status'[p] = "unborn" => row'[p] = NULL
    BY <1>1, <2>3, Zenon DEF EntryInv
  <2> QED BY <2>3, <2>4, <2>5, <2>6, <2>7, <2>8, <2>9, Zenon DEF EntryInv
<1> QED BY <1>2, <1>3, <1>4, Zenon DEF Destroy

-----------------------------------------------------------------------------
(* The initial coremap. *)
LEMMA InitBlock == Init => BlockInv
<1> SUFFICES ASSUME Init PROVE BlockInv
  BY Zenon
<1>1. coremap_bootstrap
  BY Zenon DEF Init
<1>2. \A f \in occ : f < FirstPage
  BY <1>1, CoremapAssumption DEF coremap_bootstrap
<1>3. prev_victim = 0
  BY <1>1, Zenon DEF coremap_bootstrap
<1>4. \A f \in occ : f >= FirstPage => nframes[f] = 1
  BY <1>1, CoremapAssumption DEF coremap_bootstrap
<1> QED BY <1>1, <1>3, <1>4, BootstrapTiles, Zenon DEF BlockInv, ImageOccupied

(* Steps that move no block. *)
LEMMA SameBlocks ==
  ASSUME BlockInv, UNCHANGED <<occ, nframes, prev_victim>>,
         fixed' \subseteq Frames, pt_entry' \in [Frames -> Entries \cup {NULL}]
  PROVE  BlockInv'
BY Zenon DEF BlockInv, CoremapTypeOK, Tiles, Merged

(* get_n_frames takes the first frame of the first free block. *)
LEMMA TakeBlock ==
  ASSUME BlockInv, Found(1), NEW e \in Entries \cup {NULL}, TakeFrames(FirstFit(1), 1, e)
  PROVE  /\ BlockInv'
         /\ occ' = occ \cup {FirstFit(1)} /\ fixed' = fixed \cup {FirstFit(1)}
         /\ pt_entry' = [pt_entry EXCEPT ![FirstFit(1)] = e] /\ prev_victim' = prev_victim
<1>1. PICK f \in Frames : f = FirstFit(1) /\ f \notin occ /\ f >= FirstPage /\ nframes[f] >= 1
  BY Picks, Zenon
<1>2. f \in Nat /\ f..(f + 1 - 1) = {f}
  BY Sorts
<1>3. /\ nframes' = [g \in Frames |-> IF g = f THEN 1
                                     ELSE IF g = f + 1 /\ nframes[f] - 1 > 0 THEN nframes[f] - 1
                                     ELSE nframes[g]]
      /\ occ' = occ \cup {f} /\ fixed' = fixed \cup {f}
      /\ pt_entry' = [g \in Frames |-> IF g \in {f} THEN e ELSE pt_entry[g]]
      /\ UNCHANGED prev_victim
  BY <1>1, <1>2, Zenon DEF TakeFrames
<1>4. CoremapTypeOK' /\ Tiles(occ', nframes') /\ Merged(occ', nframes') /\ ImageOccupied(occ')
  <2>1. TakeFrames(f, 1, e)
    BY <1>1, Zenon
  <2> QED BY <1>1, <2>1, TakeFramesTiles DEF BlockInv, ImageOccupied
<1>5. \A g \in occ' : g >= FirstPage => nframes'[g] = 1
  <2> SUFFICES ASSUME NEW g \in occ', g >= FirstPage PROVE nframes'[g] = 1
    BY Zenon
  <2>1. g \in Frames /\ g \in Nat /\ nframes[f] \in Nat
    BY <1>3, <1>1, Sorts DEF BlockInv, CoremapTypeOK
  <2>2. CASE g = f
    BY <1>3, <2>1, <2>2, Zenon
  <2>3. CASE g # f
    <3>1. g \in occ /\ nframes[g] = 1
      BY <1>3, <2>3, Zenon DEF BlockInv
    <3>2. nframes[f] - 1 > 0 => g # f + 1
      <4>1. nframes[f] - 1 > 0 => f + 1 \in (f+1)..(f + nframes[f] - 1)
        BY <1>2, <2>1
      <4>2. nframes[f] > 0
        BY <1>1, <2>1
      <4>3. nframes[f] - 1 > 0 => nframes[f + 1] = 0
        BY <1>1, <4>1, <4>2, Zenon DEF BlockInv, Tiles
      <4> QED BY <3>1, <4>3
    <3> QED BY <1>3, <2>1, <2>3, <3>1, <3>2, Zenon
  <2> QED BY <2>2, <2>3, Zenon
<1>6. pt_entry' = [pt_entry EXCEPT ![f] = e]
  BY <1>3, Zenon DEF BlockInv, CoremapTypeOK
<1> QED BY <1>1, <1>3, <1>4, <1>5, <1>6, Zenon DEF BlockInv, ImageOccupied

(* free_frame on a frame that is not being swapped out. *)
LEMMA FreeBlock ==
  ASSUME BlockInv, NEW f \in Frames, f >= FirstPage, f \in occ,
         ~(pt_entry[f] # NULL /\ pt_entry[f] \in swapping), free_frame(f)
  PROVE  /\ BlockInv'
         /\ occ' = occ \ {f} /\ fixed' = fixed \ {f}
         /\ pt_entry' = [pt_entry EXCEPT ![f] = NULL]
<1>1. nframes[f] = 1 /\ f \in Nat
  BY Sorts, Zenon DEF BlockInv
<1>2. Block(f) = {f}
  BY <1>1 DEF Block
<1>3. /\ occ' = occ \ {f} /\ fixed' = fixed \ {f} /\ prev_victim' = prev_victim
      /\ pt_entry' = [g \in Frames |-> IF g \in {f} THEN NULL ELSE pt_entry[g]]
  BY <1>2, Zenon DEF free_frame
<1>4. pt_entry' = [pt_entry EXCEPT ![f] = NULL]
  BY <1>3, Zenon DEF BlockInv, CoremapTypeOK
<1>5. /\ CoremapTypeOK' /\ Tiles(occ', nframes') /\ Merged(occ', nframes') /\ ImageOccupied(occ')
      /\ \A g \in occ' : nframes'[g] = nframes[g]
  BY <1>1, FreeFrameTiles DEF BlockInv, ImageOccupied
<1> QED BY <1>3, <1>4, <1>5, Zenon DEF BlockInv, ImageOccupied

-----------------------------------------------------------------------------
(* The frames: steps that leave them to their users.                        *)

(* What another thread and the frames see of thread u: which frame it pins, *)
(* and as what.                                                             *)
SameRole(u) ==
  /\ Evicting(u)' <=> Evicting(u)
  /\ Holding(u)' <=> Holding(u)
  /\ (pc(u) = "tlb")' <=> pc(u) = "tlb"
  /\ Pinning(u) => th'[u].frm = th[u].frm
  /\ Holding(u) => Entry(u)' = Entry(u)
  /\ pc(u) = "tlb" => th'[u].pg = th[u].pg

(* A thread whose locals stay as they are keeps its role.                   *)
LEMMA SameThread ==
  ASSUME NEW u \in Threads, th'[u] = th[u]
  PROVE  /\ SameRole(u) /\ Entry(u)' = Entry(u) /\ pc(u)' = pc(u)
         /\ Evicting(u)' <=> Evicting(u)
         /\ Holding(u)' <=> Holding(u)
         /\ Pinning(u)' <=> Pinning(u)
         /\ Destroying(u)' <=> Destroying(u)
BY Zenon DEF SameRole, Evicting, Holding, Pinning, Destroying, Entry, pc

(* A thread that neither copies a page nor destroys a table leaves the sets *)
(* Coming and Gone alone.                                                   *)
LEMMA ComingKept ==
  ASSUME NEW e,
         \A u \in Procs :
           \/ th[u].for # "copy" /\ th'[u].for # "copy"
           \/ th'[u].for = th[u].for /\ th'[u].as = th[u].as /\ th'[u].pg = th[u].pg
  PROVE  Coming(e)' <=> Coming(e)
<1>1. \A u \in Procs : (th[u].for = "copy" /\ Entry(u) = e)' <=> (th[u].for = "copy" /\ Entry(u) = e)
  BY Zenon DEF Entry
<1> QED BY <1>1, Zenon DEF Coming

(* The pages that pt_destroy has passed are the same when no thread that is *)
(* in pt_destroy moves.                                                     *)
LEMMA GoneKept ==
  ASSUME NEW e, \A u \in Threads : th'[u] = th[u] \/ (~Destroying(u) /\ ~Destroying(u)')
  PROVE  Gone(e)' <=> Gone(e)
<1>1. \A u \in Threads : th'[u] = th[u] => (Destroying(u)' <=> Destroying(u)) /\ pc(u)' = pc(u)
  BY Zenon DEF Destroying, pc
<1> QED BY <1>1, Zenon DEF Gone

(* A step that moves no frame. *)
LEMMA QuietStep ==
  ASSUME Inv, UNCHANGED <<occ, fixed, pt_entry, frame_no, swp, swapping, valid, row, kern>>,
         \A u \in Threads : SameRole(u),
         \A e \in Entries : (Coming(e) => Coming(e)') /\ (Gone(e) => Gone(e)')
                            /\ (Gone(e)' => Gone(e) \/ ~Resident(e))
  PROVE  FrameInv' /\ PinInv'
<1>0. FrameInv /\ PinInv /\ pt_entry \in [Frames -> Entries \cup {NULL}] /\ fixed \subseteq Frames
      /\ occ \subseteq Frames /\ swapping \subseteq Entries
  BY Zenon DEF Inv, BlockInv, CoremapTypeOK, EntryInv
<1>1. \A e \in Entries : Resident(e)' <=> Resident(e)
  BY Zenon DEF Resident
<1>2. \A f \in Frames : Private(f)' <=> Private(f)
  BY Zenon DEF Private
<1>3. \A u \in Threads : Pinning(u)' <=> Pinning(u)
  BY Zenon DEF SameRole, Pinning
<1>4. ASSUME NEW f \in Frames PROVE OwnerInv(f)'
  <2>0. OwnerInv(f) /\ pt_entry[f] \in Entries \cup {NULL}
    BY <1>0, Zenon DEF FrameInv
  <2>1. pt_entry[f] # NULL =>
       \/ Resident(pt_entry[f])' /\ frame_no[pt_entry[f]] = f /\ ~Gone(pt_entry[f])'
       \/ \E t \in Threads : Holding(t)' /\ th'[t].frm = f /\ Entry(t)' = pt_entry[f]
    <3> SUFFICES ASSUME pt_entry[f] # NULL
                 PROVE  \/ Resident(pt_entry[f])' /\ frame_no[pt_entry[f]] = f /\ ~Gone(pt_entry[f])'
                        \/ \E t \in Threads : Holding(t)' /\ th'[t].frm = f /\ Entry(t)' = pt_entry[f]
      BY Zenon
    <3>1. PICK e \in Entries : e = pt_entry[f] /\ e = pt_entry'[f]
      BY <2>0, Zenon
    <3>2. CASE Resident(e) /\ frame_no[e] = f /\ ~Gone(e)
      <4>1. Resident(e)' /\ ~Gone(e)'
        BY <1>1, <3>2, Zenon
      <4> QED BY <3>1, <3>2, <4>1, Zenon
    <3>3. CASE \E t \in Threads : Holding(t) /\ th[t].frm = f /\ Entry(t) = e
      BY <3>1, <3>3, Zenon DEF SameRole, Pinning
    <3> QED BY <2>0, <3>1, <3>2, <3>3, Zenon DEF OwnerInv
  <2>2. f \in occ /\ f >= FirstPage =>
       \/ pt_entry[f] # NULL \/ f \in kern \/ \E p \in Procs : row[p] = f
       \/ \E t \in Threads : (Evicting(t)' \/ Holding(t)') /\ th'[t].frm = f
    BY <2>0, Zenon DEF OwnerInv, SameRole, Pinning
  <2>3. f \in fixed /\ f >= FirstPage /\ pt_entry[f] # NULL => \E t \in Threads : Pinning(t)' /\ th'[t].frm = f
    BY <1>3, <2>0, Zenon DEF OwnerInv, SameRole
  <2>4. f \notin occ \/ f < FirstPage => pt_entry[f] = NULL
    BY <2>0, Zenon DEF OwnerInv
  <2> QED BY <2>1, <2>2, <2>3, <2>4, Zenon DEF OwnerInv
<1>5. ASSUME NEW e \in Entries PROVE PlacedInv(e)'
  <2>0. PlacedInv(e)
    BY <1>0, Zenon DEF FrameInv
  <2>1. Resident(e)' => Gone(e)' \/ Coming(e)' \/ pt_entry'[frame_no'[e]] = e
    BY <1>1, <2>0, Zenon DEF PlacedInv
  <2>2. e \in swapping' => Gone(e)' \/ \E t \in Threads : Evicting(t)' /\ pt_entry'[th'[t].frm] = e
    BY <2>0, Zenon DEF PlacedInv, SameRole, Pinning
  <2> QED BY <2>1, <2>2, Zenon DEF PlacedInv
<1>6. \A p \in Procs : RowInv(p)'
  BY <1>0, <1>2, Zenon DEF FrameInv, RowInv, Private
<1>7. kern' \subseteq Frames /\ \A f \in kern' : Private(f)'
  BY <1>0, <1>2, Zenon DEF FrameInv
<1>8. \A t \in Threads : PinnedInv(t)'
  BY <1>0, <1>3, ZenonT(60) DEF PinInv, PinnedInv, SameRole
<1>9. \A t, u \in Threads : Pinning(t)' /\ Pinning(u)' /\ th'[t].frm = th'[u].frm => t = u
  BY <1>0, <1>3, Zenon DEF PinInv, SameRole
<1>10. FrameInv'
  BY <1>4, <1>5, <1>6, <1>7, Zenon DEF FrameInv
<1>11. PinInv'
  BY <1>8, <1>9, Zenon DEF PinInv
<1> QED BY <1>10, <1>11, Zenon

(* A step of t that moves no frame, touches no entry and neither pins nor unpins. *)
LEMMA QuietMove ==
  ASSUME Inv, UNCHANGED <<occ, fixed, pt_entry, frame_no, swp, swapping, valid, row, kern>>,
         NEW t \in Threads, \A u \in Threads \ {t} : th'[u] = th[u], SameRole(t),
         \/ th[t].for # "copy" /\ th'[t].for # "copy"
         \/ th'[t].for = th[t].for /\ th'[t].as = th[t].as /\ th'[t].pg = th[t].pg,
         ~Destroying(t), ~Destroying(t)'
  PROVE  FrameInv' /\ PinInv'
<1>1. \A u \in Threads : SameRole(u)
  BY SameThread, Zenon
<1>2. \A e \in Entries : Coming(e)' <=> Coming(e)
  BY ComingKept, Sorts, Zenon
<1>3. \A e \in Entries : Gone(e)' <=> Gone(e)
  BY GoneKept, Zenon
<1> QED BY <1>1, <1>2, <1>3, QuietStep, Zenon

(* A thread that holds no frame before and after. *)
LEMMA IdleRole ==
  ASSUME NEW t \in Threads, ~Pinning(t), ~Pinning(t)'
  PROVE  SameRole(t)
BY Zenon DEF SameRole, Pinning

(* swap_set, swap_get and the release of an unused slot move no frame.      *)
LEMMA QuietAllocate ==
  ASSUME Inv, NEW t \in Threads, SwapSet(t) \/ DropSlot(t) \/ (t \in Procs /\ ~IOErrors /\ SwapIn(t))
  PROVE  FrameInv' /\ PinInv'
<1>1. UNCHANGED <<occ, fixed, pt_entry, frame_no, swp, swapping, valid, row, kern>>
  BY Zenon DEF SwapSet, DropSlot, SwapIn, cmVars, pteVars
<1>2. th'[t].for = th[t].for /\ th'[t].pg = th[t].pg /\ th'[t].frm = th[t].frm /\ th'[t].as = th[t].as
      /\ \A u \in Threads \ {t} : th'[u] = th[u]
  BY AllocateMoves, HandleMoves, Zenon DEF MovesTo, SwapIn
<1>3. \/ pc(t) = "swap" /\ th'[t].pc = "evict"
      \/ pc(t) = "drop" /\ th'[t].pc = "got"
      \/ pc(t) = "got" /\ th'[t].pc = "install"
  BY AllocateMoves, HandleMoves, Zenon DEF MovesTo, SwapSet, DropSlot, SwapIn
<1>4. SameRole(t) /\ ~Destroying(t) /\ ~Destroying(t)'
  BY <1>2, <1>3, Zenon DEF SameRole, Evicting, Holding, Pinning, Destroying, Entry, pc
<1> QED BY <1>1, <1>2, <1>4, QuietMove, Zenon

(* Faults, calls and returns that touch neither a frame nor an entry. *)
LEMMA QuietUser ==
  ASSUME Inv, ~IOErrors, NEW t \in Threads,
         \/ t \in Procs /\ (NeedFrame(t) \/ (\E q \in Pages : vm_fault(t, q)) \/ runprogram(t) \/ sys__exit(t))
         \/ t \in Procs /\ \E c \in Procs : Fork(t, c)
         \/ t = KernelThread /\ AllocKernel
         \/ \E c \in Procs : proc_wait(t, c)
  PROVE  FrameInv' /\ PinInv'
<1>1. UNCHANGED <<occ, fixed, pt_entry, frame_no, swp, swapping, valid, row, kern>>
  BY Zenon DEF NeedFrame, vm_fault, runprogram, sys__exit, Fork, AllocKernel, proc_wait, cmVars, pteVars
<1>2. ThreadInv(t) /\ \A p \in Procs : ThreadInv(p)
  BY Sorts, Zenon DEF Inv, ControlInv
<1>3. pc(t) \in {"none", "user", "fault"} /\ th[t].for # "copy"
  <2>1. CASE runprogram(t) /\ t \in Procs
    <3>1. status[t] # "run"
      BY <2>1, Zenon DEF runprogram
    <3> QED BY <1>2, <2>1, <3>1, Zenon DEF ThreadInv
  <2>2. CASE ~(runprogram(t) /\ t \in Procs)
    <3>1. pc(t) \in {"user", "fault"}
      BY <2>2, Zenon DEF NeedFrame, vm_fault, runprogram, sys__exit, Fork, AllocKernel, proc_wait
    <3> QED BY <1>2, <3>1, Zenon DEF ThreadInv, Asking
  <2> QED BY <2>1, <2>2, Zenon
<1>4. /\ th'[t].pc \in {"none", "user", "fault", "alloc", "copy", "reap"} /\ th'[t].for # "copy"
      /\ \A u \in Threads \ {t} : th'[u] = th[u]
  <2>1. CASE t \in Procs /\ NeedFrame(t)
    BY <2>1, HandleMoves, Zenon DEF MovesTo
  <2>2. CASE t \in Procs /\ \E q \in Pages : vm_fault(t, q)
    BY <2>2, HandleMoves, Zenon DEF MovesTo
  <2>3. CASE t \in Procs /\ (runprogram(t) \/ sys__exit(t))
    BY <2>3, OtherMoves, Zenon DEF MovesTo
  <2>4. CASE (t = KernelThread /\ AllocKernel) \/ \E c \in Procs : proc_wait(t, c)
    BY <2>4, OtherMoves, Zenon DEF MovesTo
  <2>5. CASE t \in Procs /\ \E c \in Procs : Fork(t, c)
    BY <2>5, TableMoves, Zenon DEF MovesTo
  <2> QED BY <2>1, <2>2, <2>3, <2>4, <2>5, Zenon
<1>5. SameRole(t) /\ ~Destroying(t) /\ ~Destroying(t)'
  BY <1>3, <1>4, IdleRole, Zenon DEF Evicting, Holding, Pinning, Destroying, pc
<1> QED BY <1>1, <1>3, <1>4, <1>5, QuietMove, Zenon

(* With no free block every frame is allocated. *)
LEMMA AllOccupied ==
  ASSUME BlockInv, ~Found(1)
  PROVE  \A f \in Frames : f >= FirstPage => f \in occ
<1> DEFINE S == {f \in Frames : f >= FirstPage /\ f \notin occ}
<1> SUFFICES ASSUME S # {} PROVE FALSE
  BY Zenon
<1>1. S \in SUBSET Nat
  BY Sorts, Zenon
<1>2. PICK f \in S : \A g \in S : f <= g
  BY <1>1, LeastNat, Zenon
<1>3. f \in Frames /\ f \in Nat /\ f >= FirstPage /\ f \notin occ /\ FirstPage \in Nat /\ FirstPage > 0
  BY <1>1, CoremapAssumption, Zenon
<1>4. nframes[f] \in Nat /\ Tiles(occ, nframes)
  BY <1>3 DEF BlockInv, CoremapTypeOK
<1>5. nframes[f] # 0
  <2>1. SUFFICES ASSUME nframes[f] = 0 PROVE FALSE
    BY Zenon
  <2>2. f # FirstPage /\ f - 1 \notin occ
    BY <1>3, <1>4, <2>1 DEF Tiles
  <2>3. f - 1 \in S
    <3>1. f - 1 \in Frames /\ f - 1 >= FirstPage
      BY <1>3, <2>2, CoremapAssumption DEF Frames
    <3> QED BY <2>2, <3>1, Zenon
  <2>4. f <= f - 1
    BY <1>2, <2>3, Zenon
  <2> QED BY <1>3, <2>4
<1>6. f \in FreeBlocks(1)
  BY <1>3, <1>4, <1>5, CoremapAssumption DEF FreeBlocks, Frames
<1> QED BY <1>6, Zenon DEF Found

(* A process that runs is neither being copied to nor being destroyed. *)
LEMMA LiveOwner ==
  ASSUME Inv, NEW p \in Procs, pc(p) # "none"
  PROVE  (\A u \in Threads : th[u].as # p) /\ \A e : e[1] = p => ~Gone(e) /\ ~Coming(e)
<1>0. p \in Threads /\ p # NULL /\ \A u \in Threads : ThreadInv(u)
  BY Sorts, Zenon DEF Inv, ControlInv
<1>1. status[p] = "run"
  BY <1>0, Zenon DEF ThreadInv
<1>2. \A u \in Threads : th[u].as # p
  BY <1>0, <1>1, Zenon DEF ThreadInv
<1>3. \A u \in Procs : th[u].for = "copy" => Entry(u)[1] # p
  BY <1>2, Sorts, Zenon DEF Entry
<1>4. ASSUME NEW e, e[1] = p PROVE ~Gone(e) /\ ~Coming(e)
  BY <1>2, <1>3, <1>4, Zenon DEF Gone, Coming
<1> QED BY <1>2, <1>4, Zenon

(* Its pages in memory are the owners of their frames. *)
LEMMA LivePage ==
  ASSUME Inv, NEW p \in Procs, pc(p) # "none", NEW q \in Pages, Resident(<<p, q>>)
  PROVE  /\ frame_no[<<p, q>>] \in Frames /\ pt_entry[frame_no[<<p, q>>]] = <<p, q>>
         /\ frame_no[<<p, q>>] \in occ /\ frame_no[<<p, q>>] >= FirstPage
<1>0. <<p, q>> \in Entries /\ <<p, q>>[1] = p /\ <<p, q>> # NULL /\ FrameInv
  BY Sorts DEF Inv
<1>1. ~Gone(<<p, q>>) /\ ~Coming(<<p, q>>)
  BY <1>0, LiveOwner, Zenon
<1>2. frame_no[<<p, q>>] \in Frames
  BY <1>0, Zenon DEF Inv, EntryInv, Resident
<1>3. pt_entry[frame_no[<<p, q>>]] = <<p, q>>
  BY <1>0, <1>1, Zenon DEF FrameInv, PlacedInv
<1>4. frame_no[<<p, q>>] \in Nat /\ FirstPage \in Nat
  BY <1>2, Sorts, CoremapAssumption, Zenon
<1> QED BY <1>0, <1>2, <1>3, <1>4 DEF FrameInv, OwnerInv

(* Only the process itself and a thread that evicts the page pin its frame. *)
LEMMA LivePins ==
  ASSUME Inv, NEW p \in Procs, pc(p) # "none", NEW q \in Pages, NEW f \in Frames, pt_entry[f] = <<p, q>>,
         NEW u \in Threads, Pinning(u), th[u].frm = f
  PROVE  u = p \/ (Evicting(u) /\ <<p, q>> \in swapping)
<1>0. PinnedInv(u) /\ <<p, q>> # NULL
  BY Sorts DEF Inv, PinInv
<1>2. CASE Evicting(u)
  BY <1>0, <1>2, Zenon DEF PinnedInv
<1>3. CASE Holding(u)
  <2>1. Entry(u) = <<p, q>>
    BY <1>0, <1>3, Zenon DEF PinnedInv
  <2>2. CASE th[u].for \in {"row", "kern"}
    BY <1>0, <2>1, <2>2, Zenon DEF Entry
  <2>3. CASE th[u].for = "copy"
    BY LiveOwner, <2>1, <2>3, Zenon DEF Entry
  <2>4. CASE th[u].for \notin {"row", "kern", "copy"}
    BY <2>1, <2>4, Zenon DEF Entry
  <2> QED BY <2>2, <2>3, <2>4, Zenon
<1>4. CASE pc(u) = "tlb"
  BY <1>0, <1>4 DEF PinnedInv
<1> QED BY <1>2, <1>3, <1>4, Zenon DEF Pinning

(* The page that pt_copy is copying is in memory, and nobody is swapping it *)
(* out or has pinned it: get_victim would find it.                          *)
LEMMA CopiedIsEvictable ==
  ASSUME Inv, NoCopyRace, NEW t \in Procs, pc(t) = "alloc", th[t].for = "copy"
  PROVE  \E f \in Frames : Evictable(f) /\ nframes[f] = 1
<1> DEFINE q == th[t].pg
<1>0. t \in Threads /\ ThreadInv(t) /\ PageInv(t) /\ FrameInv
  BY Sorts, Zenon DEF Inv, ControlInv, EntryInv
<1>1. q \in Pages /\ Resident(<<t, q>>) /\ <<t, q>> \notin swapping /\ <<t, q>> # NULL
  <2>1. <<t, q>> \in valid
    BY <1>0, Zenon DEF PageInv
  <2>2. <<t, q>> \notin swp /\ <<t, q>> \notin swapping
    BY Zenon DEF NoCopyRace
  <2>3. q \in Pages
    BY <1>0, Zenon DEF ThreadInv
  <2> QED BY <2>1, <2>2, <2>3, Sorts DEF Resident
<1>2. PICK f \in Frames : f = frame_no[<<t, q>>] /\ pt_entry[f] = <<t, q>> /\ f \in occ /\ f >= FirstPage
  BY <1>1, LivePage, Zenon
<1>3. f \notin fixed
  <2>1. ~Pinning(t)
    BY Zenon DEF Pinning, Evicting, Holding
  <2> QED BY <1>0, <1>1, <1>2, <2>1, LivePins, Zenon DEF FrameInv, OwnerInv
<1>4. Evictable(f)
  BY <1>1, <1>2, <1>3, Zenon DEF Evictable
<1> QED BY <1>2, <1>4, Zenon DEF Inv, BlockInv

(* get_victim fails only when nothing can be evicted. *)
LEMMA VictimExists ==
  ASSUME BlockInv, ~Found(1), NEW f \in Frames, Evictable(f), nframes[f] = 1
  PROVE  get_victim # -1
<1>0. prev_victim \in Frames /\ f \in Nat /\ Frames \subseteq Nat /\ FirstPage \in Nat /\ FirstPage > 0
  BY Sorts, CoremapAssumption, Zenon DEF BlockInv, CoremapTypeOK
<1>1. nframes[prev_victim] # 0
  <2>1. CASE prev_victim = 0
    BY <1>0, <2>1 DEF BlockInv, Tiles
  <2>2. CASE prev_victim >= FirstPage
    BY <1>0, <2>2, AllOccupied DEF BlockInv
  <2> QED BY <2>1, <2>2, Zenon DEF BlockInv
<1>2. prev_victim \in Nat
  BY <1>0, Zenon
<1>3. VictimAfter # {} \/ VictimBefore # {}
  BY <1>0, <1>2 DEF VictimAfter, VictimBefore
<1>4. VictimAfter \subseteq Frames /\ VictimBefore \subseteq Frames /\ -1 \notin Frames
  BY <1>0 DEF VictimAfter, VictimBefore, Frames
<1> QED BY <1>1, <1>3, <1>4, LowestIn, Zenon DEF get_victim

(* get_n_frames gives up: never in pt_copy, whose source page can be evicted. *)
LEMMA QuietNoFrame ==
  ASSUME Inv, ~IOErrors, NoCopyRace, NEW t \in Threads, NoFrame(t)
  PROVE  FrameInv' /\ PinInv'
<1>0. ThreadInv(t) /\ BlockInv /\ pc(t) = "alloc" /\ ~Found(1) /\ get_victim = -1
  BY Zenon DEF Inv, ControlInv, NoFrame
<1>1. th[t].for # "copy"
  <2> SUFFICES ASSUME th[t].for = "copy" PROVE FALSE
    BY Zenon
  <2>1. t \in Procs
    BY <1>0, Sorts, Zenon DEF ThreadInv, Asking
  <2> QED BY <1>0, <2>1, CopiedIsEvictable, VictimExists, Zenon
<1>2. UNCHANGED <<occ, fixed, pt_entry, frame_no, swp, swapping, valid, row, kern>>
  BY Zenon DEF NoFrame, cmVars, pteVars
<1>3. th'[t].pc \in {"user", "reap", "none"} /\ th'[t].for = "none" /\ \A u \in Threads \ {t} : th'[u] = th[u]
  BY OtherMoves, Zenon DEF MovesTo
<1>4. SameRole(t) /\ ~Destroying(t) /\ ~Destroying(t)'
  BY <1>0, <1>3, IdleRole, Zenon DEF Evicting, Holding, Pinning, Destroying, pc
<1> QED BY <1>1, <1>2, <1>3, <1>4, QuietMove, Zenon

(* pt_copy returns: parent and child go to user mode. *)
LEMMA QuietCopyDone ==
  ASSUME Inv, NEW t \in Procs, CopyDone(t)
  PROVE  FrameInv' /\ PinInv'
<1>0. pc(t) = "copy" /\ t \in Threads /\ ThreadInv(t) /\ th \in [Threads -> ThreadStates]
  BY Sorts, Zenon DEF CopyDone, Inv, ControlInv
<1>1. PICK c \in Procs : c = th[t].as /\ c # t
  BY <1>0, Zenon DEF ThreadInv, ThreadStates
<1>2. c \in Threads /\ ThreadInv(c) /\ status[c] # "run"
  BY <1>0, <1>1, Sorts, Zenon DEF Inv, ControlInv, ThreadInv, Copying
<1>3. pc(c) = "none" /\ th[c].for # "copy" /\ th[t].for # "copy"
  BY <1>0, <1>1, <1>2, Zenon DEF ThreadInv, Asking
<1>4. th'[t] = At("user") /\ th'[c] = At("user") /\ \A u \in Threads \ {t, c} : th'[u] = th[u]
  BY <1>0, <1>1, <1>2, Zenon DEF CopyDone
<1>5. th'[t].pc = "user" /\ th'[c].pc = "user" /\ th'[t].for # "copy" /\ th'[c].for # "copy"
  BY <1>4 DEF At
<1>6. ~Pinning(t) /\ ~Pinning(t)' /\ ~Pinning(c) /\ ~Pinning(c)'
      /\ ~Destroying(t) /\ ~Destroying(t)' /\ ~Destroying(c) /\ ~Destroying(c)'
  BY <1>0, <1>3, <1>5, Zenon DEF Evicting, Holding, Pinning, Destroying, pc
<1>7. \A u \in Threads : SameRole(u)
  BY <1>0, <1>2, <1>4, <1>6, SameThread, IdleRole, Zenon
<1>8. \A e \in Entries : Coming(e)' <=> Coming(e)
  BY <1>3, <1>4, <1>5, ComingKept, Sorts, Zenon
<1>9. \A e \in Entries : Gone(e)' <=> Gone(e)
  BY <1>4, <1>6, GoneKept, Zenon
<1>10. UNCHANGED <<occ, fixed, pt_entry, frame_no, swp, swapping, valid, row, kern>>
  BY Zenon DEF CopyDone, cmVars, pteVars
<1> QED BY <1>7, <1>8, <1>9, <1>10, QuietStep, Zenon

(* pt_copy passes over a page that is not valid. *)
LEMMA QuietCopyNothing ==
  ASSUME Inv, NEW t \in Procs, CopyEntry(t), <<t, th[t].pg>> \notin valid
  PROVE  FrameInv' /\ PinInv'
<1>0. pc(t) = "copy" /\ t \in Threads /\ ThreadInv(t)
  BY Sorts, Zenon DEF CopyEntry, Inv, ControlInv
<1>1. th[t].for # "copy"
  BY <1>0, Zenon DEF ThreadInv, Asking
<1>2. UNCHANGED <<occ, fixed, pt_entry, frame_no, swp, swapping, valid, row, kern>>
  BY Zenon DEF CopyEntry, cmVars, Resident
<1>3. th'[t].pc = "copy" /\ th'[t].for = th[t].for /\ \A u \in Threads \ {t} : th'[u] = th[u]
  BY <1>0, TableMoves, Zenon DEF MovesTo, Resident
<1>4. SameRole(t) /\ ~Destroying(t) /\ ~Destroying(t)'
  BY <1>0, <1>3, IdleRole, Zenon DEF Evicting, Holding, Pinning, Destroying, pc
<1> QED BY <1>0, <1>1, <1>2, <1>3, <1>4, QuietMove, Zenon

(* pt_destroy between two entries: an entry it has passed refers to nothing. *)
LEMMA QuietDestroy ==
  ASSUME Inv, NEW t \in Threads, StartDestroy(t) \/ CheckEntry(t) \/ RecheckEntry(t)
  PROVE  FrameInv' /\ PinInv'
<1> DEFINE c == th[t].as
           g == th[t].pg
<1>0. /\ pc(t) \in {"reap", "destroy", "recheck"} /\ ThreadInv(t) /\ th[t] \in ThreadStates
      /\ th[t].for # "copy" /\ EntryInv
  BY Zenon DEF StartDestroy, CheckEntry, RecheckEntry, Inv, ControlInv, ThreadInv, Asking
<1>1. c \in Procs /\ g \in Nat /\ LastPage \in Nat
  BY <1>0, Sorts DEF ThreadInv, ThreadStates
<1>2. /\ \A u \in Threads \ {t} : th'[u] = th[u]
      /\ th'[t].as = c /\ th'[t].for = th[t].for /\ th'[t].pc \in {"destroy", "free"}
      /\ \/ pc(t) = "reap" /\ th'[t].pg = IF row[c] = NULL THEN LastPage + 1 ELSE 1
         \/ pc(t) = "destroy" /\ th'[t].pg = g
         \/ pc(t) = "destroy" /\ th'[t].pg = g + 1 /\ ~Resident(<<c, g>>)
         \/ pc(t) = "recheck" /\ th'[t].pg = g + 1
  <2>1. CASE StartDestroy(t)
    BY <2>1, TableMoves, Zenon DEF MovesTo, StartDestroy
  <2>2. CASE CheckEntry(t)
    BY <2>2, TableMoves, Zenon DEF MovesTo, CheckEntry
  <2>3. CASE RecheckEntry(t)
    BY <2>3, TableMoves, Zenon DEF MovesTo, RecheckEntry
  <2> QED BY <2>1, <2>2, <2>3, Zenon
<1>3. UNCHANGED <<occ, fixed, pt_entry, frame_no, swp, swapping, valid, row, kern>>
  BY Zenon DEF StartDestroy, CheckEntry, RecheckEntry, cmVars, pteVars
<1>4. \A u \in Threads : SameRole(u)
  <2>1. ~Pinning(t) /\ ~Pinning(t)'
    BY <1>0, <1>2, Zenon DEF Evicting, Holding, Pinning, pc
  <2> QED BY <1>2, <2>1, SameThread, IdleRole, Zenon
<1>5. \A e \in Entries : Coming(e)' <=> Coming(e)
  BY <1>0, <1>2, ComingKept, Sorts, Zenon
<1>6. ASSUME NEW e \in Entries PROVE (Gone(e) => Gone(e)') /\ (Gone(e)' => Gone(e) \/ ~Resident(e))
  <2>0. e \in Procs \X Pages /\ e[1] \in Procs /\ e[2] \in Pages /\ e = <<e[1], e[2]>> /\ e[2] \in Nat /\ e[2] >= 1 /\ e[2] < LastPage + 1
    <3>1. e \in Procs \X Pages
      BY Sorts, Zenon
    <3>2. e[1] \in Procs /\ e[2] \in Pages /\ e = <<e[1], e[2]>>
      BY <3>1
    <3> QED BY <1>1, <3>1, <3>2 DEF Pages
  <2>1. \A u \in Threads \ {t} :
           (/\ Destroying(u) /\ th[u].as = e[1]
            /\ e[2] < th[u].pg \/ (pc(u) = "recheck" /\ e[2] = th[u].pg))'
           <=> /\ Destroying(u) /\ th[u].as = e[1]
               /\ e[2] < th[u].pg \/ (pc(u) = "recheck" /\ e[2] = th[u].pg)
    BY <1>2, Zenon DEF Destroying, pc
  <2>2. /\ Destroying(t) /\ th[t].as = e[1]
        /\ e[2] < th[t].pg \/ (pc(t) = "recheck" /\ e[2] = th[t].pg)
        => Destroying(t)' /\ th'[t].as = e[1] /\ e[2] < th'[t].pg
    BY <1>0, <1>1, <1>2, <2>0 DEF Destroying, pc
  <2>3. Gone(e) => Gone(e)'
    BY <2>1, <2>2, Zenon DEF Gone
  <2>4. th'[t].as = e[1] /\ (e[2] < th'[t].pg \/ (pc(t)' = "recheck" /\ e[2] = th'[t].pg)) =>
           \/ Destroying(t) /\ th[t].as = e[1] /\ (e[2] < th[t].pg \/ (pc(t) = "recheck" /\ e[2] = th[t].pg))
           \/ ~Resident(e)
    <3> SUFFICES ASSUME c = e[1], e[2] < th'[t].pg
                 PROVE  \/ Destroying(t) /\ th[t].as = e[1] /\ (e[2] < th[t].pg \/ (pc(t) = "recheck" /\ e[2] = th[t].pg))
                        \/ ~Resident(e)
      BY <1>2, Zenon DEF pc
    <3>1. CASE pc(t) = "reap"
      <4>1. row[c] = NULL
        BY <1>2, <2>0, <3>1
      <4>2. e \notin valid
        BY <1>0, <4>1, Zenon DEF EntryInv
      <4> QED BY <4>2, Zenon DEF Resident
    <3>2. CASE e[2] < g /\ pc(t) # "reap"
      BY <1>0, <3>2, Zenon DEF Destroying
    <3>3. CASE ~(e[2] < g) /\ pc(t) # "reap"
      <4>1. e[2] = g /\ th'[t].pg = g + 1
        BY <1>1, <1>2, <2>0, <3>3
      <4>2. CASE pc(t) = "recheck"
        BY <4>1, <4>2, Zenon DEF Destroying
      <4>3. CASE pc(t) # "recheck"
        <5>1. th'[t].pg # g
          BY <1>1, <4>1
        <5> QED BY <1>2, <2>0, <3>3, <4>1, <4>3, <5>1, Zenon
      <4> QED BY <4>2, <4>3, Zenon
    <3> QED BY <3>1, <3>2, <3>3, Zenon
  <2>5. Gone(e)' => Gone(e) \/ ~Resident(e)
    BY <2>1, <2>4, Zenon DEF Gone
  <2> QED BY <2>3, <2>5, Zenon
<1> QED BY <1>3, <1>4, <1>5, <1>6, QuietStep, Zenon

(* A store moves no frame.                                                  *)
LEMMA QuietWrite ==
  ASSUME Inv, UNCHANGED <<cmVars, pteVars, valid, row, kern, th>>
  PROVE  FrameInv' /\ PinInv'
<1>1. UNCHANGED <<occ, fixed, pt_entry, frame_no, swp, swapping, valid, row, kern>>
  BY Zenon DEF cmVars, pteVars
<1>2. \A u \in Threads : SameRole(u) /\ th'[u] = th[u]
  BY SameThread, Zenon
<1>3. \A e \in Entries : Coming(e)' <=> Coming(e)
  BY <1>2, ComingKept, Sorts, Zenon
<1>4. \A e \in Entries : Gone(e)' <=> Gone(e)
  BY <1>2, GoneKept, Zenon
<1> QED BY <1>1, <1>2, <1>3, <1>4, QuietStep, Zenon

-----------------------------------------------------------------------------
(* The frames: get_n_frames and the fault handler.                          *)

(* What the invariants say of the types, gathered for the steps below. *)
LEMMA FrameSorts ==
  ASSUME Inv
  PROVE  /\ FrameInv /\ PinInv /\ EntryInv /\ BlockInv
         /\ pt_entry \in [Frames -> Entries \cup {NULL}] /\ NULL \notin Entries
         /\ fixed \subseteq Frames /\ occ \subseteq Frames /\ swapping \subseteq Entries
         /\ valid \subseteq Entries /\ swp \subseteq valid /\ kern \subseteq Frames
         /\ row \in [Procs -> Frames \cup {NULL}] /\ NULL \notin Frames
         /\ frame_no \in [Entries -> Frames \cup Slots]
         /\ \A e \in Entries : Resident(e) => frame_no[e] \in Frames
         /\ \A u \in Threads : ThreadInv(u) /\ PageInv(u) /\ th[u] \in ThreadStates /\ th[u].frm \in Frames
BY Sorts, Zenon DEF Inv, ControlInv, BlockInv, CoremapTypeOK, EntryInv, FrameInv, Resident, ThreadStates

(* A step of t that touches one frame f. *)
Touches(t, f) ==
  /\ \A u \in Threads \ {t} : SameRole(u) /\ (Pinning(u) => th[u].frm # f)
  /\ Pinning(t) => th[t].frm = f
  /\ Pinning(t)' => th'[t].frm = f
  /\ \A g \in Frames \ {f} :
       /\ g \in occ' <=> g \in occ
       /\ g \in fixed' <=> g \in fixed
       /\ pt_entry'[g] = pt_entry[g]
       /\ g \in kern' <=> g \in kern
       /\ pt_entry[g] # NULL =>
            /\ Resident(pt_entry[g]) /\ frame_no[pt_entry[g]] = g /\ ~Gone(pt_entry[g]) =>
                 Resident(pt_entry[g])' /\ frame_no'[pt_entry[g]] = g /\ ~Gone(pt_entry[g])'
            /\ pt_entry[g] \in swapping => pt_entry[g] \in swapping'
  /\ \A p \in Procs : row'[p] = row[p] \/ (row[p] \in {NULL, f} /\ row'[p] \in {NULL, f})

(* Everything that concerns the other frames is as before. *)
LEMMA AwayStep ==
  ASSUME Inv, NEW t \in Threads, NEW f \in Frames, Touches(t, f),
         occ' \subseteq Frames, fixed' \subseteq Frames, kern' \subseteq Frames,
         OwnerInv(f)', PinnedInv(t)', \A e \in Entries : PlacedInv(e)',
         f \in kern' => Private(f)' /\ \A p \in Procs : row'[p] # f,
         \A p, r \in Procs : row'[p] = f => Private(f)' /\ (row'[r] = f => r = p)
  PROVE  FrameInv' /\ PinInv'
<1>0. /\ FrameInv /\ PinInv
      /\ pt_entry \in [Frames -> Entries \cup {NULL}] /\ NULL \notin Entries
      /\ kern \subseteq Frames /\ row \in [Procs -> Frames \cup {NULL}] /\ NULL \notin Frames
      /\ \A u \in Threads : th[u].frm \in Frames
  BY FrameSorts, Zenon
<1>1. \A u \in Threads \ {t} :
        /\ Holding(u) => Entry(u)' = Entry(u)
        /\ Pinning(u) => th'[u].frm = th[u].frm /\ th[u].frm # f
        /\ (pc(u)' = "tlb" <=> pc(u) = "tlb") /\ (pc(u) = "tlb" => th'[u].pg = th[u].pg)
        /\ (Evicting(u)' <=> Evicting(u)) /\ (Holding(u)' <=> Holding(u)) /\ (Pinning(u)' <=> Pinning(u))
  BY Zenon DEF Touches, SameRole, Pinning
<1>2. \A u \in Threads : (Holding(u) \/ Evicting(u) => Pinning(u)) /\ (Holding(u)' \/ Evicting(u)' => Pinning(u)')
  BY Zenon DEF Pinning
<1>3. \A g \in Frames : g # f => (Private(g)' <=> Private(g))
  BY Zenon DEF Private, Touches
<1>4. ASSUME NEW g \in Frames, g # f PROVE OwnerInv(g)'
  <2>0. /\ OwnerInv(g) /\ pt_entry'[g] = pt_entry[g] /\ (g \in occ' <=> g \in occ)
        /\ (g \in fixed' <=> g \in fixed) /\ (g \in kern' <=> g \in kern)
    BY <1>0, <1>4, Zenon DEF FrameInv, Touches
  <2>1. pt_entry'[g] # NULL =>
       \/ Resident(pt_entry[g])' /\ frame_no'[pt_entry'[g]] = g /\ ~Gone(pt_entry[g])'
       \/ \E u \in Threads : Holding(u)' /\ th'[u].frm = g /\ Entry(u)' = pt_entry'[g]
    <3> SUFFICES ASSUME pt_entry[g] # NULL
                 PROVE  \/ Resident(pt_entry[g])' /\ frame_no'[pt_entry[g]] = g /\ ~Gone(pt_entry[g])'
                        \/ \E u \in Threads : Holding(u)' /\ th'[u].frm = g /\ Entry(u)' = pt_entry[g]
      BY <2>0, Zenon
    <3>1. CASE Resident(pt_entry[g]) /\ frame_no[pt_entry[g]] = g /\ ~Gone(pt_entry[g])
      <4>1. /\ Resident(pt_entry[g]) /\ frame_no[pt_entry[g]] = g /\ ~Gone(pt_entry[g]) =>
                 Resident(pt_entry[g])' /\ frame_no'[pt_entry[g]] = g /\ ~Gone(pt_entry[g])'
        BY <1>4, Zenon DEF Touches
      <4> QED BY <3>1, <4>1, Zenon
    <3>2. CASE \E u \in Threads : Holding(u) /\ th[u].frm = g /\ Entry(u) = pt_entry[g]
      <4>1. PICK u \in Threads : Holding(u) /\ th[u].frm = g /\ Entry(u) = pt_entry[g]
        BY <3>2, Zenon
      <4>2. u # t
        BY <1>2, <1>4, <4>1, Zenon DEF Touches
      <4> QED BY <1>1, <1>2, <4>1, <4>2, Zenon
    <3> QED BY <2>0, <3>1, <3>2, Zenon DEF OwnerInv
  <2>2. g \in occ' /\ g >= FirstPage =>
       \/ pt_entry'[g] # NULL \/ g \in kern' \/ \E p \in Procs : row'[p] = g
       \/ \E u \in Threads : (Evicting(u)' \/ Holding(u)') /\ th'[u].frm = g
    <3> SUFFICES ASSUME g \in occ, g >= FirstPage, pt_entry[g] = NULL, g \notin kern
                 PROVE  \/ \E p \in Procs : row'[p] = g
                        \/ \E u \in Threads : (Evicting(u)' \/ Holding(u)') /\ th'[u].frm = g
      BY <2>0, Zenon
    <3>1. CASE \E p \in Procs : row[p] = g
      BY <1>0, <1>4, <3>1, ZenonT(60) DEF Touches
    <3>2. CASE \E u \in Threads : (Evicting(u) \/ Holding(u)) /\ th[u].frm = g
      <4>1. PICK u \in Threads : (Evicting(u) \/ Holding(u)) /\ th[u].frm = g
        BY <3>2, Zenon
      <4>2. u # t
        BY <1>2, <1>4, <4>1, Zenon DEF Touches
      <4> QED BY <1>1, <1>2, <4>1, <4>2, Zenon
    <3> QED BY <2>0, <3>1, <3>2, Zenon DEF OwnerInv
  <2>3. g \in fixed' /\ g >= FirstPage /\ pt_entry'[g] # NULL => \E u \in Threads : Pinning(u)' /\ th'[u].frm = g
    <3> SUFFICES ASSUME g \in fixed, g >= FirstPage, pt_entry[g] # NULL
                 PROVE  \E u \in Threads : Pinning(u)' /\ th'[u].frm = g
      BY <2>0, Zenon
    <3>1. PICK u \in Threads : Pinning(u) /\ th[u].frm = g
      BY <2>0, Zenon DEF OwnerInv
    <3>2. u # t
      BY <1>4, <3>1, Zenon DEF Touches
    <3> QED BY <1>1, <3>1, <3>2, Zenon
  <2>4. g \notin occ' \/ g < FirstPage => pt_entry'[g] = NULL
    BY <2>0, Zenon DEF OwnerInv
  <2> QED BY <2>1, <2>2, <2>3, <2>4, Zenon DEF OwnerInv
<1>5. ASSUME NEW p \in Procs PROVE RowInv(p)'
  <2> SUFFICES ASSUME row'[p] # NULL
               PROVE  /\ Private(row[p])' /\ row'[p] \notin kern'
                      /\ \A r \in Procs : row'[r] = row'[p] => r = p
    BY Zenon DEF RowInv
  <2>1. CASE row'[p] = f
    <3>1. Private(row[p])'
      <4>1. Private(f)'
        BY <2>1, Zenon
      <4> QED BY <2>1, <4>1, Zenon DEF Private
    <3> QED BY <2>1, <3>1, Zenon
  <2>2. CASE row'[p] # f
    <3>1. row'[p] = row[p] /\ row[p] \in Frames /\ RowInv(p) /\ row[p] # f
      BY <1>0, <2>2 DEF Touches, FrameInv
    <3>2. Private(row[p]) /\ row[p] \notin kern /\ \A r \in Procs : row[r] = row[p] => r = p
      BY <3>1, Zenon DEF RowInv
    <3>3. Private(row[p])'
      BY <3>1, <3>2, Zenon DEF Private, Touches
    <3>4. row'[p] \notin kern'
      BY <3>1, <3>2, Zenon DEF Touches
    <3>5. \A r \in Procs : row'[r] = row'[p] => r = p
      BY <3>1, <3>2, Zenon DEF Touches
    <3> QED BY <3>3, <3>4, <3>5, Zenon
  <2> QED BY <2>1, <2>2, Zenon
<1>6. \A g \in kern' : Private(g)'
  BY <1>0, <1>3, Zenon DEF FrameInv, Touches
<1>7. ASSUME NEW u \in Threads, u # t PROVE PinnedInv(u)'
  <2> SUFFICES ASSUME Pinning(u)'
      PROVE /\ th'[u].frm \in occ' \cap fixed' /\ th'[u].frm >= FirstPage
            /\ th'[u].frm \notin kern' /\ \A p \in Procs : row'[p] # th'[u].frm
            /\ Evicting(u)' => pt_entry'[th'[u].frm] = NULL \/ pt_entry'[th'[u].frm] \in swapping'
            /\ Holding(u)' => pt_entry'[th'[u].frm] = Entry(u)'
            /\ pc(u)' = "tlb" => pt_entry'[th'[u].frm] = <<u, th'[u].pg>>
    BY Zenon DEF PinnedInv
  <2>1. PICK g \in Frames \ {f} : g = th[u].frm
    BY <1>0, <1>1, <1>7, Zenon
  <2>2. /\ th'[u].frm = g /\ Pinning(u) /\ PinnedInv(u)
        /\ (Holding(u) => Entry(u)' = Entry(u))
        /\ (pc(u)' = "tlb" <=> pc(u) = "tlb") /\ (pc(u) = "tlb" => th'[u].pg = th[u].pg)
        /\ (Evicting(u)' <=> Evicting(u)) /\ (Holding(u)' <=> Holding(u))
    BY <1>0, <1>1, <1>7, <2>1, Zenon DEF PinInv
  <2>3. /\ g \in occ' /\ g \in fixed' /\ g >= FirstPage /\ g \notin kern'
        /\ \A p \in Procs : row'[p] # g
    <3>1. g \in occ /\ g \in fixed /\ g >= FirstPage /\ g \notin kern /\ \A p \in Procs : row[p] # g
      BY <2>1, <2>2, Zenon DEF PinnedInv
    <3> QED BY <1>0, <2>1, <3>1, Zenon DEF Touches
  <2>4. pt_entry'[g] = pt_entry[g] /\ (pt_entry[g] # NULL /\ pt_entry[g] \in swapping => pt_entry[g] \in swapping')
    BY <2>1, Zenon DEF Touches
  <2> QED BY <2>1, <2>2, <2>3, <2>4, Zenon DEF PinnedInv
<1>8. \A u \in Threads : PinnedInv(u)'
  BY <1>7, Zenon
<1>9. \A u, v \in Threads : Pinning(u)' /\ Pinning(v)' /\ th'[u].frm = th'[v].frm => u = v
  <2> SUFFICES ASSUME NEW u \in Threads, NEW v \in Threads, Pinning(u)', Pinning(v)', th'[u].frm = th'[v].frm, u # v
               PROVE  FALSE
    BY Zenon
  <2>1. CASE u # t /\ v # t
    BY <1>0, <1>1, <2>1, Zenon DEF PinInv
  <2>2. CASE u = t \/ v = t
    <3>1. \A w \in Threads \ {t} : Pinning(w)' => th'[w].frm # f
      BY <1>1, Zenon DEF Touches
    <3>2. Pinning(t)' => th'[t].frm = f
      BY Zenon DEF Touches
    <3> QED BY <2>2, <3>1, <3>2, Zenon
  <2> QED BY <2>1, <2>2, Zenon
<1>10. \A g \in Frames : OwnerInv(g)'
  BY <1>4, Zenon
<1>11. FrameInv'
  BY <1>5, <1>6, <1>10, Zenon DEF FrameInv
<1>12. PinInv'
  BY <1>8, <1>9, Zenon DEF PinInv
<1> QED BY <1>11, <1>12, Zenon

(* A page that is in another frame, or in none. *)
LEMMA PlacedAway ==
  ASSUME Inv, NEW t \in Threads, NEW f \in Frames, Touches(t, f), NEW e \in Entries, pt_entry[f] # e,
         Resident(e)' => Resident(e) /\ frame_no'[e] = frame_no[e], e \in swapping' => e \in swapping,
         Gone(e) => Gone(e)', Coming(e) => Coming(e)'
  PROVE  PlacedInv(e)'
<1>0. /\ PlacedInv(e) /\ PinInv /\ \A u \in Threads : th[u].frm \in Frames
      /\ Resident(e) => frame_no[e] \in Frames
  BY FrameSorts, Zenon DEF FrameInv
<1>1. Resident(e)' => Gone(e)' \/ Coming(e)' \/ pt_entry'[frame_no'[e]] = e
  BY <1>0, Zenon DEF PlacedInv, Touches
<1>2. e \in swapping' => Gone(e)' \/ \E u \in Threads : Evicting(u)' /\ pt_entry'[th'[u].frm] = e
  <2> SUFFICES ASSUME e \in swapping, ~Gone(e)
               PROVE  \E u \in Threads : Evicting(u)' /\ pt_entry'[th'[u].frm] = e
    BY Zenon
  <2>1. PICK u \in Threads : Evicting(u) /\ pt_entry[th[u].frm] = e
    BY <1>0, Zenon DEF PlacedInv
  <2>2. u # t /\ th[u].frm # f
    BY <2>1, Zenon DEF Touches, Pinning
  <2>3. Evicting(u)' /\ th'[u].frm = th[u].frm /\ pt_entry'[th[u].frm] = e
    BY <1>0, <2>1, <2>2, Zenon DEF Touches, SameRole, Pinning
  <2> QED BY <2>1, <2>3, Zenon
<1> QED BY <1>1, <1>2, Zenon DEF PlacedInv

(* Inside get_n_frames a thread keeps its request. *)
LEMMA RequestKept ==
  ASSUME NEW t \in Threads, \A u \in Threads \ {t} : th'[u] = th[u], ~Destroying(t), ~Destroying(t)',
         \/ th[t].for # "copy" /\ th'[t].for # "copy"
         \/ th'[t].for = th[t].for /\ th'[t].as = th[t].as /\ th'[t].pg = th[t].pg
  PROVE  \A e \in Entries : (Coming(e)' <=> Coming(e)) /\ (Gone(e)' <=> Gone(e))
<1>1. \A e \in Entries : Coming(e)' <=> Coming(e)
  BY ComingKept, Sorts, Zenon
<1>2. \A e \in Entries : Gone(e)' <=> Gone(e)
  BY GoneKept, Zenon
<1> QED BY <1>1, <1>2, Zenon

(* The entry for which a frame was asked. *)
LEMMA EntryOf ==
  ASSUME Inv, NEW t \in Threads, Asking(t) \/ Holding(t)
  PROVE  /\ Entry(t) \in Entries \cup {NULL}
         /\ Entry(t) # NULL => ~Resident(Entry(t)) \/ (Coming(Entry(t)) /\ frame_no[Entry(t)] = 0)
<1>1. /\ ThreadInv(t) /\ PageInv(t) /\ th[t] \in ThreadStates /\ (Asking(t) \/ pc(t) = "install")
      /\ Entries = Procs \X Pages
  BY FrameSorts, Sorts, Zenon DEF Asking, Holding
<1>2. CASE th[t].for \in {"row", "kern"}
  BY <1>2, Zenon DEF Entry
<1>3. CASE th[t].for = "copy"
  <2>1. t \in Procs /\ th[t].as \in Procs /\ th[t].pg \in Pages
    BY <1>1, <1>3, Sorts, Zenon DEF ThreadInv, ThreadStates
  <2>2. Coming(Entry(t)) /\ Entry(t) = <<th[t].as, th[t].pg>>
    BY <1>3, <2>1, Zenon DEF Coming, Entry
  <2> QED BY <1>1, <1>3, <2>1, <2>2 DEF PageInv
<1>4. CASE th[t].for \notin {"row", "kern", "copy"}
  <2>1. t \in Procs /\ th[t].pg \in Pages /\ th[t].for \in {"load", "swapin"}
    BY <1>1, <1>4, Sorts, Zenon DEF ThreadInv
  <2>2. Entry(t) = <<t, th[t].pg>>
    BY <1>4, Zenon DEF Entry
  <2>3. ~Resident(Entry(t))
    BY <1>1, <2>1, <2>2, Zenon DEF PageInv, ThreadInv, Resident
  <2> QED BY <1>1, <2>1, <2>2, <2>3
<1> QED BY <1>2, <1>3, <1>4, Zenon

(* get_n_frames takes a free frame. *)
LEMMA TakeFreeFrames ==
  ASSUME Inv, NEW t \in Threads, TakeFree(t)
  PROVE  BlockInv' /\ FrameInv' /\ PinInv'
<1>0. /\ FrameInv /\ PinInv /\ BlockInv
      /\ pt_entry \in [Frames -> Entries \cup {NULL}] /\ NULL \notin Entries
      /\ fixed \subseteq Frames /\ occ \subseteq Frames
      /\ kern \subseteq Frames /\ row \in [Procs -> Frames \cup {NULL}] /\ NULL \notin Frames
      /\ Asking(t) /\ ~Holding(t) /\ pc(t) = "alloc"
  BY FrameSorts, Zenon DEF TakeFree, Asking, Holding
<1>1. PICK f \in Frames : f = FirstFit(1) /\ f \notin occ /\ f >= FirstPage
  BY <1>0, Picks, Zenon DEF TakeFree
<1>2. Entry(t) \in Entries \cup {NULL} /\ Entry(t)' = Entry(t)
  BY <1>0, EntryOf, AllocateMoves, Zenon DEF MovesTo, Entry
<1>3. /\ BlockInv' /\ occ' = occ \cup {f} /\ fixed' = fixed \cup {f}
      /\ pt_entry' = [pt_entry EXCEPT ![f] = Entry(t)]
      /\ UNCHANGED <<frame_no, swp, swapping, valid, row, kern>>
  BY <1>0, <1>1, <1>2, TakeBlock, Zenon DEF TakeFree, pteVars
<1>4. /\ th'[t].pc = "got" /\ th'[t].frm = f /\ \A u \in Threads \ {t} : th'[u] = th[u]
      /\ th'[t].for = th[t].for /\ th'[t].pg = th[t].pg /\ th'[t].as = th[t].as
  BY <1>1, AllocateMoves, Zenon DEF MovesTo
<1>5. ~Pinning(t) /\ Pinning(t)' /\ Holding(t)' /\ ~Evicting(t)' /\ pc(t)' # "tlb"
      /\ ~Destroying(t) /\ ~Destroying(t)'
  BY <1>0, <1>4, Zenon DEF Pinning, Evicting, Holding, pc, Destroying
<1>6. \A e \in Entries : (Coming(e)' <=> Coming(e)) /\ (Gone(e)' <=> Gone(e)) /\ (Resident(e)' <=> Resident(e))
  BY <1>3, <1>4, <1>5, RequestKept, Zenon DEF Resident
<1>7. /\ pt_entry[f] = NULL /\ f \notin kern /\ \A p \in Procs : row[p] # f
      /\ \A u \in Threads : Pinning(u) => th[u].frm # f
  BY <1>0, <1>1, ZenonT(60) DEF FrameInv, OwnerInv, RowInv, Private, PinInv, PinnedInv
<1>8. Touches(t, f)
  <2>1. \A g \in Frames \ {f} : pt_entry[g] # NULL => pt_entry[g] \in Entries /\ pt_entry'[g] = pt_entry[g]
    BY <1>0, <1>3, Zenon
  <2>2. \A g \in Frames \ {f} : pt_entry'[g] = pt_entry[g]
    BY <1>0, <1>3, Zenon
  <2>3. \A u \in Threads \ {t} : SameRole(u)
    BY <1>4, SameThread, Zenon
  <2> QED BY <1>3, <1>4, <1>5, <1>6, <1>7, <2>1, <2>2, <2>3, Zenon DEF Touches
<1>9. ASSUME NEW e \in Entries PROVE PlacedInv(e)'
  BY <1>0, <1>3, <1>6, <1>7, <1>8, PlacedAway, Zenon
<1>10. pt_entry'[f] = Entry(t) /\ pt_entry'[f] = Entry(t)'
  BY <1>0, <1>2, <1>3, Zenon
<1>11. OwnerInv(f)'
  <2>1. \E u \in Threads : Holding(u)' /\ th'[u].frm = f /\ Entry(u)' = pt_entry'[f]
    BY <1>4, <1>5, <1>10, Zenon
  <2>2. f \in occ' /\ ~(f < FirstPage) /\ \E u \in Threads : Pinning(u)' /\ th'[u].frm = f
    BY <1>1, <1>3, <1>4, <1>5, Sorts, CoremapAssumption
  <2> QED BY <2>1, <2>2, Zenon DEF OwnerInv
<1>12. PinnedInv(t)'
  BY <1>1, <1>3, <1>4, <1>5, <1>7, <1>10, Zenon DEF PinnedInv
<1>13. FrameInv' /\ PinInv'
  BY <1>0, <1>1, <1>3, <1>7, <1>8, <1>9, <1>11, <1>12, AwayStep, Zenon
<1> QED BY <1>3, <1>13, Zenon

(* get_n_frames picks a victim and fixes it. *)
LEMMA StartSwapOutFrames ==
  ASSUME Inv, NEW t \in Threads, StartSwapOut(t)
  PROVE  BlockInv' /\ FrameInv' /\ PinInv'
<1>0. /\ FrameInv /\ PinInv /\ BlockInv
      /\ pt_entry \in [Frames -> Entries \cup {NULL}] /\ NULL \notin Entries
      /\ fixed \subseteq Frames /\ occ \subseteq Frames
      /\ kern \subseteq Frames /\ row \in [Procs -> Frames \cup {NULL}] /\ NULL \notin Frames
      /\ pc(t) = "alloc"
  BY FrameSorts, Zenon DEF StartSwapOut
<1>1. PICK f \in Frames : f = get_victim /\ Evictable(f)
  BY <1>0, Picks, Zenon DEF StartSwapOut
<1>2. f \in occ /\ f \notin fixed /\ f >= FirstPage /\ pt_entry[f] \in Entries /\ pt_entry[f] # NULL
      /\ Resident(pt_entry[f]) /\ frame_no[pt_entry[f]] = f /\ ~Gone(pt_entry[f])
  <2>1. f \in Nat /\ FirstPage \in Nat
    BY Sorts, CoremapAssumption, Zenon
  <2> QED BY <1>0, <1>1, <2>1, VictimResident DEF Evictable, FrameInv, OwnerInv
<1>3. /\ occ' = occ /\ fixed' = fixed \cup {f} /\ pt_entry' = pt_entry /\ nframes' = nframes
      /\ swapping' = swapping \cup {pt_entry[f]} /\ prev_victim' = f
      /\ UNCHANGED <<frame_no, swp, valid, row, kern>>
  BY <1>1, Zenon DEF StartSwapOut, MarkVictim
<1>4. /\ th'[t].pc = "swap" /\ th'[t].frm = f /\ \A u \in Threads \ {t} : th'[u] = th[u]
      /\ th'[t].for = th[t].for /\ th'[t].pg = th[t].pg /\ th'[t].as = th[t].as
  BY <1>1, AllocateMoves, Zenon DEF MovesTo
<1>5. ~Pinning(t) /\ Pinning(t)' /\ ~Holding(t)' /\ Evicting(t)' /\ pc(t)' # "tlb"
      /\ ~Destroying(t) /\ ~Destroying(t)'
  BY <1>0, <1>4, Zenon DEF Pinning, Evicting, Holding, pc, Destroying
<1>6. \A e \in Entries : (Coming(e)' <=> Coming(e)) /\ (Gone(e)' <=> Gone(e)) /\ (Resident(e)' <=> Resident(e))
  BY <1>3, <1>4, <1>5, RequestKept, Zenon DEF Resident
<1>7. /\ f \notin kern /\ \A p \in Procs : row[p] # f
      /\ \A u \in Threads : Pinning(u) => th[u].frm # f
  BY <1>0, <1>2, ZenonT(60) DEF FrameInv, RowInv, Private, PinInv, PinnedInv
<1>8. Touches(t, f)
  <2>1. \A g \in Frames \ {f} : pt_entry[g] # NULL => pt_entry[g] \in Entries
    BY <1>0, Zenon
  <2>2. \A u \in Threads \ {t} : SameRole(u)
    BY <1>4, SameThread, Zenon
  <2> QED BY <1>3, <1>4, <1>5, <1>6, <1>7, <2>1, <2>2, Zenon DEF Touches
<1>9. ASSUME NEW e \in Entries PROVE PlacedInv(e)'
  <2>1. CASE e # pt_entry[f]
    BY <1>0, <1>3, <1>6, <1>8, <2>1, PlacedAway, Zenon
  <2>2. CASE e = pt_entry[f]
    <3>1. pt_entry'[frame_no'[e]] = e /\ Evicting(t)' /\ pt_entry'[th'[t].frm] = e
      BY <1>2, <1>3, <1>4, <1>5, <2>2, Zenon
    <3> QED BY <3>1, Zenon DEF PlacedInv
  <2> QED BY <2>1, <2>2, Zenon
<1>11. OwnerInv(f)'
  <2>1. pt_entry'[f] = pt_entry[f] /\ Resident(pt_entry[f])' /\ frame_no'[pt_entry'[f]] = f /\ ~Gone(pt_entry[f])'
    <3>1. PICK e \in Entries : e = pt_entry[f] /\ e = pt_entry'[f]
      BY <1>2, <1>3, Zenon
    <3>2. Resident(e)' /\ ~Gone(e)' /\ frame_no'[e] = f
      BY <1>2, <1>3, <1>6, <3>1, Zenon
    <3> QED BY <3>1, <3>2, Zenon
  <2>2. f \in occ' /\ ~(f < FirstPage) /\ \E u \in Threads : Pinning(u)' /\ th'[u].frm = f
    BY <1>2, <1>3, <1>4, <1>5, Sorts, CoremapAssumption
  <2> QED BY <1>2, <2>1, <2>2, Zenon DEF OwnerInv
<1>12. PinnedInv(t)'
  BY <1>2, <1>3, <1>4, <1>5, <1>7, Zenon DEF PinnedInv
<1>13. FrameInv' /\ PinInv'
  BY <1>0, <1>1, <1>3, <1>7, <1>8, <1>9, <1>11, <1>12, AwayStep, Zenon
<1>14. BlockInv'
  BY <1>0, <1>2, <1>3, Zenon DEF BlockInv, CoremapTypeOK, Tiles, Merged
<1> QED BY <1>13, <1>14, Zenon

(* The victim's frame changes hands. *)
LEMMA EvictFrames ==
  ASSUME Inv, NEW t \in Threads, Evict(t)
  PROVE  BlockInv' /\ FrameInv' /\ PinInv'
<1>0. /\ FrameInv /\ PinInv /\ BlockInv /\ PinnedInv(t)
      /\ pt_entry \in [Frames -> Entries \cup {NULL}] /\ NULL \notin Entries
      /\ fixed \subseteq Frames /\ occ \subseteq Frames
      /\ kern \subseteq Frames /\ row \in [Procs -> Frames \cup {NULL}] /\ NULL \notin Frames
      /\ frame_no \in [Entries -> Frames \cup Slots]
      /\ Asking(t) /\ Evicting(t) /\ pc(t) = "evict"
  BY FrameSorts, Zenon DEF Evict, Asking, Evicting, PinInv
<1>1. PICK f \in Frames : f = th[t].frm
  BY FrameSorts, Zenon
<1>2. f \in occ /\ f \in fixed /\ f >= FirstPage /\ f \notin kern /\ \A p \in Procs : row[p] # f
  BY <1>0, <1>1, Zenon DEF PinnedInv, Pinning
<1>3. /\ pt_entry' = [pt_entry EXCEPT ![f] = Entry(t)] /\ UNCHANGED <<occ, fixed, nframes, prev_victim, valid, row, kern>>
      /\ IF pt_entry[f] # NULL
           THEN /\ frame_no' = [frame_no EXCEPT ![pt_entry[f]] = th[t].idx]
                /\ swp' = swp \cup {pt_entry[f]} /\ swapping' = swapping \ {pt_entry[f]}
           ELSE UNCHANGED <<frame_no, swp, swapping>>
  BY <1>1, Zenon DEF Evict, ReassignVictim, pteVars
<1>4. /\ th'[t].pc \in {"drop", "got"} /\ th'[t].frm = f /\ \A u \in Threads \ {t} : th'[u] = th[u]
      /\ th'[t].for = th[t].for /\ th'[t].pg = th[t].pg /\ th'[t].as = th[t].as
  BY <1>1, AllocateMoves, Zenon DEF MovesTo
<1>5. Pinning(t) /\ Pinning(t)' /\ Holding(t)' /\ ~Evicting(t)' /\ pc(t)' # "tlb"
      /\ ~Destroying(t) /\ ~Destroying(t)'
  BY <1>0, <1>4, Zenon DEF Pinning, Evicting, Holding, pc, Destroying
<1>6. \A e \in Entries : (Coming(e)' <=> Coming(e)) /\ (Gone(e)' <=> Gone(e))
  BY <1>4, <1>5, RequestKept, Zenon
<1>7. \A u \in Threads \ {t} : SameRole(u) /\ (Pinning(u) => th[u].frm # f)
  BY <1>0, <1>1, <1>4, <1>5, SameThread, Zenon DEF PinInv
<1>8. Entry(t) \in Entries \cup {NULL} /\ Entry(t)' = Entry(t) /\ pt_entry'[f] = Entry(t)
      /\ \A g \in Frames \ {f} : pt_entry'[g] = pt_entry[g]
  BY <1>0, <1>3, EntryOf, AllocateMoves, Zenon DEF MovesTo, Entry
<1>9. pt_entry[f] # NULL => /\ pt_entry[f] \in Entries /\ Resident(pt_entry[f]) /\ frame_no[pt_entry[f]] = f
                            /\ \A g \in Frames \ {f} : pt_entry[g] # pt_entry[f]
  <2> SUFFICES ASSUME pt_entry[f] # NULL
               PROVE  /\ pt_entry[f] \in Entries /\ Resident(pt_entry[f]) /\ frame_no[pt_entry[f]] = f
                      /\ \A g \in Frames \ {f} : pt_entry[g] # pt_entry[f]
    BY Zenon
  <2>1. PICK e \in Entries : e = pt_entry[f]
    BY <1>0, Zenon
  <2>2. Resident(e) /\ frame_no[e] = f
    BY <1>0, <1>1, <2>1, VictimStays, Zenon
  <2>3. ASSUME NEW g \in Frames, g # f, pt_entry[g] = e PROVE FALSE
    <3>1. OwnerInv(g)
      BY <1>0, Zenon DEF FrameInv
    <3>2. PICK u \in Threads : Holding(u) /\ Entry(u) = e
      BY <2>1, <2>2, <2>3, <3>1, Zenon DEF OwnerInv
    <3>3. f # 0
      BY <1>2, CoremapAssumption
    <3> QED BY <2>1, <2>2, <3>2, <3>3, EntryOf, Zenon
  <2> QED BY <2>1, <2>2, <2>3, Zenon
<1>10. ASSUME NEW e \in Entries, e # pt_entry[f]
       PROVE  (Resident(e)' <=> Resident(e)) /\ frame_no'[e] = frame_no[e] /\ (e \in swapping' <=> e \in swapping)
  BY <1>0, <1>3, <1>9, <1>10, Zenon DEF Resident
<1>11. Touches(t, f)
  <2>1. ASSUME NEW g \in Frames \ {f}, pt_entry[g] # NULL
        PROVE  /\ Resident(pt_entry[g]) /\ frame_no[pt_entry[g]] = g /\ ~Gone(pt_entry[g]) =>
                 Resident(pt_entry[g])' /\ frame_no'[pt_entry[g]] = g /\ ~Gone(pt_entry[g])'
               /\ pt_entry[g] \in swapping => pt_entry[g] \in swapping'
    <3>1. PICK e \in Entries : e = pt_entry[g] /\ e = pt_entry'[g]
      BY <1>0, <1>8, <2>1, Zenon
    <3>2. e # pt_entry[f]
      BY <1>9, <2>1, <3>1, Zenon
    <3>3. /\ Resident(e) /\ frame_no[e] = g /\ ~Gone(e) => Resident(e)' /\ frame_no'[e] = g /\ ~Gone(e)'
          /\ e \in swapping => e \in swapping'
      BY <1>6, <1>10, <3>2, Zenon
    <3> QED BY <3>1, <3>3, Zenon
  <2> QED BY <1>1, <1>3, <1>4, <1>5, <1>7, <1>8, <2>1, Zenon DEF Touches
<1>12. ASSUME NEW e \in Entries PROVE PlacedInv(e)'
  <2>1. CASE e # pt_entry[f]
    BY <1>6, <1>10, <1>11, <2>1, PlacedAway, Zenon
  <2>2. CASE e = pt_entry[f]
    <3>1. e \in swp' /\ e \notin swapping'
      BY <1>0, <1>3, <2>2, Zenon
    <3> QED BY <3>1, Zenon DEF PlacedInv, Resident
  <2> QED BY <2>1, <2>2, Zenon
<1>13. OwnerInv(f)'
  <2>1. \E u \in Threads : Holding(u)' /\ th'[u].frm = f /\ Entry(u)' = pt_entry'[f]
    BY <1>4, <1>5, <1>8, Zenon
  <2>2. f \in occ' /\ ~(f < FirstPage) /\ \E u \in Threads : Pinning(u)' /\ th'[u].frm = f
    BY <1>2, <1>3, <1>4, <1>5, Sorts, CoremapAssumption
  <2> QED BY <2>1, <2>2, Zenon DEF OwnerInv
<1>14. PinnedInv(t)'
  BY <1>2, <1>3, <1>4, <1>5, <1>8, Zenon DEF PinnedInv
<1>15. FrameInv' /\ PinInv'
  BY <1>0, <1>2, <1>3, <1>11, <1>12, <1>13, <1>14, AwayStep, Zenon
<1>16. BlockInv'
  <2>1. pt_entry' \in [Frames -> Entries \cup {NULL}]
    BY <1>0, <1>3, <1>8, Zenon
  <2> QED BY <1>0, <1>3, <2>1, SameBlocks, Zenon
<1> QED BY <1>15, <1>16, Zenon

(* vm_fault finds the page in memory and fixes its frame. *)
LEMMA ReloadFrames ==
  ASSUME Inv, ~IOErrors, NEW t \in Procs, tlb_reload(t)
  PROVE  BlockInv' /\ FrameInv' /\ PinInv'
<1> DEFINE q == th[t].pg
<1>0. /\ t \in Threads /\ FrameInv /\ PinInv /\ BlockInv /\ ThreadInv(t)
      /\ pt_entry \in [Frames -> Entries \cup {NULL}] /\ NULL \notin Entries
      /\ fixed \subseteq Frames /\ occ \subseteq Frames
      /\ kern \subseteq Frames /\ row \in [Procs -> Frames \cup {NULL}] /\ NULL \notin Frames
      /\ pc(t) = "fault" /\ Resident(<<t, q>>) /\ <<t, q>> \notin swapping
  BY FrameSorts, Sorts, Zenon DEF tlb_reload, Usable
<1>1. q \in Pages /\ <<t, q>> \in Entries /\ <<t, q>>[1] = t /\ <<t, q>> # NULL /\ th[t].for # "copy"
  BY <1>0, Sorts DEF ThreadInv, Asking
<1>2. PICK f \in Frames : f = frame_no[<<t, q>>] /\ pt_entry[f] = <<t, q>> /\ f \in occ /\ f >= FirstPage
  BY <1>0, <1>1, LivePage, Zenon
<1>3. fixed' = fixed \cup {f} /\ UNCHANGED <<occ, nframes, pt_entry, prev_victim, frame_no, swp, swapping, valid, row, kern>>
  BY <1>2, Zenon DEF tlb_reload, coremap_set_fixed, pteVars
<1>4. /\ th'[t].pc = "tlb" /\ th'[t].frm = f /\ \A u \in Threads \ {t} : th'[u] = th[u]
      /\ th'[t].for = th[t].for /\ th'[t].pg = q
  BY <1>2, HandleMoves, Zenon DEF MovesTo
<1>5. ~Pinning(t) /\ Pinning(t)' /\ ~Holding(t)' /\ ~Evicting(t)' /\ pc(t)' = "tlb"
      /\ ~Destroying(t) /\ ~Destroying(t)'
  BY <1>0, <1>4, Zenon DEF Pinning, Evicting, Holding, pc, Destroying
<1>6. \A e \in Entries : (Coming(e)' <=> Coming(e)) /\ (Gone(e)' <=> Gone(e)) /\ (Resident(e)' <=> Resident(e))
  BY <1>0, <1>1, <1>3, <1>4, <1>5, RequestKept, Zenon DEF Resident
<1>7. \A u \in Threads \ {t} : SameRole(u) /\ (Pinning(u) => th[u].frm # f)
  BY <1>0, <1>1, <1>2, <1>4, SameThread, LivePins, Zenon
<1>8. f \notin kern /\ \A p \in Procs : row[p] # f
  BY <1>0, <1>1, <1>2, Zenon DEF FrameInv, RowInv, Private
<1>9. Touches(t, f)
  <2>1. \A g \in Frames \ {f} : pt_entry[g] # NULL => pt_entry[g] \in Entries
    BY <1>0, Zenon
  <2> QED BY <1>0, <1>3, <1>4, <1>5, <1>6, <1>7, <2>1, Zenon DEF Touches
<1>10. ASSUME NEW e \in Entries PROVE PlacedInv(e)'
  <2>1. CASE e # pt_entry[f]
    BY <1>0, <1>3, <1>6, <1>9, <2>1, PlacedAway, Zenon
  <2>2. CASE e = pt_entry[f]
    <3>1. pt_entry'[frame_no'[e]] = e /\ e \notin swapping'
      BY <1>0, <1>2, <1>3, <2>2, Zenon
    <3> QED BY <3>1, Zenon DEF PlacedInv
  <2> QED BY <2>1, <2>2, Zenon
<1>11. OwnerInv(f)'
  <2>1. pt_entry'[f] # NULL /\ Resident(pt_entry[f])' /\ frame_no'[pt_entry'[f]] = f /\ ~Gone(pt_entry[f])'
    <3>1. PICK e \in Entries : e = <<t, q>> /\ e = pt_entry[f] /\ e = pt_entry'[f]
      BY <1>1, <1>2, <1>3, Zenon
    <3>2. ~Gone(e)
      BY <1>0, <1>1, <3>1, LiveOwner, Zenon
    <3>3. Resident(e)' /\ ~Gone(e)' /\ frame_no'[e] = f
      BY <1>0, <1>2, <1>3, <1>6, <3>1, <3>2, Zenon
    <3> QED BY <1>1, <3>1, <3>3, Zenon
  <2>2. f \in occ' /\ ~(f < FirstPage) /\ \E u \in Threads : Pinning(u)' /\ th'[u].frm = f
    BY <1>0, <1>2, <1>3, <1>4, <1>5, Sorts, CoremapAssumption
  <2> QED BY <2>1, <2>2, Zenon DEF OwnerInv
<1>12. PinnedInv(t)'
  BY <1>2, <1>3, <1>4, <1>5, <1>8, Zenon DEF PinnedInv
<1>13. FrameInv' /\ PinInv'
  BY <1>0, <1>3, <1>8, <1>9, <1>10, <1>11, <1>12, AwayStep, Zenon
<1>14. BlockInv'
  BY <1>0, <1>3, SameBlocks, Zenon
<1> QED BY <1>13, <1>14, Zenon

(* A page that is being swapped out and not destroyed is in memory. *)
LEMMA SwappingResident ==
  ASSUME Inv, NEW e \in Entries, e \in swapping, ~Gone(e)
  PROVE  /\ Resident(e) /\ frame_no[e] \in Frames /\ frame_no[e] >= FirstPage
         /\ \E u \in Threads : Evicting(u) /\ th[u].frm = frame_no[e]
<1>1. PICK u \in Threads : Evicting(u) /\ pt_entry[th[u].frm] = e
  BY FrameSorts, Zenon DEF FrameInv, PlacedInv
<1>2. e # NULL
  BY Sorts, Zenon
<1> QED BY <1>1, <1>2, VictimStays, Zenon

(* load_frame and load_from_swap store the new frame in the entry. *)
LEMMA InstallFrames ==
  ASSUME Inv, ~IOErrors, NEW t \in Procs, load_frame(t) \/ Install(t)
  PROVE  BlockInv' /\ FrameInv' /\ PinInv'
<1> DEFINE q == th[t].pg
<1>0. /\ t \in Threads /\ FrameInv /\ PinInv /\ BlockInv /\ ThreadInv(t) /\ PageInv(t) /\ PinnedInv(t)
      /\ pt_entry \in [Frames -> Entries \cup {NULL}] /\ NULL \notin Entries
      /\ fixed \subseteq Frames /\ occ \subseteq Frames /\ swapping \subseteq valid /\ swp \subseteq valid
      /\ kern \subseteq Frames /\ row \in [Procs -> Frames \cup {NULL}] /\ NULL \notin Frames
      /\ frame_no \in [Entries -> Frames \cup Slots]
      /\ pc(t) \in {"got", "install"} /\ Holding(t) /\ Pinning(t)
  BY FrameSorts, Sorts, Zenon DEF load_frame, Install, Holding, Pinning, PinInv, EntryInv
<1>1. /\ th[t].for \in {"load", "swapin"} /\ (Asking(t) \/ pc(t) = "install")
      /\ q \in Pages /\ <<t, q>> \in Entries /\ <<t, q>>[1] = t /\ <<t, q>> # NULL
  <2>1. th[t].for \in {"load", "swapin"} /\ (Asking(t) \/ pc(t) = "install") /\ q \in Pages
    BY <1>0, Zenon DEF ThreadInv, Asking, load_frame, Install
  <2>2. <<t, q>> \in Entries /\ <<t, q>>[1] = t
    BY <2>1, Sorts
  <2> QED BY <1>0, <2>1, <2>2, Zenon
<1>2. PICK e \in Entries : e = <<t, q>> /\ Entry(t) = e /\ e[1] = t
  BY <1>1, <1>0, Zenon DEF Entry, ThreadInv
<1>3. PICK f \in Frames : f = th[t].frm /\ pt_entry[f] = e /\ f \in occ /\ f \in fixed /\ f >= FirstPage
                          /\ f \notin kern /\ \A p \in Procs : row[p] # f
  BY <1>0, <1>2, FrameSorts, Zenon DEF PinnedInv
<1>4. ~Resident(e) /\ ~Gone(e) /\ ~Coming(e) /\ e \notin swapping
  <2>1. ~Gone(e) /\ ~Coming(e)
    BY <1>0, <1>2, LiveOwner, Zenon
  <2>2. ~Resident(e)
    BY <1>0, <1>2, <2>1, EntryOf, ZenonT(60)
  <2> QED BY <2>1, <2>2, SwappingResident, Zenon
<1>5. /\ frame_no' = [frame_no EXCEPT ![e] = f] /\ valid' = valid \cup {e} /\ swp' = swp \ {e}
      /\ UNCHANGED <<occ, fixed, pt_entry, nframes, prev_victim, swapping, row, kern>>
  <2>1. CASE load_frame(t)
    <3>1. e \notin valid
      BY <1>0, <1>2, <2>1, Zenon DEF PageInv, load_frame, Asking
    <3> QED BY <1>0, <1>2, <1>3, <2>1, <3>1, Zenon DEF load_frame, cmVars
  <2>2. CASE Install(t)
    <3>1. e \in swp
      BY <1>0, <1>2, <2>2, Zenon DEF PageInv, Install
    <3> QED BY <1>0, <1>2, <1>3, <2>2, <3>1 DEF Install, cmVars
  <2> QED BY <2>1, <2>2, Zenon
<1>6. /\ th'[t].pc = "tlb" /\ th'[t].frm = f /\ \A u \in Threads \ {t} : th'[u] = th[u]
      /\ th'[t].pg = q /\ th'[t].for = th[t].for /\ th'[t].as = th[t].as
  BY <1>3, HandleMoves, Zenon DEF MovesTo, load_frame
<1>7. Pinning(t)' /\ ~Holding(t)' /\ ~Evicting(t)' /\ pc(t)' = "tlb" /\ ~Destroying(t) /\ ~Destroying(t)'
  BY <1>0, <1>6, Zenon DEF Pinning, Evicting, Holding, pc, Destroying
<1>8. \A x \in Entries : (Coming(x)' <=> Coming(x)) /\ (Gone(x)' <=> Gone(x))
  BY <1>0, <1>6, <1>7, RequestKept, Zenon
<1>9. \A u \in Threads \ {t} : SameRole(u) /\ (Pinning(u) => th[u].frm # f)
  BY <1>0, <1>3, <1>6, SameThread, Zenon DEF PinInv
<1>10. \A x \in Entries : x # e => (Resident(x)' <=> Resident(x)) /\ frame_no'[x] = frame_no[x]
  BY <1>0, <1>5, Zenon DEF Resident
<1>11. Resident(e)' /\ frame_no'[e] = f
  BY <1>0, <1>5, Zenon DEF Resident
<1>12. Touches(t, f)
  <2>1. ASSUME NEW g \in Frames \ {f}, pt_entry[g] # NULL, Resident(pt_entry[g]), frame_no[pt_entry[g]] = g, ~Gone(pt_entry[g])
        PROVE  Resident(pt_entry[g])' /\ frame_no'[pt_entry[g]] = g /\ ~Gone(pt_entry[g])'
    <3>1. PICK x \in Entries : x = pt_entry[g] /\ x = pt_entry'[g]
      BY <1>0, <1>5, <2>1, Zenon
    <3>2. x # e
      BY <1>4, <2>1, <3>1, Zenon
    <3>3. Resident(x)' /\ frame_no'[x] = g /\ ~Gone(x)'
      BY <1>8, <1>10, <2>1, <3>1, <3>2, Zenon
    <3> QED BY <3>1, <3>3, Zenon
  <2> QED BY <1>3, <1>5, <1>6, <1>7, <1>9, <2>1, Zenon DEF Touches
<1>13. ASSUME NEW x \in Entries PROVE PlacedInv(x)'
  <2>1. CASE x # e
    BY <1>0, <1>3, <1>5, <1>8, <1>10, <1>12, <2>1, PlacedAway, Zenon
  <2>2. CASE x = e
    <3>1. pt_entry'[frame_no'[x]] = x /\ x \notin swapping'
      BY <1>3, <1>4, <1>5, <1>11, <2>2, Zenon
    <3> QED BY <3>1, Zenon DEF PlacedInv
  <2> QED BY <2>1, <2>2, Zenon
<1>14. OwnerInv(f)'
  <2>1. pt_entry'[f] # NULL /\ Resident(pt_entry[f])' /\ frame_no'[pt_entry'[f]] = f /\ ~Gone(pt_entry[f])'
    <3>1. e = pt_entry'[f] /\ ~Gone(e)'
      BY <1>3, <1>4, <1>5, <1>8, Zenon
    <3> QED BY <1>0, <1>11, <3>1, Zenon
  <2>2. f \in occ' /\ ~(f < FirstPage) /\ \E u \in Threads : Pinning(u)' /\ th'[u].frm = f
    BY <1>0, <1>3, <1>5, <1>6, <1>7, Sorts, CoremapAssumption
  <2> QED BY <2>1, <2>2, Zenon DEF OwnerInv
<1>15. PinnedInv(t)'
  BY <1>2, <1>3, <1>5, <1>6, <1>7, Zenon DEF PinnedInv
<1>16. FrameInv' /\ PinInv'
  BY <1>0, <1>3, <1>5, <1>12, <1>13, <1>14, <1>15, AwayStep, Zenon
<1>17. BlockInv'
  BY <1>0, <1>5, SameBlocks, Zenon
<1> QED BY <1>16, <1>17, Zenon

(* The end of vm_fault unfixes the frame. *)
LEMMA FillTlbFrames ==
  ASSUME Inv, ~IOErrors, NEW t \in Procs, FillTlb(t)
  PROVE  BlockInv' /\ FrameInv' /\ PinInv'
<1> DEFINE q == th[t].pg
<1>0. /\ t \in Threads /\ FrameInv /\ PinInv /\ BlockInv /\ ThreadInv(t) /\ PageInv(t) /\ PinnedInv(t)
      /\ pt_entry \in [Frames -> Entries \cup {NULL}] /\ NULL \notin Entries
      /\ fixed \subseteq Frames /\ occ \subseteq Frames
      /\ kern \subseteq Frames /\ row \in [Procs -> Frames \cup {NULL}] /\ NULL \notin Frames
      /\ pc(t) = "tlb" /\ ~Holding(t) /\ ~Evicting(t) /\ Pinning(t)
  BY FrameSorts, Sorts, Zenon DEF FillTlb, Holding, Evicting, Pinning, PinInv
<1>1. q \in Pages /\ <<t, q>> \in Entries /\ <<t, q>>[1] = t /\ th[t].for # "copy"
  BY <1>0, Sorts, Zenon DEF ThreadInv, Asking
<1>2. PICK e \in Entries : e = <<t, q>> /\ e[1] = t
  BY <1>1, Zenon
<1>3. PICK f \in Frames : f = th[t].frm /\ pt_entry[f] = e /\ f \in occ /\ f >= FirstPage
                          /\ f \notin kern /\ \A p \in Procs : row[p] # f
  BY <1>0, <1>2, FrameSorts, Zenon DEF PinnedInv
<1>4. Resident(e) /\ frame_no[e] = f /\ ~Gone(e) /\ e \notin swapping
  <2>1. ~Gone(e)
    BY <1>0, <1>2, LiveOwner, Zenon
  <2>2. Resident(e) /\ frame_no[e] = f
    BY <1>0, <1>2, <1>3, Zenon DEF PageInv, Resident
  <2>3. e \notin swapping
    <3> SUFFICES ASSUME e \in swapping PROVE FALSE
      BY Zenon
    <3>1. PICK u \in Threads : Evicting(u) /\ th[u].frm = f
      BY <2>1, <2>2, SwappingResident, Zenon
    <3> QED BY <1>0, <1>3, <3>1, Zenon DEF PinInv, Pinning
  <2> QED BY <2>1, <2>2, <2>3, Zenon
<1>5. fixed' = fixed \ {f} /\ UNCHANGED <<occ, pt_entry, nframes, prev_victim, frame_no, valid, swp, swapping, row, kern>>
  BY <1>3, Zenon DEF FillTlb, coremap_set_unfixed, pteVars
<1>6. th'[t].pc = "user" /\ th'[t].for = "none" /\ \A u \in Threads \ {t} : th'[u] = th[u]
  BY HandleMoves, Zenon DEF MovesTo
<1>7. ~Pinning(t)' /\ ~Destroying(t) /\ ~Destroying(t)'
  BY <1>0, <1>6, Zenon DEF Pinning, Evicting, Holding, pc, Destroying
<1>8. \A x \in Entries : (Coming(x)' <=> Coming(x)) /\ (Gone(x)' <=> Gone(x)) /\ (Resident(x)' <=> Resident(x))
  BY <1>0, <1>1, <1>5, <1>6, <1>7, RequestKept, Zenon DEF Resident
<1>9. \A u \in Threads \ {t} : SameRole(u) /\ (Pinning(u) => th[u].frm # f)
  BY <1>0, <1>3, <1>6, SameThread, Zenon DEF PinInv
<1>10. Touches(t, f)
  <2>1. \A g \in Frames \ {f} : pt_entry[g] # NULL => pt_entry[g] \in Entries
    BY <1>0, Zenon
  <2> QED BY <1>3, <1>5, <1>7, <1>8, <1>9, <2>1, Zenon DEF Touches
<1>11. ASSUME NEW x \in Entries PROVE PlacedInv(x)'
  <2>1. CASE x # e
    BY <1>0, <1>3, <1>5, <1>8, <1>10, <2>1, PlacedAway, Zenon
  <2>2. CASE x = e
    <3>1. pt_entry'[frame_no'[x]] = x /\ x \notin swapping'
      BY <1>3, <1>4, <1>5, <2>2, Zenon
    <3> QED BY <3>1, Zenon DEF PlacedInv
  <2> QED BY <2>1, <2>2, Zenon
<1>12. OwnerInv(f)'
  <2>1. pt_entry'[f] # NULL /\ Resident(pt_entry[f])' /\ frame_no'[pt_entry'[f]] = f /\ ~Gone(pt_entry[f])'
    <3>1. e = pt_entry'[f] /\ ~Gone(e)' /\ Resident(e)' /\ frame_no'[e] = f
      BY <1>3, <1>4, <1>5, <1>8, Zenon
    <3> QED BY <1>0, <3>1, Zenon
  <2>2. f \in occ' /\ ~(f < FirstPage) /\ f \notin fixed'
    BY <1>0, <1>3, <1>5, Sorts, CoremapAssumption
  <2> QED BY <2>1, <2>2, Zenon DEF OwnerInv
<1>13. PinnedInv(t)'
  BY <1>7, Zenon DEF PinnedInv
<1>14. FrameInv' /\ PinInv'
  BY <1>0, <1>3, <1>5, <1>10, <1>11, <1>12, <1>13, AwayStep, Zenon
<1>15. BlockInv'
  BY <1>0, <1>5, SameBlocks, Zenon
<1> QED BY <1>14, <1>15, Zenon

(* alloc_kpages and init_rows keep the frame for the kernel. *)
LEMMA KeepFrames ==
  ASSUME Inv, ~IOErrors, NEW t \in Threads, (t = KernelThread /\ GotKernel) \/ init_rows(t)
  PROVE  BlockInv' /\ FrameInv' /\ PinInv'
<1>0. /\ FrameInv /\ PinInv /\ BlockInv /\ ThreadInv(t) /\ PageInv(t) /\ PinnedInv(t)
      /\ pt_entry \in [Frames -> Entries \cup {NULL}] /\ NULL \notin Entries
      /\ fixed \subseteq Frames /\ occ \subseteq Frames /\ th[t] \in ThreadStates
      /\ kern \subseteq Frames /\ row \in [Procs -> Frames \cup {NULL}] /\ NULL \notin Frames
      /\ pc(t) = "got" /\ Asking(t) /\ Holding(t) /\ ~Evicting(t) /\ Pinning(t)
  BY FrameSorts, Zenon DEF GotKernel, init_rows, Asking, Holding, Evicting, Pinning, PinInv
<1>1. th[t].for \in {"row", "kern"}
  BY <1>0, Zenon DEF init_rows, ThreadInv
<1>2. Entry(t) = NULL
  BY <1>1, Zenon DEF Entry
<1>3. PICK f \in Frames : f = th[t].frm /\ pt_entry[f] = NULL /\ f \in occ /\ f \in fixed /\ f >= FirstPage
                          /\ f \notin kern /\ \A p \in Procs : row[p] # f
  BY <1>0, <1>2, FrameSorts, Zenon DEF PinnedInv
<1>4. UNCHANGED <<occ, fixed, pt_entry, nframes, prev_victim, frame_no, valid, swp, swapping>>
  BY Zenon DEF GotKernel, init_rows, cmVars, pteVars
<1>5. \/ kern' = kern \cup {f} /\ row' = row
      \/ kern' = kern /\ \E x \in Procs : row[x] = NULL /\ row' = [row EXCEPT ![x] = f]
  <2>1. CASE t = KernelThread /\ GotKernel
    BY <1>3, <2>1, Zenon DEF GotKernel
  <2>2. CASE init_rows(t)
    <3>1. PICK x : x = IF th[t].as = NULL THEN t ELSE th[t].as
      BY Zenon
    <3>2. x \in Procs /\ row[x] = NULL
      BY <1>0, <2>2, <3>1, Sorts, Zenon DEF init_rows, ThreadInv, PageInv, ThreadStates
    <3> QED BY <1>3, <2>2, <3>1, <3>2, Zenon DEF init_rows
  <2> QED BY <2>1, <2>2, Zenon
<1>6. th'[t].pc \in {"user", "fault", "copy"} /\ th'[t].for = "none" /\ \A u \in Threads \ {t} : th'[u] = th[u]
  BY OtherMoves, Zenon DEF MovesTo
<1>7. ~Pinning(t)' /\ ~Destroying(t) /\ ~Destroying(t)'
  BY <1>0, <1>6, Zenon DEF Pinning, Evicting, Holding, pc, Destroying
<1>8. \A x \in Entries : (Coming(x)' <=> Coming(x)) /\ (Gone(x)' <=> Gone(x)) /\ (Resident(x)' <=> Resident(x))
  BY <1>1, <1>4, <1>6, <1>7, RequestKept, Zenon DEF Resident
<1>9. \A u \in Threads \ {t} : SameRole(u) /\ (Pinning(u) => th[u].frm # f)
  BY <1>0, <1>3, <1>6, SameThread, Zenon DEF PinInv
<1>10. Touches(t, f)
  <2>1. \A g \in Frames \ {f} : pt_entry[g] # NULL => pt_entry[g] \in Entries
    BY <1>0, Zenon
  <2>2. \A g \in Frames \ {f} : g \in kern' <=> g \in kern
    BY <1>5, Zenon
  <2>3. \A p \in Procs : row'[p] = row[p] \/ (row[p] \in {NULL, f} /\ row'[p] \in {NULL, f})
    BY <1>0, <1>5, Zenon
  <2> QED BY <1>3, <1>4, <1>7, <1>8, <1>9, <2>1, <2>2, <2>3, Zenon DEF Touches
<1>11. ASSUME NEW x \in Entries PROVE PlacedInv(x)'
  BY <1>0, <1>3, <1>4, <1>8, <1>10, PlacedAway, Zenon
<1>12. OwnerInv(f)'
  <2>1. pt_entry'[f] = NULL /\ (f \in kern' \/ \E p \in Procs : row'[p] = f)
    BY <1>0, <1>3, <1>4, <1>5, Zenon
  <2> QED BY <2>1, Zenon DEF OwnerInv
<1>13. PinnedInv(t)'
  BY <1>7, Zenon DEF PinnedInv
<1>14. Private(f)'
  BY <1>3, <1>4, Zenon DEF Private
<1>15. kern' \subseteq Frames /\ (f \in kern' => \A p \in Procs : row'[p] # f)
       /\ \A p, r \in Procs : row'[p] = f => (row'[r] = f => r = p)
  BY <1>0, <1>3, <1>5, Zenon
<1>16. FrameInv' /\ PinInv'
  BY <1>0, <1>4, <1>10, <1>11, <1>12, <1>13, <1>14, <1>15, AwayStep, Zenon
<1>17. BlockInv'
  BY <1>0, <1>4, SameBlocks, Zenon
<1> QED BY <1>16, <1>17, Zenon

(* free_kpages. *)
LEMMA FreeKernelFrames ==
  ASSUME Inv, NEW f \in Frames, FreeKernel(f)
  PROVE  BlockInv' /\ FrameInv' /\ PinInv'
<1> DEFINE t == KernelThread
<1>0. /\ t \in Threads /\ FrameInv /\ PinInv /\ BlockInv
      /\ pt_entry \in [Frames -> Entries \cup {NULL}] /\ NULL \notin Entries
      /\ fixed \subseteq Frames /\ occ \subseteq Frames
      /\ kern \subseteq Frames /\ row \in [Procs -> Frames \cup {NULL}] /\ NULL \notin Frames
      /\ pc(t) = "user" /\ f \in kern
  BY FrameSorts, Sorts, Zenon DEF FreeKernel
<1>1. f \in occ /\ f \in fixed /\ f >= FirstPage /\ pt_entry[f] = NULL /\ \A p \in Procs : row[p] # f
  BY <1>0, Zenon DEF FrameInv, Private, RowInv
<1>2. /\ BlockInv' /\ occ' = occ \ {f} /\ fixed' = fixed \ {f}
      /\ pt_entry' = [pt_entry EXCEPT ![f] = NULL] /\ kern' = kern \ {f}
      /\ UNCHANGED <<frame_no, swp, swapping, valid, row, th>>
  BY <1>0, <1>1, FreeBlock, Zenon DEF FreeKernel, pteVars
<1>3. ~Pinning(t) /\ ~Pinning(t)'
  BY <1>0, <1>2, Zenon DEF Pinning, Evicting, Holding, pc
<1>4. \A x \in Entries : (Coming(x)' <=> Coming(x)) /\ (Gone(x)' <=> Gone(x)) /\ (Resident(x)' <=> Resident(x))
  <2>1. \A x \in Entries : Coming(x)' <=> Coming(x)
    BY <1>2, ComingKept, Zenon
  <2>2. \A x \in Entries : Gone(x)' <=> Gone(x)
    BY <1>2, GoneKept, Zenon
  <2> QED BY <1>2, <2>1, <2>2, Zenon DEF Resident
<1>5. \A u \in Threads \ {t} : SameRole(u) /\ (Pinning(u) => th[u].frm # f)
  BY <1>0, <1>2, SameThread, Zenon DEF PinInv, PinnedInv
<1>6. pt_entry'[f] = NULL /\ \A g \in Frames \ {f} : pt_entry'[g] = pt_entry[g] /\ (pt_entry[g] # NULL => pt_entry[g] \in Entries)
  BY <1>0, <1>2, Zenon
<1>7. Touches(t, f)
  BY <1>2, <1>3, <1>4, <1>5, <1>6, Zenon DEF Touches
<1>8. ASSUME NEW x \in Entries PROVE PlacedInv(x)'
  BY <1>0, <1>1, <1>2, <1>4, <1>7, PlacedAway, Zenon
<1>9. OwnerInv(f)' /\ PinnedInv(t)'
  <2>1. f \notin occ'
    BY <1>2, Zenon
  <2> QED BY <1>3, <1>6, <2>1, Zenon DEF OwnerInv, PinnedInv
<1>10. FrameInv' /\ PinInv'
  BY <1>0, <1>1, <1>2, <1>7, <1>8, <1>9, AwayStep, Zenon
<1> QED BY <1>2, <1>10, Zenon

-----------------------------------------------------------------------------
(* The frames: fork and pt_destroy.                                         *)

(* The table that t is building or destroying is nobody else's. *)
LEMMA OwnTable ==
  ASSUME Inv, NEW t \in Threads, NEW c \in Procs, th[t].as = c
  PROVE  /\ \A u \in Threads : th[u].as = c => u = t
         /\ \A e \in Entries : e[1] = c /\ Gone(e) => Destroying(t)
         /\ \A e \in Entries : e[1] = c /\ Coming(e) => th[t].for = "copy"
         /\ c # t /\ c \in Threads /\ pc(c) = "none"
<1>0. c # NULL /\ c \in Threads /\ ThreadInv(t) /\ ThreadInv(c)
  BY Sorts, Zenon DEF Inv, ControlInv
<1>1. \A u \in Threads : th[u].as = c => u = t
  BY <1>0, Zenon DEF Inv, ControlInv
<1>2. \A e \in Entries : e[1] = c /\ Gone(e) => Destroying(t)
  BY <1>1, Zenon DEF Gone
<1>3. ASSUME NEW e \in Entries, e[1] = c, Coming(e) PROVE th[t].for = "copy"
  <2>1. PICK p \in Procs : th[p].for = "copy" /\ Entry(p) = e
    BY <1>3, Zenon DEF Coming
  <2>2. th[p].as = c
    BY <1>3, <2>1, Zenon DEF Entry
  <2> QED BY <1>1, <2>1, <2>2, Sorts, Zenon
<1>4. c # t /\ pc(c) = "none"
  BY <1>0, Zenon DEF ThreadInv
<1> QED BY <1>0, <1>1, <1>2, <1>3, <1>4, Zenon

(* pt_copy stores the frame of the copy and unfixes it. *)
LEMMA CopyFrameFrames ==
  ASSUME Inv, NEW t \in Procs, CopyFrame(t)
  PROVE  BlockInv' /\ FrameInv' /\ PinInv'
<1> DEFINE q == th[t].pg
<1>0. /\ t \in Threads /\ FrameInv /\ PinInv /\ BlockInv /\ ThreadInv(t) /\ PageInv(t) /\ PinnedInv(t)
      /\ pt_entry \in [Frames -> Entries \cup {NULL}] /\ NULL \notin Entries /\ th[t] \in ThreadStates
      /\ fixed \subseteq Frames /\ occ \subseteq Frames /\ frame_no \in [Entries -> Frames \cup Slots]
      /\ kern \subseteq Frames /\ row \in [Procs -> Frames \cup {NULL}] /\ NULL \notin Frames
      /\ pc(t) = "got" /\ th[t].for = "copy" /\ Holding(t) /\ Pinning(t) /\ Asking(t) /\ ~Destroying(t)
  BY FrameSorts, Sorts, Zenon DEF CopyFrame, Holding, Pinning, PinInv, Asking, Destroying
<1>1. PICK c \in Procs : c = th[t].as
  BY <1>0, Zenon DEF ThreadInv, ThreadStates
<1>2. q \in Pages /\ <<c, q>> \in Entries /\ <<c, q>>[1] = c /\ Entry(t) = <<c, q>>
  BY <1>0, <1>1, Sorts, Zenon DEF ThreadInv, Entry
<1>3. PICK e \in Entries : e = <<c, q>> /\ e[1] = c /\ Entry(t) = e
  BY <1>2, Zenon
<1>4. PICK f \in Frames : f = th[t].frm /\ pt_entry[f] = e /\ f \in occ /\ f >= FirstPage
                          /\ f \notin kern /\ \A p \in Procs : row[p] # f
  BY <1>0, <1>3, FrameSorts, Zenon DEF PinnedInv
<1>5. Resident(e) /\ frame_no[e] = 0 /\ ~Gone(e) /\ e \notin swapping /\ 0 \in Frames /\ FirstPage > 0 /\ pt_entry[0] = NULL
  <2>1. ~Gone(e)
    BY <1>0, <1>1, <1>3, OwnTable, Zenon
  <2>2. Resident(e) /\ frame_no[e] = 0
    BY <1>0, <1>1, <1>3, Zenon DEF PageInv, Resident
  <2>3. 0 \in Frames /\ FirstPage > 0 /\ FirstPage \in Nat
    BY Sorts, CoremapAssumption, Zenon
  <2>4. pt_entry[0] = NULL
    BY <1>0, <2>3, Zenon DEF FrameInv, OwnerInv
  <2> QED BY <2>1, <2>2, <2>3, <2>4, SwappingResident
<1>6. /\ fixed' = fixed \ {f} /\ frame_no' = [frame_no EXCEPT ![e] = f]
      /\ UNCHANGED <<occ, pt_entry, nframes, prev_victim, valid, swp, swapping, row, kern>>
  <2>1. /\ coremap_set_unfixed(th[t].frm) /\ frame_no' = [frame_no EXCEPT ![Entry(t)] = th[t].frm]
        /\ UNCHANGED <<valid, swp, swapping, row, kern>>
    BY Zenon DEF CopyFrame
  <2> QED BY <1>3, <1>4, <2>1, Zenon DEF coremap_set_unfixed
<1>7. th'[t].pc = "copy" /\ th'[t].for = "none" /\ \A u \in Threads \ {t} : th'[u] = th[u]
  BY <1>0, TableMoves, Zenon DEF MovesTo
<1>8. ~Pinning(t)' /\ ~Destroying(t)'
  BY <1>7, Zenon DEF Pinning, Evicting, Holding, pc, Destroying
<1>9. \A x \in Entries : (Gone(x)' <=> Gone(x)) /\ (Resident(x)' <=> Resident(x))
  <2>1. \A x \in Entries : Gone(x)' <=> Gone(x)
    BY <1>0, <1>7, <1>8, GoneKept, Zenon
  <2> QED BY <1>6, <2>1, Zenon DEF Resident
<1>10. ASSUME NEW x \in Entries, x # e, Coming(x) PROVE Coming(x)'
  <2>1. PICK p \in Procs : th[p].for = "copy" /\ Entry(p) = x
    BY <1>10, Zenon DEF Coming
  <2>2. p # t /\ p \in Threads
    BY <1>3, <1>10, <2>1, Sorts, Zenon
  <2>3. th'[p] = th[p]
    BY <1>7, <2>2, Zenon
  <2> QED BY <2>1, <2>2, <2>3, SameThread, Zenon DEF Coming
<1>11. \A u \in Threads \ {t} : SameRole(u) /\ (Pinning(u) => th[u].frm # f)
  BY <1>0, <1>4, <1>7, SameThread, Zenon DEF PinInv
<1>12. Touches(t, f)
  <2>1. ASSUME NEW g \in Frames \ {f}, pt_entry[g] # NULL, Resident(pt_entry[g]), frame_no[pt_entry[g]] = g, ~Gone(pt_entry[g])
        PROVE  Resident(pt_entry[g])' /\ frame_no'[pt_entry[g]] = g /\ ~Gone(pt_entry[g])'
    <3>1. PICK x \in Entries : x = pt_entry[g] /\ x = pt_entry'[g]
      BY <1>0, <1>6, <2>1, Zenon
    <3>2. x # e
      BY <1>5, <2>1, <3>1, Zenon
    <3>3. Resident(x)' /\ frame_no'[x] = g /\ ~Gone(x)'
      BY <1>0, <1>6, <1>9, <2>1, <3>1, <3>2, Zenon
    <3> QED BY <3>1, <3>3, Zenon
  <2> QED BY <1>4, <1>6, <1>8, <1>11, <2>1, Zenon DEF Touches
<1>13. ASSUME NEW x \in Entries PROVE PlacedInv(x)'
  <2>1. CASE x # e
    BY <1>0, <1>4, <1>6, <1>9, <1>10, <1>12, <2>1, PlacedAway, Zenon
  <2>2. CASE x = e
    <3>1. pt_entry'[frame_no'[x]] = x /\ x \notin swapping'
      BY <1>0, <1>4, <1>5, <1>6, <2>2, Zenon
    <3> QED BY <3>1, Zenon DEF PlacedInv
  <2> QED BY <2>1, <2>2, Zenon
<1>14. OwnerInv(f)'
  <2>1. pt_entry'[f] # NULL /\ Resident(pt_entry[f])' /\ frame_no'[pt_entry'[f]] = f /\ ~Gone(pt_entry[f])'
    <3>1. e = pt_entry'[f] /\ ~Gone(e)' /\ Resident(e)' /\ frame_no'[e] = f
      BY <1>0, <1>4, <1>5, <1>6, <1>9, Zenon
    <3> QED BY <1>0, <3>1, Zenon
  <2>2. f \in occ' /\ ~(f < FirstPage) /\ f \notin fixed'
    BY <1>0, <1>4, <1>6, Sorts, CoremapAssumption
  <2> QED BY <2>1, <2>2, Zenon DEF OwnerInv
<1>15. PinnedInv(t)'
  BY <1>8, Zenon DEF PinnedInv
<1>16. FrameInv' /\ PinInv'
  BY <1>0, <1>4, <1>6, <1>12, <1>13, <1>14, <1>15, AwayStep, Zenon
<1>17. BlockInv'
  BY <1>0, <1>6, SameBlocks, Zenon
<1> QED BY <1>16, <1>17, Zenon

(* pt_copy shares a page that is in the swap file, or makes the entry valid *)
(* and asks for a frame.                                                    *)
LEMMA CopyEntryFrames ==
  ASSUME Inv, NEW t \in Procs, CopyEntry(t), <<t, th[t].pg>> \in valid
  PROVE  BlockInv' /\ FrameInv' /\ PinInv'
<1> DEFINE q == th[t].pg
<1>0. /\ t \in Threads /\ FrameInv /\ PinInv /\ BlockInv /\ ThreadInv(t) /\ PageInv(t)
      /\ pt_entry \in [Frames -> Entries \cup {NULL}] /\ NULL \notin Entries /\ th[t] \in ThreadStates
      /\ fixed \subseteq Frames /\ occ \subseteq Frames /\ frame_no \in [Entries -> Frames \cup Slots]
      /\ kern \subseteq Frames /\ row \in [Procs -> Frames \cup {NULL}] /\ NULL \notin Frames
      /\ swp \subseteq valid /\ swapping \subseteq valid
      /\ pc(t) = "copy" /\ q <= LastPage /\ th[t].for # "copy" /\ ~Pinning(t) /\ ~Destroying(t)
  BY FrameSorts, Sorts, Zenon DEF CopyEntry, MorePages, Holding, Evicting, Pinning, ThreadInv, Asking, Destroying, EntryInv
<1>1. PICK c \in Procs : c = th[t].as
  BY <1>0, Zenon DEF ThreadInv, ThreadStates
<1>2. q \in Pages /\ <<c, q>> \in Entries /\ <<c, q>>[1] = c
  <2>1. q \in 0..LastPage+1 /\ q >= 1
    BY <1>0, Zenon DEF ThreadInv, ThreadStates
  <2> QED BY <1>0, <2>1, Sorts, Zenon
<1>3. PICK e \in Entries : e = <<c, q>> /\ e[1] = c
  BY <1>2, Zenon
<1>4. e \notin valid
  <2>1. Copying(t)
    BY <1>0, Zenon DEF ThreadInv, Copying
  <2> QED BY <1>0, <1>1, <1>2, <1>3, <2>1, Zenon DEF PageInv
<1>5. /\ UNCHANGED <<occ, fixed, pt_entry, nframes, prev_victim, swapping, row, kern>>
      /\ valid' = valid \cup {e} /\ swp' \subseteq swp \cup {e} /\ swp \subseteq swp'
      /\ \A x \in Entries : x # e => frame_no'[x] = frame_no[x]
      /\ \/ e \in swp'
         \/ th'[t].for = "copy" /\ Entry(t)' = e
  <2>1. CASE <<t, q>> \in swp
    BY <1>0, <1>1, <1>3, <2>1, Zenon DEF CopyEntry, cmVars, Resident
  <2>2. CASE <<t, q>> \notin swp
    <3>1. Resident(<<t, q>>)
      BY <2>2, Zenon DEF Resident
    <3>2. th'[t].for = "copy" /\ th'[t].as = c /\ th'[t].pg = q
      BY <1>0, <1>1, <3>1, TableMoves, Zenon DEF MovesTo
    <3>3. Entry(t)' = e
      BY <1>3, <3>2, Zenon DEF Entry
    <3> QED BY <1>0, <1>1, <1>3, <2>2, <3>2, <3>3, Zenon DEF CopyEntry, cmVars
  <2> QED BY <2>1, <2>2, Zenon
<1>6. th'[t].pc \in {"copy", "alloc"} /\ \A u \in Threads \ {t} : th'[u] = th[u]
  BY <1>0, TableMoves, Zenon DEF MovesTo
<1>7. ~Pinning(t)' /\ ~Destroying(t)'
  BY <1>6, Zenon DEF Pinning, Evicting, Holding, pc, Destroying
<1>8. \A x \in Entries : Gone(x)' <=> Gone(x)
  BY <1>0, <1>6, <1>7, GoneKept, Zenon
<1>9. ASSUME NEW x \in Entries, Coming(x) PROVE Coming(x)'
  <2>1. PICK p \in Procs : th[p].for = "copy" /\ Entry(p) = x
    BY <1>9, Zenon DEF Coming
  <2>2. p # t /\ p \in Threads
    BY <1>0, <2>1, Sorts, Zenon
  <2>3. th'[p] = th[p]
    BY <1>6, <2>2, Zenon
  <2> QED BY <2>1, <2>2, <2>3, SameThread, Zenon DEF Coming
<1>10. \A x \in Entries : x # e => (Resident(x)' <=> Resident(x))
  BY <1>5, Zenon DEF Resident
<1>11. 0 \in Frames /\ FirstPage > 0 /\ FirstPage \in Nat /\ ~(0 >= FirstPage)
  BY Sorts, CoremapAssumption
<1>12. 0 \notin kern /\ (\A p \in Procs : row[p] # 0) /\ pt_entry[0] = NULL
  BY <1>0, <1>11, Zenon DEF FrameInv, RowInv, Private, OwnerInv
<1>13. \A u \in Threads \ {t} : SameRole(u) /\ (Pinning(u) => th[u].frm # 0)
  BY <1>0, <1>6, <1>11, SameThread, Zenon DEF PinInv, PinnedInv
<1>14. ~Resident(e)
  BY <1>4, Zenon DEF Resident
<1>15. Touches(t, 0)
  <2>1. ASSUME NEW g \in Frames \ {0}, pt_entry[g] # NULL, Resident(pt_entry[g]), frame_no[pt_entry[g]] = g, ~Gone(pt_entry[g])
        PROVE  Resident(pt_entry[g])' /\ frame_no'[pt_entry[g]] = g /\ ~Gone(pt_entry[g])'
    <3>1. PICK x \in Entries : x = pt_entry[g] /\ x = pt_entry'[g]
      BY <1>0, <1>5, <2>1, Zenon
    <3>2. x # e
      BY <1>14, <2>1, <3>1, Zenon
    <3>3. Resident(x)' /\ frame_no'[x] = g /\ ~Gone(x)'
      BY <1>5, <1>8, <1>10, <2>1, <3>1, <3>2, Zenon
    <3> QED BY <3>1, <3>3, Zenon
  <2> QED BY <1>0, <1>5, <1>7, <1>13, <2>1, Zenon DEF Touches
<1>16. ASSUME NEW x \in Entries PROVE PlacedInv(x)'
  <2>1. CASE x # e
    BY <1>0, <1>5, <1>8, <1>9, <1>10, <1>11, <1>12, <1>15, <2>1, PlacedAway, Zenon
  <2>2. CASE x = e
    <3>1. x \notin swapping'
      BY <1>0, <1>4, <1>5, <2>2, Zenon
    <3>2. CASE e \in swp'
      BY <2>2, <3>1, <3>2, Zenon DEF PlacedInv, Resident
    <3>3. CASE th'[t].for = "copy" /\ Entry(t)' = e
      <4>1. Coming(x)'
        BY <2>2, <3>3, Zenon DEF Coming
      <4> QED BY <3>1, <4>1, Zenon DEF PlacedInv
    <3> QED BY <1>5, <3>2, <3>3, Zenon
  <2> QED BY <2>1, <2>2, Zenon
<1>17. OwnerInv(0)' /\ PinnedInv(t)'
  <2>1. pt_entry'[0] = NULL
    BY <1>5, <1>12, Zenon
  <2> QED BY <1>7, <1>11, <2>1, Zenon DEF OwnerInv, PinnedInv
<1>18. FrameInv' /\ PinInv'
  BY <1>0, <1>5, <1>11, <1>12, <1>15, <1>16, <1>17, AwayStep, Zenon
<1>19. BlockInv'
  BY <1>0, <1>5, SameBlocks, Zenon
<1> QED BY <1>18, <1>19, Zenon

(* pt_destroy frees the frame of an entry, or leaves it to the thread that  *)
(* is swapping the page out.                                                *)
LEMMA FreeEntryFrames ==
  ASSUME Inv, NoDestroyRace, NEW t \in Threads, FreeEntry(t)
  PROVE  BlockInv' /\ FrameInv' /\ PinInv'
<1> DEFINE q == th[t].pg
<1>0. /\ FrameInv /\ PinInv /\ BlockInv /\ ThreadInv(t) /\ PageInv(t)
      /\ pt_entry \in [Frames -> Entries \cup {NULL}] /\ NULL \notin Entries /\ th[t] \in ThreadStates
      /\ fixed \subseteq Frames /\ occ \subseteq Frames
      /\ kern \subseteq Frames /\ row \in [Procs -> Frames \cup {NULL}] /\ NULL \notin Frames
      /\ pc(t) = "free" /\ th[t].for # "copy" /\ ~Pinning(t) /\ Destroying(t)
  BY FrameSorts, Zenon DEF FreeEntry, Holding, Evicting, Pinning, ThreadInv, Asking, Destroying
<1>1. PICK c \in Procs : c = th[t].as
  BY <1>0, Zenon DEF ThreadInv, ThreadStates
<1>2. q \in Pages /\ <<c, q>> \in Entries /\ <<c, q>>[1] = c /\ <<c, q>>[2] = q /\ q \in Nat
  BY <1>0, Sorts, Zenon DEF ThreadInv
<1>3. PICK e \in Entries : e = <<c, q>> /\ e[1] = c /\ e[2] = q
  BY <1>2, Zenon
<1>4. Resident(e) /\ frame_no[e] = th[t].frm
  BY <1>0, <1>1, <1>3, Zenon DEF PageInv, NoDestroyRace, Resident
<1>5. ~Gone(e) /\ ~Coming(e)
  <2>1. ~Gone(e)
    <3>1. \A u \in Threads : th[u].as = c => u = t
      BY <1>1, OwnTable, Zenon
    <3> QED BY <1>0, <1>2, <1>3, <3>1 DEF Gone
  <2> QED BY <1>0, <1>1, <1>3, <2>1, OwnTable, Zenon
<1>6. PICK f \in Frames : f = th[t].frm /\ pt_entry[f] = e
  BY <1>0, <1>4, <1>5, FrameSorts, Zenon DEF FrameInv, PlacedInv
<1>7. f \in occ /\ f >= FirstPage /\ f \notin kern /\ \A p \in Procs : row[p] # f
  <2>1. f \in Nat /\ FirstPage \in Nat
    BY Sorts, CoremapAssumption, Zenon
  <2> QED BY <1>0, <1>6, <2>1 DEF FrameInv, OwnerInv, RowInv, Private
<1>8. free_frame(f) /\ UNCHANGED <<frame_no, swp, swapping, valid, row, kern>>
  BY <1>1, <1>3, <1>4, <1>6, Zenon DEF FreeEntry, pteVars
<1>9. /\ th'[t].pc = "recheck" /\ th'[t].as = c /\ th'[t].pg = q /\ th'[t].for = th[t].for
      /\ \A u \in Threads \ {t} : th'[u] = th[u]
  BY <1>1, TableMoves, Zenon DEF MovesTo
<1>10. ~Pinning(t)' /\ SameRole(t) /\ Destroying(t)'
  BY <1>0, <1>9, IdleRole, Zenon DEF Pinning, Evicting, Holding, pc, Destroying
<1>11. \A x \in Entries : (Coming(x)' <=> Coming(x)) /\ (Resident(x)' <=> Resident(x))
  <2>1. \A x \in Entries : Coming(x)' <=> Coming(x)
    BY <1>0, <1>9, ComingKept, Sorts, Zenon
  <2> QED BY <1>8, <2>1, Zenon DEF Resident
<1>12. ASSUME NEW x \in Entries PROVE Gone(x)' <=> Gone(x) \/ x = e
  <2>0. x = <<x[1], x[2]>> /\ x[2] \in Nat
    <3>1. x \in Procs \X Pages
      BY Sorts, Zenon
    <3>2. x = <<x[1], x[2]>> /\ x[2] \in Pages
      BY <3>1
    <3> QED BY <3>2, Sorts, Zenon
  <2>1. \A u \in Threads \ {t} :
           (/\ Destroying(u) /\ th[u].as = x[1]
            /\ x[2] < th[u].pg \/ (pc(u) = "recheck" /\ x[2] = th[u].pg))'
           <=> /\ Destroying(u) /\ th[u].as = x[1]
               /\ x[2] < th[u].pg \/ (pc(u) = "recheck" /\ x[2] = th[u].pg)
    BY <1>9, Zenon DEF Destroying, pc
  <2>2. /\ Destroying(t) /\ th[t].as = x[1]
        /\ x[2] < th[t].pg \/ (pc(t) = "recheck" /\ x[2] = th[t].pg)
        <=> c = x[1] /\ x[2] < q
    BY <1>0, <1>1, Zenon
  <2>3. (/\ Destroying(t) /\ th[t].as = x[1]
         /\ x[2] < th[t].pg \/ (pc(t) = "recheck" /\ x[2] = th[t].pg))'
        <=> c = x[1] /\ (x[2] < q \/ x[2] = q)
    BY <1>9, <1>10, Zenon DEF pc
  <2>4. x = e <=> c = x[1] /\ x[2] = q
    BY <1>3, <2>0, Zenon
  <2> QED BY <2>1, <2>2, <2>3, <2>4, Zenon DEF Gone
<1>13. ASSUME NEW g \in Frames \ {f}, pt_entry[g] # NULL, Resident(pt_entry[g]), frame_no[pt_entry[g]] = g, ~Gone(pt_entry[g]),
              pt_entry'[g] = pt_entry[g]
       PROVE  Resident(pt_entry[g])' /\ frame_no'[pt_entry[g]] = g /\ ~Gone(pt_entry[g])'
  <2>1. PICK x \in Entries : x = pt_entry[g] /\ x = pt_entry'[g]
    BY <1>0, <1>13, Zenon
  <2>2. x # e
    BY <1>4, <1>6, <1>13, <2>1, Zenon
  <2>3. Resident(x)' /\ frame_no'[x] = g /\ ~Gone(x)'
    BY <1>8, <1>11, <1>12, <1>13, <2>1, <2>2, Zenon
  <2> QED BY <2>1, <2>3, Zenon
<1>14. CASE e \in swapping
  <2>1. PICK v \in Threads : Evicting(v) /\ th[v].frm = f
    BY <1>4, <1>5, <1>6, <1>14, SwappingResident, Zenon
  <2>2. /\ fixed' = fixed \cup {f} /\ pt_entry' = [pt_entry EXCEPT ![f] = NULL]
        /\ UNCHANGED <<occ, nframes, prev_victim>>
    BY <1>0, <1>6, <1>8, <1>14, Zenon DEF free_frame
  <2>3. v # t /\ Pinning(v) /\ PinnedInv(v) /\ th'[v] = th[v]
    BY <1>0, <1>9, <2>1, Zenon DEF Pinning, PinInv
  <2>4. Evicting(v)' /\ Pinning(v)' /\ ~Holding(v)' /\ pc(v)' # "tlb"
    BY <2>1, <2>3, Zenon DEF Evicting, Pinning, Holding, pc
  <2>5. \A u \in Threads \ {v} : SameRole(u) /\ (Pinning(u) => th[u].frm # f)
    BY <1>0, <1>9, <1>10, <2>1, <2>3, SameThread, Zenon DEF PinInv
  <2>6. pt_entry'[f] = NULL /\ \A g \in Frames \ {f} : pt_entry'[g] = pt_entry[g]
    BY <1>0, <2>2, Zenon
  <2>7. Touches(v, f)
    BY <1>8, <1>13, <2>1, <2>2, <2>3, <2>4, <2>5, <2>6, Zenon DEF Touches
  <2>8. ASSUME NEW x \in Entries PROVE PlacedInv(x)'
    <3>1. CASE x # e
      BY <1>6, <1>8, <1>11, <1>12, <2>7, <3>1, PlacedAway, Zenon
    <3>2. CASE x = e
      BY <1>12, <3>2, Zenon DEF PlacedInv
    <3> QED BY <3>1, <3>2, Zenon
  <2>9. OwnerInv(f)'
    <3>1. \E u \in Threads : (Evicting(u)' \/ Holding(u)') /\ th'[u].frm = f
      BY <2>1, <2>3, <2>4, Zenon
    <3> QED BY <2>6, <3>1, Zenon DEF OwnerInv
  <2>10. PinnedInv(v)'
    BY <1>7, <1>8, <2>1, <2>2, <2>3, <2>4, <2>6, Zenon DEF PinnedInv
  <2>11. FrameInv' /\ PinInv'
    BY <1>0, <1>7, <1>8, <2>2, <2>7, <2>8, <2>9, <2>10, AwayStep, Zenon
  <2>12. BlockInv'
    <3>1. pt_entry' \in [Frames -> Entries \cup {NULL}]
      BY <1>0, <2>2, Zenon
    <3> QED BY <1>0, <2>2, <3>1, SameBlocks, Zenon
  <2> QED BY <2>11, <2>12, Zenon
<1>15. CASE e \notin swapping
  <2>1. /\ BlockInv' /\ occ' = occ \ {f} /\ fixed' = fixed \ {f} /\ pt_entry' = [pt_entry EXCEPT ![f] = NULL]
    BY <1>0, <1>6, <1>7, <1>8, <1>15, FreeBlock, Zenon
  <2>2. ASSUME NEW u \in Threads, Pinning(u), th[u].frm = f PROVE FALSE
    <3>0. PinnedInv(u) /\ e # NULL
      BY <1>0, Zenon DEF PinInv
    <3>1. CASE Evicting(u)
      BY <1>6, <1>15, <2>2, <3>0, <3>1, Zenon DEF PinnedInv
    <3>2. CASE Holding(u)
      <4>1. Entry(u) = e
        BY <1>6, <2>2, <3>0, <3>2, Zenon DEF PinnedInv
      <4> QED BY <1>4, <1>5, <3>0, <3>2, <4>1, EntryOf, Zenon
    <3>3. CASE pc(u) = "tlb"
      <4>1. e = <<u, th[u].pg>>
        BY <1>6, <2>2, <3>0, <3>3, Zenon DEF PinnedInv
      <4>2. u = c
        BY <1>3, <4>1
      <4> QED BY <1>1, <3>3, <4>2, OwnTable, Zenon
    <3> QED BY <2>2, <3>1, <3>2, <3>3, Zenon DEF Pinning
  <2>3. \A u \in Threads \ {t} : SameRole(u) /\ (Pinning(u) => th[u].frm # f)
    BY <1>9, <2>2, SameThread, Zenon
  <2>4. pt_entry'[f] = NULL /\ \A g \in Frames \ {f} : pt_entry'[g] = pt_entry[g]
    BY <1>0, <2>1, Zenon
  <2>5. Touches(t, f)
    BY <1>0, <1>8, <1>10, <1>13, <2>1, <2>3, <2>4, Zenon DEF Touches
  <2>6. ASSUME NEW x \in Entries PROVE PlacedInv(x)'
    <3>1. CASE x # e
      BY <1>6, <1>8, <1>11, <1>12, <2>5, <3>1, PlacedAway, Zenon
    <3>2. CASE x = e
      BY <1>12, <3>2, Zenon DEF PlacedInv
    <3> QED BY <3>1, <3>2, Zenon
  <2>7. OwnerInv(f)' /\ PinnedInv(t)'
    <3>1. f \notin occ'
      BY <2>1, Zenon
    <3> QED BY <1>10, <2>4, <3>1, Zenon DEF OwnerInv, PinnedInv
  <2>8. FrameInv' /\ PinInv'
    BY <1>0, <1>7, <1>8, <2>1, <2>5, <2>6, <2>7, AwayStep, Zenon
  <2> QED BY <2>1, <2>8, Zenon
<1> QED BY <1>14, <1>15, Zenon
=============================================================================
