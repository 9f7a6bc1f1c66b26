------------------------------ MODULE FramePool ------------------------------
(***************************************************************************)
(* Kernel threads sharing the coremap: get_user_frame, get_kernel_frame    *)
(* and free_frame of kern/vm/coremap.c, with the swap-out of a victim      *)
(* running outside the atomic sections, and the way kern/vm/pt.c and       *)
(* vm_project.c use them: a faulting thread pins the frame until its TLB   *)
(* entry is written, a page table being destroyed frees the frames of its  *)
(* entries even while some other thread is swapping them out.              *)
(*                                                                         *)
(* What is assumed of the callers, as pt_lock guarantees it: an entry is   *)
(* handled by one thread at a time, and is destroyed when no thread        *)
(* handles it.  Vm.tla models those callers step by step.                  *)
(***************************************************************************)
EXTENDS Coremap

CONSTANTS
  Threads,
  KernSizes,    \* the block sizes get_kernel_frame is asked for
  MAX_ATTEMPTS,
  Slots         \* swap slots

ASSUME FramePoolAssumption ==
  /\ KernSizes \subseteq Nat \ {0}
  /\ MAX_ATTEMPTS \in Nat \ {0}
  /\ Slots # {} /\ Slots \subseteq Nat

VARIABLES
  valid,  \* pt_entry.valid: set of entries
  pc,     \* where a thread is in its request
  req,    \* the argument entry, NULL for get_kernel_frame
  num,    \* the argument num
  att,    \* failed attempts so far
  frm,    \* the frame being swapped out, or obtained
  kern,   \* the blocks get_kernel_frame has handed out (ghost)
  lost    \* the frames whose swap-out ended in a null store (ghost)

threadVars == <<pc, req, num, att, frm>>
vars == <<cmVars, pteVars, valid, threadVars, kern, lost>>

Locations == {"idle", "try", "swap", "got", "pinned"}

TypeOK ==
  /\ CoremapTypeOK
  /\ frame_no \in [Entries -> Frames \cup Slots]
  /\ swp \subseteq Entries
  /\ swapping \subseteq Entries
  /\ valid \subseteq Entries
  /\ pc \in [Threads -> Locations]
  /\ req \in [Threads -> Entries \cup {NULL}]
  /\ num \in [Threads -> KernSizes \cup {1}]
  /\ att \in [Threads -> 0..MAX_ATTEMPTS-1]
  /\ frm \in [Threads -> Frames]
  /\ kern \subseteq Frames
  /\ lost \subseteq Frames

Init ==
  /\ coremap_bootstrap
  /\ frame_no = [e \in Entries |-> 0]
  /\ swp = {} /\ swapping = {} /\ valid = {}
  /\ pc = [t \in Threads |-> "idle"]
  /\ req = [t \in Threads |-> NULL]
  /\ num = [t \in Threads |-> 1]
  /\ att = [t \in Threads |-> 0]
  /\ frm = [t \in Threads |-> 0]
  /\ kern = {}
  /\ lost = {}

-----------------------------------------------------------------------------
Handles(t, e) == pc[t] # "idle" /\ req[t] = e
Busy(e) == \E t \in Threads : Handles(t, e)
Resident(e) == e \in valid \ swp

(* The thread's program counter and locals. *)
Goto(t, l, e, n, a, f) ==
  /\ pc' = [pc EXCEPT ![t] = l]
  /\ req' = [req EXCEPT ![t] = e]
  /\ num' = [num EXCEPT ![t] = n]
  /\ att' = [att EXCEPT ![t] = a]
  /\ frm' = [frm EXCEPT ![t] = f]

GoIdle(t) == Goto(t, "idle", NULL, 1, 0, 0)

(* Called by load_frame for a new entry and by load_from_swap. *)
get_user_frame(t, e) ==
  /\ pc[t] = "idle" /\ ~Busy(e) /\ ~Resident(e)
  /\ Goto(t, "try", e, 1, 0, 0)
  /\ UNCHANGED <<cmVars, pteVars, valid, kern, lost>>

get_kernel_frame(t, n) ==
  /\ pc[t] = "idle"
  /\ Goto(t, "try", NULL, n, 0, 0)
  /\ UNCHANGED <<cmVars, pteVars, valid, kern, lost>>

(* get_n_frames returns frame f to the caller. *)
Return(t, f) ==
  IF req[t] = NULL
    THEN GoIdle(t) /\ kern' = kern \cup {f}
    ELSE Goto(t, "got", req[t], 1, 0, f) /\ UNCHANGED kern

(* get_n_frames returns 0: another attempt after thread_yield, or give up. *)
Retry(t) ==
  IF att[t] + 1 = MAX_ATTEMPTS
    THEN GoIdle(t)
    ELSE Goto(t, "try", req[t], num[t], att[t] + 1, 0)

(* get_n_frames, first atomic section: the three outcomes of the search. *)
TakeFree(t) ==
  /\ pc[t] = "try" /\ Found(num[t])
  /\ TakeFrames(FirstFit(num[t]), num[t], req[t])
  /\ Return(t, FirstFit(num[t]))
  /\ UNCHANGED <<pteVars, valid, lost>>

StartSwapOut(t) ==
  /\ pc[t] = "try" /\ ~Found(num[t]) /\ num[t] = 1 /\ get_victim # -1
  /\ MarkVictim(get_victim)
  /\ Goto(t, "swap", req[t], 1, att[t], get_victim)
  /\ UNCHANGED <<valid, kern, lost>>

NoFrame(t) ==
  /\ pc[t] = "try" /\ ~Found(num[t]) /\ (num[t] # 1 \/ get_victim = -1)
  /\ Retry(t)
  /\ UNCHANGED <<cmVars, pteVars, valid, kern, lost>>

(* get_n_frames, second atomic section: swap_set returned slot s. *)
SwapOutDone(t, s) ==
  /\ pc[t] = "swap"
  /\ ReassignVictim(frm[t], s, req[t])
  /\ Return(t, frm[t])
  /\ UNCHANGED <<valid, lost>>

(* swap_set failed. If the owner was destroyed meanwhile the code stores     *)
(* through the null back pointer: the fault on address 0 makes vm_fault end  *)
(* the process, and nobody owns the frame any more.                          *)
SwapOutFails(t) ==
  /\ pc[t] = "swap"
  /\ UnmarkVictim(frm[t])
  /\ IF pt_entry[frm[t]] # NULL
       THEN Retry(t) /\ UNCHANGED lost
       ELSE GoIdle(t) /\ lost' = lost \cup {frm[t]}
  /\ UNCHANGED <<valid, kern>>

(* load_frame and load_from_swap store the frame number in the entry. *)
Install(t) ==
  /\ pc[t] = "got"
  /\ frame_no' = [frame_no EXCEPT ![req[t]] = frm[t]]
  /\ swp' = swp \ {req[t]}
  /\ valid' = valid \cup {req[t]}
  /\ Goto(t, "pinned", req[t], 1, 0, frm[t])
  /\ UNCHANGED <<cmVars, swapping, kern, lost>>

(* pt_get_frame_from_page on a page that is in memory and not being swapped. *)
Reload(t, e) ==
  /\ pc[t] = "idle" /\ ~Busy(e)
  /\ Resident(e) /\ e \notin swapping
  /\ coremap_set_fixed(frame_no[e])
  /\ Goto(t, "pinned", e, 1, 0, frame_no[e])
  /\ UNCHANGED <<pteVars, valid, kern, lost>>

(* vm_fault after tlb_write. *)
Unpin(t) ==
  /\ pc[t] = "pinned"
  /\ coremap_set_unfixed(frm[t])
  /\ GoIdle(t)
  /\ UNCHANGED <<pteVars, valid, kern, lost>>

-----------------------------------------------------------------------------
(* pt_destroy on one valid entry; its memory is zeroed before it is reused.  *)
(* The test of line 48 and the release of line 49 are one step here, which   *)
(* they are not in the code: Vm.tla separates them.                          *)
DestroyEntry(e) ==
  /\ e \in valid /\ ~Busy(e)
  /\ IF e \in swp THEN UNCHANGED cmVars ELSE free_frame(frame_no[e])
  /\ valid' = valid \ {e}
  /\ frame_no' = [frame_no EXCEPT ![e] = 0]
  /\ swp' = swp \ {e}
  /\ swapping' = swapping \ {e}
  /\ UNCHANGED <<threadVars, kern, lost>>

(* free_kpages on a block that get_kernel_frame returned. *)
free_kpages(f) ==
  /\ f \in kern
  /\ free_frame(f)
  /\ kern' = kern \ {f}
  /\ UNCHANGED <<pteVars, valid, threadVars, lost>>

Next ==
  \/ \E t \in Threads :
       \/ \E e \in Entries : get_user_frame(t, e) \/ Reload(t, e)
       \/ \E n \in KernSizes : get_kernel_frame(t, n)
       \/ TakeFree(t) \/ StartSwapOut(t) \/ NoFrame(t)
       \/ \E s \in Slots : SwapOutDone(t, s)
       \/ SwapOutFails(t) \/ Install(t) \/ Unpin(t)
  \/ \E e \in Entries : DestroyEntry(e)
  \/ \E f \in Frames : free_kpages(f)

Spec == Init /\ [][Next]_vars

-----------------------------------------------------------------------------
(* The block heads tile the memory: every frame with nframes > 0 starts a   *)
(* block that ends where the next head, or the memory, begins; its interior *)
(* frames have nframes = 0 and the occ bit of their head.  This is what the *)
(* hopping loops of get_n_frames, get_victim and free_frame rely on: with a *)
(* hop of 0 or into the middle of a block they would spin with interrupts   *)
(* off, or hand out memory in use.                                          *)
BlocksTile == Tiles(occ, nframes)

(* free_frame leaves no two adjacent free blocks, and no later operation    *)
(* creates any: free memory is always as contiguous as it can be.           *)
FullyCoalesced == Merged(occ, nframes)

Swapping(t) == pc[t] = "swap"

(* Who a block of the pool belongs to. *)
UsedByEntry(f, e)  == Resident(e) /\ frame_no[e] = f
UsedByThread(f, t) == pc[t] = "got" /\ frm[t] = f
UsedByKernel(f)    == f < FirstPage \/ \E k \in kern : f \in Block(k)

(* No two users of one frame: the frame of a page in memory is not the      *)
(* frame of another page, nor one a thread has just obtained, nor part of a *)
(* kernel block or of the kernel image, nor free, whatever swap-outs and    *)
(* destructions overlap.                                                    *)
ExclusiveFrames ==
  \A f \in Frames :
    /\ \A e \in Entries : UsedByEntry(f, e) =>
         /\ pt_entry[f] = e /\ f \in occ
         /\ \A d \in Entries \ {e} : ~UsedByEntry(f, d)
         /\ \A t \in Threads : ~UsedByThread(f, t)
         /\ ~UsedByKernel(f) /\ f \notin lost
    /\ \A t \in Threads : UsedByThread(f, t) =>
         /\ f \in occ /\ ~UsedByKernel(f) /\ f \notin lost
         /\ \A u \in Threads \ {t} : ~UsedByThread(f, u)
    /\ UsedByKernel(f) => f \in occ

(* A frame that a thread pinned for its TLB entry is not being swapped out, *)
(* and a frame is swapped out by at most one thread.                        *)
VictimsUnpinned ==
  \A t \in Threads : Swapping(t) =>
    /\ \A u \in Threads \ {t} : pc[u] \in {"swap", "got", "pinned"} => frm[u] # frm[t]
    /\ frm[t] \in fixed \cap occ /\ nframes[frm[t]] = 1
    /\ pt_entry[frm[t]] # NULL => pt_entry[frm[t]] \in swapping

(* An entry marked swapping has a thread that will unmark it: the busy wait *)
(* of pt_get_frame_from_page is never on an orphaned mark.                  *)
SwappingHasOwner ==
  \A e \in swapping :
    \E t \in Threads : Swapping(t) /\ pt_entry[frm[t]] = e

(* get_victim is called when no frame is free. coremap.h: "Nel caso nessun  *)
(* frame sia libero, effettua lo swap-out di un frame vittima": it finds a  *)
(* victim whenever one exists.                                              *)
VictimFound ==
  ~Found(1) /\ (\E f \in Frames : Evictable(f)) => get_victim # -1

(* The error path of get_n_frames does not store through a back pointer     *)
(* that free_frame has set to NULL.                                         *)
NoNullStore == lost = {}

-----------------------------------------------------------------------------
(* The inductive strengthening of the properties above, one conjunct per    *)
(* kind of owner.  FramePoolProofs shows that it implies them.              *)

(* A back pointer leads to the page in the frame, or to the page for which  *)
(* a thread has just obtained the frame.                                    *)
BackPointers ==
  \A f \in Frames : pt_entry[f] # NULL =>
    /\ f \in occ /\ nframes[f] = 1 /\ f >= FirstPage
    /\ \/ UsedByEntry(f, pt_entry[f])
       \/ \E t \in Threads : UsedByThread(f, t) /\ req[t] = pt_entry[f]

ResidentPages ==
  \A e \in Entries : Resident(e) => frame_no[e] \in Frames /\ pt_entry[frame_no[e]] = e

SwappingMarks ==
  \A e \in swapping :
    /\ Resident(e)
    /\ \E t \in Threads : Swapping(t) /\ pt_entry[frm[t]] = e

Requests ==
  \A t \in Threads :
    /\ pc[t] # "idle" /\ req[t] # NULL =>
         /\ num[t] = 1
         /\ Resident(req[t]) <=> pc[t] = "pinned"
         /\ \A u \in Threads \ {t} : pc[u] # "idle" => req[u] # req[t]
    /\ pc[t] = "got" =>
         req[t] # NULL /\ pt_entry[frm[t]] = req[t] /\ frm[t] \in fixed
    /\ pc[t] = "pinned" =>
         req[t] # NULL /\ frame_no[req[t]] = frm[t] /\ frm[t] \in fixed /\ req[t] \notin swapping

SwapOuts ==
  \A t \in Threads : Swapping(t) =>
    /\ frm[t] \in fixed /\ frm[t] \in occ /\ nframes[frm[t]] = 1 /\ frm[t] >= FirstPage
    /\ frm[t] \notin kern /\ frm[t] \notin lost
    /\ pt_entry[frm[t]] # NULL =>
         UsedByEntry(frm[t], pt_entry[frm[t]]) /\ pt_entry[frm[t]] \in swapping
    /\ \A u \in Threads \ {t} : Swapping(u) => frm[u] # frm[t]

KernelBlocks ==
  /\ 0..(FirstPage-1) \subseteq occ
  /\ \A f \in kern : f >= FirstPage /\ f \in occ /\ nframes[f] > 0 /\ pt_entry[f] = NULL
  /\ \A f \in lost : /\ f >= FirstPage /\ f \in occ /\ nframes[f] = 1 /\ pt_entry[f] = NULL
                     /\ f \notin kern

Ownership ==
  BackPointers /\ ResidentPages /\ SwappingMarks /\ Requests /\ SwapOuts /\ KernelBlocks

IInv == TypeOK /\ BlocksTile /\ FullyCoalesced /\ Ownership
=============================================================================
