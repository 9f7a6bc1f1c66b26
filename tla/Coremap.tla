------------------------------- MODULE Coremap -------------------------------
(***************************************************************************)
(* The coremap of kern/vm/coremap.c: struct cm_entry, one per physical     *)
(* frame, and the fields of struct pt_entry that the coremap code writes   *)
(* through its back pointers.  A one-bit field is kept as the set of       *)
(* frames (or entries) whose bit is 1, the others as functions.            *)
(*                                                                         *)
(* The machine has one CPU (root/sys161.conf), so the code between         *)
(* splhigh() and splx() is one atomic step.  Every operator below with a   *)
(* primed variable is such a section; FramePool and Vm build the           *)
(* handlers from them.                                                     *)
(***************************************************************************)
EXTENDS Integers

CONSTANTS
  NPages,     \* npages, the number of physical frames
  FirstPage,  \* first_page, the first frame that is not the kernel image
  Entries,    \* identities (addresses) of struct pt_entry
  NULL        \* the null pointer

(* KASSERT(npages > first_page); the kernel image is not empty. *)
ASSUME CoremapAssumption ==
  /\ NPages \in Nat /\ FirstPage \in Nat
  /\ 0 < FirstPage /\ FirstPage < NPages
  /\ NULL \notin Entries

VARIABLES
  occ, fixed,         \* cm_entry.occ, cm_entry.fixed: sets of frames
  nframes, pt_entry,  \* cm_entry.nframes, cm_entry.pt_entry
  prev_victim,        \* static prev_victim of get_victim
  frame_no,           \* pt_entry.frame_no
  swp, swapping       \* pt_entry.swp, pt_entry.swapping: sets of entries

cmVars  == <<occ, fixed, nframes, pt_entry, prev_victim>>
pteVars == <<frame_no, swp, swapping>>

Frames == 0..NPages-1

CoremapTypeOK ==
  /\ occ \subseteq Frames
  /\ fixed \subseteq Frames
  /\ nframes \in [Frames -> 0..NPages]
  /\ pt_entry \in [Frames -> Entries \cup {NULL}]
  /\ prev_victim \in Frames

(* The frames of the block whose first frame is f. *)
Block(f) == f..(f + nframes[f] - 1)

(* The block structure given by occ bits o and an nframes array n: every     *)
(* head (n > 0) starts a block that ends where the next head, or the memory, *)
(* begins; the interior frames have n = 0 and the occ bit of their head.     *)
(* The kernel image stays a block of its own.                                *)
Tiles(o, n) ==
  /\ n[0] = FirstPage /\ n[FirstPage] > 0
  /\ \A f \in Frames : n[f] = 0 => (f \in o <=> f-1 \in o)
  /\ \A f \in Frames : n[f] > 0 =>
       /\ f + n[f] <= NPages
       /\ f + n[f] < NPages => n[f + n[f]] > 0
       /\ \A g \in (f+1)..(f + n[f] - 1) : n[g] = 0 /\ (g \in o <=> f \in o)

(* No free block is followed by another free block. *)
Merged(o, n) ==
  \A f \in Frames \ o : n[f] > 0 /\ f + n[f] < NPages => f + n[f] \in o

-----------------------------------------------------------------------------
(* Bootstrap: one block for the kernel image, one free block. *)
coremap_bootstrap ==
  /\ occ = 0..FirstPage-1
  /\ fixed = 0..FirstPage-1
  /\ nframes = [f \in Frames |-> IF f = 0 THEN FirstPage
                                 ELSE IF f = FirstPage THEN NPages - FirstPage
                                 ELSE 0]
  /\ pt_entry = [f \in Frames |-> NULL]
  /\ prev_victim = 0

-----------------------------------------------------------------------------
(* get_n_frames: the first-fit search. The loop hops from block head to      *)
(* block head, upwards from first_page; interior frames have nframes = 0.    *)
FreeBlocks(n) ==
  {f \in (FirstPage..NPages-1) \ occ : nframes[f] > 0 /\ nframes[f] >= n}

Lowest(S) == CHOOSE f \in S : \A g \in S : f <= g

Found(n) == FreeBlocks(n) # {}
FirstFit(n) == Lowest(FreeBlocks(n))

TakeFramesNoResidual(page, n, e) ==
  LET taken == page..(page + n - 1) IN
  /\ nframes' = [nframes EXCEPT ![page] = n]
  /\ occ' = occ \cup taken
  /\ fixed' = fixed \cup taken
  /\ pt_entry' = [f \in Frames |-> IF f \in taken THEN e ELSE pt_entry[f]]
  /\ UNCHANGED prev_victim

(* get_n_frames, block found: split off the residual and take n frames. *)
TakeFrames(page, n, e) ==
  LET taken    == page..(page + n - 1)
      residual == nframes[page] - n
  IN
  /\ nframes' = [f \in Frames |-> IF f = page THEN n
                                  ELSE IF f = page + n /\ residual > 0 THEN residual
                                  ELSE nframes[f]]
  /\ occ' = occ \cup taken
  /\ fixed' = fixed \cup taken
  /\ pt_entry' = [f \in Frames |-> IF f \in taken THEN e ELSE pt_entry[f]]
  /\ UNCHANGED prev_victim

-----------------------------------------------------------------------------
EvictableThoughFixed(f) == f \in occ /\ pt_entry[f] # NULL

Evictable(f) == f \in occ \ fixed /\ pt_entry[f] # NULL

(* get_victim: the clock scan. It hops over block heads cyclically, starting *)
(* after prev_victim and trying prev_victim last. When prev_victim is not a  *)
(* block head (nframes = 0) every hop stays on it.                           *)
VictimAfter  == {f \in Frames : f > prev_victim /\ nframes[f] > 0 /\ Evictable(f)}
VictimBefore == {f \in Frames : f <= prev_victim /\ nframes[f] > 0 /\ Evictable(f)}

get_victim ==
  IF nframes[prev_victim] = 0
    THEN IF Evictable(prev_victim) THEN prev_victim ELSE -1
    ELSE IF VictimAfter # {} THEN Lowest(VictimAfter)
    ELSE IF VictimBefore # {} THEN Lowest(VictimBefore)
    ELSE -1

(* The assignments get_victim makes once it has chosen v. *)
MarkVictim(v) ==
  /\ prev_victim' = v
  /\ fixed' = fixed \cup {v}
  /\ swapping' = swapping \cup {pt_entry[v]}
  /\ UNCHANGED <<occ, nframes, pt_entry, frame_no, swp>>

ReassignVictimStillMarked(v, s, e) ==
  LET old == pt_entry[v] IN
  /\ IF old # NULL
       THEN /\ frame_no' = [frame_no EXCEPT ![old] = s]
            /\ swp' = swp \cup {old}
            /\ UNCHANGED swapping
       ELSE UNCHANGED pteVars
  /\ pt_entry' = [pt_entry EXCEPT ![v] = e]
  /\ UNCHANGED <<occ, fixed, nframes, prev_victim>>

(* get_n_frames after swap_set succeeded with slot s: the old owner, if it   *)
(* was not destroyed meanwhile, now points to the swap file; the frame       *)
(* belongs to e (NULL for a kernel frame).                                   *)
ReassignVictim(v, s, e) ==
  LET old == pt_entry[v] IN
  /\ IF old # NULL
       THEN /\ frame_no' = [frame_no EXCEPT ![old] = s]
            /\ swp' = swp \cup {old}
            /\ swapping' = swapping \ {old}
       ELSE UNCHANGED pteVars
  /\ pt_entry' = [pt_entry EXCEPT ![v] = e]
  /\ UNCHANGED <<occ, fixed, nframes, prev_victim>>

(* get_n_frames after swap_set failed. The store through a null pt_entry is  *)
(* not a state change of the coremap; the caller of this operator models it. *)
UnmarkVictim(v) ==
  /\ fixed' = fixed \ {v}
  /\ swapping' = swapping \ {pt_entry[v]}
  /\ UNCHANGED <<occ, nframes, pt_entry, prev_victim, frame_no, swp>>

-----------------------------------------------------------------------------
(* free_frame: the coalescing loop, with o the occ bits after the release.   *)
(* The first block of every maximal run of free blocks takes the whole run,  *)
(* the other heads of the run become interior frames.                        *)
NextOccupied(o, f) == CHOOSE g \in (f+1)..NPages :
                         /\ g = NPages \/ g \in o
                         /\ \A h \in (f+1)..(g-1) : h \notin o

Coalesced(o) ==
  [f \in Frames |-> IF nframes[f] = 0 \/ f \in o THEN nframes[f]
                    ELSE IF f > 0 /\ f-1 \notin o THEN 0
                    ELSE NextOccupied(o, f) - f]

FreeFrameWhileSwapping(page) ==
  /\ occ' = occ \ Block(page)
  /\ fixed' = fixed \ Block(page)
  /\ pt_entry' = [f \in Frames |-> IF f \in Block(page) THEN NULL ELSE pt_entry[f]]
  /\ nframes' = Coalesced(occ \ Block(page))
  /\ UNCHANGED prev_victim

free_frame(page) ==
  /\ IF pt_entry[page] # NULL /\ pt_entry[page] \in swapping
       THEN /\ fixed' = fixed \cup {page}
            /\ pt_entry' = [pt_entry EXCEPT ![page] = NULL]
            /\ UNCHANGED <<occ, nframes>>
       ELSE /\ occ' = occ \ Block(page)
            /\ fixed' = fixed \ Block(page)
            /\ pt_entry' = [f \in Frames |-> IF f \in Block(page) THEN NULL ELSE pt_entry[f]]
            /\ nframes' = Coalesced(occ \ Block(page))
  /\ UNCHANGED prev_victim

coremap_set_fixed(f) ==
  /\ fixed' = fixed \cup {f}
  /\ UNCHANGED <<occ, nframes, pt_entry, prev_victim>>

coremap_set_unfixed(f) ==
  /\ fixed' = fixed \ {f}
  /\ UNCHANGED <<occ, nframes, pt_entry, prev_victim>>
=============================================================================
