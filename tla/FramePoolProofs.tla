--------------------------- MODULE FramePoolProofs ---------------------------
(***************************************************************************)
(* The threads of FramePool keep the block structure of the coremap and    *)
(* the ownership of its frames, for every memory size and every number of  *)
(* threads and page table entries.                                         *)
(***************************************************************************)
EXTENDS FramePool, CoremapProofs

(***************************************************************************)
(* The invariant of FramePool holds initially, and the first half of a     *)
(* frame request keeps it: entering get_user_frame or get_kernel_frame,    *)
(* taking a free run, giving up, and marking a victim for swap-out.        *)
(***************************************************************************)

(* The boot state satisfies the inductive invariant. *)
LEMMA InitIInv == Init => IInv
<1> SUFFICES ASSUME Init PROVE IInv
  BY Zenon
<1>1. CoremapTypeOK /\ Tiles(occ, nframes) /\ Merged(occ, nframes) /\ ImageOccupied(occ)
  BY BootstrapTiles, Zenon DEF Init
<1>2. TypeOK
  BY <1>1, CoremapAssumption, FramePoolAssumption DEF Init, TypeOK, Locations, Frames
<1>3. \A f \in Frames : pt_entry[f] = NULL
  BY Zenon DEF Init, coremap_bootstrap
<1>4. Ownership
  BY <1>1, <1>3, Zenon DEF Init, Ownership, BackPointers, ResidentPages, SwappingMarks, Requests,
                    SwapOuts, KernelBlocks, Resident, Swapping, ImageOccupied
<1> QED BY <1>1, <1>2, <1>4, Zenon DEF IInv, BlocksTile, FullyCoalesced

-----------------------------------------------------------------------------
(* What Goto does to the locals. *)
LEMMA GotoType ==
  ASSUME TypeOK, NEW t \in Threads, NEW l \in Locations, NEW e \in Entries \cup {NULL},
         NEW n \in KernSizes \cup {1}, NEW a \in 0..MAX_ATTEMPTS-1, NEW f \in Frames,
         Goto(t, l, e, n, a, f)
  PROVE  /\ pc' \in [Threads -> Locations]
         /\ req' \in [Threads -> Entries \cup {NULL}]
         /\ num' \in [Threads -> KernSizes \cup {1}]
         /\ att' \in [Threads -> 0..MAX_ATTEMPTS-1]
         /\ frm' \in [Threads -> Frames]
         /\ pc'[t] = l /\ req'[t] = e /\ num'[t] = n /\ frm'[t] = f
         /\ \A u \in Threads \ {t} : /\ pc'[u] = pc[u] /\ req'[u] = req[u] /\ num'[u] = num[u]
                                     /\ frm'[u] = frm[u]
  BY Zenon DEF TypeOK, Goto

(* The constants the locals are reset to. *)
LEMMA Resets == 0 \in Frames /\ 0 \in 0..MAX_ATTEMPTS-1 /\ 1 \in KernSizes \cup {1}
  BY CoremapAssumption, FramePoolAssumption DEF Frames

(* A step of thread t that changes only its locals, from one place where it *)
(* holds no frame to another. *)
LEMMA LocalStep ==
  ASSUME IInv, NEW t \in Threads, NEW e \in Entries \cup {NULL}, NEW l \in {"idle", "try"},
         NEW n \in KernSizes \cup {1}, NEW a \in 0..MAX_ATTEMPTS-1,
         pc[t] \in {"idle", "try"},
         e # NULL /\ l = "try" => /\ n = 1 /\ ~Resident(e)
                                  /\ \A u \in Threads \ {t} : ~Handles(u, e),
         Goto(t, l, e, n, a, 0),
         UNCHANGED <<cmVars, pteVars, valid, kern, lost>>
  PROVE  IInv'
<1>1. /\ \A u \in Threads \ {t} : /\ pc'[u] = pc[u] /\ req'[u] = req[u] /\ num'[u] = num[u]
                                  /\ frm'[u] = frm[u]
      /\ pc'[t] = l /\ req'[t] = e /\ num'[t] = n
  BY Zenon DEF IInv, TypeOK, Goto
<1>2. TypeOK'
  <2>1. l \in Locations
    BY Zenon DEF Locations
  <2>2. CoremapTypeOK'
    BY Zenon DEF IInv, TypeOK, CoremapTypeOK, cmVars
  <2> QED BY <2>1, <2>2, GotoType, Resets, Zenon DEF IInv, TypeOK, pteVars
<1>3. BackPointers'
  BY <1>1 DEF IInv, Ownership, BackPointers, UsedByEntry, UsedByThread, Resident, cmVars, pteVars
<1>4. ResidentPages'
  BY Zenon DEF IInv, Ownership, ResidentPages, Resident, cmVars, pteVars
<1>5. SwappingMarks'
  BY <1>1 DEF IInv, Ownership, SwappingMarks, Resident, Swapping, cmVars, pteVars
<1>6. Requests'
  BY <1>1 DEF IInv, Ownership, Requests, Resident, Handles, cmVars, pteVars
<1>7. SwapOuts'
  BY <1>1 DEF IInv, Ownership, SwapOuts, UsedByEntry, Resident, Swapping, cmVars, pteVars
<1>8. KernelBlocks'
  BY Zenon DEF IInv, Ownership, KernelBlocks, cmVars
<1>9. BlocksTile' /\ FullyCoalesced'
  BY Zenon DEF IInv, BlocksTile, FullyCoalesced, cmVars, Tiles, Merged
<1> QED BY <1>2, <1>3, <1>4, <1>5, <1>6, <1>7, <1>8, <1>9, Zenon DEF IInv, Ownership

(* get_user_frame only records the request. *)
LEMMA GetUserFrameStep ==
  ASSUME IInv, NEW t \in Threads, NEW e \in Entries, get_user_frame(t, e)
  PROVE  IInv'
<1>1. 0 \in 0..MAX_ATTEMPTS-1
  BY FramePoolAssumption
<1> QED BY <1>1, LocalStep, Zenon DEF get_user_frame, Busy

(* ... and so does get_kernel_frame. *)
LEMMA GetKernelFrameStep ==
  ASSUME IInv, NEW t \in Threads, NEW n \in KernSizes, get_kernel_frame(t, n)
  PROVE  IInv'
<1>1. 0 \in 0..MAX_ATTEMPTS-1
  BY FramePoolAssumption
<1> QED BY <1>1, LocalStep, Zenon DEF get_kernel_frame

(* get_n_frames retries or gives up: no frame moves. *)
LEMMA NoFrameStep ==
  ASSUME IInv, NEW t \in Threads, NoFrame(t)
  PROVE  IInv'
<1>1. /\ 0 \in 0..MAX_ATTEMPTS-1 /\ pc[t] = "try" /\ 1 \in KernSizes \cup {1}
      /\ att[t] + 1 # MAX_ATTEMPTS => att[t] + 1 \in 0..MAX_ATTEMPTS-1
      /\ req[t] \in Entries \cup {NULL} /\ num[t] \in KernSizes \cup {1}
  BY FramePoolAssumption DEF IInv, TypeOK, NoFrame
<1>2. req[t] # NULL => /\ num[t] = 1 /\ ~Resident(req[t])
                       /\ \A u \in Threads \ {t} : ~Handles(u, req[t])
  BY <1>1, Zenon DEF IInv, Ownership, Requests, Handles
<1>3. UNCHANGED <<cmVars, pteVars, valid, kern, lost>>
  BY Zenon DEF NoFrame
<1>4. CASE att[t] + 1 = MAX_ATTEMPTS
  <2>1. Goto(t, "idle", NULL, 1, 0, 0)
    BY <1>4, Zenon DEF NoFrame, Retry, GoIdle
  <2> QED BY <1>1, <1>3, <2>1, LocalStep, Zenon
<1>5. CASE att[t] + 1 # MAX_ATTEMPTS
  <2>1. Goto(t, "try", req[t], num[t], att[t] + 1, 0)
    BY <1>5, Zenon DEF NoFrame, Retry
  <2> QED BY <1>1, <1>2, <1>3, <1>5, <2>1, LocalStep, Zenon
<1> QED BY <1>4, <1>5, Zenon

-----------------------------------------------------------------------------
(* get_n_frames, found: the new frames come out of a free block, so no      *)
(* owner's frame is touched.                                                *)
LEMMA TakeFreeStep ==
  ASSUME IInv, NEW t \in Threads, TakeFree(t)
  PROVE  IInv'
<1> DEFINE page == FirstFit(num[t])
           taken == page..(page + num[t] - 1)
<1>1. /\ TypeOK /\ CoremapTypeOK /\ Tiles(occ, nframes) /\ Merged(occ, nframes)
      /\ ImageOccupied(occ) /\ pc[t] = "try"
      /\ num[t] \in Nat \ {0} /\ num[t] \in KernSizes \cup {1} /\ req[t] \in Entries \cup {NULL}
  <2>1. num[t] \in KernSizes \cup {1} /\ req[t] \in Entries \cup {NULL}
    BY Zenon DEF IInv, TypeOK
  <2>2. num[t] \in Nat \ {0}
    <3>1. 1 \in Nat \ {0}
      OBVIOUS
    <3> QED BY <2>1, <3>1, FramePoolAssumption, Zenon
  <2> QED BY <2>1, <2>2, Zenon DEF IInv, TypeOK, BlocksTile, FullyCoalesced, Ownership, KernelBlocks,
                            ImageOccupied, TakeFree
<1>2. /\ page \in Frames /\ page \notin occ /\ page >= FirstPage
      /\ nframes[page] > 0 /\ nframes[page] >= num[t]
  BY <1>1, FirstFitIn, Zenon DEF TakeFree
<1> HIDE DEF page
<1>3. TakeFrames(page, num[t], req[t]) /\ Return(t, page) /\ UNCHANGED <<pteVars, valid, lost>>
  BY Zenon DEF TakeFree, page
<1>4. /\ CoremapTypeOK' /\ Tiles(occ', nframes') /\ Merged(occ', nframes') /\ ImageOccupied(occ')
  BY <1>1, <1>2, <1>3, TakeFramesTiles, Zenon
<1>5. \A f \in taken : f \in Frames /\ f \notin occ
  <2>1. page \in Nat /\ num[t] \in Nat /\ nframes[page] \in Nat
    BY <1>1, <1>2, CoremapAssumption DEF Frames, CoremapTypeOK
  <2>2. /\ page + nframes[page] <= NPages
        /\ \A g \in (page+1)..(page + nframes[page] - 1) : g \notin occ
    BY <1>1, <1>2, Zenon DEF Tiles
  <2> QED BY <1>2, <2>1, <2>2, CoremapAssumption DEF Frames
<1>6. /\ page \in taken
      /\ occ' = occ \cup taken /\ fixed' = fixed \cup taken
      /\ \A f \in Frames \ taken : pt_entry'[f] = pt_entry[f]
      /\ \A f \in taken : pt_entry'[f] = req[t]
      /\ \A f \in occ : nframes'[f] = nframes[f]
      /\ nframes'[page] = num[t]
  <2>1. page \in taken
    BY <1>1, <1>2, CoremapAssumption DEF Frames
  <2>2. \A f \in occ : f \in Frames /\ f # page
    BY <1>1, <1>2, Zenon DEF CoremapTypeOK
  <2>3. nframes[page] - num[t] > 0 => page + num[t] \notin occ
    <3>1. page \in Nat /\ num[t] \in Nat /\ nframes[page] \in Nat
      BY <1>1, <1>2, CoremapAssumption DEF Frames, CoremapTypeOK
    <3>2. \A g \in (page+1)..(page + nframes[page] - 1) : g \notin occ
      BY <1>1, <1>2, Zenon DEF Tiles
    <3> QED BY <1>1, <3>1, <3>2
  <2> QED BY <1>2, <1>3, <1>5, <2>1, <2>2, <2>3, Zenon DEF TakeFrames
<1> HIDE DEF taken
<1>7. \A f \in Frames : pt_entry[f] # NULL => f \in occ
  BY Zenon DEF IInv, Ownership, BackPointers
<1>8. CASE req[t] = NULL
  <2>1. /\ kern' = kern \cup {page} /\ Goto(t, "idle", NULL, 1, 0, 0)
    BY <1>3, <1>8, Zenon DEF Return, GoIdle
  <2>2. TypeOK'
    <3>1. "idle" \in Locations
      BY Zenon DEF Locations
    <3> QED BY <1>1, <1>2, <1>3, <1>4, <2>1, <3>1, GotoType, Resets, Zenon DEF TypeOK, pteVars
  <2>3. /\ pc'[t] = "idle"
        /\ \A u \in Threads \ {t} : /\ pc'[u] = pc[u] /\ req'[u] = req[u] /\ num'[u] = num[u]
                                    /\ frm'[u] = frm[u]
    BY <1>1, <2>1, Zenon DEF TypeOK, Goto
  <2>4. \A f \in Frames : pt_entry'[f] = pt_entry[f]
    BY <1>5, <1>6, <1>7, <1>8, Zenon
  <2>5. BackPointers'
    BY <1>1, <1>3, <1>6, <2>3, <2>4
       DEF IInv, Ownership, BackPointers, UsedByEntry, UsedByThread, Resident, pteVars
  <2>6. ResidentPages'
    BY <1>3, <2>4, Zenon DEF IInv, Ownership, ResidentPages, Resident, pteVars
  <2>7. SwappingMarks'
    BY <1>1, <1>3, <2>3, <2>4 DEF IInv, Ownership, SwappingMarks, Resident, Swapping, TypeOK, pteVars
  <2>8. Requests'
    BY <1>1, <1>3, <1>6, <2>3, <2>4 DEF IInv, Ownership, Requests, Resident, TypeOK, pteVars
  <2>9. SwapOuts'
    BY <1>1, <1>2, <1>3, <1>6, <2>1, <2>3, <2>4
       DEF IInv, Ownership, SwapOuts, UsedByEntry, Resident, Swapping, TypeOK, pteVars
  <2>10. KernelBlocks'
    <3>1. pt_entry'[page] = NULL
      BY <1>6, <1>8, Zenon
    <3>2. lost' = lost /\ \A f \in kern \cup lost : f \in Frames
      BY <1>1, <1>3, Zenon DEF TypeOK
    <3> QED BY <1>1, <1>2, <1>4, <1>6, <2>1, <2>4, <3>1, <3>2
            DEF IInv, Ownership, KernelBlocks, ImageOccupied
  <2> QED BY <1>4, <2>2, <2>5, <2>6, <2>7, <2>8, <2>9, <2>10, Zenon
          DEF IInv, Ownership, BlocksTile, FullyCoalesced
<1>9. CASE req[t] # NULL
  <2>1. kern' = kern /\ Goto(t, "got", req[t], 1, 0, page)
    BY <1>3, <1>9, Zenon DEF Return
  <2>2. TypeOK'
    <3>1. "got" \in Locations
      BY Zenon DEF Locations
    <3> QED BY <1>1, <1>2, <1>3, <1>4, <2>1, <3>1, GotoType, Resets, Zenon DEF TypeOK, pteVars
  <2>3. /\ pc'[t] = "got" /\ req'[t] = req[t] /\ num'[t] = 1 /\ frm'[t] = page
        /\ \A u \in Threads \ {t} : /\ pc'[u] = pc[u] /\ req'[u] = req[u] /\ num'[u] = num[u]
                                    /\ frm'[u] = frm[u]
    BY <1>1, <2>1, Zenon DEF TypeOK, Goto
  <2>4. /\ num[t] = 1 /\ ~Resident(req[t])
        /\ \A u \in Threads \ {t} : pc[u] # "idle" => req[u] # req[t]
    BY <1>1, <1>9, Zenon DEF IInv, Ownership, Requests
  <2>5. taken = {page}
    BY <1>2, <2>4, CoremapAssumption DEF taken, Frames
  <2>6. /\ pt_entry'[page] = req[t] /\ nframes'[page] = 1 /\ page \in fixed' /\ page \in occ'
        /\ \A f \in Frames \ {page} : pt_entry'[f] = pt_entry[f]
    BY <1>2, <1>6, <2>4, <2>5, Zenon
  <2>7. BackPointers'
    <3> SUFFICES ASSUME NEW f \in Frames, pt_entry'[f] # NULL
                 PROVE  /\ f \in occ' /\ nframes'[f] = 1 /\ f >= FirstPage
                        /\ \/ UsedByEntry(f, pt_entry[f])'
                           \/ \E u \in Threads : UsedByThread(f, u)' /\ req'[u] = pt_entry'[f]
      BY Zenon DEF BackPointers
    <3>1. CASE f = page
      BY <1>2, <2>3, <2>6, <3>1, Zenon DEF UsedByThread
    <3>2. CASE f # page
      BY <1>1, <1>3, <1>6, <2>3, <2>6, <3>2
         DEF IInv, Ownership, BackPointers, UsedByEntry, UsedByThread, Resident, pteVars
    <3> QED BY <3>1, <3>2, Zenon
  <2>8. ResidentPages'
    <3>1. ASSUME NEW e \in Entries, Resident(e) PROVE frame_no[e] \in Frames \ {page}
      BY <1>2, <1>7, <3>1, CoremapAssumption, Zenon DEF IInv, Ownership, ResidentPages
    <3> QED BY <1>3, <2>6, <3>1, Zenon DEF IInv, Ownership, ResidentPages, Resident, pteVars
  <2>9. SwappingMarks'
    BY <1>1, <1>2, <1>3, <2>3, <2>6
       DEF IInv, Ownership, SwappingMarks, SwapOuts, Resident, Swapping, TypeOK, pteVars
  <2>10. Requests'
    BY <1>1, <1>2, <1>3, <1>6, <1>7, <1>9, <2>3, <2>4, <2>6
       DEF IInv, Ownership, Requests, Resident, TypeOK, pteVars
  <2>11. SwapOuts'
    <3> SUFFICES ASSUME NEW u \in Threads, pc'[u] = "swap"
                 PROVE  /\ frm'[u] \in fixed' /\ frm'[u] \in occ' /\ nframes'[frm'[u]] = 1
                        /\ frm'[u] >= FirstPage /\ frm'[u] \notin kern' /\ frm'[u] \notin lost'
                        /\ pt_entry'[frm'[u]] # NULL =>
                             /\ UsedByEntry(frm[u], pt_entry[frm[u]])'
                             /\ pt_entry'[frm'[u]] \in swapping'
                        /\ \A w \in Threads \ {u} : Swapping(w)' => frm'[w] # frm'[u]
      BY Zenon DEF SwapOuts, Swapping
    <3>1. u # t /\ pc[u] = "swap" /\ frm'[u] = frm[u] /\ frm[u] \in Frames
      BY <1>1, <2>3, Zenon DEF TypeOK
    <3>2. /\ frm[u] \in fixed /\ frm[u] \in occ /\ nframes[frm[u]] = 1 /\ frm[u] >= FirstPage
          /\ frm[u] \notin kern /\ frm[u] \notin lost
          /\ pt_entry[frm[u]] # NULL =>
               UsedByEntry(frm[u], pt_entry[frm[u]]) /\ pt_entry[frm[u]] \in swapping
          /\ \A w \in Threads \ {u} : Swapping(w) => frm[w] # frm[u]
      BY <3>1, Zenon DEF IInv, Ownership, SwapOuts, Swapping
    <3>3. pt_entry'[frm[u]] = pt_entry[frm[u]] /\ nframes'[frm[u]] = nframes[frm[u]]
      BY <1>2, <1>6, <2>6, <3>1, <3>2, Zenon
    <3>4. \A w \in Threads \ {u} : Swapping(w)' => frm'[w] # frm'[u]
      BY <2>3, <3>1, <3>2, Zenon DEF Swapping
    <3> QED BY <1>3, <1>6, <2>1, <3>1, <3>2, <3>3, <3>4, Zenon DEF UsedByEntry, Resident, pteVars
  <2>12. KernelBlocks'
    BY <1>1, <1>2, <1>3, <1>4, <1>6, <2>1, <2>6, Zenon DEF IInv, Ownership, KernelBlocks, ImageOccupied, TypeOK
  <2> QED BY <1>4, <2>2, <2>7, <2>8, <2>9, <2>10, <2>11, <2>12, Zenon
          DEF IInv, Ownership, BlocksTile, FullyCoalesced
<1> QED BY <1>8, <1>9, Zenon

-----------------------------------------------------------------------------
(* get_victim: the chosen frame is not fixed, so no thread has it pinned or *)
(* just obtained, and no other thread is swapping it out.                   *)
LEMMA StartSwapOutStep ==
  ASSUME IInv, NEW t \in Threads, StartSwapOut(t)
  PROVE  IInv'
<1> DEFINE v == get_victim
           o == pt_entry[v]
<1>1. TypeOK /\ CoremapTypeOK /\ pc[t] = "try" /\ num[t] = 1 /\ att[t] \in 0..MAX_ATTEMPTS-1
      /\ req[t] \in Entries \cup {NULL}
  BY Zenon DEF IInv, TypeOK, StartSwapOut
<1>2. v \in Frames /\ v \in occ /\ v \notin fixed /\ o # NULL /\ o \in Entries
  BY <1>1, VictimIn, Zenon DEF StartSwapOut, Evictable, CoremapTypeOK
<1> HIDE DEF v
<1>3. MarkVictim(v) /\ Goto(t, "swap", req[t], 1, att[t], v) /\ UNCHANGED <<valid, kern, lost>>
  BY Zenon DEF StartSwapOut, v
<1> HIDE DEF o
<1>4. /\ prev_victim' = v /\ fixed' = fixed \cup {v} /\ swapping' = swapping \cup {o}
      /\ UNCHANGED <<occ, nframes, pt_entry, frame_no, swp, valid, kern, lost>>
  BY <1>3, Zenon DEF MarkVictim, o
<1>5. TypeOK'
  <2>1. "swap" \in Locations
    BY Zenon DEF Locations
  <2>2. CoremapTypeOK'
    BY <1>1, <1>2, <1>4, Zenon DEF CoremapTypeOK
  <2> QED BY <1>1, <1>2, <1>3, <1>4, <2>1, <2>2, GotoType, Resets, Zenon DEF TypeOK
<1>6. /\ pc'[t] = "swap" /\ req'[t] = req[t] /\ num'[t] = 1 /\ frm'[t] = v
      /\ \A u \in Threads \ {t} : /\ pc'[u] = pc[u] /\ req'[u] = req[u] /\ num'[u] = num[u]
                                  /\ frm'[u] = frm[u]
  BY <1>1, <1>3, Zenon DEF TypeOK, Goto
<1>7. /\ nframes[v] = 1 /\ v >= FirstPage /\ UsedByEntry(v, o) /\ v \notin kern /\ v \notin lost
  BY <1>2 DEF IInv, Ownership, BackPointers, Requests, KernelBlocks, UsedByThread, o
<1>8. \A u \in Threads : Swapping(u) \/ pc[u] = "got" \/ pc[u] = "pinned" => frm[u] # v
  BY <1>2, Zenon DEF IInv, Ownership, SwapOuts, Requests, Swapping
<1>9. \A e \in Entries : Resident(e)' <=> Resident(e)
  BY <1>4, Zenon DEF Resident
<1>10. BackPointers'
  BY <1>1, <1>4, <1>6 DEF IInv, Ownership, BackPointers, UsedByEntry, UsedByThread, Resident
<1>11. ResidentPages'
  BY <1>4, Zenon DEF IInv, Ownership, ResidentPages, Resident
<1>12. SwappingMarks'
  <2> SUFFICES ASSUME NEW e \in swapping'
               PROVE  Resident(e)' /\ \E u \in Threads : Swapping(u)' /\ pt_entry'[frm'[u]] = e
    BY Zenon DEF SwappingMarks
  <2>1. CASE e = o
    BY <1>2, <1>4, <1>6, <1>7, <2>1, Zenon DEF UsedByEntry, Resident, Swapping, o
  <2>2. CASE e \in swapping
    <3>1. Resident(e)
      BY <2>2, Zenon DEF IInv, Ownership, SwappingMarks
    <3>2. PICK u \in Threads : Swapping(u) /\ pt_entry[frm[u]] = e
      BY <2>2, Zenon DEF IInv, Ownership, SwappingMarks
    <3> QED BY <1>1, <1>4, <1>6, <3>1, <3>2, Zenon DEF Resident, Swapping
  <2> QED BY <1>4, <2>1, <2>2, Zenon
<1>13. Requests'
  <2>1. \A u \in Threads : pc[u] = "pinned" => req[u] # o
    BY <1>7, <1>8, Zenon DEF IInv, Ownership, Requests, UsedByEntry
  <2> QED BY <1>1, <1>4, <1>6, <1>9, <2>1 DEF IInv, Ownership, Requests, Resident, TypeOK
<1>14. SwapOuts'
  <2>1. \A e \in Entries, f \in Frames : UsedByEntry(f, e)' <=> UsedByEntry(f, e)
    BY <1>4, Zenon DEF UsedByEntry, Resident
  <2> SUFFICES ASSUME NEW u \in Threads, Swapping(u)'
               PROVE  /\ frm'[u] \in fixed' /\ frm'[u] \in occ' /\ nframes'[frm'[u]] = 1
                      /\ frm'[u] >= FirstPage /\ frm'[u] \notin kern' /\ frm'[u] \notin lost'
                      /\ pt_entry'[frm'[u]] # NULL =>
                           UsedByEntry(frm[u], pt_entry[frm[u]])' /\ pt_entry'[frm'[u]] \in swapping'
                      /\ \A w \in Threads \ {u} : Swapping(w)' => frm'[w] # frm'[u]
    BY Zenon DEF SwapOuts
  <2>2. CASE u = t
    BY <1>2, <1>4, <1>6, <1>7, <1>8, <2>2 DEF UsedByEntry, Resident, Swapping, o
  <2>3. CASE u # t
    BY <1>4, <1>6, <1>8, <2>3 DEF IInv, Ownership, SwapOuts, UsedByEntry, Resident, Swapping
  <2> QED BY <2>2, <2>3, Zenon
<1>15. KernelBlocks'
  BY <1>4, Zenon DEF IInv, Ownership, KernelBlocks
<1>16. BlocksTile' /\ FullyCoalesced'
  BY <1>4, Zenon DEF IInv, BlocksTile, FullyCoalesced, Tiles, Merged
<1> QED BY <1>5, <1>10, <1>11, <1>12, <1>13, <1>14, <1>15, <1>16, Zenon DEF IInv, Ownership

------------------------------------------------------------------------------
(***************************************************************************)
(* The second half of a frame request keeps it: the end of a swap-out,     *)
(* handing the frame to its page, swapping a page back in and unpinning it. *)
(***************************************************************************)

(* A frame being swapped out is obtained or pinned by no thread, and no      *)
(* thread handles the page in it.                                           *)
LEMMA VictimFree ==
  ASSUME IInv, NEW t \in Threads, pc[t] = "swap"
  PROVE  /\ \A u \in Threads : pc[u] = "got" \/ pc[u] = "pinned" => frm[u] # frm[t]
         /\ pt_entry[frm[t]] # NULL =>
              \A u \in Threads : pc[u] # "idle" => req[u] # pt_entry[frm[t]]
<1> DEFINE v == frm[t]
           o == pt_entry[v]
<1>1. o # NULL => UsedByEntry(v, o) /\ o \in swapping
  BY Zenon DEF IInv, Ownership, SwapOuts, Swapping
<1>2. ASSUME NEW u \in Threads, pc[u] = "got" \/ pc[u] = "pinned", frm[u] = v
      PROVE  FALSE
  <2>1. CASE pc[u] = "got"
    <3>1. req[u] # NULL /\ o = req[u] /\ ~Resident(req[u])
      BY <1>2, <2>1, Zenon DEF IInv, Ownership, Requests
    <3> QED BY <1>1, <3>1, Zenon DEF UsedByEntry
  <2>2. CASE pc[u] = "pinned"
    <3>1. /\ req[u] # NULL /\ Resident(req[u]) /\ frame_no[req[u]] = v /\ req[u] \notin swapping
          /\ req[u] \in Entries
      BY <1>2, <2>2, Zenon DEF IInv, Ownership, Requests, TypeOK
    <3>2. o = req[u]
      BY <3>1, Zenon DEF IInv, Ownership, ResidentPages
    <3> QED BY <1>1, <3>1, <3>2, Zenon
  <2> QED BY <1>2, <2>1, <2>2, Zenon
<1>3. ASSUME o # NULL, NEW u \in Threads, pc[u] # "idle", req[u] = o
      PROVE  FALSE
  <2>1. Resident(o)
    BY <1>1, <1>3, Zenon DEF UsedByEntry
  <2>2. pc[u] = "pinned"
    BY <1>3, <2>1, Zenon DEF IInv, Ownership, Requests
  <2> QED BY <1>1, <1>3, <2>2, Zenon DEF IInv, Ownership, Requests
<1> QED BY <1>2, <1>3, Zenon

(* get_n_frames after swap_set: the page that loses its frame points to the *)
(* slot, the frame goes to the thread's page or to the kernel.              *)
LEMMA SwapOutDoneStep ==
  ASSUME IInv, NEW t \in Threads, NEW s \in Slots, SwapOutDone(t, s)
  PROVE  IInv'
<1> DEFINE v == frm[t]
           o == pt_entry[v]
<1>1. /\ TypeOK /\ CoremapTypeOK /\ pc[t] = "swap"
      /\ req[t] \in Entries \cup {NULL} /\ v \in Frames /\ o \in Entries \cup {NULL}
  BY Zenon DEF IInv, TypeOK, CoremapTypeOK, SwapOutDone
<1>2. /\ v \in fixed /\ v \in occ /\ nframes[v] = 1 /\ v >= FirstPage
      /\ v \notin kern /\ v \notin lost
      /\ o # NULL => UsedByEntry(v, o) /\ o \in swapping
      /\ \A u \in Threads \ {t} : Swapping(u) => frm[u] # v
  BY <1>1, Zenon DEF IInv, Ownership, SwapOuts, Swapping
<1>3. \A u \in Threads : pc[u] = "got" \/ pc[u] = "pinned" => frm[u] # v
  BY <1>1, VictimFree, Zenon
<1>4. o # NULL => \A u \in Threads : pc[u] # "idle" => req[u] # o
  BY <1>1, VictimFree, Zenon
<1> HIDE DEF v
<1>5. /\ ReassignVictim(v, s, req[t]) /\ Return(t, v) /\ UNCHANGED <<valid, lost>>
  BY Zenon DEF SwapOutDone, v
<1>6. /\ pt_entry' = [pt_entry EXCEPT ![v] = req[t]]
      /\ UNCHANGED <<occ, fixed, nframes, prev_victim, valid, lost>>
      /\ o # NULL => /\ frame_no' = [frame_no EXCEPT ![o] = s]
                     /\ swp' = swp \cup {o} /\ swapping' = swapping \ {o}
      /\ o = NULL => UNCHANGED <<frame_no, swp, swapping>>
  BY <1>5, Zenon DEF ReassignVictim, pteVars
<1> HIDE DEF o
<1>7. \A f \in Frames \ {v} : pt_entry'[f] = pt_entry[f] /\ (o # NULL => pt_entry[f] # o)
  <2> SUFFICES ASSUME NEW f \in Frames \ {v}, o # NULL PROVE pt_entry[f] # o
    BY <1>1, <1>6, Zenon DEF CoremapTypeOK
  <2>1. frame_no[o] = v /\ Resident(o) /\ \A u \in Threads : pc[u] # "idle" => req[u] # o
    BY <1>2, <1>4, Zenon DEF UsedByEntry
  <2> QED BY <2>1 DEF IInv, Ownership, BackPointers, UsedByEntry, UsedByThread
<1>8. pt_entry'[v] = req[t]
  BY <1>1, <1>6, Zenon DEF CoremapTypeOK
<1>9. /\ \A e \in Entries : Resident(e)' <=> Resident(e) /\ e # o
      /\ \A e \in Entries : e # o => frame_no'[e] = frame_no[e]
      /\ \A e \in Entries : e # o => (e \in swapping' <=> e \in swapping)
      /\ o \notin swapping' /\ swapping' \subseteq swapping
  BY <1>1, <1>6, CoremapAssumption, Zenon DEF Resident, TypeOK
<1>10. /\ CoremapTypeOK' /\ frame_no' \in [Entries -> Frames \cup Slots]
       /\ swp' \subseteq Entries /\ swapping' \subseteq Entries
  <2>1. CoremapTypeOK'
    BY <1>1, <1>6, Zenon DEF CoremapTypeOK
  <2>2. CASE o = NULL
    BY <1>1, <1>6, <2>1, <2>2, Zenon DEF TypeOK
  <2>3. CASE o # NULL
    BY <1>1, <1>6, <2>1, <2>3 DEF TypeOK
  <2> QED BY <2>2, <2>3, Zenon
<1>11. ResidentPages'
  <2> SUFFICES ASSUME NEW e \in Entries, Resident(e)'
               PROVE  frame_no'[e] \in Frames /\ pt_entry'[frame_no'[e]] = e
    BY Zenon DEF ResidentPages
  <2>1. Resident(e) /\ e # o /\ frame_no'[e] = frame_no[e]
    BY <1>9, Zenon
  <2>2. frame_no[e] \in Frames /\ pt_entry[frame_no[e]] = e
    BY <2>1, Zenon DEF IInv, Ownership, ResidentPages
  <2>3. frame_no[e] # v
    BY <2>1, <2>2, Zenon DEF o
  <2> QED BY <1>7, <2>1, <2>2, <2>3, Zenon
<1>12. BlocksTile' /\ FullyCoalesced'
  BY <1>6, Zenon DEF IInv, BlocksTile, FullyCoalesced, Tiles, Merged
<1>13. ASSUME NEW l \in {"idle", "got"}, NEW e \in Entries \cup {NULL}, NEW f \in Frames,
              Goto(t, l, e, 1, 0, f),
              l = "idle" => /\ req[t] = NULL /\ kern' = kern \cup {v},
              l = "got" => /\ req[t] # NULL /\ e = req[t] /\ f = v /\ kern' = kern
       PROVE  IInv'
  <2>1. TypeOK'
    <3>1. l \in Locations
      BY Zenon DEF Locations
    <3>2. kern' \subseteq Frames /\ valid' \subseteq Entries /\ lost' \subseteq Frames
      BY <1>1, <1>6, <1>13, Zenon DEF TypeOK
    <3> QED BY <1>1, <1>10, <1>13, <3>1, <3>2, GotoType, Resets, Zenon DEF TypeOK
  <2>2. /\ pc'[t] = l /\ req'[t] = e /\ num'[t] = 1 /\ frm'[t] = f
        /\ \A u \in Threads \ {t} : /\ pc'[u] = pc[u] /\ req'[u] = req[u] /\ num'[u] = num[u]
                                    /\ frm'[u] = frm[u]
    BY <1>1, <1>13, Zenon DEF TypeOK, Goto
  <2>3. BackPointers'
    <3> SUFFICES ASSUME NEW g \in Frames, pt_entry'[g] # NULL
                 PROVE  /\ g \in occ' /\ nframes'[g] = 1 /\ g >= FirstPage
                        /\ \/ UsedByEntry(g, pt_entry[g])'
                           \/ \E u \in Threads : UsedByThread(g, u)' /\ req'[u] = pt_entry'[g]
      BY Zenon DEF BackPointers
    <3>1. CASE g = v
      BY <1>2, <1>6, <1>8, <1>13, <2>2, <3>1, Zenon DEF UsedByThread
    <3>2. CASE g # v
      <4>1. /\ pt_entry'[g] = pt_entry[g] /\ pt_entry[g] \in Entries /\ pt_entry[g] # o
            /\ pt_entry[g] # NULL
        BY <1>1, <1>7, <3>2, Zenon DEF CoremapTypeOK
      <4>2. /\ g \in occ /\ nframes[g] = 1 /\ g >= FirstPage
            /\ \/ UsedByEntry(g, pt_entry[g])
               \/ \E u \in Threads : UsedByThread(g, u) /\ req[u] = pt_entry[g]
        BY <4>1, Zenon DEF IInv, Ownership, BackPointers
      <4>3. UsedByEntry(g, pt_entry[g]) => UsedByEntry(g, pt_entry[g])'
        BY <1>9, <4>1, Zenon DEF UsedByEntry
      <4>4. \A u \in Threads : UsedByThread(g, u) => u # t /\ UsedByThread(g, u)'
        BY <1>1, <2>2, Zenon DEF UsedByThread
      <4> QED BY <1>6, <2>2, <4>1, <4>2, <4>3, <4>4, Zenon
    <3> QED BY <3>1, <3>2, Zenon
  <2>4. SwappingMarks'
    <3> SUFFICES ASSUME NEW d \in swapping'
                 PROVE  Resident(d)' /\ \E u \in Threads : Swapping(u)' /\ pt_entry'[frm'[u]] = d
      BY Zenon DEF SwappingMarks
    <3>1. d \in swapping /\ d # o /\ d \in Entries
      BY <1>1, <1>9, Zenon DEF TypeOK
    <3>2. Resident(d)
      BY <3>1, Zenon DEF IInv, Ownership, SwappingMarks
    <3>3. PICK u \in Threads : Swapping(u) /\ pt_entry[frm[u]] = d
      BY <3>1, Zenon DEF IInv, Ownership, SwappingMarks
    <3>4. u # t
      BY <3>1, <3>3, Zenon DEF o, v
    <3>5. frm[u] \in Frames /\ frm[u] # v
      BY <1>1, <1>2, <3>3, <3>4, Zenon DEF TypeOK
    <3> QED BY <1>7, <1>9, <2>2, <3>1, <3>2, <3>3, <3>4, <3>5 DEF Swapping
  <2>5. Requests'
    <3> SUFFICES ASSUME NEW u \in Threads
                 PROVE  /\ pc'[u] # "idle" /\ req'[u] # NULL =>
                             /\ num'[u] = 1
                             /\ Resident(req[u])' <=> pc'[u] = "pinned"
                             /\ \A w \in Threads \ {u} : pc'[w] # "idle" => req'[w] # req'[u]
                        /\ pc'[u] = "got" =>
                             req'[u] # NULL /\ pt_entry'[frm'[u]] = req'[u] /\ frm'[u] \in fixed'
                        /\ pc'[u] = "pinned" =>
                             /\ req'[u] # NULL /\ frame_no'[req'[u]] = frm'[u]
                             /\ frm'[u] \in fixed' /\ req'[u] \notin swapping'
      BY Zenon DEF Requests
    <3>1. CASE u = t
      <4>1. req[t] # NULL => /\ ~Resident(req[t]) /\ req[t] \in Entries
                             /\ \A w \in Threads \ {t} : pc[w] # "idle" => req[w] # req[t]
        BY <1>1, Zenon DEF IInv, Ownership, Requests
      <4> QED BY <1>2, <1>6, <1>8, <1>9, <1>13, <2>2, <3>1, <4>1, Zenon
    <3>2. CASE u # t
      <4>1. /\ pc'[u] = pc[u] /\ req'[u] = req[u] /\ num'[u] = num[u] /\ frm'[u] = frm[u]
            /\ req[u] \in Entries \cup {NULL} /\ frm[u] \in Frames
        BY <1>1, <2>2, <3>2, Zenon DEF TypeOK
      <4>2. pc[u] # "idle" /\ req[u] # NULL =>
              /\ num[u] = 1
              /\ Resident(req[u]) <=> pc[u] = "pinned"
              /\ \A w \in Threads \ {u} : pc[w] # "idle" => req[w] # req[u]
              /\ req[u] # o
        BY <1>4, <4>1, Zenon DEF IInv, Ownership, Requests
      <4>3. pc[u] # "idle" /\ req[u] # NULL =>
              \A w \in Threads \ {u} : pc'[w] # "idle" => req'[w] # req[u]
        BY <1>1, <1>13, <2>2, <3>2, <4>2, Zenon
      <4>4. pc[u] = "got" => /\ req[u] # NULL /\ pt_entry[frm[u]] = req[u] /\ frm[u] \in fixed
                             /\ frm[u] # v
        BY <1>3, Zenon DEF IInv, Ownership, Requests
      <4>5. pc[u] = "pinned" => /\ req[u] # NULL /\ frame_no[req[u]] = frm[u] /\ frm[u] \in fixed
                                /\ req[u] \notin swapping
        BY Zenon DEF IInv, Ownership, Requests
      <4> QED BY <1>6, <1>7, <1>9, <4>1, <4>2, <4>3, <4>4, <4>5, Zenon
    <3> QED BY <3>1, <3>2, Zenon
  <2>6. SwapOuts'
    <3> SUFFICES ASSUME NEW u \in Threads, Swapping(u)'
                 PROVE  /\ frm'[u] \in fixed' /\ frm'[u] \in occ' /\ nframes'[frm'[u]] = 1
                        /\ frm'[u] >= FirstPage /\ frm'[u] \notin kern' /\ frm'[u] \notin lost'
                        /\ pt_entry'[frm'[u]] # NULL =>
                             UsedByEntry(frm[u], pt_entry[frm[u]])' /\ pt_entry'[frm'[u]] \in swapping'
                        /\ \A w \in Threads \ {u} : Swapping(w)' => frm'[w] # frm'[u]
      BY Zenon DEF SwapOuts
    <3>1. u # t /\ Swapping(u) /\ frm'[u] = frm[u] /\ frm[u] \in Frames
      BY <1>1, <1>13, <2>2, Zenon DEF Swapping, TypeOK
    <3>2. frm[u] # v /\ pt_entry'[frm[u]] = pt_entry[frm[u]]
      BY <1>2, <1>7, <3>1, Zenon
    <3>3. /\ frm[u] \in fixed /\ frm[u] \in occ /\ nframes[frm[u]] = 1 /\ frm[u] >= FirstPage
          /\ frm[u] \notin kern /\ frm[u] \notin lost
          /\ pt_entry[frm[u]] # NULL =>
               UsedByEntry(frm[u], pt_entry[frm[u]]) /\ pt_entry[frm[u]] \in swapping
          /\ \A w \in Threads \ {u} : Swapping(w) => frm[w] # frm[u]
      BY <3>1, Zenon DEF IInv, Ownership, SwapOuts
    <3>4. \A w \in Threads \ {u} : Swapping(w)' => frm'[w] # frm[u]
      BY <1>13, <2>2, <3>3, Zenon DEF Swapping
    <3>5. pt_entry[frm[u]] # NULL =>
             UsedByEntry(frm[u], pt_entry[frm[u]])' /\ pt_entry[frm[u]] \in swapping'
      <4> SUFFICES ASSUME pt_entry[frm[u]] # NULL
                   PROVE  UsedByEntry(frm[u], pt_entry[frm[u]])' /\ pt_entry[frm[u]] \in swapping'
        BY Zenon
      <4>1. pt_entry[frm[u]] \in Entries /\ pt_entry[frm[u]] # o
        BY <1>1, <1>7, <3>1, <3>2, Zenon DEF CoremapTypeOK
      <4> QED BY <1>9, <3>1, <3>2, <3>3, <4>1, Zenon DEF UsedByEntry
    <3> QED BY <1>6, <1>13, <3>1, <3>2, <3>3, <3>4, <3>5, Zenon
  <2>7. KernelBlocks'
    <3>1. kern \subseteq Frames /\ lost \subseteq Frames
      BY <1>1, Zenon DEF TypeOK
    <3> QED BY <1>2, <1>6, <1>7, <1>8, <1>13, <3>1 DEF IInv, Ownership, KernelBlocks
  <2> QED BY <1>11, <1>12, <2>1, <2>3, <2>4, <2>5, <2>6, <2>7, Zenon DEF IInv, Ownership
<1>14. CASE req[t] = NULL
  <2>1. Goto(t, "idle", NULL, 1, 0, 0) /\ kern' = kern \cup {v}
    BY <1>5, <1>14, Zenon DEF Return, GoIdle
  <2> QED BY <1>13, <1>14, <2>1, Resets, Zenon
<1>15. CASE req[t] # NULL
  <2>1. Goto(t, "got", req[t], 1, 0, v) /\ kern' = kern
    BY <1>5, <1>15, Zenon DEF Return
  <2> QED BY <1>1, <1>13, <1>15, <2>1, Zenon
<1> QED BY <1>14, <1>15, Zenon

(* load_frame and load_from_swap: the page the frame was obtained for is    *)
(* handled by this thread only, so its entry can be written.                *)
LEMMA InstallStep ==
  ASSUME IInv, NEW t \in Threads, Install(t)
  PROVE  IInv'
<1> DEFINE e == req[t]
           v == frm[t]
<1>1. /\ TypeOK /\ CoremapTypeOK /\ pc[t] = "got" /\ e \in Entries /\ e # NULL /\ v \in Frames
      /\ pt_entry[v] = e /\ v \in fixed /\ ~Resident(e)
      /\ \A u \in Threads \ {t} : pc[u] # "idle" => req[u] # e
  BY Zenon DEF IInv, TypeOK, Install, Ownership, Requests
<1>2. e \notin swapping
  BY <1>1, Zenon DEF IInv, Ownership, SwappingMarks
<1> HIDE DEF e, v
<1>3. /\ frame_no' = [frame_no EXCEPT ![e] = v] /\ swp' = swp \ {e} /\ valid' = valid \cup {e}
      /\ UNCHANGED <<occ, fixed, nframes, pt_entry, prev_victim, swapping, kern, lost>>
      /\ Goto(t, "pinned", e, 1, 0, v)
  BY Zenon DEF Install, cmVars, e, v
<1>4. /\ \A d \in Entries : Resident(d)' <=> Resident(d) \/ d = e
      /\ \A d \in Entries \ {e} : frame_no'[d] = frame_no[d]
      /\ frame_no'[e] = v
  BY <1>1, <1>3, Zenon DEF Resident, TypeOK
<1>5. /\ pc'[t] = "pinned" /\ req'[t] = e /\ num'[t] = 1 /\ frm'[t] = v
      /\ \A u \in Threads \ {t} : /\ pc'[u] = pc[u] /\ req'[u] = req[u] /\ num'[u] = num[u]
                                  /\ frm'[u] = frm[u]
  BY <1>1, <1>3, Zenon DEF TypeOK, Goto
<1>6. TypeOK'
  <2>1. "pinned" \in Locations /\ e \in Entries \cup {NULL}
    BY <1>1, Zenon DEF Locations
  <2>2. CoremapTypeOK'
    BY <1>1, <1>3, Zenon DEF CoremapTypeOK
  <2> QED BY <1>1, <1>3, <2>1, <2>2, GotoType, Resets, Zenon DEF TypeOK
<1>7. BlocksTile' /\ FullyCoalesced'
  BY <1>3, Zenon DEF IInv, BlocksTile, FullyCoalesced, Tiles, Merged
<1>8. BackPointers'
  <2> SUFFICES ASSUME NEW g \in Frames, pt_entry[g] # NULL
               PROVE  /\ g \in occ /\ nframes[g] = 1 /\ g >= FirstPage
                      /\ \/ UsedByEntry(g, pt_entry[g])'
                         \/ \E u \in Threads : UsedByThread(g, u)' /\ req'[u] = pt_entry[g]
    BY <1>3, Zenon DEF BackPointers
  <2>1. /\ g \in occ /\ nframes[g] = 1 /\ g >= FirstPage /\ pt_entry[g] \in Entries
        /\ \/ UsedByEntry(g, pt_entry[g])
           \/ \E u \in Threads : UsedByThread(g, u) /\ req[u] = pt_entry[g]
    BY <1>1, Zenon DEF IInv, Ownership, BackPointers, CoremapTypeOK
  <2>2. UsedByEntry(g, pt_entry[g]) => UsedByEntry(g, pt_entry[g])'
    BY <1>1, <1>3, <1>4, <2>1, Zenon DEF UsedByEntry
  <2>3. ASSUME NEW u \in Threads, UsedByThread(g, u), req[u] = pt_entry[g]
        PROVE  \/ UsedByEntry(g, pt_entry[g])'
               \/ UsedByThread(g, u)' /\ req'[u] = pt_entry[g]
    <3>1. CASE u = t
      BY <1>1, <1>3, <1>4, <2>3, <3>1, Zenon DEF UsedByEntry, UsedByThread, e, v
    <3>2. CASE u # t
      BY <1>5, <2>3, <3>2, Zenon DEF UsedByThread
    <3> QED BY <3>1, <3>2, Zenon
  <2> QED BY <2>1, <2>2, <2>3, Zenon
<1>9. ResidentPages'
  BY <1>1, <1>3, <1>4 DEF IInv, Ownership, ResidentPages
<1>10. SwappingMarks'
  <2> SUFFICES ASSUME NEW d \in swapping
               PROVE  Resident(d)' /\ \E u \in Threads : Swapping(u)' /\ pt_entry[frm'[u]] = d
    BY <1>3, Zenon DEF SwappingMarks
  <2>1. /\ d \in Entries /\ Resident(d)
        /\ \E u \in Threads : Swapping(u) /\ pt_entry[frm[u]] = d
    BY <1>1, Zenon DEF IInv, Ownership, SwappingMarks, TypeOK
  <2> QED BY <1>1, <1>4, <1>5, <2>1, Zenon DEF Swapping
<1>11. Requests'
  <2> SUFFICES ASSUME NEW u \in Threads
               PROVE  /\ pc'[u] # "idle" /\ req'[u] # NULL =>
                           /\ num'[u] = 1
                           /\ Resident(req[u])' <=> pc'[u] = "pinned"
                           /\ \A w \in Threads \ {u} : pc'[w] # "idle" => req'[w] # req'[u]
                      /\ pc'[u] = "got" =>
                           req'[u] # NULL /\ pt_entry'[frm'[u]] = req'[u] /\ frm'[u] \in fixed'
                      /\ pc'[u] = "pinned" =>
                           /\ req'[u] # NULL /\ frame_no'[req'[u]] = frm'[u]
                           /\ frm'[u] \in fixed' /\ req'[u] \notin swapping'
    BY Zenon DEF Requests
  <2>1. CASE u = t
    BY <1>1, <1>2, <1>3, <1>4, <1>5, <2>1, Zenon
  <2>2. CASE u # t
    <3>1. /\ pc'[u] = pc[u] /\ req'[u] = req[u] /\ num'[u] = num[u] /\ frm'[u] = frm[u]
          /\ req[u] \in Entries \cup {NULL} /\ (pc[u] # "idle" => req[u] # e)
      BY <1>1, <1>5, <2>2, Zenon DEF TypeOK
    <3>2. /\ pc[u] # "idle" /\ req[u] # NULL =>
               /\ num[u] = 1
               /\ Resident(req[u]) <=> pc[u] = "pinned"
               /\ \A w \in Threads \ {u} : pc[w] # "idle" => req[w] # req[u]
          /\ pc[u] = "got" => req[u] # NULL /\ pt_entry[frm[u]] = req[u] /\ frm[u] \in fixed
          /\ pc[u] = "pinned" => /\ req[u] # NULL /\ frame_no[req[u]] = frm[u] /\ frm[u] \in fixed
                                 /\ req[u] \notin swapping
      BY Zenon DEF IInv, Ownership, Requests
    <3>3. pc[u] # "idle" => \A w \in Threads \ {u} : pc'[w] # "idle" => req'[w] # req[u] \/ req[u] = NULL
      BY <1>5, <3>1, <3>2, Zenon
    <3> QED BY <1>3, <1>4, <3>1, <3>2, <3>3, Zenon
  <2> QED BY <2>1, <2>2, Zenon
<1>12. SwapOuts'
  <2> SUFFICES ASSUME NEW u \in Threads, Swapping(u)'
               PROVE  /\ frm'[u] \in fixed /\ frm'[u] \in occ /\ nframes[frm'[u]] = 1
                      /\ frm'[u] >= FirstPage /\ frm'[u] \notin kern /\ frm'[u] \notin lost
                      /\ pt_entry[frm'[u]] # NULL =>
                           UsedByEntry(frm[u], pt_entry[frm[u]])' /\ pt_entry[frm'[u]] \in swapping
                      /\ \A w \in Threads \ {u} : Swapping(w)' => frm'[w] # frm'[u]
    BY <1>3, Zenon DEF SwapOuts
  <2>1. u # t /\ Swapping(u) /\ frm'[u] = frm[u] /\ frm[u] \in Frames
    BY <1>1, <1>5, Zenon DEF Swapping, TypeOK
  <2>2. /\ frm[u] \in fixed /\ frm[u] \in occ /\ nframes[frm[u]] = 1 /\ frm[u] >= FirstPage
        /\ frm[u] \notin kern /\ frm[u] \notin lost
        /\ pt_entry[frm[u]] # NULL =>
             UsedByEntry(frm[u], pt_entry[frm[u]]) /\ pt_entry[frm[u]] \in swapping
        /\ \A w \in Threads \ {u} : Swapping(w) => frm[w] # frm[u]
    BY <2>1, Zenon DEF IInv, Ownership, SwapOuts
  <2>3. pt_entry[frm[u]] # NULL => pt_entry[frm[u]] \in Entries /\ pt_entry[frm[u]] # e
    BY <1>1, <2>1, <2>2, Zenon DEF CoremapTypeOK, UsedByEntry
  <2>4. \A w \in Threads \ {u} : Swapping(w)' => frm'[w] # frm[u]
    BY <1>5, <2>2, Zenon DEF Swapping
  <2> QED BY <1>3, <1>4, <2>1, <2>2, <2>3, <2>4, Zenon DEF UsedByEntry
<1>13. KernelBlocks'
  BY <1>3, Zenon DEF IInv, Ownership, KernelBlocks
<1> QED BY <1>6, <1>7, <1>8, <1>9, <1>10, <1>11, <1>12, <1>13, Zenon DEF IInv, Ownership

(* pt_get_frame_from_page on a resident page: pinning excludes a swap-out    *)
(* that has not begun.                                                      *)
LEMMA ReloadStep ==
  ASSUME IInv, NEW t \in Threads, NEW e \in Entries, Reload(t, e)
  PROVE  IInv'
<1> DEFINE v == frame_no[e]
<1>1. /\ TypeOK /\ CoremapTypeOK /\ pc[t] = "idle" /\ Resident(e) /\ e \notin swapping /\ e # NULL
      /\ v \in Frames /\ pt_entry[v] = e
      /\ \A u \in Threads : pc[u] # "idle" => req[u] # e
  BY CoremapAssumption, Zenon DEF IInv, TypeOK, Reload, Ownership, ResidentPages, Busy, Handles
<1> HIDE DEF v
<1>2. /\ fixed' = fixed \cup {v}
      /\ UNCHANGED <<occ, nframes, pt_entry, prev_victim, frame_no, swp, swapping, valid, kern, lost>>
      /\ Goto(t, "pinned", e, 1, 0, v)
  BY Zenon DEF Reload, coremap_set_fixed, pteVars, v
<1>3. /\ pc'[t] = "pinned" /\ req'[t] = e /\ num'[t] = 1 /\ frm'[t] = v
      /\ \A u \in Threads \ {t} : /\ pc'[u] = pc[u] /\ req'[u] = req[u] /\ num'[u] = num[u]
                                  /\ frm'[u] = frm[u]
  BY <1>1, <1>2, Zenon DEF TypeOK, Goto
<1>4. TypeOK'
  <2>1. "pinned" \in Locations /\ e \in Entries \cup {NULL}
    BY Zenon DEF Locations
  <2>2. CoremapTypeOK'
    BY <1>1, <1>2, Zenon DEF CoremapTypeOK
  <2> QED BY <1>1, <1>2, <2>1, <2>2, GotoType, Resets, Zenon DEF TypeOK
<1>5. BlocksTile' /\ FullyCoalesced'
  BY <1>2, Zenon DEF IInv, BlocksTile, FullyCoalesced, Tiles, Merged
<1>6. BackPointers'
  BY <1>1, <1>2, <1>3 DEF IInv, Ownership, BackPointers, UsedByEntry, UsedByThread, Resident
<1>7. ResidentPages'
  BY <1>2, Zenon DEF IInv, Ownership, ResidentPages, Resident
<1>8. SwappingMarks'
  BY <1>1, <1>2, <1>3 DEF IInv, Ownership, SwappingMarks, Resident, Swapping
<1>9. Requests'
  BY <1>1, <1>2, <1>3 DEF IInv, Ownership, Requests, Resident, v
<1>10. SwapOuts'
  BY <1>1, <1>2, <1>3 DEF IInv, Ownership, SwapOuts, Swapping, UsedByEntry, Resident
<1>11. KernelBlocks'
  BY <1>2, Zenon DEF IInv, Ownership, KernelBlocks
<1> QED BY <1>4, <1>5, <1>6, <1>7, <1>8, <1>9, <1>10, <1>11, Zenon DEF IInv, Ownership

(* vm_fault unpins its frame: no other thread needs the bit. *)
LEMMA UnpinStep ==
  ASSUME IInv, NEW t \in Threads, Unpin(t)
  PROVE  IInv'
<1> DEFINE v == frm[t]
           e == req[t]
<1>1. /\ TypeOK /\ CoremapTypeOK /\ pc[t] = "pinned" /\ v \in Frames
      /\ e \in Entries /\ e # NULL /\ Resident(e) /\ frame_no[e] = v
      /\ \A u \in Threads \ {t} : pc[u] # "idle" => req[u] # e
  BY DEF IInv, TypeOK, Unpin, Ownership, Requests
<1>2. pt_entry[v] = e
  BY <1>1, Zenon DEF IInv, Ownership, ResidentPages
<1>3. ASSUME NEW u \in Threads \ {t}, pc[u] = "got" \/ pc[u] = "pinned"
      PROVE  frm[u] # v
  <2>1. req[u] \in Entries /\ req[u] # e /\ pt_entry[frm[u]] = req[u]
    BY <1>1, <1>3 DEF IInv, TypeOK, Ownership, Requests, ResidentPages
  <2> QED BY <1>2, <2>1, Zenon
<1>4. ASSUME NEW u \in Threads \ {t}, Swapping(u)
      PROVE  frm[u] # v
  BY <1>1, <1>4, VictimFree, Zenon DEF Swapping
<1>5. /\ fixed' = fixed \ {v}
      /\ UNCHANGED <<occ, nframes, pt_entry, prev_victim, frame_no, swp, swapping, valid, kern, lost>>
      /\ Goto(t, "idle", NULL, 1, 0, 0)
  BY Zenon DEF Unpin, coremap_set_unfixed, pteVars, GoIdle
<1> HIDE DEF v, e
<1>6. /\ pc'[t] = "idle"
      /\ \A u \in Threads \ {t} : /\ pc'[u] = pc[u] /\ req'[u] = req[u] /\ num'[u] = num[u]
                                  /\ frm'[u] = frm[u]
  BY <1>1, <1>5, Zenon DEF TypeOK, Goto
<1>7. TypeOK'
  <2>1. "idle" \in Locations /\ NULL \in Entries \cup {NULL}
    BY Zenon DEF Locations
  <2>2. CoremapTypeOK'
    BY <1>1, <1>5, Zenon DEF CoremapTypeOK
  <2> QED BY <1>1, <1>5, <2>1, <2>2, GotoType, Resets, Zenon DEF TypeOK
<1>8. BlocksTile' /\ FullyCoalesced'
  BY <1>5, Zenon DEF IInv, BlocksTile, FullyCoalesced, Tiles, Merged
<1>9. BackPointers'
  <2> SUFFICES ASSUME NEW f \in Frames, pt_entry'[f] # NULL
               PROVE  /\ f \in occ' /\ nframes'[f] = 1 /\ f >= FirstPage
                      /\ \/ UsedByEntry(f, pt_entry[f])'
                         \/ \E u \in Threads : UsedByThread(f, u)' /\ req'[u] = pt_entry'[f]
    BY Zenon DEF BackPointers
  <2>1. /\ f \in occ /\ nframes[f] = 1 /\ f >= FirstPage
        /\ \/ UsedByEntry(f, pt_entry[f])
           \/ \E u \in Threads : UsedByThread(f, u) /\ req[u] = pt_entry[f]
    BY <1>5, Zenon DEF IInv, Ownership, BackPointers
  <2>2. CASE UsedByEntry(f, pt_entry[f])
    BY <1>5, <2>1, <2>2, Zenon DEF UsedByEntry, Resident
  <2>3. ASSUME NEW u \in Threads, UsedByThread(f, u), req[u] = pt_entry[f]
        PROVE  UsedByThread(f, u)' /\ req'[u] = pt_entry'[f]
    BY <1>1, <1>5, <1>6, <2>3, Zenon DEF UsedByThread
  <2> QED BY <1>5, <2>1, <2>2, <2>3, Zenon
<1>10. ResidentPages'
  BY <1>5, Zenon DEF IInv, Ownership, ResidentPages, Resident
<1>11. SwappingMarks'
  BY <1>1, <1>5, <1>6 DEF IInv, Ownership, SwappingMarks, Resident, Swapping
<1>12. Requests'
  BY <1>1, <1>3, <1>5, <1>6 DEF IInv, Ownership, Requests, Resident
<1>13. SwapOuts'
  BY <1>1, <1>4, <1>5, <1>6 DEF IInv, Ownership, SwapOuts, Swapping, UsedByEntry, Resident
<1>14. KernelBlocks'
  BY <1>5, Zenon DEF IInv, Ownership, KernelBlocks
<1> QED BY <1>7, <1>8, <1>9, <1>10, <1>11, <1>12, <1>13, <1>14, Zenon DEF IInv, Ownership

------------------------------------------------------------------------------
(***************************************************************************)
(* A failed swap-out and freeing keep it too; what follows from it.        *)
(***************************************************************************)

(* swap_set failed: the victim stays with its owner and is no longer pinned; *)
(* without an owner it is lost.                                             *)
LEMMA SwapOutFailsStep ==
  ASSUME IInv, NEW t \in Threads, SwapOutFails(t)
  PROVE  IInv'
<1> DEFINE v == frm[t]
           o == pt_entry[v]
<1>1. /\ TypeOK /\ CoremapTypeOK /\ pc[t] = "swap" /\ v \in Frames /\ o \in Entries \cup {NULL}
      /\ req[t] \in Entries \cup {NULL} /\ num[t] \in KernSizes \cup {1}
      /\ att[t] + 1 # MAX_ATTEMPTS => att[t] + 1 \in 0..MAX_ATTEMPTS-1
  BY FramePoolAssumption DEF IInv, TypeOK, CoremapTypeOK, SwapOutFails
<1>2. /\ v \in occ /\ nframes[v] = 1 /\ v >= FirstPage /\ v \notin kern
      /\ \A u \in Threads \ {t} : Swapping(u) => frm[u] # v
      /\ o # NULL => UsedByEntry(v, o)
  BY <1>1, Zenon DEF IInv, Ownership, SwapOuts, Swapping
<1>3. \A u \in Threads : pc[u] = "got" \/ pc[u] = "pinned" => frm[u] # v
  BY <1>1, VictimFree, Zenon
<1>4. ASSUME NEW u \in Threads \ {t}, Swapping(u)
      PROVE  /\ frm[u] \in Frames
             /\ pt_entry[frm[u]] # NULL => pt_entry[frm[u]] # o
  <2>1. frm[u] # v /\ (pt_entry[frm[u]] # NULL => UsedByEntry(frm[u], pt_entry[frm[u]]))
    BY <1>2, <1>4, Zenon DEF IInv, Ownership, SwapOuts
  <2> QED BY <1>1, <1>2, <2>1, Zenon DEF UsedByEntry, TypeOK
<1>5. req[t] # NULL => /\ num[t] = 1 /\ ~Resident(req[t])
                       /\ \A u \in Threads \ {t} : pc[u] # "idle" => req[u] # req[t]
  BY <1>1, Zenon DEF IInv, Ownership, Requests
<1>6. /\ fixed' = fixed \ {v} /\ swapping' = swapping \ {o}
      /\ UNCHANGED <<occ, nframes, pt_entry, prev_victim, frame_no, swp, valid, kern>>
      /\ o = NULL => lost' = lost \cup {v}
      /\ o # NULL => lost' = lost
  BY Zenon DEF SwapOutFails, UnmarkVictim
<1>7. \/ Goto(t, "idle", NULL, 1, 0, 0)
      \/ att[t] + 1 # MAX_ATTEMPTS /\ Goto(t, "try", req[t], num[t], att[t] + 1, 0)
  BY Zenon DEF SwapOutFails, Retry, GoIdle
<1> HIDE DEF v, o
<1>8. ASSUME NEW l \in {"idle", "try"}, NEW e \in Entries \cup {NULL},
             NEW n \in KernSizes \cup {1}, NEW a \in 0..MAX_ATTEMPTS-1,
             l = "try" => e = req[t] /\ n = num[t],
             Goto(t, l, e, n, a, 0)
      PROVE  IInv'
  <2>1. /\ pc'[t] = l /\ req'[t] = e /\ num'[t] = n
        /\ \A u \in Threads \ {t} : /\ pc'[u] = pc[u] /\ req'[u] = req[u] /\ num'[u] = num[u]
                                    /\ frm'[u] = frm[u]
    BY <1>1, <1>8, Zenon DEF TypeOK, Goto
  <2>2. TypeOK'
    <3>1. l \in Locations
      BY Zenon DEF Locations
    <3>2. CoremapTypeOK' /\ swapping' \subseteq Entries /\ lost' \subseteq Frames
      BY <1>1, <1>6, Zenon DEF CoremapTypeOK, TypeOK
    <3> QED BY <1>1, <1>6, <1>8, <3>1, <3>2, GotoType, Resets, Zenon DEF TypeOK
  <2>3. BlocksTile' /\ FullyCoalesced'
    BY <1>6, Zenon DEF IInv, BlocksTile, FullyCoalesced, Tiles, Merged
  <2>4. BackPointers'
    BY <1>1, <1>6, <2>1 DEF IInv, Ownership, BackPointers, UsedByEntry, UsedByThread, Resident
  <2>5. ResidentPages'
    BY <1>6, Zenon DEF IInv, Ownership, ResidentPages, Resident
  <2>6. SwappingMarks'
    <3> SUFFICES ASSUME NEW d \in swapping, d # o
                 PROVE  Resident(d)' /\ \E u \in Threads : Swapping(u)' /\ pt_entry[frm'[u]] = d
      BY <1>6, Zenon DEF SwappingMarks
    <3>1. Resident(d)
      BY Zenon DEF IInv, Ownership, SwappingMarks
    <3>2. PICK u \in Threads : Swapping(u) /\ pt_entry[frm[u]] = d
      BY Zenon DEF IInv, Ownership, SwappingMarks
    <3>3. u # t
      BY <3>2, Zenon DEF o, v
    <3> QED BY <1>6, <2>1, <3>1, <3>2, <3>3, Zenon DEF Swapping, Resident
  <2>7. Requests'
    BY <1>1, <1>3, <1>5, <1>6, <1>8, <2>1 DEF IInv, Ownership, Requests, Resident
  <2>8. SwapOuts'
    <3> SUFFICES ASSUME NEW u \in Threads, Swapping(u)'
                 PROVE  /\ frm'[u] \in fixed' /\ frm'[u] \in occ /\ nframes[frm'[u]] = 1
                        /\ frm'[u] >= FirstPage /\ frm'[u] \notin kern /\ frm'[u] \notin lost'
                        /\ pt_entry[frm'[u]] # NULL =>
                             UsedByEntry(frm[u], pt_entry[frm[u]])' /\ pt_entry[frm'[u]] \in swapping'
                        /\ \A w \in Threads \ {u} : Swapping(w)' => frm'[w] # frm'[u]
      BY <1>6, Zenon DEF SwapOuts
    <3>1. u # t /\ Swapping(u) /\ frm'[u] = frm[u]
      BY <1>8, <2>1, Zenon DEF Swapping
    <3>2. /\ frm[u] \in fixed /\ frm[u] \in occ /\ nframes[frm[u]] = 1 /\ frm[u] >= FirstPage
          /\ frm[u] \notin kern /\ frm[u] \notin lost
          /\ pt_entry[frm[u]] # NULL =>
               UsedByEntry(frm[u], pt_entry[frm[u]]) /\ pt_entry[frm[u]] \in swapping
          /\ \A w \in Threads \ {u} : Swapping(w) => frm[w] # frm[u]
      BY <3>1, Zenon DEF IInv, Ownership, SwapOuts
    <3>3. \A w \in Threads \ {u} : Swapping(w)' => frm'[w] # frm[u]
      BY <1>8, <2>1, <3>2, Zenon DEF Swapping
    <3>4. frm[u] # v /\ (pt_entry[frm[u]] # NULL => pt_entry[frm[u]] # o)
      BY <1>2, <1>4, <3>1, Zenon
    <3>5. frm[u] \notin lost'
      BY <1>6, <3>2, <3>4, Zenon
    <3> QED BY <1>6, <3>1, <3>2, <3>3, <3>4, <3>5, Zenon DEF UsedByEntry, Resident
  <2>9. KernelBlocks'
    BY <1>2, <1>6, Zenon DEF IInv, Ownership, KernelBlocks, o
  <2> QED BY <2>2, <2>3, <2>4, <2>5, <2>6, <2>7, <2>8, <2>9, Zenon DEF IInv, Ownership
<1> QED BY <1>1, <1>7, <1>8, Resets, Zenon

-----------------------------------------------------------------------------
(* free_frame on a block that is not being swapped out leaves the block     *)
(* heads in use as they are.                                                *)
LEMMA ReleaseOthers ==
  ASSUME CoremapTypeOK, Tiles(occ, nframes), Merged(occ, nframes), ImageOccupied(occ),
         NEW page \in Frames, page >= FirstPage, page \in occ, nframes[page] > 0,
         ~(pt_entry[page] # NULL /\ pt_entry[page] \in swapping),
         free_frame(page)
  PROVE  /\ \A g \in Frames : g # page /\ g \in occ /\ nframes[g] > 0 =>
              /\ g \in occ' /\ nframes'[g] = nframes[g] /\ pt_entry'[g] = pt_entry[g]
              /\ g \in fixed' <=> g \in fixed
         /\ \A g \in Frames : pt_entry'[g] # NULL => g # page /\ pt_entry'[g] = pt_entry[g]
         /\ pt_entry' \in [Frames -> Entries \cup {NULL}]
<1>1. /\ occ' = occ \ Block(page) /\ fixed' = fixed \ Block(page)
      /\ pt_entry' = [f \in Frames |-> IF f \in Block(page) THEN NULL ELSE pt_entry[f]]
  BY Zenon DEF free_frame
<1>2. /\ \A g \in Frames : g # page /\ nframes[g] > 0 => g \notin Block(page)
      /\ page \in Block(page)
  <2>1. page \in Nat /\ nframes[page] \in Nat
    BY CoremapAssumption DEF CoremapTypeOK, Frames
  <2>2. \A g \in (page+1)..(page + nframes[page] - 1) : nframes[g] = 0
    BY Zenon DEF Tiles
  <2>3. ASSUME NEW g \in Frames, g # page, nframes[g] > 0, g \in Block(page) PROVE FALSE
    <3>1. g \in (page+1)..(page + nframes[page] - 1)
      BY <2>1, <2>3 DEF Block, Frames
    <3>2. nframes[g] = 0
      BY <2>2, <3>1, Zenon
    <3> QED BY <2>3, <3>2
  <2>4. page \in Block(page)
    BY <2>1 DEF Block
  <2> QED BY <2>3, <2>4, Zenon
<1>3. \A f \in occ' : nframes'[f] = nframes[f]
  BY FreeFrameTiles, Zenon
<1> QED BY <1>1, <1>2, <1>3, Zenon DEF CoremapTypeOK

(* free_kpages: a kernel block holds no page and is swapped out by nobody. *)
LEMMA FreeKpagesStep ==
  ASSUME IInv, NEW k \in Frames, free_kpages(k)
  PROVE  IInv'
<1>1. /\ TypeOK /\ CoremapTypeOK /\ k \in kern /\ free_frame(k)
      /\ k >= FirstPage /\ k \in occ /\ nframes[k] > 0 /\ pt_entry[k] = NULL
      /\ Tiles(occ, nframes) /\ Merged(occ, nframes) /\ ImageOccupied(occ)
  BY Zenon DEF IInv, TypeOK, free_kpages, Ownership, KernelBlocks, BlocksTile, FullyCoalesced,
         ImageOccupied
<1>2. /\ CoremapTypeOK' /\ Tiles(occ', nframes') /\ Merged(occ', nframes') /\ ImageOccupied(occ')
  BY <1>1, FreeFrameTiles, Zenon
<1>3. /\ \A g \in Frames : g # k /\ g \in occ /\ nframes[g] > 0 =>
           /\ g \in occ' /\ nframes'[g] = nframes[g] /\ pt_entry'[g] = pt_entry[g]
           /\ g \in fixed' <=> g \in fixed
      /\ \A g \in Frames : pt_entry'[g] # NULL => g # k /\ pt_entry'[g] = pt_entry[g]
  BY <1>1, ReleaseOthers, Zenon
<1>4. /\ UNCHANGED <<frame_no, swp, swapping, valid, lost>>
      /\ UNCHANGED <<pc, req, num, att, frm>>
      /\ kern' = kern \ {k}
  BY Zenon DEF free_kpages, pteVars, threadVars
<1>5. TypeOK'
  BY <1>1, <1>2, <1>4, Zenon DEF TypeOK
<1>6. ASSUME NEW g \in Frames, pt_entry[g] # NULL
      PROVE  /\ g # k /\ g \in occ' /\ nframes'[g] = 1 /\ pt_entry'[g] = pt_entry[g]
             /\ g \in fixed' <=> g \in fixed
  <2>1. g # k /\ g \in occ /\ nframes[g] = 1
    BY <1>1, <1>6, Zenon DEF IInv, Ownership, BackPointers
  <2> QED BY <1>3, <2>1
<1>7. BackPointers'
  BY <1>3, <1>4, <1>6 DEF IInv, Ownership, BackPointers, UsedByEntry, UsedByThread, Resident
<1>8. ResidentPages'
  <2>1. ASSUME NEW e \in Entries, Resident(e)
        PROVE  frame_no[e] \in Frames /\ pt_entry'[frame_no[e]] = e
    <3>1. frame_no[e] \in Frames /\ pt_entry[frame_no[e]] = e /\ e # NULL
      BY <2>1, CoremapAssumption, Zenon DEF IInv, Ownership, ResidentPages
    <3> QED BY <1>6, <3>1, Zenon
  <2> QED BY <1>4, <2>1, Zenon DEF ResidentPages, Resident
<1>9. SwappingMarks'
  <2> SUFFICES ASSUME NEW d \in swapping
               PROVE  Resident(d) /\ \E u \in Threads : Swapping(u) /\ pt_entry'[frm[u]] = d
    BY <1>4, Zenon DEF SwappingMarks, Resident, Swapping
  <2>1. Resident(d) /\ d # NULL
    BY <1>1, CoremapAssumption, Zenon DEF IInv, TypeOK, Ownership, SwappingMarks
  <2>2. PICK u \in Threads : Swapping(u) /\ pt_entry[frm[u]] = d
    BY Zenon DEF IInv, Ownership, SwappingMarks
  <2>3. frm[u] \in Frames
    BY <1>1, Zenon DEF TypeOK
  <2> QED BY <1>6, <2>1, <2>2, <2>3, Zenon
<1>10. Requests'
  <2>1. ASSUME NEW u \in Threads, pc[u] = "got" \/ pc[u] = "pinned"
        PROVE  pt_entry[frm[u]] = req[u] /\ req[u] # NULL /\ frm[u] \in Frames
    <3>1. frm[u] \in Frames /\ req[u] \in Entries \cup {NULL} /\ req[u] # NULL
      BY <1>1, <2>1, Zenon DEF TypeOK, IInv, Ownership, Requests
    <3>2. CASE pc[u] = "got"
      BY <3>1, <3>2, Zenon DEF IInv, Ownership, Requests
    <3>3. CASE pc[u] = "pinned"
      BY <3>1, <3>3, Zenon DEF IInv, Ownership, Requests, ResidentPages
    <3> QED BY <2>1, <3>1, <3>2, <3>3, Zenon
  <2>2. ASSUME NEW u \in Threads, pc[u] = "got" \/ pc[u] = "pinned"
        PROVE  pt_entry'[frm[u]] = pt_entry[frm[u]] /\ (frm[u] \in fixed' <=> frm[u] \in fixed)
    BY <1>6, <2>1, <2>2, Zenon
  <2> QED BY <1>4, <2>2, Zenon DEF IInv, Ownership, Requests, Resident
<1>11. SwapOuts'
  <2>1. ASSUME NEW u \in Threads, Swapping(u)
        PROVE  /\ frm[u] \in occ' /\ nframes'[frm[u]] = 1 /\ pt_entry'[frm[u]] = pt_entry[frm[u]]
               /\ frm[u] \in fixed'
    <3>1. frm[u] \in Frames /\ frm[u] # k /\ frm[u] \in fixed /\ frm[u] \in occ /\ nframes[frm[u]] = 1
      BY <1>1, <2>1, Zenon DEF TypeOK, IInv, Ownership, SwapOuts
    <3> QED BY <1>3, <3>1
  <2> QED BY <1>4, <2>1, Zenon DEF IInv, Ownership, SwapOuts, Swapping, UsedByEntry, Resident
<1>12. KernelBlocks'
  <2>1. kern \subseteq Frames /\ lost \subseteq Frames
    BY <1>1, Zenon DEF TypeOK
  <2>2. \A g \in kern : g # k => /\ g >= FirstPage /\ g \in occ' /\ nframes'[g] > 0
                                 /\ pt_entry'[g] = NULL
    BY <1>3, <2>1, Zenon DEF IInv, Ownership, KernelBlocks
  <2>3. \A g \in lost : /\ g >= FirstPage /\ g \in occ' /\ nframes'[g] = 1 /\ pt_entry'[g] = NULL
                        /\ g \notin kern
    <3> SUFFICES ASSUME NEW g \in lost
                 PROVE  /\ g >= FirstPage /\ g \in occ' /\ nframes'[g] = 1 /\ pt_entry'[g] = NULL
                        /\ g \notin kern
      BY Zenon
    <3>1. g \in Frames /\ g >= FirstPage /\ g \in occ /\ nframes[g] = 1 /\ pt_entry[g] = NULL
          /\ g \notin kern
      BY <2>1, Zenon DEF IInv, Ownership, KernelBlocks
    <3>2. g # k
      BY <1>1, <3>1, Zenon
    <3> QED BY <1>3, <3>1, <3>2
  <2> QED BY <1>2, <1>4, <2>2, <2>3, Zenon DEF KernelBlocks, ImageOccupied
<1> QED BY <1>2, <1>5, <1>7, <1>8, <1>9, <1>10, <1>11, <1>12, Zenon
        DEF IInv, Ownership, BlocksTile, FullyCoalesced

(* What pt_destroy's treatment of one entry e does to the coremap, in its    *)
(* three cases: page in the swap file, page being swapped out, page in       *)
(* memory.                                                                  *)
DestroyEffect(e) ==
  /\ CoremapTypeOK' /\ Tiles(occ', nframes') /\ Merged(occ', nframes') /\ ImageOccupied(occ')
  /\ \A g \in Frames : pt_entry[g] # NULL /\ pt_entry[g] # e =>
       /\ g \in occ' /\ nframes'[g] = 1 /\ pt_entry'[g] = pt_entry[g]
       /\ g \in fixed' <=> g \in fixed
  /\ \A g \in Frames : pt_entry'[g] # NULL => pt_entry'[g] = pt_entry[g] /\ pt_entry[g] # e
  /\ \A u \in Threads : Swapping(u) =>
       frm[u] \in occ' /\ nframes'[frm[u]] = 1 /\ frm[u] \in fixed'
  /\ \A g \in kern \cup lost : g \in occ' /\ nframes'[g] = nframes[g] /\ pt_entry'[g] = NULL

(* What pt_destroy does to the coremap for an entry of each kind. *)
LEMMA DestroyCoremap ==
  ASSUME IInv, NEW e \in Entries, DestroyEntry(e)
  PROVE  DestroyEffect(e)
<1> DEFINE v == frame_no[e]
<1>1. /\ TypeOK /\ CoremapTypeOK /\ e \in valid /\ ~Busy(e) /\ e # NULL
      /\ kern \subseteq Frames /\ lost \subseteq Frames
      /\ Tiles(occ, nframes) /\ Merged(occ, nframes) /\ ImageOccupied(occ)
  BY CoremapAssumption, Zenon
     DEF IInv, TypeOK, DestroyEntry, Ownership, KernelBlocks, BlocksTile, FullyCoalesced, ImageOccupied
<1>2. ASSUME NEW g \in Frames, pt_entry[g] = e
      PROVE  Resident(e) /\ g = v
  <2>1. \A u \in Threads : UsedByThread(g, u) => req[u] # e
    BY <1>1, Zenon DEF Busy, Handles, UsedByThread
  <2>2. \/ UsedByEntry(g, e)
        \/ \E u \in Threads : UsedByThread(g, u) /\ req[u] = e
    BY <1>1, <1>2, Zenon DEF IInv, Ownership, BackPointers
  <2> QED BY <2>1, <2>2, Zenon DEF UsedByEntry
<1>3. \A g \in Frames : pt_entry[g] # NULL => g \in occ /\ nframes[g] = 1 /\ g >= FirstPage
  BY Zenon DEF IInv, Ownership, BackPointers
<1>4. \A g \in kern \cup lost : g \in Frames /\ g \in occ /\ nframes[g] > 0 /\ pt_entry[g] = NULL
  BY <1>1 DEF IInv, Ownership, KernelBlocks
<1>5. \A u \in Threads : Swapping(u) =>
        /\ frm[u] \in Frames /\ frm[u] \in occ /\ nframes[frm[u]] = 1 /\ frm[u] \in fixed
        /\ frm[u] \notin kern \cup lost
        /\ pt_entry[frm[u]] # NULL => pt_entry[frm[u]] \in swapping
  BY <1>1, Zenon DEF IInv, TypeOK, Ownership, SwapOuts
<1>6. CASE e \in swp
  <2>1. UNCHANGED <<occ, fixed, nframes, pt_entry, prev_victim>>
    BY <1>6, Zenon DEF DestroyEntry, cmVars
  <2>2. \A g \in Frames : pt_entry[g] # e
    BY <1>2, <1>6, Zenon DEF Resident
  <2>3. CoremapTypeOK' /\ Tiles(occ', nframes') /\ Merged(occ', nframes') /\ ImageOccupied(occ')
    BY <1>1, <2>1, Zenon DEF CoremapTypeOK, Tiles, Merged, ImageOccupied
  <2> QED BY <1>3, <1>4, <1>5, <2>1, <2>2, <2>3, Zenon DEF DestroyEffect
<1>7. CASE e \notin swp
  <2>1. /\ free_frame(v) /\ Resident(e) /\ v \in Frames /\ pt_entry[v] = e
        /\ v \in occ /\ nframes[v] = 1 /\ v >= FirstPage
    BY <1>1, <1>3, <1>7, Zenon DEF DestroyEntry, Resident, IInv, Ownership, ResidentPages
  <2> HIDE DEF v
  <2>2. CASE e \in swapping
    <3>1. /\ fixed' = fixed \cup {v} /\ pt_entry' = [pt_entry EXCEPT ![v] = NULL]
          /\ UNCHANGED <<occ, nframes, prev_victim>>
      BY <1>1, <2>1, <2>2, Zenon DEF free_frame
    <3>2. pt_entry'[v] = NULL /\ \A g \in Frames \ {v} : pt_entry'[g] = pt_entry[g] /\ pt_entry[g] # e
      BY <1>1, <1>2, <2>1, <3>1, Zenon DEF CoremapTypeOK
    <3>3. CoremapTypeOK' /\ Tiles(occ', nframes') /\ Merged(occ', nframes') /\ ImageOccupied(occ')
      <4>1. CoremapTypeOK'
        BY <1>1, <2>1, <3>1, Zenon DEF CoremapTypeOK
      <4> QED BY <1>1, <3>1, <4>1, Zenon DEF Tiles, Merged, ImageOccupied
    <3> QED BY <1>1, <1>3, <1>4, <1>5, <2>1, <3>1, <3>2, <3>3, Zenon DEF DestroyEffect
  <2>3. CASE e \notin swapping
    <3>1. CoremapTypeOK' /\ Tiles(occ', nframes') /\ Merged(occ', nframes') /\ ImageOccupied(occ')
      <4>1. nframes[v] > 0 /\ ~(pt_entry[v] # NULL /\ pt_entry[v] \in swapping)
        BY <2>1, <2>3
      <4> QED BY <1>1, <2>1, <4>1, FreeFrameTiles, Zenon
    <3>2. /\ \A g \in Frames : g # v /\ g \in occ /\ nframes[g] > 0 =>
               /\ g \in occ' /\ nframes'[g] = nframes[g] /\ pt_entry'[g] = pt_entry[g]
               /\ g \in fixed' <=> g \in fixed
          /\ \A g \in Frames : pt_entry'[g] # NULL => g # v /\ pt_entry'[g] = pt_entry[g]
      BY <1>1, <2>1, <2>3, ReleaseOthers
    <3>3. \A g \in kern \cup lost : g # v
      BY <1>1, <1>4, <2>1, Zenon
    <3>4. \A u \in Threads : Swapping(u) => frm[u] # v
      BY <1>1, <1>5, <2>1, <2>3, Zenon
    <3>5. \A g \in Frames : pt_entry[g] # NULL /\ pt_entry[g] # e => g # v /\ g \in occ /\ nframes[g] = 1
      BY <1>3, <2>1, Zenon
    <3>6. \A g \in Frames : pt_entry'[g] # NULL => pt_entry'[g] = pt_entry[g] /\ pt_entry[g] # e
      BY <1>2, <3>2, Zenon DEF v
    <3>7. \A u \in Threads : Swapping(u) =>
            frm[u] \in occ' /\ nframes'[frm[u]] = 1 /\ frm[u] \in fixed'
      BY <1>5, <3>2, <3>4
    <3>8. \A g \in kern \cup lost : g \in occ' /\ nframes'[g] = nframes[g] /\ pt_entry'[g] = NULL
      BY <1>4, <3>2, <3>3, Zenon
    <3> QED BY <3>1, <3>2, <3>5, <3>6, <3>7, <3>8 DEF DestroyEffect
  <2> QED BY <2>2, <2>3, Zenon
<1> QED BY <1>6, <1>7, Zenon

(* pt_destroy on one entry, whatever other threads are doing with its frame. *)
LEMMA DestroyEntryStep ==
  ASSUME IInv, NEW e \in Entries, DestroyEntry(e)
  PROVE  IInv'
<1>1. /\ TypeOK /\ CoremapTypeOK /\ e \in valid /\ e # NULL /\ 0 \in Frames
      /\ \A u \in Threads : pc[u] # "idle" => req[u] # e
      /\ kern \subseteq Frames /\ lost \subseteq Frames
  BY CoremapAssumption, Resets, Zenon DEF IInv, TypeOK, DestroyEntry, Busy, Handles
<1>2. DestroyEffect(e)
  BY DestroyCoremap, Zenon
<1>3. /\ valid' = valid \ {e} /\ frame_no' = [frame_no EXCEPT ![e] = 0]
      /\ swp' = swp \ {e} /\ swapping' = swapping \ {e}
      /\ UNCHANGED <<pc, req, num, att, frm, kern, lost>>
  BY Zenon DEF DestroyEntry, threadVars
<1>4. /\ \A d \in Entries : Resident(d)' <=> Resident(d) /\ d # e
      /\ \A d \in Entries \ {e} : frame_no'[d] = frame_no[d]
  BY <1>1, <1>3, Zenon DEF Resident, TypeOK
<1>5. TypeOK'
  <2>1. frame_no' \in [Entries -> Frames \cup Slots]
    BY <1>1, <1>3, Zenon DEF TypeOK
  <2> QED BY <1>1, <1>2, <1>3, <2>1, Zenon DEF TypeOK, DestroyEffect
<1>6. BackPointers'
  <2> SUFFICES ASSUME NEW g \in Frames, pt_entry'[g] # NULL
               PROVE  /\ g \in occ' /\ nframes'[g] = 1 /\ g >= FirstPage
                      /\ \/ UsedByEntry(g, pt_entry[g])'
                         \/ \E u \in Threads : UsedByThread(g, u)' /\ req'[u] = pt_entry'[g]
    BY Zenon DEF BackPointers
  <2>1. pt_entry'[g] = pt_entry[g] /\ pt_entry[g] # e /\ pt_entry[g] \in Entries
    BY <1>1, <1>2, Zenon DEF DestroyEffect, CoremapTypeOK
  <2>2. g \in occ' /\ nframes'[g] = 1
    BY <1>2, <2>1, Zenon DEF DestroyEffect
  <2>3. /\ g >= FirstPage
        /\ \/ UsedByEntry(g, pt_entry[g])
           \/ \E u \in Threads : UsedByThread(g, u) /\ req[u] = pt_entry[g]
    BY <2>1, Zenon DEF IInv, Ownership, BackPointers
  <2>4. UsedByEntry(g, pt_entry[g]) => UsedByEntry(g, pt_entry[g])'
    BY <1>4, <2>1, Zenon DEF UsedByEntry
  <2>5. \A u \in Threads : UsedByThread(g, u) => UsedByThread(g, u)'
    BY <1>3, Zenon DEF UsedByThread
  <2> QED BY <1>3, <2>1, <2>2, <2>3, <2>4, <2>5, Zenon
<1>7. ResidentPages'
  <2> SUFFICES ASSUME NEW d \in Entries, Resident(d)'
               PROVE  frame_no'[d] \in Frames /\ pt_entry'[frame_no'[d]] = d
    BY Zenon DEF ResidentPages
  <2>1. Resident(d) /\ d # e /\ frame_no'[d] = frame_no[d] /\ d # NULL
    BY <1>4, CoremapAssumption, Zenon
  <2>2. frame_no[d] \in Frames /\ pt_entry[frame_no[d]] = d
    BY <2>1, Zenon DEF IInv, Ownership, ResidentPages
  <2> QED BY <1>2, <2>1, <2>2, Zenon DEF DestroyEffect
<1>8. SwappingMarks'
  <2> SUFFICES ASSUME NEW d \in swapping, d # e
               PROVE  Resident(d)' /\ \E u \in Threads : Swapping(u) /\ pt_entry'[frm[u]] = d
    BY <1>3, Zenon DEF SwappingMarks, Swapping
  <2>1. Resident(d) /\ d # NULL /\ d \in Entries
    BY <1>1, CoremapAssumption, Zenon DEF IInv, TypeOK, Ownership, SwappingMarks
  <2>2. PICK u \in Threads : Swapping(u) /\ pt_entry[frm[u]] = d
    BY Zenon DEF IInv, Ownership, SwappingMarks
  <2>3. frm[u] \in Frames
    BY <1>1, Zenon DEF TypeOK
  <2> QED BY <1>2, <1>4, <2>1, <2>2, <2>3, Zenon DEF DestroyEffect
<1>9. Requests'
  <2> SUFFICES ASSUME NEW u \in Threads
               PROVE  /\ pc[u] # "idle" /\ req[u] # NULL =>
                           /\ num[u] = 1
                           /\ Resident(req[u])' <=> pc[u] = "pinned"
                           /\ \A w \in Threads \ {u} : pc[w] # "idle" => req[w] # req[u]
                      /\ pc[u] = "got" =>
                           req[u] # NULL /\ pt_entry'[frm[u]] = req[u] /\ frm[u] \in fixed'
                      /\ pc[u] = "pinned" =>
                           /\ req[u] # NULL /\ frame_no'[req[u]] = frm[u]
                           /\ frm[u] \in fixed' /\ req[u] \notin swapping'
    BY <1>3, Zenon DEF Requests
  <2>1. /\ pc[u] # "idle" /\ req[u] # NULL =>
             /\ num[u] = 1
             /\ Resident(req[u]) <=> pc[u] = "pinned"
             /\ \A w \in Threads \ {u} : pc[w] # "idle" => req[w] # req[u]
        /\ pc[u] = "got" => req[u] # NULL /\ pt_entry[frm[u]] = req[u] /\ frm[u] \in fixed
        /\ pc[u] = "pinned" => /\ req[u] # NULL /\ frame_no[req[u]] = frm[u] /\ frm[u] \in fixed
                               /\ req[u] \notin swapping
    BY Zenon DEF IInv, Ownership, Requests
  <2>2. frm[u] \in Frames /\ req[u] \in Entries \cup {NULL} /\ (pc[u] # "idle" => req[u] # e)
    BY <1>1, Zenon DEF TypeOK
  <2>3. pc[u] = "pinned" => pt_entry[frm[u]] = req[u]
    BY <2>1, <2>2, Zenon DEF IInv, Ownership, ResidentPages
  <2>4. pc[u] = "got" \/ pc[u] = "pinned" => pt_entry'[frm[u]] = req[u] /\ frm[u] \in fixed'
    BY <1>2, <2>1, <2>2, <2>3, Zenon DEF DestroyEffect
  <2> QED BY <1>3, <1>4, <2>1, <2>2, <2>4, Zenon
<1>10. SwapOuts'
  <2> SUFFICES ASSUME NEW u \in Threads, Swapping(u)
               PROVE  /\ frm[u] \in fixed' /\ frm[u] \in occ' /\ nframes'[frm[u]] = 1
                      /\ frm[u] >= FirstPage /\ frm[u] \notin kern /\ frm[u] \notin lost
                      /\ pt_entry'[frm[u]] # NULL =>
                           UsedByEntry(frm[u], pt_entry[frm[u]])' /\ pt_entry'[frm[u]] \in swapping'
                      /\ \A w \in Threads \ {u} : Swapping(w) => frm[w] # frm[u]
    BY <1>3, Zenon DEF SwapOuts, Swapping
  <2>1. /\ frm[u] >= FirstPage /\ frm[u] \notin kern /\ frm[u] \notin lost
        /\ pt_entry[frm[u]] # NULL =>
             UsedByEntry(frm[u], pt_entry[frm[u]]) /\ pt_entry[frm[u]] \in swapping
        /\ \A w \in Threads \ {u} : Swapping(w) => frm[w] # frm[u]
    BY Zenon DEF IInv, Ownership, SwapOuts
  <2>2. frm[u] \in fixed' /\ frm[u] \in occ' /\ nframes'[frm[u]] = 1 /\ frm[u] \in Frames
    BY <1>1, <1>2, Zenon DEF DestroyEffect, TypeOK
  <2>3. pt_entry'[frm[u]] # NULL =>
          /\ pt_entry'[frm[u]] = pt_entry[frm[u]] /\ pt_entry[frm[u]] # e /\ pt_entry[frm[u]] \in Entries
    BY <1>1, <1>2, <2>2 DEF DestroyEffect, CoremapTypeOK
  <2> QED BY <1>3, <1>4, <2>1, <2>2, <2>3, Zenon DEF UsedByEntry
<1>11. KernelBlocks'
  BY <1>2, <1>3, Zenon DEF IInv, Ownership, KernelBlocks, DestroyEffect, ImageOccupied
<1> QED BY <1>2, <1>5, <1>6, <1>7, <1>8, <1>9, <1>10, <1>11, Zenon
        DEF IInv, Ownership, BlocksTile, FullyCoalesced, DestroyEffect

-----------------------------------------------------------------------------
(* The inductive invariant: block structure, types and ownership of frames   *)
(* hold in every state of the frame pool, for every memory size, number of   *)
(* threads, pages, swap slots and attempts.                                  *)
THEOREM FramePoolInvariant == Spec => []IInv
<1>1. Init => IInv
  BY InitIInv, Zenon
<1>2. IInv /\ [Next]_vars => IInv'
  <2> SUFFICES ASSUME IInv, [Next]_vars PROVE IInv'
    BY Zenon
  <2>1. ASSUME NEW t \in Threads, NEW e \in Entries, get_user_frame(t, e) PROVE IInv'
    BY <2>1, GetUserFrameStep, Zenon
  <2>2. ASSUME NEW t \in Threads, NEW e \in Entries, Reload(t, e) PROVE IInv'
    BY <2>2, ReloadStep, Zenon
  <2>3. ASSUME NEW t \in Threads, NEW n \in KernSizes, get_kernel_frame(t, n) PROVE IInv'
    BY <2>3, GetKernelFrameStep, Zenon
  <2>4. ASSUME NEW t \in Threads, TakeFree(t) PROVE IInv'
    BY <2>4, TakeFreeStep, Zenon
  <2>5. ASSUME NEW t \in Threads, StartSwapOut(t) PROVE IInv'
    BY <2>5, StartSwapOutStep, Zenon
  <2>6. ASSUME NEW t \in Threads, NoFrame(t) PROVE IInv'
    BY <2>6, NoFrameStep, Zenon
  <2>7. ASSUME NEW t \in Threads, NEW s \in Slots, SwapOutDone(t, s) PROVE IInv'
    BY <2>7, SwapOutDoneStep, Zenon
  <2>8. ASSUME NEW t \in Threads, SwapOutFails(t) PROVE IInv'
    BY <2>8, SwapOutFailsStep, Zenon
  <2>9. ASSUME NEW t \in Threads, Install(t) PROVE IInv'
    BY <2>9, InstallStep, Zenon
  <2>10. ASSUME NEW t \in Threads, Unpin(t) PROVE IInv'
    BY <2>10, UnpinStep, Zenon
  <2>11. ASSUME NEW e \in Entries, DestroyEntry(e) PROVE IInv'
    BY <2>11, DestroyEntryStep, Zenon
  <2>12. ASSUME NEW f \in Frames, free_kpages(f) PROVE IInv'
    BY <2>12, FreeKpagesStep, Zenon
  <2>13. CASE UNCHANGED vars
    <3>1. UNCHANGED <<occ, fixed, nframes, pt_entry, prev_victim, frame_no, swp, swapping, valid,
                      pc, req, num, att, frm, kern, lost>>
      BY <2>13, Zenon DEF vars, cmVars, pteVars, threadVars
    <3>2. TypeOK'
      BY <3>1, Zenon DEF IInv, TypeOK, CoremapTypeOK
    <3>3. BlocksTile' /\ FullyCoalesced'
      BY <3>1, Zenon DEF IInv, BlocksTile, FullyCoalesced, Tiles, Merged
    <3>4. BackPointers' /\ ResidentPages' /\ SwappingMarks' /\ KernelBlocks'
      BY <3>1 DEF IInv, Ownership, BackPointers, ResidentPages, SwappingMarks, KernelBlocks,
                  UsedByEntry, UsedByThread, Resident, Swapping
    <3>5. Requests' /\ SwapOuts'
      BY <3>1 DEF IInv, Ownership, Requests, SwapOuts, UsedByEntry, Resident, Swapping
    <3> QED BY <3>2, <3>3, <3>4, <3>5, Zenon DEF IInv, Ownership
  <2> QED BY <2>1, <2>2, <2>3, <2>4, <2>5, <2>6, <2>7, <2>8, <2>9, <2>10, <2>11, <2>12, <2>13, Zenon DEF Next
<1> QED BY <1>1, <1>2, PTL DEF Spec

(* Every field of the coremap, of the page table entries and of the threads *)
(* keeps its range; the attempts counter stays below MAX_ATTEMPTS.          *)
THEOREM TypeCorrect == Spec => []TypeOK
<1>1. IInv => TypeOK
  BY Zenon DEF IInv
<1> QED BY <1>1, FramePoolInvariant, PTL

(* The hopping loops of coremap.c always land on block heads. *)
THEOREM BlocksTileAlways == Spec => []BlocksTile
<1>1. IInv => BlocksTile
  BY Zenon DEF IInv
<1> QED BY <1>1, FramePoolInvariant, PTL

(* There are never two adjacent free blocks. *)
THEOREM FullyCoalescedAlways == Spec => []FullyCoalesced
<1>1. IInv => FullyCoalesced
  BY Zenon DEF IInv
<1> QED BY <1>1, FramePoolInvariant, PTL

(* A frame has at most one user: one page, one thread or one kernel block,   *)
(* and is then marked occupied.                                             *)
THEOREM ExclusiveFramesAlways == Spec => []ExclusiveFrames
<1>1. ASSUME IInv PROVE ExclusiveFrames
  <2>1. /\ TypeOK /\ CoremapTypeOK /\ BackPointers /\ ResidentPages /\ Requests /\ KernelBlocks
        /\ Tiles(occ, nframes) /\ kern \subseteq Frames
    BY <1>1, Zenon DEF IInv, Ownership, TypeOK, BlocksTile
  <2>2. ASSUME NEW f \in Frames, f >= FirstPage, UsedByKernel(f)
        PROVE  f \in occ /\ (f \in kern \/ nframes[f] = 0)
    <3>1. PICK k \in kern : f \in Block(k)
      BY <2>2, CoremapAssumption DEF UsedByKernel, Frames
    <3>2. k \in Frames /\ k \in occ /\ nframes[k] > 0 /\ nframes[k] \in Nat /\ k \in Nat /\ f \in Nat
      BY <2>1, CoremapAssumption DEF KernelBlocks, CoremapTypeOK, Frames
    <3>3. f = k \/ f \in (k+1)..(k + nframes[k] - 1)
      BY <3>1, <3>2 DEF Block
    <3>4. \A g \in (k+1)..(k + nframes[k] - 1) : nframes[g] = 0 /\ (g \in occ <=> k \in occ)
      BY <2>1, <3>2, Zenon DEF Tiles
    <3> QED BY <3>2, <3>3, <3>4, Zenon
  <2>3. ASSUME NEW f \in Frames, pt_entry[f] # NULL
        PROVE  f \in occ /\ ~UsedByKernel(f) /\ f \notin lost
    <3>1. f \in occ /\ nframes[f] = 1 /\ f >= FirstPage
      BY <2>1, <2>3, Zenon DEF BackPointers
    <3>2. f \notin kern /\ f \notin lost
      BY <2>1, <2>3, Zenon DEF KernelBlocks
    <3> QED BY <2>2, <3>1, <3>2
  <2>4. ASSUME NEW f \in Frames, NEW e \in Entries, UsedByEntry(f, e)
        PROVE  /\ pt_entry[f] = e /\ e # NULL
               /\ \A d \in Entries \ {e} : ~UsedByEntry(f, d)
               /\ \A t \in Threads : ~UsedByThread(f, t)
    <3>1. pt_entry[f] = e /\ e # NULL
      BY <2>1, <2>4, CoremapAssumption, Zenon DEF UsedByEntry, ResidentPages
    <3>2. \A d \in Entries \ {e} : ~UsedByEntry(f, d)
      BY <2>1, <3>1, Zenon DEF UsedByEntry, ResidentPages
    <3>3. \A t \in Threads : UsedByThread(f, t) => pt_entry[f] = req[t] /\ ~Resident(req[t])
      BY <2>1, Zenon DEF UsedByThread, Requests
    <3> QED BY <2>4, <3>1, <3>2, <3>3, Zenon DEF UsedByEntry
  <2>5. ASSUME NEW f \in Frames, NEW t \in Threads, UsedByThread(f, t)
        PROVE  pt_entry[f] # NULL /\ \A u \in Threads \ {t} : ~UsedByThread(f, u)
    BY <2>1, <2>5 DEF UsedByThread, Requests
  <2>6. ASSUME NEW f \in Frames, UsedByKernel(f) PROVE f \in occ
    <3>1. CASE f < FirstPage
      <4>1. f \in 0..(FirstPage-1)
        BY <3>1, CoremapAssumption DEF Frames
      <4> QED BY <2>1, <4>1, Zenon DEF KernelBlocks
    <3>2. CASE f >= FirstPage
      BY <2>2, <2>6, <3>2, Zenon
    <3> QED BY <3>1, <3>2, CoremapAssumption DEF Frames
  <2>7. ASSUME NEW f \in Frames, NEW e \in Entries, UsedByEntry(f, e)
        PROVE  f \in occ /\ ~UsedByKernel(f) /\ f \notin lost
    BY <2>3, <2>4, <2>7, Zenon
  <2> QED BY <2>3, <2>4, <2>5, <2>6, <2>7, Zenon DEF ExclusiveFrames
<1> QED BY <1>1, FramePoolInvariant, PTL

(* A pinned frame is never being swapped out, nor is a frame by two threads. *)
THEOREM VictimsUnpinnedAlways == Spec => []VictimsUnpinned
<1>1. ASSUME IInv PROVE VictimsUnpinned
  <2> SUFFICES ASSUME NEW t \in Threads, Swapping(t)
               PROVE  /\ \A u \in Threads \ {t} :
                            pc[u] \in {"swap", "got", "pinned"} => frm[u] # frm[t]
                      /\ frm[t] \in fixed \cap occ /\ nframes[frm[t]] = 1
                      /\ pt_entry[frm[t]] # NULL => pt_entry[frm[t]] \in swapping
    BY Zenon DEF VictimsUnpinned
  <2>1. \A u \in Threads : pc[u] = "got" \/ pc[u] = "pinned" => frm[u] # frm[t]
    BY <1>1, VictimFree, Zenon DEF Swapping
  <2> QED BY <1>1, <2>1, Zenon DEF IInv, Ownership, SwapOuts, Swapping
<1> QED BY <1>1, FramePoolInvariant, PTL

(* A page marked swapping has a thread that is swapping it out. *)
THEOREM SwappingHasOwnerAlways == Spec => []SwappingHasOwner
<1>1. IInv => SwappingHasOwner
  BY Zenon DEF IInv, Ownership, SwappingMarks, SwappingHasOwner
<1> QED BY <1>1, FramePoolInvariant, PTL
==============================================================================
