----------------------------- MODULE CoremapLoops -----------------------------
(***************************************************************************)
(* The three loops of kern/vm/coremap.c as they are written, iteration by  *)
(* iteration, against the closed forms that Coremap.tla uses for them.     *)
(* The closed forms are exact only while the block structure is sound, so  *)
(* the comparison is an invariant of the threads of FramePool.             *)
(***************************************************************************)
EXTENDS FramePool, Sequences

(* get_n_frames, lines 80-85: NPages stands for "not found". *)
RECURSIVE SearchLoop(_, _)
SearchLoop(i, n) ==
  IF i >= NPages THEN NPages
  ELSE IF i \notin occ /\ nframes[i] >= n THEN i
  ELSE SearchLoop(i + nframes[i], n)

VictimLoopSkipsPrev(victim, loop) ==
  IF Evictable(victim) /\ victim # prev_victim THEN victim ELSE -1

(* get_victim, lines 25-30. *)
RECURSIVE VictimLoop(_, _)
VictimLoop(victim, loop) ==
  IF Evictable(victim) THEN victim
  ELSE IF loop THEN -1
  ELSE LET v == (victim + nframes[victim]) % NPages
       IN  VictimLoop(v, v = prev_victim)

(* free_frame, lines 200-205: the run of free blocks after i. *)
RECURSIVE MergeLoop(_, _, _, _)
MergeLoop(o, n, i, next) ==
  IF next < NPages /\ next \notin o
    THEN MergeLoop(o, [n EXCEPT ![i] = @ + n[next], ![next] = 0], i, next + n[next])
    ELSE <<n, next>>

(* free_frame, lines 198-210. *)
RECURSIVE CoalesceLoop(_, _, _, _)
CoalesceLoop(o, n, i, next) ==
  IF next >= NPages THEN n
  ELSE LET merged == IF i \in o THEN <<n, next>> ELSE MergeLoop(o, n, i, next)
           m  == merged[1]
           nx == merged[2]
       IN  IF nx >= NPages THEN m ELSE CoalesceLoop(o, m, nx, nx + m[nx])

(* The search of get_n_frames, the clock scan of get_victim and the         *)
(* coalescing pass of free_frame end, whatever frame they start from, and   *)
(* return what the closed forms say: the lowest block that fits, the next   *)
(* evictable frame in cyclic order, one block per maximal run of free       *)
(* frames.                                                                  *)
LoopsAgree ==
  /\ \A n \in 1..NPages :
       SearchLoop(FirstPage, n) = IF Found(n) THEN FirstFit(n) ELSE NPages
  /\ VictimLoop((prev_victim + nframes[prev_victim]) % NPages, FALSE) = get_victim
  /\ \A p \in Frames : nframes[p] > 0 /\ p \in occ =>
       CoalesceLoop(occ \ Block(p), nframes, 0, nframes[0]) = Coalesced(occ \ Block(p))
=============================================================================
