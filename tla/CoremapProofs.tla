---------------------------- MODULE CoremapProofs ----------------------------
(***************************************************************************)
(* The operations of the coremap preserve its block structure, for every   *)
(* memory size.                                                            *)
(***************************************************************************)
EXTENDS Coremap, NaturalsInduction, WellFoundedInduction, TLAPS

(* A nonempty set of naturals has a least element. *)
LEMMA LeastNat ==
  ASSUME NEW S \in SUBSET Nat, S # {}
  PROVE  \E f \in S : \A g \in S : f <= g
<1> DEFINE R == {ss \in Nat \X Nat : ss[1] < ss[2]}
<1>1. IsWellFoundedOn(R, Nat)
  BY NatLessThanWellFounded, Zenon DEF OpToRel
<1>2. \A x, y \in Nat : y < x => <<y, x>> \in R
  OBVIOUS
<1> HIDE DEF R
<1>3. PICK x \in S : \A y \in S : ~(<<y, x>> \in R)
  BY <1>1, WFMin, Zenon
<1>4. ASSUME NEW y \in S PROVE x <= y
  <2>1. x \in Nat /\ y \in Nat
    OBVIOUS
  <2>2. ~(y < x)
    BY <1>2, <1>3, <2>1, Zenon
  <2> QED BY <2>1, <2>2
<1> QED BY <1>4

(* What Lowest returns, for the searches of get_n_frames and get_victim. *)
LEMMA LowestIn ==
  ASSUME NEW S \in SUBSET Frames, S # {}
  PROVE  /\ Lowest(S) \in S
         /\ \A g \in S : Lowest(S) <= g
<1>1. S \in SUBSET Nat
  BY CoremapAssumption DEF Frames
<1>2. \E f \in S : \A g \in S : f <= g
  BY <1>1, LeastNat
<1> QED BY <1>2, Zenon DEF Lowest

(* A free block that fits, when there is one. *)
LEMMA FirstFitIn ==
  ASSUME CoremapTypeOK, NEW n \in Nat, Found(n)
  PROVE  /\ FirstFit(n) \in Frames \ occ /\ FirstFit(n) >= FirstPage
         /\ nframes[FirstFit(n)] > 0 /\ nframes[FirstFit(n)] >= n
<1>1. FreeBlocks(n) \in SUBSET Frames
  BY CoremapAssumption DEF FreeBlocks, Frames
<1>2. FirstFit(n) \in FreeBlocks(n)
  BY <1>1, LowestIn DEF Found, FirstFit
<1> QED BY <1>2, CoremapAssumption DEF FreeBlocks, Frames

(* get_victim returns -1 or an evictable frame. *)
LEMMA VictimIn ==
  ASSUME CoremapTypeOK, get_victim # -1
  PROVE  get_victim \in Frames /\ Evictable(get_victim)
<1>1. VictimAfter \in SUBSET Frames /\ VictimBefore \in SUBSET Frames
  BY DEF VictimAfter, VictimBefore
<1>2. VictimAfter # {} => Lowest(VictimAfter) \in VictimAfter
  BY <1>1, LowestIn
<1>3. VictimBefore # {} => Lowest(VictimBefore) \in VictimBefore
  BY <1>1, LowestIn
<1> QED BY <1>2, <1>3 DEF get_victim, VictimAfter, VictimBefore, CoremapTypeOK

(* NextOccupied is the first occupied frame after f, or the end of memory. *)
LEMMA NextOccupiedIn ==
  ASSUME NEW o \in SUBSET Frames, NEW f \in Frames
  PROVE  /\ NextOccupied(o, f) \in (f+1)..NPages
         /\ NextOccupied(o, f) = NPages \/ NextOccupied(o, f) \in o
         /\ \A h \in (f+1)..(NextOccupied(o, f) - 1) : h \notin o
<1> DEFINE S == {g \in (f+1)..NPages : g = NPages \/ g \in o}
<1>1. f \in Nat /\ f < NPages /\ NPages \in Nat
  BY CoremapAssumption DEF Frames
<1>2. NPages \in S
  BY <1>1
<1>3. S \in SUBSET Nat /\ S # {}
  BY <1>1, <1>2
<1>4. \A g \in S : g \in (f+1)..NPages /\ (g = NPages \/ g \in o)
  OBVIOUS
<1>5. \A h \in (f+1)..NPages : h \in o => h \in S
  OBVIOUS
<1> HIDE DEF S
<1>6. PICK m \in S : \A g \in S : m <= g
  BY <1>3, LeastNat
<1>7. m \in (f+1)..NPages /\ (m = NPages \/ m \in o)
  BY <1>4, <1>6
<1>8. \A h \in (f+1)..(m-1) : h \notin o
  <2> SUFFICES ASSUME NEW h \in (f+1)..(m-1), h \in o PROVE FALSE
    OBVIOUS
  <2>1. h \in (f+1)..NPages /\ h < m
    BY <1>1, <1>7
  <2>2. m <= h
    BY <1>5, <1>6, <2>1
  <2> QED BY <1>1, <1>7, <2>1, <2>2
<1>9. \E g \in (f+1)..NPages : (g = NPages \/ g \in o) /\ \A h \in (f+1)..(g-1) : h \notin o
  BY <1>7, <1>8
<1> QED BY <1>9, Zenon DEF NextOccupied

-----------------------------------------------------------------------------
(* The kernel image is occupied. *)
ImageOccupied(o) == 0..(FirstPage-1) \subseteq o

(* coremap_bootstrap builds a sound block structure. *)
LEMMA BootstrapTiles ==
  ASSUME coremap_bootstrap
  PROVE  /\ CoremapTypeOK
         /\ Tiles(occ, nframes) /\ Merged(occ, nframes) /\ ImageOccupied(occ)
<1>1. CoremapTypeOK
  BY CoremapAssumption DEF coremap_bootstrap, CoremapTypeOK, Frames
<1>2. \A f \in Frames : nframes[f] > 0 => f = 0 \/ f = FirstPage
  BY CoremapAssumption DEF coremap_bootstrap, Frames
<1>3. /\ nframes[0] = FirstPage /\ nframes[FirstPage] = NPages - FirstPage
      /\ \A f \in Frames : f # 0 /\ f # FirstPage => nframes[f] = 0
      /\ occ = 0..FirstPage-1
  BY CoremapAssumption DEF coremap_bootstrap, Frames
<1>4. Tiles(occ, nframes)
  BY <1>1, <1>2, <1>3, CoremapAssumption DEF Tiles, Frames, CoremapTypeOK
<1> QED BY <1>1, <1>2, <1>3, <1>4, CoremapAssumption
        DEF Merged, ImageOccupied, Frames, CoremapTypeOK

(* get_n_frames taking k frames of a free block that is large enough. *)
LEMMA TakeFramesTiles ==
  ASSUME CoremapTypeOK, Tiles(occ, nframes), Merged(occ, nframes), ImageOccupied(occ),
         NEW page \in Frames, page >= FirstPage, page \notin occ,
         NEW k \in Nat \ {0}, nframes[page] >= k,
         NEW e \in Entries \cup {NULL}, TakeFrames(page, k, e)
  PROVE  /\ CoremapTypeOK'
         /\ Tiles(occ', nframes') /\ Merged(occ', nframes') /\ ImageOccupied(occ')
<1> DEFINE r == nframes[page] - k
<1>1. /\ page + nframes[page] <= NPages
      /\ page + nframes[page] < NPages => nframes[page + nframes[page]] > 0
      /\ \A g \in (page+1)..(page + nframes[page] - 1) : nframes[g] = 0 /\ g \notin occ
  <2>1. nframes[page] > 0
    BY CoremapAssumption DEF Frames, CoremapTypeOK
  <2> QED BY <2>1 DEF Tiles
<1>2. /\ r \in Nat /\ r <= NPages
      /\ NPages \in Nat /\ page \in Nat /\ k \in Nat
      /\ nframes[page] \in Nat /\ nframes[page] = k + r
  BY CoremapAssumption DEF Frames, CoremapTypeOK
<1>3. /\ nframes' = [f \in Frames |-> IF f = page THEN k
                                      ELSE IF f = page + k /\ r > 0 THEN r
                                      ELSE nframes[f]]
      /\ occ' = occ \cup (page..(page+k-1))
  BY DEF TakeFrames
<1>4. CoremapTypeOK'
  BY <1>1, <1>2, CoremapAssumption DEF TakeFrames, CoremapTypeOK, Frames
<1> HIDE DEF r
<1>5. \A f \in Frames :
        /\ f \in occ' <=> (f \in page..(page+k-1) \/ f \in occ)
        /\ f = page => nframes'[f] = k
        /\ f = page + k /\ r > 0 => nframes'[f] = r
        /\ f # page /\ (f # page + k \/ r = 0) => nframes'[f] = nframes[f]
  BY <1>2, <1>3 DEF Frames
<1>6. Tiles(occ', nframes')
  <2>1. nframes'[0] = FirstPage /\ nframes'[FirstPage] > 0
    <3>1. 0 \in Frames /\ FirstPage \in Frames /\ 0 # page /\ 0 # page + k /\ FirstPage # page + k
      BY <1>2, CoremapAssumption DEF Frames
    <3>2. nframes[0] = FirstPage /\ nframes[FirstPage] > 0
      BY DEF Tiles
    <3> QED BY <1>2, <1>5, <3>1, <3>2
  <2>2. ASSUME NEW f \in Frames, nframes'[f] = 0
        PROVE  f \in occ' <=> f-1 \in occ'
    <3>1. f # page /\ nframes[f] = 0 /\ f \in Nat /\ f < NPages
      BY <1>2, <1>5, <2>2 DEF Frames
    <3>2. f # page + k
      BY <1>1, <1>2, <1>5, <2>2, <3>1 DEF Frames
    <3>3. f # 0 /\ f - 1 \in Frames /\ (f \in occ <=> f-1 \in occ)
      BY <3>1, CoremapAssumption DEF Tiles, Frames
    <3> QED BY <1>2, <1>5, <3>1, <3>2, <3>3 DEF Frames, CoremapTypeOK
  <2>3. ASSUME NEW f \in Frames, nframes'[f] > 0
        PROVE  /\ f + nframes'[f] <= NPages
               /\ f + nframes'[f] < NPages => nframes'[f + nframes'[f]] > 0
               /\ \A g \in (f+1)..(f + nframes'[f] - 1) : nframes'[g] = 0 /\ (g \in occ' <=> f \in occ')
    <3> DEFINE m == nframes'[f]
    <3> SUFFICES /\ f + m <= NPages
                 /\ f + m < NPages => nframes'[f + m] > 0
                 /\ \A g \in (f+1)..(f + m - 1) : nframes'[g] = 0 /\ (g \in occ' <=> f \in occ')
      OBVIOUS
    <3>1. CASE f = page
      <4>1. m = k
        BY <1>5, <3>1
      <4>2. page + k < NPages => page + k \in Frames
        BY <1>2 DEF Frames
      <4>3. page + k < NPages => nframes'[page + k] > 0
        BY <1>1, <1>2, <1>5, <4>2
      <4>4. ASSUME NEW g \in (page+1)..(page+k-1)
            PROVE  nframes'[g] = 0 /\ g \in occ'
        <5>1. g \in Frames /\ g \in page..(page+k-1) /\ g # page /\ g # page + k
          BY <1>1, <1>2 DEF Frames
        <5>2. nframes[g] = 0
          BY <1>1, <1>2, <5>1
        <5> QED BY <1>5, <5>1, <5>2
      <4>5. page \in occ'
        BY <1>2, <1>5
      <4> HIDE DEF m
      <4> QED BY <1>1, <1>2, <3>1, <4>1, <4>3, <4>4, <4>5
    <3>2. CASE f = page + k /\ r > 0
      <4>1. m = r /\ f + m = page + nframes[page] /\ f \in Nat
        BY <1>2, <1>5, <3>2
      <4>2. page + nframes[page] < NPages => page + nframes[page] \in Frames
        BY <1>2, <4>1 DEF Frames
      <4>3. page + nframes[page] < NPages => nframes'[page + nframes[page]] > 0
        BY <1>1, <1>2, <1>5, <3>2, <4>1, <4>2
      <4>4. ASSUME NEW g \in (page+k+1)..(page+nframes[page]-1)
            PROVE  nframes'[g] = 0 /\ g \notin occ'
        <5>1. g \in Frames /\ g \notin page..(page+k-1) /\ g # page /\ g # page + k
          BY <1>1, <1>2, <4>1 DEF Frames
        <5>2. nframes[g] = 0 /\ g \notin occ
          BY <1>1, <1>2, <4>1, <5>1
        <5> QED BY <1>5, <5>1, <5>2
      <4>5. f \notin page..(page+k-1) /\ f \notin occ
        BY <1>1, <1>2, <3>2, <4>1
      <4>6. f \notin occ'
        BY <1>5, <4>5
      <4> HIDE DEF m
      <4> QED BY <1>1, <1>2, <3>2, <4>1, <4>3, <4>4, <4>6
    <3>3. CASE f # page /\ (f # page + k \/ r = 0)
      <4>1. m = nframes[f] /\ m \in Nat /\ m > 0 /\ f \in Nat /\ nframes[page] \in Nat
        BY <1>5, <2>3, <3>3 DEF Frames, CoremapTypeOK
      <4>2. /\ f + m <= NPages
            /\ f + m < NPages => nframes[f + m] > 0
            /\ \A g \in (f+1)..(f + m - 1) : nframes[g] = 0 /\ (g \in occ <=> f \in occ)
        BY <4>1 DEF Tiles
      <4>3. nframes[page] > 0
        BY <1>2, <4>1
      <4> HIDE DEF m
      <4>4. f < page \/ f >= page + nframes[page]
        <5>1. f \in (page+1)..(page + nframes[page] - 1) => nframes[f] = 0
          BY <1>1
        <5> QED BY <1>2, <3>3, <4>1, <5>1
      <4>5. f < page => f + m <= page
        <5>1. page \in (f+1)..(f + m - 1) => nframes[page] = 0
          BY <4>2
        <5> QED BY <1>2, <4>1, <4>3, <5>1
      <4>6. f + m <= page \/ f >= page + nframes[page]
        BY <4>4, <4>5
      <4>7. f + m < NPages => nframes'[f + m] > 0
        <5> SUFFICES ASSUME f + m < NPages PROVE nframes'[f + m] > 0
          OBVIOUS
        <5>1. f + m \in Frames /\ nframes[f + m] > 0
          BY <1>2, <4>1, <4>2 DEF Frames
        <5> QED BY <1>2, <1>5, <4>1, <5>1
      <4>8. f \in occ' <=> f \in occ
        BY <1>2, <1>5, <4>1, <4>6
      <4>9. ASSUME NEW g \in (f+1)..(f + m - 1)
            PROVE  nframes'[g] = 0 /\ (g \in occ' <=> f \in occ')
        <5>1. /\ g \in Frames /\ g \notin page..(page+k-1) /\ g # page
              /\ g # page + k \/ r = 0
          BY <1>2, <4>1, <4>2, <4>6 DEF Frames
        <5>2. nframes[g] = 0 /\ (g \in occ <=> f \in occ)
          BY <4>2
        <5> QED BY <1>5, <4>8, <5>1, <5>2
      <4> QED BY <4>2, <4>7, <4>9
    <3> QED BY <3>1, <3>2, <3>3, <1>2
  <2> QED BY <2>1, <2>2, <2>3 DEF Tiles
<1>7. Merged(occ', nframes')
  <2> SUFFICES ASSUME NEW f \in Frames \ occ', nframes'[f] > 0, f + nframes'[f] < NPages
               PROVE  f + nframes'[f] \in occ'
    BY DEF Merged
  <2>1. f \in Frames /\ f \notin occ /\ f # page /\ f \in Nat
    BY <1>2, <1>5 DEF Frames
  <2>2. CASE f = page + k /\ r > 0
    <3>1. f + nframes'[f] = page + nframes[page]
      BY <1>2, <1>5, <2>2
    <3>2. page + nframes[page] \in occ
      BY <1>1, <1>2, <3>1 DEF Merged, Frames
    <3> QED BY <1>3, <3>1, <3>2
  <2>3. CASE f # page + k \/ r = 0
    <3>1. nframes'[f] = nframes[f]
      BY <1>5, <2>1, <2>3
    <3>2. f + nframes[f] \in occ
      BY <2>1, <3>1 DEF Merged
    <3> QED BY <1>3, <3>1, <3>2
  <2> QED BY <1>2, <2>2, <2>3
<1>8. ImageOccupied(occ')
  BY <1>5, CoremapAssumption DEF ImageOccupied, Frames
<1> QED BY <1>4, <1>6, <1>7, <1>8

(* The coalescing pass of free_frame, on any sound block structure. *)
LEMMA CoalescedTiles ==
  ASSUME CoremapTypeOK, NEW o \in SUBSET Frames, Tiles(o, nframes), ImageOccupied(o)
  PROVE  /\ Coalesced(o) \in [Frames -> 0..NPages]
         /\ Tiles(o, Coalesced(o)) /\ Merged(o, Coalesced(o))
         /\ \A f \in o : Coalesced(o)[f] = nframes[f]
<1> DEFINE N == Coalesced(o)
           G(f) == NextOccupied(o, f)
<1>1. NPages \in Nat /\ FirstPage \in Frames /\ FirstPage > 0 /\ 0 \in Frames
  BY CoremapAssumption DEF Frames
<1>2. \A f \in Frames : f \in Nat /\ f < NPages /\ nframes[f] \in Nat /\ nframes[f] <= NPages
  BY CoremapAssumption DEF Frames, CoremapTypeOK
<1>3. \A f \in Frames : /\ G(f) \in (f+1)..NPages
                        /\ G(f) = NPages \/ G(f) \in o
                        /\ \A h \in (f+1)..(G(f) - 1) : h \notin o
  BY NextOccupiedIn
<1>4. \A f \in Frames :
        /\ nframes[f] = 0 \/ f \in o => N[f] = nframes[f]
        /\ nframes[f] > 0 /\ f \notin o /\ f > 0 /\ f-1 \notin o => N[f] = 0
        /\ nframes[f] > 0 /\ f \notin o /\ (f = 0 \/ f-1 \in o) => N[f] = G(f) - f
  BY <1>2 DEF Coalesced
<1>5. N \in [Frames -> 0..NPages]
  <2>1. ASSUME NEW f \in Frames PROVE N[f] \in 0..NPages
    <3>1. G(f) - f \in 0..NPages
      BY <1>1, <1>2, <1>3
    <3> HIDE DEF N, G
    <3> QED BY <1>1, <1>2, <1>4, <3>1
  <2>2. N = [f \in Frames |-> N[f]]
    BY DEF Coalesced
  <2> HIDE DEF N
  <2> QED BY <2>1, <2>2
<1> HIDE DEF N, G
<1>6. 0 \in o /\ FirstPage - 1 \in o
  BY CoremapAssumption DEF ImageOccupied
<1>7. nframes[0] = FirstPage /\ nframes[FirstPage] > 0
  BY DEF Tiles
<1>8. \A f \in Frames : N[f] = 0 => (f \in o <=> f-1 \in o)
  <2> SUFFICES ASSUME NEW f \in Frames, N[f] = 0 PROVE f \in o <=> f-1 \in o
    OBVIOUS
  <2>1. CASE nframes[f] = 0
    BY <2>1 DEF Tiles
  <2>2. CASE nframes[f] > 0
    <3>1. f \notin o
      BY <1>4, <2>2
    <3>2. G(f) - f # 0
      BY <1>1, <1>2, <1>3
    <3> QED BY <1>2, <1>4, <1>6, <2>2, <3>1, <3>2
  <2> QED BY <1>2, <2>1, <2>2
<1>9. ASSUME NEW f \in Frames, N[f] > 0
      PROVE  /\ f + N[f] <= NPages
             /\ f + N[f] < NPages => N[f + N[f]] > 0
             /\ \A g \in (f+1)..(f + N[f] - 1) : N[g] = 0 /\ (g \in o <=> f \in o)
             /\ f \notin o /\ f + N[f] < NPages => f + N[f] \in o
  <2>1. CASE f \in o
    <3> DEFINE m == nframes[f]
    <3>1. N[f] = m /\ m \in Nat /\ m > 0 /\ f \in Nat
      BY <1>2, <1>4, <1>9, <2>1
    <3>2. /\ f + m <= NPages
          /\ f + m < NPages => nframes[f + m] > 0
          /\ \A g \in (f+1)..(f + m - 1) : nframes[g] = 0 /\ g \in o
      BY <2>1, <3>1 DEF Tiles
    <3> HIDE DEF m
    <3>3. f + m - 1 \in o
      <4>1. CASE m = 1
        BY <2>1, <3>1, <4>1
      <4>2. CASE m > 1
        <5>1. f + m - 1 \in (f+1)..(f + m - 1)
          BY <3>1, <4>2
        <5> QED BY <3>2, <5>1
      <4> QED BY <3>1, <4>1, <4>2
    <3>4. ASSUME f + m < NPages PROVE N[f + m] > 0
      <4>1. f + m \in Frames /\ nframes[f + m] > 0
        BY <1>1, <3>1, <3>2, <3>4 DEF Frames
      <4>2. G(f + m) - (f + m) > 0
        BY <1>1, <1>2, <1>3, <4>1
      <4>3. (f + m) - 1 \in o
        BY <3>1, <3>3
      <4>4. CASE f + m \in o
        BY <1>4, <4>1, <4>4
      <4>5. CASE f + m \notin o
        <5>1. N[f + m] = G(f + m) - (f + m)
          BY <1>4, <4>1, <4>3, <4>5
        <5> QED BY <4>2, <5>1
      <4> QED BY <4>4, <4>5
    <3>5. ASSUME NEW g \in (f+1)..(f + m - 1) PROVE N[g] = 0 /\ g \in o
      <4>1. g \in Frames
        BY <1>1, <3>1, <3>2 DEF Frames
      <4> QED BY <1>4, <3>2, <4>1
    <3> QED BY <2>1, <3>1, <3>2, <3>4, <3>5
  <2>2. CASE f \notin o
    <3>1. /\ N[f] = G(f) - f /\ f \in Nat
          /\ G(f) \in Nat /\ f < G(f) /\ G(f) <= NPages
      BY <1>1, <1>2, <1>3, <1>4, <1>9, <2>2
    <3>2. f + N[f] = G(f)
      BY <3>1
    <3>3. ASSUME G(f) < NPages PROVE N[G(f)] > 0 /\ G(f) \in o
      <4>1. G(f) \in Frames /\ G(f) \in o
        BY <1>1, <1>3, <3>1, <3>3 DEF Frames
      <4>2. G(f) - 1 \notin o
        <5>1. G(f) - 1 = f \/ G(f) - 1 \in (f+1)..(G(f) - 1)
          BY <3>1
        <5> QED BY <1>3, <2>2, <5>1
      <4>3. nframes[G(f)] # 0
        BY <4>1, <4>2 DEF Tiles
      <4> QED BY <1>2, <1>4, <4>1, <4>3
    <3>4. ASSUME NEW g \in (f+1)..(G(f) - 1) PROVE N[g] = 0 /\ g \notin o
      <4>1. g \in Frames /\ g > 0 /\ g \notin o
        BY <1>1, <1>3, <3>1 DEF Frames
      <4>2. g - 1 = f \/ g - 1 \in (f+1)..(G(f) - 1)
        BY <3>1
      <4>3. g - 1 \notin o
        BY <1>3, <2>2, <4>2
      <4> QED BY <1>2, <1>4, <4>1, <4>3
    <3> QED BY <2>2, <3>1, <3>2, <3>3, <3>4
  <2> QED BY <2>1, <2>2
<1>10. N[0] = FirstPage /\ N[FirstPage] > 0
  <2>1. N[0] = FirstPage
    BY <1>1, <1>4, <1>6, <1>7
  <2>2. G(FirstPage) - FirstPage > 0
    BY <1>1, <1>2, <1>3
  <2> QED BY <1>1, <1>2, <1>4, <1>6, <1>7, <2>1, <2>2
<1>11. Tiles(o, N) /\ Merged(o, N)
  BY <1>8, <1>9, <1>10 DEF Tiles, Merged
<1>12. \A f \in o : N[f] = nframes[f]
  BY <1>4
<1> QED BY <1>5, <1>11, <1>12 DEF N

(* free_frame on a block that is not being swapped out. *)
LEMMA FreeFrameTiles ==
  ASSUME CoremapTypeOK, Tiles(occ, nframes), Merged(occ, nframes), ImageOccupied(occ),
         NEW page \in Frames, page >= FirstPage, page \in occ, nframes[page] > 0,
         ~(pt_entry[page] # NULL /\ pt_entry[page] \in swapping),
         free_frame(page)
  PROVE  /\ CoremapTypeOK'
         /\ Tiles(occ', nframes') /\ Merged(occ', nframes') /\ ImageOccupied(occ')
         /\ \A f \in occ' : nframes'[f] = nframes[f]
<1> DEFINE o == occ \ Block(page)
<1>1. /\ page \in Nat /\ NPages \in Nat /\ nframes[page] \in Nat
      /\ FirstPage \in Nat /\ FirstPage > 0
  BY CoremapAssumption DEF Frames, CoremapTypeOK
<1>2. /\ page + nframes[page] <= NPages
      /\ page + nframes[page] < NPages => nframes[page + nframes[page]] > 0
      /\ \A g \in (page+1)..(page + nframes[page] - 1) : nframes[g] = 0
  BY DEF Tiles
<1>3. o \in SUBSET Frames /\ ImageOccupied(o)
  <2>1. \A f \in 0..(FirstPage-1) : f \in occ /\ f \notin Block(page)
    BY <1>1 DEF ImageOccupied, Block
  <2> QED BY <2>1 DEF CoremapTypeOK, ImageOccupied
<1>4. \A f \in Frames : f \in o <=> f \in occ /\ f \notin page..(page + nframes[page] - 1)
  BY DEF Block
<1> HIDE DEF o
<1>5. ASSUME NEW f \in Frames, nframes[f] = 0 PROVE f \in o <=> f-1 \in o
  <2>1. f \in Nat /\ f > 0 /\ f-1 \in Frames
    BY <1>1, <1>5 DEF Tiles, Frames
  <2>2. f \in occ <=> f-1 \in occ
    BY <1>5 DEF Tiles
  <2>3. f # page
    BY <1>5
  <2>4. f # page + nframes[page]
    BY <1>1, <1>2, <1>5 DEF Frames
  <2> QED BY <1>1, <1>4, <2>1, <2>2, <2>3, <2>4
<1>6. ASSUME NEW f \in Frames, nframes[f] > 0, NEW g \in (f+1)..(f + nframes[f] - 1)
      PROVE  g \in o <=> f \in o
  <2>1. f \in Nat /\ nframes[f] \in Nat /\ f + nframes[f] <= NPages
    BY <1>6 DEF Tiles, Frames, CoremapTypeOK
  <2>2. nframes[g] = 0 /\ (g \in occ <=> f \in occ)
    BY <1>6 DEF Tiles
  <2>3. g \in Frames /\ g > f /\ g < f + nframes[f] /\ g \in Nat
    BY <1>1, <2>1 DEF Frames
  <2>4. CASE f = page
    BY <1>1, <1>4, <2>1, <2>3, <2>4
  <2>5. CASE f # page
    <3>1. f \notin page..(page + nframes[page] - 1)
      BY <1>1, <1>2, <1>6, <2>1, <2>5
    <3>2. g # page
      BY <2>2
    <3>3. f < page => f + nframes[f] <= page
      <4>1. page \in (f+1)..(f + nframes[f] - 1) => nframes[page] = 0
        BY <1>6 DEF Tiles
      <4> QED BY <1>1, <2>1, <4>1
    <3>4. g \notin page..(page + nframes[page] - 1)
      BY <1>1, <2>1, <2>3, <2>5, <3>1, <3>3
    <3> QED BY <1>4, <2>2, <2>3, <3>1, <3>4
  <2> QED BY <2>4, <2>5
<1>7. Tiles(o, nframes)
  BY <1>5, <1>6 DEF Tiles
<1>8. /\ occ' = o /\ nframes' = Coalesced(o)
      /\ fixed' \subseteq fixed /\ prev_victim' = prev_victim
      /\ pt_entry' \in [Frames -> Entries \cup {NULL}]
  BY DEF free_frame, o, CoremapTypeOK
<1>9. /\ Coalesced(o) \in [Frames -> 0..NPages]
      /\ Tiles(o, Coalesced(o)) /\ Merged(o, Coalesced(o))
      /\ \A f \in o : Coalesced(o)[f] = nframes[f]
  BY <1>3, <1>7, CoalescedTiles
<1> QED BY <1>3, <1>8, <1>9 DEF CoremapTypeOK
=============================================================================
