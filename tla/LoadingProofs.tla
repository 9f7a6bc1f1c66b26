---------------------------- MODULE LoadingProofs ----------------------------
(* Loading a program, for any page size, any number of TLB slots and any     *)
(* program: no page is in the TLB twice, the nested fault of load_page       *)
(* included, and the pages hold the bytes that the program's headers ask for.*)
EXTENDS Loading, NaturalsInduction, WellFoundedInduction, TLAPS

(* A nonempty set of naturals has a least element. *)
LEMMA LeastNat ==
  ASSUME NEW S \in SUBSET Nat, S # {}
  PROVE  \E f \in S : \A g \in S : f <= g
<1> DEFINE R == {ss \in Nat \X Nat : ss[1] < ss[2]}
<1>1. IsWellFoundedOn(R, Nat)
  BY NatLessThanWellFounded, Zenon DEF OpToRel
<1>2. \A x, y \in Nat : y < x => <<y, x>> \in R
  OBVIOUS
<1> HIDE DEF R
<1>3. PICK x \in S : \A y \in S : ~(<<y, x>> \in R)
  BY <1>1, WFMin, Zenon
<1>4. ASSUME NEW y \in S PROVE x <= y
  <2>1. x \in Nat /\ y \in Nat
    OBVIOUS
  <2>2. ~(y < x)
    BY <1>2, <1>3, <2>1, Zenon
  <2> QED BY <2>1, <2>2
<1> QED BY <1>4

(* The first of some slots or segments. *)
LEMMA MinProperty ==
  ASSUME NEW S \in SUBSET Nat, S # {}
  PROVE  Min(S) \in S /\ \A y \in S : Min(S) <= y
BY LeastNat, Zenon DEF Min

(* The smaller of two numbers. *)
LEMMA MinOfTwo ==
  ASSUME NEW a \in Int, NEW b \in Int
  PROVE  Min({a, b}) \in Int /\ Min({a, b}) <= a /\ Min({a, b}) <= b /\ (Min({a, b}) = a \/ Min({a, b}) = b)
<1>1. \E x \in {a, b} : \A y \in {a, b} : x <= y
  OBVIOUS
<1> QED BY <1>1, Zenon DEF Min

(* ... and the larger. *)
LEMMA MaxOfTwo ==
  ASSUME NEW a \in Int, NEW b \in Int
  PROVE  Max({a, b}) \in Int /\ Max({a, b}) >= a /\ Max({a, b}) >= b /\ (Max({a, b}) = a \/ Max({a, b}) = b)
<1>1. \E x \in {a, b} : \A y \in {a, b} : x >= y
  OBVIOUS
<1> QED BY <1>1, Zenon DEF Max

(* Addresses belong to pages. *)
LEMMA PageNat ==
  ASSUME NEW a \in Nat
  PROVE  Page(a) \in Nat
BY LoadingAssumption DEF Page

(* A page is PAGE_SIZE bytes from a multiple of it, and an address in that   *)
(* range is in that page.                                                    *)
LEMMA PageBounds ==
  ASSUME NEW a \in Nat
  PROVE  /\ Page(a) \in Nat /\ Page(a) * PAGE_SIZE \in Nat
         /\ Page(a) * PAGE_SIZE <= a /\ a < Page(a) * PAGE_SIZE + PAGE_SIZE
         /\ a % PAGE_SIZE = a - Page(a) * PAGE_SIZE
BY LoadingAssumption DEF Page

(* The page of an address is the one it lies in. *)
LEMMA PageOf ==
  ASSUME NEW a \in Nat, NEW g \in Nat, g * PAGE_SIZE <= a, a < g * PAGE_SIZE + PAGE_SIZE
  PROVE  Page(a) = g
<1>1. Page(a) \in Nat /\ Page(a) * PAGE_SIZE <= a /\ a < Page(a) * PAGE_SIZE + PAGE_SIZE
  BY PageBounds, Zenon
<1>2. \A x, y \in Nat : x < y => x * PAGE_SIZE + PAGE_SIZE <= y * PAGE_SIZE
  BY LoadingAssumption
<1>3. g * PAGE_SIZE \in Nat /\ Page(a) * PAGE_SIZE \in Nat /\ PAGE_SIZE \in Nat
  BY <1>1, LoadingAssumption
<1>4. ~(Page(a) < g)
  <2> SUFFICES ASSUME Page(a) < g PROVE FALSE
    BY Zenon
  <2>1. Page(a) * PAGE_SIZE + PAGE_SIZE <= g * PAGE_SIZE
    BY <1>1, <1>2, Zenon
  <2> QED BY <1>1, <1>3, <2>1
<1>5. ~(g < Page(a))
  <2> SUFFICES ASSUME g < Page(a) PROVE FALSE
    BY Zenon
  <2>1. g * PAGE_SIZE + PAGE_SIZE <= Page(a) * PAGE_SIZE
    BY <1>1, <1>2, Zenon
  <2> QED BY <1>1, <1>3, <2>1
<1> QED BY <1>1, <1>4, <1>5

(* load_page's arithmetic: what it copies for a fault lies in the page and   *)
(* in both parts of the segment, and is as long as these allow.              *)
LEMMA CopyBounds ==
  ASSUME TlbInv, Seg(at) # {},
         NEW s, s = segments[Min(Seg(at))],
         NEW lo, lo = Page(at) * PAGE_SIZE
  PROVE  /\ Copy(at).to \in Nat /\ Copy(at).from \in Nat /\ Copy(at).len \in Nat
         /\ Copy(at).to >= lo /\ Copy(at).to >= s.p_vaddr /\ Copy(at).to <= at
         /\ Copy(at).from = s.p_file_start + (Copy(at).to - s.p_vaddr)
         /\ Copy(at).to = lo \/ Copy(at).to = s.p_vaddr
         /\ Copy(at).len = 0 => Copy(at).from >= s.p_file_end
         /\ Copy(at).len > 0 =>
              /\ Copy(at).to + Copy(at).len <= lo + PAGE_SIZE
              /\ Copy(at).to + Copy(at).len <= End(s)
              /\ Copy(at).from + Copy(at).len <= s.p_file_end
              /\ \/ Copy(at).to + Copy(at).len = lo + PAGE_SIZE
                 \/ Copy(at).to + Copy(at).len = End(s)
                 \/ Copy(at).from + Copy(at).len = s.p_file_end
<1> DEFINE i == Min(Seg(at))
           base == s.p_vaddr
           v == Max({lo, base})
           inpage == PAGE_SIZE - (v % PAGE_SIZE)
           insegment == End(s) - v
           m_size == Min({inpage, insegment})
           first_offset == s.p_file_start + (v - s.p_vaddr)
           rest == s.p_file_end - first_offset
           part == Min({m_size, rest})
           len == Max({0, part})
<1>1. i \in Seg(at) /\ i \in 1 .. N_SEGMENTS
  <2>1. Seg(at) \in SUBSET Nat /\ Seg(at) \subseteq 1 .. N_SEGMENTS
    BY LoadingAssumption DEF Seg
  <2> QED BY <2>1, MinProperty, Zenon
<1>2. /\ s.p_vaddr \in Nat /\ s.p_memsz \in Nat
      /\ s.p_file_start \in Nat /\ s.p_file_end \in Nat
  BY <1>1, Zenon DEF TlbInv
<1>3. at \in Nat /\ at >= base /\ at < base + s.p_memsz
  BY <1>1, Zenon DEF Seg, TlbInv
<1>4. lo \in Nat /\ lo \in Int /\ lo <= at /\ at < lo + PAGE_SIZE /\ Page(at) \in Nat /\ PAGE_SIZE \in Nat
  BY <1>3, PageBounds, LoadingAssumption
<1>5. base \in Int
  BY <1>2
<1>6. v \in Int /\ v >= base /\ v >= lo /\ (v = lo \/ v = base)
  BY <1>4, <1>5, MaxOfTwo, Zenon
<1> HIDE DEF v, i
<1>7. v \in Nat /\ v <= at /\ v < lo + PAGE_SIZE
  BY <1>2, <1>3, <1>4, <1>6
<1>8. v % PAGE_SIZE = v - lo
  <2>1. Page(v) = Page(at)
    BY <1>4, <1>6, <1>7, PageOf, Zenon
  <2>2. v % PAGE_SIZE = v - Page(v) * PAGE_SIZE
    BY <1>7, PageBounds, Zenon
  <2> QED BY <2>1, <2>2, Zenon
<1>9. /\ inpage \in Int /\ inpage = lo + PAGE_SIZE - v /\ inpage > 0
      /\ insegment \in Int /\ insegment > 0 /\ v + insegment = End(s) /\ End(s) \in Int
  BY <1>2, <1>3, <1>4, <1>7, <1>8 DEF End
<1>10. first_offset \in Nat /\ rest \in Int /\ first_offset + rest = s.p_file_end
  BY <1>2, <1>6, <1>7
<1> HIDE DEF inpage, insegment, first_offset, rest
<1>11. m_size \in Int /\ m_size <= inpage /\ m_size <= insegment /\ (m_size = inpage \/ m_size = insegment)
  BY <1>9, MinOfTwo, Zenon
<1> HIDE DEF m_size
<1>12. part \in Int /\ part <= m_size /\ part <= rest /\ (part = m_size \/ part = rest)
  BY <1>10, <1>11, MinOfTwo, Zenon
<1> HIDE DEF part
<1>13. len \in Int /\ len >= 0 /\ len >= part /\ (len = 0 \/ len = part)
  BY <1>12, MaxOfTwo, 0 \in Int, Zenon
<1>14. Copy(at) = [to |-> v, from |-> first_offset, len |-> len]
  BY Zenon DEF Copy, f_size, i, v, inpage, insegment, m_size, first_offset, rest, part
<1> HIDE DEF len
<1>15. Copy(at).to = v /\ Copy(at).from = first_offset /\ Copy(at).len = len
  BY <1>14
<1>16. len \in Nat /\ (len = 0 => first_offset >= s.p_file_end)
  BY <1>2, <1>9, <1>10, <1>11, <1>12, <1>13
<1>17. ASSUME len > 0
       PROVE  /\ v + len <= lo + PAGE_SIZE /\ v + len <= End(s) /\ first_offset + len <= s.p_file_end
              /\ v + len = lo + PAGE_SIZE \/ v + len = End(s) \/ first_offset + len = s.p_file_end
  <2>1. len = part
    BY <1>13, <1>17
  <2>2. len <= inpage /\ len <= insegment /\ len <= rest /\ (len = inpage \/ len = insegment \/ len = rest)
    BY <1>9, <1>10, <1>11, <1>12, <2>1
  <2> QED BY <1>2, <1>4, <1>7, <1>9, <1>10, <1>13, <2>2
<1>18. first_offset = s.p_file_start + (v - s.p_vaddr)
  BY Zenon DEF first_offset
<1> HIDE DEF first_offset, base
<1> QED BY <1>6, <1>7, <1>10, <1>15, <1>16, <1>17, <1>18, Zenon DEF base

(* Entering page g keeps the TLB sound when g is not in it, or when the slot *)
(* of g comes before the first free one.                                     *)
LEMMA WriteSound ==
  ASSUME NEW a \in Nat, TlbInv, tlb_write(a),
         \A s \in Hit(Page(a)), u \in Slots : u < s => tlb[u] # Invalid
  PROVE  /\ next_victim' \in Slots /\ DOMAIN tlb' = Slots
         /\ \A s \in Slots : tlb'[s] = Invalid \/ tlb'[s].page \in Nat
         /\ TlbUnique'
         /\ \A s \in Slots : tlb[s] # Invalid => tlb'[s] # Invalid
         /\ \A s \in Slots : tlb'[s] # tlb[s] => tlb'[s].page = Page(a)
         /\ \A s \in Slots : tlb'[s].page = Page(a) => tlb'[s] = [page |-> Page(a), dirty |-> Dirty(a)]
         /\ Hit(Page(a)) = {} =>
              \A s, u \in Slots : tlb'[s].page = Page(a) /\ u < s => tlb'[u] # Invalid
<1> DEFINE g == Page(a)
           F == FreeOrSame(g)
           slot == IF F # {} THEN Min(F) ELSE next_victim
           e == [page |-> g, dirty |-> Dirty(a)]
<1>1. g \in Nat
  BY PageNat, Zenon
<1>2. F \in SUBSET Nat /\ F \subseteq Slots /\ \A s \in Slots : s \in F <=> tlb[s] = Invalid \/ tlb[s].page = g
  BY LoadingAssumption DEF FreeOrSame, Slots
<1>3. F # {} => slot \in F /\ \A s \in F : slot <= s
  BY <1>2, MinProperty, Zenon
<1>4. slot \in Slots
  BY <1>2, <1>3, Zenon DEF TlbInv
<1>5. /\ tlb' = [tlb EXCEPT ![slot] = e]
      /\ next_victim' = IF F = {} THEN (next_victim + 1) % NUM_TLB ELSE next_victim
  BY Zenon DEF tlb_write
<1>6. e.page = g
  BY Zenon
<1>7. \A s \in Slots : s \in Int
  BY LoadingAssumption DEF Slots
<1> HIDE DEF F, slot, e
<1>8. next_victim' \in Slots
  BY <1>5, LoadingAssumption DEF TlbInv, Slots
<1>9. /\ DOMAIN tlb' = Slots /\ tlb'[slot] = e
      /\ \A s \in Slots : s # slot => tlb'[s] = tlb[s]
  BY <1>4, <1>5, Zenon DEF TlbInv
<1>10. e # Invalid /\ g # -1 /\ Invalid.page = -1
  BY <1>1, <1>6 DEF Invalid
<1>11. \A s \in Slots : s # slot => tlb[s].page # g
  <2> SUFFICES ASSUME NEW s \in Slots, s # slot, tlb[s].page = g
               PROVE  FALSE
    BY Zenon
  <2>1. s \in F
    BY <1>2, Zenon
  <2>2. slot \in F /\ slot <= s
    BY <1>3, <2>1, Zenon
  <2>3. slot < s
    BY <1>4, <1>7, <2>2
  <2>4. tlb[slot] # Invalid
    BY <1>4, <2>3, Zenon DEF Hit
  <2>5. tlb[slot].page = g
    BY <1>2, <1>4, <2>2, <2>4, Zenon
  <2> QED BY <1>4, <2>4, <2>5, Zenon DEF TlbInv, TlbUnique
<1>12. \A s \in Slots : tlb'[s] = Invalid \/ tlb'[s].page \in Nat
  BY <1>1, <1>6, <1>9, Zenon DEF TlbInv
<1>13. TlbUnique'
  <2> SUFFICES ASSUME NEW s \in Slots, NEW u \in Slots, s # u, tlb'[s] # Invalid
               PROVE  tlb'[s].page # tlb'[u].page
    BY Zenon DEF TlbUnique, Slots, Invalid
  <2>1. CASE s = slot
    BY <1>6, <1>9, <1>11, <2>1, Zenon
  <2>2. CASE u = slot
    BY <1>6, <1>9, <1>11, <2>2, Zenon
  <2>3. CASE s # slot /\ u # slot
    BY <1>9, <2>3, Zenon DEF TlbInv, TlbUnique
  <2> QED BY <2>1, <2>2, <2>3, Zenon
<1>14. ASSUME Hit(g) = {}, NEW s \in Slots, NEW u \in Slots, tlb'[s].page = g, u < s
       PROVE  tlb'[u] # Invalid
  <2>1. s = slot
    BY <1>9, <1>11, <1>14, Zenon
  <2>2. u # slot /\ tlb'[u] = tlb[u]
    BY <1>7, <1>9, <1>14, <2>1
  <2>3. u \notin F
    BY <1>3, <1>4, <1>7, <1>14, <2>1
  <2> QED BY <1>2, <2>2, <2>3, Zenon
<1>15. \A s \in Slots : tlb'[s].page = g => tlb'[s] = e
  BY <1>9, <1>11, Zenon
<1> QED BY <1>6, <1>8, <1>9, <1>10, <1>12, <1>13, <1>14, <1>15, Zenon DEF e

(* The TLB is empty at boot. *)
LEMMA InitTlbInv == Init => TlbInv
<1> SUFFICES ASSUME Init PROVE TlbInv
  BY Zenon
<1>1. DOMAIN tlb = Slots /\ \A s \in Slots : tlb[s] = Invalid
  BY Zenon DEF Init
<1>2. 0 \in Slots
  BY LoadingAssumption DEF Slots
<1>3. TlbUnique
  BY <1>1, Zenon DEF TlbUnique
<1>4. /\ DOMAIN segments = 1 .. N_SEGMENTS
      /\ \A i \in 1 .. N_SEGMENTS : segments[i] = NoSegment
  BY Zenon DEF Init
<1>5. /\ NoSegment.p_vaddr \in Nat /\ NoSegment.p_memsz \in Nat
      /\ NoSegment.p_file_start \in Nat /\ NoSegment.p_file_end \in Nat
  BY LoadingAssumption, Zenon DEF NoSegment
<1> QED BY <1>1, <1>2, <1>3, <1>4, <1>5, Zenon DEF Init, TlbInv

(* Every step keeps the TLB free of duplicates. *)
LEMMA NextTlbInv == TlbInv /\ [Next]_vars => TlbInv'
<1> SUFFICES ASSUME TlbInv, [Next]_vars PROVE TlbInv'
  BY Zenon
<1>1. Page(at) \in Nat /\ \A a \in Nat : Page(a) \in Nat /\ Page(a) # -1
  BY PageNat DEF TlbInv
<1>2. Invalid.page = -1
  BY Zenon DEF Invalid
<1>3. CASE load_elf
  <2> DEFINE ph == prog[next + 1]
  <2>1. /\ pc = "elf" /\ next < Len(prog) /\ next + 1 \in 1 .. Len(prog)
        /\ UNCHANGED <<prog, tlb, next_victim, at, io>>
    BY <1>3, LoadingAssumption DEF load_elf, TlbInv
  <2>2. ASSUME ph.p_type = "load", as_define_region(ph)
        PROVE  /\ DOMAIN segments' = 1 .. N_SEGMENTS /\ next' \in Nat /\ index' \in Nat
               /\ \A i \in 1 .. N_SEGMENTS :
                    /\ segments'[i].p_vaddr \in Nat /\ segments'[i].p_memsz \in Nat
                    /\ segments'[i].p_file_start \in Nat /\ segments'[i].p_file_end \in Nat
               /\ pc' \in {"elf", "panic", "overrun"}
    <3>1. /\ ph.p_vaddr \in Nat /\ ph.p_memsz \in Nat
          /\ ph.p_offset \in Nat /\ ph.p_offset + ph.p_filesz \in Nat
      BY <2>1, <2>2, LoadingAssumption DEF TlbInv
    <3> HIDE DEF ph
    <3>2. CASE index >= N_SEGMENTS
      <4>1. pc' \in {"panic", "overrun"} /\ next' = next /\ segments' = segments /\ index' = index
        BY <2>2, <3>2, Zenon DEF as_define_region
      <4> QED BY <4>1, Zenon DEF TlbInv
    <3>3. CASE ~(index >= N_SEGMENTS)
      <4> DEFINE r == Region(ph)
      <4>1. /\ segments' = [segments EXCEPT ![index + 1] = r]
            /\ index' = index + 1 /\ next' = next + 1 /\ pc' = pc
        BY <2>2, <3>3, Zenon DEF as_define_region
      <4>2. /\ r.p_vaddr \in Nat /\ r.p_memsz \in Nat
            /\ r.p_file_start \in Nat /\ r.p_file_end \in Nat
        BY <3>1, Zenon DEF Region
      <4> HIDE DEF r
      <4>3. \A i \in 1 .. N_SEGMENTS : segments'[i] = r \/ segments'[i] = segments[i]
        BY <4>1, Zenon DEF TlbInv
      <4>4. DOMAIN segments' = 1 .. N_SEGMENTS
        BY <4>1, Zenon DEF TlbInv
      <4>5. \A i \in 1 .. N_SEGMENTS :
              /\ segments'[i].p_vaddr \in Nat /\ segments'[i].p_memsz \in Nat
              /\ segments'[i].p_file_start \in Nat /\ segments'[i].p_file_end \in Nat
        BY <4>2, <4>3, Zenon DEF TlbInv
      <4>6. next' \in Nat /\ index' \in Nat /\ pc' = "elf"
        BY <2>1, <4>1 DEF TlbInv
      <4> QED BY <4>4, <4>5, <4>6, Zenon
    <3> QED BY <3>2, <3>3, Zenon
  <2>3. /\ DOMAIN segments' = 1 .. N_SEGMENTS /\ next' \in Nat /\ index' \in Nat
        /\ \A i \in 1 .. N_SEGMENTS :
             /\ segments'[i].p_vaddr \in Nat /\ segments'[i].p_memsz \in Nat
             /\ segments'[i].p_file_start \in Nat /\ segments'[i].p_file_end \in Nat
        /\ pc' \in {"elf", "panic", "overrun", "over"}
    <3>1. \/ next' = next + 1 /\ segments' = segments /\ index' = index /\ pc' = pc
          \/ next' = next /\ segments' = segments /\ index' = index /\ pc' = "over"
          \/ ph.p_type = "load" /\ as_define_region(ph)
      BY <1>3, Zenon DEF load_elf
    <3> HIDE DEF ph
    <3>2. CASE next' \in {next, next + 1} /\ segments' = segments /\ index' = index /\ pc' \in {pc, "over"}
      BY <2>1, <3>2 DEF TlbInv
    <3>3. CASE ph.p_type = "load" /\ as_define_region(ph)
      BY <2>2, <3>3, Zenon
    <3> QED BY <3>1, <3>2, <3>3, Zenon
  <2> QED BY <2>1, <2>3, Zenon DEF TlbInv, TlbUnique, Hit
<1>4. CASE Enter
  <2>1. at' \in Nat /\ pc = "elf" /\ pc' = "fault"
    BY <1>4, LoadingAssumption DEF Enter, TlbInv
  <2>2. Page(at') # -1
    BY <1>1, <2>1, Zenon
  <2>3. Hit(Page(at))' = {}
    BY <1>2, <1>4, <2>1, <2>2, Zenon DEF Enter, Hit, Page, TlbInv
  <2> QED BY <1>4, <2>1, <2>3, Zenon DEF Enter, TlbInv, TlbUnique, asvars
<1>5. ASSUME NEW a \in Touched, NEW store \in BOOLEAN, Access(a, store) PROVE TlbInv'
  <2>1. /\ at' = a /\ a \in Nat /\ pc' \in {"user", "fault", "over"}
        /\ UNCHANGED <<prog, next, segments, index, tlb, next_victim>>
    BY <1>5, LoadingAssumption DEF Access, asvars
  <2>2. pc' = "fault" => Hit(Page(a)) = {}
    BY <1>5, Zenon DEF Access
  <2>3. pc' = "fault" => Hit(Page(at))' = {}
    BY <2>1, <2>2, Zenon DEF Hit, Page
  <2> QED BY <2>1, <2>3, Zenon DEF TlbInv, TlbUnique
<1>6. CASE vm_fault
  <2>1. /\ pc = "fault" /\ Hit(Page(at)) = {} /\ pc' \in {"over", "write", "load"}
        /\ UNCHANGED <<prog, next, segments, next_victim, at>>
        /\ index' \in Nat
    BY <1>6 DEF vm_fault, TlbInv, asvars
  <2>2. /\ DOMAIN tlb' = Slots
        /\ \A s \in Slots : tlb'[s] = tlb[s] \/ tlb'[s] = Invalid
    BY <1>6, Zenon DEF vm_fault, GetFrame, TlbInv
  <2>3. pc' = "load" => io' = Copy(at) /\ Seg(at) # {}
    BY <1>6, Zenon DEF vm_fault
  <2>4. pc' = "load" => io'.to \in Nat /\ io'.from \in Nat /\ io'.len \in Nat
    BY <2>3, CopyBounds, Zenon
  <2>5. Hit(Page(at))' = {}
    BY <1>1, <1>2, <2>1, <2>2 DEF Hit, Page
  <2>6. TlbUnique'
    <3> SUFFICES ASSUME NEW s \in Slots, NEW u \in Slots, s # u, tlb'[s] # Invalid
                 PROVE  tlb'[s].page # tlb'[u].page
      BY Zenon DEF TlbUnique, Slots, Invalid
    <3>1. tlb'[s] = tlb[s] /\ tlb[s].page # tlb[u].page /\ tlb[s].page \in Nat
      BY <2>2, Zenon DEF TlbInv, TlbUnique
    <3> QED BY <1>2, <2>2, <3>1
  <2> QED BY <2>1, <2>2, <2>4, <2>5, <2>6, Zenon DEF TlbInv
<1>7. CASE LoadBlock
  <2> DEFINE left == BLOCK - (io.from % BLOCK)
             n == Min({io.len, left})
  <2>1. /\ pc = "load" /\ pc' \in {"load", "write", "panic"}
        /\ UNCHANGED <<prog, next, segments, tlb, next_victim, at>>
    BY <1>7, Zenon DEF LoadBlock, asvars
  <2>2. io.to \in Nat /\ io.from \in Nat /\ io.len \in Nat /\ io.len \in Int
    BY <2>1 DEF TlbInv
  <2>3. left \in Nat /\ left \in Int
    BY <2>2, LoadingAssumption
  <2> HIDE DEF left
  <2>4. n \in Int /\ n <= io.len /\ (n = io.len \/ n = left)
    BY <2>2, <2>3, MinOfTwo, Zenon
  <2>5. index' \in Nat
    BY <1>7 DEF LoadBlock, as_complete_load, TlbInv
  <2>6. pc' = "load" => io' = [to |-> io.to + n, from |-> io.from + n, len |-> io.len - n]
    BY <1>7, <2>1, Zenon DEF LoadBlock, left
  <2> HIDE DEF n
  <2>7. pc' = "load" => io'.to \in Nat /\ io'.from \in Nat /\ io'.len \in Nat
    BY <2>2, <2>3, <2>4, <2>6
  <2> QED BY <2>1, <2>5, <2>7 DEF TlbInv, TlbUnique, Hit
<1>8. CASE LoadError
  BY <1>8 DEF LoadError, as_complete_load, asvars, TlbInv, TlbUnique, Hit
<1>9. CASE NestedFault
  <2>1. /\ pc = "load" /\ pc' \in {"load", "panic"} /\ Hit(Page(io.to)) = {} /\ io.to \in Nat
        /\ UNCHANGED <<prog, next, segments, index, at, io>>
    BY <1>9, Zenon DEF NestedFault, asvars, TlbInv
  <2>2. CASE UNCHANGED <<tlb, next_victim>>
    BY <2>1, <2>2 DEF TlbInv, TlbUnique, Hit
  <2>3. CASE tlb_write(io.to)
    <3> DEFINE g == Page(io.to)
    <3>1. /\ next_victim' \in Slots /\ DOMAIN tlb' = Slots
          /\ \A s \in Slots : tlb'[s] = Invalid \/ tlb'[s].page \in Nat
          /\ TlbUnique'
          /\ \A s \in Slots : tlb[s] # Invalid => tlb'[s] # Invalid
          /\ \A s \in Slots : tlb'[s] # tlb[s] => tlb'[s].page = g
          /\ \A s, u \in Slots : tlb'[s].page = g /\ u < s => tlb'[u] # Invalid
      BY <2>1, <2>3, WriteSound, Zenon
    <3>2. ASSUME NEW s \in Slots, NEW u \in Slots, tlb'[s].page = Page(at), u < s
          PROVE  tlb'[u] # Invalid
      <4>1. CASE Page(at) = g
        BY <3>1, <3>2, <4>1, Zenon
      <4>2. CASE Page(at) # g
        <5>1. tlb[s].page = Page(at)
          BY <3>1, <3>2, <4>2, Zenon
        <5>2. tlb[u] # Invalid
          BY <2>1, <3>2, <5>1 DEF TlbInv, Hit
        <5> QED BY <3>1, <5>2, Zenon
      <4> QED BY <4>1, <4>2, Zenon
    <3>3. \A s \in Hit(Page(at))', u \in Slots : u < s => tlb'[u] # Invalid
      BY <2>1, <3>2, Zenon DEF Hit, Page
    <3> QED BY <2>1, <3>1, <3>3, Zenon DEF TlbInv
  <2> QED BY <1>9, <2>2, <2>3, Zenon DEF NestedFault
<1>10. CASE EndFault
  <2>1. /\ pc = "write" /\ pc' = "user" /\ tlb_write(at) /\ at \in Nat
        /\ UNCHANGED <<prog, next, segments, index, at>>
        /\ \A s \in Hit(Page(at)), u \in Slots : u < s => tlb[u] # Invalid
    BY <1>10, Zenon DEF EndFault, asvars, TlbInv
  <2>2. /\ next_victim' \in Slots /\ DOMAIN tlb' = Slots
        /\ \A s \in Slots : tlb'[s] = Invalid \/ tlb'[s].page \in Nat
        /\ TlbUnique'
    BY <2>1, WriteSound, Zenon
  <2> QED BY <2>1, <2>2 DEF TlbInv
<1>11. CASE Preempt
  <2>1. /\ DOMAIN tlb' = Slots /\ \A s \in Slots : tlb'[s] = Invalid
        /\ UNCHANGED <<prog, next, segments, index, next_victim, pc, at, io>>
    BY <1>11, Zenon DEF Preempt, asvars
  <2>2. Hit(Page(at))' = {}
    BY <1>1, <1>2, <2>1 DEF Hit, Page
  <2>3. TlbUnique'
    BY <2>1, Zenon DEF TlbUnique, Slots, Invalid
  <2> QED BY <2>1, <2>2, <2>3, Zenon DEF TlbInv
<1>12. CASE UNCHANGED vars
  BY <1>12 DEF vars, asvars, TlbInv, TlbUnique, Hit
<1> QED BY <1>3, <1>4, <1>5, <1>6, <1>7, <1>8, <1>9, <1>10, <1>11, <1>12, Zenon DEF Next

(* No page is in the TLB twice, whatever the program, the page size and the  *)
(* number of slots: vm_fault finds the entry that the fault nested in        *)
(* load_page has made, however often the process is switched out between.    *)
THEOREM TlbUniqueAlways == Spec => []TlbUnique
<1>1. TlbInv => TlbUnique
  BY Zenon DEF TlbInv
<1> QED BY <1>1, InitTlbInv, NextTlbInv, PTL DEF Spec
------------------------------------------------------------------------------
(* User addresses are in the pages of user space. *)
LEMMA PageInPages ==
  ASSUME NEW a \in Nat, a < TOP
  PROVE  Page(a) \in Pages
<1>1. TOP - 1 \in Nat /\ a <= TOP - 1
  BY LoadingAssumption
<1>2. /\ Page(a) \in Nat /\ Page(a) * PAGE_SIZE \in Nat /\ Page(a) * PAGE_SIZE <= a
      /\ Page(TOP - 1) \in Nat /\ Page(TOP - 1) * PAGE_SIZE \in Nat /\ TOP - 1 < Page(TOP - 1) * PAGE_SIZE + PAGE_SIZE
  BY <1>1, PageBounds, Zenon
<1>3. \A x, y \in Nat : x < y => x * PAGE_SIZE + PAGE_SIZE <= y * PAGE_SIZE
  BY LoadingAssumption
<1>4. ~(Page(TOP - 1) < Page(a))
  <2> SUFFICES ASSUME Page(TOP - 1) < Page(a) PROVE FALSE
    BY Zenon
  <2>1. Page(TOP - 1) * PAGE_SIZE + PAGE_SIZE <= Page(a) * PAGE_SIZE
    BY <1>2, <1>3, Zenon
  <2> QED BY <1>1, <1>2, <2>1, LoadingAssumption
<1> QED BY <1>2, <1>4 DEF Pages

(* The stack starts with a page. *)
LEMMA StackPage ==
  ASSUME NEW a \in Nat, NEW b \in Nat, a < STACK_MIN, b >= STACK_MIN
  PROVE  Page(a) # Page(b)
<1> SUFFICES ASSUME Page(a) = Page(b) PROVE FALSE
  BY Zenon
<1>1. STACK_MIN \in Nat /\ STACK_MIN % PAGE_SIZE = 0 /\ PAGE_SIZE \in Nat
  BY LoadingAssumption, Zenon
<1>2. /\ Page(a) \in Nat /\ Page(a) * PAGE_SIZE \in Nat
      /\ Page(a) * PAGE_SIZE <= a /\ b < Page(a) * PAGE_SIZE + PAGE_SIZE
  BY PageBounds, Zenon
<1>3. Page(STACK_MIN) = Page(a)
  BY <1>1, <1>2, PageOf
<1>4. STACK_MIN = Page(STACK_MIN) * PAGE_SIZE
  <2>1. Page(STACK_MIN) * PAGE_SIZE \in Nat /\ STACK_MIN % PAGE_SIZE = STACK_MIN - Page(STACK_MIN) * PAGE_SIZE
    BY <1>1, PageBounds, Zenon
  <2>2. STACK_MIN - Page(STACK_MIN) * PAGE_SIZE = 0
    BY <1>1, <2>1, Zenon
  <2> QED BY <1>1, <2>1, <2>2
<1> QED BY <1>1, <1>2, <1>3, <1>4

(* The segment of an address is the region of a header that spans it. *)
LEMMA HeaderOf ==
  ASSUME TlbInv, SegInv, NEW a \in Nat, NEW i \in Seg(a)
  PROVE  \E j \in Loads(prog) : segments[i] = Region(prog[j]) /\ a \in Bytes(prog[j])
<1>1. i \in 1 .. N_SEGMENTS /\ a >= segments[i].p_vaddr /\ a < segments[i].p_vaddr + segments[i].p_memsz
  BY Zenon DEF Seg
<1>2. segments[i] # NoSegment
  <2>1. NoSegment.p_vaddr = TOP /\ NoSegment.p_memsz = 0
    BY Zenon DEF NoSegment
  <2> QED BY <1>1, <2>1, LoadingAssumption
<1>3. PICK j \in Loads(prog) : segments[i] = Region(prog[j])
  BY <1>1, <1>2, Zenon DEF SegInv
<1>4. Region(prog[j]).p_vaddr = prog[j].p_vaddr /\ Region(prog[j]).p_memsz = prog[j].p_memsz
  BY Zenon DEF Region
<1>5. prog[j].p_vaddr \in Nat /\ prog[j].p_memsz \in Nat
  BY LoadingAssumption, Zenon DEF TlbInv, Loads
<1>6. a \in Bytes(prog[j])
  BY <1>1, <1>3, <1>4, <1>5 DEF Bytes
<1> QED BY <1>3, <1>6, Zenon

(* Headers that span addresses of one page are one header. *)
LEMMA OneHeader ==
  ASSUME WellLinked(prog), NEW i \in Loads(prog), NEW j \in Loads(prog),
         NEW a \in Bytes(prog[i]), NEW b \in Bytes(prog[j]), Page(a) = Page(b)
  PROVE  i = j
BY Zenon DEF WellLinked

(* The headers of a well linked program stay below the stack. *)
LEMMA BelowStack ==
  ASSUME TlbInv, WellLinked(prog), NEW i \in Loads(prog), NEW a \in Bytes(prog[i])
  PROVE  a \in Nat /\ a < STACK_MIN
<1>1. prog[i].p_vaddr \in Nat /\ prog[i].p_memsz \in Nat /\ STACK_MIN \in Nat
  BY LoadingAssumption, Zenon DEF TlbInv, Loads
<1>2. prog[i].p_vaddr + prog[i].p_memsz <= STACK_MIN
  BY Zenon DEF WellLinked
<1> QED BY <1>1, <1>2 DEF Bytes

(* So are the segments of two addresses of one page. *)
LEMMA OneSegment ==
  ASSUME TlbInv, SegInv, WellLinked(prog), NEW a \in Nat, NEW b \in Nat, Page(a) = Page(b),
         NEW i \in Seg(a), NEW j \in Seg(b)
  PROVE  segments[i] = segments[j]
<1>1. PICK k \in Loads(prog) : segments[i] = Region(prog[k]) /\ a \in Bytes(prog[k])
  BY HeaderOf, Zenon
<1>2. PICK m \in Loads(prog) : segments[j] = Region(prog[m]) /\ b \in Bytes(prog[m])
  BY HeaderOf, Zenon
<1>3. k = m
  BY <1>1, <1>2, OneHeader
<1> QED BY <1>1, <1>2, <1>3

(* The reference image on a segment, as load_page reckons it. *)
LEMMA SegmentImage ==
  ASSUME TlbInv, SegInv, WellLinked(prog), NEW a \in Nat, NEW i \in Seg(a)
  PROVE  /\ a < segments[i].p_vaddr + (segments[i].p_file_end - segments[i].p_file_start)
              => Image(a) = segments[i].p_file_start + (a - segments[i].p_vaddr)
         /\ a >= segments[i].p_vaddr + (segments[i].p_file_end - segments[i].p_file_start)
              => Image(a) = Zero
         /\ segments[i].writable => Writable(a)
<1> DEFINE Of(ph) == ph.p_type = "load" /\ a \in ph.p_vaddr .. ph.p_vaddr + Min({ph.p_memsz, ph.p_filesz}) - 1
           x == segments[i].p_vaddr + (segments[i].p_file_end - segments[i].p_file_start)
<1>1. PICK j \in Loads(prog) : segments[i] = Region(prog[j]) /\ a \in Bytes(prog[j])
  BY HeaderOf, Zenon
<1> DEFINE ph == prog[j]
<1>2. /\ segments[i].p_vaddr = ph.p_vaddr /\ segments[i].p_memsz = ph.p_memsz
      /\ segments[i].p_file_start = ph.p_offset /\ segments[i].p_file_end = ph.p_offset + ph.p_filesz
      /\ segments[i].writable = ph.writable
  BY <1>1 DEF Region
<1>3. \A k \in Loads(prog) : /\ prog[k].p_vaddr \in Nat /\ prog[k].p_memsz \in Nat
                             /\ prog[k].p_offset \in Nat /\ prog[k].p_filesz \in Nat
                             /\ prog[k].p_memsz \in Int /\ prog[k].p_filesz \in Int
  BY LoadingAssumption DEF TlbInv, Loads
<1>4. \A k \in Loads(prog) : k \in DOMAIN prog /\ prog[k].p_type = "load"
  BY LoadingAssumption DEF TlbInv, Loads
<1>5. \A k \in DOMAIN prog : Of(prog[k]) => k = j
  <2> SUFFICES ASSUME NEW k \in DOMAIN prog, Of(prog[k]) PROVE k = j
    BY Zenon
  <2>1. k \in Loads(prog)
    BY LoadingAssumption DEF TlbInv, Loads
  <2>2. /\ Min({prog[k].p_memsz, prog[k].p_filesz}) \in Int
        /\ Min({prog[k].p_memsz, prog[k].p_filesz}) <= prog[k].p_memsz
    BY <1>3, <2>1, MinOfTwo, Zenon
  <2>3. a \in Bytes(prog[k])
    BY <1>3, <2>1, <2>2 DEF Bytes
  <2> QED BY <1>1, <2>1, <2>3, OneHeader
<1>6. /\ Min({ph.p_memsz, ph.p_filesz}) \in Int
      /\ Min({ph.p_memsz, ph.p_filesz}) <= ph.p_filesz
      /\ Min({ph.p_memsz, ph.p_filesz}) = ph.p_memsz \/ Min({ph.p_memsz, ph.p_filesz}) = ph.p_filesz
  BY <1>3, MinOfTwo, Zenon
<1>7. x = ph.p_vaddr + ph.p_filesz
  BY <1>2, <1>3
<1>8. Of(ph) <=> a < x
  BY <1>1, <1>3, <1>4, <1>6, <1>7 DEF Bytes
<1>9. Image(a) = IF \E k \in DOMAIN prog : Of(prog[k])
                   THEN prog[CHOOSE k \in DOMAIN prog : Of(prog[k])].p_offset
                          + (a - prog[CHOOSE k \in DOMAIN prog : Of(prog[k])].p_vaddr)
                   ELSE Zero
  BY Zenon DEF Image
<1> HIDE DEF Of, x
<1>10. a < x => Image(a) = segments[i].p_file_start + (a - segments[i].p_vaddr)
  <2> SUFFICES ASSUME a < x PROVE Image(a) = segments[i].p_file_start + (a - segments[i].p_vaddr)
    BY Zenon
  <2>1. (CHOOSE k \in DOMAIN prog : Of(prog[k])) = j /\ \E k \in DOMAIN prog : Of(prog[k])
    BY <1>4, <1>5, <1>8
  <2> QED BY <1>2, <1>9, <2>1, Zenon
<1>11. a >= x => Image(a) = Zero
  <2> SUFFICES ASSUME a >= x PROVE Image(a) = Zero
    BY Zenon
  <2>1. ~ \E k \in DOMAIN prog : Of(prog[k])
    BY <1>3, <1>5, <1>7, <1>8
  <2> QED BY <1>9, <2>1, Zenon
<1>12. segments[i].writable => Writable(a)
  BY <1>1, <1>2, <1>4, Zenon DEF Writable, Bytes
<1> QED BY <1>10, <1>11, <1>12 DEF x

(* The stack starts as zeros and may be stored to. *)
LEMMA StackImage ==
  ASSUME TlbInv, WellLinked(prog), NEW a \in Nat, a >= STACK_MIN
  PROVE  Image(a) = Zero /\ Writable(a)
<1> DEFINE Of(ph) == ph.p_type = "load" /\ a \in ph.p_vaddr .. ph.p_vaddr + Min({ph.p_memsz, ph.p_filesz}) - 1
<1>1. ASSUME NEW k \in DOMAIN prog, Of(prog[k]) PROVE FALSE
  <2>1. k \in Loads(prog)
    BY <1>1, LoadingAssumption DEF TlbInv, Loads
  <2>2. /\ prog[k].p_vaddr \in Nat /\ prog[k].p_memsz \in Int /\ prog[k].p_filesz \in Int
    BY <2>1, LoadingAssumption DEF TlbInv, Loads
  <2>3. /\ Min({prog[k].p_memsz, prog[k].p_filesz}) \in Int
        /\ Min({prog[k].p_memsz, prog[k].p_filesz}) <= prog[k].p_memsz
    BY <2>2, MinOfTwo, Zenon
  <2>4. a \in Bytes(prog[k])
    BY <1>1, <2>2, <2>3 DEF Bytes
  <2> QED BY <2>1, <2>4, BelowStack, LoadingAssumption
<1>2. Image(a) = Zero
  BY <1>1, Zenon DEF Image
<1> QED BY <1>2, Zenon DEF Writable

(* A page that the TLB may let the program store to has no other bytes. *)
LEMMA WholePage ==
  ASSUME TlbInv, SegInv, WellLinked(prog), NEW a \in Nat, MayStore(Page(a)), Seg(a) # {} \/ a >= STACK_MIN
  PROVE  Writable(a)
<1>1. PICK b \in Page(a) * PAGE_SIZE .. Page(a) * PAGE_SIZE + PAGE_SIZE - 1 : Writable(b)
  BY Zenon DEF MayStore
<1>2. b \in Nat /\ Page(b) = Page(a)
  <2>1. Page(a) \in Nat /\ Page(a) * PAGE_SIZE \in Nat /\ PAGE_SIZE \in Nat
    BY PageBounds, LoadingAssumption, Zenon
  <2>2. b \in Nat /\ Page(a) * PAGE_SIZE <= b /\ b < Page(a) * PAGE_SIZE + PAGE_SIZE
    BY <2>1
  <2> QED BY <2>1, <2>2, PageOf
<1>3. CASE a >= STACK_MIN
  BY <1>3, Zenon DEF Writable
<1>4. CASE ~(a >= STACK_MIN)
  <2>1. a < STACK_MIN
    BY <1>4, LoadingAssumption
  <2>2. ~(b >= STACK_MIN)
    BY <1>2, <2>1, StackPage, Zenon
  <2>3. PICK k \in DOMAIN prog : prog[k].p_type = "load" /\ prog[k].writable /\ b \in Bytes(prog[k])
    BY <1>1, <2>2 DEF Writable, Bytes
  <2>4. k \in Loads(prog)
    BY <2>3, LoadingAssumption DEF TlbInv, Loads
  <2>5. PICK i \in Seg(a) : TRUE
    BY <1>4, Zenon
  <2>6. PICK j \in Loads(prog) : a \in Bytes(prog[j])
    BY HeaderOf, Zenon
  <2>7. j = k
    BY <1>2, <2>3, <2>4, <2>6, OneHeader, Zenon
  <2> QED BY <2>3, <2>6, <2>7, Zenon DEF Writable, Bytes
<1> QED BY <1>3, <1>4

(* Only load_elf adds regions: afterwards the address space is as it is. *)
LEMMA Segments ==
  ASSUME TlbInv, [Next]_vars, ~load_elf
  PROVE  /\ UNCHANGED asvars /\ index' \in {index, 0, 1}
         /\ pc' = "elf" => pc = "elf" /\ index' = index
<1>1. CASE Enter
  BY <1>1, Zenon DEF Enter
<1>2. ASSUME NEW a \in Touched, NEW store \in BOOLEAN, Access(a, store)
      PROVE  UNCHANGED <<asvars, index>> /\ pc' # "elf"
  BY <1>2, Zenon DEF Access
<1>3. CASE vm_fault
  BY <1>3, Zenon DEF vm_fault
<1>4. CASE LoadBlock
  BY <1>4, Zenon DEF LoadBlock, as_complete_load
<1>5. CASE LoadError
  BY <1>5, Zenon DEF LoadError, as_complete_load
<1>6. CASE NestedFault
  BY <1>6 DEF NestedFault
<1>7. CASE EndFault
  BY <1>7 DEF EndFault
<1>8. CASE Preempt
  BY <1>8, Zenon DEF Preempt
<1>9. CASE UNCHANGED vars
  BY <1>9 DEF vars
<1> QED BY <1>1, <1>2, <1>3, <1>4, <1>5, <1>6, <1>7, <1>8, <1>9 DEF Next

(* runprogram starts with no region. *)
LEMMA SegInit == Init => SegInv
<1> SUFFICES ASSUME Init PROVE SegInv
  BY Zenon
<1>1. prog \in Programs /\ next = 0 /\ index = 0 /\ \A i \in 1 .. N_SEGMENTS : segments[i] = NoSegment
  BY Zenon DEF Init
<1>2. Len(prog) \in Nat
  BY <1>1, LoadingAssumption, Zenon
<1>3. \A j \in Loads(prog) : j > next
  BY <1>1, <1>2 DEF Loads
<1> QED BY <1>1, <1>2, <1>3, LoadingAssumption DEF SegInv

(* Each region that load_elf defines is its header's. *)
LEMMA SegStep ==
  ASSUME TlbInv, SegInv, WellLinked(prog), [Next]_vars
  PROVE  SegInv'
<1>1. CASE ~load_elf
  <2>1. /\ prog' = prog /\ next' = next /\ segments' = segments /\ index' \in {index, 0, 1}
        /\ pc' = "elf" => pc = "elf" /\ index' = index
    BY <1>1, Segments DEF asvars
  <2>2. index' <= N_SEGMENTS
    BY <2>1, LoadingAssumption DEF SegInv
  <2> QED BY <2>1, <2>2, Zenon DEF SegInv, Loads, CodeFirst, Region, NoSegment
<1>2. CASE load_elf
  <2> DEFINE ph == prog[next + 1]
  <2>1. /\ pc = "elf" /\ next < Len(prog) /\ next + 1 \in 1 .. Len(prog) /\ prog' = prog
        /\ next \in Nat /\ index \in Nat /\ index <= N_SEGMENTS /\ Len(prog) \in Nat
    BY <1>2, LoadingAssumption DEF load_elf, TlbInv, SegInv
  <2>2. \/ ph.p_type = "skip" /\ next' = next + 1 /\ UNCHANGED <<segments, index, pc>>
        \/ pc' = "over" /\ UNCHANGED <<next, segments, index>>
        \/ ph.p_type = "load" /\ as_define_region(ph)
    BY <1>2, Zenon DEF load_elf
  <2>3. CASE ph.p_type = "skip" /\ next' = next + 1 /\ UNCHANGED <<segments, index, pc>>
    <3>1. \A j \in Loads(prog) : j \in Int /\ j # next + 1
      BY <2>3 DEF Loads
    <3>2. index = 0 => \A j \in Loads(prog) : j > next'
      BY <2>1, <2>3, <3>1 DEF SegInv
    <3>3. next' <= Len(prog)
      BY <2>1, <2>3
    <3>4. index # 0 => CodeFirst'
      BY <2>1, <2>3 DEF SegInv, CodeFirst
    <3>5. Loads(prog') = Loads(prog) /\ NoSegment' = NoSegment /\ \A j \in Loads(prog) : Region(prog'[j]) = Region(prog[j])
      BY <2>1, Zenon DEF NoSegment
    <3> QED BY <2>1, <2>3, <3>2, <3>3, <3>4, <3>5, Zenon DEF SegInv
  <2>4. CASE pc' = "over" /\ UNCHANGED <<next, segments, index>>
    BY <2>1, <2>4, Zenon DEF SegInv, Loads, CodeFirst, Region, NoSegment
  <2>5. CASE ph.p_type = "load" /\ as_define_region(ph)
    <3>1. CASE index >= N_SEGMENTS
      <4>1. pc' # "elf" /\ UNCHANGED <<next, segments, index>>
        BY <2>5, <3>1, Zenon DEF as_define_region
      <4> QED BY <2>1, <4>1, Zenon DEF SegInv, Loads, CodeFirst, Region, NoSegment
    <3>2. CASE ~(index >= N_SEGMENTS)
      <4>1. /\ segments' = [segments EXCEPT ![index + 1] = Region(ph)]
            /\ index' = index + 1 /\ next' = next + 1 /\ pc' = pc
        BY <2>5, <3>2, Zenon DEF as_define_region
      <4>2. next + 1 \in Loads(prog)
        BY <2>1, <2>5, Zenon DEF Loads
      <4>3. index + 1 \in 1 .. N_SEGMENTS /\ index' <= N_SEGMENTS /\ index' # 0 /\ next' <= Len(prog)
        BY <2>1, <3>2, <4>1, LoadingAssumption
      <4>4. \A i \in 1 .. N_SEGMENTS : segments'[i] = IF i = index + 1 THEN Region(ph) ELSE segments[i]
        BY <4>1, <4>3, Zenon DEF TlbInv
      <4>5. \A i \in 1 .. N_SEGMENTS : segments'[i] = NoSegment \/ \E j \in Loads(prog) : segments'[i] = Region(prog[j])
        BY <4>2, <4>4, Zenon DEF SegInv
      <4>6. CodeFirst'
        <5>1. CASE index = 0
          <6>1. \A j \in Loads(prog) : j \in Int /\ j > next
            BY <2>1, <5>1 DEF SegInv, Loads
          <6>2. PICK i \in Loads(prog) : prog[i].p_memsz > 0 /\ prog[i].p_filesz > 0 /\ \A j \in Loads(prog) : i <= j
            BY Zenon DEF WellLinked
          <6>3. i = next + 1
            BY <2>1, <4>2, <6>1, <6>2
          <6>4. ph.p_memsz > 0 /\ ph.p_filesz > 0 /\ ph.p_offset \in Nat /\ ph.p_filesz \in Nat
            BY <2>1, <2>5, <6>2, <6>3, LoadingAssumption DEF TlbInv
          <6>5. segments'[1] = Region(ph)
            BY <4>3, <4>4, <5>1
          <6>6. /\ Region(ph).p_memsz = ph.p_memsz /\ Region(ph).p_file_start = ph.p_offset
                /\ Region(ph).p_file_end = ph.p_offset + ph.p_filesz
            BY Zenon DEF Region
          <6> QED BY <6>4, <6>5, <6>6 DEF CodeFirst
        <5>2. CASE index # 0
          <6>1. segments'[1] = segments[1]
            BY <2>1, <4>3, <4>4, <5>2, LoadingAssumption
          <6> QED BY <2>1, <5>2, <6>1, Zenon DEF SegInv, CodeFirst
        <5> QED BY <5>1, <5>2, Zenon
      <4>7. \A i \in 1 .. N_SEGMENTS : segments'[i] = NoSegment' \/ \E j \in Loads(prog)' : segments'[i] = Region(prog[j])'
        BY <2>1, <4>5, Zenon DEF Loads, Region, NoSegment
      <4> QED BY <2>1, <4>3, <4>6, <4>7, Zenon DEF SegInv
    <3> QED BY <3>1, <3>2, Zenon
  <2> QED BY <2>2, <2>3, <2>4, <2>5, Zenon
<1> QED BY <1>1, <1>2

(* The copy stays on the page of the fault. *)
LEMMA CopyPage ==
  ASSUME TlbInv, SegInv, FaultInv, CopyInv, pc = "load"
  PROVE  Page(io.to) = Page(at) /\ Page(io.to + io.len - 1) = Page(at)
<1> DEFINE lo == Page(at) * PAGE_SIZE
<1>1. Page(at) \in Nat /\ lo \in Nat /\ PAGE_SIZE \in Nat
  BY PageBounds, LoadingAssumption, Zenon DEF TlbInv
<1>2. io.to \in Nat /\ io.len \in Nat /\ io.len > 0 /\ io.to >= lo /\ io.to + io.len <= lo + PAGE_SIZE
  BY DEF TlbInv, CopyInv
<1> HIDE DEF lo
<1>3. io.to + io.len - 1 \in Nat /\ io.to < lo + PAGE_SIZE /\ lo <= io.to + io.len - 1 /\ io.to + io.len - 1 < lo + PAGE_SIZE
  BY <1>1, <1>2
<1> QED BY <1>1, <1>2, <1>3, PageOf DEF lo

(* An entry that the TLB keeps when permissions count is for a page of a     *)
(* writable segment or of the stack.                                         *)
LEMMA DirtyMayStore ==
  ASSUME TlbInv, SegInv, WellLinked(prog), NEW a \in Nat, index = 0, Dirty(a), Seg(a) # {} \/ a >= STACK_MIN
  PROVE  MayStore(Page(a))
<1>1. Writable(a)
  <2>1. CASE Seg(a) = {}
    BY <2>1, StackImage
  <2>2. CASE Seg(a) # {}
    <3>1. Min(Seg(a)) \in Seg(a)
      <4>1. Seg(a) \in SUBSET Nat
        BY LoadingAssumption DEF Seg
      <4> QED BY <2>2, <4>1, MinProperty, Zenon
    <3>2. segments[Min(Seg(a))].writable
      BY <2>2, Zenon DEF Dirty, ignore_permissions
    <3> QED BY <3>1, <3>2, SegmentImage
  <2> QED BY <2>1, <2>2
<1>2. a \in Page(a) * PAGE_SIZE .. Page(a) * PAGE_SIZE + PAGE_SIZE - 1
  <2>1. Page(a) * PAGE_SIZE \in Nat /\ Page(a) * PAGE_SIZE <= a /\ a < Page(a) * PAGE_SIZE + PAGE_SIZE
    BY PageBounds, Zenon
  <2> QED BY <2>1, LoadingAssumption
<1> QED BY <1>1, <1>2, Zenon DEF MayStore

(* The first fault of a program loads its code. *)
LEMMA FirstLoads ==
  ASSUME TlbInv, SegInv, FaultInv, WellLinked(prog), pc = "fault", index # 0
  PROVE  Copy(at).len # 0 /\ at < STACK_MIN /\ pages[Page(at)] = "none"
<1>1. CodeFirst /\ at = segments[1].p_vaddr /\ Untouched /\ at < TOP /\ at \in Nat
  BY DEF FaultInv, TlbInv, Running
<1>2. 1 \in 1 .. N_SEGMENTS /\ segments[1].p_memsz \in Nat /\ segments[1].p_file_start \in Nat /\ segments[1].p_file_end \in Nat
  BY LoadingAssumption DEF TlbInv
<1>3. 1 \in Seg(at)
  BY <1>1, <1>2 DEF CodeFirst, Seg
<1>4. at < STACK_MIN
  <2>1. PICK j \in Loads(prog) : at \in Bytes(prog[j])
    BY <1>1, <1>3, HeaderOf
  <2> QED BY <2>1, BelowStack
<1>5. segments[Min(Seg(at))] = segments[1]
  <2>1. Seg(at) \in SUBSET Nat
    BY LoadingAssumption DEF Seg
  <2>2. Min(Seg(at)) \in Seg(at)
    BY <1>3, <2>1, MinProperty, Zenon
  <2> QED BY <1>1, <1>3, <2>2, OneSegment
<1>6. Copy(at).len # 0
  <2> SUFFICES ASSUME Copy(at).len = 0 PROVE FALSE
    BY Zenon
  <2>1. /\ Copy(at).to \in Nat /\ Copy(at).to >= segments[1].p_vaddr /\ Copy(at).to <= at
        /\ Copy(at).from = segments[1].p_file_start + (Copy(at).to - segments[1].p_vaddr)
        /\ Copy(at).from >= segments[1].p_file_end
    BY <1>3, <1>5, CopyBounds, Zenon
  <2> QED BY <1>1, <1>2, <2>1 DEF CodeFirst
<1> QED BY <1>1, <1>4, <1>6, PageInPages DEF Untouched

(* runprogram starts with no page. *)
LEMMA FaultInit == Init => FaultInv
<1> SUFFICES ASSUME Init PROVE FaultInv
  BY Zenon
<1>1. /\ pages = [g \in Pages |-> "none"] /\ mem = [g \in Pages |-> [o \in Offsets |-> Zero]] /\ pc = "elf"
  BY DEF Init
<1>2. Zero \in Int
  BY DEF Zero
<1>3. mem \in [Pages -> [Offsets -> Int]]
  BY <1>1, <1>2
<1>4. Untouched /\ pages \in [Pages -> {"none", "in", "swap"}]
  BY <1>1 DEF Untouched
<1> QED BY <1>1, <1>3, <1>4 DEF FaultInv, Running

(* The page of a fault stays fixed and its entry writable until the end of   *)
(* the load, and no such entry of a read-only page outlives the fault.       *)
LEMMA FaultStep ==
  ASSUME TlbInv, SegInv, FaultInv, CopyInv, WellLinked(prog), [Next]_vars
  PROVE  FaultInv'
<1>1. pages \in [Pages -> {"none", "in", "swap"}] /\ mem \in [Pages -> [Offsets -> Int]]
  BY DEF FaultInv
<1>2. prog' = prog
  BY Zenon DEF Next, load_elf, Enter, Access, vm_fault, LoadBlock, LoadError, NestedFault, EndFault, Preempt, vars, asvars
<1>3. \A g : MayStore(g)' <=> MayStore(g)
  BY <1>2 DEF MayStore, Writable
<1>4. ~Invalid.dirty /\ Invalid.page = -1 /\ at \in Nat /\ Page(at) # -1
  BY PageNat DEF Invalid, TlbInv
<1>5. CASE load_elf
  <2>1. /\ pc = "elf" /\ UNCHANGED <<pages, mem>> /\ index \in Nat /\ index <= N_SEGMENTS
        /\ pc' \in {"elf", "over", "overrun"} \/ index > N_SEGMENTS
    BY <1>5, Zenon DEF load_elf, as_define_region, SegInv, TlbInv
  <2>2. pc' \in {"elf", "over", "overrun"}
    BY <2>1, LoadingAssumption
  <2> QED BY <2>1, <2>2, Zenon DEF FaultInv, Running, Untouched
<1>6. CASE UNCHANGED segments /\ \A a : Seg(a)' = Seg(a)
  <2>1. CASE Enter
    <3>1. /\ pc = "elf" /\ next = Len(prog) /\ pc' = "fault" /\ at' = segments[1].p_vaddr
          /\ UNCHANGED <<index, pages, mem, tlb>> /\ Untouched
      BY <2>1 DEF Enter, FaultInv
    <3>2. index # 0
      <4>1. PICK i \in Loads(prog) : TRUE
        BY DEF WellLinked
      <4>2. i \in Int /\ i <= next
        BY <3>1, <4>1, LoadingAssumption DEF Loads, TlbInv
      <4> QED BY <3>1, <4>1, <4>2 DEF SegInv, TlbInv
    <3>3. CodeFirst
      BY <3>1, <3>2, Zenon DEF SegInv
    <3>4. at' \in Nat /\ 1 \in Seg(at')
      BY <3>1, <3>3, LoadingAssumption DEF CodeFirst, Seg, TlbInv
    <3>5. at' < TOP
      <4>1. PICK j \in Loads(prog) : at' \in Bytes(prog[j])
        BY <3>4, HeaderOf
      <4> QED BY <3>4, <4>1, BelowStack, LoadingAssumption
    <3>6. \A s \in Slots : ~tlb[s].dirty
      BY <1>4, <3>1 DEF TlbInv
    <3>7. CodeFirst' /\ Untouched' /\ at' = segments'[1].p_vaddr
      BY <1>6, <3>1, <3>3 DEF CodeFirst, Untouched
    <3> QED BY <1>1, <3>1, <3>5, <3>6, <3>7 DEF FaultInv, Running
  <2>2. ASSUME NEW a \in Touched, NEW store \in BOOLEAN, Access(a, store)
        PROVE  FaultInv'
    <3>1. /\ pc = "user" /\ at' = a /\ pc' \in {"user", "fault", "over"}
          /\ UNCHANGED <<index, pages, tlb>>
          /\ mem' = mem \/ mem' = [mem EXCEPT ![Page(a)][a % PAGE_SIZE] = User]
      BY <2>2 DEF Access
    <3>2. a < TOP
      BY LoadingAssumption
    <3>3. mem' \in [Pages -> [Offsets -> Int]]
      BY <1>1, <3>1 DEF User
    <3>4. index = 0 /\ \A s \in Slots : tlb[s].dirty => MayStore(tlb[s].page)
      BY <3>1, Zenon DEF FaultInv, Running
    <3> QED BY <1>1, <1>3, <3>1, <3>2, <3>3, <3>4 DEF FaultInv, Running
  <2>3. CASE vm_fault
    <3> DEFINE g == Page(at)
    <3>1. /\ pc = "fault" /\ at' = at /\ at < TOP /\ g \in Pages /\ Hit(g) = {}
          /\ \A s \in Slots : tlb[s].dirty => MayStore(tlb[s].page)
      BY <1>4, <2>3, PageInPages DEF vm_fault, FaultInv, Running, TlbInv
    <3>2. pages' \in [Pages -> {"none", "in", "swap"}] /\ (pc' \in {"load", "write"} => pages'[g] = "in")
      BY <1>1, <2>3, <3>1 DEF vm_fault, GetFrame
    <3>3. mem' \in [Pages -> [Offsets -> Int]]
      <4>1. mem' = mem \/ mem' = [mem EXCEPT ![g] = [o \in Offsets |-> Zero]]
        BY <2>3, Zenon DEF vm_fault
      <4> QED BY <1>1, <4>1 DEF Zero
    <3>4. /\ pc' \in {"over", "load", "write"}
          /\ pc' \in {"load", "write"} => (Seg(at) # {} \/ at >= STACK_MIN) /\ g \in fixed'
          /\ pc' = "load" => index' = 1 /\ ~(at >= STACK_MIN)
          /\ pc' = "write" => index' = index /\ (pages[g] = "none" => at >= STACK_MIN \/ Copy(at).len = 0)
      BY <2>3 DEF vm_fault
    <3>5. pc' = "write" => index' = 0
      BY <3>1, <3>4, FirstLoads, LoadingAssumption DEF TlbInv
    <3>6. \A s \in Slots : tlb'[s] = tlb[s] \/ tlb'[s] = Invalid
      BY <2>3 DEF vm_fault, GetFrame
    <3>7. Hit(g)' = {}
      BY <1>4, <3>1, <3>6 DEF Hit, Page
    <3>8. \A s \in Slots : tlb'[s].dirty => MayStore(tlb'[s].page)
      BY <1>4, <3>1, <3>6
    <3>9. pc' = "load" => at < STACK_MIN
      BY <1>4, <3>4, LoadingAssumption
    <3>10. Hit(Page(at))' = {}
      BY <3>1, <3>7 DEF Hit, Page
    <3>11. pc' = "load" => index' # 0 /\ Seg(at)' # {} /\ at' < STACK_MIN /\ \A s \in Hit(Page(at))' : tlb'[s].dirty
      BY <1>6, <3>1, <3>4, <3>9, <3>10
    <3>12. pc' \in {"load", "write"} => Page(at') \in fixed' /\ pages'[Page(at')] = "in" /\ (Seg(at)' # {} \/ at' >= STACK_MIN)
      BY <1>6, <3>1, <3>2, <3>4
    <3> QED BY <1>3, <3>1, <3>2, <3>3, <3>4, <3>5, <3>8, <3>11, <3>12, Zenon DEF FaultInv, Running
  <2>4. CASE LoadBlock
    <3> DEFINE o == io.to % PAGE_SIZE
               n == Min({io.len, BLOCK - (io.from % BLOCK)})
               g == Page(io.to)
    <3>1. /\ pc = "load" /\ UNCHANGED <<pages, fixed, tlb, at>> /\ Hit(Page(io.to)) # {}
          /\ io.from \in Nat /\ io.to \in Nat
      BY <2>4 DEF LoadBlock, TlbInv
    <3>2. \E s \in Hit(Page(io.to)) : tlb[s].dirty
      BY <3>1, CopyPage DEF FaultInv
    <3>3. /\ (pc' = "write" /\ index' = 0) \/ (pc' = "load" /\ index' = index)
          /\ mem' = [mem EXCEPT ![g] = [p \in Offsets |-> IF p \in o .. o + n - 1 THEN io.from + (p - o) ELSE @[p]]]
      <4>1. (pc' = "write" /\ index' = 0) \/ (pc' = "load" /\ index' = index)
        <5>1. (pc' = "write" /\ index' = as_complete_load) \/ UNCHANGED <<pc, index>>
          BY <2>4, <3>2, Zenon DEF LoadBlock
        <5>2. pc = "load"
          BY <2>4 DEF LoadBlock
        <5> QED BY <5>1, <5>2, Zenon DEF as_complete_load
      <4>2. mem' = [mem EXCEPT ![g] = [p \in Offsets |-> IF p \in o .. o + n - 1 THEN io.from + (p - o) ELSE @[p]]]
        BY <2>4, <3>2, Zenon DEF LoadBlock
      <4> QED BY <4>1, <4>2
    <3>4. o \in Int /\ \A p \in Offsets : p \in Int /\ io.from + (p - o) \in Int
      BY <3>1, LoadingAssumption DEF Offsets
    <3> HIDE DEF o, n, g
    <3>5. mem' \in [Pages -> [Offsets -> Int]]
      <4> SUFFICES ASSUME g \in Pages PROVE mem' \in [Pages -> [Offsets -> Int]]
        BY <1>1, <3>3, Zenon
      <4> DEFINE new == [p \in Offsets |-> IF p \in o .. o + n - 1 THEN io.from + (p - o) ELSE mem[g][p]]
      <4>1. new \in [Offsets -> Int]
        BY <1>1, <3>4
      <4>2. mem' = [mem EXCEPT ![g] = new]
        BY <3>3, Zenon
      <4> HIDE DEF new
      <4> QED BY <1>1, <4>1, <4>2
    <3>6. Hit(Page(at))' = Hit(Page(at))
      BY <3>1 DEF Hit, Page
    <3> QED BY <1>1, <1>3, <1>6, <3>1, <3>3, <3>5, <3>6 DEF FaultInv, Running
  <2>5. CASE LoadError
    BY <1>1, <2>5 DEF LoadError, FaultInv, Running
  <2>6. CASE NestedFault
    <3>1. /\ pc = "load" /\ Hit(Page(io.to)) = {} /\ UNCHANGED <<index, pages, mem, at>>
          /\ io.to \in Nat /\ Page(io.to) = Page(at) /\ pages[Page(at)] = "in" /\ index # 0
      BY <2>6, CopyPage, Zenon DEF NestedFault, TlbInv, FaultInv
    <3>2. tlb_write(io.to) /\ pc' = pc
      BY <2>6, <3>1, Zenon DEF NestedFault
    <3>3. /\ \A s \in Slots : tlb'[s] # tlb[s] => tlb'[s].page = Page(at)
          /\ \A s \in Slots : tlb'[s].page = Page(at) => tlb'[s] = [page |-> Page(at), dirty |-> Dirty(io.to)]
      BY <3>1, <3>2, WriteSound, Zenon
    <3>4. fixed' = fixed /\ Dirty(io.to)
      BY <3>1, <3>2, Zenon DEF tlb_write, Dirty, ignore_permissions
    <3>5. \A s \in Slots : tlb'[s].page = Page(at) => tlb'[s].dirty
      <4>1. [page |-> Page(at), dirty |-> Dirty(io.to)].dirty
        BY <3>4, Zenon
      <4> QED BY <3>3, <4>1, Zenon
    <3>6. \A s \in Hit(Page(at))' : tlb'[s].dirty
      BY <3>1, <3>5 DEF Hit, Page
    <3>7. \A s \in Slots : tlb'[s].dirty => MayStore(tlb'[s].page) \/ tlb'[s].page = Page(at)
      BY <3>1, <3>3, Zenon DEF FaultInv, Running
    <3> QED BY <1>1, <1>3, <1>6, <3>1, <3>2, <3>4, <3>6, <3>7, Zenon DEF FaultInv, Running
  <2>7. CASE EndFault
    <3>1. /\ pc = "write" /\ pc' = "user" /\ tlb_write(at) /\ UNCHANGED <<index, pages, mem, at>>
          /\ index = 0 /\ (Seg(at) # {} \/ at >= STACK_MIN) /\ at < TOP
      BY <2>7, Zenon DEF EndFault, FaultInv, Running
    <3>2. \A s \in Hit(Page(at)), u \in Slots : u < s => tlb[u] # Invalid
      BY <3>1, Zenon DEF TlbInv
    <3>3. /\ \A s \in Slots : tlb'[s] # tlb[s] => tlb'[s].page = Page(at)
          /\ \A s \in Slots : tlb'[s].page = Page(at) => tlb'[s] = [page |-> Page(at), dirty |-> Dirty(at)]
      BY <1>4, <3>1, <3>2, WriteSound, Zenon
    <3>4. \A s \in Slots : tlb'[s].page = Page(at) /\ tlb'[s].dirty => MayStore(tlb'[s].page)
      <4> SUFFICES ASSUME NEW s \in Slots, tlb'[s].page = Page(at), tlb'[s].dirty PROVE MayStore(Page(at))
        BY Zenon
      <4>1. [page |-> Page(at), dirty |-> Dirty(at)].dirty
        BY <3>3, Zenon
      <4>2. Dirty(at)
        BY <4>1
      <4> QED BY <1>4, <3>1, <4>2, DirtyMayStore
    <3>5. \A s \in Slots : tlb'[s].dirty => MayStore(tlb'[s].page)
      BY <3>1, <3>3, <3>4, Zenon DEF FaultInv, Running
    <3> QED BY <1>1, <1>3, <3>1, <3>5, Zenon DEF FaultInv, Running
  <2>8. CASE Preempt
    <3>1. /\ UNCHANGED <<index, fixed, mem, pc, at>> /\ Running
          /\ \A s \in Slots : tlb'[s] = Invalid
      BY <2>8, Zenon DEF Preempt, Running
    <3>2. pages' \in [Pages -> {"none", "in", "swap"}] /\ \A g \in Pages : pages[g] = "none" \/ g \in fixed => pages'[g] = pages[g]
      BY <1>1, <2>8 DEF Preempt, Swappable
    <3>3. Hit(Page(at))' = {}
      BY <1>4, <3>1 DEF Hit, Page
    <3>4. Untouched => Untouched'
      BY <3>2 DEF Untouched
    <3>5. pc \in {"load", "write"} => Page(at) \in Pages /\ Page(at) \in fixed /\ pages[Page(at)] = "in"
      BY <1>4, <3>1, PageInPages DEF FaultInv
    <3>6. CodeFirst' = CodeFirst
      BY <1>6 DEF CodeFirst
    <3> QED BY <1>1, <1>4, <1>6, <3>1, <3>2, <3>3, <3>4, <3>5, <3>6 DEF FaultInv, Running
  <2>9. CASE UNCHANGED vars
    BY <2>9 DEF vars, asvars, FaultInv, Running, Untouched, CodeFirst, Hit, Seg, MayStore, Writable
  <2> QED BY <1>5, <2>1, <2>2, <2>3, <2>4, <2>5, <2>6, <2>7, <2>8, <2>9 DEF Next
<1>7. CASE ~load_elf
  BY <1>6, <1>7, Segments, Zenon DEF asvars, Seg
<1> QED BY <1>5, <1>7

(* The bytes of a page, and the offset of an address in it. *)
LEMMA ByteOf ==
  ASSUME NEW g \in Nat, NEW o \in Offsets
  PROVE  /\ g * PAGE_SIZE \in Nat /\ o \in Nat /\ o < PAGE_SIZE /\ g * PAGE_SIZE + o \in Nat
         /\ Page(g * PAGE_SIZE + o) = g
<1>1. g * PAGE_SIZE \in Nat /\ o \in Nat /\ o < PAGE_SIZE /\ PAGE_SIZE \in Nat
  BY LoadingAssumption DEF Offsets
<1>2. g * PAGE_SIZE + o \in Nat /\ g * PAGE_SIZE <= g * PAGE_SIZE + o /\ g * PAGE_SIZE + o < g * PAGE_SIZE + PAGE_SIZE
  BY <1>1
<1> QED BY <1>1, <1>2, PageOf

(* One block of the copy extends the bytes that are the file's. *)
LEMMA BlockCopied ==
  ASSUME TlbInv, SegInv, FaultInv, CopyInv, LoadBlock,
         NEW s, s = segments[Min(Seg(at))],
         NEW lo, lo = Page(at) * PAGE_SIZE,
         NEW n, n = Min({io.len, BLOCK - (io.from % BLOCK)})
  PROVE  /\ n \in Nat /\ n > 0 /\ n <= io.len
         /\ \A o \in Offsets :
              /\ lo + o >= s.p_vaddr /\ lo + o < io.to + n => mem'[Page(at)][o] = s.p_file_start + (lo + o - s.p_vaddr)
              /\ lo + o >= io.to + n => mem'[Page(at)][o] = Zero
         /\ \A g \in Pages : g # Page(at) => mem'[g] = mem[g]
<1> DEFINE left == BLOCK - (io.from % BLOCK)
           p0 == io.to % PAGE_SIZE
           g == Page(at)
<1>1. /\ pc = "load" /\ io.to \in Nat /\ io.from \in Nat /\ io.len \in Nat /\ at \in Nat /\ io.len \in Int
      /\ Page(io.to) = Page(at) /\ Hit(Page(io.to)) # {}
  BY CopyPage DEF LoadBlock, TlbInv
<1>2. left \in Int /\ left > 0
  BY <1>1, LoadingAssumption
<1> HIDE DEF left
<1>3. n \in Int /\ n <= io.len /\ (n = io.len \/ n = left)
  BY <1>1, <1>2, MinOfTwo, Zenon DEF left
<1>4. /\ io.len > 0 /\ io.to >= lo /\ io.to >= s.p_vaddr /\ io.from = s.p_file_start + (io.to - s.p_vaddr)
      /\ io.to + io.len <= lo + PAGE_SIZE
      /\ \A o \in Offsets :
           /\ lo + o >= s.p_vaddr /\ lo + o < io.to => mem[Page(at)][o] = s.p_file_start + (lo + o - s.p_vaddr)
           /\ lo + o >= io.to => mem[Page(at)][o] = Zero
  BY <1>1 DEF CopyInv
<1>5. n \in Nat /\ n > 0
  BY <1>1, <1>2, <1>3, <1>4
<1>6. p0 = io.to - lo
  <2>1. io.to % PAGE_SIZE = io.to - Page(io.to) * PAGE_SIZE
    BY <1>1, PageBounds, Zenon
  <2> QED BY <1>1, <2>1, Zenon
<1>7. g \in Pages /\ g \in Nat /\ lo \in Nat
  BY <1>1, PageInPages, PageBounds DEF FaultInv, Running
<1>8. /\ s.p_vaddr \in Nat /\ s.p_file_start \in Nat
  <2>1. Seg(at) \in SUBSET Nat /\ Seg(at) \subseteq 1 .. N_SEGMENTS /\ Seg(at) # {}
    BY <1>1, LoadingAssumption DEF Seg, FaultInv
  <2>2. Min(Seg(at)) \in 1 .. N_SEGMENTS
    BY <2>1, MinProperty, Zenon
  <2> QED BY <2>2, Zenon DEF TlbInv
<1>9. \E h \in Hit(Page(io.to)) : tlb[h].dirty
  BY <1>1, Zenon DEF FaultInv
<1>10. mem' = [mem EXCEPT ![g] = [p \in Offsets |-> IF p \in p0 .. p0 + n - 1 THEN io.from + (p - p0) ELSE mem[g][p]]]
  <2>1. mem' = [mem EXCEPT ![Page(io.to)] = [p \in Offsets |-> IF p \in p0 .. p0 + n - 1 THEN io.from + (p - p0) ELSE mem[Page(io.to)][p]]]
    BY <1>9, Zenon DEF LoadBlock
  <2> QED BY <1>1, <2>1, Zenon
<1> HIDE DEF p0, g
<1>11. DOMAIN mem = Pages
  BY Zenon DEF FaultInv
<1>12. /\ \A p \in Offsets : mem'[g][p] = IF p \in p0 .. p0 + n - 1 THEN io.from + (p - p0) ELSE mem[g][p]
       /\ \A h \in Pages : h # g => mem'[h] = mem[h]
  BY <1>7, <1>10, <1>11, Zenon
<1>13. ASSUME NEW o \in Offsets
       PROVE  /\ lo + o >= s.p_vaddr /\ lo + o < io.to + n => mem'[g][o] = s.p_file_start + (lo + o - s.p_vaddr)
              /\ lo + o >= io.to + n => mem'[g][o] = Zero
  <2>1. o \in Nat
    BY LoadingAssumption DEF Offsets
  <2>2. mem'[g][o] = IF o \in p0 .. p0 + n - 1 THEN io.from + (o - p0) ELSE mem[g][o]
    BY <1>12, Zenon
  <2>3. /\ lo + o >= s.p_vaddr /\ lo + o < io.to => mem[g][o] = s.p_file_start + (lo + o - s.p_vaddr)
        /\ lo + o >= io.to => mem[g][o] = Zero
    BY <1>4, Zenon DEF g
  <2>4. CASE lo + o < io.to
    <3>1. o \notin p0 .. p0 + n - 1
      BY <1>1, <1>5, <1>6, <1>7, <2>1, <2>4
    <3> QED BY <1>1, <1>5, <1>7, <1>8, <2>1, <2>2, <2>3, <2>4, <3>1
  <2>5. CASE lo + o >= io.to /\ lo + o < io.to + n
    <3>1. o \in p0 .. p0 + n - 1
      BY <1>1, <1>5, <1>6, <1>7, <2>1, <2>5
    <3>2. mem'[g][o] = io.from + (o - p0)
      BY <2>2, <3>1, Zenon
    <3> QED BY <1>1, <1>4, <1>5, <1>6, <1>7, <1>8, <2>1, <2>5, <3>2
  <2>6. CASE lo + o >= io.to + n
    <3>1. o \notin p0 .. p0 + n - 1
      BY <1>1, <1>5, <1>6, <1>7, <2>1, <2>6
    <3> QED BY <1>1, <1>5, <1>7, <1>8, <2>1, <2>2, <2>3, <2>6, <3>1
  <2> QED BY <1>1, <1>5, <1>7, <2>1, <2>4, <2>5, <2>6
<1> QED BY <1>3, <1>5, <1>12, <1>13, Zenon DEF g

(* load_segment makes progress towards the end of the copy only. *)
LEMMA CopyStep ==
  ASSUME TlbInv, SegInv, FaultInv, CopyInv, WellLinked(prog), [Next]_vars
  PROVE  CopyInv'
<1> SUFFICES ASSUME pc' = "load" PROVE CopyInv'
  BY DEF CopyInv
<1>1. ~load_elf
  BY Zenon DEF load_elf, as_define_region
<1>2. segments' = segments /\ \A a : Seg(a)' = Seg(a)
  BY <1>1, Segments DEF asvars, Seg
<1> DEFINE s == segments[Min(Seg(at))]
           lo == Page(at) * PAGE_SIZE
<1>3. CASE pc = "load" /\ UNCHANGED <<at, io, mem>>
  <2>1. Seg(at)' = Seg(at)
    BY <1>2, <1>3 DEF Seg
  <2> QED BY <1>2, <1>3, <2>1, Zenon DEF CopyInv, End
<1>4. CASE vm_fault
  <2>1. /\ pc = "fault" /\ at' = at /\ io' = Copy(at) /\ Copy(at).len # 0 /\ Seg(at) # {} /\ at \in Nat /\ at < TOP
        /\ mem' = [mem EXCEPT ![Page(at)] = [o \in Offsets |-> Zero]]
    BY <1>4, Zenon DEF vm_fault, TlbInv, FaultInv, Running
  <2>2. /\ Copy(at).to \in Nat /\ Copy(at).from \in Nat /\ Copy(at).len \in Nat
        /\ Copy(at).to >= lo /\ Copy(at).to >= s.p_vaddr
        /\ Copy(at).from = s.p_file_start + (Copy(at).to - s.p_vaddr)
        /\ Copy(at).to = lo \/ Copy(at).to = s.p_vaddr
        /\ Copy(at).len > 0 =>
             /\ Copy(at).to + Copy(at).len <= lo + PAGE_SIZE
             /\ Copy(at).to + Copy(at).len <= End(s)
             /\ Copy(at).from + Copy(at).len <= s.p_file_end
             /\ \/ Copy(at).to + Copy(at).len = lo + PAGE_SIZE
                \/ Copy(at).to + Copy(at).len = End(s)
                \/ Copy(at).from + Copy(at).len = s.p_file_end
    BY <2>1, CopyBounds, Zenon
  <2>3. Copy(at).len > 0
    BY <2>1, <2>2
  <2>4. Page(at) \in Pages /\ lo \in Nat
    BY <2>1, PageInPages, PageBounds
  <2>5. s.p_vaddr \in Nat
    <3>1. Seg(at) \in SUBSET Nat /\ Seg(at) \subseteq 1 .. N_SEGMENTS
      BY LoadingAssumption DEF Seg
    <3>2. Min(Seg(at)) \in 1 .. N_SEGMENTS
      BY <2>1, <3>1, MinProperty, Zenon
    <3> QED BY <3>2, Zenon DEF TlbInv
  <2>6. \A o \in Offsets : mem'[Page(at)][o] = Zero
    BY <2>1, <2>4 DEF FaultInv
  <2> HIDE DEF s, lo
  <2>7. \A o \in Offsets :
          /\ lo + o >= s.p_vaddr /\ lo + o < io'.to => mem'[Page(at)][o] = s.p_file_start + (lo + o - s.p_vaddr)
          /\ lo + o >= io'.to => mem'[Page(at)][o] = Zero
    <3>1. ASSUME NEW o \in Offsets PROVE ~(lo + o >= s.p_vaddr /\ lo + o < io'.to)
      <4>1. o \in Nat
        BY LoadingAssumption DEF Offsets
      <4> QED BY <2>1, <2>2, <2>4, <2>5, <4>1
    <3> QED BY <2>6, <3>1, Zenon
  <2>8. s' = s /\ lo' = lo /\ End(s') = End(s)
    BY <1>2, <2>1, Zenon DEF s, lo, Seg
  <2> QED BY <2>1, <2>2, <2>3, <2>7, <2>8, Zenon DEF CopyInv, s, lo, End
<1>5. CASE LoadBlock
  <2> DEFINE n == Min({io.len, BLOCK - (io.from % BLOCK)})
  <2>1. /\ pc = "load" /\ at' = at /\ at \in Nat
        /\ io.to \in Nat /\ io.from \in Nat /\ io.len \in Nat /\ Seg(at) # {}
    BY <1>5 DEF LoadBlock, TlbInv, FaultInv
  <2>2. /\ n \in Nat /\ n > 0 /\ n <= io.len
        /\ \A o \in Offsets :
              /\ lo + o >= s.p_vaddr /\ lo + o < io.to + n => mem'[Page(at)][o] = s.p_file_start + (lo + o - s.p_vaddr)
              /\ lo + o >= io.to + n => mem'[Page(at)][o] = Zero
    BY <1>5, BlockCopied, Zenon
  <2>3. n # io.len /\ io' = [to |-> io.to + n, from |-> io.from + n, len |-> io.len - n]
    <3>1. \E h \in Hit(Page(io.to)) : tlb[h].dirty
      BY <1>5, <2>1, CopyPage DEF FaultInv, LoadBlock
    <3>2. pc' = "write" \/ (n # io.len /\ io' = [to |-> io.to + n, from |-> io.from + n, len |-> io.len - n])
      BY <1>5, <3>1, Zenon DEF LoadBlock
    <3> QED BY <3>2
  <2> HIDE DEF n
  <2>4. io'.to = io.to + n /\ io'.from = io.from + n /\ io'.len = io.len - n
    BY <2>3, Zenon
  <2>5. /\ io.len > 0 /\ io.to >= lo /\ io.to >= s.p_vaddr /\ io.from = s.p_file_start + (io.to - s.p_vaddr)
        /\ io.to + io.len <= lo + PAGE_SIZE /\ io.to + io.len <= End(s) /\ io.from + io.len <= s.p_file_end
        /\ io.to + io.len = lo + PAGE_SIZE \/ io.to + io.len = End(s) \/ io.from + io.len = s.p_file_end
    BY <2>1, Zenon DEF CopyInv
  <2>6. s.p_vaddr \in Nat /\ s.p_file_start \in Nat /\ lo \in Nat
    <3>1. Seg(at) \in SUBSET Nat /\ Seg(at) \subseteq 1 .. N_SEGMENTS
      BY LoadingAssumption DEF Seg
    <3>2. Min(Seg(at)) \in 1 .. N_SEGMENTS
      BY <2>1, <3>1, MinProperty, Zenon
    <3> QED BY <2>1, <3>2, PageBounds, Zenon DEF TlbInv
  <2>7. s' = s /\ lo' = lo /\ End(s') = End(s)
    <3>1. Seg(at)' = Seg(at)
      BY <1>2, <2>1, Zenon DEF Seg
    <3> QED BY <1>2, <2>1, <3>1, Zenon DEF s, lo
  <2> HIDE DEF s, lo
  <2>8. io'.to + io'.len = io.to + io.len /\ io'.from + io'.len = io.from + io.len /\ io'.len > 0
    BY <2>1, <2>2, <2>3, <2>4
  <2>9. io'.to >= lo /\ io'.to >= s.p_vaddr /\ io'.from = s.p_file_start + (io'.to - s.p_vaddr)
    BY <2>1, <2>2, <2>4, <2>5, <2>6
  <2> QED BY <2>1, <2>2, <2>4, <2>5, <2>7, <2>8, <2>9, Zenon DEF CopyInv, s, lo, End
<1>6. CASE NestedFault
  BY <1>3, <1>6, Zenon DEF NestedFault
<1>7. CASE Preempt
  BY <1>3, <1>7, Zenon DEF Preempt
<1>8. CASE UNCHANGED vars
  BY <1>3, <1>8, Zenon DEF vars
<1>9. ~Enter /\ ~LoadError /\ ~EndFault /\ \A a \in Touched, store \in BOOLEAN : ~Access(a, store)
  BY Zenon DEF Enter, LoadError, EndFault, Access
<1> QED BY <1>1, <1>4, <1>5, <1>6, <1>7, <1>8, <1>9 DEF Next

(* A page whose bytes stay is as good as it was. *)
LEMMA SamePage ==
  ASSUME UNCHANGED <<prog, segments>>, NEW g, PageLoaded(g), mem'[g] = mem[g]
  PROVE  PageLoaded(g)'
<1>1. \A a : Seg(a)' = Seg(a) /\ Image(a)' = Image(a) /\ (Writable(a)' <=> Writable(a))
  BY DEF Seg, Image, Writable
<1> QED BY <1>1, Zenon DEF PageLoaded, User

(* A page of zeros is right where the image has no bytes of the file. *)
LEMMA ZeroPage ==
  ASSUME TlbInv, SegInv, WellLinked(prog), UNCHANGED <<prog, segments>>,
         NEW g \in Nat, g = Page(at), \A o \in Offsets : mem'[g][o] = Zero,
         at >= STACK_MIN \/ (Seg(at) # {} /\ Copy(at).len = 0)
  PROVE  PageLoaded(g)'
<1>1. \A a : Seg(a)' = Seg(a) /\ Image(a)' = Image(a)
  BY DEF Seg, Image
<1>2. ASSUME NEW o \in Offsets, Seg(g * PAGE_SIZE + o) # {} \/ g * PAGE_SIZE + o >= STACK_MIN
      PROVE  Image(g * PAGE_SIZE + o) = Zero
  <2> DEFINE a == g * PAGE_SIZE + o
  <2>1. a \in Nat /\ Page(a) = g /\ at \in Nat /\ o \in Nat /\ g * PAGE_SIZE \in Nat
    BY ByteOf DEF TlbInv
  <2> HIDE DEF a
  <2>2. CASE a >= STACK_MIN
    BY <2>1, <2>2, StackImage, Zenon DEF a
  <2>3. CASE a < STACK_MIN
    <3>1. ~(at >= STACK_MIN)
      BY <2>1, <2>3, StackPage
    <3>2. Seg(a) # {}
      BY <1>2, <2>1, <2>3, LoadingAssumption DEF a
    <3>3. PICK i \in Seg(a) : TRUE
      BY <3>2, Zenon
    <3>4. Seg(at) # {} /\ Copy(at).len = 0
      BY <3>1, Zenon
    <3>5. Min(Seg(at)) \in Seg(at)
      <4>1. Seg(at) \in SUBSET Nat
        BY LoadingAssumption DEF Seg
      <4> QED BY <3>4, <4>1, MinProperty, Zenon
    <3>6. segments[Min(Seg(at))] = segments[i]
      BY <2>1, <3>3, <3>5, OneSegment
    <3>7. /\ Copy(at).to \in Nat
          /\ Copy(at).to = g * PAGE_SIZE \/ Copy(at).to = segments[i].p_vaddr
          /\ Copy(at).from = segments[i].p_file_start + (Copy(at).to - segments[i].p_vaddr)
          /\ Copy(at).from >= segments[i].p_file_end
      BY <3>4, <3>6, CopyBounds, Zenon
    <3>8. /\ a >= segments[i].p_vaddr /\ segments[i].p_vaddr \in Nat
          /\ segments[i].p_file_start \in Nat /\ segments[i].p_file_end \in Nat
      BY <3>3 DEF Seg, TlbInv
    <3>9. a >= Copy(at).to
      BY <2>1, <3>7, <3>8 DEF a
    <3>10. a >= segments[i].p_vaddr + (segments[i].p_file_end - segments[i].p_file_start)
      BY <2>1, <3>7, <3>8, <3>9
    <3> QED BY <2>1, <3>3, <3>10, SegmentImage DEF a
  <2> QED BY <2>1, <2>2, <2>3, LoadingAssumption
<1> QED BY <1>1, <1>2, Zenon DEF PageLoaded, Zero

(* The last block completes the page. *)
LEMMA LastBlock ==
  ASSUME TlbInv, SegInv, FaultInv, CopyInv, WellLinked(prog), LoadBlock, pc' # "load",
         NEW g \in Nat, g = Page(at)
  PROVE  PageLoaded(g)'
<1> DEFINE k == Min(Seg(at))
           s == segments[k]
           lo == Page(at) * PAGE_SIZE
           n == Min({io.len, BLOCK - (io.from % BLOCK)})
<1>1. /\ pc = "load" /\ at \in Nat /\ at < STACK_MIN /\ UNCHANGED <<prog, segments>>
      /\ io.to \in Nat /\ io.from \in Nat /\ io.len \in Nat /\ Seg(at) # {}
  BY DEF LoadBlock, TlbInv, FaultInv, asvars
<1>2. \A a : Seg(a)' = Seg(a) /\ Image(a)' = Image(a)
  BY <1>1 DEF Seg, Image
<1>3. k \in Seg(at)
  <2>1. Seg(at) \in SUBSET Nat
    BY LoadingAssumption DEF Seg
  <2> QED BY <1>1, <2>1, MinProperty, Zenon
<1>4. s.p_vaddr \in Nat /\ s.p_memsz \in Nat /\ s.p_file_start \in Nat /\ s.p_file_end \in Nat
  BY <1>3, Zenon DEF Seg, TlbInv
<1>5. \A o \in Offsets :
        /\ lo + o >= s.p_vaddr /\ lo + o < io.to + n => mem'[Page(at)][o] = s.p_file_start + (lo + o - s.p_vaddr)
        /\ lo + o >= io.to + n => mem'[Page(at)][o] = Zero
  BY BlockCopied, Zenon
<1>6. n = io.len
  <2>1. \E h \in Hit(Page(io.to)) : tlb[h].dirty
    BY <1>1, CopyPage DEF FaultInv, LoadBlock
  <2>2. n = io.len \/ pc' = pc
    BY <2>1, Zenon DEF LoadBlock
  <2> QED BY <1>1, <2>2
<1>7. /\ io.from = s.p_file_start + (io.to - s.p_vaddr) /\ io.to >= lo /\ io.to >= s.p_vaddr
      /\ io.to + io.len <= lo + PAGE_SIZE /\ io.to + io.len <= End(s) /\ io.from + io.len <= s.p_file_end
      /\ io.to + io.len = lo + PAGE_SIZE \/ io.to + io.len = End(s) \/ io.from + io.len = s.p_file_end
  BY <1>1, Zenon DEF CopyInv
<1> HIDE DEF n
<1>8. ASSUME NEW o \in Offsets, Seg(g * PAGE_SIZE + o) # {} \/ g * PAGE_SIZE + o >= STACK_MIN
      PROVE  mem'[g][o] = Image(g * PAGE_SIZE + o)
  <2> DEFINE a == g * PAGE_SIZE + o
  <2>1. a \in Nat /\ Page(a) = g /\ o \in Nat /\ o < PAGE_SIZE /\ lo \in Nat
    BY <1>1, ByteOf
  <2> HIDE DEF a
  <2>2. ~(a >= STACK_MIN)
    BY <1>1, <2>1, StackPage
  <2>3. PICK i \in Seg(a) : TRUE
    BY <1>8, <2>2 DEF a
  <2>4. segments[i] = s
    BY <1>1, <1>3, <2>1, <2>3, OneSegment
  <2>5. a >= s.p_vaddr /\ a < End(s) /\ End(s) \in Nat
    BY <1>4, <2>3, <2>4 DEF Seg, End
  <2> HIDE DEF s
  <2>6. /\ a < s.p_vaddr + (s.p_file_end - s.p_file_start) => Image(a) = s.p_file_start + (a - s.p_vaddr)
        /\ a >= s.p_vaddr + (s.p_file_end - s.p_file_start) => Image(a) = Zero
    BY <2>1, <2>3, <2>4, SegmentImage
  <2>7. a = lo + o
    BY Zenon DEF a
  <2> HIDE DEF lo
  <2>8. CASE a < io.to + io.len
    <3>1. mem'[g][o] = s.p_file_start + (a - s.p_vaddr)
      <4>1. lo + o >= s.p_vaddr /\ lo + o < io.to + n
        BY <1>6, <2>5, <2>7, <2>8, Zenon
      <4>2. mem'[g][o] = s.p_file_start + (lo + o - s.p_vaddr)
        BY <1>5, <4>1, Zenon
      <4> QED BY <1>4, <2>1, <2>7, <4>2
    <3>2. a < s.p_vaddr + (s.p_file_end - s.p_file_start)
      BY <1>1, <1>4, <1>7, <2>1, <2>5, <2>8
    <3> QED BY <2>6, <3>1, <3>2 DEF a
  <2>9. CASE a >= io.to + io.len
    <3>1. mem'[g][o] = Zero
      BY <1>5, <1>6, <2>7, <2>9
    <3>2. a < lo + PAGE_SIZE
      BY <2>1, <2>7, LoadingAssumption
    <3>3. io.from + io.len = s.p_file_end
      BY <1>1, <1>7, <2>1, <2>5, <2>9, <3>2, LoadingAssumption
    <3>4. a >= s.p_vaddr + (s.p_file_end - s.p_file_start)
      BY <1>1, <1>4, <1>7, <2>1, <2>5, <2>9, <3>3
    <3> QED BY <2>6, <3>1, <3>4 DEF a
  <2>10. a < io.to + io.len \/ a >= io.to + io.len
    BY <1>1, <2>1
  <2> QED BY <2>8, <2>9, <2>10, Zenon
<1> QED BY <1>2, <1>8, Zenon DEF PageLoaded

(* Loading, storing, swapping and switching keep the image. *)
LEMMA ImageStep ==
  ASSUME TlbInv, SegInv, FaultInv, CopyInv, ImageLoaded, FaultInv', CopyInv', WellLinked(prog), [Next]_vars
  PROVE  ImageLoaded'
<1> SUFFICES ASSUME NEW g \in Pages, pages'[g] # "none", ~(pc' = "load" /\ g = Page(io'.to)), pc' # "over"
             PROVE  PageLoaded(g)'
  BY Zenon DEF ImageLoaded, Pages, Page
<1>1. g \in Nat
  BY LoadingAssumption DEF Pages
<1>2. pc' # "elf" /\ pc' # "overrun" /\ pc' # "panic"
  BY Zenon DEF FaultInv, Untouched
<1>3. ~load_elf
  BY <1>2, Zenon DEF load_elf, as_define_region
<1>4. prog' = prog /\ segments' = segments
  BY <1>3, Segments, Zenon DEF asvars
<1>5. CASE mem'[g] = mem[g] /\ pages[g] # "none" /\ ~(pc = "load" /\ g = Page(io.to)) /\ pc # "over"
  BY <1>4, <1>5, SamePage DEF ImageLoaded
<1>6. CASE Enter
  BY <1>6 DEF Enter, FaultInv, Untouched
<1>7. ASSUME NEW b \in Touched, NEW store \in BOOLEAN, Access(b, store)
      PROVE  PageLoaded(g)'
  <2>1. pc = "user" /\ pages' = pages
    BY <1>7 DEF Access
  <2>2. PageLoaded(g)
    BY <2>1 DEF ImageLoaded
  <2>3. CASE mem' = mem
    BY <1>5, <2>1, <2>3
  <2>4. CASE mem' # mem
    <3>1. /\ mem' = [mem EXCEPT ![Page(b)][b % PAGE_SIZE] = User]
          /\ \E s \in Hit(Page(b)) : tlb[s].dirty
      BY <1>7, <2>4, Zenon DEF Access
    <3>2. b \in Nat /\ b < TOP
      BY LoadingAssumption
    <3>3. MayStore(Page(b))
      BY <2>1, <3>1, Zenon DEF FaultInv, Running, Hit
    <3>4. mem \in [Pages -> [Offsets -> Int]] /\ Page(b) \in Pages
      BY <3>2, PageInPages, Zenon DEF FaultInv
    <3>5. CASE g # Page(b)
      BY <1>5, <2>1, <3>1, <3>4, <3>5
    <3>6. CASE g = Page(b)
      <4>1. ASSUME NEW o \in Offsets, Seg(g * PAGE_SIZE + o) # {} \/ g * PAGE_SIZE + o >= STACK_MIN
            PROVE  \/ mem'[g][o] = Image(g * PAGE_SIZE + o)
                   \/ mem'[g][o] = User /\ Writable(g * PAGE_SIZE + o)
        <5>1. mem'[g][o] = User \/ mem'[g][o] = mem[g][o]
          BY <3>1, <3>4, <3>6
        <5>2. g * PAGE_SIZE + o \in Nat /\ Page(g * PAGE_SIZE + o) = g
          BY <1>1, ByteOf
        <5>3. Writable(g * PAGE_SIZE + o)
          BY <3>3, <3>6, <4>1, <5>2, WholePage
        <5> QED BY <2>2, <4>1, <5>1, <5>3, Zenon DEF PageLoaded
      <4>2. \A a : Seg(a)' = Seg(a) /\ Image(a)' = Image(a) /\ (Writable(a)' <=> Writable(a))
        BY <1>4, Zenon DEF Seg, Image, Writable
      <4> QED BY <4>1, <4>2, Zenon DEF PageLoaded, User
    <3> QED BY <3>5, <3>6
  <2> QED BY <2>3, <2>4
<1>8. CASE vm_fault
  <2>1. pc = "fault" /\ at \in Nat /\ at < TOP /\ Page(at) \in Pages /\ Page(at) \in Nat
    BY <1>8, PageInPages, PageNat, Zenon DEF vm_fault, TlbInv, FaultInv, Running
  <2>2. g # Page(at) => pages[g] # "none" /\ mem'[g] = mem[g]
    <3>1. g # Page(at) => pages[g] # "none"
      BY <1>2, <1>8, <2>1 DEF vm_fault, GetFrame, Swappable
    <3>2. mem' = mem \/ mem' = [mem EXCEPT ![Page(at)] = [o \in Offsets |-> Zero]]
      BY <1>8, Zenon DEF vm_fault
    <3> QED BY <3>1, <3>2, Zenon DEF FaultInv
  <2>3. CASE g # Page(at) \/ (mem' = mem /\ pages[g] # "none")
    BY <1>5, <2>1, <2>2, <2>3
  <2>4. CASE g = Page(at) /\ ~(mem' = mem /\ pages[g] # "none")
    <3>1. /\ pages[g] = "none" /\ mem' = [mem EXCEPT ![g] = [o \in Offsets |-> Zero]]
          /\ Seg(at) # {} \/ at >= STACK_MIN
          /\ (pc' = "write" /\ (at >= STACK_MIN \/ Copy(at).len = 0)) \/ (pc' = "load" /\ io' = Copy(at) /\ at' = at)
      BY <1>8, <2>4 DEF vm_fault
    <3>2. pc' # "load"
      <4> SUFFICES ASSUME pc' = "load" PROVE FALSE
        BY Zenon
      <4>1. Seg(at) # {} /\ io' = Copy(at)
        BY <1>8, LoadingAssumption, Zenon DEF vm_fault
      <4>2. /\ Copy(at).to \in Nat /\ Copy(at).to >= Page(at) * PAGE_SIZE /\ Copy(at).to <= at
        BY <4>1, CopyBounds, Zenon
      <4>3. Page(at) * PAGE_SIZE \in Nat /\ at < Page(at) * PAGE_SIZE + PAGE_SIZE
        BY <2>1, PageBounds, Zenon
      <4>4. Copy(at).to < Page(at) * PAGE_SIZE + PAGE_SIZE
        <5>1. \A x, y, b, k \in Nat : x <= y /\ y < b + k => x < b + k
          OBVIOUS
        <5>2. PAGE_SIZE \in Nat
          BY LoadingAssumption
        <5> QED BY <2>1, <4>2, <4>3, <5>1, <5>2, Zenon
      <4>5. Page(Copy(at).to) = Page(at)
        BY <2>1, <4>2, <4>4, PageOf
      <4>6. g = Page(io'.to)
        BY <2>4, <4>1, <4>5, Zenon
      <4> QED BY <4>6, Zenon
    <3>3. \A o \in Offsets : mem'[g][o] = Zero
      BY <3>1, Zenon DEF FaultInv
    <3> QED BY <1>1, <1>4, <2>4, <3>1, <3>2, <3>3, ZeroPage
  <2> QED BY <2>3, <2>4, Zenon
<1>9. CASE LoadBlock
  <2>1. pc = "load" /\ Page(io.to) = Page(at) /\ pages' = pages /\ pages[g] # "none"
    BY <1>9, CopyPage, Zenon DEF LoadBlock
  <2>2. CASE g # Page(at)
    BY <1>5, <1>9, <2>1, <2>2, BlockCopied, Zenon
  <2>3. CASE g = Page(at)
    <3>1. pc' # "load"
      <4> SUFFICES ASSUME pc' = "load" PROVE FALSE
        BY Zenon
      <4>1. at' = at /\ io'.to \in Nat /\ io'.len \in Nat
        <5>1. TlbInv'
          BY NextTlbInv, Zenon
        <5> QED BY <1>9, <5>1, Zenon DEF LoadBlock, TlbInv
      <4>2. io'.to >= Page(at) * PAGE_SIZE /\ io'.to + io'.len <= Page(at) * PAGE_SIZE + PAGE_SIZE /\ io'.len > 0
        BY <4>1, Zenon DEF CopyInv
      <4>3. Page(at) \in Nat /\ Page(at) * PAGE_SIZE \in Nat /\ PAGE_SIZE \in Nat
        BY PageBounds, LoadingAssumption, Zenon DEF TlbInv
      <4>4. io'.to < Page(at) * PAGE_SIZE + PAGE_SIZE
        BY <4>1, <4>2, <4>3
      <4>5. Page(io'.to) = Page(at)
        BY <4>1, <4>2, <4>3, <4>4, PageOf
      <4>6. g = Page(io'.to)
        BY <2>3, <4>5, Zenon
      <4> QED BY <4>6, Zenon
    <3> QED BY <1>1, <1>9, <2>3, <3>1, LastBlock
  <2> QED BY <2>2, <2>3, Zenon
<1>10. CASE LoadError
  BY <1>10, Zenon DEF LoadError
<1>11. CASE NestedFault
  <2>1. pc' = pc /\ UNCHANGED <<pages, mem, io>>
    BY <1>2, <1>11, Zenon DEF NestedFault
  <2> QED BY <1>5, <2>1, Zenon
<1>12. CASE EndFault
  BY <1>5, <1>12, Zenon DEF EndFault
<1>13. CASE Preempt
  <2>1. UNCHANGED <<pc, mem, io>> /\ pages[g] # "none"
    BY <1>13, Zenon DEF Preempt, Swappable
  <2> QED BY <1>5, <2>1, Zenon
<1>14. CASE UNCHANGED vars
  BY <1>5, <1>14, Zenon DEF vars
<1> QED BY <1>3, <1>6, <1>7, <1>8, <1>9, <1>10, <1>11, <1>12, <1>13, <1>14 DEF Next

(* The four parts of the argument together. *)
LoadInv == TlbInv /\ SegInv /\ FaultInv /\ CopyInv /\ ImageLoaded

(* The inductive invariant of a load, for every well linked program. *)
THEOREM LoadInvAlways ==
  ASSUME \A p \in Programs : WellLinked(p)
  PROVE  Spec => []LoadInv
<1>1. Init => LoadInv
  <2> SUFFICES ASSUME Init PROVE LoadInv
    BY Zenon
  <2>1. CopyInv /\ ImageLoaded
    BY Zenon DEF Init, CopyInv, ImageLoaded
  <2> QED BY <2>1, InitTlbInv, SegInit, FaultInit, Zenon DEF LoadInv
<1>2. LoadInv /\ [Next]_vars => LoadInv'
  <2> SUFFICES ASSUME LoadInv, [Next]_vars PROVE LoadInv'
    BY Zenon
  <2>1. TlbInv /\ SegInv /\ FaultInv /\ CopyInv /\ ImageLoaded /\ WellLinked(prog)
    BY Zenon DEF LoadInv, TlbInv
  <2>2. FaultInv' /\ CopyInv'
    BY <2>1, FaultStep, CopyStep, Zenon
  <2>3. ImageLoaded'
    BY <2>1, <2>2, ImageStep, Zenon
  <2>4. TlbInv' /\ SegInv'
    BY <2>1, NextTlbInv, SegStep, Zenon
  <2> QED BY <2>2, <2>3, <2>4, Zenon DEF LoadInv
<1> QED BY <1>1, <1>2, PTL DEF Spec

(* For every page size, block size and number of TLB slots and every well    *)
(* linked program, a page that the program can reach holds the bytes that    *)
(* its headers ask for or that it has stored: load_page copies neither too   *)
(* little nor too much, and swapping and preemption lose nothing.            *)
THEOREM PagesHoldImage ==
  ASSUME \A p \in Programs : WellLinked(p)
  PROVE  Spec => []ImageLoaded
<1>1. LoadInv => ImageLoaded
  BY Zenon DEF LoadInv
<1> QED BY <1>1, LoadInvAlways, PTL

(* Likewise no entry of the TLB lets the running program store to a page of  *)
(* a read-only segment, though load_page needs one and index, nonzero after  *)
(* load_elf, is read as ignore_permissions until the first load ends.        *)
THEOREM TextStaysReadOnly ==
  ASSUME \A p \in Programs : WellLinked(p)
  PROVE  Spec => []TextProtected
<1>1. LoadInv => TextProtected
  BY Zenon DEF LoadInv, FaultInv, TextProtected, Running, MayStore
<1> QED BY <1>1, LoadInvAlways, PTL

(* Likewise load_segment stays on the page that vm_fault has provided, finds *)
(* it in memory and may store to it.                                         *)
THEOREM LoadingSucceeds ==
  ASSUME \A p \in Programs : WellLinked(p)
  PROVE  Spec => []LoadSucceeds
<1>1. LoadInv => LoadSucceeds
  <2> SUFFICES ASSUME LoadInv PROVE LoadSucceeds
    BY Zenon
  <2>1. pc # "panic"
    BY Zenon DEF LoadInv, FaultInv
  <2>2. pc = "load" => Page(io.to) = Page(at) /\ Page(io.to + io.len - 1) = Page(at)
    BY CopyPage, Zenon DEF LoadInv
  <2> QED BY <2>1, <2>2, Zenon DEF LoadSucceeds
<1> QED BY <1>1, LoadInvAlways, PTL
==============================================================================
