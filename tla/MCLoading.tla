------------------------------ MODULE MCLoading ------------------------------
(* Small instances of Loading for TLC: pages of 4 bytes, text in pages 1 and *)
(* 2, data in pages 3 and 4, the stack in page 6.                            *)
EXTENDS Loading

(* The programs are what a linker produces, as the proofs ask. *)
ASSUME MCLoadingAssumption == \A p \in Programs : WellLinked(p)

PT(v, m, o, f, w) == [p_type |-> "load", p_vaddr |-> v, p_memsz |-> m, p_offset |-> o, p_filesz |-> f, writable |-> w]
Skip == [p_type |-> "skip"]
Other == [p_type |-> "other"]

(* A segment that starts and ends inside a page, a data segment with bss on  *)
(* its last file page and beyond, one that is all bss, and one whose file    *)
(* part is longer than its memory.                                           *)
TwoSegments ==
  {<<Skip, PT(4, 6, 0, 6, FALSE), PT(13, 6, 7, 2, TRUE)>>,
   <<PT(5, 7, 1, 7, FALSE), PT(12, 3, 8, 0, TRUE)>>,
   <<PT(4, 3, 3, 3, FALSE), PT(14, 5, 6, 7, TRUE), Skip>>,
   <<PT(4, 3, 3, 3, FALSE), Other>>}

ThreeSegments == {<<PT(4, 4, 0, 4, FALSE), PT(8, 4, 4, 4, FALSE), PT(12, 4, 8, 4, TRUE)>>}
==============================================================================
