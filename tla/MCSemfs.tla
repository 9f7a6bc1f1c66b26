------------------------------- MODULE MCSemfs -------------------------------
(* Small instances of Semfs for TLC. *)
EXTENDS Semfs, TLC

CONSTANTS t1, t2, t3, o1, o2

ThreeThreads == {t1, t2, t3}
OneReader == {t1}
TwoReaders == {t1, t2}
MCObjs == {o1, o2}
Perms == {p @@ q : p \in Permutations(MCObjs), q \in Permutations({t2, t3})}
==============================================================================
