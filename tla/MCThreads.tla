------------------------------ MODULE MCThreads ------------------------------
(* Small instances of Threads for TLC. *)
EXTENDS Threads, TLC

CONSTANTS t1, t2, t3

MCThreadSet == {t1, t2, t3}
Perms == Permutations(MCThreadSet)

(* Liveness is checked from one of the initial states, which differ only in  *)
(* the names of the boot threads.                                            *)
LiveSpec == InitFrom((0 :> t1) @@ (1 :> t2)) /\ [][Next]_vars /\ Fairness
==============================================================================
