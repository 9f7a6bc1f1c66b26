------------------------------ MODULE MCKmalloc ------------------------------
(* Small instances of Kmalloc for TLC. *)
EXTENDS Kmalloc

CONSTANTS t1, t2

MCThreads == {t1, t2}
MCsizes == <<4, 6>>
Perms == Permutations(MCThreads)
==============================================================================
