--------------------------------- MODULE MCVm ---------------------------------
(* Small instances of Vm for TLC. *)
EXTENDS Vm, TLC

CONSTANTS p1, p2, k

OneProc  == {p1}
TwoProcs == {p1, p2}
EntriesOne == {p1} \X {1, 2, 3}
EntriesSmall == {p1, p2} \X {1}
EntriesTwo == {p1, p2} \X {1, 2}
None == {}
KernelOnly == {k}
AllThreads == {p1, p2, k}
Perms == Permutations({p1, p2})
=============================================================================
