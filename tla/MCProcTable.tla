------------------------------ MODULE MCProcTable ------------------------------
(* Small instances of ProcTable for TLC. *)
EXTENDS ProcTable, TLC

CONSTANTS k, a, b, c

Three == {k, a, b, c}
PermsThree == Permutations({a, b, c})
=============================================================================
