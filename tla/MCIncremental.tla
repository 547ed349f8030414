--------------------------- MODULE MCIncremental ----------------------------
(* A program r that imports b and a; b imports a.                           *)
EXTENDS Incremental, TLC

CONSTANTS r, a, b, f1, f2

MCPkgs == {r, a, b}
MCImports == [p \in MCPkgs |-> IF p = r THEN {a, b} ELSE IF p = b THEN {a} ELSE {}]
FileSymmetry == Permutations(Files)
=============================================================================
