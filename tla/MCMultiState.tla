---------------------------- MODULE MCMultiState ----------------------------
(* Instances of MultiState for TLC: the root checkout "main" and a name       *)
(* "feat" that two directories can carry.                                     *)
EXTENDS MultiState, TLC

CONSTANTS pathMain, pathA, pathB, main, feat, ghost

MCNameOf == [p \in Paths |-> IF p = pathMain THEN main ELSE feat]

Symmetry == Permutations(Loads) \cup Permutations(Callers)
=============================================================================
