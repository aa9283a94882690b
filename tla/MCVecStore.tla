------------------------------ MODULE MCVecStore ------------------------------
(* Instances of VecStore for TLC: daemon d3 runs another embedder, whose          *)
(* namespace has the same file name.                                              *)
EXTENDS VecStore, TLC

CONSTANTS d3, nomic, other

MCNsOf == [d \in Daemons |-> IF d = d3 THEN other ELSE nomic]

Symmetry == Permutations(Hashes) \cup Permutations(Daemons \ {d3})
=============================================================================
