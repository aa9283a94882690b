------------------------------- MODULE MCDaemons -------------------------------
(* Instances of Daemons for TLC. *)
EXTENDS Daemons, TLC

Symmetry == Permutations(Pids) \cup Permutations(Clients)
=============================================================================
