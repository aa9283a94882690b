---------------------------- MODULE MCModelReload ----------------------------
(* Instances of ModelReload for TLC: a root package and one below it; the inner  *)
(* package calls the root, the root implements an interface of the inner one,    *)
(* which it does not import.                                                     *)
EXTENDS ModelReload, TLC

CONSTANTS top, sub

MCAbove     == [p \in Pkgs |-> IF p = top THEN <<top>> ELSE <<p, top>>]
MCImports   == [p \in Pkgs |-> {p, top}]
MCCalls     == {<<sub, top>>}
MCSatisfies == {<<top, sub>>}

=============================================================================
