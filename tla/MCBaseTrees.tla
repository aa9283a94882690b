----------------------------- MODULE MCBaseTrees -----------------------------
(* Instances of BaseTrees for TLC. *)
EXTENDS BaseTrees, TLC

=============================================================================
