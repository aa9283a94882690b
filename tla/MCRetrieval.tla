------------------------------ MODULE MCRetrieval ------------------------------
(* Instances of Retrieval for TLC: the source has two versions, of different  *)
(* shape, so that every edit shows in the model.                               *)
EXTENDS Retrieval, TLC

CONSTANTS v3, shape, reshaped

MCShape == [v \in Versions |-> IF v = v3 THEN reshaped ELSE shape]
=============================================================================
