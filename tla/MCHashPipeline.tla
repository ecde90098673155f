--------------------------- MODULE MCHashPipeline ---------------------------
(* HashPipeline for TLC, with every failure. *)
EXTENDS HashPipeline

AllFaults == FaultKinds
=============================================================================
