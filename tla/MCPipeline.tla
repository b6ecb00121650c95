----------------------------- MODULE MCPipeline -----------------------------
(* Small instances of Pipeline for TLC. *)
EXTENDS Pipeline, TLC

\* The slots of the workers are interchangeable: no formula names one.
Slots == Permutations(Workers)
=============================================================================
