------------------------------ MODULE MCPortal ------------------------------
(* Small instances of Portal for TLC. *)
EXTENDS Portal, TLC

\* Siblings are interchangeable.
Family == Permutations(Siblings)
=============================================================================
