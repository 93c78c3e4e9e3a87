------------------------ MODULE MCCommerceExecution ------------------------
(* Small instances of CommerceExecution for TLC.                           *)
EXTENDS CommerceExecution, TLC

Symmetry == Permutations(Workers)
=============================================================================
