-------------------------- MODULE MCCommerceQueue --------------------------
(* Small instances of CommerceQueue for TLC.                               *)
EXTENDS CommerceQueue, TLC

Symmetry == Permutations(Items) \union Permutations(Batches) \union Permutations(Workers)
=============================================================================
