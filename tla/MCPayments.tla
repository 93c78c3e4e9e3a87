----------------------------- MODULE MCPayments -----------------------------
(* Small instances of Payments for TLC.                                    *)
EXTENDS Payments, TLC

CONSTANTS h1, h2

Symmetry == Permutations({h1, h2})
=============================================================================
