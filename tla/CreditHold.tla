----------------------------- MODULE CreditHold -----------------------------
(***************************************************************************)
(* What the credit ledger promises the user of the commerce workbench, and *)
(* nothing of how it does it: credits are held for an item when it is      *)
(* ordered, and every hold is resolved once.  An item that succeeds costs  *)
(* at most its hold and the rest comes back; any other item costs nothing. *)
(***************************************************************************)
EXTENDS Integers, FiniteSets

CONSTANTS Items, Price, InitialCredits

VARIABLES
    available,  \* credits the user can spend
    hold,       \* the hold of each item
    paid        \* what each item has cost

holdVars == <<available, hold, paid>>

Init ==
    /\ available = InitialCredits
    /\ hold = [i \in Items |-> "none"]
    /\ paid = [i \in Items |-> 0]

\* The items of S are ordered together, and only if the user can pay for all.
Hold(S) ==
    /\ S # {} /\ \A i \in S : hold[i] = "none"
    /\ available >= Price * Cardinality(S)
    /\ available' = available - Price * Cardinality(S)
    /\ hold' = [i \in Items |-> IF i \in S THEN "held" ELSE hold[i]]
    /\ UNCHANGED paid

Settle(i, cost) ==
    /\ hold[i] = "held"
    /\ available' = available + (Price - cost)
    /\ hold' = [hold EXCEPT ![i] = "settled"]
    /\ paid' = [paid EXCEPT ![i] = cost]

Release(S) ==
    /\ S # {} /\ \A i \in S : hold[i] = "held"
    /\ available' = available + Price * Cardinality(S)
    /\ hold' = [i \in Items |-> IF i \in S THEN "released" ELSE hold[i]]
    /\ UNCHANGED paid

Next ==
    \/ \E S \in SUBSET Items : Hold(S) \/ Release(S)
    \/ \E i \in Items, cost \in 0..Price : Settle(i, cost)

Spec == Init /\ [][Next]_holdVars
=============================================================================
