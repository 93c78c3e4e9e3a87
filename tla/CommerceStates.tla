--------------------------- MODULE CommerceStates ---------------------------
(***************************************************************************)
(* The statuses of commerce items, jobs and batches, and the transitions   *)
(* the code declares for them.  Source: ecommerce/states.go.               *)
(***************************************************************************)

Waiting  == {"queued", "retrying"}
Live     == Waiting \union {"running"}
Terminal == {"succeeded", "failed", "canceled"}
ItemStatus == Live \union Terminal
BatchStatus == {"queued", "running", "partial_succeeded", "succeeded",
                "failed", "canceled"}

\* CanTransitionCommerceItem and CanTransitionCommerceJob, which are one table.
\* The code declares it and consults it nowhere.
CanTransition(from, to) ==
    \/ from \in Waiting /\ to \in {"running", "canceled"}
    \/ from = "running" /\ to \in {"retrying", "succeeded", "failed", "canceled"}
=============================================================================
