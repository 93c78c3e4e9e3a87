-------------------------- MODULE MCCommerceWorks --------------------------
(***************************************************************************)
(* The execution of the items of commerce, the stored objects their        *)
(* pictures become, and the counters of their batches.  The models share   *)
(* no state: each behaviour runs one of them, and the others stay in their *)
(* initial state.                                                          *)
(***************************************************************************)
EXTENDS MCCommerceExecution, CommerceObjects, BatchCounters

VARIABLE side

MCInit ==
    /\ side \in {"execution", "objects", "counters"}
    /\ ExecInit /\ ObjectsInit /\ CountersInit

MCNext ==
    /\ UNCHANGED side
    /\ \/ side = "execution" /\ ExecNext /\ UNCHANGED <<commerceObjects, counterVars>>
       \/ side = "objects" /\ ObjectsNext /\ UNCHANGED <<allVars, counterVars>>
       \/ side = "counters" /\ CountersNext /\ UNCHANGED <<allVars, commerceObjects>>

MCSpec == MCInit /\ [][MCNext]_<<side, allVars, commerceObjects, counterVars>>
=============================================================================
