---------------------------- MODULE MCImageQueue ----------------------------
(* Small instances of ImageQueue for TLC.                                  *)
EXTENDS ImageQueue, TLC

CONSTANTS u1, u2, p1, p2, r1, r2

MCOneUser == [j \in Jobs |-> u1]
MCTwoUsers == [j \in Jobs |-> IF j = 1 THEN u1 ELSE u2]
MCOneProcess == [r \in Runners |-> p1]
MCTwoProcesses == [r \in Runners |-> IF r = r1 THEN p1 ELSE p2]

\* The two processes may change places, if their runners do.
Symmetry == {f \in Permutations({p1, p2, r1, r2}) : f[r1] = (IF f[p1] = p1 THEN r1 ELSE r2)
                                                    /\ f[p1] \in {p1, p2} /\ f[p2] \in {p1, p2}}
=============================================================================
