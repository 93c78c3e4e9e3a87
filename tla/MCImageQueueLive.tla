-------------------------- MODULE MCImageQueueLive --------------------------
(***************************************************************************)
(* The image queue with a history of the jobs that a starting process      *)
(* passed over.                                                            *)
(***************************************************************************)
EXTENDS MCImageQueue

VARIABLE skipped  \* jobs nobody works on, whose lease was live at the last start

\* Processes that start in this step, and the jobs they do not look at.
Starting == {p \in Processes : process[p] = "down" /\ process'[p] = "recovering"}
PassedOver == {j \in Jobs : Starting # {} /\ Abandoned(j) /\ job[j].lease = "live"}
TakenUp == UNION {todo'[p].jobs : p \in Starting}

LiveInit == Init /\ skipped = {}

LiveNext ==
    /\ Next
    /\ skipped' = (skipped \ TakenUp) \union PassedOver

LiveSpec == LiveInit /\ [][LiveNext]_<<vars, skipped>> /\ Fairness

\* Every job that was accepted ends, through crashes, restarts at any time, cancel
\* requests and deadlines, unless the process that made it was started again before
\* the lease of the job had expired: recoverGenerationQueue looks at expired leases
\* alone, and only when a process starts, and neither the poller nor the expiry of
\* deadlines ever takes a running job.  Such a job ends when its user cancels it or
\* when a later start takes it up, from where on the same is required of it.
EveryJobEnds ==
    \A j \in Jobs : job[j].status \in Active ~> job[j].status \in Ended \/ j \in skipped
=============================================================================
