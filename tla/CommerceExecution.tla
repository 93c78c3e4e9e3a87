------------------------- MODULE CommerceExecution -------------------------
(***************************************************************************)
(* What a handler of the commerce queue does between its claim and its     *)
(* return: it binds the item to one GenerationRecord, asks an image        *)
(* provider, and persists the image as a Work.  The module composes these  *)
(* steps with CommerceQueue: a handler returns what its execution made,    *)
(* and the queue decides by the lease what becomes of it.                  *)
(*                                                                         *)
(* Source: src/internal/app/ecommerce_generation_adapter.go,               *)
(* executeGenerationRecordWithOptions and generateImageWithModelCenter-    *)
(* Failover in generation.go, discardLateCommerceResultTx in               *)
(* ecommerce_worker_adapter.go.                                            *)
(*                                                                         *)
(* The execution holds a copy of the record and writes the whole row back  *)
(* from the copy (gorm Save), except where it updates single columns.      *)
(***************************************************************************)
EXTENDS CommerceQueue

CONSTANTS
    Channels,  \* the provider channels: does one deduplicate by idempotency key?
    Stalls     \* a process may stop for longer than a lease and then go on

ASSUME ExecutionAssumption == Channels \in SUBSET BOOLEAN \ {{}} /\ Stalls \in BOOLEAN

VARIABLES
    record,  \* the GenerationRecord under the execution key of the item
    works,   \* number of visible Work rows made for the item
    exec,    \* exec[i][a]: progress of the execution of attempt a, its copy of the
             \* record, and whether it replays a request on the channel of the record
    asked,   \* what is known of the requests for the item to channels that do not
             \* deduplicate
    stalled  \* an execution of the item outlived its lease

execVars == <<record, works, exec, asked, stalled>>
allVars  == <<vars, execVars>>

RecordStatus == {"none", "queued", "running", "succeeded", "failed"}
NoRecord == [status |-> "none", started |-> FALSE, dedup |-> FALSE, work |-> FALSE]
Returned == {"ok", "failed", "failed_retryable"}
Idle == [pc |-> "none", copy |-> NoRecord, replay |-> FALSE]

\* The execution has a state of its own exactly as long as its handler lives.
ExecTypeOK ==
    /\ record \in [Items -> [status : RecordStatus, started : BOOLEAN, dedup : BOOLEAN,
                             work : BOOLEAN]]
    /\ stalled \in [Items -> BOOLEAN]
    /\ works \in [Items -> Nat]
    /\ asked \in [Items -> {"never", "open", "answered"}]
    /\ \A i \in Items, a \in Attempts :
          /\ exec[i][a].pc \in Returned \union
                {"none", "start", "bound", "saved", "marked", "asking", "image", "checked", "persisting"}
          /\ exec[i][a].copy.status \in RecordStatus
          /\ exec[i][a].pc = "none" <=> handler[i][a].pc = "none"

ExecInit ==
    /\ Init
    /\ record = [i \in Items |-> NoRecord]
    /\ works = [i \in Items |-> 0]
    /\ exec = [i \in Items |-> [a \in Attempts |-> Idle]]
    /\ asked = [i \in Items |-> "never"]
    /\ stalled = [i \in Items |-> FALSE]

-----------------------------------------------------------------------------
\* The context of a handler is canceled when its heartbeat fails or reports a
\* cancellation.
Alive(i, a) == handler[i][a].pc = "handling"

Moves(i, a, pc, copy) == exec' = [exec EXCEPT ![i][a].pc = pc, ![i][a].copy = copy]

\* An execution that has returned keeps no copy.
Returns(i, a, pc) == exec' = [exec EXCEPT ![i][a] = [Idle EXCEPT !.pc = pc]]
Fails(i, a) == \E pc \in {"failed", "failed_retryable"} : Returns(i, a, pc)

StillActive(r) == r.status \in {"queued", "running"}

FailedRow(copy) == [copy EXCEPT !.status = "failed"]

\* failGenerationRecord: an active record is overwritten, a terminal one is left.
FailRecord(i, copy) ==
    record' = [record EXCEPT ![i] = IF StillActive(@) THEN FailedRow(copy) ELSE @]

Finished(r) == r.status = "succeeded" /\ r.work

FailedIsSafe(r, offered) ==  \* mutant
    Finished(r) \/ ~r.started \/ r.status = "failed" \/ (r.dedup /\ offered)
\* commerceGenerationReplaySafe; the channel of the record may no longer be offered.
ReplaySafe(r, offered) == Finished(r) \/ ~r.started \/ (r.dedup /\ offered)

\* bindCommerceGenerationRecord, and what Execute decides from the record it read:
\* a finished one is returned as it is, one that may have reached the provider
\* is given up.  The transaction fails when the lease is not that of the job.
Bind(i, a) ==
    /\ exec[i][a].pc = "start"
    /\ \/ ~Alive(i, a) /\ Returns(i, a, "failed") /\ UNCHANGED record
       \/ /\ job[i].attempts # a \/ job[i].owner # handler[i][a].worker
          /\ Returns(i, a, "failed_retryable") /\ UNCHANGED record
       \/ /\ Alive(i, a) /\ job[i].attempts = a /\ job[i].owner = handler[i][a].worker
          /\ record' = [record EXCEPT ![i] =
                           IF @.status = "none" THEN [@ EXCEPT !.status = "queued"] ELSE @]
          /\ LET r == record'[i]
             IN  \E offered \in BOOLEAN :
                    IF Finished(r) THEN Returns(i, a, "ok")
                    ELSE IF ReplaySafe(r, offered)
                    THEN exec' = [exec EXCEPT ![i][a] =
                            [pc |-> "bound", copy |-> r, replay |-> r.started]]
                    ELSE Returns(i, a, "failed")
    /\ UNCHANGED <<works, asked, stalled>>

\* The input of the request cannot be assembled: no execution slot or no model is
\* had, or, once the record is saved, a reference image cannot be read.
PreparationFails(i, a) ==
    /\ \/ exec[i][a].pc = "bound" /\ Fails(i, a) /\ UNCHANGED record
       \/ /\ exec[i][a].pc = "saved"
          /\ FailRecord(i, exec[i][a].copy)
          /\ Returns(i, a, "failed_retryable")
    /\ UNCHANGED <<works, asked, stalled>>

\* A statement errs, and the error is returned without a trace in the record.
StatementErrs(i, a) ==
    /\ exec[i][a].pc \in {"start", "bound", "saved", "image", "checked"}
    /\ Returns(i, a, "failed_retryable")
    /\ UNCHANGED <<record, works, asked, stalled>>

\* The record is saved as running, or later as persisting, from the copy; the
\* context is not consulted.
SaveRunning(i, a, from, to) ==
    /\ exec[i][a].pc = from
    /\ LET row == [exec[i][a].copy EXCEPT !.status = "running"]
       IN  /\ record' = [record EXCEPT ![i] = row]
           /\ Moves(i, a, to, row)
    /\ UNCHANGED <<works, asked, stalled>>

\* persistGenerationProviderAttemptStarted, before every request, on the channel
\* that is asked next; a replay knows the channel of the record alone.
MarkStarted(i, a) ==
    /\ exec[i][a].pc = "saved"
    /\ IF Alive(i, a)
       THEN \E dedup \in IF exec[i][a].replay THEN {TRUE} ELSE Channels :
              /\ record' = [record EXCEPT ![i].started = TRUE, ![i].dedup = dedup]
              /\ Moves(i, a, "marked", [exec[i][a].copy EXCEPT !.started = TRUE, !.dedup = dedup])
       ELSE Returns(i, a, "failed") /\ UNCHANGED record
    /\ UNCHANGED <<works, asked, stalled>>

AskProvider(i, a) ==
    /\ exec[i][a].pc = "marked"
    /\ Moves(i, a, "asking", exec[i][a].copy)
    /\ asked' = IF exec[i][a].copy.dedup THEN asked ELSE [asked EXCEPT ![i] = "open"]
    /\ UNCHANGED <<record, works, stalled>>

Answered(i, a) ==
    asked' = IF exec[i][a].copy.dedup THEN asked ELSE [asked EXCEPT ![i] = "answered"]

ProviderDelivers(i, a) ==
    /\ exec[i][a].pc = "asking" /\ Alive(i, a)
    /\ Moves(i, a, "image", exec[i][a].copy)
    /\ Answered(i, a)
    /\ UNCHANGED <<record, works, stalled>>

\* A definite refusal: the channel or the next one is tried, or the record fails; or the
\* row of the attempt cannot be inserted, and the record is left as it is.
ProviderRefuses(i, a) ==
    /\ exec[i][a].pc = "asking"
    /\ Answered(i, a)
    /\ \/ Alive(i, a) /\ Moves(i, a, "saved", exec[i][a].copy) /\ UNCHANGED record
       \/ FailRecord(i, exec[i][a].copy) /\ Fails(i, a)
       \/ Returns(i, a, "failed_retryable") /\ UNCHANGED record
    /\ UNCHANGED <<works, stalled>>

\* No answer, or none that tells what the provider did: asked again only under
\* an idempotency key (commerceProviderFailureAllowsRetry).
ProviderSilent(i, a) ==
    /\ exec[i][a].pc = "asking"
    /\ \/ /\ exec[i][a].copy.dedup /\ Alive(i, a)
          /\ Moves(i, a, "saved", exec[i][a].copy) /\ UNCHANGED record
       \/ FailRecord(i, exec[i][a].copy) /\ Returns(i, a, "failed")
       \/ exec[i][a].copy.dedup /\ FailRecord(i, exec[i][a].copy) /\ Returns(i, a, "failed_retryable")
       \/ Returns(i, a, "failed_retryable") /\ UNCHANGED record  \* the row of the attempt
    /\ UNCHANGED <<works, asked, stalled>>

\* ensureGenerationRecordStillActive reads the row; the save is a later statement.
CheckActive(i, a) ==
    /\ exec[i][a].pc = "image"
    /\ IF StillActive(record[i]) THEN Moves(i, a, "checked", exec[i][a].copy)
       ELSE Returns(i, a, "failed_retryable")
    /\ UNCHANGED <<record, works, asked, stalled>>

SucceededWithoutWork(copy) == [copy EXCEPT !.status = "succeeded"]  \* mutant
SucceededRow(copy) == [copy EXCEPT !.status = "succeeded", !.work = TRUE]

\* The Work and the record in one transaction, under the context of the handler.
Persist(i, a) ==
    /\ exec[i][a].pc = "persisting" /\ Alive(i, a)
    /\ LET row == SucceededRow(exec[i][a].copy)
       IN  record' = [record EXCEPT ![i] = row] /\ Returns(i, a, "ok")
    /\ works' = [works EXCEPT ![i] = @ + 1]
    /\ UNCHANGED <<asked, stalled>>

\* Post-processing, the asset store or the transaction errs, or the context ended:
\* the record fails, or is left as it is after a late cancellation.
PersistFails(i, a) ==
    /\ exec[i][a].pc = "persisting"
    /\ FailRecord(i, exec[i][a].copy) \/ UNCHANGED record
    /\ Fails(i, a)
    /\ UNCHANGED <<works, asked, stalled>>

Execute(i, a) ==
    \/ Bind(i, a)
    \/ PreparationFails(i, a)
    \/ StatementErrs(i, a)
    \/ SaveRunning(i, a, "bound", "saved")
    \/ MarkStarted(i, a)
    \/ AskProvider(i, a)
    \/ ProviderDelivers(i, a)
    \/ ProviderRefuses(i, a)
    \/ ProviderSilent(i, a)
    \/ CheckActive(i, a)
    \/ SaveRunning(i, a, "checked", "persisting")
    \/ Persist(i, a)
    \/ PersistFails(i, a)

-----------------------------------------------------------------------------
(***************************************************************************)
(* The steps of the queue that touch an execution.                         *)
(***************************************************************************)

ClaimAndStart(w, i) ==
    /\ Claim(w, i)
    /\ exec' = [exec EXCEPT ![i][job'[i].attempts] = [Idle EXCEPT !.pc = "start"]]
    /\ UNCHANGED <<record, works, asked, stalled>>

Leaves(i, a) == exec' = [exec EXCEPT ![i][a] = Idle]

CompleteExecuted(i, a) ==
    /\ exec[i][a].pc = "ok"
    /\ \E actual \in 0..MaxActual : CompleteItem(i, a, actual)
    /\ Leaves(i, a)
    /\ UNCHANGED <<record, works, asked, stalled>>

\* discardLateCommerceResultTx takes the Work away, if it is there; an ownership
\* mismatch makes the transaction fail.
DiscardWork(i) ==
    \/ works[i] = 0 /\ UNCHANGED <<record, works>>
    \/ /\ works[i] > 0 /\ record[i].work
       /\ record' = [record EXCEPT ![i].status = "failed", ![i].work = FALSE]
       /\ works' = [works EXCEPT ![i] = @ - 1]

\* Complete, when a cancellation was requested.
DiscardExecuted(i, a) ==
    /\ exec[i][a].pc = "ok"
    /\ DiscardLateResult(i, a)
    /\ DiscardWork(i)
    /\ Leaves(i, a)
    /\ UNCHANGED <<asked, stalled>>

FailExecuted(i, a) ==
    /\ exec[i][a].pc \in {"failed", "failed_retryable"}
    /\ FailItem(i, a, exec[i][a].pc = "failed_retryable")
    /\ Leaves(i, a)
    /\ UNCHANGED <<record, works, asked, stalled>>

\* Cancel and the ways of ending without effect do not look at the result.
CancelExecuted(i, a) ==
    /\ exec[i][a].pc \in Returned
    /\ CancelHandled(i, a)
    /\ Leaves(i, a)
    /\ UNCHANGED <<record, works, asked, stalled>>

GiveUpExecuted(i, a) ==
    /\ exec[i][a].pc \in Returned
    /\ GiveUp(i, a)
    /\ Leaves(i, a)
    /\ UNCHANGED <<record, works, asked, stalled>>

StopExecutions(w) ==
    /\ WorkerStops(w)
    /\ exec' = [i \in Items |-> [a \in Attempts |->
                   IF <<i, a>> \in Active(w) THEN Idle ELSE exec[i][a]]]
    /\ UNCHANGED <<record, works, asked, stalled>>

\* A heartbeat every third of the lease keeps it alive as long as the process
\* runs; a handler whose heartbeat failed is gone before its lease runs out.
LeaseRunsOut(i) ==
    /\ Stalls \/ \A a \in Attempts : handler[i][a].pc = "none"
    /\ LeaseExpires(i)
    /\ stalled' = [stalled EXCEPT ![i] = @ \/ \E a \in Attempts : handler[i][a].pc # "none"]
    /\ UNCHANGED <<record, works, exec, asked>>

QueueOnly ==
    /\ \/ UserStep
       \/ FinalizeProjectDeletion
       \/ \E i \in Items : CancelItemWrite(i) \/ BackoffElapses(i) \/ RecoverExpired(i)
       \/ \E i \in Items, a \in Attempts : Heartbeat(i, a) \/ HeartbeatFails(i, a)
    /\ UNCHANGED execVars

ExecNext ==
    \/ QueueOnly
    \/ \E i \in Items : LeaseRunsOut(i)
    \/ \E w \in Workers, i \in Items : ClaimAndStart(w, i)
    \/ \E w \in Workers : StopExecutions(w)
    \/ \E i \in Items, a \in Attempts :
          \/ Execute(i, a) /\ UNCHANGED vars
          \/ CompleteExecuted(i, a)
          \/ DiscardExecuted(i, a)
          \/ FailExecuted(i, a)
          \/ CancelExecuted(i, a)
          \/ GiveUpExecuted(i, a)

ExecSpec == ExecInit /\ [][ExecNext]_allVars

-----------------------------------------------------------------------------
\* An item never has two Work rows, over all its attempts; a process that stalls
\* beyond its lease may make a second one.
OneWorkPerItem == \A i \in Items : ~stalled[i] => works[i] <= 1

\* An item that succeeded, and was charged, has a Work, and its record says so.
SucceededItemHasItsWork ==
    \A i \in Items : item[i].status = "succeeded" /\ ~stalled[i] =>
        works[i] > 0 /\ Finished(record[i])

\* The part of it that survives a process that stalls: no charge without a Work.
ChargedItemHasWork == \A i \in Items : settlement[i].settled > 0 => works[i] > 0

\* One Work for what succeeded and was charged, none twice, over all attempts.
WorksMatchItems == ExecTypeOK /\ OneWorkPerItem /\ SucceededItemHasItsWork /\ ChargedItemHasWork

\* While it is unknown what a request to a channel that does not deduplicate did
\* (provider_result_unknown), no channel is asked for the item.
NoBlindReplay ==
    [][\A i \in Items, a \in Attempts :
          AskProvider(i, a) /\ ~stalled[i] => asked[i] # "open"]_allVars

\* Once the Work of an item is visible no provider is asked for it again.
FinishedWorkIsReplayed ==
    [][\A i \in Items, a \in Attempts :
          AskProvider(i, a) /\ ~stalled[i] => works[i] = 0]_allVars

\* No provider is asked in vain: neither blindly nor for what is there already.
AskedWithCause == NoBlindReplay /\ FinishedWorkIsReplayed

\* The tests say that late work is discarded before the queue ends the item as
\* canceled: such an item leaves no visible Work behind.
LateWorkIsDiscarded ==
    \A i \in Items : item[i].status = "canceled" => works[i] = 0
=============================================================================
