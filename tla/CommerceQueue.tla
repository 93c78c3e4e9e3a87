--------------------------- MODULE CommerceQueue ---------------------------
(***************************************************************************)
(* The commerce generation queue: batches of generation items, one durable *)
(* job per item, workers that lease jobs, and the credits held for items.  *)
(*                                                                         *)
(* Source: src/internal/app/ecommerce/{batches,queue,worker,service}.go    *)
(* and src/internal/app/ecommerce_credit_adapter.go.  Every database       *)
(* transaction is one action, because it takes the row locks it needs      *)
(* before it decides; CancelItem reads its item without a lock, and is two *)
(* actions.  One project of one user is modelled: every row that a         *)
(* transaction touches belongs to one project.  The status and the         *)
(* counters of a batch, by which nothing is decided and whose recount      *)
(* locks too late for one action, are in BatchCounters.                    *)
(*                                                                         *)
(* Time is abstract.  A lease is "live" or "expired" and a retry is due or *)
(* not; the moment at which either changes is left open.  The random lease *)
(* token of a claim is named by the attempt number the claim assigns,      *)
(* which is as unique: attempt_count grows with every claim and never      *)
(* shrinks.                                                                *)
(***************************************************************************)
EXTENDS CommerceStates, Integers, FiniteSets

CONSTANTS
    Items,           \* generation items; item i and its job share the name i
    Batches,         \* batches, named by their idempotency key
    Workers,         \* worker processes
    MaxAttempts,     \* claims a job may use (RecipeDefinition.MaxAttempts)
    Concurrency,     \* jobs one worker handles at a time
    Price,           \* credits held for an item; a compiled batch has one price
    MaxActual,       \* bound on the cost the generation record reports
    InitialCredits,  \* available credits of the user at the start
    NoBatch, Nobody

ASSUME ItemsAssumption == IsFiniteSet(Items)
ASSUME CountsAssumption ==
    /\ MaxAttempts \in Nat \ {0}
    /\ Concurrency \in Nat \ {0}
    /\ Price \in Nat \ {0}
    /\ MaxActual \in Nat
    /\ InitialCredits \in Nat
ASSUME NullsAssumption == NoBatch \notin Batches /\ Nobody \notin Workers

VARIABLES
    project,      \* status of the CommerceProject row
    batch,        \* CommerceGenerationBatch rows
    item,         \* CommerceGenerationItem rows
    job,          \* CommerceJob rows
    handler,      \* handler[i][a]: the goroutine that works on attempt a of job i
    cancelling,   \* the status an unfinished CancelItem(i) has read
    credits,      \* CreditBalance, and the sum of the CreditTransaction rows
    reservation,  \* CommerceCreditReservation rows, one for each batch
    settlement    \* CommerceCreditSettlement rows, at most one for each item

vars == <<project, batch, item, job, handler, cancelling, credits,
          reservation, settlement>>

Attempts == 1..MaxAttempts
HandlerStates == {"none", "handling", "cancel_seen", "lease_lost"}
NoHandler == [pc |-> "none", worker |-> Nobody]

AbsentItem  == [status |-> "absent", batch |-> NoBatch, cancel |-> FALSE]
AbsentJob   == [status |-> "absent", cancel |-> FALSE, attempts |-> 0,
                owner |-> Nobody, lease |-> "none", due |-> TRUE]
AbsentBatch == [exists |-> FALSE, cancel |-> FALSE]
NoReservation == [status |-> "none", reserved |-> 0, settled |-> 0, released |-> 0]

BatchRow == [exists : BOOLEAN, cancel : BOOLEAN]
ItemRow == [status : ItemStatus \union {"absent"}, batch : Batches \union {NoBatch},
            cancel : BOOLEAN]
JobRow == [status : ItemStatus \union {"absent"}, cancel : BOOLEAN, attempts : 0..MaxAttempts,
           owner : Workers \union {Nobody}, lease : {"none", "live", "expired"}, due : BOOLEAN]
Handler == [pc : HandlerStates, worker : Workers \union {Nobody}]
Balance == [available : Nat, reserved : Nat, journal : Int]
ReservationRow == [status : {"none", "reserved", "settled", "released"},
                   reserved : Nat, settled : Nat, released : Nat]
SettlementRow == [claimed : BOOLEAN, settled : 0..Price]

\* The rows keep their types; in particular no column of credits becomes negative,
\* no job is claimed more than MaxAttempts times, and no item costs more than its hold.
TypeOK ==
    /\ project \in {"active", "deletion_requested", "deleted"}
    /\ batch \in [Batches -> BatchRow]
    /\ item \in [Items -> ItemRow]
    /\ job \in [Items -> JobRow]
    /\ handler \in [Items -> [Attempts -> Handler]]
    /\ cancelling \in [Items -> Waiting \union {"idle", "running"}]
    /\ credits \in Balance
    /\ reservation \in [Batches -> ReservationRow]
    /\ settlement \in [Items -> SettlementRow]

Init ==
    /\ project = "active"
    /\ batch = [b \in Batches |-> AbsentBatch]
    /\ item = [i \in Items |-> AbsentItem]
    /\ job = [i \in Items |-> AbsentJob]
    /\ handler = [i \in Items |-> [a \in Attempts |-> NoHandler]]
    /\ cancelling = [i \in Items |-> "idle"]
    /\ credits = [available |-> InitialCredits, reserved |-> 0, journal |-> 0]
    /\ reservation = [b \in Batches |-> NoReservation]
    /\ settlement = [i \in Items |-> [claimed |-> FALSE, settled |-> 0]]

-----------------------------------------------------------------------------
(***************************************************************************)
(* The credit ledger.                                                      *)
(***************************************************************************)

\* ReserveTx: the conditional update fails, and the transaction with it, when
\* the user cannot pay.
Reserve(b, amount) ==
    /\ credits.available >= amount
    /\ credits' = [available |-> credits.available - amount,
                   reserved  |-> credits.reserved + amount,
                   journal   |-> credits.journal - amount]
    /\ reservation' = [reservation EXCEPT ![b] =
           [status |-> "reserved", reserved |-> amount, settled |-> 0, released |-> 0]]

ReturnAll(held, back) ==  \* mutant
    credits' = [available |-> credits.available + held,
                reserved  |-> credits.reserved - held,
                journal   |-> credits.journal + held]

\* moveReservedCredits: a hold leaves the reserved column and what was not spent
\* of it becomes available; the journal records the latter.
Return(held, back) ==
    /\ credits.reserved >= held
    /\ credits' = [available |-> credits.available + back,
                   reserved  |-> credits.reserved - held,
                   journal   |-> credits.journal + back]

\* updateCommerceReservationSettlement: held credits leave the reservation row,
\* which is complete when nothing is left in it.
DrawDown(r, held, settled) ==
    [status   |-> IF r.reserved # held THEN r.status
                  ELSE IF r.settled + settled = 0 THEN "released" ELSE "settled",
     reserved |-> r.reserved - held,
     settled  |-> r.settled + settled,
     released |-> r.released + (held - settled)]

\* claimCommerceSettlement: the items of S whose hold nobody has resolved yet.
Unclaimed(S) == {i \in S : ~settlement[i].claimed}

\* The credits held for the unclaimed items of S in batch b.
HeldIn(b, S) == Price * Cardinality({i \in Unclaimed(S) : item[i].batch = b})

\* An item costs what its record reports, at most its hold.
Charge(actual) == IF actual < Price THEN actual ELSE Price

\* SettleItemTx.
SettleHold(i, actual) ==
    IF settlement[i].claimed
    THEN UNCHANGED <<credits, reservation, settlement>>
    ELSE LET b    == item[i].batch
             paid == Charge(actual)
         IN  /\ Return(Price, Price - paid)
             /\ reservation[b].reserved >= Price
             /\ reservation' = [reservation EXCEPT ![b] = DrawDown(@, Price, paid)]
             /\ settlement' = [settlement EXCEPT ![i] = [claimed |-> TRUE, settled |-> paid]]

\* ReleaseItemTx for every item of S, in one transaction.
ReleaseHolds(S) ==
    LET held == Price * Cardinality(Unclaimed(S))
    IN  /\ Return(held, held)
        /\ \A b \in Batches : reservation[b].reserved >= HeldIn(b, S)
        /\ reservation' = [b \in Batches |->
               IF HeldIn(b, S) = 0 THEN reservation[b]
               ELSE DrawDown(reservation[b], HeldIn(b, S), 0)]
        /\ settlement' = [i \in Items |->
               IF i \in Unclaimed(S) THEN [claimed |-> TRUE, settled |-> 0]
               ELSE settlement[i]]

-----------------------------------------------------------------------------
(***************************************************************************)
(* Requests of the user.                                                   *)
(***************************************************************************)

Member(b, it) == {i \in Items : it[i].batch = b}

\* Rows that SubmitBatch and RetryItem create for the items S of batch b.
CreateRows(b, S) ==
    /\ item' = [i \in Items |-> IF i \in S
                                THEN [status |-> "queued", batch |-> b, cancel |-> FALSE]
                                ELSE item[i]]
    /\ job' = [i \in Items |-> IF i \in S THEN [AbsentJob EXCEPT !.status = "queued"]
                               ELSE job[i]]
    /\ batch' = [batch EXCEPT ![b].exists = TRUE]

\* lockWritableProjectTx.
Writable == project = "active"

\* SubmitBatch under a fresh idempotency key; a known key replays the stored
\* batch and changes nothing.
SubmitBatch(b, S) ==
    /\ Writable
    /\ ~batch[b].exists
    /\ S # {} /\ \A i \in S : item[i].status = "absent"
    /\ Reserve(b, Price * Cardinality(S))
    /\ CreateRows(b, S)
    /\ UNCHANGED <<project, handler, cancelling, settlement>>

\* RetryItem: a failed or canceled item is ordered again, as item i of the new
\* batch b, under a hold of its own.
RetryItem(parent, b, i) ==
    /\ item[parent].status \in {"failed", "canceled"}
    /\ Writable
    /\ ~batch[b].exists
    /\ item[i].status = "absent"
    /\ Reserve(b, Price)
    /\ CreateRows(b, {i})
    /\ UNCHANGED <<project, handler, cancelling, settlement>>

\* CancelItem reads the status of its item without a lock ...
CancelItemRead(i) ==
    /\ cancelling[i] = "idle"
    /\ item[i].status \in Live
    /\ cancelling' = [cancelling EXCEPT ![i] = item[i].status]
    /\ UNCHANGED <<project, batch, item, job, handler, credits, reservation, settlement>>

JobUnmarked(i) == UNCHANGED job  \* mutant
MarkRunningJob(i) ==
    job' = IF job[i].status = "running" THEN [job EXCEPT ![i].cancel = TRUE] ELSE job

\* ... and then marks an item that still runs ...
CancelRunningItem(i) ==
    /\ cancelling[i] = "running"
    /\ item[i].status = "running" /\ ~item[i].cancel
    /\ item' = [item EXCEPT ![i].cancel = TRUE]
    /\ MarkRunningJob(i)
    /\ cancelling' = [cancelling EXCEPT ![i] = "idle"]
    /\ UNCHANGED <<project, batch, handler, credits, reservation, settlement>>

ReadIsTrusted(i) == TRUE  \* mutant
StillWaits(i) == item[i].status \in Waiting

\* ... or ends an item that still waits ...
CancelWaitingItem(i) ==
    /\ cancelling[i] \in Waiting
    /\ StillWaits(i)
    /\ item' = [item EXCEPT ![i].status = "canceled"]
    /\ ReleaseHolds({i})
    /\ job' = IF job[i].status \in Waiting THEN [job EXCEPT ![i].status = "canceled"] ELSE job
    /\ cancelling' = [cancelling EXCEPT ![i] = "idle"]
    /\ UNCHANGED <<project, batch, handler>>

\* ... or finds that the row no longer is what it read, and reports it as it is.
CancelItemMisses(i) ==
    /\ \/ cancelling[i] = "running" /\ (item[i].status # "running" \/ item[i].cancel)
       \/ cancelling[i] \in Waiting /\ ~StillWaits(i)
    /\ cancelling' = [cancelling EXCEPT ![i] = "idle"]
    /\ UNCHANGED <<project, batch, item, job, handler, credits, reservation, settlement>>

LiveOf(S, row) == {i \in S : row[i].status \in Live}

\* Waiting work of S ends as canceled and running work is marked; the rows that
\* end are marked as well.
CancelRows(S) ==
    /\ item' = [i \in Items |->
           IF i \notin LiveOf(S, item) THEN item[i]
           ELSE [item[i] EXCEPT !.cancel = TRUE,
                                !.status = IF @ \in Waiting THEN "canceled" ELSE @]]
    /\ job' = [i \in Items |->
           IF i \notin LiveOf(S, job) THEN job[i]
           ELSE [job[i] EXCEPT !.cancel = TRUE,
                               !.status = IF @ \in Waiting THEN "canceled" ELSE @]]
    /\ ReleaseHolds({i \in S : item[i].status \in Waiting})

\* CancelBatch locks the batch, its jobs and its items before it decides.
CancelBatch(b) ==
    /\ batch[b].exists
    /\ CancelRows(Member(b, item))
    /\ batch' = [batch EXCEPT ![b].cancel = TRUE]
    /\ UNCHANGED <<project, handler, cancelling>>

\* RequestProjectDeletion cancels all live work.
RequestProjectDeletion ==
    /\ project # "deleted"
    /\ project' = "deletion_requested"
    /\ CancelRows(Items)
    /\ UNCHANGED <<batch, handler, cancelling>>

AllCanceled == \A i \in Items : job[i].status \in {"absent", "canceled"}  \* mutant
Quiescent == \A i \in Items : job[i].status \notin Live

\* finalizeProjectDeletionTx, called after a terminal job and by every poll.
FinalizeProjectDeletion ==
    /\ project = "deletion_requested"
    /\ Quiescent
    /\ project' = "deleted"
    /\ UNCHANGED <<batch, item, job, handler, cancelling, credits, reservation, settlement>>

-----------------------------------------------------------------------------
(***************************************************************************)
(* The queue.  Unleased clears the lease columns and sets the job status.  *)
(***************************************************************************)

Unleased(i, status, due) ==
    job' = [job EXCEPT ![i] = [@ EXCEPT !.status = status, !.owner = Nobody,
                                        !.lease = "none", !.due = due]]

ItemBecomes(i, status) == item' = [item EXCEPT ![i].status = status]

\* The item row of a cancelled job, when the item still runs, ends with its hold
\* released (cancelLeasedJobTx).
CancelLeasedJob(i) ==
    /\ IF item[i].status = "running"
       THEN ItemBecomes(i, "canceled") /\ ReleaseHolds({i})
       ELSE UNCHANGED <<item, credits, reservation, settlement>>
    /\ Unleased(i, "canceled", TRUE)
    /\ UNCHANGED batch

\* deadLetterLeasedJobTx.
DeadLetterLeasedJob(i) ==
    /\ item[i].status = "running"
    /\ ItemBecomes(i, "failed")
    /\ ReleaseHolds({i})
    /\ Unleased(i, "failed", TRUE)
    /\ UNCHANGED batch

RequeueExpired(i) ==  \* mutant
    /\ ItemBecomes(i, "queued")
    /\ Unleased(i, "queued", TRUE)
    /\ UNCHANGED <<batch, credits, reservation, settlement>>

\* The job waits for its next attempt, which is not due before the backoff ends.
ScheduleRetry(i) ==
    /\ IF item[i].status = "running" THEN ItemBecomes(i, "retrying") ELSE UNCHANGED item
    /\ Unleased(i, "retrying", FALSE)
    /\ UNCHANGED <<batch, credits, reservation, settlement>>

BackoffElapses(i) ==
    /\ job[i].status = "retrying" /\ ~job[i].due
    /\ job' = [job EXCEPT ![i].due = TRUE]
    /\ UNCHANGED <<project, batch, item, handler, cancelling, credits, reservation, settlement>>

LeaseExpires(i) ==
    /\ job[i].lease = "live"
    /\ job' = [job EXCEPT ![i].lease = "expired"]
    /\ UNCHANGED <<project, batch, item, handler, cancelling, credits, reservation, settlement>>

\* The handlers of worker w; its active counter.
HandlerAt(x) == handler[x[1]][x[2]]
Active(w) == {x \in Items \X Attempts : HandlerAt(x).pc # "none" /\ HandlerAt(x).worker = w}

HasSlotOffByOne(w) == Cardinality(Active(w)) <= Concurrency  \* mutant
HasSlot(w) == Cardinality(Active(w)) < Concurrency

\* Claim.  A job whose item cannot start rolls the whole claim back, so that is
\* a guard and not a branch; QueueNeverPoisoned says that it never happens.
Claim(w, i) ==
    /\ HasSlot(w)
    /\ job[i].status \in Waiting /\ job[i].due /\ job[i].lease # "live"
    /\ item[i].status \in Waiting /\ ~item[i].cancel
    /\ job' = [job EXCEPT ![i].status = "running", ![i].owner = w, ![i].lease = "live",
                          ![i].attempts = @ + 1]
    /\ ItemBecomes(i, "running")
    /\ handler' = [handler EXCEPT ![i][job[i].attempts + 1] =
                      [pc |-> "handling", worker |-> w]]
    /\ UNCHANGED <<project, batch, cancelling, credits, reservation, settlement>>

CancelRequestedOfBatch(i) == batch[item[i].batch].cancel  \* mutant
\* A cancellation may have been recorded on any of three rows.
CancelRequested(i) == job[i].cancel \/ batch[item[i].batch].cancel \/ item[i].cancel

AttemptsLeftOffByOne(i) == job[i].attempts <= MaxAttempts  \* mutant
AttemptsLeft(i) == job[i].attempts < MaxAttempts

ExpiredWithAttemptsLeft(i) ==  \* mutant
    job[i].status = "running" /\ job[i].lease = "expired" /\ AttemptsLeft(i)
Expired(i) == job[i].status = "running" /\ job[i].lease = "expired"

\* RecoverExpired, for one of the jobs whose lease has run out.
RecoverExpired(i) ==
    /\ Expired(i)
    /\ IF CancelRequested(i)
       THEN CancelLeasedJob(i)
       ELSE IF AttemptsLeft(i)
       THEN ScheduleRetry(i)
       ELSE DeadLetterLeasedJob(i)
    /\ UNCHANGED <<project, handler, cancelling>>

-----------------------------------------------------------------------------
(***************************************************************************)
(* Workers.  handler[i][a] leaves "handling" when a heartbeat tells it to  *)
(* or when the handler returns; what it then does to the job is decided by *)
(* the lease it holds.                                                     *)
(***************************************************************************)

HoldsByOwner(i, a) ==  \* mutant
    job[i].status = "running" /\ job[i].owner = handler[i][a].worker

\* loadRunningLeasedJob: id, owner, token and status, but not the expiry.
Holds(i, a) ==
    /\ job[i].status = "running"
    /\ job[i].attempts = a
    /\ job[i].owner = handler[i][a].worker

Goes(i, a, pc) == handler' = [handler EXCEPT ![i][a].pc = pc]
Ends(i, a) == handler' = [handler EXCEPT ![i][a] = NoHandler]

\* Heartbeat extends the lease and reports a requested cancellation.
Heartbeat(i, a) ==
    /\ handler[i][a].pc = "handling"
    /\ Holds(i, a)
    /\ job' = [job EXCEPT ![i].lease = "live"]
    /\ IF CancelRequested(i)
       THEN Goes(i, a, "cancel_seen")
       ELSE UNCHANGED handler
    /\ UNCHANGED <<project, batch, item, cancelling, credits, reservation, settlement>>

\* A heartbeat that errs, because the lease is gone or the database is away.
HeartbeatFails(i, a) ==
    /\ handler[i][a].pc = "handling"
    /\ Goes(i, a, "lease_lost")
    /\ UNCHANGED <<project, batch, item, job, cancelling, credits, reservation, settlement>>

\* Complete, when nobody asked for a cancellation.
CompleteItem(i, a, actual) ==
    /\ handler[i][a].pc = "handling"
    /\ Holds(i, a)
    /\ ~job[i].cancel /\ ~item[i].cancel
    /\ item[i].status = "running"
    /\ ItemBecomes(i, "succeeded")
    /\ SettleHold(i, actual)
    /\ Unleased(i, "succeeded", TRUE)
    /\ Ends(i, a)
    /\ UNCHANGED <<project, batch, cancelling>>

\* Complete after a cancellation was requested: the late result is discarded.
DiscardLateResult(i, a) ==
    /\ handler[i][a].pc = "handling"
    /\ Holds(i, a)
    /\ job[i].cancel \/ item[i].cancel
    /\ CancelLeasedJob(i)
    /\ Ends(i, a)
    /\ UNCHANGED <<project, cancelling>>

\* Fail looks at the cancellation of the job and not at that of the item.
FailItem(i, a, retryable) ==
    /\ handler[i][a].pc = "handling"
    /\ Holds(i, a)
    /\ IF job[i].cancel THEN CancelLeasedJob(i)
       ELSE IF retryable /\ AttemptsLeft(i)
       THEN item[i].status = "running" /\ ScheduleRetry(i)
       ELSE DeadLetterLeasedJob(i)
    /\ Ends(i, a)
    /\ UNCHANGED <<project, cancelling>>

\* Cancel, after a heartbeat that reported the cancellation.
CancelHandled(i, a) ==
    /\ handler[i][a].pc = "cancel_seen"
    /\ Holds(i, a)
    /\ CancelLeasedJob(i)
    /\ Ends(i, a)
    /\ UNCHANGED <<project, cancelling>>

\* A handler that ends without effect: its heartbeat failed, its transition is
\* refused with ErrLeaseMismatch, or the transition errs, which is ignored.
GiveUp(i, a) ==
    /\ handler[i][a].pc # "none"
    /\ Ends(i, a)
    /\ UNCHANGED <<project, batch, item, job, cancelling, credits, reservation, settlement>>

HandlerReturns(i, a) ==
    \/ GiveUp(i, a)
    \/ \E actual \in 0..MaxActual : CompleteItem(i, a, actual)
    \/ DiscardLateResult(i, a)
    \/ \E retryable \in BOOLEAN : FailItem(i, a, retryable)
    \/ CancelHandled(i, a)

\* Stop, or a crash: no handler of w takes another step.  The worker that
\* replaces it goes by the same name.
WorkerStops(w) ==
    /\ Active(w) # {}
    /\ handler' = [i \in Items |-> [a \in Attempts |->
                      IF <<i, a>> \in Active(w) THEN NoHandler ELSE handler[i][a]]]
    /\ UNCHANGED <<project, batch, item, job, cancelling, credits, reservation, settlement>>

-----------------------------------------------------------------------------
UserStep ==
    \/ \E b \in Batches, S \in SUBSET Items : SubmitBatch(b, S)
    \/ \E parent, i \in Items, b \in Batches : RetryItem(parent, b, i)
    \/ \E b \in Batches : CancelBatch(b)
    \/ RequestProjectDeletion
    \/ \E i \in Items : CancelItemRead(i)

CancelItemWrite(i) == CancelRunningItem(i) \/ CancelWaitingItem(i) \/ CancelItemMisses(i)

QueueStep(i) ==
    \/ BackoffElapses(i)
    \/ LeaseExpires(i)
    \/ RecoverExpired(i)
    \/ \E w \in Workers : Claim(w, i)

WorkerStep(i, a) == Heartbeat(i, a) \/ HeartbeatFails(i, a) \/ HandlerReturns(i, a)

Next ==
    \/ UserStep
    \/ FinalizeProjectDeletion
    \/ \E i \in Items : CancelItemWrite(i) \/ QueueStep(i)
    \/ \E i \in Items, a \in Attempts : WorkerStep(i, a)
    \/ \E w \in Workers : WorkerStops(w)

Spec == Init /\ [][Next]_vars

-----------------------------------------------------------------------------
(***************************************************************************)
(* Safety.                                                                 *)
(***************************************************************************)

LiveItems == {i \in Items : item[i].status \in Live}

\* A job and its item are two rows in two tables and every transaction writes
\* both by hand: at rest they carry the same status and the same cancellation
\* mark, and a batch that was cancelled has only work that is ending.
JobItemAgree ==
    /\ \A i \in Items : job[i].status = item[i].status /\ job[i].cancel = item[i].cancel
    /\ \A i \in Items, b \in Batches :
           item[i].batch = b /\ batch[b].cancel
             => \/ item[i].status \in Terminal
                \/ item[i].status = "running" /\ item[i].cancel

\* A waiting job can be started: its item waits too, no cancellation is pending
\* on it, and an attempt is left.  Claim starts all the jobs it picks in one
\* transaction, so one job of which this fails keeps all others from starting.
QueueNeverPoisoned ==
    \A i \in Items :
        job[i].status \in Waiting =>
            /\ item[i].status \in Waiting /\ ~item[i].cancel
            /\ job[i].attempts < MaxAttempts
            /\ job[i].lease = "none" /\ job[i].owner = Nobody

\* The hold of an item is resolved in the same transaction that ends the item:
\* never before, never twice, and an item that did not succeed costs nothing.
HoldResolvedWithItem ==
    \A i \in Items :
        /\ settlement[i].claimed <=> item[i].status \in Terminal
        /\ settlement[i].settled > 0 => item[i].status = "succeeded"

\* The reserved column of the balance and that of each reservation are exactly
\* the holds of the items that have not ended, so that a release or a
\* settlement never meets ErrCreditInvariant; a reservation is complete when all
\* its items have ended.
ReservedBacksLiveItems ==
    /\ credits.reserved = Price * Cardinality(LiveItems)
    /\ \A b \in Batches :
           /\ reservation[b].reserved = Price * Cardinality(Member(b, item) \cap LiveItems)
           /\ reservation[b].status = "reserved" <=> Member(b, item) \cap LiveItems # {}

\* The credit journal explains the balance: what is available is what there was,
\* and the signed amounts of the journal.
JournalExplainsBalance == credits.available = InitialCredits + credits.journal

\* A cancellation that was recorded on an item is kept: the item runs on until
\* its worker notices, and then ends as canceled, never as succeeded or failed.
AcceptedCancelEndsCanceled ==
    \A i \in Items : item[i].cancel => item[i].status \in {"running", "canceled"}

\* A worker never has more handlers than Concurrency, also when leases are lost
\* and their handlers live on.
ConcurrencyRespected == \A w \in Workers : Cardinality(Active(w)) <= Concurrency

\* After the deletion of a project was accepted nothing of it waits to be
\* started, and what still runs is cancelled; a deleted project is quiescent.
DeletionStopsWork ==
    /\ project # "active" =>
          \A i \in Items : item[i].status \in Live => item[i].status = "running" /\ item[i].cancel
    /\ project = "deleted" => LiveItems = {}

\* The rows that several transactions write by hand never contradict one another:
\* jobs and items, what a claim relies on, and what a deleted project left.
RowsAgree == JobItemAgree /\ QueueNeverPoisoned /\ DeletionStopsWork

\* Holds, reserved credits and the journal tell one story about every item and
\* about the balance (ReserveTx, SettleTx and ReleaseTx and all that call them).
LedgerAgrees == HoldResolvedWithItem /\ ReservedBacksLiveItems /\ JournalExplainsBalance

-----------------------------------------------------------------------------
(***************************************************************************)
(* Action properties.                                                      *)
(***************************************************************************)

\* No transaction moves an item or a job along an edge the table forbids.
LegalTransitions ==
    [][\A i \in Items :
          /\ item[i].status \notin {"absent", item'[i].status}
               => CanTransition(item[i].status, item'[i].status)
          /\ job[i].status \notin {"absent", job'[i].status}
               => CanTransition(job[i].status, job'[i].status)]_vars

\* What has ended stays as it is: no late worker, cancellation or recovery
\* changes the status, the cost or the cancellation mark of an ended item.
EndedStaysEnded ==
    [][\A i \in Items :
          item[i].status \in Terminal =>
              item'[i] = item[i] /\ settlement'[i] = settlement[i]]_vars

\* The legal steps: along the table, and none after the end.
StepsAreLegal == LegalTransitions /\ EndedStaysEnded

\* Only the newest attempt completes an item: when an item succeeds, it is the handler
\* of the newest attempt, at work under the owner of the job, that returns in this step,
\* and no other handler of any item moves (loadRunningLeasedJob, for a stale handler of
\* the same worker as for one of another).
SuccessOnlyByLeaseHolder ==
    [][\A i \in Items :
          item[i].status # "succeeded" /\ item'[i].status = "succeeded" =>
              LET newest == job[i].attempts
              IN  /\ handler[i][newest] = [pc |-> "handling", worker |-> job[i].owner]
                  /\ handler' = [handler EXCEPT ![i][newest] = NoHandler]]_vars

-----------------------------------------------------------------------------
(***************************************************************************)
(* Refinement.  The hold of an item is read from the status of the item,   *)
(* its cost from the settlement rows and the balance from CreditBalance:   *)
(* that the three tables always tell one story is what is to be shown.     *)
(***************************************************************************)

HoldOf(i) ==
    CASE item[i].status = "absent"                  -> "none"
      [] item[i].status \in Live                    -> "held"
      [] item[i].status = "succeeded"               -> "settled"
      [] item[i].status \in {"failed", "canceled"}  -> "released"

Ledger == INSTANCE CreditHold WITH
    available <- credits.available,
    hold      <- [i \in Items |-> HoldOf(i)],
    paid      <- [i \in Items |-> settlement[i].settled]

\* The queue and its ledger implement the promise of CreditHold.
ImplementsCreditHold == Ledger!Spec

-----------------------------------------------------------------------------
(***************************************************************************)
(* Liveness.  A poller claims, recovers and finalises in a loop; timers    *)
(* fire; a handler returns, because the calls it makes have timeouts; a    *)
(* request that has begun ends.  A lease must run out only when no         *)
(* handler extends it.  Users promise nothing, and a worker need not fail. *)
(***************************************************************************)

Extended(i) == \E a \in Attempts : handler[i][a].pc = "handling" /\ Holds(i, a)

Fairness ==
    /\ WF_vars(FinalizeProjectDeletion)
    /\ \A i \in Items :
          /\ WF_vars(\E w \in Workers : Claim(w, i))
          /\ WF_vars(RecoverExpired(i))
          /\ WF_vars(BackoffElapses(i))
          /\ WF_vars(~Extended(i) /\ LeaseExpires(i))
          /\ WF_vars(CancelItemWrite(i))
          /\ \A a \in Attempts : WF_vars(HandlerReturns(i, a))

FairSpec == Spec /\ Fairness

Served(i) == item[i].status \in Terminal /\ (item[i].cancel => item[i].status = "canceled")

\* Every item that was ordered ends, whatever workers and leases do, and it ends as
\* canceled when a cancellation was recorded before.
ItemsAreServed == \A i \in Items : item[i].status \in Live \/ item[i].cancel ~> Served(i)

\* The deletion of a project completes.
DeletionCompletes == project = "deletion_requested" ~> project = "deleted"
=============================================================================
