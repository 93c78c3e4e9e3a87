----------------------------- MODULE ImageQueue -----------------------------
(***************************************************************************)
(* The image generation queue: durable jobs of users, server processes     *)
(* whose pollers claim them and whose runners execute them, cancellation   *)
(* by the user, and recovery when a process starts.                        *)
(*                                                                         *)
(* Source: src/internal/app/generation_queue.go, and from generation.go    *)
(* executeGenerationRecordWithOptions, failGenerationRecord and            *)
(* handleCancelImageGeneration.                                            *)
(*                                                                         *)
(* A transaction, and a single statement outside of one, is one action;    *)
(* statements in sequence are merged only where no other actor can tell.   *)
(* The claim token is random; it is named by the runner that is started    *)
(* under it, which no other claim shares while the token is in the job.    *)
(* A record is "active" when its status is queued or running: every guard  *)
(* of the code treats the two alike.  The job status "persisting" is       *)
(* queried and never assigned, and is left out.                            *)
(***************************************************************************)
EXTENDS Integers, FiniteSets

CONSTANTS
    NumJobs,         \* jobs are named by their row ids, in the order of creation
    Users, Owner,    \* Owner[j] is the user who orders job j
    Processes,       \* server processes
    Runners, Host,   \* runner goroutines, and the process each belongs to
    Concurrency,     \* GenerationConcurrencyLimit: execution leases at one time
    PendingLimit,    \* active jobs a user may have
    MaxAttempts,     \* provider requests before a failure is final
    Price,           \* credits a job costs
    InitialCredits,  \* available credits of each user at the start
    Idempotent,      \* the provider channel takes idempotency keys
    Cancels,         \* jobs whose users cancel
    MaxCrashes,      \* bound on the number of crashes
    Nobody

Jobs == 1..NumJobs

ASSUME SizesAssumption ==
    /\ NumJobs \in Nat /\ MaxCrashes \in Nat /\ InitialCredits \in Nat
    /\ {Concurrency, PendingLimit, MaxAttempts, Price} \subseteq Nat \ {0}
ASSUME WiringAssumption ==
    /\ Owner \in [Jobs -> Users]
    /\ Host \in [Runners -> Processes] /\ IsFiniteSet(Runners)
    /\ Nobody \notin Runners \union Processes
ASSUME SwitchAssumption == Idempotent \in BOOLEAN /\ Cancels \subseteq Jobs

VARIABLES
    job,        \* ImageGenerationJob rows
    record,     \* GenerationRecord rows, one for each job
    works,      \* number of Work rows made for a job
    credits,    \* CreditBalance rows
    runner,     \* the goroutines that execute jobs
    orphaned,   \* unexpired execution leases whose runner died in a crash
    process,    \* server processes
    todo,       \* the jobs that a starting process still has to recover, the job it
                \* is at, and what it has read of that job's record
    canceller,  \* the cancel request of the user that is under way for a job
    asked,      \* what is known of the requests to the provider for a job
    crashes

vars == <<job, record, works, credits, runner, orphaned, process, todo,
          canceller, asked, crashes>>

Waiting == {"queued", "retry_wait"}
Active  == Waiting \union {"running"}
Ended   == {"succeeded", "failed", "cancelled"}

NoJob == [status |-> "absent", token |-> Nobody, lease |-> "none", cancel |-> FALSE,
          due |-> TRUE, overdue |-> FALSE, spool |-> FALSE, attempts |-> 0,
          settled |-> FALSE, released |-> FALSE]
Idle == [pc |-> "idle", job |-> 0, told |-> FALSE]
NoCancel == [pc |-> "idle", token |-> Nobody, at |-> Nobody]
NothingToDo == [jobs |-> {}, at |-> 0, verdict |-> "none"]

\* A runner whose cancel function is registered.
Registered == {"preparing", "asking", "image", "checked", "persisting"}
RunnerStates == Registered \union
    {"idle", "claimed", "start", "saved", "persisted", "retryable", "failed", "errored"}

\* The rows keep their types: in particular no balance column becomes negative.
ImageTypeOK ==
    /\ job \in [Jobs -> [status : Active \union Ended \union {"absent"},
                         token : Runners \union {Nobody}, lease : {"none", "live", "expired"},
                         cancel : BOOLEAN, due : BOOLEAN, overdue : BOOLEAN, spool : BOOLEAN,
                         attempts : 0..MaxAttempts, settled : BOOLEAN, released : BOOLEAN]]
    /\ record \in [Jobs -> [status : {"none", "active", "succeeded", "failed"}, started : BOOLEAN]]
    /\ works \in [Jobs -> Nat]
    /\ credits \in [Users -> [available : Nat, reserved : Nat]]
    /\ runner \in [Runners -> [pc : RunnerStates, job : 0..NumJobs, told : BOOLEAN]]
    /\ orphaned \in 0..Cardinality(Runners) * MaxCrashes
    /\ process \in [Processes -> {"up", "recovering", "down"}]
    /\ todo \in [Processes -> [jobs : SUBSET Jobs, at : 0..NumJobs,
                               verdict : {"none", "succeeded", "failed", "unknown", "requeue"}]]
    /\ canceller \in [Jobs -> [pc : {"idle", "read", "loaded", "tried"},
                               token : Runners \union {Nobody}, at : Processes \union {Nobody}]]
    /\ asked \in [Jobs -> {"never", "open", "answered"}]
    /\ crashes \in 0..MaxCrashes

Init ==
    /\ job = [j \in Jobs |-> NoJob]
    /\ record = [j \in Jobs |-> [status |-> "none", started |-> FALSE]]
    /\ works = [j \in Jobs |-> 0]
    /\ credits = [u \in Users |-> [available |-> InitialCredits, reserved |-> 0]]
    /\ runner = [r \in Runners |-> Idle]
    /\ orphaned = 0
    /\ process = [p \in Processes |-> "up"]
    /\ todo = [p \in Processes |-> NothingToDo]
    /\ canceller = [j \in Jobs |-> NoCancel]
    /\ asked = [j \in Jobs |-> "never"]
    /\ crashes = 0

-----------------------------------------------------------------------------
(***************************************************************************)
(* Credits and the end of a job.                                           *)
(***************************************************************************)

Balance(j) == credits[Owner[j]]
Pay(j, available, reserved) ==
    credits' = [credits EXCEPT ![Owner[j]] = [available |-> @.available + available,
                                              reserved  |-> @.reserved + reserved]]

\* The hold of a job is neither settled nor released (releaseQueuedGenerationCredits).
HoldOpen(j) == ~job[j].settled /\ ~job[j].released

\* A job row that is no longer held by anyone.
Freed(row, status) == [row EXCEPT !.status = status, !.token = Nobody, !.lease = "none"]

\* An active record fails and an ended one is left alone.
FailRecord(j) ==
    record' = [record EXCEPT ![j].status = IF @ = "active" THEN "failed" ELSE @]

\* failClaimedGenerationJob goes through: the job is active, the caller's token is
\* that of the job, where no token is never compared, and the balance covers the
\* hold that is released.  Otherwise it errs and changes nothing.
LeaseLost(j, token) ==
    \/ job[j].status \notin Active
    \/ token # Nobody /\ job[j].token # token
CanFail(j, token) ==
    /\ ~LeaseLost(j, token)
    /\ HoldOpen(j) => Balance(j).reserved >= Price

FailJobOnly(j, status) ==  \* mutant
    /\ job' = [job EXCEPT ![j] = [Freed(job[j], status) EXCEPT !.released = @ \/ HoldOpen(j)]]
    /\ UNCHANGED record
    /\ IF HoldOpen(j) THEN Pay(j, Price, -Price) ELSE UNCHANGED credits
FailWithoutRelease(j, status) ==  \* mutant
    /\ job' = [job EXCEPT ![j] = Freed(@, status)]
    /\ FailRecord(j)
    /\ UNCHANGED credits
Fail(j, status) ==
    /\ job' = [job EXCEPT ![j] = [Freed(job[j], status) EXCEPT !.released = @ \/ HoldOpen(j)]]
    /\ FailRecord(j)
    /\ IF HoldOpen(j) THEN Pay(j, Price, -Price) ELSE UNCHANGED credits

\* How a job ends whose error code is taken from its record: a record that failed
\* because the request timed out after the answer says "cancelled", too.
FailedAs(j) == IF record[j].status = "failed" THEN {"failed", "cancelled"} ELSE {"failed"}

TryFail(j, token, status) ==
    IF CanFail(j, token) THEN Fail(j, status) ELSE UNCHANGED <<job, record, credits>>

\* settleQueuedGenerationCredits looks at the settled mark of the job, and at
\* neither its status nor its token nor its released mark.
CanSettle(j) == job[j].settled \/ Balance(j).reserved >= Price
Settle(j) == IF job[j].settled THEN UNCHANGED credits ELSE Pay(j, 0, -Price)

-----------------------------------------------------------------------------
(***************************************************************************)
(* Users.                                                                  *)
(***************************************************************************)

Pending(u) == {j \in Jobs : Owner[j] = u /\ job[j].status \in Active}

\* enqueueGenerationJob, under an advisory lock.  A known idempotency key returns
\* the job it names and changes nothing.
Enqueue(j) ==
    /\ \E p \in Processes : process[p] = "up"
    /\ job[j].status = "absent"
    /\ \A k \in 1..(j - 1) : job[k].status # "absent"
    /\ Cardinality(Pending(Owner[j])) < PendingLimit
    /\ Balance(j).available >= Price
    /\ Pay(j, -Price, Price)
    /\ job' = [job EXCEPT ![j].status = "queued"]
    /\ record' = [record EXCEPT ![j].status = "active"]
    /\ UNCHANGED <<works, runner, orphaned, process, todo, canceller, asked, crashes>>

CancelAt(j, c) == canceller' = [canceller EXCEPT ![j] = c]

\* handleCancelImageGeneration, on process p: an active record is looked up ...
CancelRead(p, j) ==
    /\ j \in Cancels /\ process[p] = "up"
    /\ canceller[j].pc = "idle"
    /\ record[j].status = "active"
    /\ CancelAt(j, [pc |-> "read", token |-> Nobody, at |-> p])
    /\ UNCHANGED <<job, record, works, credits, runner, orphaned, process, todo, asked, crashes>>

\* ... its job is marked, whatever its status, and read again ...
CancelMark(j) ==
    /\ canceller[j].pc = "read"
    /\ job' = [job EXCEPT ![j].cancel = TRUE]
    /\ CancelAt(j, [canceller[j] EXCEPT !.pc = "loaded", !.token = job[j].token])
    /\ UNCHANGED <<record, works, credits, runner, orphaned, process, todo, asked, crashes>>

\* ... and ended, if its token still is the one that was read; any other error than
\* the lost lease ends the request ...
CancelJob(j) ==
    /\ canceller[j].pc = "loaded"
    /\ TryFail(j, canceller[j].token, "cancelled")
    /\ CancelAt(j, IF CanFail(j, canceller[j].token) \/ LeaseLost(j, canceller[j].token)
                   THEN [canceller[j] EXCEPT !.pc = "tried"] ELSE NoCancel)
    /\ UNCHANGED <<works, runner, orphaned, process, todo, asked, crashes>>

\* ... the runner is told, if it runs in this process and has registered, and a
\* record that is active all the same is failed by itself.
CancelRest(j) ==
    /\ canceller[j].pc = "tried"
    /\ runner' = [r \in Runners |->
           IF runner[r].job = j /\ Host[r] = canceller[j].at /\ runner[r].pc \in Registered
           THEN [runner[r] EXCEPT !.told = TRUE] ELSE runner[r]]
    /\ FailRecord(j)
    /\ CancelAt(j, NoCancel)
    /\ UNCHANGED <<job, works, credits, orphaned, process, todo, asked, crashes>>

-----------------------------------------------------------------------------
(***************************************************************************)
(* The poller of a process.                                                *)
(***************************************************************************)

DeadlinePasses(j) ==
    /\ job[j].status \in Active /\ ~job[j].overdue
    /\ job' = [job EXCEPT ![j].overdue = TRUE]
    /\ UNCHANGED <<record, works, credits, runner, orphaned, process, todo, canceller, asked, crashes>>

BackoffElapses(j) ==
    /\ job[j].status = "retry_wait" /\ ~job[j].due
    /\ job' = [job EXCEPT ![j].due = TRUE]
    /\ UNCHANGED <<record, works, credits, runner, orphaned, process, todo, canceller, asked, crashes>>

ExpireUncancelled(j) ==  \* mutant
    /\ \E p \in Processes : process[p] = "up"
    /\ job[j].status \in Waiting /\ job[j].overdue /\ ~job[j].cancel
    /\ TryFail(j, Nobody, "failed")
    /\ UNCHANGED <<works, runner, orphaned, process, todo, canceller, asked, crashes>>
\* expireQueuedGenerationJobs.  No claim takes a job whose deadline has passed, so
\* nothing happens to it between the query and the transaction.
Expire(j) ==
    /\ \E p \in Processes : process[p] = "up"
    /\ job[j].status \in Waiting /\ job[j].overdue
    /\ TryFail(j, Nobody, "failed")
    /\ UNCHANGED <<works, runner, orphaned, process, todo, canceller, asked, crashes>>

Claimable(j) ==
    /\ job[j].status \in Waiting /\ job[j].due
    /\ ~job[j].cancel /\ ~job[j].overdue

Running(u) == Cardinality({j \in Pending(u) : job[j].status = "running"})

\* selectFairGenerationCandidate over the claimable jobs: the user with the fewest
\* running jobs comes first, then the oldest job.
Selected(j) ==
    /\ Claimable(j)
    /\ \A k \in Jobs : Claimable(k) =>
          \/ Running(Owner[j]) < Running(Owner[k])
          \/ Running(Owner[j]) = Running(Owner[k]) /\ j <= k

RunnerGoes(r, pc) == runner' = [runner EXCEPT ![r].pc = pc]
RunnerEnds(r) == runner' = [runner EXCEPT ![r] = Idle]

\* claimGenerationQueueJob; the poller has at most one claimed job in its hand.
Claim(r, j) ==
    /\ process[Host[r]] = "up"
    /\ runner[r].pc = "idle"
    /\ \A q \in Runners : Host[q] = Host[r] => runner[q].pc # "claimed"
    /\ Selected(j)
    /\ job' = [job EXCEPT ![j].status = "running", ![j].token = r, ![j].lease = "live"]
    /\ runner' = [runner EXCEPT ![r] = [pc |-> "claimed", job |-> j, told |-> FALSE]]
    /\ UNCHANGED <<record, works, credits, orphaned, process, todo, canceller, asked, crashes>>

\* The runners that hold an execution lease.
Executing == {r \in Runners : runner[r].pc \notin {"idle", "claimed"}}
SlotOffByOne == Cardinality(Executing) + orphaned <= Concurrency  \* mutant
SlotFree == Cardinality(Executing) + orphaned < Concurrency

\* The claimed job starts under an execution lease (tryAcquireImageExecutionLease).
Start(r) ==
    /\ runner[r].pc = "claimed"
    /\ SlotFree
    /\ RunnerGoes(r, "start")
    /\ UNCHANGED <<job, record, works, credits, orphaned, process, todo, canceller, asked, crashes>>

\* It goes back to the queue when none is free (returnClaimedGenerationJobToQueue).
PutBack(r) ==
    /\ runner[r].pc = "claimed"
    /\ ~SlotFree
    /\ LET j == runner[r].job
       IN  job' = IF job[j].token = r THEN [job EXCEPT ![j] = Freed(@, "queued")] ELSE job
    /\ RunnerEnds(r)
    /\ UNCHANGED <<record, works, credits, orphaned, process, todo, canceller, asked, crashes>>

\* Its snapshot cannot be loaded: a reference or the user is gone.
SnapshotInvalid(r) ==
    /\ runner[r].pc = "claimed"
    /\ TryFail(runner[r].job, r, "failed")
    /\ RunnerEnds(r)
    /\ UNCHANGED <<works, orphaned, process, todo, canceller, asked, crashes>>

-----------------------------------------------------------------------------
(***************************************************************************)
(* A runner (runQueuedGenerationJob).  Its job is J(r), whose claim it     *)
(* holds as long as job[J(r)].token = r.                                   *)
(***************************************************************************)

J(r) == runner[r].job
Save(r) == record' = [record EXCEPT ![J(r)].status = "active"]

\* The record is saved as running from a copy that was read before; then the cancel
\* function of the runner is registered.
SaveRunning(r) ==
    /\ runner[r].pc = "start" /\ ~job[J(r)].spool
    /\ Save(r)
    /\ RunnerGoes(r, "saved")
    /\ UNCHANGED <<job, works, credits, orphaned, process, todo, canceller, asked, crashes>>

Register(r) ==
    /\ runner[r].pc = "saved"
    /\ RunnerGoes(r, "preparing")
    /\ UNCHANGED <<job, record, works, credits, orphaned, process, todo, canceller, asked, crashes>>

\* A reference cannot be read: the record fails.  A statement errs: it does not.
PreparationFails(r) ==
    /\ runner[r].pc = "preparing"
    /\ FailRecord(J(r)) \/ UNCHANGED record
    /\ RunnerGoes(r, "errored")
    /\ UNCHANGED <<job, works, credits, orphaned, process, todo, canceller, asked, crashes>>

StatementErrs(r) ==
    /\ \/ runner[r].pc = "start" /\ ~job[J(r)].spool
       \/ runner[r].pc \in {"image", "checked"}
    /\ RunnerGoes(r, "errored")
    /\ UNCHANGED <<job, record, works, credits, orphaned, process, todo, canceller, asked, crashes>>

\* persistGenerationProviderAttemptStarted, and the request.  One step stands for
\* all the requests that the failover over channels makes.
AskProvider(r) ==
    /\ runner[r].pc = "preparing" /\ ~runner[r].told
    /\ record' = [record EXCEPT ![J(r)].started = TRUE]
    /\ asked' = [asked EXCEPT ![J(r)] = "open"]
    /\ RunnerGoes(r, "asking")
    /\ UNCHANGED <<job, works, credits, orphaned, process, todo, canceller, crashes>>

\* n more ModelCallAttempt rows; what counts is whether there are MaxAttempts.
Attempted(row, n) ==
    [row EXCEPT !.attempts = IF @ + n < MaxAttempts THEN @ + n ELSE MaxAttempts]

\* The image arrives, in a spool file or in memory; the path of the file is
\* written to the job, whoever holds it.
ProviderDelivers(r) ==
    /\ runner[r].pc = "asking" /\ ~runner[r].told
    /\ \E n \in 1..MaxAttempts, spool \in BOOLEAN :
          job' = [job EXCEPT ![J(r)] = [Attempted(job[J(r)], n) EXCEPT !.spool = @ \/ spool]]
    /\ asked' = [asked EXCEPT ![J(r)] = "answered"]
    /\ RunnerGoes(r, "image")
    /\ UNCHANGED <<record, works, credits, orphaned, process, todo, canceller, crashes>>

\* A refusal, for good or for now (queuedProviderFailureRetryable).
ProviderRefuses(r) ==
    /\ runner[r].pc = "asking"
    /\ \E n \in 1..MaxAttempts : job' = [job EXCEPT ![J(r)] = Attempted(@, n)]
    /\ asked' = [asked EXCEPT ![J(r)] = "answered"]
    /\ \E pc \in {"retryable", "failed"} : RunnerGoes(r, pc)
    /\ UNCHANGED <<record, works, credits, orphaned, process, todo, canceller, crashes>>

\* No answer: provider_result_unknown, or an attempt that could not be recorded.
ProviderSilent(r) ==
    /\ runner[r].pc = "asking"
    /\ \E n \in 0..MaxAttempts : job' = [job EXCEPT ![J(r)] = Attempted(@, n)]
    /\ \E pc \in {"failed", "errored"} : RunnerGoes(r, pc)
    /\ UNCHANGED <<record, works, credits, orphaned, process, todo, canceller, asked, crashes>>

\* ensureGenerationRecordStillActive reads the row; the runner of an ended record
\* returns and leaves its job as it is.
CheckActive(r) ==
    /\ runner[r].pc = "image"
    /\ IF record[J(r)].status = "active" THEN RunnerGoes(r, "checked") ELSE RunnerEnds(r)
    /\ UNCHANGED <<job, record, works, credits, orphaned, process, todo, canceller, asked, crashes>>

SavePersisting(r) ==
    /\ runner[r].pc = "checked"
    /\ Save(r)
    /\ RunnerGoes(r, "persisting")
    /\ UNCHANGED <<job, works, credits, orphaned, process, todo, canceller, asked, crashes>>

\* The Work, the settlement and the record in one transaction, under the context
\* of the runner.
Persist(r) ==
    /\ runner[r].pc = "persisting" /\ ~runner[r].told
    /\ CanSettle(J(r))
    /\ Settle(J(r))
    /\ job' = [job EXCEPT ![J(r)].settled = TRUE]
    /\ works' = [works EXCEPT ![J(r)] = @ + 1]
    /\ record' = [record EXCEPT ![J(r)].status = "succeeded"]
    /\ RunnerGoes(r, "persisted")
    /\ UNCHANGED <<orphaned, process, todo, canceller, asked, crashes>>

\* Post-processing, the store or the transaction errs, or the context has ended.  The
\* record fails, or stays active to be persisted again from a spool file.
PersistFails(r) ==
    /\ runner[r].pc = "persisting"
    /\ FailRecord(J(r)) \/ UNCHANGED record
    /\ RunnerGoes(r, "errored")
    /\ UNCHANGED <<job, works, credits, orphaned, process, todo, canceller, asked, crashes>>

FinishUnfenced(r) ==  \* mutant
    /\ runner[r].pc = "persisted"
    /\ job' = [job EXCEPT ![J(r)] = [Freed(@, "succeeded") EXCEPT !.spool = FALSE]]
    /\ RunnerEnds(r)
    /\ UNCHANGED <<record, works, credits, orphaned, process, todo, canceller, asked, crashes>>
\* The spool file goes, and the job succeeds, if the runner still holds it.
Finish(r) ==
    /\ runner[r].pc = "persisted"
    /\ LET row == [job[J(r)] EXCEPT !.spool = FALSE]
       IN  job' = [job EXCEPT ![J(r)] =
                      IF row.token = r THEN Freed(row, "succeeded") ELSE row]
    /\ RunnerEnds(r)
    /\ UNCHANGED <<record, works, credits, orphaned, process, todo, canceller, asked, crashes>>

\* The job waits for its next attempt, if the runner still holds it.
WaitForRetry(r) ==
    /\ job[J(r)].token = r
    /\ job' = [job EXCEPT ![J(r)] = [Freed(@, "retry_wait") EXCEPT !.due = FALSE]]
    /\ UNCHANGED <<record, credits>>

\* A retryable refusal, while attempts are left.
RetryRefused(r) ==
    /\ runner[r].pc = "retryable"
    /\ job[J(r)].attempts < MaxAttempts
    /\ WaitForRetry(r)
    /\ RunnerEnds(r)
    /\ UNCHANGED <<works, orphaned, process, todo, canceller, asked, crashes>>

\* An error after the image had been spooled: it is persisted again later, unless
\* the spool file is more than five minutes old.
RetrySpooled(r) ==
    /\ runner[r].pc = "errored"
    /\ job[J(r)].spool
    /\ WaitForRetry(r)
    /\ RunnerEnds(r)
    /\ UNCHANGED <<works, orphaned, process, todo, canceller, asked, crashes>>

\* Any other failure ends the job.
GiveUp(r) ==
    /\ \/ runner[r].pc = "failed"
       \/ runner[r].pc = "retryable" /\ (job[J(r)].attempts >= MaxAttempts \/ job[J(r)].token # r)
       \/ runner[r].pc = "errored"
    /\ \E status \in FailedAs(J(r)) : TryFail(J(r), r, status)
    /\ RunnerEnds(r)
    /\ UNCHANGED <<works, orphaned, process, todo, canceller, asked, crashes>>

\* resumeQueuedGenerationSpool: a spooled image is persisted by the claim itself; the
\* transaction holds the job row.
ResumeSpool(r) ==
    /\ runner[r].pc = "start" /\ job[J(r)].spool
    /\ job[J(r)].token = r /\ CanSettle(J(r))
    /\ Settle(J(r))
    /\ works' = [works EXCEPT ![J(r)] = @ + 1]
    /\ record' = [record EXCEPT ![J(r)].status = IF @ = "active" THEN "succeeded" ELSE @]
    /\ job' = [job EXCEPT ![J(r)] = [Freed(@, "succeeded") EXCEPT !.settled = TRUE, !.spool = FALSE]]
    /\ RunnerEnds(r)
    /\ UNCHANGED <<orphaned, process, todo, canceller, asked, crashes>>

\* It could not: again later, or the end when the spool file is too old or gone.
ResumeFails(r) ==
    /\ runner[r].pc = "start" /\ job[J(r)].spool
    /\ \/ WaitForRetry(r)
       \/ job[J(r)].token # r /\ UNCHANGED <<job, record, credits>>
       \/ TryFail(J(r), r, "failed")
    /\ RunnerEnds(r)
    /\ UNCHANGED <<works, orphaned, process, todo, canceller, asked, crashes>>

RunnerStep(r) ==
    \/ Start(r) \/ PutBack(r) \/ SnapshotInvalid(r)
    \/ SaveRunning(r) \/ Register(r) \/ PreparationFails(r)
    \/ StatementErrs(r) \/ AskProvider(r)
    \/ ProviderDelivers(r) \/ ProviderRefuses(r) \/ ProviderSilent(r)
    \/ CheckActive(r) \/ SavePersisting(r) \/ Persist(r) \/ PersistFails(r)
    \/ Finish(r) \/ RetryRefused(r) \/ RetrySpooled(r) \/ GiveUp(r)
    \/ ResumeSpool(r) \/ ResumeFails(r)

-----------------------------------------------------------------------------
(***************************************************************************)
(* Crashes, leases and recovery.  A live runner renews its leases in time. *)
(***************************************************************************)

\* A process dies with its runners, with the cancel requests it serves and with
\* the recovery it may be in; the leases stay in the database.
Crash(p) ==
    /\ process[p] # "down" /\ crashes < MaxCrashes
    /\ crashes' = crashes + 1
    /\ process' = [process EXCEPT ![p] = "down"]
    /\ todo' = [todo EXCEPT ![p] = NothingToDo]
    /\ runner' = [r \in Runners |-> IF Host[r] = p THEN Idle ELSE runner[r]]
    /\ orphaned' = orphaned + Cardinality({r \in Executing : Host[r] = p})
    /\ canceller' = [j \in Jobs |-> IF canceller[j].at = p THEN NoCancel ELSE canceller[j]]
    /\ UNCHANGED <<job, record, works, credits, asked>>

\* A running job that no runner works on.
Abandoned(j) ==
    /\ job[j].status = "running"
    /\ \A r \in Runners : runner[r].job = j => job[j].token # r

LeaseExpires(j) ==
    /\ Abandoned(j) /\ job[j].lease = "live"
    /\ job' = [job EXCEPT ![j].lease = "expired"]
    /\ UNCHANGED <<record, works, credits, runner, orphaned, process, todo, canceller, asked, crashes>>

OrphanLeaseExpires ==
    /\ orphaned > 0
    /\ orphaned' = orphaned - 1
    /\ UNCHANGED <<job, record, works, credits, runner, process, todo, canceller, asked, crashes>>

RecoverLeased(p) ==  \* mutant
    /\ process[p] = "down"
    /\ process' = [process EXCEPT ![p] = "recovering"]
    /\ todo' = [todo EXCEPT ![p].jobs = {j \in Jobs : job[j].status = "running"}]
    /\ UNCHANGED <<job, record, works, credits, runner, orphaned, canceller, asked, crashes>>
\* recoverGenerationQueue, once when a process starts, however soon that is after a
\* crash: the running jobs ...
ProcessStarts(p) ==
    /\ process[p] = "down"
    /\ process' = [process EXCEPT ![p] = "recovering"]
    /\ todo' = [todo EXCEPT ![p].jobs =
           {j \in Jobs : job[j].status = "running" /\ job[j].lease # "live"}]
    /\ UNCHANGED <<job, record, works, credits, runner, orphaned, canceller, asked, crashes>>

ReplayAnything(j) == IF record[j].status = "active" THEN "requeue" ELSE record[j].status  \* mutant
Verdict(j) ==
    IF record[j].status # "active" THEN record[j].status
    ELSE IF record[j].started /\ ~Idempotent /\ ~job[j].spool THEN "unknown" ELSE "requeue"

\* ... whose leases have expired are looked up one after the other ...
RecoverLook(p, j) ==
    /\ process[p] = "recovering" /\ todo[p].at = 0 /\ j \in todo[p].jobs
    /\ todo' = [todo EXCEPT ![p] = [jobs |-> @.jobs \ {j}, at |-> j, verdict |-> Verdict(j)]]
    /\ UNCHANGED <<job, record, works, credits, runner, orphaned, process, canceller, asked, crashes>>

\* ... and settled, failed, or put back into the queue by their id ...
RecoverSucceeded(j) ==
    /\ job' = IF job[j].status # "running" THEN job
              ELSE [job EXCEPT ![j] = [Freed(@, "succeeded") EXCEPT !.settled = TRUE, !.spool = FALSE]]
    /\ UNCHANGED <<record, credits>>
RecoverFailed(j) == \E status \in FailedAs(j) : TryFail(j, Nobody, status)
Requeue(j) ==
    /\ job' = [job EXCEPT ![j] = Freed(@, "queued")]
    /\ record' = [record EXCEPT ![j].status = "active"]
    /\ UNCHANGED credits

\* ... where any error but a lost lease of a failed record ends the start.
StartFails(p) ==
    LET j == todo[p].at
    IN  \/ todo[p].verdict = "failed" /\ ~LeaseLost(j, Nobody) /\ ~CanFail(j, Nobody)
        \/ todo[p].verdict = "unknown" /\ ~CanFail(j, Nobody)

RecoverJob(p) ==
    /\ process[p] = "recovering" /\ todo[p].at # 0
    /\ LET j == todo[p].at
       IN  \/ todo[p].verdict = "succeeded" /\ RecoverSucceeded(j)
           \/ todo[p].verdict \in {"failed", "unknown"} /\ RecoverFailed(j)
           \/ todo[p].verdict = "requeue" /\ Requeue(j)
    /\ IF StartFails(p)
       THEN todo' = [todo EXCEPT ![p] = NothingToDo] /\ process' = [process EXCEPT ![p] = "down"]
       ELSE todo' = [todo EXCEPT ![p].at = 0, ![p].verdict = "none"] /\ UNCHANGED process
    /\ UNCHANGED <<works, runner, orphaned, canceller, asked, crashes>>

ProcessUp(p) ==
    /\ process[p] = "recovering" /\ todo[p] = NothingToDo
    /\ process' = [process EXCEPT ![p] = "up"]
    /\ UNCHANGED <<job, record, works, credits, runner, orphaned, todo, canceller, asked, crashes>>

-----------------------------------------------------------------------------
ProcessStep(p) ==
    \/ ProcessStarts(p) \/ RecoverJob(p) \/ ProcessUp(p)
    \/ \E j \in Jobs : RecoverLook(p, j)

\* What goes on by itself with a job.
JobStep(j) ==
    \/ CancelMark(j) \/ CancelJob(j) \/ CancelRest(j)
    \/ DeadlinePasses(j) \/ BackoffElapses(j) \/ Expire(j) \/ LeaseExpires(j)

Next ==
    \/ \E j \in Jobs : Enqueue(j) \/ JobStep(j) \/ \E p \in Processes : CancelRead(p, j)
    \/ \E r \in Runners : RunnerStep(r) \/ \E j \in Jobs : Claim(r, j)
    \/ OrphanLeaseExpires
    \/ \E p \in Processes : ProcessStep(p) \/ Crash(p)

Spec == Init /\ [][Next]_vars

\* Timers fire, runners and requests get on with what they do, and a process that
\* went down is started again.  Nobody has to order, to cancel or to crash; that
\* the poller claims something is not assumed either.
Fairness ==
    /\ \A j \in Jobs : /\ WF_vars(CancelMark(j) \/ CancelJob(j) \/ CancelRest(j))
                       /\ WF_vars(DeadlinePasses(j)) /\ WF_vars(Expire(j))
                       /\ WF_vars(LeaseExpires(j))
    /\ \A r \in Runners : WF_vars(RunnerStep(r))
    /\ \A p \in Processes : WF_vars(ProcessStep(p))

-----------------------------------------------------------------------------
(***************************************************************************)
(* Properties.                                                             *)
(***************************************************************************)

\* The hold of an ended job has been released or settled, and the hold of an active
\* one has not been released, whatever the order of failures, cancellations,
\* timeouts, crashes and recoveries was.
HoldEndsWithJob ==
    \A j \in Jobs :
        /\ job[j].status \in Ended => job[j].settled \/ job[j].released
        /\ job[j].status \in Active => ~job[j].released

\* No image is made for nothing and none is charged twice: a job has one Work at
\* most, and has one exactly when its hold was settled.
WorkIffSettled ==
    \A j \in Jobs : works[j] = IF job[j].settled THEN 1 ELSE 0

CreditsOf(u) == credits[u].available + credits[u].reserved
    + Price * Cardinality({j \in Jobs : Owner[j] = u /\ job[j].settled})
\* No credit is created or lost: what is available, what is reserved and what was
\* paid for settled jobs are the credits the user had.
CreditsAddUp == \A u \in Users : CreditsOf(u) = InitialCredits

OpenHolds(u) == {j \in Pending(u) : HoldOpen(j)}
\* The jobs that were settled after their hold had been given back: a cancel request
\* ended them while their runner went on, and the runner persisted its image.
Overdrawn(u) == {j \in Jobs : Owner[j] = u /\ job[j].settled /\ job[j].released}

\* The credits a user has reserved are those of the active jobs that hold some, and
\* every image that arrives after the cancellation of its job takes its price from
\* the hold of another job ("generation reserved credit invariant violated"): nothing
\* else does, and none takes it twice.
HoldsAreReserved ==
    \A u \in Users :
        credits[u].reserved + Price * Cardinality(Overdrawn(u)) = Price * Cardinality(OpenHolds(u))

\* A job that failed is shown as failed and left no Work behind, and the crash of a
\* runner between the persisted Work and the end of its job does not fail the job.
\* Only a job that its user cancels may end with a Work, and its record says so then.
FailureIsShown ==
    \A j \in Jobs : job[j].status \in {"failed", "cancelled"} =>
        \/ record[j].status = "failed" /\ works[j] = 0
        \/ job[j].cancel /\ (works[j] # 0 => record[j].status = "succeeded")

\* A job that has ended never starts again, not even by a recovery or by a runner
\* that finishes late.
JobEndsOnce ==
    [][\A j \in Jobs : job[j].status \in Ended => job'[j].status = job[j].status]_vars

\* Jobs, holds, records and Works add up.
JobsAddUp == WorkIffSettled /\ HoldsAreReserved /\ FailureIsShown

\* Holds and credits add up when users cancel at any moment.
HoldsAddUp == ImageTypeOK /\ HoldEndsWithJob /\ CreditsAddUp

\* Not more than Concurrency images are made at a time, over all processes, the
\* ones that were lost in a crash included until their leases expire.
ConcurrencyRespected == Cardinality(Executing) + orphaned <= Concurrency

\* A provider that does not deduplicate is never asked again while it is unknown
\* what became of an earlier request for the same job.
NoBlindReplay ==
    [][\A r \in Runners : (AskProvider(r) /\ ~Idempotent) => asked[J(r)] # "open"]_vars

\* Two runners never work on one job.
OneRunnerPerJob ==
    \A q, r \in Runners : runner[q].job # 0 /\ runner[q].job = runner[r].job => q = r
=============================================================================
