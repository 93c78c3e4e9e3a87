# Verification of dz-ai-creator

dz-ai-creator is a server, written in Go, that sells images and videos made by
generative models. Users buy credits, order single images, albums, videos, novels
made into videos, or batches for a shop ("commerce projects"); background workers and
goroutines execute the orders against providers. This directory holds TLA+
specifications of the parts where several actors touch the same rows, TLC
configurations that check them on small instances, and TLAPS proofs of what holds
for every size.

Paths are relative to `src/internal/app/` where nothing else is said.

## 1. Inventory of the system

One process (`src/cmd/server`) serves HTTP, runs the pollers of two queues and
talks to a PostgreSQL database (SQLite in tests). `src/compose.yaml` restarts it
unless it is stopped; nothing in the code forbids a second process on the same
database, and the leases of both queues exist for that case. All shared state is
in tables; what a process keeps itself is goroutines, counters of running handlers,
locks and limits per user, and the map of cancel functions.

| Component | State it keeps | Operations | Interacts with |
|---|---|---|---|
| Commerce queue: `ecommerce/queue.go`, `worker.go`, `batches.go`, `states.go` | job, item and batch rows; handlers of a worker | submit, retry, cancel an item or a batch; claim, heartbeat, complete, fail, retry, dead letter, recover expired leases | credit ledger (in the same transactions), executors, projects |
| Commerce credits: `ecommerce_credit_adapter.go`, `ecommerce/contracts.go` | balance, journal, reservations, settlements | reserve, settle, release | called by the queue and by batches |
| Commerce projects: `ecommerce/service.go`, `repository.go` | `CommerceProject` rows | create, change product or default SKU, request and finalise deletion | cancels batches; finalised by the queue worker |
| Studio: `ecommerce/creative_specs.go`, `sku_matrix.go`, `product_report.go`, `credits.go` | SKUs, specifications, analysis jobs, quotations | edit, analyse, confirm, quote, submit | commerce queue, projects |
| Objects: `ecommerce/object_guards.go`, `assets.go`, `ecommerce_storage.go`, `reference_assets.go` | guards, assets, reference assets, cleanups, the object store | upload, complete, bind, refer, delete, clean up | storage, projects, generations |
| Execution of an item: `ecommerce_generation_adapter.go`, `ecommerce_worker_adapter.go` | `GenerationRecord`, `Work` rows | bind a record, generate, replay, discard late work | commerce queue, image generation |
| Image generation: `generation.go`, `provider.go` | records, works, balance, health of channels, spool | save, ask, fail over, check, persist, fail, cancel | queues, albums, novels, providers |
| Image queue: `generation_queue.go` | `ImageGenerationJob` rows, execution leases, spooled results | enqueue, claim, lease, renew, execute, retry, settle, release, expire, recover at start | image generation, credits |
| Albums of couples: `couple_albums.go` | albums, pages | create, generate, retry a page | image generation |
| Videos: `video_generation.go`, `video_generation_records.go`, `video_soundtrack.go`, `video_conversations.go` | records with their audit rows, works, the lock of a user, messages | order, submit, poll, persist; plan with the assistant | providers, credits |
| Novels: `novel_video.go` | projects, shots, assets, creatures, candidates, attempts, jobs | plan, edit, paint, select, render, compose | image and video generation, credits |
| Payments: `alipay_handlers.go`, `wechat_handlers.go`, `payment_risk.go`, `finance_handlers.go` | orders, payment records, balance, journal | create, pay, notify, query, confirm, expire, refund | payment providers |
| Accounts: `auth_sms.go`, `auth.go`, `platform_account_handlers.go`, `wechat_handlers.go`, `admin_user_handlers.go`, `admin_invite_handlers.go` | users, sessions, codes, invites | register, log in, bind, unbind, reset, delete | SMS service, WeChat |
| Model centre: `model_center.go`, `model_config.go`, `generation_model_routing.go` | configurations, models, providers, channels, routing | edit, delete, synchronise, choose candidates | all generation |
| Catalogues, reports, other creative tools, settings, secrets, lists of the administration, shell, command line tools, clients | single rows, files, configuration | lists, edits, prompts, HTTP | the above |

Commands flow down: an HTTP handler writes rows and returns; a poller claims the
row under a lease, or a goroutine of the handler goes on with it, and reports back in
transactions or single statements. Money flows with it: credits are reserved by an
order and settled or released by whatever ends the work, or, for videos, albums and novels,
charged with the result.

### What is hard here

* **Everything ends in several places.** An item of the commerce queue is ended
  by completion, failure, cancellation, recovery, dead letter, batch cancellation
  and project deletion; an order is paid by notification, query, confirmation or an
  administrator, and fails or expires besides.
* **Handlers read, decide and write later.** Most rows are saved whole, with the values
  that were read before another request, or a provider, took its time
  (`generation.go:507`, `novel_video.go`, the balance in `alipay_handlers.go:489`).
* **Cancellation races with everything.** `ecommerce/batches.go:470` reads without a
  lock; the cancel handler of the image queue is a sequence of statements
  (`generation.go:1925`).
* **The result exists before the row hears of it.** Crashes, lost leases and
  cancellations come between the persisted Work and the end of the job.
* **A provider is asked once.** After a crash nobody knows whether it received the
  request; a channel without idempotency keys must not be asked again.
* **Goroutines die with the process.** Recovery happens at set moments: in every poll
  of the commerce queue, but for queued images only when a process starts, and for videos,
  albums and novels never (`expireStaleImageGenerations` passes over the records of videos).
* **Two stores.** Objects and rows, configurations and the centre derived from them, records
  and their audit rows are changed one after the other.

`PROJECT.json` lists these hazards line by line with the properties that would
notice them.

## 2. Modules

| Module | What it is |
|---|---|
| `CommerceStates` | the statuses of items, jobs and batches and the transitions the code declares |
| `CommerceQueue` | items, jobs, batches, credits and project deletion of the commerce queue, as single transactions |
| `BatchCounters` | the row of one batch with its counters, statement by statement, with row locks and rollbacks |
| `CreditHold` | what the ledger promises a user, and nothing of how; `CommerceQueue` implements it |
| `CommerceExecution` | extends `CommerceQueue` with what a handler does between claim and return: record, provider, Work |
| `CommerceStudio` | SKUs, specifications, analysis jobs, quotations and the submission that spends one |
| `CommerceObjects` | stored objects between those who refer to them and those who delete them |
| `ImageQueue` | the image queue with its processes, runners, cancel requests, execution leases and recovery |
| `ImageFailover` | the calls of one generation over the channels, their health, and the spool |
| `CoupleAlbums` | albums with overlapping requests, goroutines and retries |
| `Payments` | orders of Alipay and WeChat, and the balance they top up |
| `Accounts` | users, codes, phones, WeChat identities and invites under overlapping requests |
| `VideoTasks` | videos and soundtracks from the request to the charged work |
| `VideoConversation` | the messages of the planning assistant |
| `VideoProviders` | the protocols of the video providers and how a call ends |
| `ModelCenter` | configurations and the centre synchronised from them |
| `NovelAssets`, `NovelRender`, `NovelImages` | assets with painting jobs; shots with their renders; candidates with their selection |
| `CommerceQueueProofs`, `CommerceBatchProofs` | theorems about `CommerceQueue`, the last also about `BatchCounters` and `CommerceExecution` |
| `CommerceObjectsProofs`, `ImageQueueProofs`, `PaymentsProofs` | theorems about the module of that name |
| `PlatformProofs` | theorems about `Accounts`, `CommerceStudio`, `NovelAssets`, `NovelRender`, `NovelImages` |
| `CenterProofs` | theorems about `ModelCenter` |
| `MediaProofs` | theorems about `VideoTasks`, `VideoConversation`, `VideoProviders`, `ImageFailover`, `CoupleAlbums`, and about the parts of `MCVideoTasks` together |
| `MCCommerceQueue`, `MCCommerceExecution`, `MCImageQueue`, `MCPayments` | instances for TLC: symmetry, and who owns or hosts what |
| `MCImageQueueLive` | `ImageQueue` with fairness and a history of the jobs a start passed over |
| `MCCommerceWorks`, `MCImages`, `MCVideoTasks`, `MCPlatform` | instances of several components in one run |

Operators called a mutant in their comment are plausible bugs of the definition that
follows them. Nothing refers to them; substituting one for its original must make
the property that `PROJECT.json` names fail.

**Components in one run.** `MCCommerceWorks`, `MCImages`, `MCVideoTasks` and `MCPlatform` hold components
whose models share no variable. A constant variable (`side`, `layer`, `which`, `part`) chooses in
the initial state which of them runs; the others stay where they began. So the states
of such a run are the sum of theirs, not the product, and each property is about one
component, all of whose behaviours are covered. What the real components share, the
balance and the records, each model has a copy of, with every other use of it as an environment
(`Spend` in `Payments`) or left out where the component only reads it.

**Histories.** Where the code loses an update on purpose or by design, a history variable
(`overtaken`, `overwrote`, `crossed`, `slipped`, `dropped`, `strays`, `stalled`, `late`, `lost`, `missed`, `skipped`) records
that it has happened, and to which row where that matters, and the property says what holds otherwise. Each is explained at
its declaration, and each is false, or empty, in the runs for long enough that the mutants are found.

### CommerceQueue

| Variable | In the code |
|---|---|
| `project` | `CommerceProject.status` and its deletion marks |
| `batch`, `item`, `job` | the rows, with status, cancellation mark, attempts and lease |
| `handler[i][a]` | the goroutine of `worker.go` that handles attempt `a` of job `i`, with the snapshot it was started on |
| `cancelling[i]` | what an unfinished `CancelItem` has read |
| `credits`, `reservation`, `settlement` | balance and sum of the journal, reservation of a batch, settlement row of an item |

A database transaction is one action: every transaction of these files locks or
conditionally updates the rows it decides on. `CancelItem`, which reads without a
lock, is two actions; a conditional update that finds nothing (`RowsAffected # 1`)
is a disjunct of its own. An item and its job share a name, as the code makes
them in pairs. Leases are `live` or `expired` and the moment of expiry is open;
the random token is named by the attempt number, which is as unique.

`Claim` takes one job where the code may take several in one transaction. Their
rows are disjoint, so several claims in a row are the same unless one of them
errs and takes the others with it; `QueueNeverPoisoned` says that none errs.

The status and the counters of a batch are not in `CommerceQueue`: they are written by `refreshBatchCounters` at the end of
every transaction that moves an item, and read by nothing that decides. `BatchCounters` is about them alone.
There a transaction is a sequence of statements at READ COMMITTED, with the locks of jobs, items, the balance of the user and
the batch, and with rollbacks. `refreshBatchCounters` counts the items without a lock and writes the numbers as
literals, so two refreshes that overlap overwrite each other, and while items run the row may be behind: an item that is
running is counted as waiting, or an ended one as running. It cannot stay behind. Every transaction that ends an item settles
or releases its credits first, and this updates the one balance row of the user (`moveReservedCredits`), whose lock is
kept to the commit. So the endings count one after the other, and the last of them sees all others. A claim or a retry takes no
such lock, and its old numbers may overwrite newer ones; but it moves an item that has not ended, whose ending counts
again afterwards. `BatchRowIsHonest` says both: the row is never ahead of the items, and when all have ended it is what
a recount gives.

`CanTransitionCommerceItem` and `CanTransitionCommerceJob` (`ecommerce/states.go`)
are declared and consulted only by tests. `LegalTransitions` compares what the
transactions do with them.

`CreditHold` has the balance a user can spend, the hold of each item (none, held, settled,
released) and what it has cost. `ImplementsCreditHold` maps the hold to the status
of the item, the cost to the settlement row and the balance to `CreditBalance`, so
it fails when the three tables stop telling one story.

### CommerceExecution

`record[i]` is the `GenerationRecord` under the execution key of the item,
`works[i]` counts visible Work rows, `exec[i][a]` is where the execution is and
the copy of the record it holds. The code saves the whole row from that copy
except where it updates single columns, and so does the model. `asked[i]` is a
history variable: whether a request to a channel without idempotency keys has
been sent and not answered. The steps of the queue that touch an execution are
joined with it (`ClaimAndStart`, `CompleteExecuted`, ...); the rest stutter.

`Stalls` lets a process stop for longer than its lease and then go on. An
execution that does so can overwrite what the next attempt wrote, and no statement
in the code prevents it. `OneWorkPerItem`, `SucceededItemHasItsWork` and
`AskedWithCause` are therefore stated for items none of whose executions stalled;
`ChargedItemHasWork` is stated without that, and so is `SuccessOnlyByLeaseHolder`: whichever handlers of one owner are
still about, the step in which an item succeeds is the return of the handler of the newest attempt, under the name of the
owner, and no other handler moves in it. Comparing the owner instead of the token of the lease breaks it in the run.

### CommerceStudio and CommerceObjects

`desk`, `confirm` and `submit` are requests between their reads and their writes: a change of a
project, which takes the mutex of the process, row locks or neither, by its fields; the confirmation of a
specification; a submission, which holds the row of its project. The context of a
specification is the version of the product and the pictures it was made from. `attempt` are the handlers of
an analysis job, of which an old one may come back after its lease was lost.

An object has a guard, a reference asset and a commerce asset if it was uploaded, and other uses.
Triggers of the database refuse a row that refers to an object whose guard is not
active. `at` says where completing, binding, deleting, storing and cleaning stand between their
transactions and the calls of the store; the program may stop at any of these places. A store that reports a failure may
have deleted the object nevertheless (`StoreFails`): both callers then release the guard. The older deletion of
a reference asset looks at no guard. What these two remove is in `dropped`. The cleanup is
modelled although, at this commit, only tests call `processDueCommerceObjectCleanups`.

### ImageQueue, ImageFailover and CoupleAlbums

| Variable of `ImageQueue` | In the code |
|---|---|
| `job[j]` | `ImageGenerationJob`: status, lease token and whether it is live, cancellation mark, next attempt due, deadline passed, spooled result, attempts, settled and released marks |
| `record[j]`, `works[j]`, `credits[u]` | `GenerationRecord`, `Work`, `CreditBalance` |
| `runner[r]` | a goroutine in `runQueuedGenerationJob`, its host process, and whether its context was cancelled |
| `orphaned` | execution leases whose runner died and that have not expired |
| `process`, `todo` | a process, and what its start still has to recover, with what it has read |
| `canceller[j]` | a cancel request between its statements |
| `asked[j]` | as above |

Single statements outside a transaction are actions of their own, so a cancel
request is four steps, a recovery one look and one write for each job, a runner
about ten. Job ids stand for the order of creation; all jobs have the same
priority in the code. `queued` and `running` of a record are one value, `active`:
all guards treat them alike. The job status `persisting` is queried and never
assigned. `FailRecord` merges the read and the save of `failGenerationRecord`.
A graceful stop is `ProviderSilent` or `PersistFails` followed by `Crash` of the
then idle process.

`ImageFailover` is what `ImageQueue` takes as one request: `shot` is a generation with the order of its
channels, the calls made, and the last failure, in the six kinds the code tells apart; `health` counts the failures
of a channel, in one statement, and lets it cool down, in another. `CoupleAlbums` names a page by the record it was created with,
since a second request may delete and rewrite the pages while the goroutine of the first still paints
them.

### Payments

| Variable | In the code |
|---|---|
| `order`, `record` | `FinanceOrder` rows with status, method and age; the status of their `PaymentRecord` |
| `trade` | the trade at Alipay or WeChat: external, and paid, closed or refunded at any time |
| `topups`, `balance`, `journal` | top-up rows of an order, the available credits, the sum of the journal |
| `request[h]` | a request between its statements, with what it has read or was told |
| `overtaken` | a write of the balance came between the read and the write of another |

The database runs at READ COMMITTED. The three `complete...Order` functions are one sequence: settle the order by a
compare-and-set, which keeps its rows locked, read the balance, write it with the top-up row, commit. What
an answer of the provider means depends on the protocol (`AlipayAnswer`, `JsapiAnswer`,
`VirtualAnswer`). `ForceOrder` is the one read of the order that the client wants replaced, with what the code decides from it. Ages are four: within the window of the rate limit, of reuse, of a day, and
beyond.

### Accounts

`call` is a request between its reads (code, phone, open id, invite) and its transaction. The unique index on
the phone also covers rows that are only marked as deleted, so the phone of a deleted
user serves no new one; the open id has no index. Codes count their wrong entries
in a statement of its own.

### Videos

`VideoTasks`: `row` is the record, `audit` its row in the history, `mem` what the task
holds and saves whole; `pc` walks through about fifteen statements, each of which may fail
where the code goes on or gives up, and the process may die between two. `lock` and
`recent` live in the process. `VideoProviders` gives each protocol its own words and addresses, as the code
reads them; the provider's task goes on by itself. An answer of Wuyin has the address of the video, of its cover, or both in
either order. The first address that ends like one of a video is taken, and if none does the first of all: then the cover
may be stored as the video, which `ProvidersSound` admits for that case alone. `VideoConversation` has
one action per statement of the message handler. With `Failures`, as in the run `video`, any statement may fail and
a stop may end a handler (`CallFails`): an error of the look-up or of the count lets the handler go on as if nothing had been
found, and errors of the status updates are ignored.

### ModelCenter

`center` are the tables; `SyncCenter` is `syncModelCenterFromLegacy` as a function of them, step by
step for one configuration after the other (`SyncConfigs`), then for the policies (`SyncPolicy`). Every other action is an
edit of an administrator, which loads a row and later saves it whole (`editing`). An edit of a channel chooses a model and a
provider that are there (`CheckChannel`), writes the runtime, name and address of the provider to the configuration, but not its
credential (`Retold` is the key that results), and then saves the channel; as the row was loaded with its model and
provider, the save may set their ids back, so that the channel moves or stays. In between its provider may be deleted. A channel that is
saved with a deleted provider is in `strays`; `CandidatesHaveProviders` excepts these alone, and after a synchronisation
only those without a live configuration, since it takes up the others. A generation takes what `Served` leaves
of the channels its policy names. `SyncSettles` says what a repeated synchronisation may still do. It is not nothing: a channel
that gets another runtime in the course of a pass may become the oldest one with it, after others were given the model of the
oldest so far; a second pass lets these join its model, and only the third finds nothing to do.

### Novels

One action per statement or transaction. `NovelAssets` has the deletion of an asset beside the
runners of its jobs, and saves that bring a deleted row back; `NovelRender` two renders with
their lock, copies of shots and attempts, beside one other handler and a
composition; `NovelImages` two requests for candidates, a slot for one of them, and patches that select.

The goroutine of a render ignores the errors of its saves. `AttemptsTellWhatWasPaid` says what the attempts are worth nevertheless:
an attempt that failed cost nothing, one that is queued neither, unless a save of it failed (`lost`), and once its render has gone
on a paid one says succeeded, with the same exception. A render reads the approved shots before it takes the lock, so that it may queue a
shot that another has filmed meanwhile; such attempts are in `late`. All others together charge a shot no more often than it
became approved (`approvals`).

A patch of a candidate is a transaction of two statements: the first unselects the other candidates it sees, the second
saves the row whole. Its locks are left out, as they only delay other patches or make one of two fail. Two patches
leave two candidates selected in one case, which TLC found: the first has begun, the second brings back a candidate that was
deleted when the first looked, selects it and commits, and then the first saves its own. `missed` names the candidate that
came back, until the next selection, and `OneSelectedPerShot` is about the others.

## 3. Runs

| Run | Instance | Question |
|---|---|---|
| `commerce_queue` | 2 items, 2 batches, 2 workers, 2 attempts, credits for two items and a half | safety and action properties of the queue, and the refinement |
| `commerce_queue_live` | 2 items, 1 batch, 1 worker with 1 slot, 2 attempts, fairness | liveness, the concurrency bound |
| `commerce_execution` | 1 item, 2 attempts of 1 worker with 2 slots, both kinds of channel, stalls; an uploaded and a generated object with 2 clients, 2 cleanups, 1 stop; a batch of 2 items with 3 sessions of the database | what the executions of one item may do to it, success by the newest attempt only; stored objects; the row of a batch |
| `commerce_execution_late` | the same without stalls | violated: late work that stays visible |
| `image_queue` | 2 jobs of one user, 1 cancel request, 2 processes with a runner each, which are symmetric, 1 crash; 2 generations on 2 channels; an album of 2 pages with 3 requests | runners, Works, holds; failover; albums |
| `image_queue_live` | 2 users with a job each of one attempt, 1 runner, 1 cancel request, 2 crashes, restarts at any time | holds and credits, jobs end, and end once |
| `payments` | 2 orders, Alipay and virtual goods, 2 requests at a time, 4 in all, 1 adjustment | crediting, ended orders, the balance |
| `payments_late` | 1 Alipay order | violated: a late payment without credits |
| `video` | 2 videos and a soundtrack of one user, 1 crash; 3 calls of the assistant; 1 order per protocol; the centre with 2 administrators | videos, messages, protocols, the centre |
| `video_conversation` | 2 messages | violated: a message that stays pending |
| `platform` | accounts, studio, and the three parts of novels, each apart | what these five promise |
| `novel_shots` | 2 shots, 2 renders | violated: a shot that succeeded without a video |

**Why these bounds.** Two items let a batch be partly done and let one item be in
every state while the other is in any other; two batches let items of one be
retried, in a batch of their own, while the other goes on; two attempts give a first, a
retried and a last attempt, whose handlers may all be alive; two workers, or one
with two slots, give an expired lease a successor. Credits for two and a half
items make a submission that cannot be paid. `MaxActual` above `Price` makes the
settlement clip the cost, and 0 the full return. In the image queue two jobs of
one user share a balance, two users compete for fairness,
and one crash is enough to leave jobs, leases, spooled results and cancel requests
behind; two let a second start take up what the first passed over. Three sessions let two transactions of a batch overlap
while a third ends an item. `MaxAttempts` stands for `MaxExternalAttempts`, which is 3 in the image
queue; 2 has a first and a last attempt. Two generations on two channels with three
calls let one reset or cool the channel the other is using; three requests for an album are
two that generate and one that retries.

Two orders let one be reused or replaced while the other is paid, and four requests let an
order be created, paid, asked about and notified of, or two of these race with an
adjustment. JSAPI orders differ in their answers and are never reused; they take the instance beyond its time and are left
to the proofs, which cover all three methods. Two videos make the second wait, overlap or be
refused; credits for one and a half make the balance decide. Three calls with
two keys have a repetition and a conflict at once. Three configurations, six models, four providers and five channels are room for every edit and
what a synchronisation makes of it; edits stop before a synchronisation would lack a row (`Roomy`). Three users, of whom one is
deleted, and one code suffice for two requests that want the same phone. One object of each kind meets two clients, its
binding, its deletion and its cleanup. Two shots of three are approved, so that a render, an edit and a save of a deleted
row meet; two jobs paint one asset, or two. A mishap (`MaxMishaps`, `MaxDeaths`, `MaxStops`, `MaxErrors`,
`MaxCrashes`) is one, as two of them are seldom worse than the first and the second start;
`image_queue_live`, where the second start matters, has two.

**What the bounds leave out on purpose.** One case is outside of the passing runs not because it
holds; no document promises otherwise, so it is described here and is no run. `generation_queue.go:1089` puts a job back by its
id with no condition on status or token, so the second write of a recovery can return a
job to the queue that was claimed or ended since it was looked at. Two processes are needed for it, since a process that
is starting claims nothing itself.

* *Two starts at once*, which take two crashes: TLC finds `OneRunnerPerJob` and `NoBlindReplay` violated, and `HoldEndsWithJob`.
* *A cancel request beside a recovery in another process*, one of whose runners may go on: TLC finds
  `HoldEndsWithJob` and `JobEndsOnce` violated. The run `image_queue` has this case, and the four properties of the queue it checks hold in
  it; the two that do not are checked with one process, by `image_queue_live`.

**What the statements say of known shortfalls.** Two cases are inside of the runs, and the
properties state what they do.

* *Two jobs of one user with cancel requests.* Between the failing of the record by a cancel
  request and its own save the runner may restore the record and go on; it then
  settles from the reserved total of the user although the hold of its job was
  released (`generation_queue.go:361`), and the other job of the user can no longer be settled. `HoldsAreReserved` says
  that the reserved credits fall short by the price of such images exactly, and that every image is paid once.
* *A quick restart.* Recovery looks once, at start, and skips jobs whose lease is live. A
  container that is back within 90 s leaves its own jobs running until their user cancels them or it starts again later.
  `EveryJobEnds` requires the end of every job except of those a start passed over (`skipped`), as long as no later start takes them up.

**Deadlock** is not checked (`CHECK_DEADLOCK FALSE`) in any run: when all that was ordered has ended
and the bounded requests are used up, the system really stops. What must not stop is stated as liveness.

### Fairness

* Commerce queue: the poller claims, recovers and finalises in an endless loop
  (`ecommerce/worker.go`), and any worker may do so for any job; timers fire; a
  handler returns because every call it makes has a timeout; a request that has
  begun ends. A lease is only required to expire when no handler renews it. Users
  owe nothing, heartbeats may always fail, and workers need not crash.
* Image queue: timers fire (the deadline of thirty minutes, the lease of 90 s,
  renewed every 30 s), statements of a started request follow each other, a runner
  goes on, a process that is down comes back (`restart: unless-stopped` in
  `src/compose.yaml`). That the poller *claims* a job is not assumed: the deadline
  ends what waits too long. A process may be back at any moment after a crash, before or after the
  leases of its jobs have expired; nothing is assumed of the order.
* Videos: the next statement of a request or task that has begun is executed, or fails, since calls
  have timeouts; a request to a provider is repeated, and its context ends
  (`RequestTimeoutSeconds`). Providers owe nothing: a task of theirs may never end.

### What the violated runs show

* `commerce_execution_late`: `LateWorkIsDiscarded`. The worker adapter discards the
  Work of a result that comes after a cancellation, but only on the path of
  `Complete`. A handler whose heartbeat fails, or which ends as cancelled through
  `Queue.Cancel` or the recovery, leaves the Work behind, visible and free.
* `payments_late`: `CollectedIsCredited`. An order expires after a day, with its trade open at
  the provider. When it is paid then, the compare-and-set of the order finds nothing, which the code takes for a repeated
  notification: the payment record says paid, and no credits are issued.
* `video_conversation`: `NothingLeftPending`. The index on conversation and key covers both
  roles, and replies have the empty key: the second reply of a conversation is refused, and its message stays pending.
* `novel_shots`: `SucceededShotHasWork`. A failed video is reported by the provider without an
  error, and the render takes a missing error for success.

## 4. Proofs

The runs show a property on one instance. The theorems below hold for all values of
the constants: every finite set of items, every number of attempts, workers, orders, jobs, runners,
objects, shots or requests, every price and every bound.

| Theorem | Says |
|---|---|
| `Inductive` | `CommerceQueue`: `Spec => []IInv` |
| `RowsAlwaysAgree` | `[]RowsAgree`: from `JobsAgree`, `ClaimsNeverRollBack` and `DeletionIsSafe` |
| `TypeCorrect` | `[]TypeOK`; balances and reservations never become negative |
| `CancelIsKept` | `[]AcceptedCancelEndsCanceled` |
| `StepsAlwaysLegal` | `StepsAreLegal`: from `TransitionsAreLegal` (the tables that nothing consults are respected) and `EndedIsFinal` |
| `RefinesCreditHold` | `ImplementsCreditHold`: the queue implements the abstract ledger |
| `LedgerAlwaysAgrees` | `[]LedgerAgrees`: from `HoldsAreResolved`, `JournalIsComplete` and `ReservedIsBacked` |
| `PayTypesAlways` | `Payments`: `[]PayTypeOK`; the balance never becomes negative |
| `AlwaysToppedUpOnce` | `[]ToppedUpOnce`: credits once, and only for a trade that was paid |
| `AlwaysBalanced` | `[]BalanceIsJournal` |
| `OrdersEndOnce` | `OrderEndsOnce` |
| `ConcurrencyAlwaysRespected` | `CommerceQueue`: `[]ConcurrencyRespected` |
| `SuccessIsOfLeaseHolder` | `SuccessOnlyByLeaseHolder` |
| `BatchRowAlwaysHonest` | `BatchCounters`: `[]BatchRowIsHonest` |
| `WorksAlwaysMatch`, `AlwaysAskedWithCause` | `CommerceExecution`: `[]WorksMatchItems`, `AskedWithCause` |
| `ObjectsTypeCorrect`, `UsedObjectsAlwaysExist` | `CommerceObjects`: `[]ObjectsTypeOK`, `[]UsedObjectsExist` |
| `ImageTypesAlways`, `SlotsAlwaysRespected` | `ImageQueue`: `[]ImageTypeOK`, `[]ConcurrencyRespected`, with any number of processes |
| `ImageCreditsAddUp` | `[](CreditsAddUp /\ PaidFor)`, with any number of processes |
| `OneRunnerAlways`, `WorkAlwaysIffSettled`, `HoldsAlwaysAddUp` | with one process: `[]OneRunnerPerJob`, `[]WorkIffSettled`, `[]HoldsAddUp` |
| `JobsEndOnce`, `NoBlindReplayEver` | with one process: `JobEndsOnce`, `NoBlindReplay` |
| `JobsAlwaysAddUp` | with one process, any cancel requests and any number of jobs of a user: `[]JobsAddUp` |
| `AccountTypesAlways`, `RegistrationsAlwaysAddUp` | `Accounts`: `[]AccountsTypeOK`, `[]RegistrationsAddUp` |
| `StudioAlwaysSound` | `CommerceStudio`: `[]StudioSound` |
| `AssetTypesAlways`, `CancelledNeverPaints` | `NovelAssets`: `[]AssetsTypeOK`, `CancelledJobNeverPaints` |
| `AttemptsAlwaysTell` | `NovelRender`: `[]AttemptsTellWhatWasPaid` |
| `OneSelectedAlways` | `NovelImages`: `[]OneSelectedPerShot` |
| `PlatformTypesAlways` | these five together, as `MCPlatform` composes them: `[]PlatformTypesOK` |
| `VideosAlwaysAddUp` | `VideoTasks`: `[]VideosAddUp` |
| `MessagesAskedOnce`, `ProvidersAlwaysSound` | `VideoConversation`: `[]AskedOnce`; `VideoProviders`: `[]ProvidersSound` |
| `CenterAlwaysAgrees` | `ModelCenter`: `[]CenterAgrees` |
| `VideoTypesAlways` | these four together, as `MCVideoTasks` composes them: `[]VideoTypesOK` |
| `FailoverAlwaysSound` | `ImageFailover`: `[]FailoverSound` |
| `AlbumAlwaysSound` | `CoupleAlbums`: `[]AlbumSound` |

They rest on the assumptions of the modules: sizes, prices and bounds are numbers
(`CountsAssumption`, `MembersAssumption`, `SessionsAssumption`, `ExecutionAssumption`, `PaymentsAssumption`, `SizesAssumption`, `CleanupsAssumption`,
`AccountsAssumption`, `StudioAssumption`, `NovelAssetConstants`, `NovelRenderConstants`,
`NovelImagesConstants`, `VideoConstants`, `ConversationConstants`, `FailoverConstants`, `AlbumConstants`, `CenterAssumption`), at least one where the code refuses zero, the sets that are counted are finite (`ItemsAssumption`, the runners, the calls,
the renders, the videos and soundtracks, the generations and channels, the runtimes and seeds), a null is not an element (`NullsAssumption`, `WiringAssumption`), names of uploads
and of results differ (`ObjectNamesAssumption`: the code gives them different prefixes), and a job has an owner and a runner a process.
None limits a size.

Six theorems about the image queue assume `OneProcess`, that all runners are in one process. This is
no convenience: without it most of the statements are false, and section 3 says by which write of the code. `src/compose.yaml` has one service `app` without replicas,
so the hypothesis is how the program is deployed; the process may still crash, any number of times, and restart
with the jobs, leases and spooled results it left.

**The commerce queue.** None of the invariants is inductive alone. A claim
counts an attempt, so `TypeOK` needs that a waiting job has one left:
`QueueNeverPoisoned`. That needs `JobItemAgree`, because a retry is scheduled after a
look at the job and leaves the item waiting as well; `JobItemAgree` needs that a
failure retries only what nobody cancelled, `AcceptedCancelEndsCanceled`; and
`HoldResolvedWithItem` needs both to know that a release finds the hold open.
`IInv` is their conjunction with `DeletionStopsWork` and two facts about rows not yet
created: an absent batch carries no cancellation (`AbsentBatchUnmarked`), and an
absent item belongs to no batch (`AbsentItemUnbatched`).

`TypeStep` proves types once for all actions, from lemmas about
what each operator returns. `MarksStep` does so for the marks of batches and the
rows not yet created, and `RowsStep` for the agreement of rows, one action at a
time, from a lemma about each operator that writes rows (`CompleteRows`,
`DeadLetterRows`, `ScheduleRetryRows`, `CancelRowsRows`, ...). `IInvStep` joins
them; `EndedStep` and `LegalItem` show the two action properties from the same
invariant. The job half of `LegalTransitions` is the item half read through
`JobItemAgree`, before and after the step.

**The ledger.** `LedgerStep` maps every transaction to one of the three moves of
`CreditHold` or to a stutter: a created batch is `Hold`, a completion `Settle`, the
endings of one or several items `Release`, and the rest leaves the hold of every
item alone, since it moves items between live statuses at most. That a released or
settled hold was open comes from `IInv` (`LiveHoldOpen`). `CreditsStep` shows by
cases on the ledger operators that the journal grows by what the balance changes.

`ReservedBacksLiveItems` says that a reserved column is the price times the number
of live items, so its proof counts sets: a step that ends the items of `S` removes
from the live items of each batch those of `S`, and `PriceDifference` gives the
difference. It is not inductive with `IInv` alone: an order for a batch writes a new
reservation, and must not overwrite one that backs live items. `RInv` adds
`AbsentBatchEmpty`, that a batch not yet created has no items; `ReserveStep` and
`EmptyStep` preserve it, one action at a time.

**Payments.** `ToppedUpOnce` is not inductive: that a request which credits an order finds it
without a top-up depends on what the request has learned and on the rows it has locked. `PayInv` adds, for each request,
that it names an order (`Names`), that a request that settles knows of a paid trade (`Learned`; a trade never
becomes unpaid), that the order being credited is pending and no other request credits it (`Holds`),
and that a deduction can be afforded (`Affords`); and for the balance that, unless one was overtaken, every
holder of a read balance has read the present one (`Reads`). Most steps change one request and at most the status of orders that are
neither ended nor locked (`Spared`): `QuietStep` and `StillStep` show once that those preserve `PayInv`, and one lemma
per action shows that the action is of that kind. `SpendKeeps`, `AdjustedKeeps` and
`CreditKeeps` are about the three that write the balance. `OrdersEndOnce` comes from the same lemmas.

**Batches and handlers.** `CInv` says of every open transaction that it has written only items whose rows it holds
(`WritesItsOwn`), that it holds the balance of the user once it has counted, if it ends items, and the row
of the batch once it has written it (`CountsAlone`), and what it has counted: every item it saw ended has ended, and, if it ends items itself, it
saw every item that has (`SawTheTruth`). The last part is the argument. Between count and commit others may commit, but none that
ends an item, since it would hold the same balance; and those which move items that live can only make the count old, not
ahead. `Undisturbed` shows once that a statement of one session leaves what is known of another.
`ConcurrencyRespected` counts the handlers of a worker: a claim is guarded by the count, and no other step adds a handler.
`SuccessOnlyByLeaseHolder` is about a step and follows from `IInv` and the token that completion compares: the handler that
returns in the step in which the item succeeds is the one of the newest attempt.

**Executions.** `ExecInv` stands on `IInv` and has two parts. What holds whatever happens: an attempt that lives has its handler
(`LivesWithHandler`), and a handler that returns a result, and a settled item, has a Work (`RowsTell`). The rest holds
of an item until one of its executions outlives its lease (`OneExecution`): only the newest attempt has a handler
(`NewestOnly`); hence what an execution read of the record when it began is still so when it decides (`AttemptSound`),
although it looks only once; and a request whose outcome is unknown has left a record marked as started on a channel without keys
(`RecordSound`), while nobody stands before the next request. The queue's own steps touch no record (`QueueQuiet`),
a claim starts the newest attempt (`ClaimKeeps`), and each step of an execution is proved for its attempt alone (`ExecuteKeeps`).

**Stored objects.** That a used object exists is not inductive: a cleanup that has passed its check deletes
without looking again. `OInv` adds what each pending step relies on: nothing refers to an object whose guard is not active (`UsesActive`), a cleanup or a
deletion under way holds the guard of its object (`CleaningSound`, `UploadSound`), whoever has seen an
upload can rely on it until a guard says otherwise (`UploadSound`), and no cleanup has the row of a result that is
still being stored (`ResultSound`).

**The image queue.** Three layers. `TInv` has the types, where each runner stands for its job
(`Placed`), the leases that crashed runners left (`OrphansBounded`), which the bound on
concurrency counts as well, and what verdict a runner holds (`VerdictPlaced`). `PaidFor` relates holds to the credits
of the owner; with it the sum of the credits is preserved by every step, with any number of processes. `PInv` is about
one process: a runner's job has its token or has ended (`HeldBy`), an absent job has no marks (`Fresh`), while the process is
down or recovers nobody works (`Quiet`), `OneRunnerPerJob`, and then `PaidOnce`, `HoldEndsWithJob` and `WorkIffSettled`. A step touches one job, and what
it may do to it is one of a few moves (`Move`); the actions are classed once, and each part of `PInv` is preserved by each
move. `NInv` adds for `JobsAddUp` what remains true when users cancel: the mark is set before a request ends the job or fails its
record; only the runner of a cancelled job may no longer have its token; the record of a job that was paid and did not succeed
has succeeded; and the reserved credits of a user, with the price of the images that came after the cancellation of their jobs, are the
price of the open holds. `Cancelled` shows that no step takes the mark back;
`Unanswered`, for `NoBlindReplay`, says that the record of a job with an unanswered request is marked as started,
that nothing is spooled, and that no runner at this job stands before the request.

**Accounts.** `AInv` has, beside types, that the bonus was credited once and that no two rows share a phone, those
marked as deleted included (`UsersSound`). Uniqueness comes from the index
at the write, not from the check before it, and the proof shows that the index is enough at each of the writes.
`TriesBounded` bounds the entries of a code and the entries that requests are about to count together, since a
request counts after it has looked. `RedeemedMade`, that only users that were made have redeemed, lets
`InvitesAddUp` count.

**The studio.** `StudioInv` has, beside types, that the default
SKU is there and serves (`DefaultIsThere`), that the submission under way has an unspent quotation and a free key (`Submitting`), what a quotation, the submission that spends it and the batch say of each other (`QuotesTell`,
`SubmissionHolds`, `SpentOnce`), that the active specification was confirmed, and what a job of the analysis tells
(`AnalysisTells`). The steps fall into three groups by the rows they write. The submission holds the row of the
project, and this keeps its SKUs between check and write (`HoldsItsSkus`).

**Novels.** `AssetInv` ties the status of each painting job to the place of its goroutine and to what it has painted
(`JobPaints`), and a recorded portrait to the one handler that may start it (`EditorsSound`); a handler saves rows of
assets it has read earlier, but jobs only by conditional updates. `ReelInv` does so for
renders: `Rolling` says for each render what its attempts and shots are at its place, `Telling` what the attempts say of it unless a
save of them was lost, `OneInSlot` that
the slot admits one, `PaidUp` that the credits follow the attempts. `ApprovalsSpent` counts the renders that queued a shot while it was approved
(`InTime`): each used up one approval. `ShotInv` adds to `OneSelectedPerShot` that
whoever is about to select a candidate has unselected the others, but for those that are `missed` (`Seen`), and that
nobody holds a row that was not yet written (`UnwrittenUnread`). `PlatformInv` is the conjunction of the invariants of all five parts with
`VersionsCounted`, that the version of a product moves with the changes alone.

**Videos.** `TaskSound` says what the task of a video knows of its record, of the audit row and of the record it
holds in memory at each place: before the transaction that stores the work nothing calls the video made; the
memory may be ahead of the row after that transaction failed, but then only `Fail` reads it, and writes neither
`succeeded` nor a price. From it a failed video costs nothing and the history is never ahead. `LockHeld` says that whoever stands
between the lock and its release has it alone. A step of a task that makes nothing is a `QuietMove`; the two that pay
add one element to a set and take its price from the balance (`VideoPaidFor`, `TrackPaidFor`).

**The assistant and the providers of videos.** For messages, a handler that inserted the row of its key finds it as it was until it
writes the answer (`KnowsItsMessage`), since the index admits one insertion; so the key is asked once. For
providers, `Follows` relates the call to the task at the provider: who polls follows a task that was taken, who fetches one
that was made. `WordsEnd` shows that the words of each protocol mean the end they stand for, and `PickedIsVideo` that the address that is
fetched is the video, unless the answer is one of Wuyin with a cover in which no address looks like a video's.

**The failover.** `ShotSound` is about the row of one generation, and no other step touches it: where an outcome is unclear, the
generation stands before the decision and its channel takes no key; a row that failed has used up its calls or channels.
`SpoolTyped` counts, with the files of the spool, the generations that have measured it and are about to write (`Writers`).

**Albums.** `AlbumSound` says of each page what it shows and how often it was paid, but the steps are those of goroutines that hold
lists of pages, read before another request deleted or restarted them. `AlbumInv` therefore has two levels. `AlbumRowsInv`
holds whatever happens: pages and pictures agree (`RowsSound`), and every picture still to be painted is due to one request
(`AsksSound`); so a page never shows a work of another number. The rest holds until one request writes over what it had not read
(`overtaken`): before the album is launched nothing is painted (`NotStarted`); afterwards a page that some request owes is
under way and unpaid, but for the picture just painted, and no two requests owe one page (`Started`), which is what
paying once needs; and while nothing erred, every page that is not done is owed and every paid picture is shown or about to be
(`Faultless`), from which the last to finish finds what the pages add up to.

**The model centre.** A synchronisation is a fold over the configurations, and what it yields for every number of them is
an induction over data. It is done without an induction rule: `CountsUp` says that a set of numbers with 0, and with the
successor of each it has, lacks no number, because the least one it lacked would contradict that
(`NatLessThanWellFounded`). From it follow `StepByStep`, that what is defined step by step exists, and the lemmas that carry a property over all steps.
`SyncIs` reduces the step of one configuration to four cases: the row is not live, its channel was deleted, its provider was
deleted, or a channel is placed. `CenterInv` says of the tables that they are sound, that no configuration has two channels
(`OneEach`), that the live channels without a live provider are among the `strays` (`Orphans`), and, once
synchronised, that every configuration has what it asks for (`Settled`), so that its channel is no stray any more; of an edit, that the row
it loaded is one that was made, of the configuration it still has, also after the channel was checked and its configuration rewritten
(`EditSound`), which is why saving it after somebody
else deleted it makes no second channel. `SyncLeavesSettled` is the step that
settling needs: what a later configuration does undoes nothing of an earlier one. In a settled centre whose runtimes are not
shared, the step of a configuration is a join with the model of the oldest channel of its runtime (`JoinStep`); after all
of them every channel is with that model (`SecondPass`), and the pass after finds each one there (`QuietSettles`).

**Types of the videos.** `VideoPartsInv`, for `VideoTypesAlways`, is the conjunction of the invariants of the four parts with two facts
none of them needs: no window of requests and no number of crashes leaves its bound (`LimitsTyped`), and an order was
told only lists of addresses that its provider tells (`ToldTyped`).

**Only model-checked.** All invariants and all action properties of the passing runs are stated by theorems, some of those of the image queue under the
hypotheses above. The runs alone show:

* liveness (`ItemsAreServed`, `DeletionCompletes`, `EveryJobEnds`, `EverythingEnds`) and with it `ENABLED`, which the prover does not handle;
* the image queue with several processes, beyond types, concurrency and the sum of the credits: on its instance, of one crash, more
  holds, and section 3 says what does not;
* the four properties that are violated.

The histories of section 2 are part of the statements that are proved, as they are of those that are checked.

## 5. What is not modelled, and why

* **Row locks inside transactions.** A transaction of the commerce queue is one action, except for the counters of a batch, whose
  statements `BatchCounters` has one by one. Lock orders differ between cancellation
  and completion, so that sessions may wait in a circle; the database ends one of them, which is a
  `Rollback` there and a request or final transition that fails in `CommerceQueue`.
* **Stalled runners of the image queue.** Live runners renew their leases in time. A sweep over expired jobs that stops at
  the error of one row is one action per job here.
* **Data.** Prompts, layouts, references, file contents, error texts, prices of
  single models, signatures and amounts of payments, durations and presets of videos.
* **Parts of the modelled files**: pausing a worker and reclaiming a named job
  of the commerce queue; the limit per provider, the capacity of the
  whole queue and expired idempotency keys of the image queue; direct synchronous
  generation; invoices; captchas and the limits on sending codes; quotas of storage; the split of a novel into
  episodes and its storyboard grids; several processes for videos and novels, whose locks live in one.
* **Components** listed as `not_modelled` in `PROJECT.json`, each with its reason: pure input and output,
  transformations of data, edits of single rows, tools that an operator runs alone, clients.

## 6. Plan

1. Done: the commerce queue with its ledger, refinement and proofs; executions; studio and objects; the
   image queue, failover and albums; payments with their proofs; accounts; videos, the assistant and
   the protocols; the model centre; novels.
2. Done: theorems for stored objects, accounts, the studio, the three parts of novels, and
   what was left of the commerce queue.
3. Done: `ImageQueueProofs`, types and credits with any number of processes, holds, Works and endings with one.
4. Done: `MediaProofs`, for videos, the assistant, the protocols and the failover.
5. Done: `AlbumSound` of `CoupleAlbums`, whose invariant says for every page who is about to paint it; `WorksMatchItems` of
   `CommerceExecution`, on top of `IInv`; `CenterProofs`, with inductions over tables of any size; the types of the composed runs.
6. Done: `BatchCounters`, the transactions of one batch in single statements with row locks, and the proof that its row is honest.
7. Open: the reports of commerce, which read what the queue and the studio write.

## 7. Running it

    tlc -config MCCommerceQueue.cfg MCCommerceQueue.tla
    tlapm CommerceQueueProofs.tla
    tlapm CommerceBatchProofs.tla
    tlapm CommerceObjectsProofs.tla
    tlapm ImageQueueProofs.tla
    tlapm PaymentsProofs.tla
    tlapm PlatformProofs.tla
    tlapm CenterProofs.tla
    tlapm MediaProofs.tla

`PROJECT.json` maps every definition to the lines it models and every property to a
mutant that violates it.
