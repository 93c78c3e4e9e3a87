------------------------------ MODULE VideoTasks ------------------------------
(***************************************************************************)
(* Video generation for the users of the workspace.  A request is checked, *)
(* takes the user's lock, writes a generation record with its audit row    *)
(* and starts a task: the task submits the video to the provider, polls    *)
(* until it is done, and stores the work and charges the credits in one    *)
(* transaction.  The task keeps the record in memory and saves it whole;   *)
(* every statement below is a step of its own, and the process may die     *)
(* between any two.  Soundtracks for a finished video are made, without    *)
(* the lock, from the same balance.                                        *)
(***************************************************************************)
EXTENDS Integers, FiniteSets, FiniteSetsExt

CONSTANTS
    Users,          \* the users of the workspace
    Jobs,           \* one per request for a video
    Tracks,         \* one per request for a soundtrack
    OwnerOf,        \* the user of each job
    Ark,            \* the jobs for a model of Ark, whose readiness is kept
    Cost,           \* the credits of a video
    TrackCost,      \* soundtrackGenerationCredits
    InitialCredits, \* the balance of a user at the start
    MaxRequests,    \* RateLimitMaxRequests, requests in one window
    MaxCrashes      \* bound: how often the process dies

ASSUME VideoConstants ==
    /\ OwnerOf \in [Jobs -> Users] /\ Ark \subseteq Jobs
    /\ IsFiniteSet(Jobs) /\ IsFiniteSet(Tracks) /\ Jobs # {} /\ Jobs \cap Tracks = {}
    /\ {Cost, TrackCost, InitialCredits, MaxRequests, MaxCrashes} \subseteq Nat
    /\ TrackCost > 0

VARIABLES
    row,        \* generation_records
    audit,      \* video_generation_records, one row per generation record
    mem,        \* the record as the task holds it
    pc,         \* where the request or the task of a job stands
    lock,       \* concurrencyLimiter: the users with a running task
    works,      \* the works of category video, by job
    charges,    \* rows of the credit journal, by job or track
    balance,    \* credit_balances
    ready,      \* the readiness of the Ark model
    recent,     \* rateLimiter: requests of the current window
    track,      \* the soundtracks: where each stands and its video
    crashes

rows    == <<row, audit, mem, works>>
credits == <<charges, balance>>
guards  == <<lock, ready, recent>>
vars    == <<row, audit, mem, pc, lock, works, charges, balance, ready, recent,
             track, crashes>>

Statuses == {"none", "queued", "running", "succeeded", "failed"}
Row      == [status : Statuses, task : BOOLEAN, work : BOOLEAN, paid : BOOLEAN]
NoRow    == [status |-> "none", task |-> FALSE, work |-> FALSE, paid |-> FALSE]
Queued   == [NoRow EXCEPT !.status = "queued"]

Active(r)  == r.status \in {"queued", "running"}
Waiting    == {"new", "prepared", "locked"}
Stages     == {"start", "mark", "submit", "note", "noteAudit", "poll", "persist",
               "fail", "failAudit", "release"}
Over       == {"done", "refused", "lost"}
Live(j)    == pc[j] \in Stages
NoTrack    == [pc |-> "new", of |-> CHOOSE j \in Jobs : TRUE]

Init ==
    /\ row = [j \in Jobs |-> NoRow]
    /\ audit = [j \in Jobs |-> NoRow]
    /\ mem = [j \in Jobs |-> NoRow]
    /\ pc = [j \in Jobs |-> "new"]
    /\ lock = {} /\ works = {}
    /\ charges = [x \in Jobs \cup Tracks |-> 0]
    /\ balance = [u \in Users |-> InitialCredits]
    /\ ready = TRUE
    /\ recent = [u \in Users |-> 0]
    /\ track = [t \in Tracks |-> NoTrack]
    /\ crashes = 0

Goto(j, s) == pc' = [pc EXCEPT ![j] = s]

-----------------------------------------------------------------------------
(* The request.  The balance is compared here and read again, with the      *)
(* charge, only when the video is there.                                    *)
(* Mutant: one request too many.                                            *)
AllowedOneMore(u) == recent[u] <= MaxRequests

Allowed(u) == recent[u] < MaxRequests

Refused(j) ==
    \/ j \in Ark /\ ~ready
    \/ balance[OwnerOf[j]] < Cost

Prepare(j) ==
    LET u == OwnerOf[j]
    IN  /\ pc[j] = "new"
        /\ Goto(j, IF Refused(j) \/ ~Allowed(u) THEN "refused" ELSE "prepared")
        /\ recent' = IF Refused(j) \/ ~Allowed(u) THEN recent
                     ELSE [recent EXCEPT ![u] = @ + 1]
        /\ UNCHANGED <<rows, credits, lock, ready, track, crashes>>

(* The window of the rate limiter moves on.                                 *)
WindowPasses(u) ==
    /\ recent[u] > 0
    /\ recent' = [recent EXCEPT ![u] = 0]
    /\ UNCHANGED <<rows, credits, pc, lock, ready, track, crashes>>

(* Mutant: the lock is taken although somebody holds it.                    *)
TryAcquireAnyway(j) ==
    /\ pc[j] = "prepared"
    /\ Goto(j, "locked") /\ lock' = lock \cup {OwnerOf[j]}
    /\ UNCHANGED <<rows, credits, ready, recent, track, crashes>>

TryAcquire(j) ==
    /\ pc[j] = "prepared"
    /\ IF OwnerOf[j] \in lock
       THEN Goto(j, "refused") /\ UNCHANGED lock
       ELSE Goto(j, "locked") /\ lock' = lock \cup {OwnerOf[j]}
    /\ UNCHANGED <<rows, credits, ready, recent, track, crashes>>

(* One transaction writes the record and its audit row; when it fails the   *)
(* lock is given back.                                                      *)
Create(j) ==
    /\ pc[j] = "locked"
    /\ \/ /\ row' = [row EXCEPT ![j] = Queued]
          /\ audit' = [audit EXCEPT ![j] = Queued]
          /\ mem' = [mem EXCEPT ![j] = Queued]
          /\ Goto(j, "start") /\ UNCHANGED lock
       \/ /\ lock' = lock \ {OwnerOf[j]}
          /\ Goto(j, "refused") /\ UNCHANGED <<row, audit, mem>>
    /\ UNCHANGED <<works, credits, ready, recent, track, crashes>>

-----------------------------------------------------------------------------
(* The task.                                                                *)
SaveRow(j, r, next) ==
    /\ mem' = [mem EXCEPT ![j] = r]
    /\ \/ row' = [row EXCEPT ![j] = r] /\ Goto(j, next)
       \/ UNCHANGED row /\ Goto(j, "fail")
    /\ UNCHANGED <<audit, works, credits, guards, track, crashes>>

SyncAudit(j, next) ==
    /\ \/ audit' = [audit EXCEPT ![j] = mem[j]] /\ Goto(j, next)
       \/ UNCHANGED audit /\ Goto(j, "fail")
    /\ UNCHANGED <<row, mem, works, credits, guards, track, crashes>>

Start(j) == pc[j] = "start" /\ SaveRow(j, [mem[j] EXCEPT !.status = "running"], "mark")
Mark(j)  == pc[j] = "mark" /\ SyncAudit(j, "submit")

(* The provider takes the video, or refuses it; a model of Ark that cannot  *)
(* make videos is put out of use for everybody.                             *)
Downgrade(j) ==
    \/ UNCHANGED ready
    \/ j \in Ark /\ ready' = FALSE

(* Mutant: the task waits for a model that is out of use.                   *)
SubmitWhenReady(j) ==
    /\ pc[j] = "submit" /\ (j \in Ark => ready)
    /\ \/ Goto(j, "note") /\ UNCHANGED ready
       \/ Goto(j, "fail") /\ Downgrade(j)
    /\ UNCHANGED <<rows, credits, lock, recent, track, crashes>>

Submit(j) ==
    /\ pc[j] = "submit"
    /\ \/ Goto(j, "note") /\ UNCHANGED ready
       \/ Goto(j, "fail") /\ Downgrade(j)
    /\ UNCHANGED <<rows, credits, lock, recent, track, crashes>>

Note(j)      == pc[j] = "note" /\ SaveRow(j, [mem[j] EXCEPT !.task = TRUE], "noteAudit")
NoteAudit(j) == pc[j] = "noteAudit" /\ SyncAudit(j, "poll")

(* The provider answers within RequestTimeoutSeconds or the context ends:   *)
(* a video that is decoded and stored, or a failure.                        *)
Poll(j) ==
    /\ pc[j] = "poll"
    /\ \/ Goto(j, "persist") /\ UNCHANGED ready
       \/ Goto(j, "fail") /\ Downgrade(j)
    /\ UNCHANGED <<rows, credits, lock, recent, track, crashes>>

(* deductGenerationCredits: one conditional update of the balance.          *)
Deducts(u, x, c) ==
    /\ balance[u] >= c
    /\ balance' = [balance EXCEPT ![u] = @ - c]
    /\ charges' = [charges EXCEPT ![x] = @ + 1]

Finished(r) == [r EXCEPT !.status = "succeeded", !.work = TRUE, !.paid = TRUE]

(* One transaction: the work, the charge, its row in the journal, the       *)
(* record and the audit row.  The record in memory is changed inside it, so *)
(* a transaction that fails at its end leaves the memory ahead of the row.  *)
PersistWork(j) ==
    /\ pc[j] = "persist"
    /\ \/ /\ Deducts(OwnerOf[j], j, Cost)
          /\ works' = works \cup {j}
          /\ row' = [row EXCEPT ![j] = Finished(mem[j])]
          /\ audit' = [audit EXCEPT ![j] = Finished(mem[j])]
          /\ mem' = [mem EXCEPT ![j] = Finished(mem[j])]
          /\ Goto(j, "release")
       \/ /\ Goto(j, "fail")
          /\ \/ UNCHANGED mem
             \/ balance[OwnerOf[j]] >= Cost /\ mem' = [mem EXCEPT ![j] = Finished(mem[j])]
          /\ UNCHANGED <<row, audit, works, credits>>
    /\ UNCHANGED <<guards, track, crashes>>

(* failGenerationRecord reads the row again and leaves an ended one alone;  *)
(* the work the memory names is not cleared.                                *)
Failed(r) == [r EXCEPT !.status = "failed", !.paid = FALSE]

Fail(j) ==
    /\ pc[j] = "fail"
    /\ IF Active(row[j])
       THEN /\ mem' = [mem EXCEPT ![j] = Failed(@)]
            /\ row' \in {row, [row EXCEPT ![j] = Failed(mem[j])]}
       ELSE mem' = [mem EXCEPT ![j] = row[j]] /\ UNCHANGED row
    /\ Goto(j, "failAudit")
    /\ UNCHANGED <<audit, works, credits, guards, track, crashes>>

FailAudit(j) ==
    /\ pc[j] = "failAudit"
    /\ audit' \in {audit, [audit EXCEPT ![j] = mem[j]]}
    /\ Goto(j, "release")
    /\ UNCHANGED <<row, mem, works, credits, guards, track, crashes>>

Release(j) ==
    /\ pc[j] = "release"
    /\ lock' = lock \ {OwnerOf[j]}
    /\ Goto(j, "done")
    /\ UNCHANGED <<rows, credits, ready, recent, track, crashes>>

-----------------------------------------------------------------------------
(* A soundtrack: the balance is compared, the provider asked, and audio     *)
(* work, soundtrack and charge written in one transaction; an upload costs  *)
(* nothing.                                                                 *)
AskTrack(t, j) ==
    /\ track[t].pc = "new" /\ j \in works
    /\ track' = [track EXCEPT ![t] =
           [pc |-> IF balance[OwnerOf[j]] < TrackCost THEN "refused" ELSE "asked", of |-> j]]
    /\ UNCHANGED <<rows, credits, guards, pc, crashes>>

PersistTrack(t) ==
    LET u == OwnerOf[track[t].of]
    IN  /\ track[t].pc = "asked"
        /\ \/ Deducts(u, t, TrackCost) /\ track' = [track EXCEPT ![t].pc = "made"]
           \/ track' = [track EXCEPT ![t].pc = "refused"] /\ UNCHANGED credits
        /\ UNCHANGED <<rows, guards, pc, crashes>>

UploadTrack(t, j) ==
    /\ track[t].pc = "new" /\ j \in works
    /\ track' = [track EXCEPT ![t] = [pc |-> "uploaded", of |-> j]]
    /\ UNCHANGED <<rows, credits, guards, pc, crashes>>

DeleteWork(j) ==
    /\ j \in works
    /\ works' = works \ {j}
    /\ UNCHANGED <<row, audit, mem, pc, credits, guards, track, crashes>>

(* The administrator has tried the model again.                             *)
UpdateReadiness ==
    /\ ready' \in BOOLEAN \ {ready}
    /\ UNCHANGED <<rows, credits, pc, lock, recent, track, crashes>>

(* Requests and tasks die with the process, its locks and counters too; the *)
(* rows stay as they are and nothing takes a video up again.                *)
Crash ==
    /\ crashes < MaxCrashes
    /\ crashes' = crashes + 1
    /\ pc' = [j \in Jobs |->
           IF Live(j) THEN "lost" ELSE IF pc[j] \in {"prepared", "locked"} THEN "refused" ELSE pc[j]]
    /\ track' = [t \in Tracks |->
           IF track[t].pc = "asked" THEN [track[t] EXCEPT !.pc = "refused"] ELSE track[t]]
    /\ lock' = {} /\ recent' = [u \in Users |-> 0]
    /\ UNCHANGED <<rows, credits, ready>>

Step(j) ==
    \/ TryAcquire(j) \/ Create(j)
    \/ Start(j) \/ Mark(j) \/ Submit(j) \/ Note(j) \/ NoteAudit(j) \/ Poll(j)
    \/ PersistWork(j) \/ Fail(j) \/ FailAudit(j) \/ Release(j)

Next ==
    \/ \E j \in Jobs : Prepare(j) \/ Step(j) \/ DeleteWork(j)
    \/ \E t \in Tracks : PersistTrack(t) \/ \E j \in Jobs : AskTrack(t, j) \/ UploadTrack(t, j)
    \/ \E u \in Users : WindowPasses(u)
    \/ UpdateReadiness \/ Crash

(* The scheduler runs every goroutine, and a poll ends with its context.    *)
Fairness == \A j \in Jobs : WF_vars(Step(j))

Spec == Init /\ [][Next]_vars /\ Fairness

-----------------------------------------------------------------------------
(* What the history of the user shows of a video (handleListUserVideo-      *)
(* Generations): the audit row, with the price only when it was paid.       *)
Shown(j) == [status |-> audit[j].status, price |-> IF audit[j].paid THEN Cost ELSE 0]

VideoTypeOK ==
    /\ {row, audit, mem} \subseteq [Jobs -> Row]
    /\ pc \in [Jobs -> Waiting \cup Stages \cup Over]
    /\ lock \subseteq Users /\ works \subseteq Jobs
    /\ charges \in [Jobs \cup Tracks -> Nat] /\ balance \in [Users -> Nat]
    /\ ready \in BOOLEAN /\ recent \in [Users -> 0..MaxRequests]
    /\ track \in [Tracks -> [pc : {"new", "asked", "made", "uploaded", "refused"}, of : Jobs]]
    /\ crashes \in 0..MaxCrashes

(* A user pays exactly for what was made: every unit missing from the       *)
(* balance is the price of one finished video or one made soundtrack, each  *)
(* charged once, whatever failed or died on the way (persistVideoWork,      *)
(* persistVideoSoundtrack, deductGenerationCredits).                        *)
Spent(u) ==
    Cost * Cardinality({j \in Jobs : OwnerOf[j] = u /\ row[j].status = "succeeded"})
    + TrackCost * Cardinality({t \in Tracks : OwnerOf[track[t].of] = u /\ track[t].pc = "made"})

PaidForWhatWasMade ==
    /\ \A u \in Users : balance[u] + Spent(u) = InitialCredits
    /\ \A j \in Jobs : charges[j] = IF row[j].status = "succeeded" THEN 1 ELSE 0
    /\ \A t \in Tracks : charges[t] = IF track[t].pc = "made" THEN 1 ELSE 0

(* The user's history never shows a video as made or paid that the record   *)
(* does not: audit rows are written apart from the records, from memory     *)
(* that may be ahead of them (syncVideoGenerationAuditRecord).              *)
HistoryNeverAhead ==
    \A j \in Jobs :
        /\ Shown(j).status = "succeeded" => row[j].status = "succeeded"
        /\ Shown(j).price > 0 => charges[j] = 1

(* A user never has two videos under way, although requests overlap and the *)
(* lock lives in memory and is freed by whoever ends (ConcurrencyLimiter).  *)
OneVideoPerUser ==
    \A i, j \in Jobs : i # j /\ OwnerOf[i] = OwnerOf[j] => ~(Live(i) /\ Live(j))

(* What users pay, see and have under way agree with the records.           *)
VideosAddUp == PaidForWhatWasMade /\ HistoryNeverAhead /\ OneVideoPerUser

(* A task that its process lets finish ends its request, and frees the      *)
(* lock of its user for the next one.                                       *)
EveryTaskEnds == \A j \in Jobs : pc[j] \in {"prepared", "locked"} \cup Stages ~> pc[j] \in Over
=============================================================================
