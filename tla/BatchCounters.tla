--------------------------- MODULE BatchCounters ---------------------------
(***************************************************************************)
(* The row of one batch: its status, its counters and finished_at.         *)
(*                                                                         *)
(* Every transaction that moves an item ends with refreshBatchCounters: it *)
(* reads the items of the batch and then writes what it has counted into   *)
(* the row of the batch, which it has not locked before.  CommerceQueue,   *)
(* where a transaction is one step, leaves these columns out, and nothing  *)
(* decides by them.  Here a transaction is a sequence of statements under  *)
(* READ COMMITTED: a row is locked from the first write, or SELECT FOR     *)
(* UPDATE, to the end of the transaction; a statement waits for the rows   *)
(* it locks; a read sees what is committed when it starts, and what its    *)
(* own transaction has written.                                            *)
(*                                                                         *)
(* Source: src/internal/app/ecommerce/{batches,queue,service}.go and       *)
(* src/internal/app/ecommerce_credit_adapter.go.  An item and its job      *)
(* have one status here: every transaction writes both before it ends, see *)
(* JobItemAgree.  Transactions that only mark rows, or extend a lease,     *)
(* write no status and no counter and are left out, and so is the lock on  *)
(* the project, which only CancelBatch and the deletion take.              *)
(***************************************************************************)
EXTENDS CommerceStates, Integers, FiniteSets

CONSTANTS
    Members,   \* the items of the batch
    Sessions,  \* connections that run one transaction after another
    NoSession

ASSUME MembersAssumption == IsFiniteSet(Members) /\ Members # {}
ASSUME SessionsAssumption == NoSession \notin Sessions

VARIABLES
    member,       \* committed status of each item
    row,          \* committed row of the batch
    jobLock, itemLock, balanceLock, batchLock,  \* who holds which row
    session       \* the transaction of each connection

locks == <<jobLock, itemLock, balanceLock, batchLock>>
counterVars == <<member, row, locks, session>>

\* Kinds of transaction: Claim; completion, failure, retry and recovery of a leased job;
\* CancelItem; CancelBatch; RequestProjectDeletion.
Kinds == {"claim", "leased", "cancel_item", "cancel_batch", "delete"}

\* Places: locking jobs or items; about to write an item; having written one; having
\* counted; having written the row of the batch for the last time.
Places == {"idle", "jobs", "items", "work", "written", "counted", "done"}

Nothing == [at |-> "idle", kind |-> "claim", part |-> {}, to |-> "running", wrote |-> {},
            seen |-> [m \in Members |-> "queued"]]

Transaction ==
    [at : Places, kind : Kinds,
     part : SUBSET Members,   \* the items it is to write
     to : ItemStatus,         \* the status it writes
     wrote : SUBSET Members,  \* the items it has written
     seen : [Members -> ItemStatus]]  \* what refreshBatchCounters has read

Number(st, x) == Cardinality({m \in Members : st[m] = x})
AllAre(st, S) == \A m \in Members : st[m] \in S

\* The status of the batch over the statuses `st'.
BatchStatusOf(st) ==
    IF AllAre(st, Terminal)
    THEN IF AllAre(st, {"succeeded"}) THEN "succeeded"
         ELSE IF AllAre(st, {"canceled"}) THEN "canceled"
         ELSE IF \E m \in Members : st[m] = "succeeded" THEN "partial_succeeded"
         ELSE "failed"
    ELSE IF AllAre(st, {"queued"}) THEN "queued" ELSE "running"

\* What refreshBatchCounters writes; finished_at is set and never cleared.
Recount(st) == [status   |-> BatchStatusOf(st),
                counts   |-> [x \in ItemStatus |-> Number(st, x)],
                finished |-> AllAre(st, Terminal)]

BatchCounts == [status : BatchStatus, counts : [ItemStatus -> Nat], finished : BOOLEAN]

\* SubmitBatch makes batch, items, jobs and counters in one transaction that nobody
\* sees before it ends.
CountersInit ==
    /\ member = [m \in Members |-> "queued"]
    /\ row = Recount(member)
    /\ jobLock = [m \in Members |-> NoSession]
    /\ itemLock = [m \in Members |-> NoSession]
    /\ balanceLock = NoSession
    /\ batchLock = NoSession
    /\ session = [s \in Sessions |-> Nothing]

-----------------------------------------------------------------------------
\* Row lock l is free for s: a statement of another session would have to wait.
FreeFor(s, l) == l \in {NoSession, s}

Becomes(s, at) == session' = [session EXCEPT ![s].at = at]
Starts(s, t) == session[s].at = "idle" /\ session' = [session EXCEPT ![s] = t]

\* Claim: the ids are read with FOR UPDATE SKIP LOCKED.
BeginClaim(s, S) ==
    /\ S # {} /\ \A m \in S : member[m] \in Waiting /\ jobLock[m] = NoSession
    /\ Starts(s, [Nothing EXCEPT !.at = "work", !.part = S])
    /\ jobLock' = [m \in Members |-> IF m \in S THEN s ELSE jobLock[m]]
    /\ UNCHANGED <<member, row, itemLock, balanceLock, batchLock>>

\* Complete, Fail, Cancel and RecoverExpired lock the row of a running job first.
BeginLeased(s, m, to) ==
    /\ member[m] = "running" /\ FreeFor(s, jobLock[m])
    /\ to \in Terminal \union {"retrying"}
    /\ Starts(s, [Nothing EXCEPT !.at = "work", !.kind = "leased", !.part = {m}, !.to = to])
    /\ jobLock' = [jobLock EXCEPT ![m] = s]
    /\ UNCHANGED <<member, row, itemLock, balanceLock, batchLock>>

\* CancelItem of a waiting item begins with the conditional update of the item.
BeginCancelItem(s, m) ==
    /\ member[m] \in Waiting /\ FreeFor(s, itemLock[m])
    /\ Starts(s, [Nothing EXCEPT !.at = "written", !.kind = "cancel_item", !.part = {m},
                                 !.to = "canceled", !.wrote = {m}])
    /\ itemLock' = [itemLock EXCEPT ![m] = s]
    /\ UNCHANGED <<member, row, jobLock, balanceLock, batchLock>>

\* CancelBatch locks the batch, then its live jobs and its live items.
BeginCancelBatch(s) ==
    /\ FreeFor(s, batchLock)
    /\ Starts(s, [Nothing EXCEPT !.at = "jobs", !.kind = "cancel_batch", !.to = "canceled"])
    /\ batchLock' = s
    /\ UNCHANGED <<member, row, jobLock, itemLock, balanceLock>>

\* RequestProjectDeletion locks the live jobs.
BeginDeletion(s) ==
    /\ Starts(s, [Nothing EXCEPT !.at = "jobs", !.kind = "delete", !.to = "canceled"])
    /\ UNCHANGED <<member, row, locks>>

LiveMembers == {m \in Members : member[m] \in Live}
WaitingMembers == {m \in Members : member[m] \in Waiting}

\* A SELECT FOR UPDATE locks one live row after the other, and waits for each ...
LockJob(s, m) ==
    /\ session[s].at = "jobs" /\ member[m] \in Live /\ jobLock[m] = NoSession
    /\ jobLock' = [jobLock EXCEPT ![m] = s]
    /\ UNCHANGED <<member, row, itemLock, balanceLock, batchLock, session>>

LockItem(s, m) ==
    /\ session[s].at = "items" /\ member[m] \in Live /\ itemLock[m] = NoSession
    /\ itemLock' = [itemLock EXCEPT ![m] = s]
    /\ UNCHANGED <<member, row, jobLock, balanceLock, batchLock, session>>

\* ... until it has all of them; what waits is then to be cancelled, and a deletion
\* that finds nothing waiting counts nothing.
JobsLocked(s) ==
    /\ session[s].at = "jobs" /\ \A m \in LiveMembers : jobLock[m] = s
    /\ session' = [session EXCEPT ![s].at =
                       IF session[s].kind = "cancel_batch" THEN "items"
                       ELSE IF WaitingMembers = {} THEN "done" ELSE "work",
                   ![s].part = WaitingMembers]
    /\ UNCHANGED <<member, row, locks>>

ItemsLocked(s) ==
    /\ session[s].at = "items" /\ \A m \in LiveMembers : itemLock[m] = s
    /\ session' = [session EXCEPT ![s].at = IF WaitingMembers = {} THEN "written" ELSE "work",
                                  ![s].part = WaitingMembers]
    /\ UNCHANGED <<member, row, locks>>

-----------------------------------------------------------------------------
\* A transaction that ends items moves the credits held for them.
EndsItems(t) == t.to \in Terminal /\ t.wrote # {}

\* The update of an item.  The claim and the deletion count after each item, CancelBatch
\* after the last.
WriteItem(s, m) ==
    /\ session[s].at = "work" /\ m \in session[s].part \ session[s].wrote
    /\ FreeFor(s, itemLock[m])
    /\ itemLock' = [itemLock EXCEPT ![m] = s]
    /\ LET wrote == session[s].wrote \union {m}
       IN  session' = [session EXCEPT ![s].wrote = wrote,
                          ![s].at = IF session[s].kind = "cancel_batch" /\ wrote # session[s].part
                                    THEN "work" ELSE "written"]
    /\ UNCHANGED <<member, row, jobLock, balanceLock, batchLock>>

\* moveReservedCredits, of SettleItemTx and ReleaseItemTx: the update of the balance of
\* the user comes right before or after that of the item, and always before the count.
MoveCredits(s) ==
    /\ session[s].at \in {"work", "written"} /\ session[s].to \in Terminal
    /\ session[s].part # {}
    /\ balanceLock = NoSession
    /\ balanceLock' = s
    /\ UNCHANGED <<member, row, jobLock, itemLock, batchLock, session>>

\* CancelItem updates the job after the credits.
CancelJobOfItem(s, m) ==
    /\ session[s].at = "written" /\ session[s].kind = "cancel_item" /\ m \in session[s].part
    /\ balanceLock = s /\ jobLock[m] = NoSession
    /\ jobLock' = [jobLock EXCEPT ![m] = s]
    /\ UNCHANGED <<member, row, itemLock, balanceLock, batchLock, session>>

CountsUnpaid(s) == TRUE  \* mutant
HasPaid(s) == EndsItems(session[s]) => balanceLock = s

\* The SELECT of refreshBatchCounters ...
CountItems(s) ==
    /\ session[s].at = "written" /\ HasPaid(s)
    /\ session[s].kind = "cancel_item" => \A m \in session[s].part : jobLock[m] = s
    /\ session' = [session EXCEPT ![s].at = "counted",
                      ![s].seen = [m \in Members |-> IF m \in session[s].wrote
                                                     THEN session[s].to ELSE member[m]]]
    /\ UNCHANGED <<member, row, locks>>

\* ... and its UPDATE, with the numbers as literals.
WriteBatch(s) ==
    /\ session[s].at = "counted" /\ FreeFor(s, batchLock)
    /\ batchLock' = s
    /\ Becomes(s, IF session[s].part = session[s].wrote THEN "done" ELSE "work")
    /\ UNCHANGED <<member, row, jobLock, itemLock, balanceLock>>

LetGo(s) ==
    /\ jobLock' = [m \in Members |-> IF jobLock[m] = s THEN NoSession ELSE jobLock[m]]
    /\ itemLock' = [m \in Members |-> IF itemLock[m] = s THEN NoSession ELSE itemLock[m]]
    /\ balanceLock' = IF balanceLock = s THEN NoSession ELSE balanceLock
    /\ batchLock' = IF batchLock = s THEN NoSession ELSE batchLock
    /\ session' = [session EXCEPT ![s] = Nothing]

Commit(s) ==
    /\ session[s].at = "done"
    /\ member' = [m \in Members |-> IF m \in session[s].wrote THEN session[s].to ELSE member[m]]
    /\ row' = IF batchLock # s THEN row
              ELSE [Recount(session[s].seen) EXCEPT !.finished = @ \/ row.finished]
    /\ LetGo(s)

\* A statement errs, the process dies, or the database ends one of a circle of sessions
\* that wait for one another: nothing of the transaction remains.
Rollback(s) ==
    /\ session[s].at # "idle"
    /\ LetGo(s)
    /\ UNCHANGED <<member, row>>

-----------------------------------------------------------------------------
Begin(s) ==
    \/ \E S \in SUBSET Members : BeginClaim(s, S)
    \/ \E m \in Members, to \in ItemStatus : BeginLeased(s, m, to)
    \/ \E m \in Members : BeginCancelItem(s, m)
    \/ BeginCancelBatch(s)
    \/ BeginDeletion(s)

Statement(s) ==
    \/ \E m \in Members : LockJob(s, m) \/ LockItem(s, m) \/ WriteItem(s, m) \/ CancelJobOfItem(s, m)
    \/ JobsLocked(s) \/ ItemsLocked(s)
    \/ MoveCredits(s) \/ CountItems(s) \/ WriteBatch(s)

CountersNext == \E s \in Sessions : Begin(s) \/ Statement(s) \/ Commit(s) \/ Rollback(s)

CountersSpec == CountersInit /\ [][CountersNext]_counterVars

-----------------------------------------------------------------------------
CountersTypeOK ==
    /\ member \in [Members -> ItemStatus]
    /\ row \in BatchCounts
    /\ jobLock \in [Members -> Sessions \union {NoSession}]
    /\ itemLock \in [Members -> Sessions \union {NoSession}]
    /\ balanceLock \in Sessions \union {NoSession}
    /\ batchLock \in Sessions \union {NoSession}
    /\ session \in [Sessions -> Transaction]

\* A batch never says that it has ended before its items have, and never claims more
\* ended items than there are.
NeverAhead ==
    /\ row.finished \/ row.status \notin {"queued", "running"} => AllAre(member, Terminal)
    /\ \A x \in Terminal : row.counts[x] <= Number(member, x)

\* When all items of a batch have ended its row is what a recount gives, although
\* refreshes overlap and may overwrite one another's counters: the ending transactions
\* of a user queue up at the balance before they count, so the last has seen them all.
EndedBatchIsRecounted == AllAre(member, Terminal) => row = Recount(member)

\* The row of a batch may fall behind while items run, is never ahead of them, and has
\* caught up when they have ended (refreshBatchCounters).
BatchRowIsHonest == CountersTypeOK /\ NeverAhead /\ EndedBatchIsRecounted
=============================================================================
