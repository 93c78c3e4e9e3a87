--------------------------- MODULE ImageQueueProofs ---------------------------
(***************************************************************************)
(* Proofs about ImageQueue, for every number of jobs, users, runners,      *)
(* slots, attempts, crashes and credits.                                   *)
(***************************************************************************)
EXTENDS ImageQueue, FiniteSetTheorems, TLAPS

-----------------------------------------------------------------------------
(***************************************************************************)
(* Types.                                                                  *)
(***************************************************************************)

JobRow ==
    [status : Active \union Ended \union {"absent"},
     token : Runners \union {Nobody}, lease : {"none", "live", "expired"},
     cancel : BOOLEAN, due : BOOLEAN, overdue : BOOLEAN, spool : BOOLEAN,
     attempts : 0..MaxAttempts, settled : BOOLEAN, released : BOOLEAN]
RecordRow == [status : {"none", "active", "succeeded", "failed"}, started : BOOLEAN]
RunnerRow == [pc : RunnerStates, job : 0..NumJobs, told : BOOLEAN]
TodoRow == [jobs : SUBSET Jobs, at : 0..NumJobs,
            verdict : {"none", "succeeded", "failed", "unknown", "requeue"}]
CancelRow == [pc : {"idle", "read", "loaded", "tried"},
              token : Runners \union {Nobody}, at : Processes \union {Nobody}]
CreditRow == [available : Nat, reserved : Nat]

\* A runner that is not idle has a job.
Placed ==
    \A r \in Runners : IF runner[r].pc = "idle" THEN runner[r] = Idle ELSE runner[r].job \in Jobs

\* Every crash orphans the leases of the runners it kills, and no more.
OrphansBounded == orphaned <= Cardinality(Runners) * crashes

\* A start that has read a record is at a job.
VerdictPlaced == \A p \in Processes : todo[p].verdict # "none" => todo[p].at # 0

TInv == ImageTypeOK /\ Placed /\ OrphansBounded /\ VerdictPlaced

\* What a runner's step may do to the rows: a job gets a row, a status or a mark.
LEMMA RowMoves ==
  ASSUME NEW row \in JobRow
  PROVE  /\ \A s \in Active \union Ended : Freed(row, s) \in JobRow
         /\ \A n \in 0..MaxAttempts : Attempted(row, n) \in JobRow
         /\ \A b \in BOOLEAN : [row EXCEPT !.released = b] \in JobRow
         /\ \A b \in BOOLEAN : [row EXCEPT !.spool = b] \in JobRow
         /\ [row EXCEPT !.status = "queued"] \in JobRow
         /\ [row EXCEPT !.cancel = TRUE] \in JobRow
         /\ \A b \in BOOLEAN : [row EXCEPT !.due = b] \in JobRow
         /\ [row EXCEPT !.overdue = TRUE] \in JobRow
         /\ [row EXCEPT !.lease = "expired"] \in JobRow
         /\ \A b \in BOOLEAN : [row EXCEPT !.settled = b] \in JobRow
         /\ \A r \in Runners :
               [row EXCEPT !.status = "running", !.token = r, !.lease = "live"] \in JobRow
<1>1. \A s \in Active \union Ended : Freed(row, s) \in JobRow
  BY DEF Freed, JobRow
<1>2. \A n \in 0..MaxAttempts : Attempted(row, n) \in JobRow
  BY SizesAssumption DEF Attempted, JobRow
<1>3. \A b \in BOOLEAN : [row EXCEPT !.released = b] \in JobRow  BY DEF JobRow
<1>4. \A b \in BOOLEAN : [row EXCEPT !.spool = b] \in JobRow  BY DEF JobRow
<1>5. [row EXCEPT !.status = "queued"] \in JobRow  BY DEF JobRow, Active, Waiting
<1>6. [row EXCEPT !.cancel = TRUE] \in JobRow  BY DEF JobRow
<1>7. \A b \in BOOLEAN : [row EXCEPT !.due = b] \in JobRow  BY DEF JobRow
<1>8. [row EXCEPT !.overdue = TRUE] \in JobRow  BY DEF JobRow
<1>9. [row EXCEPT !.lease = "expired"] \in JobRow  BY DEF JobRow
<1>10. \A b \in BOOLEAN : [row EXCEPT !.settled = b] \in JobRow  BY DEF JobRow
<1>11. \A r \in Runners :
          [row EXCEPT !.status = "running", !.token = r, !.lease = "live"] \in JobRow
  BY DEF JobRow, Active
<1> QED  BY <1>1, <1>2, <1>3, <1>4, <1>5, <1>6, <1>7, <1>8, <1>9, <1>10, <1>11

JobTyped == job \in [Jobs -> JobRow]
RecordTyped == record \in [Jobs -> RecordRow]
WorksTyped == works \in [Jobs -> Nat]
CreditsTyped == credits \in [Users -> CreditRow]
RunnerTyped == runner \in [Runners -> RunnerRow] /\ Placed
OrphansTyped == orphaned \in Nat /\ OrphansBounded
ProcessTyped == process \in [Processes -> {"up", "recovering", "down"}]
TodoTyped == todo \in [Processes -> TodoRow] /\ VerdictPlaced
CancellerTyped == canceller \in [Jobs -> CancelRow]
AskedTyped == asked \in [Jobs -> {"never", "open", "answered"}]
CrashesTyped == crashes \in 0..MaxCrashes

LEMMA ProductGrows ==
  ASSUME NEW a \in Nat, NEW b \in Nat, NEW c \in Nat, b <= c
  PROVE  a * b <= a * c /\ a * (b + 1) = a * b + a
<1>1. c - b \in Nat /\ c = b + (c - b)  OBVIOUS
<1>2. a * (b + (c - b)) = a * b + a * (c - b)  BY <1>1
<1>3. a * (c - b) \in Nat  BY <1>1
<1>4. a * (b + 1) = a * b + a  OBVIOUS
<1> QED  BY <1>1, <1>2, <1>3, <1>4

\* The type invariant, by variables.
LEMMA TInvParts ==
  TInv <=> /\ JobTyped /\ RecordTyped /\ WorksTyped /\ CreditsTyped /\ RunnerTyped
           /\ OrphansTyped /\ ProcessTyped /\ TodoTyped /\ CancellerTyped /\ AskedTyped
           /\ CrashesTyped
<1>1. Cardinality(Runners) \in Nat  BY WiringAssumption, FS_CardinalityType
<1>2. orphaned \in Nat /\ crashes \in 0..MaxCrashes /\ OrphansBounded
         => orphaned \in 0..Cardinality(Runners) * MaxCrashes
  <2> SUFFICES ASSUME orphaned \in Nat, crashes \in 0..MaxCrashes, OrphansBounded
               PROVE  orphaned \in 0..Cardinality(Runners) * MaxCrashes
    OBVIOUS
  <2>1. MaxCrashes \in Nat /\ crashes \in Nat /\ crashes <= MaxCrashes  BY SizesAssumption
  <2> DEFINE n == Cardinality(Runners)
  <2>2. n * crashes <= n * MaxCrashes  BY <1>1, <2>1, ProductGrows
  <2>3. n * crashes \in Nat /\ n * MaxCrashes \in Nat  BY <1>1, <2>1
  <2>4. orphaned <= n * crashes  BY DEF OrphansBounded
  <2> HIDE DEF n
  <2>5. orphaned <= n * MaxCrashes  BY <2>2, <2>3, <2>4
  <2> QED  BY <2>3, <2>5 DEF n
<1>3. orphaned \in 0..Cardinality(Runners) * MaxCrashes => orphaned \in Nat  OBVIOUS
<1> QED
  BY <1>2, <1>3
  DEF TInv, ImageTypeOK, JobTyped, RecordTyped, WorksTyped, CreditsTyped, RunnerTyped,
      OrphansTyped, ProcessTyped, TodoTyped, CancellerTyped, AskedTyped, CrashesTyped,
      JobRow, RecordRow, RunnerRow, TodoRow, CancelRow, CreditRow

\* What is paid moves the balance of the owner of the job alone.
LEMMA PayRows ==
  ASSUME CreditsTyped, NEW j \in Jobs, NEW a \in Int, NEW h \in Int, Pay(j, a, h),
         Balance(j).available + a \in Nat, Balance(j).reserved + h \in Nat
  PROVE  /\ CreditsTyped'
         /\ Balance(j)'.available = Balance(j).available + a
         /\ Balance(j)'.reserved = Balance(j).reserved + h
         /\ \A u \in Users \ {Owner[j]} : credits'[u] = credits[u]
<1> DEFINE row == [available |-> Balance(j).available + a, reserved |-> Balance(j).reserved + h]
<1>1. Owner[j] \in Users  BY WiringAssumption
<1>2. credits' = [credits EXCEPT ![Owner[j]] = row]
  BY <1>1 DEF Pay, Balance, CreditsTyped
<1>3. row \in CreditRow  BY DEF CreditRow
<1> QED  BY <1>1, <1>2, <1>3 DEF CreditsTyped, Balance

\* A job that is failed ends, with its record and its hold.
LEMMA FailRows ==
  ASSUME TInv, NEW j \in Jobs, NEW token, NEW status \in {"failed", "cancelled"},
         CanFail(j, token), Fail(j, status)
  PROVE  /\ JobTyped' /\ RecordTyped' /\ CreditsTyped'
         /\ job[j].status \in Active /\ job'[j].status = status /\ job'[j].token = Nobody
         /\ job'[j].settled = job[j].settled
         /\ job'[j].released = (job[j].released \/ HoldOpen(j))
         /\ \A k \in Jobs \ {j} : job'[k] = job[k] /\ record'[k] = record[k]
         /\ record'[j].status = IF record[j].status = "active" THEN "failed" ELSE record[j].status
         /\ \A u \in Users \ {Owner[j]} : credits'[u] = credits[u]
         /\ IF HoldOpen(j)
            THEN /\ Balance(j)'.available = Balance(j).available + Price
                 /\ Balance(j)'.reserved = Balance(j).reserved - Price
            ELSE credits' = credits
<1>1. job[j] \in JobRow /\ JobTyped /\ RecordTyped /\ CreditsTyped  BY TInvParts DEF JobTyped
<1> DEFINE open == job[j].released \/ HoldOpen(j)
           row == [Freed(job[j], status) EXCEPT !.released = open]
<1>2. job' = [job EXCEPT ![j] = row]
  <2>1. [Freed(job[j], status) EXCEPT !.released = @ \/ HoldOpen(j)] = row
    BY <1>1 DEF Freed, JobRow
  <2>2. job' = [job EXCEPT ![j] = [Freed(job[j], status) EXCEPT !.released = @ \/ HoldOpen(j)]]
    BY DEF Fail
  <2> HIDE DEF row
  <2> QED  BY <2>1, <2>2
<1>3. row \in JobRow
  <2>1. open \in BOOLEAN  BY <1>1 DEF JobRow, HoldOpen
  <2>2. status \in Active \union Ended  BY DEF Ended
  <2> HIDE DEF open
  <2> QED  BY <1>1, <2>1, <2>2, RowMoves
<1>4. /\ row.status = status /\ row.token = Nobody /\ row.settled = job[j].settled
      /\ row.released = open
  BY <1>1 DEF Freed, JobRow
<1>5. JobTyped' /\ job'[j] = row /\ \A k \in Jobs \ {j} : job'[k] = job[k]
  BY <1>1, <1>2, <1>3 DEF JobTyped
<1>6. /\ RecordTyped' /\ \A k \in Jobs \ {j} : record'[k] = record[k]
      /\ record'[j].status = IF record[j].status = "active" THEN "failed" ELSE record[j].status
  BY <1>1 DEF Fail, FailRecord, RecordTyped, RecordRow
<1>7. /\ CreditsTyped'
      /\ \A u \in Users \ {Owner[j]} : credits'[u] = credits[u]
      /\ IF HoldOpen(j)
         THEN /\ Balance(j)'.available = Balance(j).available + Price
              /\ Balance(j)'.reserved = Balance(j).reserved - Price
         ELSE credits' = credits
  <2>1. CASE HoldOpen(j)
    <3>1. Price \in Nat /\ Balance(j).available \in Nat /\ Balance(j).reserved \in Nat
      BY <1>1, SizesAssumption, WiringAssumption DEF CreditsTyped, CreditRow, Balance
    <3>2. Balance(j).reserved >= Price  BY <2>1 DEF CanFail
    <3>3. Pay(j, Price, -Price)  BY <2>1 DEF Fail
    <3>4. Balance(j).available + Price \in Nat /\ Balance(j).reserved + (-Price) \in Nat
      BY <3>1, <3>2
    <3>5. Price \in Int /\ -Price \in Int  BY <3>1
    <3>6. /\ CreditsTyped'
          /\ Balance(j)'.available = Balance(j).available + Price
          /\ Balance(j)'.reserved = Balance(j).reserved + (-Price)
          /\ \A u \in Users \ {Owner[j]} : credits'[u] = credits[u]
      BY <1>1, <3>3, <3>4, <3>5, PayRows
    <3> QED  BY <2>1, <3>1, <3>6
  <2>2. CASE ~HoldOpen(j)  BY <1>1, <2>2 DEF Fail, CreditsTyped
  <2> QED  BY <2>1, <2>2
<1>8. job[j].status \in Active  BY DEF CanFail, LeaseLost
<1> QED  BY <1>4, <1>5, <1>6, <1>7, <1>8

LEMMA TryFailTyped ==
  ASSUME TInv, NEW j \in Jobs, NEW token, NEW status \in {"failed", "cancelled"},
         TryFail(j, token, status)
  PROVE  JobTyped' /\ RecordTyped' /\ CreditsTyped'
<1>1. CASE CanFail(j, token) /\ Fail(j, status)  BY <1>1, FailRows
<1>2. CASE UNCHANGED <<job, record, credits>>
  BY <1>2, TInvParts DEF JobTyped, RecordTyped, CreditsTyped
<1> QED  BY <1>1, <1>2 DEF TryFail

\* The settlement takes the price from what is reserved, unless it was done before.
LEMMA SettleRows ==
  ASSUME TInv, NEW j \in Jobs, CanSettle(j), Settle(j)
  PROVE  /\ CreditsTyped'
         /\ \A u \in Users \ {Owner[j]} : credits'[u] = credits[u]
         /\ IF job[j].settled THEN credits' = credits
            ELSE /\ Balance(j)'.available = Balance(j).available
                 /\ Balance(j)'.reserved = Balance(j).reserved - Price
<1>1. CreditsTyped  BY TInvParts
<1>2. CASE job[j].settled  BY <1>1, <1>2 DEF Settle, CreditsTyped
<1>3. CASE ~job[j].settled
  <2>1. Price \in Nat /\ Balance(j).available \in Nat /\ Balance(j).reserved \in Nat
    BY <1>1, SizesAssumption, WiringAssumption DEF CreditsTyped, CreditRow, Balance
  <2>2. Balance(j).reserved >= Price /\ Pay(j, 0, -Price)  BY <1>3 DEF CanSettle, Settle
  <2>3. Balance(j).available + 0 \in Nat /\ Balance(j).reserved + (-Price) \in Nat
    BY <2>1, <2>2
  <2>4. 0 \in Int /\ -Price \in Int  BY <2>1
  <2>5. /\ CreditsTyped'
        /\ Balance(j)'.available = Balance(j).available + 0
        /\ Balance(j)'.reserved = Balance(j).reserved + (-Price)
        /\ \A u \in Users \ {Owner[j]} : credits'[u] = credits[u]
    BY <1>1, <2>2, <2>3, <2>4, PayRows
  <2> QED  BY <1>3, <2>1, <2>5
<1> QED  BY <1>2, <1>3

\* A runner goes on with its job, or ends and is idle.
LEMMA GoesRows ==
  ASSUME RunnerTyped, NEW r \in Runners, runner[r].pc # "idle",
         NEW pc \in RunnerStates \ {"idle"}, RunnerGoes(r, pc)
  PROVE  /\ RunnerTyped' /\ runner'[r].pc = pc /\ runner'[r].job = runner[r].job
         /\ \A q \in Runners \ {r} : runner'[q] = runner[q]
BY DEF RunnerTyped, RunnerGoes, RunnerRow, Placed

LEMMA EndsRows ==
  ASSUME RunnerTyped, NEW r \in Runners, RunnerEnds(r)
  PROVE  /\ RunnerTyped' /\ runner'[r] = Idle
         /\ \A q \in Runners \ {r} : runner'[q] = runner[q]
<1>1. Idle \in RunnerRow /\ Idle.pc = "idle"
  BY SizesAssumption DEF Idle, RunnerRow, RunnerStates
<1> QED  BY <1>1 DEF RunnerTyped, RunnerEnds, Placed

LEMMA RunnerAtJob ==
  ASSUME RunnerTyped, NEW r \in Runners, runner[r].pc # "idle"
  PROVE  J(r) \in Jobs
BY DEF RunnerTyped, Placed, J

\* A job that waits for its next attempt.
LEMMA WaitRows ==
  ASSUME JobTyped, NEW r \in Runners, J(r) \in Jobs, WaitForRetry(r)
  PROVE  /\ JobTyped' /\ job[J(r)].token = r /\ record' = record /\ credits' = credits
         /\ job'[J(r)].status = "retry_wait" /\ job'[J(r)].token = Nobody
         /\ job'[J(r)].settled = job[J(r)].settled /\ job'[J(r)].released = job[J(r)].released
         /\ \A k \in Jobs \ {J(r)} : job'[k] = job[k]
<1> DEFINE row == [Freed(job[J(r)], "retry_wait") EXCEPT !.due = FALSE]
<1>1. job[J(r)] \in JobRow  BY DEF JobTyped
<1>2. Freed(job[J(r)], "retry_wait") \in JobRow
  BY <1>1, RowMoves DEF Active, Waiting
<1>3. row \in JobRow  BY <1>2, RowMoves
<1>4. /\ row.status = "retry_wait" /\ row.token = Nobody
      /\ row.settled = job[J(r)].settled /\ row.released = job[J(r)].released
  BY <1>1 DEF Freed, JobRow
<1>5. /\ job' = [job EXCEPT ![J(r)] = row] /\ job[J(r)].token = r
      /\ record' = record /\ credits' = credits
  BY DEF WaitForRetry
<1> QED  BY <1>3, <1>4, <1>5 DEF JobTyped

LEMMA RowWritten ==
  ASSUME JobTyped, NEW j \in Jobs, NEW row \in JobRow, job' = [job EXCEPT ![j] = row]
  PROVE  JobTyped' /\ job'[j] = row /\ \A k \in Jobs \ {j} : job'[k] = job[k]
BY DEF JobTyped

LEMMA FreedFields ==
  ASSUME NEW row \in JobRow, NEW s
  PROVE  /\ Freed(row, s).status = s /\ Freed(row, s).token = Nobody
         /\ Freed(row, s).settled = row.settled /\ Freed(row, s).released = row.released
         /\ Freed(row, s).lease = "none"
BY DEF Freed, JobRow

\* Only marks of the jobs change: who holds them, what they are at, and their holds stay.
JobsFenced ==
    \A k \in Jobs : /\ job'[k].status = job[k].status /\ job'[k].token = job[k].token
                    /\ job'[k].settled = job[k].settled /\ job'[k].released = job[k].released

LEMMA MarkRows ==
  ASSUME JobTyped, NEW j \in Jobs,
         \/ CancelMark(j) \/ DeadlinePasses(j) \/ BackoffElapses(j) \/ LeaseExpires(j)
  PROVE  JobTyped' /\ JobsFenced
<1>1. job[j] \in JobRow  BY DEF JobTyped
<1>2. ASSUME NEW row \in JobRow, job' = [job EXCEPT ![j] = row],
             row.status = job[j].status, row.token = job[j].token,
             row.settled = job[j].settled, row.released = job[j].released
      PROVE  JobTyped' /\ JobsFenced
  BY <1>2, RowWritten DEF JobsFenced
<1>3. CASE CancelMark(j)
  <2> DEFINE row == [job[j] EXCEPT !.cancel = TRUE]
  <2>1. job' = [job EXCEPT ![j] = row]  BY <1>3 DEF CancelMark
  <2>2. row \in JobRow  BY <1>1, RowMoves
  <2>3. /\ row.status = job[j].status /\ row.token = job[j].token
        /\ row.settled = job[j].settled /\ row.released = job[j].released
    BY <1>1 DEF JobRow
  <2> QED  BY <1>2, <2>1, <2>2, <2>3
<1>4. CASE DeadlinePasses(j)
  <2> DEFINE row == [job[j] EXCEPT !.overdue = TRUE]
  <2>1. job' = [job EXCEPT ![j] = row]  BY <1>4 DEF DeadlinePasses
  <2>2. row \in JobRow  BY <1>1, RowMoves
  <2>3. /\ row.status = job[j].status /\ row.token = job[j].token
        /\ row.settled = job[j].settled /\ row.released = job[j].released
    BY <1>1 DEF JobRow
  <2> QED  BY <1>2, <2>1, <2>2, <2>3
<1>5. CASE BackoffElapses(j)
  <2> DEFINE row == [job[j] EXCEPT !.due = TRUE]
  <2>1. job' = [job EXCEPT ![j] = row]  BY <1>5 DEF BackoffElapses
  <2>2. row \in JobRow  BY <1>1, RowMoves
  <2>3. /\ row.status = job[j].status /\ row.token = job[j].token
        /\ row.settled = job[j].settled /\ row.released = job[j].released
    BY <1>1 DEF JobRow
  <2> QED  BY <1>2, <2>1, <2>2, <2>3
<1>6. CASE LeaseExpires(j)
  <2> DEFINE row == [job[j] EXCEPT !.lease = "expired"]
  <2>1. job' = [job EXCEPT ![j] = row]  BY <1>6 DEF LeaseExpires
  <2>2. row \in JobRow  BY <1>1, RowMoves
  <2>3. /\ row.status = job[j].status /\ row.token = job[j].token
        /\ row.settled = job[j].settled /\ row.released = job[j].released
    BY <1>1 DEF JobRow
  <2> QED  BY <1>2, <2>1, <2>2, <2>3
<1> QED  BY <1>3, <1>4, <1>5, <1>6

\* What the provider's answer writes to the job.
LEMMA AnswerRows ==
  ASSUME JobTyped, NEW r \in Runners, J(r) \in Jobs,
         ProviderDelivers(r) \/ ProviderRefuses(r) \/ ProviderSilent(r)
  PROVE  JobTyped' /\ JobsFenced
<1> DEFINE j == J(r)
<1>1. job[j] \in JobRow  BY DEF JobTyped
<1>2. \E n \in 0..MaxAttempts, spool \in BOOLEAN :
         \/ job' = [job EXCEPT ![j] = [Attempted(job[j], n) EXCEPT !.spool = @ \/ spool]]
         \/ job' = [job EXCEPT ![j] = Attempted(job[j], n)]
  <2>1. MaxAttempts \in Nat /\ \A n \in 1..MaxAttempts : n \in 0..MaxAttempts
    BY SizesAssumption
  <2>2. CASE ProviderDelivers(r)  BY <2>1, <2>2 DEF ProviderDelivers
  <2>3. CASE ProviderRefuses(r)  BY <2>1, <2>3 DEF ProviderRefuses
  <2>4. CASE ProviderSilent(r)  BY <2>1, <2>4 DEF ProviderSilent
  <2> QED  BY <2>2, <2>3, <2>4
<1>3. PICK n \in 0..MaxAttempts, spool \in BOOLEAN :
         \/ job' = [job EXCEPT ![j] = [Attempted(job[j], n) EXCEPT !.spool = @ \/ spool]]
         \/ job' = [job EXCEPT ![j] = Attempted(job[j], n)]
  BY <1>2
<1> DEFINE plain == Attempted(job[j], n)
<1>4. /\ plain \in JobRow /\ plain.status = job[j].status /\ plain.token = job[j].token
      /\ plain.settled = job[j].settled /\ plain.released = job[j].released
  <2>1. plain \in JobRow  BY <1>1, RowMoves
  <2>2. /\ plain.status = job[j].status /\ plain.token = job[j].token
        /\ plain.settled = job[j].settled /\ plain.released = job[j].released
    BY <1>1 DEF Attempted, JobRow
  <2> QED  BY <2>1, <2>2
<1> HIDE DEF plain
<1> DEFINE mark == plain.spool \/ spool
           spooled == [plain EXCEPT !.spool = mark]
<1>5. mark \in BOOLEAN  BY <1>4 DEF JobRow
<1> HIDE DEF mark
<1>6. /\ spooled \in JobRow /\ spooled.status = job[j].status /\ spooled.token = job[j].token
      /\ spooled.settled = job[j].settled /\ spooled.released = job[j].released
  <2>1. spooled \in JobRow  BY <1>4, <1>5, RowMoves
  <2>2. /\ spooled.status = plain.status /\ spooled.token = plain.token
        /\ spooled.settled = plain.settled /\ spooled.released = plain.released
    BY <1>4 DEF JobRow
  <2> HIDE DEF spooled
  <2> QED  BY <1>4, <2>1, <2>2
<1> HIDE DEF spooled
<1>7. job' = [job EXCEPT ![j] = spooled] \/ job' = [job EXCEPT ![j] = plain]
  BY <1>3 DEF plain, mark, spooled
<1> QED  BY <1>4, <1>6, <1>7, RowWritten DEF JobsFenced

LEMMA EnqueueRows ==
  ASSUME TInv, NEW j \in Jobs, Enqueue(j)
  PROVE  /\ JobTyped' /\ RecordTyped' /\ CreditsTyped'
         /\ job[j].status = "absent" /\ job'[j].status = "queued" /\ job'[j].token = job[j].token
         /\ job'[j].settled = job[j].settled /\ job'[j].released = job[j].released
         /\ record'[j].status = "active"
         /\ \A k \in Jobs \ {j} : job'[k] = job[k] /\ record'[k] = record[k]
         /\ Balance(j)'.available = Balance(j).available - Price
         /\ Balance(j)'.reserved = Balance(j).reserved + Price
         /\ \A u \in Users \ {Owner[j]} : credits'[u] = credits[u]
<1>1. JobTyped /\ RecordTyped /\ CreditsTyped /\ job[j] \in JobRow  BY TInvParts DEF JobTyped
<1> DEFINE row == [job[j] EXCEPT !.status = "queued"]
<1>2. job' = [job EXCEPT ![j] = row] /\ job[j].status = "absent"  BY DEF Enqueue
<1>3. row \in JobRow  BY <1>1, RowMoves
<1>4. /\ row.status = "queued" /\ row.token = job[j].token
      /\ row.settled = job[j].settled /\ row.released = job[j].released
  BY <1>1 DEF JobRow
<1>5. /\ RecordTyped' /\ record'[j].status = "active"
      /\ \A k \in Jobs \ {j} : record'[k] = record[k]
  BY <1>1 DEF Enqueue, RecordTyped, RecordRow
<1>6. /\ CreditsTyped' /\ Balance(j)'.available = Balance(j).available - Price
      /\ Balance(j)'.reserved = Balance(j).reserved + Price
      /\ \A u \in Users \ {Owner[j]} : credits'[u] = credits[u]
  <2>1. Price \in Nat /\ Balance(j).available \in Nat /\ Balance(j).reserved \in Nat
    BY <1>1, SizesAssumption, WiringAssumption DEF CreditsTyped, CreditRow, Balance
  <2>2. Balance(j).available >= Price /\ Pay(j, -Price, Price)  BY DEF Enqueue
  <2>3. Balance(j).available + (-Price) \in Nat /\ Balance(j).reserved + Price \in Nat
    BY <2>1, <2>2
  <2>4. -Price \in Int /\ Price \in Int  BY <2>1
  <2>5. /\ CreditsTyped' /\ Balance(j)'.available = Balance(j).available + (-Price)
        /\ Balance(j)'.reserved = Balance(j).reserved + Price
        /\ \A u \in Users \ {Owner[j]} : credits'[u] = credits[u]
    BY <1>1, <2>2, <2>3, <2>4, PayRows
  <2> QED  BY <2>1, <2>5
<1> HIDE DEF row
<1>7. JobTyped' /\ job'[j] = row /\ \A k \in Jobs \ {j} : job'[k] = job[k]
  BY <1>1, <1>2, <1>3, RowWritten
<1> QED  BY <1>2, <1>4, <1>5, <1>6, <1>7

LEMMA ClaimRows ==
  ASSUME TInv, NEW r \in Runners, NEW j \in Jobs, Claim(r, j)
  PROVE  /\ JobTyped' /\ RunnerTyped' /\ runner[r].pc = "idle"
         /\ job[j].status \in Waiting /\ job'[j].status = "running" /\ job'[j].token = r
         /\ job'[j].settled = job[j].settled /\ job'[j].released = job[j].released
         /\ \A k \in Jobs \ {j} : job'[k] = job[k]
         /\ runner'[r].pc = "claimed" /\ runner'[r].job = j
         /\ \A q \in Runners \ {r} : runner'[q] = runner[q]
<1>1. JobTyped /\ RunnerTyped /\ job[j] \in JobRow  BY TInvParts DEF JobTyped
<1> DEFINE row == [job[j] EXCEPT !.status = "running", !.token = r, !.lease = "live"]
<1>2. job' = [job EXCEPT ![j] = row]  BY <1>1 DEF Claim, JobTyped
<1>3. row \in JobRow  BY <1>1, RowMoves
<1>4. /\ row.status = "running" /\ row.token = r
      /\ row.settled = job[j].settled /\ row.released = job[j].released
  BY <1>1 DEF JobRow
<1> HIDE DEF row
<1>5. JobTyped' /\ job'[j] = row /\ \A k \in Jobs \ {j} : job'[k] = job[k]
  BY <1>1, <1>2, <1>3, RowWritten
<1>6. /\ RunnerTyped' /\ runner'[r].pc = "claimed" /\ runner'[r].job = j
      /\ \A q \in Runners \ {r} : runner'[q] = runner[q]
  <2> DEFINE new == [pc |-> "claimed", job |-> j, told |-> FALSE]
  <2>1. runner' = [runner EXCEPT ![r] = new]  BY DEF Claim
  <2>2. new \in RunnerRow /\ new.pc = "claimed" /\ new.job = j
    BY SizesAssumption DEF RunnerRow, RunnerStates, Jobs
  <2> HIDE DEF new
  <2> QED  BY <1>1, <2>1, <2>2 DEF RunnerTyped, Placed
<1>7. runner[r].pc = "idle" /\ job[j].status \in Waiting  BY DEF Claim, Selected, Claimable
<1> QED  BY <1>4, <1>5, <1>6, <1>7

\* A claimed job goes back to the queue, if its runner still holds it.
LEMMA PutBackRows ==
  ASSUME JobTyped, NEW r \in Runners, J(r) \in Jobs, PutBack(r)
  PROVE  /\ JobTyped'
         /\ \A k \in Jobs \ {J(r)} : job'[k] = job[k]
         /\ \/ job' = job /\ job[J(r)].token # r
            \/ /\ job[J(r)].token = r /\ job'[J(r)].status = "queued" /\ job'[J(r)].token = Nobody
               /\ job'[J(r)].settled = job[J(r)].settled /\ job'[J(r)].released = job[J(r)].released
<1> DEFINE j == J(r)
           row == Freed(job[j], "queued")
<1>1. job[j] \in JobRow  BY DEF JobTyped
<1>2. job' = IF job[j].token = r THEN [job EXCEPT ![j] = row] ELSE job  BY DEF PutBack, J
<1>3. row \in JobRow  BY <1>1, RowMoves DEF Active, Waiting
<1>4. /\ row.status = "queued" /\ row.token = Nobody
      /\ row.settled = job[j].settled /\ row.released = job[j].released
  BY <1>1, FreedFields
<1> HIDE DEF row
<1>5. CASE job[j].token = r  BY <1>2, <1>3, <1>4, <1>5, RowWritten
<1>6. CASE job[j].token # r  BY <1>2, <1>6 DEF JobTyped
<1> QED  BY <1>5, <1>6

LEMMA PersistRows ==
  ASSUME TInv, NEW r \in Runners, Persist(r)
  PROVE  /\ JobTyped' /\ J(r) \in Jobs /\ job'[J(r)].settled
         /\ job'[J(r)].status = job[J(r)].status /\ job'[J(r)].token = job[J(r)].token
         /\ job'[J(r)].released = job[J(r)].released
         /\ \A k \in Jobs \ {J(r)} : job'[k] = job[k]
<1> DEFINE j == J(r)
           row == [job[j] EXCEPT !.settled = TRUE]
<1>1. JobTyped /\ j \in Jobs /\ job[j] \in JobRow
  BY TInvParts, RunnerAtJob DEF Persist, JobTyped
<1>2. job' = [job EXCEPT ![j] = row]  BY DEF Persist
<1>3. row \in JobRow  BY <1>1, RowMoves
<1>4. /\ row.settled /\ row.status = job[j].status /\ row.token = job[j].token
      /\ row.released = job[j].released
  BY <1>1 DEF JobRow
<1> HIDE DEF row
<1> QED  BY <1>1, <1>2, <1>3, <1>4, RowWritten

\* The job of a runner that is done succeeds, if the runner still holds it.
LEMMA FinishRows ==
  ASSUME TInv, NEW r \in Runners, Finish(r)
  PROVE  /\ JobTyped' /\ J(r) \in Jobs /\ job'[J(r)].settled = job[J(r)].settled
         /\ job'[J(r)].released = job[J(r)].released
         /\ IF job[J(r)].token = r
            THEN job'[J(r)].status = "succeeded" /\ job'[J(r)].token = Nobody
            ELSE job'[J(r)].status = job[J(r)].status /\ job'[J(r)].token = job[J(r)].token
         /\ \A k \in Jobs \ {J(r)} : job'[k] = job[k]
<1> DEFINE j == J(r)
           old == [job[j] EXCEPT !.spool = FALSE]
           new == IF old.token = r THEN Freed(old, "succeeded") ELSE old
<1>1. JobTyped /\ j \in Jobs /\ job[j] \in JobRow
  BY TInvParts, RunnerAtJob DEF Finish, JobTyped
<1>2. job' = [job EXCEPT ![j] = new]  BY DEF Finish
<1>3. old \in JobRow  BY <1>1, RowMoves
<1>4. /\ old.settled = job[j].settled /\ old.status = job[j].status /\ old.token = job[j].token
      /\ old.released = job[j].released
  BY <1>1 DEF JobRow
<1> HIDE DEF old
<1>5. /\ Freed(old, "succeeded") \in JobRow
      /\ Freed(old, "succeeded").status = "succeeded" /\ Freed(old, "succeeded").token = Nobody
      /\ Freed(old, "succeeded").settled = old.settled
      /\ Freed(old, "succeeded").released = old.released
  BY ZenonT(60), <1>3, RowMoves, FreedFields DEF Ended
<1>6. /\ new \in JobRow /\ new.settled = job[j].settled /\ new.released = job[j].released
      /\ IF job[j].token = r THEN new.status = "succeeded" /\ new.token = Nobody
         ELSE new.status = job[j].status /\ new.token = job[j].token
  BY <1>3, <1>4, <1>5
<1> HIDE DEF new
<1> QED  BY <1>1, <1>2, <1>6, RowWritten

\* A job that ends with its Work.
SucceededRow(row) == [Freed(row, "succeeded") EXCEPT !.settled = TRUE, !.spool = FALSE]

LEMMA SucceededFields ==
  ASSUME NEW row \in JobRow
  PROVE  /\ SucceededRow(row) \in JobRow /\ SucceededRow(row).status = "succeeded"
         /\ SucceededRow(row).token = Nobody /\ SucceededRow(row).settled
         /\ SucceededRow(row).released = row.released
<1> DEFINE freed == Freed(row, "succeeded")
           paid == [freed EXCEPT !.settled = TRUE]
<1>1. /\ freed \in JobRow /\ freed.status = "succeeded" /\ freed.token = Nobody
      /\ freed.released = row.released
  BY ZenonT(60), RowMoves, FreedFields DEF Ended
<1> HIDE DEF freed
<1>2. paid \in JobRow /\ [paid EXCEPT !.spool = FALSE] \in JobRow  BY <1>1, RowMoves
<1>3. SucceededRow(row) = [paid EXCEPT !.spool = FALSE]  BY DEF SucceededRow, freed
<1>4. /\ [paid EXCEPT !.spool = FALSE].status = freed.status
      /\ [paid EXCEPT !.spool = FALSE].token = freed.token
      /\ [paid EXCEPT !.spool = FALSE].settled
      /\ [paid EXCEPT !.spool = FALSE].released = freed.released
  BY <1>1 DEF JobRow
<1> QED  BY <1>1, <1>2, <1>3, <1>4

LEMMA ResumeRows ==
  ASSUME TInv, NEW r \in Runners, ResumeSpool(r)
  PROVE  /\ JobTyped' /\ J(r) \in Jobs /\ job[J(r)].token = r
         /\ job'[J(r)].status = "succeeded" /\ job'[J(r)].token = Nobody /\ job'[J(r)].settled
         /\ job'[J(r)].released = job[J(r)].released
         /\ \A k \in Jobs \ {J(r)} : job'[k] = job[k]
<1> DEFINE j == J(r)
           row == SucceededRow(job[j])
<1>1. JobTyped /\ j \in Jobs /\ job[j] \in JobRow
  BY TInvParts, RunnerAtJob DEF ResumeSpool, JobTyped
<1>2. job' = [job EXCEPT ![j] = row] /\ job[j].token = r  BY DEF ResumeSpool, SucceededRow
<1>3. /\ row \in JobRow /\ row.status = "succeeded" /\ row.token = Nobody /\ row.settled
      /\ row.released = job[j].released
  BY <1>1, SucceededFields
<1> HIDE DEF row
<1> QED  BY <1>1, <1>2, <1>3, RowWritten

LEMMA RecoverSucceededRows ==
  ASSUME JobTyped, NEW j \in Jobs, RecoverSucceeded(j)
  PROVE  /\ JobTyped' /\ record' = record /\ credits' = credits
         /\ \/ job' = job /\ job[j].status # "running"
            \/ /\ job'[j].status = "succeeded" /\ job'[j].token = Nobody /\ job'[j].settled
               /\ job'[j].released = job[j].released /\ job[j].status = "running"
               /\ \A k \in Jobs \ {j} : job'[k] = job[k]
<1> DEFINE row == SucceededRow(job[j])
<1>1. job[j] \in JobRow  BY DEF JobTyped
<1>2. /\ job' = IF job[j].status # "running" THEN job ELSE [job EXCEPT ![j] = row]
      /\ record' = record /\ credits' = credits
  BY DEF RecoverSucceeded, SucceededRow
<1>3. /\ row \in JobRow /\ row.status = "succeeded" /\ row.token = Nobody /\ row.settled
      /\ row.released = job[j].released
  BY <1>1, SucceededFields
<1> HIDE DEF row
<1>4. CASE job[j].status # "running"  BY <1>2, <1>4 DEF JobTyped
<1>5. CASE job[j].status = "running"  BY <1>2, <1>3, <1>5, RowWritten
<1> QED  BY <1>4, <1>5

LEMMA RequeueRows ==
  ASSUME JobTyped, RecordTyped, NEW j \in Jobs, Requeue(j)
  PROVE  /\ JobTyped' /\ RecordTyped' /\ credits' = credits
         /\ job'[j].status = "queued" /\ job'[j].token = Nobody
         /\ job'[j].settled = job[j].settled /\ job'[j].released = job[j].released
         /\ record'[j].status = "active"
         /\ \A k \in Jobs \ {j} : job'[k] = job[k] /\ record'[k] = record[k]
<1> DEFINE row == Freed(job[j], "queued")
<1>1. job[j] \in JobRow  BY DEF JobTyped
<1>2. job' = [job EXCEPT ![j] = row] /\ credits' = credits  BY DEF Requeue
<1>3. row \in JobRow  BY <1>1, RowMoves DEF Active, Waiting
<1>4. /\ row.status = "queued" /\ row.token = Nobody
      /\ row.settled = job[j].settled /\ row.released = job[j].released
  BY <1>1, FreedFields
<1>5. /\ RecordTyped' /\ record'[j].status = "active"
      /\ \A k \in Jobs \ {j} : record'[k] = record[k]
  BY DEF Requeue, RecordTyped, RecordRow
<1> HIDE DEF row
<1> QED  BY <1>2, <1>3, <1>4, <1>5, RowWritten

-----------------------------------------------------------------------------
(***************************************************************************)
(* The types are kept by every step.                                       *)
(***************************************************************************)

\* What a step leaves alone keeps its type.
LEMMA KeepsType ==
  ASSUME TInv
  PROVE  /\ job' = job => JobTyped'
         /\ record' = record => RecordTyped'
         /\ works' = works => WorksTyped'
         /\ credits' = credits => CreditsTyped'
         /\ runner' = runner => RunnerTyped'
         /\ orphaned' = orphaned /\ crashes' = crashes => OrphansTyped'
         /\ process' = process => ProcessTyped'
         /\ todo' = todo => TodoTyped'
         /\ canceller' = canceller => CancellerTyped'
         /\ asked' = asked => AskedTyped'
         /\ crashes' = crashes => CrashesTyped'
BY TInvParts
DEF JobTyped, RecordTyped, WorksTyped, CreditsTyped, RunnerTyped, Placed, OrphansTyped,
    OrphansBounded, ProcessTyped, TodoTyped, VerdictPlaced, CancellerTyped, AskedTyped,
    CrashesTyped

\* A record that is written keeps its type, and is successful only if it was.
RecordKept ==
    /\ RecordTyped'
    /\ \A k \in Jobs : record'[k].status = "succeeded" => record[k].status = "succeeded"

LEMMA RecordRows ==
  ASSUME RecordTyped, NEW j \in Jobs,
         \/ FailRecord(j)
         \/ record' = [record EXCEPT ![j].status = "active"]
         \/ record' = [record EXCEPT ![j].started = TRUE]
         \/ record' = record
  PROVE  RecordKept /\ \A k \in Jobs \ {j} : record'[k] = record[k]
BY ZenonT(60) DEF RecordTyped, RecordRow, RecordKept, FailRecord

\* The steps of a runner that goes on with its job, or gives it up, and writes no
\* more than the record and the provider's part of the job.
LEMMA RunnerGoesOn ==
  ASSUME TInv, NEW r \in Runners,
         \/ Start(r) \/ SaveRunning(r) \/ Register(r) \/ PreparationFails(r)
         \/ StatementErrs(r) \/ AskProvider(r)
         \/ ProviderDelivers(r) \/ ProviderRefuses(r) \/ ProviderSilent(r)
         \/ CheckActive(r) /\ record[J(r)].status = "active"
         \/ SavePersisting(r) \/ PersistFails(r)
  PROVE  /\ runner[r].pc \notin {"idle", "persisted", "retryable", "failed", "errored"}
         /\ J(r) \in Jobs
         /\ \E pc \in RunnerStates \ {"idle", "claimed", "persisted"} : RunnerGoes(r, pc)
         /\ JobTyped' /\ JobsFenced
         /\ RecordKept /\ \A k \in Jobs \ {J(r)} : record'[k] = record[k]
         /\ AskedTyped'
         /\ UNCHANGED <<works, credits, orphaned, process, todo, canceller, crashes>>
<1>1. /\ runner[r].pc \notin {"idle", "persisted", "retryable", "failed", "errored"}
      /\ \E pc \in RunnerStates \ {"idle", "claimed", "persisted"} : RunnerGoes(r, pc)
      /\ UNCHANGED <<works, credits, orphaned, process, todo, canceller, crashes>>
  BY DEF Start, SaveRunning, Register, PreparationFails, StatementErrs, AskProvider,
         ProviderDelivers, ProviderRefuses, ProviderSilent, CheckActive, SavePersisting,
         PersistFails, RunnerStates, Registered
<1>2. J(r) \in Jobs  BY <1>1, TInvParts, RunnerAtJob
<1>3. JobTyped /\ RecordTyped /\ AskedTyped  BY TInvParts
<1>4. JobTyped' /\ JobsFenced
  <2>1. CASE ProviderDelivers(r) \/ ProviderRefuses(r) \/ ProviderSilent(r)
    BY <1>2, <1>3, <2>1, AnswerRows
  <2>2. CASE job' = job  BY <1>3, <2>2 DEF JobTyped, JobsFenced
  <2> QED
    BY <2>1, <2>2
    DEF Start, SaveRunning, Register, PreparationFails, StatementErrs, AskProvider,
        CheckActive, SavePersisting, PersistFails
<1>5. \/ FailRecord(J(r))
      \/ record' = [record EXCEPT ![J(r)].status = "active"]
      \/ record' = [record EXCEPT ![J(r)].started = TRUE]
      \/ record' = record
  BY DEF Start, SaveRunning, Register, PreparationFails, StatementErrs, AskProvider,
         ProviderDelivers, ProviderRefuses, ProviderSilent, CheckActive, SavePersisting,
         PersistFails, Save
<1>6. AskedTyped'
  <2>1. \/ asked' = asked
        \/ asked' = [asked EXCEPT ![J(r)] = "open"]
        \/ asked' = [asked EXCEPT ![J(r)] = "answered"]
    BY DEF Start, SaveRunning, Register, PreparationFails, StatementErrs, AskProvider,
           ProviderDelivers, ProviderRefuses, ProviderSilent, CheckActive, SavePersisting,
           PersistFails
  <2> QED  BY <1>2, <1>3, <2>1 DEF AskedTyped
<1>7. RecordKept /\ \A k \in Jobs \ {J(r)} : record'[k] = record[k]
  BY <1>2, <1>3, <1>5, RecordRows
<1> QED  BY <1>1, <1>2, <1>4, <1>6, <1>7

\* The steps in which a runner gives up its job or is done with it.
LEMMA RunnerStops ==
  ASSUME TInv, NEW r \in Runners,
         \/ PutBack(r) \/ SnapshotInvalid(r)
         \/ CheckActive(r) /\ record[J(r)].status # "active"
         \/ Finish(r) \/ RetryRefused(r) \/ RetrySpooled(r) \/ GiveUp(r)
         \/ ResumeSpool(r) \/ ResumeFails(r)
  PROVE  /\ runner[r].pc # "idle" /\ J(r) \in Jobs /\ RunnerEnds(r)
         /\ JobTyped' /\ RecordTyped' /\ WorksTyped' /\ CreditsTyped'
         /\ UNCHANGED <<orphaned, process, todo, canceller, asked, crashes>>
<1>1. /\ runner[r].pc # "idle" /\ RunnerEnds(r)
      /\ UNCHANGED <<orphaned, process, todo, canceller, asked, crashes>>
  BY DEF PutBack, SnapshotInvalid, CheckActive, Finish, RetryRefused, RetrySpooled, GiveUp,
         ResumeSpool, ResumeFails
<1>2. J(r) \in Jobs  BY <1>1, TInvParts, RunnerAtJob
<1>3. JobTyped /\ RecordTyped /\ WorksTyped /\ CreditsTyped  BY TInvParts
<1>4. (\E status \in {"failed", "cancelled"}, t \in {r} : TryFail(J(r), t, status))
      => JobTyped' /\ RecordTyped' /\ CreditsTyped'
  BY <1>2, TryFailTyped
<1>5. WaitForRetry(r) => JobTyped' /\ RecordTyped' /\ CreditsTyped'
  BY <1>2, <1>3, WaitRows, KeepsType
<1>6. CASE PutBack(r)
  <2>1. JobTyped'  BY <1>2, <1>3, <1>6, PutBackRows
  <2> QED  BY <1>1, <1>2, <1>6, <2>1, KeepsType DEF PutBack
<1>7. CASE SnapshotInvalid(r)
  BY <1>1, <1>2, <1>4, <1>7, KeepsType DEF SnapshotInvalid, J
<1>8. CASE CheckActive(r)  BY <1>1, <1>2, <1>8, KeepsType DEF CheckActive
<1>9. CASE Finish(r)
  <2>1. JobTyped'  BY <1>9, FinishRows
  <2> QED  BY <1>1, <1>2, <1>9, <2>1, KeepsType DEF Finish
<1>10. CASE RetryRefused(r) \/ RetrySpooled(r)
  BY <1>1, <1>2, <1>5, <1>10, KeepsType DEF RetryRefused, RetrySpooled
<1>11. CASE GiveUp(r)
  <2>1. \E status \in {"failed", "cancelled"} : TryFail(J(r), r, status)
    BY <1>11 DEF GiveUp, FailedAs
  <2> QED  BY <1>1, <1>2, <1>4, <1>11, <2>1, KeepsType DEF GiveUp
<1>12. CASE ResumeSpool(r)
  <2>1. JobTyped'  BY <1>12, ResumeRows
  <2>2. CreditsTyped'  BY <1>2, <1>12, SettleRows DEF ResumeSpool
  <2>3. RecordTyped'  BY <1>2, <1>3, <1>12 DEF ResumeSpool, RecordTyped, RecordRow
  <2>4. WorksTyped'  BY <1>2, <1>3, <1>12 DEF ResumeSpool, WorksTyped
  <2> QED  BY <1>1, <1>2, <2>1, <2>2, <2>3, <2>4
<1>13. CASE ResumeFails(r)
  <2>1. CASE job' = job /\ record' = record /\ credits' = credits
    BY <1>1, <1>2, <1>13, <2>1, KeepsType DEF ResumeFails
  <2>2. CASE WaitForRetry(r) \/ TryFail(J(r), r, "failed")
    BY <1>1, <1>2, <1>4, <1>5, <1>13, <2>2, KeepsType DEF ResumeFails
  <2> QED  BY <1>13, <2>1, <2>2 DEF ResumeFails
<1> QED  BY <1>6, <1>7, <1>8, <1>9, <1>10, <1>11, <1>12, <1>13

\* The transaction that persists an image.
LEMMA Persists ==
  ASSUME TInv, NEW r \in Runners, Persist(r)
  PROVE  /\ runner[r].pc = "persisting" /\ J(r) \in Jobs /\ RunnerGoes(r, "persisted")
         /\ JobTyped' /\ RecordTyped' /\ WorksTyped' /\ CreditsTyped'
         /\ record'[J(r)].status = "succeeded"
         /\ \A k \in Jobs \ {J(r)} : record'[k] = record[k] /\ works'[k] = works[k]
         /\ works'[J(r)] = works[J(r)] + 1
         /\ UNCHANGED <<orphaned, process, todo, canceller, asked, crashes>>
<1>1. /\ runner[r].pc = "persisting" /\ J(r) \in Jobs /\ JobTyped' /\ RunnerGoes(r, "persisted")
      /\ UNCHANGED <<orphaned, process, todo, canceller, asked, crashes>>
  BY PersistRows DEF Persist
<1>2. RecordTyped /\ WorksTyped  BY TInvParts
<1>3. CreditsTyped'  BY <1>1, SettleRows DEF Persist
<1>4. /\ RecordTyped' /\ record'[J(r)].status = "succeeded"
      /\ \A k \in Jobs \ {J(r)} : record'[k] = record[k]
  BY <1>1, <1>2 DEF Persist, RecordTyped, RecordRow
<1>5. /\ WorksTyped' /\ works'[J(r)] = works[J(r)] + 1
      /\ \A k \in Jobs \ {J(r)} : works'[k] = works[k]
  BY <1>1, <1>2 DEF Persist, WorksTyped
<1> QED  BY <1>1, <1>3, <1>4, <1>5

\* A cancel request that goes on, and the timers: a job keeps its status, its
\* token, its marks, and a record keeps its success.
LEMMA MarksOnly ==
  ASSUME TInv, NEW j \in Jobs,
         \/ (\E p \in Processes : CancelRead(p, j)) \/ CancelMark(j) \/ CancelRest(j)
         \/ DeadlinePasses(j) \/ BackoffElapses(j) \/ LeaseExpires(j)
  PROVE  /\ JobTyped' /\ JobsFenced
         /\ RecordKept
         /\ RunnerTyped'
         /\ \A r \in Runners : /\ runner'[r].pc = runner[r].pc
                               /\ runner'[r].job = runner[r].job
         /\ CancellerTyped'
         /\ UNCHANGED <<works, credits, orphaned, process, todo, asked, crashes>>
<1>1. JobTyped /\ RecordTyped /\ RunnerTyped /\ CancellerTyped  BY TInvParts
<1>2. JobTyped' /\ JobsFenced
  <2>1. CASE CancelMark(j) \/ DeadlinePasses(j) \/ BackoffElapses(j) \/ LeaseExpires(j)
    BY <1>1, <2>1, MarkRows
  <2>2. CASE job' = job  BY <1>1, <2>2 DEF JobTyped, JobsFenced
  <2> QED  BY <2>1, <2>2 DEF CancelRead, CancelRest
<1>3. RecordKept
  <2>1. FailRecord(j) \/ record' = record
    BY DEF CancelRead, CancelMark, CancelRest, DeadlinePasses, BackoffElapses, LeaseExpires
  <2> QED  BY <1>1, <2>1, RecordRows
<1>4. /\ RunnerTyped'
      /\ \A r \in Runners : /\ runner'[r].pc = runner[r].pc
                            /\ runner'[r].job = runner[r].job
  <2>1. CASE CancelRest(j)
    <3> DEFINE Told(r) == /\ runner[r].job = j /\ Host[r] = canceller[j].at
                          /\ runner[r].pc \in Registered
    <3>1. runner' = [r \in Runners |-> IF Told(r) THEN [runner[r] EXCEPT !.told = TRUE]
                                       ELSE runner[r]]
      BY <2>1 DEF CancelRest
    <3>2. \A r \in Runners : Told(r) => runner[r].pc # "idle"  BY DEF Registered
    <3>3. \A r \in Runners :
             /\ runner'[r].pc = runner[r].pc /\ runner'[r].job = runner[r].job
             /\ runner'[r] \in RunnerRow
             /\ runner[r].pc = "idle" => runner'[r] = runner[r]
      <4> HIDE DEF Told
      <4> QED  BY <1>1, <3>1, <3>2 DEF RunnerTyped, RunnerRow
    <3>4. runner' \in [Runners -> RunnerRow]
      <4> HIDE DEF Told
      <4> QED  BY <3>1, <3>3
    <3> HIDE DEF Told
    <3> QED  BY <1>1, <3>3, <3>4 DEF RunnerTyped, Placed
  <2>2. CASE runner' = runner  BY <1>1, <2>2, KeepsType
  <2> QED
    BY <2>1, <2>2 DEF CancelRead, CancelMark, DeadlinePasses, BackoffElapses, LeaseExpires
<1>6. CancellerTyped'
  <2>1. CASE \E p \in Processes : CancelRead(p, j)
    BY <1>1, <2>1 DEF CancelRead, CancelAt, CancellerTyped, CancelRow
  <2>2. CASE CancelMark(j)
    <3>1. job[j].token \in Runners \union {Nobody}  BY <1>1 DEF JobTyped, JobRow
    <3> QED  BY <1>1, <2>2, <3>1 DEF CancelMark, CancelAt, CancellerTyped, CancelRow
  <2>3. CASE CancelRest(j)
    BY <1>1, <2>3 DEF CancelRest, CancelAt, NoCancel, CancellerTyped, CancelRow
  <2>4. CASE canceller' = canceller  BY <2>4, KeepsType
  <2> QED
    BY <2>1, <2>2, <2>3, <2>4 DEF DeadlinePasses, BackoffElapses, LeaseExpires
<1>5. UNCHANGED <<works, credits, orphaned, process, todo, asked, crashes>>
  BY DEF CancelRead, CancelMark, CancelRest, DeadlinePasses, BackoffElapses, LeaseExpires
<1> QED  BY <1>2, <1>3, <1>4, <1>5, <1>6

LEMMA OrphanRows ==
  ASSUME TInv, OrphanLeaseExpires
  PROVE  OrphansTyped' /\ orphaned' <= orphaned
<1>1. Cardinality(Runners) \in Nat /\ crashes \in Nat
  BY WiringAssumption, FS_CardinalityType, TInvParts, SizesAssumption DEF CrashesTyped
<1>2. Cardinality(Runners) * crashes \in Nat  BY <1>1
<1>3. orphaned \in Nat /\ orphaned > 0 /\ orphaned <= Cardinality(Runners) * crashes
      /\ orphaned' = orphaned - 1 /\ crashes' = crashes
  BY TInvParts DEF OrphanLeaseExpires, OrphansTyped, OrphansBounded
<1>4. orphaned' \in Nat /\ orphaned' <= orphaned /\ orphaned' <= Cardinality(Runners) * crashes
  BY <1>2, <1>3
<1> QED  BY <1>3, <1>4 DEF OrphansTyped, OrphansBounded

\* The process that starts looks its jobs up, and writes what it has found.
LEMMA RecoverRows ==
  ASSUME TInv, NEW p \in Processes, RecoverJob(p)
  PROVE  /\ JobTyped' /\ RecordTyped' /\ CreditsTyped' /\ ProcessTyped' /\ TodoTyped'
         /\ process[p] = "recovering" /\ todo[p].at \in Jobs
         /\ todo'[p] \in {NothingToDo, [todo[p] EXCEPT !.at = 0, !.verdict = "none"]}
         /\ (todo'[p] = NothingToDo /\ process'[p] = "down") \/ process' = process
         /\ \A q \in Processes \ {p} : todo'[q] = todo[q] /\ process'[q] = process[q]
         /\ UNCHANGED <<works, runner, orphaned, canceller, asked, crashes>>
<1> DEFINE j == todo[p].at
           row == [todo[p] EXCEPT !.at = 0, !.verdict = "none"]
<1>1. /\ JobTyped /\ RecordTyped /\ CreditsTyped /\ ProcessTyped /\ TodoTyped
      /\ todo[p] \in TodoRow
  BY TInvParts DEF TodoTyped
<1>2. process[p] = "recovering" /\ j \in Jobs  BY <1>1 DEF RecoverJob, TodoRow, Jobs
<1>3. JobTyped' /\ RecordTyped' /\ CreditsTyped'
  <2>1. CASE RecoverSucceeded(j)  BY <1>1, <1>2, <2>1, RecoverSucceededRows, KeepsType
  <2>2. CASE RecoverFailed(j)
    <3>1. \E status \in {"failed", "cancelled"}, t \in {Nobody} : TryFail(j, t, status)
      BY <2>2 DEF RecoverFailed, FailedAs
    <3> QED  BY <1>2, <3>1, TryFailTyped
  <2>3. CASE Requeue(j)  BY <1>1, <1>2, <2>3, RequeueRows, KeepsType
  <2> QED  BY <2>1, <2>2, <2>3 DEF RecoverJob
<1>4. row \in TodoRow /\ NothingToDo \in TodoRow /\ row.verdict = "none"
      /\ NothingToDo.verdict = "none"
  <2>1. 0 \in 0..NumJobs  BY SizesAssumption
  <2>2. row \in TodoRow /\ row.verdict = "none"  BY <1>1, <2>1 DEF TodoRow
  <2>3. NothingToDo \in TodoRow /\ NothingToDo.verdict = "none"
    BY <2>1 DEF TodoRow, NothingToDo
  <2> QED  BY <2>2, <2>3
<1>5. \/ todo' = [todo EXCEPT ![p] = NothingToDo] /\ process' = [process EXCEPT ![p] = "down"]
      \/ todo' = [todo EXCEPT ![p] = row] /\ process' = process
  BY <1>1 DEF RecoverJob, TodoTyped
<1> HIDE DEF row
<1>6. /\ ProcessTyped' /\ TodoTyped'
      /\ todo'[p] \in {NothingToDo, row}
      /\ (todo'[p] = NothingToDo /\ process'[p] = "down") \/ process' = process
      /\ \A q \in Processes \ {p} : todo'[q] = todo[q] /\ process'[q] = process[q]
  BY <1>1, <1>4, <1>5 DEF ProcessTyped, TodoTyped, VerdictPlaced
<1>7. UNCHANGED <<works, runner, orphaned, canceller, asked, crashes>>  BY DEF RecoverJob
<1> QED  BY <1>2, <1>3, <1>6, <1>7 DEF row

LEMMA LookRows ==
  ASSUME TInv, NEW p \in Processes, NEW j \in Jobs, RecoverLook(p, j)
  PROVE  /\ TodoTyped' /\ process[p] = "recovering" /\ todo[p].at = 0 /\ j \in todo[p].jobs
         /\ todo'[p] = [jobs |-> todo[p].jobs \ {j}, at |-> j, verdict |-> Verdict(j)]
         /\ \A q \in Processes \ {p} : todo'[q] = todo[q]
<1> DEFINE row == [jobs |-> todo[p].jobs \ {j}, at |-> j, verdict |-> Verdict(j)]
<1>1. /\ RecordTyped /\ TodoTyped /\ todo[p] \in TodoRow /\ record[j] \in RecordRow
      /\ j \in 1..NumJobs
  BY TInvParts DEF TodoTyped, RecordTyped, Jobs
<1>2. Verdict(j) \in {"none", "succeeded", "failed", "unknown", "requeue"}
  BY <1>1 DEF Verdict, RecordRow
<1>3. row \in TodoRow /\ row.at # 0  BY <1>1, <1>2, SizesAssumption DEF TodoRow
<1>4. todo' = [todo EXCEPT ![p] = row]  BY <1>1 DEF RecoverLook, TodoTyped
<1>5. process[p] = "recovering" /\ todo[p].at = 0 /\ j \in todo[p].jobs  BY DEF RecoverLook
<1>6. row = [jobs |-> todo[p].jobs \ {j}, at |-> j, verdict |-> Verdict(j)]  OBVIOUS
<1> HIDE DEF row
<1>7. TodoTyped' /\ todo'[p] = row /\ \A q \in Processes \ {p} : todo'[q] = todo[q]
  BY <1>1, <1>3, <1>4 DEF TodoTyped, VerdictPlaced
<1> QED  BY <1>5, <1>6, <1>7

LEMMA StartRows ==
  ASSUME TInv, NEW p \in Processes, ProcessStarts(p)
  PROVE  /\ TodoTyped' /\ ProcessTyped' /\ process[p] = "down" /\ process'[p] = "recovering"
         /\ todo'[p].at = todo[p].at /\ todo'[p].verdict = todo[p].verdict
         /\ \A j \in todo'[p].jobs : j \in Jobs /\ job[j].status = "running"
         /\ \A q \in Processes \ {p} : todo'[q] = todo[q] /\ process'[q] = process[q]
<1> DEFINE held == {j \in Jobs : job[j].status = "running" /\ job[j].lease # "live"}
           row == [todo[p] EXCEPT !.jobs = held]
<1>1. ProcessTyped /\ TodoTyped /\ todo[p] \in TodoRow  BY TInvParts DEF TodoTyped
<1>2. todo' = [todo EXCEPT ![p] = row]  BY DEF ProcessStarts
<1>3. held \subseteq Jobs /\ \A j \in held : job[j].status = "running"  OBVIOUS
<1> HIDE DEF held
<1>4. /\ row \in TodoRow /\ row.at = todo[p].at /\ row.verdict = todo[p].verdict
      /\ row.jobs = held
  BY <1>1, <1>3 DEF TodoRow
<1> HIDE DEF row
<1>5. /\ TodoTyped' /\ todo'[p] = row /\ \A q \in Processes \ {p} : todo'[q] = todo[q]
  BY <1>1, <1>2, <1>4 DEF TodoTyped, VerdictPlaced
<1>6. /\ ProcessTyped' /\ process[p] = "down" /\ process'[p] = "recovering"
      /\ \A q \in Processes \ {p} : process'[q] = process[q]
  BY <1>1 DEF ProcessStarts, ProcessTyped
<1> QED  BY <1>3, <1>4, <1>5, <1>6

\* The runners that a crash of p ends, and those that held a lease.
Lost(p) == {r \in Executing : Host[r] = p}

LEMMA CrashRows ==
  ASSUME TInv, NEW p \in Processes, Crash(p)
  PROVE  /\ ProcessTyped' /\ TodoTyped' /\ RunnerTyped' /\ OrphansTyped' /\ CancellerTyped'
         /\ CrashesTyped'
         /\ todo'[p] = NothingToDo /\ process'[p] = "down"
         /\ \A q \in Processes \ {p} : todo'[q] = todo[q] /\ process'[q] = process[q]
         /\ \A r \in Runners : runner'[r] = IF Host[r] = p THEN Idle ELSE runner[r]
         /\ \A j \in Jobs : canceller'[j] = IF canceller[j].at = p THEN NoCancel
                                            ELSE canceller[j]
         /\ orphaned' = orphaned + Cardinality(Lost(p))
         /\ UNCHANGED <<job, record, works, credits, asked>>
<1>1. /\ ProcessTyped /\ TodoTyped /\ RunnerTyped /\ OrphansTyped /\ CancellerTyped
      /\ crashes \in 0..MaxCrashes
  BY TInvParts DEF CrashesTyped
<1>2. crashes \in Nat /\ MaxCrashes \in Nat /\ crashes < MaxCrashes /\ crashes' = crashes + 1
  BY <1>1, SizesAssumption DEF Crash
<1>3. CrashesTyped'  BY <1>2 DEF CrashesTyped
<1>4. /\ TodoTyped' /\ todo'[p] = NothingToDo
      /\ \A q \in Processes \ {p} : todo'[q] = todo[q]
  BY <1>1, SizesAssumption DEF Crash, TodoTyped, TodoRow, NothingToDo, VerdictPlaced
<1>5. /\ ProcessTyped' /\ process'[p] = "down"
      /\ \A q \in Processes \ {p} : process'[q] = process[q]
  BY <1>1 DEF Crash, ProcessTyped
<1>6. /\ RunnerTyped'
      /\ \A r \in Runners : runner'[r] = IF Host[r] = p THEN Idle ELSE runner[r]
  <2>1. Idle \in RunnerRow /\ Idle.pc = "idle"
    BY SizesAssumption DEF Idle, RunnerRow, RunnerStates
  <2> QED  BY <1>1, <2>1 DEF Crash, RunnerTyped, Placed
<1>7. /\ CancellerTyped'
      /\ \A j \in Jobs : canceller'[j] = IF canceller[j].at = p THEN NoCancel
                                         ELSE canceller[j]
  BY <1>1 DEF Crash, CancellerTyped, CancelRow, NoCancel
<1>8. OrphansTyped' /\ orphaned' = orphaned + Cardinality(Lost(p))
  <2> DEFINE n == Cardinality(Runners)
             m == Cardinality(Lost(p))
  <2>1. Lost(p) \subseteq Runners  BY DEF Lost, Executing
  <2>2. n \in Nat /\ m \in Nat /\ m <= n
    BY <2>1, WiringAssumption, FS_Subset, FS_CardinalityType
  <2>3. orphaned' = orphaned + m  BY DEF Crash, Lost
  <2>4. orphaned \in Nat /\ orphaned <= n * crashes
    BY <1>1 DEF OrphansTyped, OrphansBounded
  <2> HIDE DEF n, m
  <2>5. n * (crashes + 1) = n * crashes + n /\ n * crashes \in Nat
    BY <1>2, <2>2, ProductGrows
  <2>6. orphaned' \in Nat /\ orphaned' <= n * (crashes + 1)  BY <2>2, <2>3, <2>4, <2>5
  <2> QED  BY <1>2, <2>3, <2>6 DEF OrphansTyped, OrphansBounded, n, m
<1>9. UNCHANGED <<job, record, works, credits, asked>>  BY DEF Crash
<1> QED  BY <1>3, <1>4, <1>5, <1>6, <1>7, <1>8, <1>9

\* A step keeps all the types.
LEMMA TInvStep ==
  ASSUME TInv, [Next]_vars
  PROVE  TInv'
<1> DEFINE Typed == /\ JobTyped /\ RecordTyped /\ WorksTyped /\ CreditsTyped /\ RunnerTyped
                    /\ OrphansTyped /\ ProcessTyped /\ TodoTyped /\ CancellerTyped
                    /\ AskedTyped /\ CrashesTyped
<1> SUFFICES Typed'  BY TInvParts, PTL
<1>1. JobTyped /\ RecordTyped /\ WorksTyped /\ CreditsTyped /\ RunnerTyped /\ CancellerTyped
  BY TInvParts
<1>2. CASE UNCHANGED vars  BY <1>2, KeepsType DEF vars
<1>3. ASSUME NEW j \in Jobs, Enqueue(j)  PROVE Typed'
  <2>1. JobTyped' /\ RecordTyped' /\ CreditsTyped'  BY <1>3, EnqueueRows
  <2> QED  BY <1>3, <2>1, KeepsType DEF Enqueue
<1>4. ASSUME NEW j \in Jobs, JobStep(j)  PROVE Typed'
  <2>1. CASE CancelJob(j)
    <3> DEFINE t == canceller[j].token
    <3>1. JobTyped' /\ RecordTyped' /\ CreditsTyped'
      <4>1. TryFail(j, t, "cancelled")  BY <2>1 DEF CancelJob
      <4> HIDE DEF t
      <4> QED  BY <4>1, TryFailTyped
    <3>2. CancellerTyped'
      BY <1>1, <2>1 DEF CancelJob, CancelAt, CancellerTyped, CancelRow, NoCancel
    <3> QED  BY <2>1, <3>1, <3>2, KeepsType DEF CancelJob
  <2>2. CASE Expire(j)
    <3>1. JobTyped' /\ RecordTyped' /\ CreditsTyped'  BY <2>2, TryFailTyped DEF Expire
    <3> QED  BY <2>2, <3>1, KeepsType DEF Expire
  <2>3. CASE CancelMark(j) \/ CancelRest(j) \/ DeadlinePasses(j) \/ BackoffElapses(j)
             \/ LeaseExpires(j)
    BY <2>3, MarksOnly, KeepsType DEF RecordKept
  <2> QED  BY <1>4, <2>1, <2>2, <2>3 DEF JobStep
<1>5. ASSUME NEW p \in Processes, NEW j \in Jobs, CancelRead(p, j)  PROVE Typed'
  BY <1>5, MarksOnly, KeepsType DEF RecordKept
<1>6. ASSUME NEW r \in Runners, RunnerStep(r)  PROVE Typed'
  <2>1. ASSUME \E pc \in RunnerStates \ {"idle"} : RunnerGoes(r, pc), runner[r].pc # "idle"
        PROVE  RunnerTyped'
    BY <1>1, <2>1, GoesRows
  <2>2. CASE Start(r) \/ SaveRunning(r) \/ Register(r) \/ PreparationFails(r)
             \/ StatementErrs(r) \/ AskProvider(r)
             \/ ProviderDelivers(r) \/ ProviderRefuses(r) \/ ProviderSilent(r)
             \/ (CheckActive(r) /\ record[J(r)].status = "active")
             \/ SavePersisting(r) \/ PersistFails(r)
    <3>1. /\ runner[r].pc # "idle"
          /\ \E pc \in RunnerStates \ {"idle", "claimed", "persisted"} : RunnerGoes(r, pc)
          /\ JobTyped' /\ RecordTyped' /\ AskedTyped'
          /\ UNCHANGED <<works, credits, orphaned, process, todo, canceller, crashes>>
      BY <2>2, RunnerGoesOn DEF RecordKept
    <3>2. RunnerTyped'  BY <2>1, <3>1
    <3> QED  BY <3>1, <3>2, KeepsType
  <2>3. CASE Persist(r)
    <3>1. RunnerTyped'
      <4>1. RunnerGoes(r, "persisted") /\ runner[r].pc # "idle"  BY <2>3, Persists
      <4> QED  BY <2>1, <4>1 DEF RunnerStates
    <3>2. /\ JobTyped' /\ RecordTyped' /\ WorksTyped' /\ CreditsTyped'
          /\ UNCHANGED <<orphaned, process, todo, canceller, asked, crashes>>
      BY <2>3, Persists
    <3> QED  BY <3>1, <3>2, KeepsType
  <2>4. CASE PutBack(r) \/ SnapshotInvalid(r)
             \/ (CheckActive(r) /\ record[J(r)].status # "active")
             \/ Finish(r) \/ RetryRefused(r) \/ RetrySpooled(r) \/ GiveUp(r)
             \/ ResumeSpool(r) \/ ResumeFails(r)
    BY <1>1, <2>4, RunnerStops, EndsRows, KeepsType
  <2> QED  BY <1>6, <2>2, <2>3, <2>4 DEF RunnerStep
<1>7. ASSUME NEW r \in Runners, NEW j \in Jobs, Claim(r, j)  PROVE Typed'
  BY <1>7, ClaimRows, KeepsType DEF Claim
<1>8. CASE OrphanLeaseExpires  BY <1>8, OrphanRows, KeepsType DEF OrphanLeaseExpires
<1>9. ASSUME NEW p \in Processes, ProcessStep(p)  PROVE Typed'
  <2>1. CASE ProcessStarts(p)  BY <2>1, StartRows, KeepsType DEF ProcessStarts
  <2>2. CASE RecoverJob(p)  BY <2>2, RecoverRows, KeepsType
  <2>3. CASE ProcessUp(p)
    <3>1. ProcessTyped'  BY <2>3, TInvParts DEF ProcessUp, ProcessTyped
    <3> QED  BY <2>3, <3>1, KeepsType DEF ProcessUp
  <2>4. ASSUME NEW j \in Jobs, RecoverLook(p, j)  PROVE Typed'
    BY <2>4, LookRows, KeepsType DEF RecoverLook
  <2> QED  BY <1>9, <2>1, <2>2, <2>3, <2>4 DEF ProcessStep
<1>10. ASSUME NEW p \in Processes, Crash(p)  PROVE Typed'
  BY <1>10, CrashRows, KeepsType
<1> QED  BY <1>2, <1>3, <1>4, <1>5, <1>6, <1>7, <1>8, <1>9, <1>10 DEF Next

LEMMA InitTyped == Init => TInv
<1> SUFFICES ASSUME Init PROVE TInv
  OBVIOUS
<1>1. NoJob \in JobRow
  BY SizesAssumption DEF NoJob, JobRow
<1>2. JobTyped  BY <1>1 DEF Init, JobTyped
<1>3. RecordTyped /\ WorksTyped /\ AskedTyped /\ ProcessTyped
  BY DEF Init, RecordTyped, RecordRow, WorksTyped, AskedTyped, ProcessTyped
<1>4. CreditsTyped  BY SizesAssumption DEF Init, CreditsTyped, CreditRow
<1>5. RunnerTyped
  <2>1. Idle \in RunnerRow /\ Idle.pc = "idle"
    BY SizesAssumption DEF Idle, RunnerRow, RunnerStates
  <2> QED  BY <2>1 DEF Init, RunnerTyped, Placed
<1>6. TodoTyped
  <2>1. NothingToDo \in TodoRow /\ NothingToDo.verdict = "none"
    BY SizesAssumption DEF NothingToDo, TodoRow
  <2> QED  BY <2>1 DEF Init, TodoTyped, VerdictPlaced
<1>7. CancellerTyped  BY DEF Init, CancellerTyped, CancelRow, NoCancel
<1>8. CrashesTyped  BY SizesAssumption DEF Init, CrashesTyped
<1>9. OrphansTyped
  <2>1. Cardinality(Runners) \in Nat  BY WiringAssumption, FS_CardinalityType
  <2>2. Cardinality(Runners) * 0 = 0  BY <2>1
  <2> QED  BY <2>2 DEF Init, OrphansTyped, OrphansBounded
<1> QED  BY <1>2, <1>3, <1>4, <1>5, <1>6, <1>7, <1>8, <1>9, TInvParts

\* The rows, runners, processes and requests keep their types, whatever happens: no
\* balance column becomes negative, although a recovery, a runner that finishes late
\* and a cancel request may each settle or release what another one already has.
THEOREM ImageTypesAlways == Spec => []ImageTypeOK
<1>1. Init => TInv  BY InitTyped
<1>2. TInv /\ [Next]_vars => TInv'  BY TInvStep
<1>3. TInv => ImageTypeOK  BY DEF TInv
<1> QED  BY <1>1, <1>2, <1>3, PTL DEF Spec

-----------------------------------------------------------------------------
(***************************************************************************)
(* Execution slots.                                                        *)
(***************************************************************************)

\* Only a claimed job that starts takes a slot, and a crash moves the slots of its
\* runners to the orphaned leases.
LEMMA SlotsKept ==
  ASSUME TInv, [Next]_vars
  PROVE  \/ Executing' \subseteq Executing /\ orphaned' <= orphaned
         \/ \E r \in Runners : Start(r)
         \/ \E p \in Processes : Crash(p)
<1> DEFINE Kept == Executing' \subseteq Executing /\ orphaned' <= orphaned
<1>1. RunnerTyped /\ orphaned \in Nat  BY TInvParts DEF OrphansTyped
<1>2. ASSUME orphaned' = orphaned,
             \A r \in Runners : \/ runner'[r].pc \in {"idle", "claimed"}
                                \/ runner[r].pc \notin {"idle", "claimed"}
      PROVE  Kept
  BY <1>1, <1>2 DEF Executing
<1>3. ASSUME orphaned' = orphaned, NEW r \in Runners, runner[r].pc # "idle", RunnerEnds(r)
      PROVE  Kept
  <2>1. runner'[r].pc = "idle" /\ \A q \in Runners \ {r} : runner'[q] = runner[q]
    BY <1>1, <1>3, EndsRows DEF Idle
  <2> QED  BY <1>2, <1>3, <2>1
<1>4. CASE UNCHANGED vars  BY <1>2, <1>4 DEF vars
<1>5. CASE \E j \in Jobs : Enqueue(j) \/ CancelJob(j) \/ Expire(j)
  BY <1>2, <1>5 DEF Enqueue, CancelJob, Expire
<1>6. ASSUME NEW j \in Jobs,
             \/ (\E p \in Processes : CancelRead(p, j)) \/ CancelMark(j) \/ CancelRest(j)
             \/ DeadlinePasses(j) \/ BackoffElapses(j) \/ LeaseExpires(j)
      PROVE  Kept
  BY <1>2, <1>6, MarksOnly
<1>7. CASE OrphanLeaseExpires
  BY <1>7, OrphanRows DEF OrphanLeaseExpires, Executing
<1>8. ASSUME NEW r \in Runners, NEW j \in Jobs, Claim(r, j)  PROVE Kept
  <2>1. orphaned' = orphaned  BY <1>8 DEF Claim
  <2> QED  BY <1>2, <1>8, <2>1, ClaimRows
<1>9. ASSUME NEW p \in Processes, ProcessStep(p)  PROVE Kept
  BY <1>2, <1>9 DEF ProcessStep, ProcessStarts, RecoverJob, ProcessUp, RecoverLook
<1>10. ASSUME NEW r \in Runners, RunnerStep(r), ~Start(r)  PROVE Kept
  <2>1. CASE \/ SaveRunning(r) \/ Register(r) \/ PreparationFails(r)
             \/ StatementErrs(r) \/ AskProvider(r)
             \/ ProviderDelivers(r) \/ ProviderRefuses(r) \/ ProviderSilent(r)
             \/ (CheckActive(r) /\ record[J(r)].status = "active")
             \/ SavePersisting(r) \/ Persist(r) \/ PersistFails(r)
    <3>1. /\ runner[r].pc \notin {"idle", "claimed"} /\ orphaned' = orphaned
          /\ \E pc \in RunnerStates \ {"idle"} : RunnerGoes(r, pc)
      BY <2>1 DEF SaveRunning, Register, PreparationFails, StatementErrs, AskProvider,
         ProviderDelivers, ProviderRefuses, ProviderSilent, CheckActive, SavePersisting,
         Persist, PersistFails, RunnerStates, Registered
    <3>2. \A q \in Runners \ {r} : runner'[q] = runner[q]  BY <1>1, <3>1, GoesRows
    <3> QED  BY <1>2, <3>1, <3>2
  <2>2. CASE \/ PutBack(r) \/ SnapshotInvalid(r)
             \/ (CheckActive(r) /\ record[J(r)].status # "active")
             \/ Finish(r) \/ RetryRefused(r) \/ RetrySpooled(r) \/ GiveUp(r)
             \/ ResumeSpool(r) \/ ResumeFails(r)
    <3>1. runner[r].pc # "idle" /\ RunnerEnds(r) /\ orphaned' = orphaned
      BY <2>2, RunnerStops
    <3> QED  BY <1>3, <3>1
  <2> QED  BY <1>10, <2>1, <2>2 DEF RunnerStep
<1> QED  BY <1>4, <1>5, <1>6, <1>7, <1>8, <1>9, <1>10 DEF Next, JobStep

LEMMA ExecutingFinite == IsFiniteSet(Executing) /\ Cardinality(Executing) \in Nat
BY WiringAssumption, FS_Subset, FS_CardinalityType DEF Executing

LEMMA SlotsStep ==
  ASSUME TInv, ConcurrencyRespected, [Next]_vars
  PROVE  ConcurrencyRespected'
<1> DEFINE n == Cardinality(Executing)
<1>1. /\ IsFiniteSet(Executing) /\ n \in Nat /\ IsFiniteSet(Executing') /\ n' \in Nat
  <2>1. IsFiniteSet(Executing') /\ Cardinality(Executing') \in Nat
    BY WiringAssumption, FS_Subset, FS_CardinalityType DEF Executing
  <2> QED  BY <2>1, ExecutingFinite
<1>2. n + orphaned <= Concurrency /\ orphaned \in Nat /\ orphaned' \in Nat
      /\ Concurrency \in Nat
  <2>1. OrphansTyped /\ OrphansTyped'
    <3>1. TInv => OrphansTyped  BY TInvParts
    <3> QED  BY <3>1, TInvStep, TInvParts, PTL
  <2> QED  BY <2>1, SizesAssumption DEF ConcurrencyRespected, OrphansTyped
<1>3. CASE Executing' \subseteq Executing /\ orphaned' <= orphaned
  <2>1. n' <= n  BY <1>1, <1>3, FS_Subset
  <2> QED  BY <1>1, <1>2, <1>3, <2>1 DEF ConcurrencyRespected
<1>4. ASSUME NEW r \in Runners, Start(r)  PROVE ConcurrencyRespected'
  <2>1. RunnerTyped /\ runner[r].pc = "claimed" /\ RunnerGoes(r, "start")
    BY <1>4, TInvParts DEF Start
  <2>2. runner'[r].pc = "start" /\ \A q \in Runners \ {r} : runner'[q] = runner[q]
    BY <2>1, GoesRows DEF RunnerStates
  <2>3. Executing' = Executing \union {r} /\ r \notin Executing  BY <2>1, <2>2 DEF Executing
  <2>4. n' = n + 1  BY <1>1, <2>3, FS_AddElement
  <2>5. n + orphaned < Concurrency /\ orphaned' = orphaned  BY <1>4 DEF Start, SlotFree
  <2> QED  BY <1>1, <1>2, <2>4, <2>5 DEF ConcurrencyRespected
<1>5. ASSUME NEW p \in Processes, Crash(p)  PROVE ConcurrencyRespected'
  <2>1. /\ \A r \in Runners : runner'[r] = IF Host[r] = p THEN Idle ELSE runner[r]
        /\ orphaned' = orphaned + Cardinality(Lost(p))
    BY <1>5, CrashRows
  <2>2. Executing' = Executing \ Lost(p) /\ Lost(p) \subseteq Executing
    BY <2>1 DEF Executing, Lost, Idle
  <2>3. n' = n - Cardinality(Lost(p)) /\ Cardinality(Lost(p)) \in Nat
    <3>1. IsFiniteSet(Lost(p)) /\ Cardinality(Lost(p)) \in Nat
      BY <1>1, <2>2, FS_Subset, FS_CardinalityType
    <3>2. Executing \intersect Lost(p) = Lost(p)  BY <2>2
    <3> QED  BY ZenonT(60), <1>1, <2>2, <3>1, <3>2, FS_Difference
  <2> QED  BY <1>1, <1>2, <2>1, <2>3 DEF ConcurrencyRespected
<1> QED  BY <1>3, <1>4, <1>5, SlotsKept

\* Over all the processes, and with the leases of runners that a crash has killed,
\* there are never more executions than the limit.
THEOREM SlotsAlwaysRespected == Spec => []ConcurrencyRespected
<1>1. Init => TInv /\ ConcurrencyRespected
  <2> SUFFICES ASSUME Init  PROVE TInv /\ ConcurrencyRespected
    OBVIOUS
  <2>1. Executing = {} /\ orphaned = 0  BY DEF Init, Executing, Idle
  <2>2. Cardinality({}) = 0 /\ Concurrency \in Nat  BY FS_EmptySet, SizesAssumption
  <2> QED  BY <2>1, <2>2, InitTyped DEF ConcurrencyRespected
<1>2. TInv /\ ConcurrencyRespected /\ [Next]_vars => (TInv /\ ConcurrencyRespected)'
  BY TInvStep, SlotsStep
<1> QED  BY <1>1, <1>2, PTL DEF Spec

-----------------------------------------------------------------------------
(***************************************************************************)
(* Credits.                                                                *)
(***************************************************************************)

\* Whatever says that a job succeeded, its hold was settled before: the record, the
\* runner that has persisted the image, and what a starting process has read.  It is
\* why the recovery may mark a job as settled without a look at the balance.
PaidFor ==
    /\ \A j \in Jobs : record[j].status = "succeeded" => job[j].settled
    /\ \A r \in Runners : runner[r].pc = "persisted" => job[J(r)].settled
    /\ \A p \in Processes : todo[p].verdict = "succeeded" => job[todo[p].at].settled

Worth(u) == credits[u].available + credits[u].reserved
SettledOf(u) == {j \in Jobs : Owner[j] = u /\ job[j].settled}

\* A step leaves the worth of the users and the settled jobs alone ...
NoneSettled ==
    /\ \A j \in Jobs : job'[j].settled = job[j].settled
    /\ \A u \in Users : Worth(u)' = Worth(u)

\* ... or settles the hold of job j, for its price.
OneSettled(j) ==
    /\ ~job[j].settled /\ job'[j].settled
    /\ \A k \in Jobs \ {j} : job'[k].settled = job[k].settled
    /\ Worth(Owner[j])' = Worth(Owner[j]) - Price
    /\ \A u \in Users \ {Owner[j]} : Worth(u)' = Worth(u)

LEMMA TryFailSettles ==
  ASSUME TInv, NEW j \in Jobs, NEW token, NEW status \in {"failed", "cancelled"},
         TryFail(j, token, status)
  PROVE  NoneSettled
<1>1. CASE CanFail(j, token) /\ Fail(j, status)
  <2>1. CreditsTyped /\ Price \in Nat /\ Owner[j] \in Users
    BY TInvParts, SizesAssumption, WiringAssumption
  <2>2. /\ \A k \in Jobs : job'[k].settled = job[k].settled
        /\ \A u \in Users \ {Owner[j]} : credits'[u] = credits[u]
        /\ IF HoldOpen(j)
           THEN /\ Balance(j)'.available = Balance(j).available + Price
                /\ Balance(j)'.reserved = Balance(j).reserved - Price
           ELSE credits' = credits
    BY <1>1, FailRows
  <2>3. Worth(Owner[j])' = Worth(Owner[j])
    BY <2>1, <2>2 DEF Worth, Balance, CreditsTyped, CreditRow
  <2> QED  BY <2>2, <2>3 DEF NoneSettled, Worth
<1>2. CASE UNCHANGED <<job, record, credits>>  BY <1>2 DEF NoneSettled, Worth
<1> QED  BY <1>1, <1>2 DEF TryFail

LEMMA SettleSettles ==
  ASSUME TInv, NEW j \in Jobs, CanSettle(j), Settle(j), job'[j].settled,
         \A k \in Jobs \ {j} : job'[k] = job[k]
  PROVE  NoneSettled \/ OneSettled(j)
<1>1. CreditsTyped /\ Price \in Nat /\ Owner[j] \in Users /\ job[j] \in JobRow
  BY TInvParts, SizesAssumption, WiringAssumption DEF JobTyped
<1>2. CASE job[j].settled  BY <1>1, <1>2, SettleRows DEF NoneSettled, Worth, JobRow
<1>3. CASE ~job[j].settled
  <2>1. /\ Balance(j)'.available = Balance(j).available
        /\ Balance(j)'.reserved = Balance(j).reserved - Price
        /\ \A u \in Users \ {Owner[j]} : credits'[u] = credits[u]
    BY <1>3, SettleRows
  <2>2. Worth(Owner[j])' = Worth(Owner[j]) - Price
    BY <1>1, <2>1 DEF Worth, Balance, CreditsTyped, CreditRow
  <2> QED  BY <1>3, <2>1, <2>2 DEF OneSettled, Worth
<1> QED  BY <1>2, <1>3

LEMMA Settlements ==
  ASSUME TInv, PaidFor, [Next]_vars
  PROVE  NoneSettled \/ \E j \in Jobs : OneSettled(j)
<1>1. ASSUME credits' = credits, \A j \in Jobs : job'[j].settled = job[j].settled
      PROVE  NoneSettled
  BY <1>1 DEF NoneSettled, Worth
<1>2. CASE UNCHANGED vars  BY <1>1, <1>2 DEF vars
<1>3. ASSUME NEW j \in Jobs, Enqueue(j)  PROVE NoneSettled
  <2>1. CreditsTyped /\ Price \in Nat /\ Owner[j] \in Users
    BY TInvParts, SizesAssumption, WiringAssumption
  <2>2. /\ \A k \in Jobs : job'[k].settled = job[k].settled
        /\ \A u \in Users \ {Owner[j]} : credits'[u] = credits[u]
        /\ Balance(j)'.available = Balance(j).available - Price
        /\ Balance(j)'.reserved = Balance(j).reserved + Price
    BY <1>3, EnqueueRows
  <2>3. Worth(Owner[j])' = Worth(Owner[j])
    BY <2>1, <2>2 DEF Worth, Balance, CreditsTyped, CreditRow
  <2> QED  BY <2>2, <2>3 DEF NoneSettled, Worth
<1>4. ASSUME NEW j \in Jobs, CancelJob(j) \/ Expire(j)  PROVE NoneSettled
  <2>1. \E t \in {canceller[j].token, Nobody}, status \in {"failed", "cancelled"} :
           TryFail(j, t, status)
    BY <1>4 DEF CancelJob, Expire
  <2> QED  BY <2>1, TryFailSettles
<1>5. ASSUME NEW j \in Jobs,
             \/ (\E p \in Processes : CancelRead(p, j)) \/ CancelMark(j) \/ CancelRest(j)
             \/ DeadlinePasses(j) \/ BackoffElapses(j) \/ LeaseExpires(j)
      PROVE  NoneSettled
  BY <1>1, <1>5, MarksOnly DEF JobsFenced
<1>6. CASE OrphanLeaseExpires  BY <1>1, <1>6 DEF OrphanLeaseExpires
<1>7. ASSUME NEW r \in Runners, NEW j \in Jobs, Claim(r, j)  PROVE NoneSettled
  <2>1. credits' = credits  BY <1>7 DEF Claim
  <2>2. \A k \in Jobs : job'[k].settled = job[k].settled  BY <1>7, ClaimRows
  <2> QED  BY <1>1, <2>1, <2>2
<1>8. ASSUME NEW p \in Processes, ProcessStep(p) \/ Crash(p)  PROVE NoneSettled
  <2>1. CASE job' = job /\ credits' = credits  BY <1>1, <2>1
  <2>2. ASSUME RecoverJob(p)  PROVE NoneSettled
    <3> DEFINE j == todo[p].at
    <3>1. JobTyped /\ RecordTyped /\ j \in Jobs  BY <2>2, TInvParts, RecoverRows
    <3>2. CASE todo[p].verdict = "succeeded" /\ RecoverSucceeded(j)
      <4>1. job[j].settled /\ job[j] \in JobRow  BY <3>1, <3>2 DEF PaidFor, JobTyped
      <4>2. /\ credits' = credits
            /\ \/ job' = job
               \/ job'[j].settled /\ \A k \in Jobs \ {j} : job'[k] = job[k]
            /\ job'[j] \in JobRow
        BY <3>1, <3>2, RecoverSucceededRows DEF JobTyped
      <4> QED  BY <1>1, <4>1, <4>2 DEF JobRow
    <3>3. CASE RecoverFailed(j)
      <4>1. \E status \in {"failed", "cancelled"}, t \in {Nobody} : TryFail(j, t, status)
        BY <3>3 DEF RecoverFailed, FailedAs
      <4> QED  BY <3>1, <4>1, TryFailSettles
    <3>4. CASE Requeue(j)
      <4>1. credits' = credits /\ \A k \in Jobs : job'[k].settled = job[k].settled
        BY <3>1, <3>4, RequeueRows
      <4> QED  BY <1>1, <4>1
    <3> QED  BY <2>2, <3>2, <3>3, <3>4 DEF RecoverJob
  <2> QED  BY <1>8, <2>1, <2>2 DEF ProcessStep, ProcessStarts, ProcessUp, RecoverLook, Crash
<1>9. ASSUME NEW r \in Runners, RunnerStep(r)
      PROVE  NoneSettled \/ \E j \in Jobs : OneSettled(j)
  <2>1. CASE \/ Start(r) \/ SaveRunning(r) \/ Register(r) \/ PreparationFails(r)
             \/ StatementErrs(r) \/ AskProvider(r)
             \/ ProviderDelivers(r) \/ ProviderRefuses(r) \/ ProviderSilent(r)
             \/ (CheckActive(r) /\ record[J(r)].status = "active")
             \/ SavePersisting(r) \/ PersistFails(r)
    BY <1>1, <2>1, RunnerGoesOn DEF JobsFenced
  <2>2. CASE Persist(r)
    <3>1. /\ J(r) \in Jobs /\ job'[J(r)].settled
          /\ \A k \in Jobs \ {J(r)} : job'[k] = job[k]
      BY <2>2, PersistRows
    <3> QED  BY <2>2, <3>1, SettleSettles DEF Persist
  <2>3. CASE ResumeSpool(r)
    <3>1. /\ J(r) \in Jobs /\ job'[J(r)].settled
          /\ \A k \in Jobs \ {J(r)} : job'[k] = job[k]
      BY <2>3, ResumeRows
    <3> QED  BY <2>3, <3>1, SettleSettles DEF ResumeSpool
  <2>4. ASSUME J(r) \in Jobs, WaitForRetry(r)  PROVE NoneSettled
    <3>1. credits' = credits /\ \A k \in Jobs : job'[k].settled = job[k].settled
      BY <2>4, TInvParts, WaitRows
    <3> QED  BY <1>1, <3>1
  <2>5. ASSUME J(r) \in Jobs, NEW status \in {"failed", "cancelled"}, TryFail(J(r), r, status)
        PROVE  NoneSettled
    BY <2>5, TryFailSettles
  <2>6. CASE PutBack(r)
    <3>1. J(r) \in Jobs /\ JobTyped  BY <2>6, TInvParts, RunnerStops
    <3>2. credits' = credits  BY <2>6 DEF PutBack
    <3>3. \A k \in Jobs : job'[k].settled = job[k].settled  BY <2>6, <3>1, PutBackRows
    <3> QED  BY <1>1, <3>2, <3>3
  <2>7. CASE SnapshotInvalid(r)
    <3>1. J(r) \in Jobs  BY <2>7, RunnerStops
    <3>2. TryFail(J(r), r, "failed")  BY <2>7 DEF SnapshotInvalid, J
    <3> QED  BY <2>5, <3>1, <3>2
  <2>8. CASE CheckActive(r)  BY <1>1, <2>8 DEF CheckActive
  <2>9. CASE Finish(r)
    <3>1. credits' = credits  BY <2>9 DEF Finish
    <3>2. \A k \in Jobs : job'[k].settled = job[k].settled  BY <2>9, FinishRows
    <3> QED  BY <1>1, <3>1, <3>2
  <2>10. CASE RetryRefused(r) \/ RetrySpooled(r)
    <3>1. J(r) \in Jobs  BY <2>10, RunnerStops
    <3> QED  BY <2>4, <2>10, <3>1 DEF RetryRefused, RetrySpooled
  <2>11. CASE GiveUp(r)
    <3>1. J(r) \in Jobs  BY <2>11, RunnerStops
    <3>2. \E status \in {"failed", "cancelled"} : TryFail(J(r), r, status)
      BY <2>11 DEF GiveUp, FailedAs
    <3> QED  BY <2>5, <3>1, <3>2
  <2>12. CASE ResumeFails(r)
    <3>1. J(r) \in Jobs  BY <2>12, RunnerStops
    <3>2. CASE UNCHANGED <<job, record, credits>>  BY <1>1, <3>2
    <3>3. CASE WaitForRetry(r) \/ TryFail(J(r), r, "failed")  BY <2>4, <2>5, <3>1, <3>3
    <3> QED  BY <2>12, <3>2, <3>3 DEF ResumeFails
  <2> QED
    BY <1>9, <2>1, <2>2, <2>3, <2>6, <2>7, <2>8, <2>9, <2>10, <2>11, <2>12 DEF RunnerStep
<1> QED  BY <1>2, <1>3, <1>4, <1>5, <1>6, <1>7, <1>8, <1>9 DEF Next, JobStep

\* Nothing is said to have succeeded in a step that was not before, unless its hold
\* is settled.
RecordSucceeds ==
    \A j \in Jobs : record'[j].status = "succeeded" =>
        record[j].status = "succeeded" \/ job'[j].settled
RunnerPersists ==
    \A r \in Runners : runner'[r].pc = "persisted" =>
        \/ runner[r].pc = "persisted" /\ runner'[r].job = runner[r].job
        \/ job'[runner'[r].job].settled
StartReads ==
    \A p \in Processes : todo'[p].verdict = "succeeded" =>
        \/ todo[p].verdict = "succeeded" /\ todo'[p].at = todo[p].at
        \/ record[todo'[p].at].status = "succeeded" /\ todo'[p].at \in Jobs

LEMMA TryFailRecord ==
  ASSUME TInv, NEW j \in Jobs, NEW token, NEW status \in {"failed", "cancelled"},
         TryFail(j, token, status)
  PROVE  RecordSucceeds
<1>1. CASE CanFail(j, token) /\ Fail(j, status)  BY <1>1, FailRows DEF RecordSucceeds
<1>2. CASE UNCHANGED <<job, record, credits>>  BY <1>2 DEF RecordSucceeds
<1> QED  BY <1>1, <1>2 DEF TryFail

LEMMA RecordSuccess ==
  ASSUME TInv, [Next]_vars
  PROVE  RecordSucceeds
<1>1. CASE record' = record  BY <1>1 DEF RecordSucceeds
<1>2. ASSUME NEW j \in Jobs, Enqueue(j)  PROVE RecordSucceeds
  BY <1>2, EnqueueRows DEF RecordSucceeds
<1>3. ASSUME NEW j \in Jobs, CancelJob(j) \/ Expire(j)  PROVE RecordSucceeds
  <2>1. \E t \in {canceller[j].token, Nobody}, status \in {"failed", "cancelled"} :
           TryFail(j, t, status)
    BY <1>3 DEF CancelJob, Expire
  <2> QED  BY <2>1, TryFailRecord
<1>4. ASSUME NEW j \in Jobs, CancelRest(j)  PROVE RecordSucceeds
  BY <1>4, MarksOnly DEF RecordKept, RecordSucceeds
<1>5. ASSUME NEW p \in Processes, RecoverJob(p)  PROVE RecordSucceeds
  <2> DEFINE j == todo[p].at
  <2>1. JobTyped /\ RecordTyped /\ j \in Jobs  BY <1>5, TInvParts, RecoverRows
  <2>2. CASE RecoverSucceeded(j)  BY <1>1, <2>2 DEF RecoverSucceeded
  <2>3. CASE RecoverFailed(j)
    <3>1. \E status \in {"failed", "cancelled"}, t \in {Nobody} : TryFail(j, t, status)
      BY <2>3 DEF RecoverFailed, FailedAs
    <3> QED  BY <2>1, <3>1, TryFailRecord
  <2>4. CASE Requeue(j)  BY <2>1, <2>4, RequeueRows DEF RecordSucceeds
  <2> QED  BY <1>5, <2>2, <2>3, <2>4 DEF RecoverJob
<1>6. ASSUME NEW r \in Runners, RunnerStep(r)  PROVE RecordSucceeds
  <2>1. CASE \/ SaveRunning(r) \/ PreparationFails(r) \/ AskProvider(r)
             \/ SavePersisting(r) \/ PersistFails(r)
    BY <2>1, RunnerGoesOn DEF RecordKept, RecordSucceeds
  <2>2. CASE Persist(r)  BY <2>2, PersistRows, Persists DEF RecordSucceeds
  <2>3. CASE ResumeSpool(r)
    <3>1. J(r) \in Jobs /\ job'[J(r)].settled /\ RecordTyped  BY <2>3, ResumeRows, TInvParts
    <3> QED  BY <2>3, <3>1 DEF ResumeSpool, RecordSucceeds, RecordTyped, RecordRow
  <2>4. CASE SnapshotInvalid(r) \/ GiveUp(r) \/ ResumeFails(r)
    <3>1. J(r) \in Jobs  BY <2>4, RunnerStops
    <3>2. record' = record \/ \E status \in {"failed", "cancelled"} : TryFail(J(r), r, status)
      BY <2>4 DEF SnapshotInvalid, GiveUp, ResumeFails, FailedAs, J, WaitForRetry
    <3> QED  BY <1>1, <3>1, <3>2, TryFailRecord
  <2> QED
    BY <1>1, <1>6, <2>1, <2>2, <2>3, <2>4
    DEF RunnerStep, Start, PutBack, Register, StatementErrs, ProviderDelivers, ProviderRefuses,
        ProviderSilent, CheckActive, Finish, RetryRefused, RetrySpooled, WaitForRetry
<1> QED
  BY <1>1, <1>2, <1>3, <1>4, <1>5, <1>6
  DEF Next, vars, JobStep, ProcessStep, CancelMark, DeadlinePasses, BackoffElapses,
      LeaseExpires, CancelRead, Claim, OrphanLeaseExpires, ProcessStarts, ProcessUp,
      RecoverLook, Crash

LEMMA RunnerSuccess ==
  ASSUME TInv, [Next]_vars
  PROVE  RunnerPersists
<1>1. RunnerTyped  BY TInvParts
<1>2. CASE runner' = runner  BY <1>2 DEF RunnerPersists
<1>3. ASSUME NEW j \in Jobs, CancelRest(j)  PROVE RunnerPersists
  BY <1>3, MarksOnly DEF RunnerPersists
<1>4. ASSUME NEW r \in Runners, NEW j \in Jobs, Claim(r, j)  PROVE RunnerPersists
  BY <1>4, ClaimRows DEF RunnerPersists
<1>5. ASSUME NEW p \in Processes, Crash(p)  PROVE RunnerPersists
  BY <1>5, CrashRows DEF RunnerPersists, Idle
<1>6. ASSUME NEW r \in Runners, RunnerStep(r)  PROVE RunnerPersists
  <2>1. CASE Persist(r)
    <3>1. /\ runner[r].pc # "idle" /\ RunnerGoes(r, "persisted") /\ job'[J(r)].settled
      BY <2>1, Persists, PersistRows
    <3>2. /\ runner'[r].job = runner[r].job
          /\ \A q \in Runners \ {r} : runner'[q] = runner[q]
      BY <1>1, <3>1, GoesRows DEF RunnerStates
    <3> QED  BY <3>1, <3>2 DEF RunnerPersists, J
  <2>2. CASE \/ Start(r) \/ SaveRunning(r) \/ Register(r) \/ PreparationFails(r)
             \/ StatementErrs(r) \/ AskProvider(r)
             \/ ProviderDelivers(r) \/ ProviderRefuses(r) \/ ProviderSilent(r)
             \/ (CheckActive(r) /\ record[J(r)].status = "active")
             \/ SavePersisting(r) \/ PersistFails(r)
    <3>1. /\ runner[r].pc # "idle"
          /\ \E pc \in RunnerStates \ {"idle", "claimed", "persisted"} : RunnerGoes(r, pc)
      BY <2>2, RunnerGoesOn
    <3>2. /\ runner'[r].pc # "persisted"
          /\ \A q \in Runners \ {r} : runner'[q] = runner[q]
      BY <1>1, <3>1, GoesRows
    <3> QED  BY <3>2 DEF RunnerPersists
  <2>3. CASE \/ PutBack(r) \/ SnapshotInvalid(r)
             \/ (CheckActive(r) /\ record[J(r)].status # "active")
             \/ Finish(r) \/ RetryRefused(r) \/ RetrySpooled(r) \/ GiveUp(r)
             \/ ResumeSpool(r) \/ ResumeFails(r)
    <3>1. RunnerEnds(r)  BY <2>3, RunnerStops
    <3> QED  BY <1>1, <3>1, EndsRows DEF RunnerPersists, Idle
  <2> QED  BY <1>6, <2>1, <2>2, <2>3 DEF RunnerStep
<1> QED
  BY <1>2, <1>3, <1>4, <1>5, <1>6
  DEF Next, vars, JobStep, ProcessStep, Enqueue, CancelMark, CancelJob, DeadlinePasses,
      BackoffElapses, Expire, LeaseExpires, CancelRead, OrphanLeaseExpires, ProcessStarts,
      RecoverJob, ProcessUp, RecoverLook

LEMMA StartSuccess ==
  ASSUME TInv, [Next]_vars
  PROVE  StartReads
<1>1. CASE todo' = todo  BY <1>1 DEF StartReads
<1>2. ASSUME NEW p \in Processes, Crash(p)  PROVE StartReads
  BY <1>2, CrashRows DEF StartReads, NothingToDo
<1>3. ASSUME NEW p \in Processes, ProcessStarts(p)  PROVE StartReads
  BY <1>3, StartRows DEF StartReads
<1>4. ASSUME NEW p \in Processes, RecoverJob(p)  PROVE StartReads
  <2>1. todo'[p].verdict = "none"
    <3>1. todo[p] \in TodoRow  BY TInvParts DEF TodoTyped
    <3>2. [todo[p] EXCEPT !.at = 0, !.verdict = "none"].verdict = "none"
      BY <3>1 DEF TodoRow
    <3>3. NothingToDo.verdict = "none"  BY DEF NothingToDo
    <3>4. todo'[p] \in {NothingToDo, [todo[p] EXCEPT !.at = 0, !.verdict = "none"]}
      BY <1>4, RecoverRows
    <3> QED  BY <3>2, <3>3, <3>4
  <2> QED  BY ZenonT(60), <1>4, <2>1, RecoverRows DEF StartReads
<1>5. ASSUME NEW p \in Processes, NEW j \in Jobs, RecoverLook(p, j)  PROVE StartReads
  <2>1. /\ todo'[p] = [jobs |-> todo[p].jobs \ {j}, at |-> j, verdict |-> Verdict(j)]
        /\ \A q \in Processes \ {p} : todo'[q] = todo[q]
    BY <1>5, LookRows
  <2>2. todo'[p].at = j /\ (todo'[p].verdict = "succeeded" => record[j].status = "succeeded")
    BY <2>1 DEF Verdict
  <2> QED  BY <2>1, <2>2 DEF StartReads
<1> QED
  BY ZenonT(60), <1>1, <1>2, <1>3, <1>4, <1>5
  DEF Next, vars, JobStep, ProcessStep, Enqueue, CancelMark, CancelJob, CancelRest,
      DeadlinePasses, BackoffElapses, Expire, LeaseExpires, CancelRead, Claim,
      OrphanLeaseExpires, ProcessUp,
      RunnerStep, Start, PutBack, SnapshotInvalid, SaveRunning, Register, PreparationFails,
      StatementErrs, AskProvider, ProviderDelivers, ProviderRefuses, ProviderSilent,
      CheckActive, SavePersisting, Persist, PersistFails, Finish, RetryRefused, RetrySpooled,
      GiveUp, ResumeSpool, ResumeFails

\* No settlement is undone.
LEMMA SettledForGood ==
  ASSUME TInv, PaidFor, [Next]_vars
  PROVE  \A j \in Jobs : job[j].settled => job'[j].settled
BY Settlements DEF NoneSettled, OneSettled

LEMMA PaidForStep ==
  ASSUME TInv, PaidFor, [Next]_vars
  PROVE  PaidFor'
<1>1. \A j \in Jobs : record'[j].status = "succeeded" => job'[j].settled
  BY RecordSuccess, SettledForGood DEF RecordSucceeds, PaidFor
<1>2. \A r \in Runners : runner'[r].pc = "persisted" => job'[runner'[r].job].settled
  <2>1. \A r \in Runners : runner[r].pc = "persisted" => runner[r].job \in Jobs
    BY TInvParts DEF RunnerTyped, Placed
  <2> QED  BY <2>1, RunnerSuccess, SettledForGood DEF RunnerPersists, PaidFor, J
<1>3. \A p \in Processes : todo'[p].verdict = "succeeded" => job'[todo'[p].at].settled
  <2>1. \A p \in Processes : todo[p].verdict = "succeeded" => todo[p].at \in Jobs
    BY TInvParts DEF TodoTyped, TodoRow, VerdictPlaced, Jobs
  <2> QED  BY <2>1, StartSuccess, SettledForGood DEF StartReads, PaidFor
<1> QED  BY <1>1, <1>2, <1>3 DEF PaidFor, J

LEMMA CreditsStep ==
  ASSUME TInv, PaidFor, CreditsAddUp, [Next]_vars
  PROVE  CreditsAddUp'
<1> SUFFICES ASSUME NEW u \in Users  PROVE CreditsOf(u)' = InitialCredits
  BY DEF CreditsAddUp
<1> DEFINE now == SettledOf(u)
           next == {j \in Jobs : Owner[j] = u /\ job'[j].settled}
<1>1. /\ CreditsOf(u) = Worth(u) + Price * Cardinality(now)
      /\ CreditsOf(u)' = Worth(u)' + Price * Cardinality(next)
  BY DEF CreditsOf, Worth, SettledOf
<1>2. IsFiniteSet(Jobs)
  <2>1. 1 \in Int /\ NumJobs \in Int  BY SizesAssumption
  <2> QED  BY <2>1, FS_Interval DEF Jobs
<1>3. IsFiniteSet(now) /\ Cardinality(now) \in Nat
  <2>1. now \subseteq Jobs  BY DEF SettledOf
  <2> QED  BY <1>2, <2>1, FS_Subset, FS_CardinalityType
<1>4. Price \in Nat /\ Worth(u) \in Int /\ CreditsOf(u) = InitialCredits
  BY SizesAssumption, TInvParts DEF CreditsTyped, CreditRow, Worth, CreditsAddUp
<1>5. CASE NoneSettled
  <2>1. next = now /\ Worth(u)' = Worth(u)  BY <1>5 DEF NoneSettled, SettledOf
  <2> QED  BY <1>1, <1>4, <2>1
<1>6. ASSUME NEW j \in Jobs, OneSettled(j)  PROVE CreditsOf(u)' = InitialCredits
  <2>1. CASE Owner[j] = u
    <3>1. next = now \union {j} /\ j \notin now  BY <1>6, <2>1 DEF OneSettled, SettledOf
    <3>2. Cardinality(next) = Cardinality(now) + 1  BY <1>3, <3>1, FS_AddElement
    <3>3. Worth(u)' = Worth(u) - Price  BY <1>6, <2>1 DEF OneSettled
    <3>4. Price * (Cardinality(now) + 1) = Price * Cardinality(now) + Price
      BY <1>3, <1>4, ProductGrows
    <3>5. Price * Cardinality(now) \in Nat  BY <1>3, <1>4
    <3> DEFINE paid == Price * Cardinality(now)
    <3> HIDE DEF now, next, paid
    <3>6. CreditsOf(u)' = (Worth(u) - Price) + (paid + Price)
      BY <1>1, <3>2, <3>3, <3>4 DEF paid
    <3>7. InitialCredits = Worth(u) + paid  BY <1>1, <1>4 DEF paid
    <3>8. paid \in Nat  BY <3>5 DEF paid
    <3> QED  BY <1>4, <3>6, <3>7, <3>8
  <2>2. CASE Owner[j] # u
    <3>1. next = now /\ Worth(u)' = Worth(u)  BY <1>6, <2>2 DEF OneSettled, SettledOf
    <3> QED  BY <1>1, <1>4, <3>1
  <2> QED  BY <2>1, <2>2
<1> QED  BY <1>5, <1>6, Settlements

LEMMA InitPaid == Init => PaidFor /\ CreditsAddUp
<1> SUFFICES ASSUME Init  PROVE PaidFor /\ CreditsAddUp
  OBVIOUS
<1>1. PaidFor  BY DEF Init, PaidFor, Idle, NothingToDo
<1>2. ASSUME NEW u \in Users  PROVE CreditsOf(u) = InitialCredits
  <2>1. {j \in Jobs : Owner[j] = u /\ job[j].settled} = {}  BY DEF Init, NoJob
  <2>2. Cardinality({}) = 0  BY FS_EmptySet
  <2>3. credits[u].available = InitialCredits /\ credits[u].reserved = 0  BY DEF Init
  <2>4. InitialCredits \in Nat /\ Price * 0 = 0  BY SizesAssumption
  <2>5. CreditsOf(u) = InitialCredits + 0 + Price * 0  BY <2>1, <2>2, <2>3 DEF CreditsOf
  <2> QED  BY <2>4, <2>5
<1> QED  BY <1>1, <1>2 DEF CreditsAddUp

\* No credit is created or lost, with any number of processes, crashes and
\* cancellations: a recovery marks as settled only what a transaction has settled.
THEOREM ImageCreditsAddUp == Spec => [](CreditsAddUp /\ PaidFor)
<1>1. Init => TInv /\ PaidFor /\ CreditsAddUp  BY InitTyped, InitPaid
<1>2. TInv /\ PaidFor /\ CreditsAddUp /\ [Next]_vars => (TInv /\ PaidFor /\ CreditsAddUp)'
  BY TInvStep, PaidForStep, CreditsStep
<1> QED  BY <1>1, <1>2, PTL DEF Spec

-----------------------------------------------------------------------------
(***************************************************************************)
(* One server process.  A second one breaks what follows: its start puts   *)
(* jobs back into the queue whose runners in the first have only missed    *)
(* the renewal of their leases (see README, section 3).                    *)
(***************************************************************************)

OneProcess == \A p, q \in Processes : p = q

\* A job with a token is running, and a runner's job has its token or has ended.
HeldBy ==
    /\ \A j \in Jobs : job[j].token # Nobody => job[j].status = "running"
    /\ \A r \in Runners : runner[r].pc # "idle" =>
          job[J(r)].token = r \/ job[J(r)].status \in Ended

\* A job that was not ordered has no marks.
Fresh == \A j \in Jobs : job[j].status = "absent" => ~job[j].released /\ ~job[j].settled

\* While the process is down or recovers, nobody works on a job or cancels one, and
\* the jobs it has to recover keep running.
Quiet ==
    /\ \A j \in Jobs : canceller[j].pc # "idle" => canceller[j].at \in Processes
    /\ \A p \in Processes :
        /\ process[p] # "recovering" => todo[p] = NothingToDo
        /\ process[p] # "up" =>
            /\ \A r \in Runners : runner[r].pc = "idle"
            /\ \A j \in Jobs : canceller[j].pc = "idle"
            /\ \A j \in todo[p].jobs \union ({todo[p].at} \ {0}) : job[j].status = "running"
            /\ todo[p].at \notin todo[p].jobs

\* A settled job is at its end: its record has succeeded, and its runner has nothing
\* to do but to finish.  A starting process fails or repeats none.
PaidOnce ==
    /\ \A j \in Jobs : job[j].settled =>
          /\ job[j].status \in Ended \union {"running"}
          /\ job[j].status = "running" => record[j].status = "succeeded"
          /\ \A r \in Runners : runner[r].job = j => runner[r].pc = "persisted"
    /\ \A p \in Processes :
          todo[p].verdict \in {"failed", "unknown", "requeue"} => ~job[todo[p].at].settled

PInv == /\ TInv /\ PaidFor /\ HeldBy /\ OneRunnerPerJob /\ Fresh /\ Quiet /\ PaidOnce
        /\ HoldEndsWithJob /\ WorkIffSettled

\* What a step may do to job k.
SameMarks(k) == job'[k].settled = job[k].settled /\ job'[k].released = job[k].released
LeftByRunners(k) == \A r \in Runners : runner'[r].job # k

Steady(k) ==
    /\ SameMarks(k) /\ works'[k] = works[k]
    /\ job'[k].status = job[k].status /\ job'[k].token = job[k].token
    /\ job[k].settled /\ record[k].status = "succeeded" => record'[k].status = "succeeded"
Enqueued(k) ==
    /\ SameMarks(k) /\ works'[k] = works[k]
    /\ job[k].status = "absent" /\ job'[k].status = "queued" /\ job'[k].token = job[k].token
Failed(k) ==
    /\ job'[k].settled = job[k].settled /\ works'[k] = works[k]
    /\ job[k].status \in Active /\ job'[k].status \in {"failed", "cancelled"}
    /\ job'[k].token = Nobody
    /\ job'[k].released = (job[k].released \/ HoldOpen(k))
    /\ record[k].status = "succeeded" => record'[k].status = "succeeded"
Claimed(k) ==
    /\ SameMarks(k) /\ works'[k] = works[k]
    /\ job[k].status \in Waiting /\ job'[k].status = "running"
Waits(k) ==
    /\ SameMarks(k) /\ works'[k] = works[k] /\ ~job[k].settled
    /\ job[k].status = "running" /\ job'[k].status \in Waiting /\ job'[k].token = Nobody
    /\ LeftByRunners(k)
Persisted(k) ==
    /\ ~job[k].settled /\ job'[k].settled /\ works'[k] = works[k] + 1
    /\ job'[k].released = job[k].released
    /\ job[k].status \in Ended \union {"running"}
    /\ job'[k].status = job[k].status /\ job'[k].token = job[k].token
    /\ record'[k].status = "succeeded"
    /\ \A r \in Runners : runner'[r].job = k => runner'[r].pc = "persisted"
Succeeds(k) ==
    /\ works'[k] = IF job[k].settled THEN works[k] ELSE works[k] + 1
    /\ job'[k].settled /\ job'[k].released = job[k].released
    /\ job[k].status = "running" /\ job'[k].status = "succeeded" /\ job'[k].token = Nobody
    /\ LeftByRunners(k)
Plain(k) == Steady(k) \/ Enqueued(k) \/ Failed(k) \/ Claimed(k)
Move(k) == Plain(k) \/ Waits(k) \/ Persisted(k) \/ Succeeds(k)

LEMMA FencedSteady ==
  ASSUME NEW k \in Jobs, JobsFenced, works' = works, record'[k] = record[k]
  PROVE  Steady(k)
BY DEF JobsFenced, Steady, SameMarks

\* A transaction that fails job j, or fails to.
LEMMA TryFailMoves ==
  ASSUME PInv, NEW j \in Jobs, NEW token, NEW status \in {"failed", "cancelled"},
         TryFail(j, token, status), works' = works, NEW k \in Jobs
  PROVE  Steady(k) \/ (k = j /\ Failed(k))
<1>1. TInv  BY DEF PInv
<1>2. CASE CanFail(j, token) /\ Fail(j, status)
  BY <1>1, <1>2, FailRows DEF Steady, SameMarks, Failed
<1>3. CASE UNCHANGED <<job, record, credits>>  BY <1>3 DEF Steady, SameMarks
<1> QED  BY <1>2, <1>3 DEF TryFail

\* A runner that is at a job which is not settled and gives it up leaves nobody there.
LEMMA Leaves ==
  ASSUME PInv, NEW r \in Runners, runner[r].pc # "idle", RunnerEnds(r)
  PROVE  J(r) \in Jobs /\ LeftByRunners(J(r))
<1>1. RunnerTyped /\ OneRunnerPerJob  BY TInvParts DEF PInv
<1>2. J(r) \in Jobs /\ J(r) # 0  BY <1>1, RunnerAtJob DEF Jobs
<1>3. runner'[r].job = 0 /\ \A q \in Runners \ {r} : runner'[q] = runner[q]
  BY <1>1, EndsRows DEF Idle
<1> QED  BY <1>1, <1>2, <1>3 DEF LeftByRunners, OneRunnerPerJob, J

\* The runner of an unsettled job.
LEMMA AtWork ==
  ASSUME PInv, NEW r \in Runners, runner[r].pc \notin {"idle", "persisted"}
  PROVE  J(r) \in Jobs /\ ~job[J(r)].settled /\ works[J(r)] = 0
<1>1. J(r) \in Jobs  BY TInvParts, RunnerAtJob DEF PInv
<1> QED  BY <1>1 DEF PInv, PaidOnce, WorkIffSettled, J

LEMMA WaitMoves ==
  ASSUME PInv, NEW r \in Runners, runner[r].pc \notin {"idle", "persisted"},
         WaitForRetry(r), RunnerEnds(r), works' = works, NEW k \in Jobs
  PROVE  Move(k)
<1>1. J(r) \in Jobs /\ ~job[J(r)].settled /\ JobTyped  BY AtWork, TInvParts DEF PInv
<1>2. LeftByRunners(J(r))  BY Leaves
<1>3. /\ job[J(r)].token = r /\ record' = record
      /\ job'[J(r)].status = "retry_wait" /\ job'[J(r)].token = Nobody
      /\ SameMarks(J(r))
      /\ \A i \in Jobs \ {J(r)} : job'[i] = job[i]
  BY <1>1, WaitRows DEF SameMarks
<1>4. job[J(r)].status = "running"
  BY <1>1, <1>3, WiringAssumption DEF PInv, HeldBy
<1>5. Waits(J(r))  BY <1>1, <1>2, <1>3, <1>4 DEF Waits, Waiting
<1>6. k # J(r) => Steady(k)  BY <1>3 DEF Steady, SameMarks
<1> QED  BY <1>5, <1>6 DEF Move, Plain

\* The move of each job in a step of a runner.
LEMMA RunnerMoves ==
  ASSUME PInv, NEW r \in Runners, RunnerStep(r), NEW k \in Jobs
  PROVE  Move(k)
<1>1. TInv /\ JobTyped /\ RecordTyped /\ RunnerTyped  BY TInvParts DEF PInv
<1>2. CASE \/ Start(r) \/ SaveRunning(r) \/ Register(r) \/ PreparationFails(r)
           \/ StatementErrs(r) \/ AskProvider(r)
           \/ ProviderDelivers(r) \/ ProviderRefuses(r) \/ ProviderSilent(r)
           \/ (CheckActive(r) /\ record[J(r)].status = "active")
           \/ SavePersisting(r) \/ PersistFails(r)
  <2>1. /\ runner[r].pc \notin {"idle", "persisted"}
        /\ JobsFenced /\ works' = works
        /\ \A i \in Jobs \ {J(r)} : record'[i] = record[i]
    BY <1>1, <1>2, RunnerGoesOn
  <2>2. ~job[J(r)].settled  BY <2>1, AtWork
  <2>3. Steady(k)  BY <2>1, <2>2 DEF JobsFenced, Steady, SameMarks
  <2> QED  BY <2>3 DEF Move, Plain
<1>3. CASE Persist(r)
  <2>1. /\ runner[r].pc = "persisting" /\ J(r) \in Jobs /\ RunnerGoes(r, "persisted")
        /\ record'[J(r)].status = "succeeded"
        /\ \A i \in Jobs \ {J(r)} : record'[i] = record[i] /\ works'[i] = works[i]
        /\ works'[J(r)] = works[J(r)] + 1
    BY <1>1, <1>3, Persists
  <2>2. /\ job'[J(r)].settled /\ job'[J(r)].status = job[J(r)].status
        /\ job'[J(r)].token = job[J(r)].token /\ job'[J(r)].released = job[J(r)].released
        /\ \A i \in Jobs \ {J(r)} : job'[i] = job[i]
    BY <1>1, <1>3, PersistRows
  <2>3. ~job[J(r)].settled  BY <2>1, AtWork
  <2>4. job[J(r)].status \in Ended \union {"running"}
    BY <2>1, WiringAssumption DEF PInv, HeldBy
  <2>5. \A q \in Runners : runner'[q].job = J(r) => runner'[q].pc = "persisted"
    <3>1. /\ runner'[r].pc = "persisted"
          /\ \A q \in Runners \ {r} : runner'[q] = runner[q]
      BY <1>1, <2>1, GoesRows DEF RunnerStates
    <3>2. \A q \in Runners \ {r} : runner[q].job # J(r)
      BY <2>1 DEF PInv, OneRunnerPerJob, J, Jobs
    <3> QED  BY <3>1, <3>2
  <2>6. Persisted(J(r))  BY <2>1, <2>2, <2>3, <2>4, <2>5 DEF Persisted
  <2>7. k # J(r) => Steady(k)  BY <2>1, <2>2 DEF Steady, SameMarks
  <2> QED  BY <2>6, <2>7 DEF Move, Plain
<1>4. CASE PutBack(r)
  <2>1. runner[r].pc = "claimed" /\ RunnerEnds(r) /\ works' = works /\ record' = record
    BY <1>4 DEF PutBack
  <2>2. J(r) \in Jobs /\ ~job[J(r)].settled /\ LeftByRunners(J(r))  BY <2>1, AtWork, Leaves
  <2>3. /\ \A i \in Jobs \ {J(r)} : job'[i] = job[i]
        /\ \/ job' = job
           \/ /\ job[J(r)].token = r /\ job'[J(r)].status = "queued"
              /\ job'[J(r)].token = Nobody /\ SameMarks(J(r))
    BY <1>1, <1>4, <2>2, PutBackRows DEF SameMarks
  <2>4. job[J(r)].token = r => job[J(r)].status = "running"
    BY <2>2, WiringAssumption DEF PInv, HeldBy
  <2>5. Steady(J(r)) \/ Waits(J(r))
    BY <2>1, <2>2, <2>3, <2>4 DEF Steady, SameMarks, Waits, Waiting
  <2>6. k # J(r) => Steady(k)  BY <2>1, <2>3 DEF Steady, SameMarks
  <2> QED  BY <2>5, <2>6 DEF Move, Plain
<1>5. CASE SnapshotInvalid(r) \/ GiveUp(r)
  <2>1. J(r) \in Jobs  BY <1>1, <1>5, RunnerStops
  <2>2. works' = works /\ \E status \in {"failed", "cancelled"} : TryFail(J(r), r, status)
    BY <1>5 DEF SnapshotInvalid, GiveUp, FailedAs, J
  <2> QED  BY <2>1, <2>2, TryFailMoves DEF Move, Plain
<1>6. CASE CheckActive(r)  BY <1>6 DEF CheckActive, Move, Plain, Steady, SameMarks
<1>7. CASE Finish(r)
  <2>1. runner[r].pc = "persisted" /\ RunnerEnds(r) /\ works' = works /\ record' = record
    BY <1>7 DEF Finish
  <2>2. J(r) \in Jobs /\ LeftByRunners(J(r)) /\ job[J(r)].settled
    BY <2>1, Leaves DEF PInv, PaidFor
  <2>3. /\ SameMarks(J(r))
        /\ IF job[J(r)].token = r
           THEN job'[J(r)].status = "succeeded" /\ job'[J(r)].token = Nobody
           ELSE job'[J(r)].status = job[J(r)].status /\ job'[J(r)].token = job[J(r)].token
        /\ \A i \in Jobs \ {J(r)} : job'[i] = job[i]
    BY <1>1, <1>7, FinishRows DEF SameMarks
  <2>4. job[J(r)].token = r => job[J(r)].status = "running"
    BY <2>2, WiringAssumption DEF PInv, HeldBy
  <2>5. Steady(J(r)) \/ Succeeds(J(r))
    BY <2>1, <2>2, <2>3, <2>4 DEF Steady, SameMarks, Succeeds
  <2>6. k # J(r) => Steady(k)  BY <2>1, <2>3 DEF Steady, SameMarks
  <2> QED  BY <2>5, <2>6 DEF Move, Plain
<1>8. CASE RetryRefused(r) \/ RetrySpooled(r)
  BY <1>8, WaitMoves DEF RetryRefused, RetrySpooled
<1>9. CASE ResumeSpool(r)
  <2>1. /\ runner[r].pc = "start" /\ RunnerEnds(r)
        /\ works' = [works EXCEPT ![J(r)] = @ + 1]
        /\ \A i \in Jobs \ {J(r)} : record'[i] = record[i]
    BY <1>1, <1>9 DEF ResumeSpool, RecordTyped
  <2>2. J(r) \in Jobs /\ ~job[J(r)].settled /\ LeftByRunners(J(r))  BY <2>1, AtWork, Leaves
  <2>3. /\ job[J(r)].token = r
        /\ job'[J(r)].status = "succeeded" /\ job'[J(r)].token = Nobody /\ job'[J(r)].settled
        /\ job'[J(r)].released = job[J(r)].released
        /\ \A i \in Jobs \ {J(r)} : job'[i] = job[i]
    BY <1>1, <1>9, ResumeRows
  <2>4. /\ works'[J(r)] = works[J(r)] + 1
        /\ \A i \in Jobs \ {J(r)} : works'[i] = works[i]
    BY <1>1, <2>1, <2>2, TInvParts DEF WorksTyped
  <2>5. job[J(r)].status = "running"
    BY <2>2, <2>3, WiringAssumption DEF PInv, HeldBy
  <2>6. Succeeds(J(r))  BY <2>2, <2>3, <2>4, <2>5 DEF Succeeds
  <2>7. k # J(r) => Steady(k)  BY <2>1, <2>3, <2>4 DEF Steady, SameMarks
  <2> QED  BY <2>6, <2>7 DEF Move, Plain
<1>10. CASE ResumeFails(r)
  <2>1. runner[r].pc = "start" /\ RunnerEnds(r) /\ works' = works  BY <1>10 DEF ResumeFails
  <2>2. J(r) \in Jobs  BY <2>1, AtWork
  <2>3. CASE WaitForRetry(r)  BY <2>1, <2>3, WaitMoves
  <2>4. CASE UNCHANGED <<job, record, credits>>
    BY <2>1, <2>4 DEF Move, Plain, Steady, SameMarks
  <2>5. CASE TryFail(J(r), r, "failed")  BY <2>1, <2>2, <2>5, TryFailMoves DEF Move, Plain
  <2> QED  BY <1>10, <2>3, <2>4, <2>5 DEF ResumeFails
<1> QED
  BY <1>2, <1>3, <1>4, <1>5, <1>6, <1>7, <1>8, <1>9, <1>10 DEF RunnerStep

\* What the start of the only process does to job k.
LEMMA RecoverMoves ==
  ASSUME PInv, NEW p \in Processes, RecoverJob(p), NEW k \in Jobs
  PROVE  Move(k) /\ (k # todo[p].at => Steady(k))
<1> DEFINE j == todo[p].at
<1>1. TInv /\ JobTyped /\ RecordTyped /\ RunnerTyped  BY TInvParts DEF PInv
<1>2. /\ process[p] = "recovering" /\ j \in Jobs /\ j # 0
      /\ works' = works /\ runner' = runner
  <2>1. process[p] = "recovering" /\ j \in Jobs  BY <1>1, RecoverRows
  <2>2. j # 0  BY <2>1 DEF Jobs
  <2> QED  BY <2>1, <2>2 DEF RecoverJob
<1>3. /\ \A r \in Runners : runner[r].pc = "idle"
      /\ job[j].status = "running"
  BY <1>2 DEF PInv, Quiet
<1>4. LeftByRunners(j)
  BY <1>1, <1>2, <1>3 DEF LeftByRunners, RunnerTyped, Placed, Idle
<1>5. CASE todo[p].verdict = "succeeded" /\ RecoverSucceeded(j)
  <2>1. job[j].settled  BY <1>5 DEF PInv, PaidFor
  <2>2. /\ record' = record
        /\ job'[j].status = "succeeded" /\ job'[j].token = Nobody /\ job'[j].settled
        /\ job'[j].released = job[j].released
        /\ \A i \in Jobs \ {j} : job'[i] = job[i]
    BY <1>1, <1>2, <1>3, <1>5, RecoverSucceededRows
  <2>3. Succeeds(j)  BY <1>2, <1>3, <1>4, <2>1, <2>2 DEF Succeeds
  <2>4. k # j => Steady(k)  BY <1>2, <2>2 DEF Steady, SameMarks
  <2> QED  BY <2>3, <2>4 DEF Move, Plain
<1>6. CASE RecoverFailed(j)
  <2>1. \E status \in {"failed", "cancelled"}, t \in {Nobody} : TryFail(j, t, status)
    BY <1>6 DEF RecoverFailed, FailedAs
  <2> QED  BY <1>2, <2>1, TryFailMoves DEF Move, Plain
<1>7. CASE todo[p].verdict = "requeue" /\ Requeue(j)
  <2>1. ~job[j].settled  BY <1>7 DEF PInv, PaidOnce
  <2>2. /\ job'[j].status = "queued" /\ job'[j].token = Nobody /\ SameMarks(j)
        /\ \A i \in Jobs \ {j} : job'[i] = job[i] /\ record'[i] = record[i]
    BY <1>1, <1>2, <1>7, RequeueRows DEF SameMarks
  <2>3. Waits(j)  BY <1>2, <1>3, <1>4, <2>1, <2>2 DEF Waits, Waiting
  <2>4. k # j => Steady(k)  BY <1>2, <2>2 DEF Steady, SameMarks
  <2> QED  BY <2>3, <2>4 DEF Move, Plain
<1> QED  BY <1>5, <1>6, <1>7 DEF RecoverJob

\* A step moves every job as the invariant allows, and only a runner or a recovery
\* settles one.
LEMMA OtherMoves ==
  ASSUME PInv, [Next]_vars,
         ~\E r \in Runners : RunnerStep(r), ~\E p \in Processes : RecoverJob(p)
  PROVE  \A k \in Jobs : Plain(k)
<1> SUFFICES ASSUME NEW k \in Jobs  PROVE Plain(k)
  OBVIOUS
<1>1. TInv  BY DEF PInv
<1>2. CASE job' = job /\ works' = works /\ record' = record
  BY <1>2 DEF Plain, Steady, SameMarks
<1>3. ASSUME NEW j \in Jobs, Enqueue(j)  PROVE Plain(k)
  <2>1. works' = works  BY <1>3 DEF Enqueue
  <2>2. Enqueued(j) /\ (k # j => Steady(k))
    BY <1>1, <1>3, <2>1, EnqueueRows DEF Enqueued, Steady, SameMarks
  <2> QED  BY <2>2 DEF Plain
<1>4. ASSUME NEW j \in Jobs, CancelJob(j) \/ Expire(j)  PROVE Plain(k)
  <2>1. works' = works /\ \E t \in {canceller[j].token, Nobody},
                             status \in {"failed", "cancelled"} : TryFail(j, t, status)
    BY <1>4 DEF CancelJob, Expire
  <2> QED  BY <2>1, TryFailMoves DEF Plain
<1>5. ASSUME NEW j \in Jobs, CancelMark(j) \/ CancelRest(j) \/ DeadlinePasses(j)
                             \/ BackoffElapses(j) \/ LeaseExpires(j)
      PROVE  Plain(k)
  <2>1. JobsFenced /\ works' = works  BY <1>1, <1>5, MarksOnly
  <2>2. record' = record \/ FailRecord(j)
    BY <1>5 DEF CancelMark, CancelRest, DeadlinePasses, BackoffElapses, LeaseExpires
  <2>3. record[k].status = "succeeded" => record'[k].status = "succeeded"
    <3>1. RecordTyped  BY <1>1, TInvParts
    <3> QED  BY <2>2, <3>1 DEF FailRecord, RecordTyped, RecordRow
  <2>4. Steady(k)  BY <2>1, <2>3 DEF Steady, SameMarks, JobsFenced
  <2> QED  BY <2>4 DEF Plain
<1>6. ASSUME NEW r \in Runners, NEW j \in Jobs, Claim(r, j)  PROVE Plain(k)
  <2>1. works' = works /\ record' = record  BY <1>6 DEF Claim
  <2>2. Claimed(j) /\ (k # j => Steady(k))
    BY <1>1, <1>6, <2>1, ClaimRows DEF Claimed, Steady, SameMarks
  <2> QED  BY <2>2 DEF Plain
<1> QED
  BY <1>2, <1>3, <1>4, <1>5, <1>6
  DEF Next, vars, JobStep, ProcessStep, CancelRead, OrphanLeaseExpires, ProcessStarts,
      ProcessUp, RecoverLook, Crash

LEMMA Moves ==
  ASSUME PInv, [Next]_vars
  PROVE  \A k \in Jobs : Move(k)
BY OtherMoves, RunnerMoves, RecoverMoves DEF Move

\* What a step may do to runner r.
Stays(r) == runner'[r].pc = runner[r].pc /\ runner'[r].job = runner[r].job
Stops(r) == runner'[r] = Idle
Takes(r) == /\ runner[r].pc = "idle" /\ runner'[r].pc # "idle"
            /\ \E j \in Jobs :
                 /\ runner'[r].job = j
                 /\ job[j].status \in Waiting /\ job'[j].token = r
                 /\ ~job'[j].settled
                 /\ \A q \in Runners \ {r} : runner'[q] = runner[q]
Goes(r) == /\ runner[r].pc \notin {"idle", "persisted"} /\ runner'[r].pc # "idle"
           /\ runner'[r].job = runner[r].job

LEMMA RunnerDoes ==
  ASSUME PInv, [Next]_vars, NEW r \in Runners
  PROVE  Stays(r) \/ Stops(r) \/ Takes(r) \/ Goes(r)
<1>1. TInv /\ RunnerTyped  BY TInvParts DEF PInv
<1>2. CASE runner' = runner  BY <1>2 DEF Stays
<1>3. ASSUME NEW j \in Jobs, CancelRest(j)  PROVE Stays(r)
  BY <1>1, <1>3, MarksOnly DEF Stays
<1>4. ASSUME NEW q \in Runners, NEW j \in Jobs, Claim(q, j)  PROVE Stays(r) \/ Takes(r)
  <2>1. /\ runner[q].pc = "idle"
        /\ job[j].status \in Waiting /\ job'[j].token = q
        /\ job'[j].settled = job[j].settled
        /\ runner'[q].pc = "claimed" /\ runner'[q].job = j
        /\ \A i \in Runners \ {q} : runner'[i] = runner[i]
    BY <1>1, <1>4, ClaimRows
  <2>2. ~job[j].settled  BY <2>1 DEF PInv, PaidOnce, Waiting, Ended
  <2>3. Takes(q) /\ (r # q => Stays(r))
    <3>1. Takes(q)  BY <2>1, <2>2 DEF Takes
    <3> QED  BY <2>1, <3>1 DEF Stays
  <2> QED  BY <2>3
<1>5. ASSUME NEW p \in Processes, Crash(p)  PROVE Stays(r) \/ Stops(r)
  BY <1>1, <1>5, CrashRows DEF Stays, Stops
<1>6. ASSUME NEW q \in Runners, RunnerStep(q)  PROVE Stays(r) \/ Stops(r) \/ Goes(r)
  <2>1. CASE \/ Start(q) \/ SaveRunning(q) \/ Register(q) \/ PreparationFails(q)
             \/ StatementErrs(q) \/ AskProvider(q)
             \/ ProviderDelivers(q) \/ ProviderRefuses(q) \/ ProviderSilent(q)
             \/ (CheckActive(q) /\ record[J(q)].status = "active")
             \/ SavePersisting(q) \/ PersistFails(q)
    <3>1. /\ runner[q].pc \notin {"idle", "persisted"}
          /\ \E pc \in RunnerStates \ {"idle", "claimed", "persisted"} : RunnerGoes(q, pc)
      BY <1>1, <2>1, RunnerGoesOn
    <3>2. /\ runner'[q].pc # "idle" /\ runner'[q].job = runner[q].job
          /\ \A i \in Runners \ {q} : runner'[i] = runner[i]
      BY <1>1, <3>1, GoesRows
    <3> QED  BY <3>1, <3>2 DEF Stays, Goes
  <2>2. CASE Persist(q)
    <3>1. runner[q].pc = "persisting" /\ RunnerGoes(q, "persisted")  BY <2>2 DEF Persist
    <3>2. /\ runner'[q].pc # "idle" /\ runner'[q].job = runner[q].job
          /\ \A i \in Runners \ {q} : runner'[i] = runner[i]
      BY <1>1, <3>1, GoesRows DEF RunnerStates
    <3> QED  BY <3>1, <3>2 DEF Stays, Goes
  <2>3. CASE \/ PutBack(q) \/ SnapshotInvalid(q)
             \/ (CheckActive(q) /\ record[J(q)].status # "active")
             \/ Finish(q) \/ RetryRefused(q) \/ RetrySpooled(q) \/ GiveUp(q)
             \/ ResumeSpool(q) \/ ResumeFails(q)
    <3>1. RunnerEnds(q)  BY <1>1, <2>3, RunnerStops
    <3> QED  BY <1>1, <3>1, EndsRows DEF Stays, Stops
  <2> QED  BY <1>6, <2>1, <2>2, <2>3 DEF RunnerStep
<1> QED
  BY <1>2, <1>3, <1>4, <1>5, <1>6
  DEF Next, vars, JobStep, ProcessStep, Enqueue, CancelMark, CancelJob, DeadlinePasses,
      BackoffElapses, Expire, LeaseExpires, CancelRead, OrphanLeaseExpires, ProcessStarts,
      RecoverJob, ProcessUp, RecoverLook

LEMMA HeldStep ==
  ASSUME PInv, [Next]_vars
  PROVE  HeldBy' /\ OneRunnerPerJob'
<1>1. RunnerTyped /\ \A k \in Jobs : Move(k)  BY Moves, TInvParts DEF PInv
<1>2. /\ \A j \in Jobs : job[j].token # Nobody => job[j].status = "running"
      /\ \A r \in Runners : runner[r].pc # "idle" =>
            job[runner[r].job].token = r \/ job[runner[r].job].status \in Ended
  BY DEF PInv, HeldBy, J
<1>3. \A j \in Jobs : job'[j].token # Nobody => job'[j].status = "running"
  BY <1>1, <1>2
  DEF Move, Plain, Steady, Enqueued, Failed, Claimed, Waits, Persisted, Succeeds
<1>4. ASSUME NEW r \in Runners, runner'[r].pc # "idle"
      PROVE  job'[runner'[r].job].token = r \/ job'[runner'[r].job].status \in Ended
  <2>1. CASE Takes(r)  BY <2>1 DEF Takes
  <2>2. CASE Stays(r) \/ Goes(r)
    <3> DEFINE k == runner[r].job
    <3>1. runner[r].pc # "idle" /\ runner'[r].job = k /\ k \in Jobs
      BY <1>1, <1>4, <2>2 DEF Stays, Goes, RunnerTyped, Placed
    <3>2. Move(k) /\ ~LeftByRunners(k)  BY <1>1, <3>1 DEF LeftByRunners
    <3>3. job[k].status \in Ended \/ (job[k].token = r /\ job[k].status = "running")
      BY <1>2, <3>1, WiringAssumption
    <3> HIDE DEF k
    <3>4. job'[k].token = r \/ job'[k].status \in Ended
      BY <3>2, <3>3 DEF Move, Plain, Steady, Enqueued, Failed, Claimed, Waits, Persisted,
                        Succeeds, Waiting, Active, Ended
    <3> QED  BY <3>1, <3>4
  <2>3. ~Stops(r)  BY <1>4 DEF Stops, Idle
  <2> QED  BY <2>1, <2>2, <2>3, RunnerDoes
<1>5. ASSUME NEW q \in Runners, NEW r \in Runners, q # r,
             runner'[q].job # 0, runner'[q].job = runner'[r].job
      PROVE  FALSE
  <2>1. ~Stops(q) /\ ~Stops(r)  BY <1>5 DEF Stops, Idle
  <2>2. ASSUME NEW i \in Runners, NEW o \in Runners, i # o, Takes(i),
               runner'[o].job = runner'[i].job
        PROVE  FALSE
    <3>1. PICK j \in Jobs :
             /\ runner'[i].job = j
             /\ job[j].status \in Waiting
             /\ \A n \in Runners \ {i} : runner'[n] = runner[n]
      BY <2>2 DEF Takes
    <3>2. runner[o].job = j /\ j # 0  BY <2>2, <3>1 DEF Jobs
    <3>3. runner[o].pc # "idle"  BY <1>1, <3>2 DEF RunnerTyped, Placed, Idle
    <3> QED  BY <1>2, <3>1, <3>2, <3>3, WiringAssumption DEF Waiting, Ended
  <2>3. ~Takes(q) /\ ~Takes(r)  BY <1>5, <2>2
  <2>4. runner'[q].job = runner[q].job /\ runner'[r].job = runner[r].job
    BY <2>1, <2>3, RunnerDoes DEF Stays, Goes
  <2> QED  BY <1>5, <2>4 DEF PInv, OneRunnerPerJob
<1> QED  BY <1>3, <1>4, <1>5 DEF HeldBy, OneRunnerPerJob, J

\* Holds and Works, job by job.
LEMMA HoldsStep ==
  ASSUME PInv, [Next]_vars
  PROVE  Fresh' /\ HoldEndsWithJob' /\ WorkIffSettled'
<1>1. /\ \A k \in Jobs : Move(k)
      /\ \A j \in Jobs : job[j].status = "absent" => ~job[j].released /\ ~job[j].settled
      /\ \A j \in Jobs : /\ job[j].status \in Ended => job[j].settled \/ job[j].released
                         /\ job[j].status \in Active => ~job[j].released
      /\ \A j \in Jobs : works[j] = IF job[j].settled THEN 1 ELSE 0
  BY Moves DEF PInv, Fresh, HoldEndsWithJob, WorkIffSettled
<1>2. \A j \in Jobs : job'[j].status = "absent" => ~job'[j].released /\ ~job'[j].settled
  BY <1>1 DEF Move, Plain, Steady, Enqueued, Failed, Claimed, Waits, Persisted, Succeeds,
              SameMarks, Waiting, Ended
<1>3. \A j \in Jobs : /\ job'[j].status \in Ended => job'[j].settled \/ job'[j].released
                      /\ job'[j].status \in Active => ~job'[j].released
  BY <1>1 DEF Move, Plain, Steady, Enqueued, Failed, Claimed, Waits, Persisted, Succeeds,
              SameMarks, HoldOpen, Waiting, Ended, Active
<1>4. \A j \in Jobs : works'[j] = IF job'[j].settled THEN 1 ELSE 0
  BY <1>1 DEF Move, Plain, Steady, Enqueued, Failed, Claimed, Waits, Persisted, Succeeds,
              SameMarks
<1> QED  BY <1>2, <1>3, <1>4 DEF Fresh, HoldEndsWithJob, WorkIffSettled

\* While nobody is at work, nothing happens but timers and recovery.
LEMMA UpWhile ==
  ASSUME OneProcess, PInv
  PROVE  /\ \A r \in Runners : runner[r].pc # "idle" =>
               \A p \in Processes : process[p] = "up" /\ todo[p] = NothingToDo
         /\ \A j \in Jobs : canceller[j].pc # "idle" =>
               \A p \in Processes : process[p] = "up" /\ todo[p] = NothingToDo
         /\ (\E p \in Processes : process[p] = "up") =>
               \A p \in Processes : process[p] = "up" /\ todo[p] = NothingToDo
BY DEF OneProcess, PInv, Quiet

LEMMA PaidOnceStep ==
  ASSUME OneProcess, PInv, [Next]_vars
  PROVE  PaidOnce'
<1>1. TInv /\ RunnerTyped /\ \A k \in Jobs : Move(k)  BY Moves, TInvParts DEF PInv
<1>2. \A j \in Jobs : job[j].settled =>
          /\ job[j].status \in Ended \union {"running"}
          /\ job[j].status = "running" => record[j].status = "succeeded"
          /\ \A r \in Runners : runner[r].job = j => runner[r].pc = "persisted"
  BY DEF PInv, PaidOnce
<1>3. \A j \in Jobs : job[j].status = "absent" => ~job[j].settled  BY DEF PInv, Fresh
<1>4. ASSUME NEW j \in Jobs, job'[j].settled
      PROVE  /\ job'[j].status \in Ended \union {"running"}
             /\ job'[j].status = "running" => record'[j].status = "succeeded"
  BY <1>1, <1>2, <1>3, <1>4
  DEF Move, Plain, Steady, Enqueued, Failed, Claimed, Waits, Persisted, Succeeds, SameMarks,
      Waiting, Ended
<1>5. ASSUME NEW j \in Jobs, job'[j].settled, NEW r \in Runners, runner'[r].job = j
      PROVE  runner'[r].pc = "persisted"
  <2>1. j # 0 /\ Move(j) /\ ~LeftByRunners(j)  BY <1>1, <1>5 DEF Jobs, LeftByRunners
  <2>2. ~Stops(r)  BY <1>5, <2>1 DEF Stops, Idle
  <2>3. ~Takes(r)  BY <1>5 DEF Takes
  <2>4. CASE job[j].settled
    BY <1>2, <1>5, <2>2, <2>3, <2>4, RunnerDoes DEF Stays, Goes
  <2>5. CASE ~job[j].settled
    BY <1>5, <2>1, <2>5
    DEF Move, Plain, Steady, Enqueued, Failed, Claimed, Waits, Persisted, Succeeds, SameMarks
  <2> QED  BY <2>4, <2>5
<1>6. ASSUME NEW p \in Processes, todo'[p].verdict \in {"failed", "unknown", "requeue"}
      PROVE  ~job'[todo'[p].at].settled
  <2>1. \A q \in Processes : q = p  BY DEF OneProcess
  <2>2. ASSUME NEW r \in Runners, RunnerStep(r)  PROVE FALSE
    <3>1. runner[r].pc # "idle" /\ todo' = todo
      BY <2>2 DEF RunnerStep, Start, PutBack, SnapshotInvalid, SaveRunning, Register,
         PreparationFails, StatementErrs, AskProvider, ProviderDelivers, ProviderRefuses,
         ProviderSilent, CheckActive, SavePersisting, Persist, PersistFails, Finish,
         RetryRefused, RetrySpooled, GiveUp, ResumeSpool, ResumeFails
    <3> QED  BY <1>6, <3>1, UpWhile DEF NothingToDo
  <2>3. ASSUME RecoverJob(p)  PROVE FALSE
    <3>1. todo[p] \in TodoRow  BY <1>1, TInvParts DEF TodoTyped
    <3>2. todo'[p] \in {NothingToDo, [todo[p] EXCEPT !.at = 0, !.verdict = "none"]}
      BY <1>1, <2>3, RecoverRows
    <3>3. todo'[p].verdict = "none"
      <4>1. [todo[p] EXCEPT !.at = 0, !.verdict = "none"].verdict = "none"
        BY <3>1 DEF TodoRow
      <4>2. NothingToDo.verdict = "none"  BY DEF NothingToDo
      <4> QED  BY <3>2, <4>1, <4>2
    <3> QED  BY <1>6, <3>3
  <2>4. \A k \in Jobs : Plain(k)  BY <2>1, <2>2, <2>3, OtherMoves
  <2>5. \A k \in Jobs : job'[k].settled = job[k].settled
    BY <2>4 DEF Plain, Steady, Enqueued, Failed, Claimed, SameMarks
  <2>6. CASE todo'[p] = todo[p]
    <3>1. todo[p].at \in Jobs
      BY <1>1, <1>6, <2>6, TInvParts DEF TodoTyped, TodoRow, VerdictPlaced, Jobs
    <3> QED  BY <1>6, <2>5, <2>6, <3>1 DEF PInv, PaidOnce
  <2>7. ASSUME NEW j \in Jobs, RecoverLook(p, j)  PROVE ~job'[todo'[p].at].settled
    <3>1. /\ process[p] = "recovering" /\ j \in todo[p].jobs
          /\ todo'[p] = [jobs |-> todo[p].jobs \ {j}, at |-> j, verdict |-> Verdict(j)]
      BY <1>1, <2>7, LookRows
    <3>2. job[j].status = "running"  BY <3>1 DEF PInv, Quiet
    <3>3. record[j].status # "succeeded"  BY <1>6, <3>1 DEF Verdict
    <3> QED  BY <1>2, <2>5, <3>1, <3>2, <3>3
  <2>8. ASSUME ProcessStarts(p)  PROVE FALSE
    <3>1. process[p] = "down" /\ todo'[p].verdict = todo[p].verdict
      BY <1>1, <2>8, StartRows
    <3> QED  BY <1>6, <3>1 DEF PInv, Quiet, NothingToDo
  <2>9. ASSUME Crash(p)  PROVE FALSE
    BY <1>1, <1>6, <2>9, CrashRows DEF NothingToDo
  <2> QED
    BY <2>1, <2>2, <2>3, <2>6, <2>7, <2>8, <2>9
    DEF Next, vars, JobStep, ProcessStep, Enqueue, CancelMark, CancelJob, CancelRest,
        DeadlinePasses, BackoffElapses, Expire, LeaseExpires, CancelRead, Claim,
        OrphanLeaseExpires, ProcessUp
<1> QED  BY <1>4, <1>5, <1>6 DEF PaidOnce

LEMMA QuietStep ==
  ASSUME OneProcess, PInv, [Next]_vars
  PROVE  Quiet'
<1>1. /\ TInv /\ RunnerTyped /\ TodoTyped /\ CancellerTyped
      /\ \A j \in Jobs : canceller[j].pc # "idle" => canceller[j].at \in Processes
      /\ \A p \in Processes :
            /\ process[p] # "recovering" => todo[p] = NothingToDo
            /\ process[p] # "up" =>
                  /\ \A r \in Runners : runner[r].pc = "idle"
                  /\ \A j \in Jobs : canceller[j].pc = "idle"
                  /\ \A j \in todo[p].jobs \union ({todo[p].at} \ {0}) :
                        job[j].status = "running"
                  /\ todo[p].at \notin todo[p].jobs
  BY TInvParts DEF PInv, Quiet
<1> DEFINE At == \A j \in Jobs : canceller'[j].pc # "idle" => canceller'[j].at \in Processes
           Still == \A p \in Processes :
                       /\ process'[p] # "recovering" => todo'[p] = NothingToDo
                       /\ process'[p] # "up" =>
                             /\ \A r \in Runners : runner'[r].pc = "idle"
                             /\ \A j \in Jobs : canceller'[j].pc = "idle"
                             /\ \A j \in todo'[p].jobs \union ({todo'[p].at} \ {0}) :
                                   job'[j].status = "running"
                             /\ todo'[p].at \notin todo'[p].jobs
<1> SUFFICES At /\ Still  BY DEF Quiet
<1>2. ASSUME process' = process, todo' = todo, \E p \in Processes : process[p] = "up"
      PROVE  Still
  BY <1>2, UpWhile
<1>3. ASSUME canceller' = canceller  PROVE At
  BY <1>1, <1>3
<1>4. \A p \in Processes : /\ todo[p].jobs \subseteq Jobs /\ 0 \notin todo[p].jobs
                           /\ todo[p].at \in Jobs \union {0}
  BY <1>1 DEF TodoTyped, TodoRow, Jobs
<1>5. ASSUME process' = process, todo' = todo, canceller' = canceller,
             \A r \in Runners : runner'[r].pc = runner[r].pc,
             \A j \in Jobs : job'[j].status = job[j].status
      PROVE  At /\ Still
  BY <1>1, <1>4, <1>5
<1>6. ASSUME NEW j \in Jobs, Enqueue(j) \/ Expire(j)  PROVE At /\ Still
  <2>1. /\ process' = process /\ todo' = todo /\ canceller' = canceller
        /\ \E p \in Processes : process[p] = "up"
    BY <1>6 DEF Enqueue, Expire
  <2> QED  BY <1>2, <1>3, <2>1
<1>7. ASSUME NEW p \in Processes, NEW j \in Jobs, CancelRead(p, j)  PROVE At /\ Still
  <2>1. process' = process /\ todo' = todo /\ process[p] = "up"  BY <1>7 DEF CancelRead
  <2>2. At  BY <1>1, <1>7 DEF CancelRead, CancelAt, CancellerTyped
  <2> QED  BY <1>2, <2>1, <2>2
<1>8. ASSUME NEW j \in Jobs, CancelMark(j) \/ CancelJob(j) \/ CancelRest(j)
      PROVE  At /\ Still
  <2>1. canceller[j].pc # "idle" /\ process' = process /\ todo' = todo
    BY <1>8 DEF CancelMark, CancelJob, CancelRest
  <2>2. canceller[j] \in CancelRow /\ canceller[j].at \in Processes
    BY <1>1, <2>1 DEF CancellerTyped
  <2>3. \E row \in CancelRow : /\ row.pc # "idle" => row.at \in Processes
                               /\ canceller' = [canceller EXCEPT ![j] = row]
    <3>1. CASE CancelMark(j)
      <4>1. job[j].token \in Runners \union {Nobody}
        BY <1>1, TInvParts DEF JobTyped, JobRow
      <4> QED  BY <2>2, <3>1, <4>1 DEF CancelMark, CancelAt, CancelRow
    <3>2. NoCancel \in CancelRow /\ NoCancel.pc = "idle"  BY DEF NoCancel, CancelRow
    <3>3. CASE CancelJob(j)
      <4>1. [canceller[j] EXCEPT !.pc = "tried"] \in CancelRow
            /\ [canceller[j] EXCEPT !.pc = "tried"].at = canceller[j].at
        BY <2>2 DEF CancelRow
      <4> QED  BY <2>2, <3>2, <3>3, <4>1 DEF CancelJob, CancelAt
    <3>4. CASE CancelRest(j)  BY <3>2, <3>4 DEF CancelRest, CancelAt
    <3> QED  BY <1>8, <3>1, <3>3, <3>4
  <2>4. At  BY <1>1, <2>3 DEF CancellerTyped
  <2>5. \E p \in Processes : process[p] = "up"  BY <2>1, <2>2, UpWhile
  <2> QED  BY <1>2, <2>1, <2>4, <2>5
<1>9. ASSUME NEW j \in Jobs, DeadlinePasses(j) \/ BackoffElapses(j) \/ LeaseExpires(j)
      PROVE  At /\ Still
  <2>1. process' = process /\ todo' = todo /\ canceller' = canceller /\ runner' = runner
    BY <1>9 DEF DeadlinePasses, BackoffElapses, LeaseExpires
  <2>2. JobsFenced  BY <1>1, <1>9, MarksOnly
  <2> QED  BY <1>5, <2>1, <2>2 DEF JobsFenced
<1>10. CASE OrphanLeaseExpires \/ UNCHANGED vars
  BY <1>5, <1>10 DEF OrphanLeaseExpires, vars
<1>11. ASSUME NEW r \in Runners, NEW j \in Jobs, Claim(r, j)  PROVE At /\ Still
  <2>1. /\ process' = process /\ todo' = todo /\ canceller' = canceller
        /\ process[Host[r]] = "up" /\ Host[r] \in Processes
    BY <1>11, WiringAssumption DEF Claim
  <2> QED  BY <1>2, <1>3, <2>1
<1>12. ASSUME NEW r \in Runners, RunnerStep(r)  PROVE At /\ Still
  <2>1. runner[r].pc # "idle" /\ process' = process /\ todo' = todo /\ canceller' = canceller
    BY <1>12 DEF RunnerStep, Start, PutBack, SnapshotInvalid, SaveRunning, Register,
       PreparationFails, StatementErrs, AskProvider, ProviderDelivers, ProviderRefuses,
       ProviderSilent, CheckActive, SavePersisting, Persist, PersistFails, Finish,
       RetryRefused, RetrySpooled, GiveUp, ResumeSpool, ResumeFails
  <2>2. Host[r] \in Processes  BY WiringAssumption
  <2>3. \E p \in Processes : process[p] = "up"  BY <2>1, <2>2, UpWhile
  <2> QED  BY <1>2, <1>3, <2>1, <2>3
<1>13. ASSUME NEW p \in Processes, Crash(p)  PROVE At /\ Still
  <2>1. \A q \in Processes : q = p  BY DEF OneProcess
  <2>2. /\ todo'[p] = NothingToDo /\ process'[p] = "down"
        /\ \A r \in Runners : runner'[r] = IF Host[r] = p THEN Idle ELSE runner[r]
        /\ \A j \in Jobs : canceller'[j] = IF canceller[j].at = p THEN NoCancel
                                           ELSE canceller[j]
    BY <1>1, <1>13, CrashRows
  <2>3. \A r \in Runners : runner'[r].pc = "idle"
    BY <2>1, <2>2, WiringAssumption DEF Idle
  <2>4. \A j \in Jobs : canceller'[j].pc = "idle"  BY <1>1, <2>1, <2>2 DEF NoCancel
  <2>5. NothingToDo.jobs = {} /\ NothingToDo.at = 0  BY DEF NothingToDo
  <2> QED  BY <2>1, <2>2, <2>3, <2>4, <2>5
<1>14. ASSUME NEW p \in Processes, ProcessStarts(p)  PROVE At /\ Still
  <2>1. \A q \in Processes : q = p  BY DEF OneProcess
  <2>2. /\ process[p] = "down" /\ process'[p] = "recovering" /\ todo'[p].at = todo[p].at
        /\ \A j \in todo'[p].jobs : j \in Jobs /\ job[j].status = "running"
    BY <1>1, <1>14, StartRows
  <2>3. runner' = runner /\ canceller' = canceller /\ job' = job
    BY <1>14 DEF ProcessStarts
  <2>4. todo'[p].at = 0  BY <1>1, <2>2 DEF NothingToDo
  <2>5. 0 \notin Jobs  BY DEF Jobs
  <2> QED  BY <1>1, <2>1, <2>2, <2>3, <2>4, <2>5
<1>15. ASSUME NEW p \in Processes, NEW j \in Jobs, RecoverLook(p, j)  PROVE At /\ Still
  <2>1. \A q \in Processes : q = p  BY DEF OneProcess
  <2>2. /\ process[p] = "recovering" /\ j \in todo[p].jobs
        /\ todo'[p] = [jobs |-> todo[p].jobs \ {j}, at |-> j, verdict |-> Verdict(j)]
    BY <1>1, <1>15, LookRows
  <2>3. runner' = runner /\ canceller' = canceller /\ job' = job /\ process' = process
    BY <1>15 DEF RecoverLook
  <2>4. todo'[p].jobs = todo[p].jobs \ {j} /\ todo'[p].at = j  BY <2>2
  <2> QED  BY <1>1, <2>1, <2>2, <2>3, <2>4
<1>16. ASSUME NEW p \in Processes, RecoverJob(p)  PROVE At /\ Still
  <2>1. \A q \in Processes : q = p  BY DEF OneProcess
  <2>2. /\ process[p] = "recovering" /\ runner' = runner /\ canceller' = canceller
        /\ todo'[p] \in {NothingToDo, [todo[p] EXCEPT !.at = 0, !.verdict = "none"]}
        /\ (todo'[p] = NothingToDo /\ process'[p] = "down") \/ process' = process
    BY <1>1, <1>16, RecoverRows
  <2>3. todo'[p].at = 0 /\ todo'[p].jobs \subseteq todo[p].jobs
    <3>1. todo[p] \in TodoRow  BY <1>1 DEF TodoTyped
    <3>2. [todo[p] EXCEPT !.at = 0, !.verdict = "none"].at = 0
          /\ [todo[p] EXCEPT !.at = 0, !.verdict = "none"].jobs = todo[p].jobs
      BY <3>1 DEF TodoRow
    <3>3. NothingToDo.jobs = {} /\ NothingToDo.at = 0  BY DEF NothingToDo
    <3> QED  BY <2>2, <3>2, <3>3
  <2>4. \A j \in todo'[p].jobs : job'[j].status = "running"
    <3>1. \A j \in Jobs : j # todo[p].at => job'[j].status = job[j].status
      BY <1>16, RecoverMoves DEF Steady
    <3> QED  BY <1>1, <1>4, <2>2, <2>3, <3>1
  <2>5. 0 \notin todo'[p].jobs  BY <1>4, <2>3
  <2> QED  BY <1>1, <2>1, <2>2, <2>3, <2>4, <2>5
<1>17. ASSUME NEW p \in Processes, ProcessUp(p)  PROVE At /\ Still
  <2>1. \A q \in Processes : q = p  BY DEF OneProcess
  <2>2. /\ process'[p] = "up" /\ todo'[p] = NothingToDo /\ canceller' = canceller
    BY <1>1, <1>17, TInvParts DEF ProcessUp, ProcessTyped
  <2> QED  BY <1>3, <2>1, <2>2
<1> QED
  BY <1>6, <1>7, <1>8, <1>9, <1>10, <1>11, <1>12, <1>13, <1>14, <1>15, <1>16, <1>17
  DEF Next, JobStep, ProcessStep

LEMMA PInvStep ==
  ASSUME OneProcess, PInv, [Next]_vars
  PROVE  PInv'
<1>1. TInv /\ PaidFor  BY DEF PInv
<1>2. TInv' /\ PaidFor'  BY <1>1, TInvStep, PaidForStep
<1> QED  BY <1>2, HeldStep, HoldsStep, PaidOnceStep, QuietStep DEF PInv

LEMMA InitHeld == Init => PInv
<1> SUFFICES ASSUME Init  PROVE PInv
  OBVIOUS
<1>1. TInv /\ PaidFor  BY InitTyped, InitPaid
<1>2. /\ \A j \in Jobs : /\ job[j].status = "absent" /\ job[j].token = Nobody
                         /\ ~job[j].settled /\ ~job[j].released
                         /\ works[j] = 0 /\ canceller[j].pc = "idle"
      /\ \A r \in Runners : runner[r].pc = "idle" /\ runner[r].job = 0
      /\ \A p \in Processes : process[p] = "up" /\ todo[p] = NothingToDo
  BY DEF Init, NoJob, NoCancel, Idle
<1>3. HeldBy /\ OneRunnerPerJob  BY <1>2 DEF HeldBy, OneRunnerPerJob
<1>4. Fresh /\ HoldEndsWithJob /\ WorkIffSettled
  BY <1>2 DEF Fresh, HoldEndsWithJob, WorkIffSettled, Ended, Active, Waiting
<1>5. Quiet /\ PaidOnce  BY <1>2 DEF Quiet, PaidOnce, NothingToDo
<1> QED  BY <1>1, <1>3, <1>4, <1>5 DEF PInv

\* With one process, two runners never work on one job, whatever crashes, recoveries
\* and cancellations do to it.
THEOREM OneRunnerAlways ==
  ASSUME OneProcess
  PROVE  Spec => []OneRunnerPerJob
<1>1. Init => PInv  BY InitHeld
<1>2. PInv /\ [Next]_vars => PInv'  BY PInvStep
<1>3. PInv => OneRunnerPerJob  BY DEF PInv
<1> QED  BY <1>1, <1>2, <1>3, PTL DEF Spec

\* With one process, holds end with their jobs, and no credit is created or lost.
THEOREM HoldsAlwaysAddUp ==
  ASSUME OneProcess
  PROVE  Spec => []HoldsAddUp
<1>1. Init => PInv /\ CreditsAddUp  BY InitHeld, InitPaid
<1>2. PInv /\ CreditsAddUp /\ [Next]_vars => (PInv /\ CreditsAddUp)'
  <2>1. PInv => TInv /\ PaidFor  BY DEF PInv
  <2> QED  BY <2>1, PInvStep, CreditsStep
<1>3. PInv /\ CreditsAddUp => HoldsAddUp  BY DEF PInv, TInv, HoldsAddUp
<1> QED  BY <1>1, <1>2, <1>3, PTL DEF Spec

\* With one process, there is one Work for every settled hold and none for the others.
THEOREM WorkAlwaysIffSettled ==
  ASSUME OneProcess
  PROVE  Spec => []WorkIffSettled
<1>1. Init => PInv  BY InitHeld
<1>2. PInv /\ [Next]_vars => PInv'  BY PInvStep
<1>3. PInv => WorkIffSettled  BY DEF PInv
<1> QED  BY <1>1, <1>2, <1>3, PTL DEF Spec

\* With one process, a job that has ended never starts again: a recovery leaves it
\* alone, and a runner that finishes late has lost its token.
THEOREM JobsEndOnce ==
  ASSUME OneProcess
  PROVE  Spec => JobEndsOnce
<1> DEFINE EndsOnce == \A j \in Jobs : job[j].status \in Ended => job'[j].status = job[j].status
<1>1. Init => PInv  BY InitHeld
<1>2. PInv /\ [Next]_vars => PInv'  BY PInvStep
<1>3. PInv /\ [Next]_vars => EndsOnce
  BY Moves DEF Move, Plain, Steady, Enqueued, Failed, Claimed, Waits, Persisted, Succeeds,
               Waiting, Active, Ended
<1>4. PInv /\ [Next]_vars => [EndsOnce]_vars  BY <1>3
<1> HIDE DEF EndsOnce
<1>5. Spec => [][EndsOnce]_vars  BY <1>1, <1>2, <1>4, PTL DEF Spec
<1> QED  BY <1>5 DEF JobEndsOnce, EndsOnce

-----------------------------------------------------------------------------
(***************************************************************************)
(* One process: jobs, holds and records add up.  A cancel request ends a   *)
(* job under its runner, which may persist the image all the same: what    *)
(* that costs is said exactly (see README, section 3).                     *)
(***************************************************************************)

\* A cancelled job stays marked as cancelled.
CancelsStay == \A k \in Jobs : job[k].cancel => job'[k].cancel

LEMMA CancelFields ==
  ASSUME NEW row \in JobRow
  PROVE  /\ \A s : Freed(row, s).cancel = row.cancel
         /\ \A s, b : [Freed(row, s) EXCEPT !.released = b].cancel = row.cancel
         /\ \A s, b : [Freed(row, s) EXCEPT !.due = b].cancel = row.cancel
         /\ \A n : Attempted(row, n).cancel = row.cancel
         /\ \A n, b : [Attempted(row, n) EXCEPT !.spool = b].cancel = row.cancel
         /\ SucceededRow(row).cancel = row.cancel
<1>1. \A s : Freed(row, s).cancel = row.cancel  BY DEF Freed, JobRow
<1>2. \A s, b : [Freed(row, s) EXCEPT !.released = b].cancel = row.cancel  BY DEF Freed, JobRow
<1>3. \A s, b : [Freed(row, s) EXCEPT !.due = b].cancel = row.cancel  BY DEF Freed, JobRow
<1>4. \A n : Attempted(row, n).cancel = row.cancel  BY DEF Attempted, JobRow
<1>5. \A n, b : [Attempted(row, n) EXCEPT !.spool = b].cancel = row.cancel
  BY DEF Attempted, JobRow
<1>6. SucceededRow(row).cancel = row.cancel  BY DEF SucceededRow, Freed, JobRow
<1> QED  BY <1>1, <1>2, <1>3, <1>4, <1>5, <1>6

LEMMA CancelWritten ==
  ASSUME JobTyped, NEW j \in Jobs, NEW row, job' = [job EXCEPT ![j] = row],
         job[j].cancel => row.cancel
  PROVE  CancelsStay
BY DEF JobTyped, CancelsStay

LEMMA TryFailCancels ==
  ASSUME TInv, NEW j \in Jobs, NEW token, NEW status, TryFail(j, token, status)
  PROVE  CancelsStay
<1> DEFINE row == [Freed(job[j], status) EXCEPT !.released = job[j].released \/ HoldOpen(j)]
<1>1. JobTyped /\ job[j] \in JobRow  BY TInvParts DEF JobTyped
<1>2. row.cancel = job[j].cancel  BY <1>1, CancelFields
<1>3. job' = [job EXCEPT ![j] = row] \/ job' = job
  <2>1. [Freed(job[j], status) EXCEPT !.released = @ \/ HoldOpen(j)] = row
    BY <1>1 DEF Freed, JobRow
  <2>2. \/ job' = job
        \/ job' = [job EXCEPT ![j] = [Freed(job[j], status) EXCEPT !.released = @ \/ HoldOpen(j)]]
    BY DEF TryFail, Fail
  <2> HIDE DEF row
  <2> QED  BY <2>1, <2>2
<1> HIDE DEF row
<1> QED  BY <1>1, <1>2, <1>3, CancelWritten DEF CancelsStay

LEMMA WaitCancels ==
  ASSUME TInv, NEW r \in Runners, J(r) \in Jobs, WaitForRetry(r)
  PROVE  CancelsStay
<1> DEFINE row == [Freed(job[J(r)], "retry_wait") EXCEPT !.due = FALSE]
<1>1. JobTyped /\ job[J(r)] \in JobRow  BY TInvParts DEF JobTyped
<1>2. row.cancel = job[J(r)].cancel  BY <1>1, CancelFields
<1>3. job' = [job EXCEPT ![J(r)] = row]  BY DEF WaitForRetry
<1> HIDE DEF row
<1> QED  BY <1>1, <1>2, <1>3, CancelWritten

LEMMA RecoverCancels ==
  ASSUME TInv, NEW p \in Processes, RecoverJob(p)
  PROVE  CancelsStay
<1> DEFINE j == todo[p].at
<1>1. JobTyped /\ j \in Jobs /\ job[j] \in JobRow  BY TInvParts, RecoverRows DEF JobTyped
<1>2. CASE job' = job  BY <1>2 DEF CancelsStay
<1>3. CASE RecoverSucceeded(j)
  <2> DEFINE row == SucceededRow(job[j])
  <2>1. row.cancel = job[j].cancel  BY <1>1, CancelFields
  <2>2. job' = job \/ job' = [job EXCEPT ![j] = row]
    BY <1>3 DEF RecoverSucceeded, SucceededRow
  <2> HIDE DEF row
  <2> QED  BY <1>1, <1>2, <2>1, <2>2, CancelWritten
<1>4. CASE RecoverFailed(j)  BY <1>1, <1>4, TryFailCancels DEF RecoverFailed
<1>5. CASE Requeue(j)
  <2> DEFINE row == Freed(job[j], "queued")
  <2>1. row.cancel = job[j].cancel  BY <1>1, CancelFields
  <2>2. job' = [job EXCEPT ![j] = row]  BY <1>5 DEF Requeue
  <2> HIDE DEF row
  <2> QED  BY <1>1, <2>1, <2>2, CancelWritten
<1> QED  BY <1>3, <1>4, <1>5 DEF RecoverJob

LEMMA RunnerCancels ==
  ASSUME TInv, NEW r \in Runners, RunnerStep(r)
  PROVE  CancelsStay
<1> DEFINE j == J(r)
<1>1. JobTyped /\ j \in Jobs /\ job[j] \in JobRow
  <2>1. runner[r].pc # "idle"
    BY DEF RunnerStep, Start, PutBack, SnapshotInvalid, SaveRunning, Register,
       PreparationFails, StatementErrs, AskProvider, ProviderDelivers, ProviderRefuses,
       ProviderSilent, CheckActive, SavePersisting, Persist, PersistFails, Finish,
       RetryRefused, RetrySpooled, GiveUp, ResumeSpool, ResumeFails
  <2> QED  BY <2>1, TInvParts, RunnerAtJob DEF JobTyped
<1>2. CASE job' = job  BY <1>2 DEF CancelsStay
<1>3. CASE ProviderDelivers(r)
  <2>1. PICK n \in 1..MaxAttempts, spool \in BOOLEAN :
           job' = [job EXCEPT ![j] = [Attempted(job[j], n) EXCEPT !.spool = @ \/ spool]]
    BY <1>3 DEF ProviderDelivers
  <2> DEFINE mark == Attempted(job[j], n).spool \/ spool
             row == [Attempted(job[j], n) EXCEPT !.spool = mark]
  <2>2. [Attempted(job[j], n) EXCEPT !.spool = @ \/ spool] = row
    BY <1>1 DEF Attempted, JobRow
  <2>3. row.cancel = job[j].cancel  BY <1>1, CancelFields
  <2> HIDE DEF row
  <2>4. job' = [job EXCEPT ![j] = row]  BY <2>1, <2>2
  <2> QED  BY <1>1, <2>3, <2>4, CancelWritten
<1>4. CASE ProviderRefuses(r) \/ ProviderSilent(r)
  <2>1. PICK n \in Int : job' = [job EXCEPT ![j] = Attempted(job[j], n)]
    BY <1>4 DEF ProviderRefuses, ProviderSilent
  <2> DEFINE row == Attempted(job[j], n)
  <2>2. row.cancel = job[j].cancel  BY <1>1, CancelFields
  <2>3. job' = [job EXCEPT ![j] = row]  BY <2>1
  <2> HIDE DEF row
  <2> QED  BY <1>1, <2>2, <2>3, CancelWritten
<1>5. CASE PutBack(r)
  <2> DEFINE row == Freed(job[j], "queued")
  <2>1. row.cancel = job[j].cancel  BY <1>1, CancelFields
  <2>2. job' = job \/ job' = [job EXCEPT ![j] = row]  BY <1>5 DEF PutBack, J
  <2> HIDE DEF row
  <2> QED  BY <1>1, <1>2, <2>1, <2>2, CancelWritten
<1>6. CASE \E status \in {"failed", "cancelled"} : TryFail(j, r, status)
  BY <1>1, <1>6, TryFailCancels
<1>7. CASE WaitForRetry(r)  BY <1>1, <1>7, WaitCancels
<1>8. CASE Persist(r)
  BY <1>1, <1>8 DEF Persist, CancelsStay, JobTyped, JobRow
<1>9. CASE Finish(r)
  <2> DEFINE old == [job[j] EXCEPT !.spool = FALSE]
             row == IF old.token = r THEN Freed(old, "succeeded") ELSE old
  <2>1. old \in JobRow /\ old.cancel = job[j].cancel
    <3>1. old.cancel = job[j].cancel  BY <1>1 DEF JobRow
    <3> QED  BY <1>1, <3>1, RowMoves
  <2> HIDE DEF old
  <2>2. row.cancel = job[j].cancel  BY <2>1, CancelFields
  <2>3. job' = [job EXCEPT ![j] = row]  BY <1>9 DEF Finish, old
  <2> HIDE DEF row
  <2> QED  BY <1>1, <2>2, <2>3, CancelWritten
<1>10. CASE ResumeSpool(r)
  <2> DEFINE row == SucceededRow(job[j])
  <2>1. row.cancel = job[j].cancel  BY <1>1, CancelFields
  <2>2. job' = [job EXCEPT ![j] = row]  BY <1>10 DEF ResumeSpool, SucceededRow
  <2> HIDE DEF row
  <2> QED  BY <1>1, <2>1, <2>2, CancelWritten
<1> QED
  BY <1>2, <1>3, <1>4, <1>5, <1>6, <1>7, <1>8, <1>9, <1>10
  DEF RunnerStep, Start, SnapshotInvalid, SaveRunning, Register, PreparationFails,
      StatementErrs, AskProvider, CheckActive, SavePersisting, PersistFails, RetryRefused,
      RetrySpooled, GiveUp, FailedAs, ResumeFails, J

LEMMA Cancelled ==
  ASSUME TInv, [Next]_vars
  PROVE  CancelsStay
<1>1. JobTyped /\ \A j \in Jobs : job[j] \in JobRow  BY TInvParts DEF JobTyped
<1>2. CASE job' = job  BY <1>2 DEF CancelsStay
<1>3. ASSUME NEW j \in Jobs, CancelJob(j) \/ Expire(j)  PROVE CancelsStay
  BY <1>3, TryFailCancels DEF CancelJob, Expire
<1>4. ASSUME NEW j \in Jobs, Enqueue(j) \/ CancelMark(j) \/ DeadlinePasses(j)
                             \/ BackoffElapses(j) \/ LeaseExpires(j)
      PROVE  CancelsStay
  BY <1>1, <1>4 DEF Enqueue, CancelMark, DeadlinePasses, BackoffElapses, LeaseExpires,
                    CancelsStay, JobTyped, JobRow
<1>5. ASSUME NEW r \in Runners, NEW j \in Jobs, Claim(r, j)  PROVE CancelsStay
  BY <1>1, <1>5 DEF Claim, CancelsStay, JobTyped, JobRow
<1> QED
  BY <1>2, <1>3, <1>4, <1>5, RecoverCancels, RunnerCancels
  DEF Next, vars, JobStep, ProcessStep, CancelRest, CancelRead, OrphanLeaseExpires,
      ProcessStarts, ProcessUp, RecoverLook, Crash

\* The mark is set before a request ends the job or fails its record; only the runner of
\* a cancelled job may have lost it; and a paid job that did not succeed shows its Work.
NInv ==
    /\ \A j \in Jobs : canceller[j].pc \in {"loaded", "tried"} => job[j].cancel
    /\ \A r \in Runners : runner[r].pc # "idle" /\ ~job[J(r)].cancel => job[J(r)].token = r
    /\ \A j \in Jobs : job[j].status # "absent" => record[j].status # "none"
    /\ \A j \in Jobs : job[j].settled /\ job[j].status # "succeeded" =>
          record[j].status = "succeeded"
    /\ HoldsAreReserved /\ FailureIsShown

Open(j) == job[j].status \in Active /\ HoldOpen(j)
Over(j) == job[j].settled /\ job[j].released

\* But for cancelled jobs, a record of an ended job stays, and a job that fails is unpaid
\* and shows it.  A job that was ordered has a record.
Shown(k) ==
    /\ job[k].status \in Ended /\ ~job'[k].cancel => record'[k].status = record[k].status
    /\ job[k].status \in Active /\ job'[k].status \in {"failed", "cancelled"}
       /\ ~job'[k].cancel =>
          ~job[k].settled /\ record'[k].status = "failed" /\ LeftByRunners(k)
    /\ job'[k].status # "absent" => record'[k].status # "none"

\* A step opens, closes or overdraws no hold, or one for its price.
ReservedMoves(j, price) ==
    /\ Balance(j)'.reserved = Balance(j).reserved + price
    /\ \A u \in Users \ {Owner[j]} : credits'[u].reserved = credits[u].reserved
OverKept == \A k \in Jobs : Over(k)' = Over(k)
OpenedOne(j) == /\ ~Open(j) /\ Open(j)' /\ ReservedMoves(j, Price) /\ OverKept
                /\ \A k \in Jobs \ {j} : Open(k)' = Open(k)
ClosedOne(j) == /\ Open(j) /\ ~Open(j)' /\ ReservedMoves(j, -Price) /\ OverKept
                /\ \A k \in Jobs \ {j} : Open(k)' = Open(k)
OverdrewOne(j) == /\ ~Over(j) /\ Over(j)' /\ ReservedMoves(j, -Price)
                  /\ \A k \in Jobs : Open(k)' = Open(k)
                  /\ \A k \in Jobs \ {j} : Over(k)' = Over(k)
OpenKept == /\ OverKept
            /\ \A k \in Jobs : Open(k)' = Open(k)
            /\ \A u \in Users : credits'[u].reserved = credits[u].reserved
Adds == /\ \A k \in Jobs : Shown(k)
        /\ OpenKept \/ \E j \in Jobs : OpenedOne(j) \/ ClosedOne(j) \/ OverdrewOne(j)

\* A job that is not touched.
LEMMA RestShown ==
  ASSUME NInv, NEW k \in Jobs, job'[k].status = job[k].status,
         record'[k].status = record[k].status
  PROVE  Shown(k)
BY DEF NInv, Shown, Active, Waiting, Ended

LEMMA TryFailAdds ==
  ASSUME PInv, NInv, NEW j \in Jobs, NEW token, NEW status \in {"failed", "cancelled"},
         TryFail(j, token, status),
         job'[j].cancel \/ (~job[j].settled /\ LeftByRunners(j))
  PROVE  Adds
<1>1. TInv /\ RecordTyped /\ CreditsTyped /\ Owner[j] \in Users /\ Price \in Nat
  BY TInvParts, WiringAssumption, SizesAssumption DEF PInv
<1>2. CASE CanFail(j, token) /\ Fail(j, status)
  <2>1. /\ job[j].status \in Active /\ job'[j].status = status
        /\ job'[j].settled = job[j].settled
        /\ job'[j].released = (job[j].released \/ HoldOpen(j))
        /\ \A k \in Jobs \ {j} : job'[k] = job[k] /\ record'[k] = record[k]
        /\ record'[j].status = IF record[j].status = "active" THEN "failed"
                               ELSE record[j].status
        /\ \A u \in Users \ {Owner[j]} : credits'[u] = credits[u]
        /\ IF HoldOpen(j)
           THEN /\ Balance(j)'.available = Balance(j).available + Price
                /\ Balance(j)'.reserved = Balance(j).reserved - Price
           ELSE credits' = credits
    BY <1>1, <1>2, FailRows
  <2>2. record[j].status # "none" /\ record'[j].status # "none"
    BY <2>1 DEF NInv, Active, Waiting
  <2>3. Shown(j)
    <3>1. CASE job'[j].cancel  BY <2>1, <2>2, <3>1 DEF Shown, Active, Waiting, Ended
    <3>2. CASE ~job[j].settled /\ LeftByRunners(j)
      <4>1. record[j].status # "succeeded"  BY <3>2 DEF PInv, PaidFor
      <4>2. record[j].status \in {"active", "failed"}
        BY <1>1, <2>2, <4>1 DEF RecordTyped, RecordRow
      <4> QED  BY <2>1, <2>2, <3>2, <4>2 DEF Shown, Active, Waiting, Ended
    <3> QED  BY <3>1, <3>2
  <2>4. \A k \in Jobs : Shown(k)  BY <2>1, <2>3, RestShown
  <2>5. ~Open(j)' /\ (\A k \in Jobs \ {j} : Open(k)' = Open(k)) /\ OverKept
    BY <2>1 DEF Open, Over, OverKept, HoldOpen, Active, Waiting
  <2>6. CASE HoldOpen(j)
    <3>1. Open(j)  BY <2>1, <2>6 DEF Open
    <3>2. Balance(j).reserved \in Nat  BY <1>1 DEF CreditsTyped, CreditRow, Balance
    <3>3. Balance(j).reserved - Price = Balance(j).reserved + (-Price)  BY <1>1, <3>2
    <3>4. ReservedMoves(j, -Price)  BY <2>1, <2>6, <3>3 DEF ReservedMoves
    <3> QED  BY <2>4, <2>5, <3>1, <3>4 DEF Adds, ClosedOne
  <2>7. CASE ~HoldOpen(j)
    <3>1. ~Open(j) /\ credits' = credits  BY <2>1, <2>7 DEF Open
    <3>2. Open(j)' = Open(j)  BY <2>5, <3>1 DEF Open
    <3>3. \A k \in Jobs : Open(k)' = Open(k)  BY <2>5, <3>2
    <3> QED  BY <2>4, <2>5, <3>1, <3>3 DEF Adds, OpenKept
  <2> QED  BY <2>6, <2>7
<1>3. CASE UNCHANGED <<job, record, credits>>
  <2>1. \A k \in Jobs : Shown(k)  BY <1>3, RestShown
  <2> QED  BY <1>3, <2>1 DEF Adds, OpenKept, OverKept, Open, Over, HoldOpen
<1> QED  BY <1>2, <1>3 DEF TryFail

\* A settlement closes the hold of a running job.  The hold of an ended one is gone, and
\* the price is taken from those of the user's other jobs.
LEMMA SettleAdds ==
  ASSUME PInv, NInv, NEW j \in Jobs, CanSettle(j), Settle(j),
         ~job[j].settled, job'[j].settled, job'[j].released = job[j].released,
         \/ job[j].status = "running" /\ job'[j].status \in {"running", "succeeded"}
         \/ job[j].status \in Ended /\ job'[j].status = job[j].status /\ job'[j].cancel,
         record'[j].status # "none",
         \A k \in Jobs \ {j} : job'[k] = job[k] /\ record'[k] = record[k]
  PROVE  Adds
<1>1. TInv /\ JobTyped /\ CreditsTyped /\ Owner[j] \in Users /\ Price \in Nat
  BY TInvParts, WiringAssumption, SizesAssumption DEF PInv
<1>2. Shown(j)  BY DEF Shown, Ended, Active, Waiting
<1>3. \A k \in Jobs : Shown(k)  BY <1>2, RestShown
<1>4. ReservedMoves(j, -Price)
  <2>1. /\ Balance(j)'.reserved = Balance(j).reserved - Price
        /\ \A u \in Users \ {Owner[j]} : credits'[u] = credits[u]
    BY <1>1, SettleRows
  <2>2. Balance(j).reserved \in Nat  BY <1>1 DEF CreditsTyped, CreditRow, Balance
  <2>3. Balance(j).reserved - Price = Balance(j).reserved + (-Price)  BY <1>1, <2>2
  <2> QED  BY <2>1, <2>3 DEF ReservedMoves
<1>5. CASE job[j].status = "running"
  <2>1. ~job[j].released  BY <1>5 DEF PInv, HoldEndsWithJob, Active
  <2>2. Open(j) /\ ~Open(j)' /\ \A k \in Jobs \ {j} : Open(k)' = Open(k)
    BY <1>5, <2>1 DEF Open, HoldOpen, Active
  <2>3. OverKept  BY <2>1 DEF OverKept, Over
  <2> QED  BY <1>3, <1>4, <2>2, <2>3 DEF Adds, ClosedOne
<1>6. CASE job[j].status \in Ended /\ job'[j].status = job[j].status
  <2>1. job[j].released  BY <1>6 DEF PInv, HoldEndsWithJob
  <2>2. ~Over(j) /\ Over(j)' /\ \A k \in Jobs \ {j} : Over(k)' = Over(k)
    BY <2>1 DEF Over
  <2>3. \A k \in Jobs : Open(k)' = Open(k)
    BY <1>6 DEF Open, HoldOpen, Active, Waiting, Ended
  <2> QED  BY <1>3, <1>4, <2>2, <2>3 DEF Adds, OverdrewOne
<1> QED  BY <1>5, <1>6

\* A step that ends no job, unless it is settled, and moves no credits.
LEMMA PlainAdds ==
  ASSUME PInv, NInv, credits' = credits,
         \A k \in Jobs :
            /\ job'[k].settled = job[k].settled /\ job'[k].released = job[k].released
            /\ \/ job'[k].status = job[k].status
               \/ job[k].status \in Active /\ job'[k].status \in Active
               \/ job[k].settled /\ job'[k].status \notin {"failed", "cancelled"}
            /\ \/ record'[k].status = record[k].status
               \/ job[k].status \in Active /\ record'[k].status # "none"
               \/ job'[k].cancel /\ record'[k].status # "none"
  PROVE  Adds
<1>1. ASSUME NEW k \in Jobs  PROVE Shown(k)
  <2>1. job[k].status # "absent" => record[k].status # "none"  BY DEF NInv
  <2>2. job[k].settled => job[k].status # "absent"  BY DEF PInv, Fresh
  <2> QED  BY <2>1, <2>2 DEF Shown, Active, Waiting, Ended
<1>2. \A k \in Jobs : Open(k)' = Open(k)  BY DEF Open, HoldOpen
<1>3. OverKept  BY DEF OverKept, Over
<1> QED  BY <1>1, <1>2, <1>3 DEF Adds, OpenKept

\* The runner of a job that is not done with.
LEMMA Holds ==
  ASSUME PInv, NInv, NEW r \in Runners, runner[r].pc # "idle"
  PROVE  /\ J(r) \in Jobs
         /\ \/ job[J(r)].token = r /\ job[J(r)].status = "running"
            \/ job[J(r)].cancel /\ job[J(r)].status \in Ended
<1>1. J(r) \in Jobs  BY TInvParts, RunnerAtJob DEF PInv
<1> QED  BY <1>1, WiringAssumption DEF NInv, PInv, HeldBy

LEMMA RunnerAdds ==
  ASSUME PInv, NInv, NEW r \in Runners, RunnerStep(r)
  PROVE  Adds
<1>1. TInv /\ JobTyped /\ RecordTyped /\ RunnerTyped  BY TInvParts DEF PInv
<1>2. runner[r].pc # "idle"
  BY DEF RunnerStep, Start, PutBack, SnapshotInvalid, SaveRunning, Register,
         PreparationFails, StatementErrs, AskProvider, ProviderDelivers, ProviderRefuses,
         ProviderSilent, CheckActive, SavePersisting, Persist, PersistFails, Finish,
         RetryRefused, RetrySpooled, GiveUp, ResumeSpool, ResumeFails
<1>3. /\ J(r) \in Jobs
      /\ \/ job[J(r)].token = r /\ job[J(r)].status = "running"
         \/ job'[J(r)].cancel /\ job[J(r)].status \in Ended
  BY <1>1, <1>2, Holds, RunnerCancels DEF CancelsStay
<1>4. job[J(r)].status # "absent" /\ (job[J(r)].status \in Active \/ job'[J(r)].cancel)
  BY <1>3 DEF Active, Ended
<1>5. CASE \/ Start(r) \/ SaveRunning(r) \/ Register(r) \/ PreparationFails(r)
           \/ StatementErrs(r) \/ AskProvider(r)
           \/ ProviderDelivers(r) \/ ProviderRefuses(r) \/ ProviderSilent(r)
           \/ (CheckActive(r) /\ record[J(r)].status = "active")
           \/ SavePersisting(r) \/ PersistFails(r)
  <2>1. /\ JobsFenced /\ credits' = credits
        /\ \A k \in Jobs \ {J(r)} : record'[k] = record[k]
    BY <1>1, <1>5, RunnerGoesOn
  <2>2. record'[J(r)].status # "none"
    <3>1. record[J(r)].status # "none"  BY <1>3, <1>4 DEF NInv
    <3> QED
      BY <1>1, <1>3, <1>5, <3>1
      DEF RecordTyped, RecordRow, Start, SaveRunning, Save, Register, PreparationFails,
          FailRecord, StatementErrs, AskProvider, ProviderDelivers, ProviderRefuses,
          ProviderSilent, CheckActive, SavePersisting, PersistFails
  <2> QED  BY <1>4, <2>1, <2>2, PlainAdds DEF JobsFenced
<1>6. CASE Persist(r)
  <2>1. /\ runner[r].pc = "persisting" /\ record'[J(r)].status = "succeeded"
        /\ \A k \in Jobs \ {J(r)} : record'[k] = record[k]
    BY <1>1, <1>6, Persists
  <2>2. /\ job'[J(r)].settled /\ job'[J(r)].status = job[J(r)].status
        /\ job'[J(r)].released = job[J(r)].released
        /\ \A k \in Jobs \ {J(r)} : job'[k] = job[k]
    BY <1>1, <1>3, <1>6, PersistRows
  <2>3. ~job[J(r)].settled  BY <2>1, AtWork
  <2>4. CanSettle(J(r)) /\ Settle(J(r))  BY <1>6 DEF Persist
  <2>5. record'[J(r)].status # "none"  BY <2>1
  <2> QED  BY <1>3, <2>1, <2>2, <2>3, <2>4, <2>5, SettleAdds
<1>7. CASE ResumeSpool(r)
  <2>1. /\ runner[r].pc = "start" /\ CanSettle(J(r)) /\ Settle(J(r))
        /\ \A k \in Jobs \ {J(r)} : record'[k] = record[k]
    BY <1>1, <1>7 DEF ResumeSpool, RecordTyped
  <2>2. /\ job'[J(r)].settled /\ job'[J(r)].status = "succeeded" /\ job[J(r)].token = r
        /\ job'[J(r)].released = job[J(r)].released
        /\ \A k \in Jobs \ {J(r)} : job'[k] = job[k]
    BY <1>1, <1>7, ResumeRows
  <2>3. ~job[J(r)].settled  BY <2>1, AtWork
  <2>4. record'[J(r)].status # "none"
    <3>1. record[J(r)].status # "none"  BY <1>3, <1>4 DEF NInv
    <3> QED  BY <1>1, <1>3, <1>7, <3>1 DEF ResumeSpool, RecordTyped, RecordRow
  <2>5. job[J(r)].status = "running"
    BY <1>3, <2>2, WiringAssumption DEF PInv, HeldBy
  <2> QED  BY <1>3, <2>1, <2>2, <2>3, <2>4, <2>5, SettleAdds
<1>8. ASSUME runner[r].pc # "persisted", RunnerEnds(r),
             NEW status \in {"failed", "cancelled"}, TryFail(J(r), r, status)
      PROVE  Adds
  <2>1. ~job[J(r)].settled  BY <1>2, <1>8, AtWork
  <2>2. LeftByRunners(J(r))  BY <1>2, <1>8, Leaves
  <2> QED  BY <1>3, <1>8, <2>1, <2>2, TryFailAdds
<1>9. ASSUME WaitForRetry(r)  PROVE Adds
  <2>1. /\ record' = record /\ credits' = credits /\ job[J(r)].token = r
        /\ job'[J(r)].status = "retry_wait"
        /\ job'[J(r)].settled = job[J(r)].settled
        /\ job'[J(r)].released = job[J(r)].released
        /\ \A k \in Jobs \ {J(r)} : job'[k] = job[k]
    BY <1>1, <1>3, <1>9, WaitRows
  <2>2. job'[J(r)].status \in Active  BY <2>1 DEF Active, Waiting
  <2>3. job[J(r)].status \in Active
    BY <1>3, <2>1, WiringAssumption DEF PInv, HeldBy, Active
  <2> QED  BY <2>1, <2>2, <2>3, PlainAdds
<1>10. CASE UNCHANGED <<job, record, credits>>  BY <1>10, PlainAdds
<1>11. CASE PutBack(r)
  <2>1. record' = record /\ credits' = credits  BY <1>11 DEF PutBack
  <2>2. /\ \A k \in Jobs \ {J(r)} : job'[k] = job[k]
        /\ \/ job' = job
           \/ /\ job[J(r)].token = r /\ job'[J(r)].status = "queued"
              /\ job'[J(r)].settled = job[J(r)].settled
              /\ job'[J(r)].released = job[J(r)].released
    BY <1>1, <1>3, <1>11, PutBackRows
  <2>3. CASE job' = job  BY <1>10, <2>1, <2>3
  <2>4. CASE job[J(r)].token = r /\ job'[J(r)].status = "queued"
    <3>1. job'[J(r)].status \in Active  BY <2>4 DEF Active, Waiting
    <3>2. job[J(r)].status \in Active
      BY <1>3, <2>4, WiringAssumption DEF PInv, HeldBy, Active
    <3> QED  BY <1>10, <2>1, <2>2, <3>1, <3>2, PlainAdds
  <2> QED  BY <2>2, <2>3, <2>4
<1>12. CASE Finish(r)
  <2>1. record' = record /\ credits' = credits /\ runner[r].pc = "persisted"
    BY <1>12 DEF Finish
  <2>2. job[J(r)].settled  BY <2>1 DEF PInv, PaidFor
  <2>3. /\ \A k \in Jobs \ {J(r)} : job'[k] = job[k]
        /\ job'[J(r)].status \in {job[J(r)].status, "succeeded"}
        /\ job'[J(r)].settled = job[J(r)].settled
        /\ job'[J(r)].released = job[J(r)].released
    BY <1>1, <1>3, <1>12, FinishRows
  <2> QED  BY <2>1, <2>2, <2>3, PlainAdds
<1>13. CASE SnapshotInvalid(r) \/ GiveUp(r)
  <2>1. /\ runner[r].pc # "persisted" /\ RunnerEnds(r)
        /\ \E status \in {"failed", "cancelled"} : TryFail(J(r), r, status)
    BY <1>13 DEF SnapshotInvalid, GiveUp, FailedAs, J
  <2> QED  BY <1>8, <2>1
<1>14. CASE ResumeFails(r)
  <2>1. /\ runner[r].pc # "persisted" /\ RunnerEnds(r)
        /\ \/ WaitForRetry(r)
           \/ UNCHANGED <<job, record, credits>>
           \/ TryFail(J(r), r, "failed")
    BY <1>14 DEF ResumeFails
  <2> QED  BY <1>8, <1>9, <1>10, <2>1
<1> QED
  BY <1>5, <1>6, <1>7, <1>9, <1>10, <1>11, <1>12, <1>13, <1>14
  DEF RunnerStep, RetryRefused, RetrySpooled, CheckActive

LEMMA RecoverAdds ==
  ASSUME PInv, NInv, NEW p \in Processes, RecoverJob(p)
  PROVE  Adds
<1> DEFINE j == todo[p].at
<1>1. TInv /\ JobTyped /\ RecordTyped /\ RunnerTyped  BY TInvParts DEF PInv
<1>2. process[p] = "recovering" /\ j \in Jobs /\ runner' = runner  BY <1>1, RecoverRows
<1>3. j # 0  BY <1>2 DEF Jobs
<1>4. /\ \A r \in Runners : runner[r].pc = "idle"
      /\ job[j].status = "running"
  BY <1>2, <1>3 DEF PInv, Quiet
<1>5. job[j].status \in Active  BY <1>4 DEF Active
<1>6. CASE todo[p].verdict = "succeeded" /\ RecoverSucceeded(j)
  <2>1. job[j].settled  BY <1>6 DEF PInv, PaidFor
  <2>2. /\ record' = record /\ credits' = credits
        /\ job'[j].status = "succeeded" /\ job'[j].settled
        /\ job'[j].released = job[j].released
        /\ \A i \in Jobs \ {j} : job'[i] = job[i]
    BY <1>1, <1>2, <1>4, <1>6, RecoverSucceededRows
  <2>3. job'[j].settled = job[j].settled
    <3>1. job[j] \in JobRow /\ job'[j] \in JobRow
      BY <1>1, <1>2, <1>6, RecoverSucceededRows DEF JobTyped
    <3> QED  BY <2>1, <2>2, <3>1 DEF JobRow
  <2> QED  BY <2>1, <2>2, <2>3, PlainAdds
<1>7. CASE todo[p].verdict \in {"failed", "unknown"} /\ RecoverFailed(j)
  <2>1. \E status \in {"failed", "cancelled"}, t \in {Nobody} : TryFail(j, t, status)
    BY <1>7 DEF RecoverFailed, FailedAs
  <2>2. ~job[j].settled  BY <1>7 DEF PInv, PaidOnce
  <2>3. LeftByRunners(j)
    BY <1>1, <1>2, <1>3, <1>4 DEF LeftByRunners, RunnerTyped, Placed, Idle
  <2> QED  BY <1>2, <2>1, <2>2, <2>3, TryFailAdds
<1>8. CASE Requeue(j)
  <2>1. /\ credits' = credits
        /\ job'[j].status = "queued" /\ record'[j].status = "active"
        /\ job'[j].settled = job[j].settled /\ job'[j].released = job[j].released
        /\ \A i \in Jobs \ {j} : job'[i] = job[i] /\ record'[i] = record[i]
    BY <1>1, <1>2, <1>8, RequeueRows
  <2>2. job'[j].status \in Active  BY <2>1 DEF Active, Waiting
  <2> QED  BY <1>5, <2>1, <2>2, PlainAdds
<1> QED  BY <1>6, <1>7, <1>8 DEF RecoverJob

LEMMA AddsStep ==
  ASSUME PInv, NInv, [Next]_vars
  PROVE  Adds
<1>1. TInv /\ CreditsTyped /\ RecordTyped /\ RunnerTyped  BY TInvParts DEF PInv
<1>2. CASE UNCHANGED <<job, record, credits>>  BY <1>2, PlainAdds
<1>3. ASSUME NEW j \in Jobs, Enqueue(j)  PROVE Adds
  <2>1. /\ job[j].status = "absent" /\ job'[j].status = "queued"
        /\ job'[j].settled = job[j].settled /\ job'[j].released = job[j].released
        /\ record'[j].status = "active"
        /\ \A k \in Jobs \ {j} : job'[k] = job[k] /\ record'[k] = record[k]
        /\ Balance(j)'.reserved = Balance(j).reserved + Price
        /\ \A u \in Users \ {Owner[j]} : credits'[u] = credits[u]
    BY <1>1, <1>3, EnqueueRows
  <2>2. Shown(j)  BY <2>1 DEF Shown, Active, Waiting, Ended
  <2>3. \A k \in Jobs : Shown(k)  BY <2>1, <2>2, RestShown
  <2>4. ~Open(j) /\ Open(j)' /\ \A k \in Jobs \ {j} : Open(k)' = Open(k)
    BY <2>1 DEF PInv, Fresh, Open, HoldOpen, Active, Waiting
  <2>5. ReservedMoves(j, Price)  BY <2>1 DEF ReservedMoves
  <2>6. OverKept  BY <2>1 DEF OverKept, Over
  <2> QED  BY <2>3, <2>4, <2>5, <2>6 DEF Adds, OpenedOne
<1>4. ASSUME NEW j \in Jobs, Expire(j)  PROVE Adds
  <2>1. TryFail(j, Nobody, "failed") /\ job[j].status \in Waiting /\ runner' = runner
    BY <1>4 DEF Expire
  <2>2. ~job[j].settled  BY <2>1 DEF PInv, PaidOnce, Waiting, Ended
  <2>3. LeftByRunners(j)
    <3>1. ASSUME NEW r \in Runners, runner[r].job = j  PROVE FALSE
      <4>1. runner[r].pc # "idle"
        BY <1>1, <3>1 DEF RunnerTyped, Placed, Idle, Jobs
      <4>2. job[j].status \in {"running"} \union Ended
        BY <3>1, <4>1, Holds DEF J
      <4> QED  BY <2>1, <4>2 DEF Waiting, Ended
    <3> QED  BY <2>1, <3>1 DEF LeftByRunners
  <2> QED  BY <2>1, <2>2, <2>3, TryFailAdds
<1>5. ASSUME NEW j \in Jobs,
             CancelMark(j) \/ DeadlinePasses(j) \/ BackoffElapses(j) \/ LeaseExpires(j)
      PROVE  Adds
  <2>1. JobsFenced /\ credits' = credits  BY <1>1, <1>5, MarksOnly
  <2>2. record' = record
    BY <1>5 DEF CancelMark, DeadlinePasses, BackoffElapses, LeaseExpires
  <2> QED  BY <2>1, <2>2, PlainAdds DEF JobsFenced
<1>6. ASSUME NEW r \in Runners, NEW j \in Jobs, Claim(r, j)  PROVE Adds
  <2>1. record' = record /\ credits' = credits  BY <1>6 DEF Claim
  <2>2. /\ job[j].status \in Waiting /\ job'[j].status = "running"
        /\ job'[j].settled = job[j].settled /\ job'[j].released = job[j].released
        /\ \A k \in Jobs \ {j} : job'[k] = job[k]
    BY <1>1, <1>6, ClaimRows
  <2>3. job[j].status \in Active /\ job'[j].status \in Active  BY <2>2 DEF Active
  <2> QED  BY <2>1, <2>2, <2>3, PlainAdds
<1>7. ASSUME NEW j \in Jobs, CancelJob(j)  PROVE Adds
  <2>1. job[j].cancel /\ \E t \in {canceller[j].token} : TryFail(j, t, "cancelled")
    BY <1>7 DEF NInv, CancelJob
  <2>2. job'[j].cancel  BY <1>1, <2>1, TryFailCancels DEF CancelsStay
  <2> QED  BY <2>1, <2>2, TryFailAdds
<1>8. ASSUME NEW j \in Jobs, CancelRest(j)  PROVE Adds
  <2>1. job[j].cancel /\ job' = job /\ credits' = credits /\ FailRecord(j)
    BY <1>8 DEF NInv, CancelRest
  <2>2. /\ \A k \in Jobs \ {j} : record'[k] = record[k]
        /\ record'[j].status = record[j].status \/ record'[j].status = "failed"
    BY <1>1, <2>1 DEF FailRecord, RecordTyped, RecordRow
  <2> QED  BY <2>1, <2>2, PlainAdds
<1> QED
  BY <1>2, <1>3, <1>4, <1>5, <1>6, <1>7, <1>8, RunnerAdds, RecoverAdds
  DEF Next, vars, JobStep, ProcessStep, CancelRead, OrphanLeaseExpires, ProcessStarts,
      ProcessUp, RecoverLook, Crash

LEMMA HoldsReservedStep ==
  ASSUME PInv, NInv, Adds
  PROVE  HoldsAreReserved'
<1> SUFFICES ASSUME NEW u \in Users
             PROVE  credits'[u].reserved + Price * Cardinality(Overdrawn(u)')
                       = Price * Cardinality(OpenHolds(u)')
  BY DEF HoldsAreReserved
<1> DEFINE now == {j \in Jobs : Owner[j] = u /\ Open(j)}
           next == {j \in Jobs : Owner[j] = u /\ Open(j)'}
           over == {j \in Jobs : Owner[j] = u /\ Over(j)}
           more == {j \in Jobs : Owner[j] = u /\ Over(j)'}
           n == Price * Cardinality(now)
           m == Price * Cardinality(next)
           v == Price * Cardinality(over)
           w == Price * Cardinality(more)
           was == credits[u].reserved
           is == credits'[u].reserved
<1>1. /\ OpenHolds(u) = now /\ OpenHolds(u)' = next
      /\ Overdrawn(u) = over /\ Overdrawn(u)' = more
  BY DEF OpenHolds, Overdrawn, Pending, Open, Over
<1>2. /\ IsFiniteSet(now) /\ Cardinality(now) \in Nat
      /\ IsFiniteSet(next) /\ Cardinality(next) \in Nat
      /\ IsFiniteSet(over) /\ Cardinality(over) \in Nat
  <2>1. 1 \in Int /\ NumJobs \in Int  BY SizesAssumption
  <2>2. IsFiniteSet(Jobs)  BY <2>1, FS_Interval DEF Jobs
  <2>3. now \subseteq Jobs /\ next \subseteq Jobs /\ over \subseteq Jobs  OBVIOUS
  <2> HIDE DEF now, next, over
  <2> QED  BY <2>2, <2>3, FS_Subset, FS_CardinalityType
<1>3. Price \in Nat /\ was + v = n /\ was \in Nat /\ n \in Nat /\ v \in Nat
  <2>1. Price \in Nat /\ n \in Nat /\ v \in Nat  BY <1>2, SizesAssumption
  <2>2. was + v = n  BY <1>1 DEF NInv, HoldsAreReserved
  <2>3. CreditsTyped  BY TInvParts DEF PInv
  <2>4. was \in Nat  BY <2>3 DEF CreditsTyped, CreditRow
  <2> QED  BY <2>1, <2>2, <2>4
<1>4. CASE next = now /\ more = over /\ is = was  BY <1>1, <1>3, <1>4
<1>5. CASE OpenKept
  <2>1. next = now /\ more = over /\ is = was  BY <1>5 DEF OpenKept, OverKept
  <2> QED  BY <1>4, <2>1
<1>6. ASSUME NEW j \in Jobs, OpenedOne(j), Owner[j] = u
      PROVE  is + w = m
  <2>1. next = now \union {j} /\ j \notin now /\ more = over
    BY <1>6 DEF OpenedOne, OverKept
  <2>2. Cardinality(next) = Cardinality(now) + 1  BY <1>2, <2>1, FS_AddElement
  <2>3. is = was + Price  BY <1>6 DEF OpenedOne, ReservedMoves, Balance
  <2>4. m = n + Price  BY <1>2, <1>3, <2>2, ProductGrows
  <2>5. w = v  BY <2>1
  <2> HIDE DEF n, m, v, w, was, is
  <2> QED  BY <1>3, <2>3, <2>4, <2>5
<1>7. ASSUME NEW j \in Jobs, ClosedOne(j), Owner[j] = u
      PROVE  is + w = m
  <2>1. now = next \union {j} /\ j \notin next /\ more = over
    BY <1>7 DEF ClosedOne, OverKept
  <2>2. Cardinality(now) = Cardinality(next) + 1  BY <1>2, <2>1, FS_AddElement
  <2>3. is = was + (-Price)  BY <1>7 DEF ClosedOne, ReservedMoves, Balance
  <2>4. n = m + Price /\ m \in Nat  BY <1>2, <1>3, <2>2, ProductGrows
  <2>5. w = v  BY <2>1
  <2> HIDE DEF n, m, v, w, was, is
  <2> QED  BY <1>3, <2>3, <2>4, <2>5
<1>8. ASSUME NEW j \in Jobs, OverdrewOne(j), Owner[j] = u
      PROVE  is + w = m
  <2>1. more = over \union {j} /\ j \notin over /\ next = now
    BY <1>8 DEF OverdrewOne
  <2>2. Cardinality(more) = Cardinality(over) + 1  BY <1>2, <2>1, FS_AddElement
  <2>3. is = was + (-Price)  BY <1>8 DEF OverdrewOne, ReservedMoves, Balance
  <2>4. w = v + Price  BY <1>2, <1>3, <2>2, ProductGrows
  <2>5. m = n  BY <2>1
  <2> HIDE DEF n, m, v, w, was, is
  <2> QED  BY <1>3, <2>3, <2>4, <2>5
<1>9. ASSUME NEW j \in Jobs, OpenedOne(j) \/ ClosedOne(j) \/ OverdrewOne(j), Owner[j] # u
      PROVE  next = now /\ more = over /\ is = was
  BY <1>9 DEF OpenedOne, ClosedOne, OverdrewOne, OverKept, ReservedMoves
<1>10. is + w = m => is + Price * Cardinality(Overdrawn(u)') = Price * Cardinality(OpenHolds(u)')
  BY <1>1
<1> QED  BY <1>4, <1>5, <1>6, <1>7, <1>8, <1>9, <1>10 DEF Adds

\* A request that is past its mark found the mark set.
LEMMA CancelMarked ==
  ASSUME PInv, NInv, [Next]_vars, NEW j \in Jobs, canceller'[j].pc \in {"loaded", "tried"}
  PROVE  job'[j].cancel
<1>1. TInv /\ JobTyped /\ CancellerTyped  BY TInvParts DEF PInv
<1>2. CancelsStay  BY <1>1, Cancelled
<1>3. CASE canceller[j].pc \in {"loaded", "tried"}  BY <1>2, <1>3 DEF NInv, CancelsStay
<1>4. CASE canceller'[j] = canceller[j]  BY <1>3, <1>4
<1>5. ASSUME NEW k \in Jobs, CancelMark(k)  PROVE job'[j].cancel
  <2>1. CASE k = j  BY <1>1, <1>5, <2>1 DEF CancelMark, JobTyped, JobRow
  <2>2. CASE k # j
    <3>1. canceller'[j] = canceller[j]  BY <1>1, <1>5, <2>2 DEF CancelMark, CancelAt, CancellerTyped
    <3> QED  BY <1>4, <3>1
  <2> QED  BY <2>1, <2>2
<1>6. ASSUME NEW k \in Jobs, CancelJob(k)  PROVE job'[j].cancel
  <2>1. CASE k = j  BY <1>3, <1>6, <2>1 DEF CancelJob
  <2>2. CASE k # j
    <3>1. canceller'[j] = canceller[j]  BY <1>1, <1>6, <2>2 DEF CancelJob, CancelAt, CancellerTyped
    <3> QED  BY <1>4, <3>1
  <2> QED  BY <2>1, <2>2
<1>7. ASSUME NEW k \in Jobs,
             CancelRest(k) \/ (\E p \in Processes : CancelRead(p, k) \/ Crash(p))
      PROVE  job'[j].cancel
  <2>1. /\ NoCancel.pc = "idle"
        /\ \A p : [pc |-> "read", token |-> Nobody, at |-> p].pc = "read"
    BY DEF NoCancel
  <2>2. canceller'[j] = canceller[j]
    BY <1>1, <1>7, <2>1 DEF CancelRest, CancelRead, CancelAt, Crash, CancellerTyped
  <2> QED  BY <1>4, <2>2
<1> QED
  BY ZenonT(60), <1>4, <1>5, <1>6, <1>7
  DEF Next, vars, JobStep, ProcessStep, Enqueue, DeadlinePasses, BackoffElapses, Expire,
      LeaseExpires, Claim, OrphanLeaseExpires, ProcessStarts, RecoverJob, ProcessUp,
      RecoverLook, RunnerStep, Start, PutBack, SnapshotInvalid, SaveRunning, Register,
      PreparationFails, StatementErrs, AskProvider, ProviderDelivers, ProviderRefuses,
      ProviderSilent, CheckActive, SavePersisting, Persist, PersistFails, Finish,
      RetryRefused, RetrySpooled, GiveUp, ResumeSpool, ResumeFails

LEMMA NInvStep ==
  ASSUME OneProcess, PInv, NInv, [Next]_vars
  PROVE  NInv'
<1>1. Adds /\ \A k \in Jobs : Move(k) /\ Shown(k)  BY Moves, AddsStep DEF Adds
<1>2. TInv /\ RunnerTyped /\ CancelsStay  BY TInvParts, Cancelled DEF PInv
<1>3. \A j \in Jobs : canceller'[j].pc \in {"loaded", "tried"} => job'[j].cancel
  BY CancelMarked
<1>4. ASSUME NEW r \in Runners, runner'[r].pc # "idle", ~job'[runner'[r].job].cancel
      PROVE  job'[runner'[r].job].token = r
  <2>1. CASE Takes(r)  BY <2>1 DEF Takes
  <2>2. CASE Stays(r) \/ Goes(r)
    <3> DEFINE k == runner[r].job
    <3>1. runner[r].pc # "idle" /\ runner'[r].job = k  BY <1>4, <2>2 DEF Stays, Goes
    <3>2. k \in Jobs /\ job[k].token = r /\ job[k].status = "running"
      BY <1>2, <1>4, <3>1, Holds DEF J, CancelsStay
    <3>3. Move(k) /\ Shown(k) /\ ~LeftByRunners(k) /\ ~job'[k].cancel
      BY <1>1, <1>4, <3>1, <3>2 DEF LeftByRunners
    <3> HIDE DEF k
    <3>4. job'[k].token = r
      BY <3>2, <3>3 DEF Move, Plain, Steady, Enqueued, Failed, Claimed, Waits, Persisted,
                        Succeeds, Shown, Waiting, Active
    <3> QED  BY <3>1, <3>4
  <2>3. ~Stops(r)  BY <1>4 DEF Stops, Idle
  <2> QED  BY <2>1, <2>2, <2>3, RunnerDoes
<1>5. \A j \in Jobs : job'[j].status # "absent" => record'[j].status # "none"
  BY <1>1 DEF Shown
<1>6. HoldsAreReserved'  BY <1>1, HoldsReservedStep
<1>7. ASSUME NEW j \in Jobs, job'[j].settled, job'[j].status # "succeeded"
      PROVE  record'[j].status = "succeeded"
  <2>1. Move(j)  BY <1>1
  <2>2. /\ job[j].settled /\ job[j].status # "succeeded" => record[j].status = "succeeded"
        /\ job[j].settled => job[j].status \in Ended \union {"running"}
        /\ job[j].status = "absent" => ~job[j].settled
    BY DEF NInv, PInv, PaidOnce, Fresh
  <2> QED
    BY <1>7, <2>1, <2>2
    DEF Move, Plain, Steady, Enqueued, Failed, Claimed, Waits, Persisted, Succeeds, SameMarks,
        Ended, Active, Waiting
<1>8. ASSUME NEW j \in Jobs, job'[j].status \in {"failed", "cancelled"}, ~job'[j].cancel
      PROVE  record'[j].status = "failed" /\ works'[j] = 0
  <2>1. Move(j) /\ Shown(j) /\ ~job[j].cancel  BY <1>1, <1>2, <1>8 DEF CancelsStay
  <2>2. /\ works[j] = IF job[j].settled THEN 1 ELSE 0
        /\ job[j].status \in {"failed", "cancelled"} => record[j].status = "failed" /\ works[j] = 0
    BY <2>1 DEF PInv, WorkIffSettled, NInv, FailureIsShown
  <2>3. CASE job[j].status \in {"failed", "cancelled"}
    <3>1. record'[j].status = "failed"  BY <1>8, <2>1, <2>2, <2>3 DEF Shown, Ended
    <3>2. ~Persisted(j)  BY <3>1 DEF Persisted
    <3> QED
      BY <2>1, <2>2, <2>3, <3>1, <3>2
      DEF Move, Plain, Steady, Enqueued, Failed, Claimed, Waits, Succeeds, Active, Waiting
  <2>4. CASE job[j].status \notin {"failed", "cancelled"}
    <3>1. Failed(j)
      BY <1>8, <2>1, <2>4 DEF Move, Plain, Steady, Enqueued, Claimed, Waits, Persisted,
                              Succeeds, Waiting
    <3>2. ~job[j].settled /\ record'[j].status = "failed"
      BY <1>8, <2>1, <3>1 DEF Failed, Shown
    <3> QED  BY <2>2, <3>1, <3>2 DEF Failed
  <2> QED  BY <2>3, <2>4
<1>9. FailureIsShown'
  <2> SUFFICES ASSUME NEW j \in Jobs, job'[j].status \in {"failed", "cancelled"}, job'[j].cancel,
                      works'[j] # 0
               PROVE  record'[j].status = "succeeded"
    BY <1>8 DEF FailureIsShown
  <2>1. PInv'  BY PInvStep
  <2>2. job'[j].settled  BY <2>1 DEF PInv, WorkIffSettled
  <2> QED  BY <1>7, <2>2
<1> QED  BY <1>3, <1>4, <1>5, <1>6, <1>7, <1>9 DEF NInv, J

LEMMA InitAdds == Init => NInv
<1> SUFFICES ASSUME Init  PROVE NInv
  OBVIOUS
<1>1. /\ \A j \in Jobs : /\ job[j].status = "absent" /\ canceller[j].pc = "idle"
                         /\ ~job[j].settled
      /\ \A r \in Runners : runner[r].pc = "idle"
      /\ \A u \in Users : credits[u].reserved = 0
  BY DEF Init, NoJob, NoCancel, Idle
<1>2. \A u \in Users : OpenHolds(u) = {} /\ Overdrawn(u) = {}
  BY <1>1 DEF OpenHolds, Overdrawn, Pending, Active, Waiting
<1>3. Cardinality({}) = 0 /\ Price * 0 = 0 /\ 0 + 0 = 0  BY FS_EmptySet, SizesAssumption
<1> QED  BY <1>1, <1>2, <1>3 DEF NInv, HoldsAreReserved, FailureIsShown

\* With one process, whatever users cancel: each settled hold has its Work; the credits a
\* user has reserved are those of the active jobs, less the price of each image that
\* arrived after the cancellation of its job; and a job that was not cancelled and failed
\* shows as failed and left no Work, also when its runner died between the two
\* transactions, while a cancelled job that has a Work shows it.
THEOREM JobsAlwaysAddUp ==
  ASSUME OneProcess
  PROVE  Spec => []JobsAddUp
<1>1. Init => PInv /\ NInv  BY InitHeld, InitAdds
<1>2. PInv /\ NInv /\ [Next]_vars => (PInv /\ NInv)'  BY PInvStep, NInvStep
<1>3. PInv /\ NInv => JobsAddUp  BY DEF PInv, NInv, JobsAddUp
<1> QED  BY <1>1, <1>2, <1>3, PTL DEF Spec

-----------------------------------------------------------------------------
(***************************************************************************)
(* One process, and a provider that does not deduplicate: no blind replay. *)
(***************************************************************************)

\* While a request is unanswered its record says that one was started, no image is
\* spooled, and the job runs under the runner that asked, or under none, or has ended.
\* A runner that is on its way to a request has a job without a spooled image, and a
\* starting process does not repeat a job whose request is unanswered.
Unanswered ==
    /\ \A j \in Jobs : asked[j] = "open" =>
          /\ record[j].started /\ ~job[j].spool
          /\ job[j].status \in Ended \union {"running"}
          /\ \A r \in Runners : runner[r].job = j =>
                runner[r].pc \in {"asking", "failed", "errored"}
    /\ \A r \in Runners : runner[r].pc \in {"saved", "preparing", "asking"} => ~job[J(r)].spool
    /\ \A p \in Processes : todo[p].verdict = "requeue" => asked[todo[p].at] # "open"

\* No image is spooled, and no request is forgotten.
NoneSpooled == \A k \in Jobs : job'[k].spool => job[k].spool
StartedKept == \A k \in Jobs : record[k].started => record'[k].started

LEMMA SpoolFields ==
  ASSUME NEW row \in JobRow
  PROVE  /\ \A s : Freed(row, s).spool = row.spool
         /\ \A s, b : [Freed(row, s) EXCEPT !.released = b].spool = row.spool
         /\ \A s, b : [Freed(row, s) EXCEPT !.due = b].spool = row.spool
         /\ \A n : Attempted(row, n).spool = row.spool
         /\ ~SucceededRow(row).spool
<1>1. \A s : Freed(row, s).spool = row.spool  BY DEF Freed, JobRow
<1>2. \A s, b : [Freed(row, s) EXCEPT !.released = b].spool = row.spool  BY DEF Freed, JobRow
<1>3. \A s, b : [Freed(row, s) EXCEPT !.due = b].spool = row.spool  BY DEF Freed, JobRow
<1>4. \A n : Attempted(row, n).spool = row.spool  BY DEF Attempted, JobRow
<1>5. ~SucceededRow(row).spool  BY DEF SucceededRow, Freed, JobRow
<1> QED  BY <1>1, <1>2, <1>3, <1>4, <1>5

LEMMA SpoolWritten ==
  ASSUME JobTyped, NEW j \in Jobs, NEW row, job' = [job EXCEPT ![j] = row],
         row.spool => job[j].spool
  PROVE  NoneSpooled
BY DEF JobTyped, NoneSpooled

LEMMA TryFailSpools ==
  ASSUME TInv, NEW j \in Jobs, NEW token, NEW status, TryFail(j, token, status)
  PROVE  NoneSpooled
<1> DEFINE row == [Freed(job[j], status) EXCEPT !.released = job[j].released \/ HoldOpen(j)]
<1>1. JobTyped /\ job[j] \in JobRow  BY TInvParts DEF JobTyped
<1>2. row.spool = job[j].spool  BY <1>1, SpoolFields
<1>3. job' = [job EXCEPT ![j] = row] \/ job' = job
  <2>1. [Freed(job[j], status) EXCEPT !.released = @ \/ HoldOpen(j)] = row
    BY <1>1 DEF Freed, JobRow
  <2>2. \/ job' = job
        \/ job' = [job EXCEPT ![j] = [Freed(job[j], status) EXCEPT !.released = @ \/ HoldOpen(j)]]
    BY DEF TryFail, Fail
  <2> HIDE DEF row
  <2> QED  BY <2>1, <2>2
<1> HIDE DEF row
<1> QED  BY <1>1, <1>2, <1>3, SpoolWritten DEF NoneSpooled

LEMMA WaitSpools ==
  ASSUME TInv, NEW r \in Runners, J(r) \in Jobs, WaitForRetry(r)
  PROVE  NoneSpooled
<1> DEFINE row == [Freed(job[J(r)], "retry_wait") EXCEPT !.due = FALSE]
<1>1. JobTyped /\ job[J(r)] \in JobRow  BY TInvParts DEF JobTyped
<1>2. row.spool = job[J(r)].spool  BY <1>1, SpoolFields
<1>3. job' = [job EXCEPT ![J(r)] = row]  BY DEF WaitForRetry
<1> HIDE DEF row
<1> QED  BY <1>1, <1>2, <1>3, SpoolWritten

\* Only an answer spools an image.
LEMMA Spools ==
  ASSUME TInv, [Next]_vars
  PROVE  NoneSpooled \/ \E r \in Runners : ProviderDelivers(r)
<1>1. JobTyped /\ RunnerTyped /\ TodoTyped /\ \A j \in Jobs : job[j] \in JobRow
  BY TInvParts DEF JobTyped
<1>2. ASSUME job' = job  PROVE NoneSpooled
  BY <1>2 DEF NoneSpooled
<1>3. ASSUME NEW j \in Jobs, CancelJob(j) \/ Expire(j)  PROVE NoneSpooled
  <2>1. \E t \in {canceller[j].token, Nobody}, status \in {"failed", "cancelled"} :
           TryFail(j, t, status)
    BY <1>3 DEF CancelJob, Expire
  <2> QED  BY <2>1, TryFailSpools
<1>4. ASSUME NEW j \in Jobs, Enqueue(j) \/ CancelMark(j) \/ DeadlinePasses(j)
                             \/ BackoffElapses(j) \/ LeaseExpires(j)
      PROVE  NoneSpooled
  BY <1>1, <1>4 DEF Enqueue, CancelMark, DeadlinePasses, BackoffElapses, LeaseExpires,
                    NoneSpooled, JobTyped, JobRow
<1>5. ASSUME NEW r \in Runners, NEW j \in Jobs, Claim(r, j)  PROVE NoneSpooled
  BY <1>1, <1>5 DEF Claim, NoneSpooled, JobTyped, JobRow
<1>6. ASSUME NEW p \in Processes, RecoverJob(p)  PROVE NoneSpooled
  <2> DEFINE j == todo[p].at
  <2>1. j \in Jobs  BY <1>6, RecoverRows
  <2>2. CASE RecoverSucceeded(j)
    <3> DEFINE row == SucceededRow(job[j])
    <3>1. ~row.spool  BY <1>1, <2>1, SpoolFields
    <3>2. job' = job \/ job' = [job EXCEPT ![j] = row]
      BY <2>2 DEF RecoverSucceeded, SucceededRow
    <3> HIDE DEF row
    <3> QED  BY <1>1, <1>2, <2>1, <3>1, <3>2, SpoolWritten
  <2>3. CASE RecoverFailed(j)  BY <2>1, <2>3, TryFailSpools DEF RecoverFailed
  <2>4. CASE Requeue(j)
    <3> DEFINE row == Freed(job[j], "queued")
    <3>1. row.spool = job[j].spool  BY <1>1, <2>1, SpoolFields
    <3>2. job' = [job EXCEPT ![j] = row]  BY <2>4 DEF Requeue
    <3> HIDE DEF row
    <3> QED  BY <1>1, <2>1, <3>1, <3>2, SpoolWritten
  <2> QED  BY <1>6, <2>2, <2>3, <2>4 DEF RecoverJob
<1>7. ASSUME NEW r \in Runners, RunnerStep(r), ~ProviderDelivers(r)  PROVE NoneSpooled
  <2>1. J(r) \in Jobs /\ job[J(r)] \in JobRow
    <3>1. runner[r].pc # "idle"
      BY <1>7 DEF RunnerStep, Start, PutBack, SnapshotInvalid, SaveRunning, Register,
         PreparationFails, StatementErrs, AskProvider, ProviderDelivers, ProviderRefuses,
         ProviderSilent, CheckActive, SavePersisting, Persist, PersistFails, Finish,
         RetryRefused, RetrySpooled, GiveUp, ResumeSpool, ResumeFails
    <3> QED  BY <1>1, <3>1, RunnerAtJob
  <2> DEFINE j == J(r)
  <2>2. CASE ProviderRefuses(r) \/ ProviderSilent(r)
    <3>1. PICK n \in 0..MaxAttempts : job' = [job EXCEPT ![j] = Attempted(job[j], n)]
      <4>1. MaxAttempts \in Nat /\ \A n \in 1..MaxAttempts : n \in 0..MaxAttempts
        BY SizesAssumption
      <4> QED  BY <2>2, <4>1 DEF ProviderRefuses, ProviderSilent
    <3> DEFINE row == Attempted(job[j], n)
    <3>2. row.spool = job[j].spool  BY <2>1, SpoolFields
    <3>3. job' = [job EXCEPT ![j] = row]  BY <3>1
    <3> HIDE DEF row
    <3> QED  BY <1>1, <2>1, <3>2, <3>3, SpoolWritten
  <2>3. CASE PutBack(r)
    <3> DEFINE row == Freed(job[j], "queued")
    <3>1. row.spool = job[j].spool  BY <2>1, SpoolFields
    <3>2. job' = job \/ job' = [job EXCEPT ![j] = row]  BY <2>3 DEF PutBack, J
    <3> HIDE DEF row
    <3> QED  BY <1>1, <1>2, <2>1, <3>1, <3>2, SpoolWritten
  <2>4. CASE \E status \in {"failed", "cancelled"} : TryFail(j, r, status)
    BY <2>1, <2>4, TryFailSpools
  <2>5. CASE WaitForRetry(r)  BY <2>1, <2>5, WaitSpools
  <2>6. CASE Persist(r)
    BY <1>1, <2>1, <2>6 DEF Persist, NoneSpooled, JobTyped, JobRow
  <2>7. CASE Finish(r)
    <3> DEFINE old == [job[j] EXCEPT !.spool = FALSE]
               row == IF old.token = r THEN Freed(old, "succeeded") ELSE old
    <3>1. old \in JobRow /\ ~old.spool
      <4>1. ~old.spool  BY <2>1 DEF JobRow
      <4> QED  BY <2>1, <4>1, RowMoves
    <3> HIDE DEF old
    <3>2. ~row.spool  BY <3>1, SpoolFields
    <3>3. job' = [job EXCEPT ![j] = row]  BY <2>7 DEF Finish, old
    <3> HIDE DEF row
    <3> QED  BY <1>1, <2>1, <3>2, <3>3, SpoolWritten
  <2>8. CASE ResumeSpool(r)
    <3> DEFINE row == SucceededRow(job[j])
    <3>1. ~row.spool  BY <2>1, SpoolFields
    <3>2. job' = [job EXCEPT ![j] = row]  BY <2>8 DEF ResumeSpool, SucceededRow
    <3> HIDE DEF row
    <3> QED  BY <1>1, <2>1, <3>1, <3>2, SpoolWritten
  <2> QED
    BY <1>2, <1>7, <2>2, <2>3, <2>4, <2>5, <2>6, <2>7, <2>8
    DEF RunnerStep, Start, SnapshotInvalid, SaveRunning, Register, PreparationFails,
        StatementErrs, AskProvider, CheckActive, SavePersisting, PersistFails, RetryRefused,
        RetrySpooled, GiveUp, FailedAs, ResumeFails, J
<1> QED
  BY <1>2, <1>3, <1>4, <1>5, <1>6, <1>7
  DEF Next, vars, JobStep, ProcessStep, CancelRest, CancelRead, OrphanLeaseExpires,
      ProcessStarts, ProcessUp, RecoverLook, Crash

\* The record remembers that a request was started.
LEMMA StartedStays ==
  ASSUME TInv, [Next]_vars
  PROVE  StartedKept
<1>1. RecordTyped /\ RunnerTyped  BY TInvParts
<1>2. CASE record' = record  BY <1>2 DEF StartedKept
<1>3. ASSUME NEW j \in Jobs,
             \/ FailRecord(j)
             \/ record' = [record EXCEPT ![j].status = "active"]
             \/ record' = [record EXCEPT ![j].status = "succeeded"]
             \/ record' = [record EXCEPT ![j].status = IF @ = "active" THEN "succeeded" ELSE @]
             \/ record' = [record EXCEPT ![j].started = TRUE]
      PROVE  StartedKept
  BY <1>1, <1>3 DEF FailRecord, StartedKept, RecordTyped, RecordRow
<1>4. ASSUME NEW j \in Jobs, NEW token, NEW status, TryFail(j, token, status)
      PROVE  StartedKept
  BY <1>2, <1>3, <1>4 DEF TryFail, Fail
<1>5. ASSUME NEW j \in Jobs, Enqueue(j) \/ CancelJob(j) \/ Expire(j) \/ CancelRest(j)
      PROVE  StartedKept
  BY <1>3, <1>4, <1>5 DEF Enqueue, CancelJob, Expire, CancelRest
<1>6. ASSUME NEW p \in Processes, RecoverJob(p)  PROVE StartedKept
  <2>1. todo[p].at \in Jobs  BY <1>6, RecoverRows
  <2> QED
    BY <1>2, <1>3, <1>4, <1>6, <2>1 DEF RecoverJob, RecoverSucceeded, RecoverFailed, Requeue
<1>7. ASSUME NEW r \in Runners, RunnerStep(r)  PROVE StartedKept
  <2>1. CASE \/ SaveRunning(r) \/ PreparationFails(r) \/ AskProvider(r) \/ SavePersisting(r)
             \/ Persist(r) \/ PersistFails(r) \/ SnapshotInvalid(r) \/ GiveUp(r)
             \/ ResumeSpool(r) \/ ResumeFails(r)
    <3>1. runner[r].pc # "idle"
      BY <2>1 DEF SaveRunning, PreparationFails, AskProvider, SavePersisting, Persist,
                  PersistFails, SnapshotInvalid, GiveUp, ResumeSpool, ResumeFails
    <3>2. J(r) \in Jobs  BY <1>1, <3>1, RunnerAtJob
    <3> QED
      BY <1>2, <1>3, <1>4, <2>1, <3>2
      DEF SaveRunning, Save, PreparationFails, AskProvider, SavePersisting, Persist,
          PersistFails, SnapshotInvalid, GiveUp, ResumeSpool, ResumeFails, WaitForRetry, J
  <2> QED
    BY <1>2, <1>7, <2>1
    DEF RunnerStep, Start, PutBack, Register, StatementErrs, ProviderDelivers, ProviderRefuses,
        ProviderSilent, CheckActive, Finish, RetryRefused, RetrySpooled, WaitForRetry
<1> QED
  BY <1>2, <1>5, <1>6, <1>7
  DEF Next, vars, JobStep, ProcessStep, CancelMark, DeadlinePasses, BackoffElapses,
      LeaseExpires, CancelRead, Claim, OrphanLeaseExpires, ProcessStarts, ProcessUp,
      RecoverLook, Crash

\* A runner acts by its own steps, is started by a claim, or ends in a crash.
LEMMA RunnerActs ==
  ASSUME PInv, [Next]_vars, NEW r \in Runners
  PROVE  \/ Stays(r) \/ Stops(r) \/ RunnerStep(r)
         \/ runner[r].pc = "idle" /\ runner'[r].pc = "claimed"
<1>1. TInv /\ RunnerTyped  BY TInvParts DEF PInv
<1>2. ASSUME runner' = runner  PROVE Stays(r)
  BY <1>2 DEF Stays
<1>3. ASSUME NEW j \in Jobs, CancelRest(j)  PROVE Stays(r)
  BY <1>1, <1>3, MarksOnly DEF Stays
<1>4. ASSUME NEW q \in Runners, NEW j \in Jobs, Claim(q, j)
      PROVE  Stays(r) \/ (runner[r].pc = "idle" /\ runner'[r].pc = "claimed")
  BY <1>1, <1>4, ClaimRows DEF Stays
<1>5. ASSUME NEW p \in Processes, Crash(p)  PROVE Stays(r) \/ Stops(r)
  BY <1>1, <1>5, CrashRows DEF Stays, Stops
<1>6. ASSUME NEW q \in Runners, RunnerStep(q)  PROVE Stays(r) \/ RunnerStep(r)
  <2>1. RunnerEnds(q) \/ \E pc \in RunnerStates : RunnerGoes(q, pc)
    BY <1>6 DEF RunnerStep, Start, PutBack, SnapshotInvalid, SaveRunning, Register,
       PreparationFails, StatementErrs, AskProvider, ProviderDelivers, ProviderRefuses,
       ProviderSilent, CheckActive, SavePersisting, Persist, PersistFails, Finish,
       RetryRefused, RetrySpooled, GiveUp, ResumeSpool, ResumeFails, RunnerStates, Registered
  <2>2. q # r => runner'[r] = runner[r]
    BY <1>1, <2>1 DEF RunnerEnds, RunnerGoes, RunnerTyped
  <2> QED  BY <1>6, <2>2 DEF Stays
<1> QED
  BY <1>2, <1>3, <1>4, <1>5, <1>6
  DEF Next, vars, JobStep, ProcessStep, Enqueue, CancelMark, CancelJob, DeadlinePasses,
      BackoffElapses, Expire, LeaseExpires, CancelRead, OrphanLeaseExpires, ProcessStarts,
      RecoverJob, ProcessUp, RecoverLook

Preparing == {"saved", "preparing", "asking"}
Unheard == {"asking", "failed", "errored"}

\* A runner gets to a request past the check for a spooled image, and leaves one
\* with an answer or by giving up.
LEMMA AskMoves ==
  ASSUME PInv, NEW r \in Runners, RunnerStep(r)
  PROVE  /\ runner[r].pc # "idle"
         /\ runner'[r].pc \in Preparing =>
               /\ runner'[r].job = runner[r].job
               /\ runner[r].pc \in Preparing \/ ~job[J(r)].spool
         /\ runner[r].pc \in Unheard =>
               \/ runner'[r].pc \in Unheard \/ Stops(r)
               \/ ProviderDelivers(r) \/ ProviderRefuses(r)
<1>1. RunnerTyped  BY TInvParts DEF PInv
<1>2. runner[r].pc # "idle"
  BY DEF RunnerStep, Start, PutBack, SnapshotInvalid, SaveRunning, Register,
     PreparationFails, StatementErrs, AskProvider, ProviderDelivers, ProviderRefuses,
     ProviderSilent, CheckActive, SavePersisting, Persist, PersistFails, Finish,
     RetryRefused, RetrySpooled, GiveUp, ResumeSpool, ResumeFails
<1>3. CASE RunnerEnds(r)
  BY <1>1, <1>2, <1>3 DEF RunnerEnds, RunnerTyped, Stops, Idle, Preparing
<1>4. \A pc : RunnerGoes(r, pc) => runner'[r].pc = pc /\ runner'[r].job = runner[r].job
  BY <1>1 DEF RunnerGoes, RunnerTyped, RunnerRow
<1> QED
  BY <1>2, <1>3, <1>4 DEF RunnerStep, Start, PutBack, SnapshotInvalid, SaveRunning, Register,
     PreparationFails, StatementErrs, AskProvider, ProviderDelivers, ProviderRefuses,
     ProviderSilent, CheckActive, SavePersisting, Persist, PersistFails, Finish,
     RetryRefused, RetrySpooled, GiveUp, ResumeSpool, ResumeFails, Preparing, Unheard

\* An answer spools the image of its own job, and closes the request.
LEMMA Answers ==
  ASSUME TInv, NEW r \in Runners, ProviderDelivers(r) \/ ProviderRefuses(r)
  PROVE  /\ J(r) \in Jobs /\ asked'[J(r)] = "answered"
         /\ runner'[r].pc \notin Preparing
         /\ \A k \in Jobs \ {J(r)} : job'[k] = job[k]
<1>1. JobTyped /\ RunnerTyped /\ AskedTyped  BY TInvParts
<1>2. J(r) \in Jobs
  <2>1. runner[r].pc # "idle"  BY DEF ProviderDelivers, ProviderRefuses
  <2> QED  BY <1>1, <2>1, RunnerAtJob
<1>3. asked'[J(r)] = "answered"  BY <1>1, <1>2 DEF ProviderDelivers, ProviderRefuses, AskedTyped
<1>4. \A k \in Jobs \ {J(r)} : job'[k] = job[k]
  BY <1>1 DEF JobTyped, ProviderDelivers, ProviderRefuses
<1>5. \A pc : RunnerGoes(r, pc) => runner'[r].pc = pc
  BY <1>1 DEF RunnerGoes, RunnerTyped, RunnerRow
<1>6. runner'[r].pc \in {"image", "retryable", "failed"}
  BY <1>5 DEF ProviderDelivers, ProviderRefuses
<1>7. runner'[r].pc \notin Preparing  BY <1>6 DEF Preparing
<1> QED  BY <1>2, <1>3, <1>4, <1>7

\* A request is opened by AskProvider alone.
LEMMA Opens ==
  ASSUME TInv, [Next]_vars, NEW k \in Jobs, asked'[k] = "open", asked[k] # "open"
  PROVE  \E r \in Runners : AskProvider(r) /\ J(r) = k
<1>1. AskedTyped  BY TInvParts
<1>2. ASSUME NEW r \in Runners, RunnerStep(r)  PROVE AskProvider(r) /\ J(r) = k
  BY <1>1, <1>2 DEF AskedTyped, RunnerStep, Start, PutBack, SnapshotInvalid, SaveRunning,
     Register, PreparationFails, StatementErrs, AskProvider, ProviderDelivers,
     ProviderRefuses, ProviderSilent, CheckActive, SavePersisting, Persist, PersistFails,
     Finish, RetryRefused, RetrySpooled, GiveUp, ResumeSpool, ResumeFails
<1> QED
  BY <1>2 DEF Next, vars, JobStep, ProcessStep, Enqueue, CancelMark, CancelJob, CancelRest,
      DeadlinePasses, BackoffElapses, Expire, LeaseExpires, CancelRead, Claim,
      OrphanLeaseExpires, ProcessStarts, RecoverJob, ProcessUp, RecoverLook, Crash

\* The job of an unanswered request is not put back to wait: not by its runner, which
\* has no image and no refusal to try again with, and not by a recovery.
LEMMA NotAgain ==
  ASSUME PInv, Unanswered, [Next]_vars, NEW k \in Jobs, asked[k] = "open"
  PROVE  job'[k].status \in Ended \union {"running"}
<1>1. TInv /\ JobTyped /\ RecordTyped /\ RunnerTyped  BY TInvParts DEF PInv
<1>2. /\ job[k].status \in Ended \union {"running"} /\ ~job[k].spool
      /\ \A r \in Runners : J(r) = k => runner[r].pc \in Unheard
      /\ \A p \in Processes : todo[p].verdict = "requeue" => todo[p].at # k
  BY DEF Unanswered, Unheard, J
<1>3. ASSUME job'[k].status = job[k].status \/ Plain(k)
      PROVE  job'[k].status \in Ended \union {"running"}
  BY <1>2, <1>3 DEF Plain, Steady, Enqueued, Failed, Claimed, Waiting, Active, Ended
<1>4. ASSUME ~\E r \in Runners : RunnerStep(r), ~\E p \in Processes : RecoverJob(p)
      PROVE  Plain(k)
  BY <1>4, OtherMoves
<1>5. ASSUME NEW p \in Processes, RecoverJob(p)
      PROVE  job'[k].status \in Ended \union {"running"}
  <2> DEFINE j == todo[p].at
  <2>1. j \in Jobs  BY <1>1, <1>5, RecoverRows
  <2>2. CASE k # j
    <3>1. Steady(k)  BY <1>5, <2>2, RecoverMoves
    <3> QED  BY <1>3, <3>1 DEF Plain
  <2>3. CASE RecoverSucceeded(j) /\ k = j
    <3>1. job' = job \/ job'[k].status = "succeeded"
      BY <1>1, <2>1, <2>3, RecoverSucceededRows DEF RecoverSucceeded
    <3> QED  BY <1>3, <3>1 DEF Ended
  <2>4. CASE RecoverFailed(j)
    <3>1. \E status \in {"failed", "cancelled"}, t \in {Nobody} : TryFail(j, t, status)
      BY <2>4 DEF RecoverFailed, FailedAs
    <3>2. works' = works  BY <1>5 DEF RecoverJob
    <3>3. Plain(k)  BY <2>1, <3>1, <3>2, TryFailMoves DEF Plain
    <3> QED  BY <1>3, <3>3
  <2> QED  BY <1>2, <1>5, <2>2, <2>3, <2>4 DEF RecoverJob
<1>6. ASSUME NEW r \in Runners, RunnerStep(r)
      PROVE  job'[k].status \in Ended \union {"running"}
  <2>1. CASE \/ Start(r) \/ SaveRunning(r) \/ Register(r) \/ PreparationFails(r)
             \/ StatementErrs(r) \/ AskProvider(r)
             \/ ProviderDelivers(r) \/ ProviderRefuses(r) \/ ProviderSilent(r)
             \/ (CheckActive(r) /\ record[J(r)].status = "active")
             \/ SavePersisting(r) \/ PersistFails(r)
    <3>1. JobsFenced  BY <1>1, <2>1, RunnerGoesOn
    <3> QED  BY <1>3, <3>1 DEF JobsFenced
  <2>2. CASE Persist(r)
    <3>1. J(r) \in Jobs  BY <1>1, <2>2, Persists
    <3>2. /\ job'[J(r)].status = job[J(r)].status
          /\ \A i \in Jobs \ {J(r)} : job'[i] = job[i]
      BY <1>1, <2>2, <3>1, PersistRows
    <3> QED  BY <1>3, <3>2
  <2>3. CASE PutBack(r)
    <3>1. runner[r].pc = "claimed"  BY <2>3 DEF PutBack
    <3>2. J(r) # k /\ J(r) \in Jobs  BY <1>1, <1>2, <3>1, RunnerAtJob DEF Unheard
    <3>3. job'[k] = job[k]  BY <1>1, <2>3, <3>2, PutBackRows
    <3> QED  BY <1>3, <3>3
  <2>4. CASE SnapshotInvalid(r) \/ GiveUp(r)
    <3>1. J(r) \in Jobs  BY <1>1, <2>4, RunnerStops
    <3>2. works' = works /\ \E status \in {"failed", "cancelled"} : TryFail(J(r), r, status)
      BY <2>4 DEF SnapshotInvalid, GiveUp, FailedAs, J
    <3>3. Plain(k)  BY <3>1, <3>2, TryFailMoves DEF Plain
    <3> QED  BY <1>3, <3>3
  <2>5. CASE CheckActive(r)  BY <1>3, <2>5 DEF CheckActive
  <2>6. CASE Finish(r)
    <3>1. J(r) \in Jobs  BY <1>1, <2>6, RunnerStops
    <3>2. /\ job'[J(r)].status \in {job[J(r)].status, "succeeded"}
          /\ \A i \in Jobs \ {J(r)} : job'[i] = job[i]
      BY <1>1, <2>6, <3>1, FinishRows
    <3> QED  BY <1>3, <3>2 DEF Ended
  <2>7. CASE RetryRefused(r) \/ RetrySpooled(r) \/ (ResumeFails(r) /\ WaitForRetry(r))
    <3>1. /\ WaitForRetry(r)
          /\ runner[r].pc \in {"retryable", "start"} \/ job[J(r)].spool
          /\ runner[r].pc # "idle"
      BY <2>7 DEF RetryRefused, RetrySpooled, ResumeFails
    <3>2. J(r) # k /\ J(r) \in Jobs  BY <1>1, <1>2, <3>1, RunnerAtJob DEF Unheard
    <3>3. job'[k] = job[k]  BY <1>1, <3>1, <3>2, WaitRows
    <3> QED  BY <1>3, <3>3
  <2>8. CASE ResumeSpool(r)
    <3>1. J(r) \in Jobs  BY <1>1, <2>8, RunnerStops
    <3>2. /\ job'[J(r)].status = "succeeded"
          /\ \A i \in Jobs \ {J(r)} : job'[i] = job[i]
      BY <1>1, <2>8, <3>1, ResumeRows
    <3> QED  BY <1>3, <3>2 DEF Ended
  <2>9. CASE ResumeFails(r) /\ ~WaitForRetry(r)
    <3>1. J(r) \in Jobs  BY <1>1, <2>9, RunnerStops
    <3>2. CASE job' = job  BY <1>3, <3>2
    <3>3. CASE TryFail(J(r), r, "failed")
      <4>1. works' = works  BY <2>9 DEF ResumeFails
      <4>2. Plain(k)  BY <3>1, <3>3, <4>1, TryFailMoves DEF Plain
      <4> QED  BY <1>3, <4>2
    <3> QED  BY <2>9, <3>2, <3>3 DEF ResumeFails
  <2> QED
    BY <1>6, <2>1, <2>2, <2>3, <2>4, <2>5, <2>6, <2>7, <2>8, <2>9 DEF RunnerStep
<1> QED  BY <1>3, <1>4, <1>5, <1>6

\* A verdict of a recovery stays, or has just been read off the record.
LEMMA Looks ==
  ASSUME TInv, [Next]_vars, NEW p \in Processes, todo'[p].verdict # "none"
  PROVE  \/ todo'[p].verdict = todo[p].verdict /\ todo'[p].at = todo[p].at
         \/ \E j \in Jobs : todo'[p].at = j /\ todo'[p].verdict = Verdict(j)
<1> DEFINE Kept == todo'[p].verdict = todo[p].verdict /\ todo'[p].at = todo[p].at
<1>1. ASSUME todo' = todo  PROVE Kept
  BY <1>1
<1>2. ASSUME NEW q \in Processes, Crash(q)  PROVE Kept
  BY <1>2, CrashRows DEF NothingToDo
<1>3. ASSUME NEW q \in Processes, ProcessStarts(q)  PROVE Kept
  BY <1>3, StartRows
<1>4. ASSUME NEW q \in Processes, RecoverJob(q)  PROVE Kept
  <2>1. todo'[q].verdict = "none"
    <3>1. todo[q] \in TodoRow  BY TInvParts DEF TodoTyped
    <3>2. [todo[q] EXCEPT !.at = 0, !.verdict = "none"].verdict = "none"
      BY <3>1 DEF TodoRow
    <3>3. NothingToDo.verdict = "none"  BY DEF NothingToDo
    <3>4. todo'[q] \in {NothingToDo, [todo[q] EXCEPT !.at = 0, !.verdict = "none"]}
      BY <1>4, RecoverRows
    <3> QED  BY <3>2, <3>3, <3>4
  <2> QED  BY ZenonT(60), <1>4, <2>1, RecoverRows
<1>5. ASSUME NEW q \in Processes, NEW j \in Jobs, RecoverLook(q, j)
      PROVE  Kept \/ (todo'[p].at = j /\ todo'[p].verdict = Verdict(j))
  <2>1. /\ todo'[q] = [jobs |-> todo[q].jobs \ {j}, at |-> j, verdict |-> Verdict(j)]
        /\ \A o \in Processes \ {q} : todo'[o] = todo[o]
    BY <1>5, LookRows
  <2> QED  BY <2>1
<1> QED
  BY ZenonT(60), <1>1, <1>2, <1>3, <1>4, <1>5
  DEF Next, vars, JobStep, ProcessStep, Enqueue, CancelMark, CancelJob, CancelRest,
      DeadlinePasses, BackoffElapses, Expire, LeaseExpires, CancelRead, Claim,
      OrphanLeaseExpires, ProcessUp,
      RunnerStep, Start, PutBack, SnapshotInvalid, SaveRunning, Register, PreparationFails,
      StatementErrs, AskProvider, ProviderDelivers, ProviderRefuses, ProviderSilent,
      CheckActive, SavePersisting, Persist, PersistFails, Finish, RetryRefused, RetrySpooled,
      GiveUp, ResumeSpool, ResumeFails

LEMMA UnansweredStep ==
  ASSUME OneProcess, Idempotent = FALSE, PInv, Unanswered, [Next]_vars
  PROVE  Unanswered'
<1>1. /\ TInv /\ JobTyped /\ RunnerTyped /\ TodoTyped /\ AskedTyped /\ RecordTyped
      /\ OneRunnerPerJob
  BY TInvParts DEF PInv
<1>2. NoneSpooled \/ \E r \in Runners : ProviderDelivers(r)  BY <1>1, Spools
<1>3. ASSUME NEW k \in Jobs, asked[k] = "open", asked'[k] = "open"
      PROVE  /\ record'[k].started /\ ~job'[k].spool
             /\ job'[k].status \in Ended \union {"running"}
             /\ \A r \in Runners : runner'[r].job = k => runner'[r].pc \in Unheard
  <2>1. /\ record[k].started /\ ~job[k].spool
        /\ job[k].status \in Ended \union {"running"}
        /\ \A r \in Runners : runner[r].job = k => runner[r].pc \in Unheard
    BY <1>3 DEF Unanswered, Unheard
  <2>2. record'[k].started  BY <1>1, <2>1, StartedStays DEF StartedKept
  <2>3. ASSUME NEW r \in Runners, ProviderDelivers(r) \/ ProviderRefuses(r)
        PROVE  J(r) # k /\ job'[k] = job[k]
    <3>1. asked'[J(r)] = "answered" /\ \A i \in Jobs \ {J(r)} : job'[i] = job[i]
      BY <1>1, <2>3, Answers
    <3> QED  BY <1>3, <3>1
  <2>4. ~job'[k].spool  BY <1>2, <2>1, <2>3 DEF NoneSpooled
  <2>5. job'[k].status \in Ended \union {"running"}  BY <1>3, NotAgain
  <2>6. ASSUME NEW r \in Runners, runner'[r].job = k  PROVE runner'[r].pc \in Unheard
    <3>1. ~Stops(r)  BY <2>6 DEF Stops, Idle, Jobs
    <3>2. ~Takes(r)  BY <2>1, <2>6 DEF Takes, Waiting, Ended
    <3>3. J(r) = k /\ runner[r].pc \in Unheard
      BY <2>1, <2>6, <3>1, <3>2, RunnerDoes DEF Stays, Goes, J
    <3>4. Stays(r) \/ RunnerStep(r)  BY <3>1, <3>3, RunnerActs DEF Unheard
    <3>5. CASE Stays(r)  BY <3>3, <3>5 DEF Stays
    <3>6. CASE RunnerStep(r)  BY <2>3, <3>1, <3>3, <3>6, AskMoves
    <3> QED  BY <3>4, <3>5, <3>6
  <2> QED  BY <2>2, <2>4, <2>5, <2>6
<1>4. ASSUME NEW r \in Runners, AskProvider(r), NEW k \in Jobs, J(r) = k
      PROVE  /\ record'[k].started /\ ~job'[k].spool
             /\ job'[k].status \in Ended \union {"running"}
             /\ \A q \in Runners : runner'[q].job = k => runner'[q].pc \in Unheard
  <2>1. runner[r].pc = "preparing" /\ RunnerGoes(r, "asking") /\ job' = job
        /\ record' = [record EXCEPT ![k].started = TRUE]
    BY <1>4 DEF AskProvider
  <2>2. record'[k].started  BY <1>1, <2>1 DEF RecordTyped, RecordRow
  <2>3. ~job'[k].spool  BY <1>4, <2>1 DEF Unanswered
  <2>4. job'[k].status \in Ended \union {"running"}
    BY <1>4, <2>1, WiringAssumption DEF PInv, HeldBy
  <2>5. ASSUME NEW q \in Runners, runner'[q].job = k  PROVE runner'[q].pc \in Unheard
    <3>1. /\ runner'[r].pc = "asking"
          /\ \A i \in Runners \ {r} : runner'[i] = runner[i]
      BY <1>1, <2>1 DEF RunnerGoes, RunnerTyped, RunnerRow
    <3>2. q = r  BY <1>1, <1>4, <2>5, <3>1 DEF OneRunnerPerJob, J, Jobs
    <3> QED  BY <3>1, <3>2 DEF Unheard
  <2> QED  BY <2>2, <2>3, <2>4, <2>5
<1>5. \A k \in Jobs : asked'[k] = "open" =>
          /\ record'[k].started /\ ~job'[k].spool
          /\ job'[k].status \in Ended \union {"running"}
          /\ \A r \in Runners : runner'[r].job = k => runner'[r].pc \in Unheard
  <2> SUFFICES ASSUME NEW k \in Jobs, asked'[k] = "open"
               PROVE  /\ record'[k].started /\ ~job'[k].spool
                      /\ job'[k].status \in Ended \union {"running"}
                      /\ \A r \in Runners : runner'[r].job = k => runner'[r].pc \in Unheard
    OBVIOUS
  <2>1. CASE asked[k] = "open"  BY <1>3, <2>1
  <2>2. CASE asked[k] # "open"
    <3>1. PICK r \in Runners : AskProvider(r) /\ J(r) = k  BY <1>1, <2>2, Opens
    <3> QED  BY <1>4, <3>1
  <2> QED  BY <2>1, <2>2
<1>6. ASSUME NEW r \in Runners, runner'[r].pc \in Preparing
      PROVE  ~job'[J(r)'].spool
  <2>1. ~Stops(r) /\ runner'[r].pc # "claimed" /\ runner'[r].pc # "idle"
    BY <1>6 DEF Stops, Idle, Preparing
  <2>2. /\ runner'[r].job = J(r)
        /\ runner[r].pc \in Preparing \/ ~job[J(r)].spool
        /\ runner[r].pc # "idle"
    <3>1. CASE Stays(r)  BY <1>6, <2>1, <3>1 DEF Stays, J
    <3>2. CASE RunnerStep(r)  BY <1>6, <3>2, AskMoves DEF J
    <3> QED  BY <2>1, <3>1, <3>2, RunnerActs
  <2>3. J(r) \in Jobs /\ ~job[J(r)].spool
    <3>1. J(r) \in Jobs  BY <1>1, <2>2, RunnerAtJob
    <3>2. runner[r].pc \in Preparing => ~job[J(r)].spool  BY DEF Unanswered, Preparing
    <3> QED  BY <2>2, <3>1, <3>2
  <2>4. ASSUME NEW q \in Runners, ProviderDelivers(q)  PROVE job'[J(r)] = job[J(r)]
    <3>1. /\ J(q) \in Jobs /\ runner'[q].pc \notin Preparing
          /\ \A k \in Jobs \ {J(q)} : job'[k] = job[k]
      BY <1>1, <2>4, Answers
    <3>2. q # r  BY <1>6, <3>1
    <3>3. J(q) # J(r)  BY <1>1, <2>3, <3>2 DEF OneRunnerPerJob, J, Jobs
    <3> QED  BY <2>3, <3>1, <3>3
  <2>5. ~job'[J(r)].spool  BY <1>2, <2>3, <2>4 DEF NoneSpooled
  <2> QED  BY <2>2, <2>5 DEF J
<1>7. ASSUME NEW p \in Processes, todo'[p].verdict = "requeue"
      PROVE  asked'[todo'[p].at] # "open"
  <2> DEFINE k == todo'[p].at
  <2> SUFFICES ASSUME asked'[k] = "open"  PROVE FALSE
    OBVIOUS
  <2>1. k \in Jobs
    <3>1. TodoTyped'
      BY <1>1, TInvStep DEF TInv, ImageTypeOK, TodoTyped, TodoRow
    <3> QED  BY <1>7, <3>1 DEF TodoTyped, VerdictPlaced, TodoRow, Jobs
  <2> HIDE DEF k
  <2>2. CASE asked[k] # "open"
    <3>1. PICK r \in Runners : AskProvider(r) /\ J(r) = k  BY <1>1, <2>1, <2>2, Opens
    <3>2. runner[r].pc # "idle" /\ todo' = todo  BY <3>1 DEF AskProvider
    <3>3. todo[p] = NothingToDo  BY <3>2, UpWhile
    <3> QED  BY <1>7, <3>2, <3>3 DEF NothingToDo
  <2>3. CASE asked[k] = "open"
    <3>1. /\ record[k].started /\ ~job[k].spool
          /\ todo[p].verdict = "requeue" => todo[p].at # k
      BY <2>1, <2>3 DEF Unanswered
    <3>2. Verdict(k) # "requeue"
      BY <1>1, <2>1, <3>1 DEF Verdict, RecordTyped, RecordRow
    <3>3. \/ todo'[p].verdict = todo[p].verdict /\ k = todo[p].at
          \/ todo'[p].verdict = Verdict(k)
      BY <1>1, <1>7, Looks DEF k
    <3> QED  BY <1>7, <3>1, <3>2, <3>3
  <2> QED  BY <2>2, <2>3
<1> QED  BY <1>5, <1>6, <1>7 DEF Unanswered, Unheard, Preparing, J

LEMMA InitUnanswered == Init => Unanswered
BY DEF Init, Unanswered, Idle, NothingToDo

\* With one process, a provider that does not deduplicate is never asked again while
\* it is unknown what became of an earlier request for the job: not after a crash of
\* the runner, a silent provider, a failed preparation or a recovery.
THEOREM NoBlindReplayEver ==
  ASSUME OneProcess
  PROVE  Spec => NoBlindReplay
<1> DEFINE Asks == \A r \in Runners : (AskProvider(r) /\ ~Idempotent) => asked[J(r)] # "open"
<1>1. CASE Idempotent = TRUE
  <2>1. [Next]_vars => [Asks]_vars  BY <1>1
  <2> QED  BY <2>1, PTL DEF Spec, NoBlindReplay
<1>2. CASE Idempotent = FALSE
  <2>1. Init => PInv /\ Unanswered  BY InitHeld, InitUnanswered
  <2>2. PInv /\ Unanswered /\ [Next]_vars => (PInv /\ Unanswered)'
    BY <1>2, PInvStep, UnansweredStep
  <2>3. PInv /\ Unanswered /\ [Next]_vars => [Asks]_vars
    <3> SUFFICES ASSUME PInv, Unanswered, NEW r \in Runners, AskProvider(r)
                 PROVE  asked[J(r)] # "open"
      OBVIOUS
    <3>1. runner[r].pc = "preparing"  BY DEF AskProvider
    <3>2. J(r) \in Jobs  BY <3>1, TInvParts, RunnerAtJob DEF PInv
    <3> QED  BY <3>1, <3>2 DEF Unanswered, J
  <2> QED  BY <2>1, <2>2, <2>3, PTL DEF Spec, NoBlindReplay
<1> QED  BY <1>1, <1>2, SwitchAssumption
===============================================================================
