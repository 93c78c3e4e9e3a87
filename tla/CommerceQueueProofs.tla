------------------------ MODULE CommerceQueueProofs ------------------------
(***************************************************************************)
(* Proofs about CommerceQueue, for every number of items, batches, workers *)
(* and attempts, and every price: first jobs, items and batches, then the  *)
(* credits.                                                                *)
(***************************************************************************)
EXTENDS CommerceQueue, FiniteSetTheorems, TLAPS

-----------------------------------------------------------------------------
(***************************************************************************)
(* Types of the values that the operators of the queue compute.            *)
(***************************************************************************)

\* A return of held credits keeps the columns of the balance natural numbers.
LEMMA ReturnType ==
  ASSUME TypeOK, NEW held \in Nat, NEW back \in Nat, Return(held, back)
  PROVE  credits' \in Balance
BY DEF TypeOK, Balance, Return

\* So does the settlement of a reservation.
LEMMA DrawDownType ==
  ASSUME NEW r \in ReservationRow, NEW held \in Nat, r.reserved >= held,
         NEW settled \in 0..held
  PROVE  DrawDown(r, held, settled) \in ReservationRow
BY DEF ReservationRow, DrawDown

\* An item is charged at most its hold.
LEMMA ChargeType ==
  ASSUME NEW actual \in 0..MaxActual
  PROVE  Charge(actual) \in 0..Price
BY CountsAssumption DEF Charge

\* The holds of a set of items add up to a number.
LEMMA HeldType ==
  ASSUME NEW b, NEW S \in SUBSET Items
  PROVE  /\ HeldIn(b, S) \in Nat
         /\ Price * Cardinality(Unclaimed(S)) \in Nat
<1>1. IsFiniteSet(S)  BY ItemsAssumption, FS_Subset
<1>2. /\ IsFiniteSet({i \in Unclaimed(S) : item[i].batch = b})
      /\ IsFiniteSet(Unclaimed(S))
  BY <1>1, FS_Subset DEF Unclaimed
<1>3. /\ Cardinality({i \in Unclaimed(S) : item[i].batch = b}) \in Nat
      /\ Cardinality(Unclaimed(S)) \in Nat
  BY <1>2, FS_CardinalityType
<1> QED  BY <1>3, CountsAssumption DEF HeldIn

\* Releasing holds keeps the three tables of the ledger well typed.
LEMMA ReleaseType ==
  ASSUME TypeOK, NEW S \in SUBSET Items, ReleaseHolds(S)
  PROVE  /\ credits' \in Balance
         /\ reservation' \in [Batches -> ReservationRow]
         /\ settlement' \in [Items -> SettlementRow]
<1>1. credits' \in Balance
  BY HeldType, ReturnType DEF ReleaseHolds
<1>2. reservation' \in [Batches -> ReservationRow]
  <2>1. ASSUME NEW b \in Batches
        PROVE  DrawDown(reservation[b], HeldIn(b, S), 0) \in ReservationRow
    BY HeldType, DrawDownType DEF ReleaseHolds, TypeOK
  <2> QED  BY <2>1 DEF ReleaseHolds, TypeOK
<1>3. settlement' \in [Items -> SettlementRow]
  BY CountsAssumption DEF ReleaseHolds, TypeOK, SettlementRow
<1> QED  BY <1>1, <1>2, <1>3

\* So does settling the hold of an item.
LEMMA SettleType ==
  ASSUME TypeOK, NEW i \in Items, NEW actual \in 0..MaxActual, SettleHold(i, actual)
  PROVE  /\ credits' \in Balance
         /\ reservation' \in [Batches -> ReservationRow]
         /\ settlement' \in [Items -> SettlementRow]
<1>1. CASE settlement[i].claimed
  BY <1>1 DEF SettleHold, TypeOK
<1>2. CASE ~settlement[i].claimed
  <2> DEFINE b == item[i].batch
             paid == Charge(actual)
  <2>1. /\ Return(Price, Price - paid)
        /\ reservation[b].reserved >= Price
        /\ reservation' = [reservation EXCEPT ![b] = DrawDown(@, Price, paid)]
        /\ settlement' = [settlement EXCEPT ![i] = [claimed |-> TRUE, settled |-> paid]]
    BY <1>2 DEF SettleHold
  <2>2. paid \in 0..Price  BY ChargeType
  <2>3. Price \in Nat /\ Price - paid \in Nat  BY <2>2, CountsAssumption
  <2>4. credits' \in Balance  BY <2>1, <2>3, ReturnType
  <2>5. reservation' \in [Batches -> ReservationRow]
    <3> HIDE DEF paid
    <3>1. CASE b \in Batches
      <4>1. DrawDown(reservation[b], Price, paid) \in ReservationRow
        BY <3>1, <2>1, <2>2, <2>3, DrawDownType DEF TypeOK
      <4> QED  BY <4>1, <2>1, <3>1 DEF TypeOK
    <3>2. CASE b \notin Batches  BY <3>2, <2>1 DEF TypeOK
    <3> QED  BY <3>1, <3>2
  <2>6. settlement' \in [Items -> SettlementRow]
    <3> HIDE DEF paid
    <3> QED  BY <2>1, <2>2 DEF TypeOK, SettlementRow
  <2> QED  BY <2>4, <2>5, <2>6
<1> QED  BY <1>1, <1>2

-----------------------------------------------------------------------------
(***************************************************************************)
(* The rows that one transaction writes, and what it leaves of the rest.   *)
(***************************************************************************)

RowsTyped ==
    /\ batch \in [Batches -> BatchRow]
    /\ item \in [Items -> ItemRow]
    /\ job \in [Items -> JobRow]
    /\ credits \in Balance
    /\ reservation \in [Batches -> ReservationRow]
    /\ settlement \in [Items -> SettlementRow]

OthersTyped ==
    /\ project \in {"active", "deletion_requested", "deleted"}
    /\ handler \in [Items -> [Attempts -> Handler]]
    /\ cancelling \in [Items -> Waiting \union {"idle", "running"}]

LEMMA TypeParts == TypeOK <=> RowsTyped /\ OthersTyped
BY DEF TypeOK, RowsTyped, OthersTyped

\* Statuses that the transactions write are statuses.
LEMMA Statuses ==
  /\ "queued" \in ItemStatus /\ "retrying" \in ItemStatus /\ "running" \in ItemStatus
  /\ "succeeded" \in ItemStatus /\ "failed" \in ItemStatus /\ "canceled" \in ItemStatus
BY DEF ItemStatus, Live, Waiting, Terminal

LEMMA ReserveType ==
  ASSUME TypeOK, NEW b \in Batches, NEW amount \in Nat, Reserve(b, amount)
  PROVE  credits' \in Balance /\ reservation' \in [Batches -> ReservationRow]
BY DEF TypeOK, Reserve, Balance, ReservationRow

LEMMA CreateRowsType ==
  ASSUME TypeOK, NEW b \in Batches, NEW S \in SUBSET Items, CreateRows(b, S)
  PROVE  /\ item' \in [Items -> ItemRow]
         /\ job' \in [Items -> JobRow]
         /\ batch' \in [Batches -> BatchRow]
<1>1. [status |-> "queued", batch |-> b, cancel |-> FALSE] \in ItemRow
  BY Statuses DEF ItemRow
<1>2. [AbsentJob EXCEPT !.status = "queued"] \in JobRow
  <2>1. 0 \in 0..MaxAttempts  BY CountsAssumption
  <2> QED  BY <2>1, Statuses DEF JobRow, AbsentJob
<1>3. batch' \in [Batches -> BatchRow]  BY DEF CreateRows, TypeOK, BatchRow
<1> QED  BY <1>1, <1>2, <1>3 DEF CreateRows, TypeOK

LEMMA CancelRowsType ==
  ASSUME TypeOK, NEW S \in SUBSET Items, CancelRows(S)
  PROVE  /\ item' \in [Items -> ItemRow]
         /\ job' \in [Items -> JobRow]
         /\ credits' \in Balance
         /\ reservation' \in [Batches -> ReservationRow]
         /\ settlement' \in [Items -> SettlementRow]
<1>1. item' \in [Items -> ItemRow]
  <2>1. ASSUME NEW i \in Items
        PROVE  [item[i] EXCEPT !.cancel = TRUE,
                               !.status = IF @ \in Waiting THEN "canceled" ELSE @] \in ItemRow
    BY Statuses DEF TypeOK, ItemRow
  <2> QED  BY <2>1 DEF CancelRows, TypeOK
<1>2. job' \in [Items -> JobRow]
  <2>1. ASSUME NEW i \in Items
        PROVE  [job[i] EXCEPT !.cancel = TRUE,
                              !.status = IF @ \in Waiting THEN "canceled" ELSE @] \in JobRow
    BY ZenonT(60), Statuses DEF TypeOK, JobRow
  <2> QED  BY <2>1 DEF CancelRows, TypeOK
<1> QED  BY <1>1, <1>2, ReleaseType DEF CancelRows

LEMMA ItemBecomesType ==
  ASSUME TypeOK, NEW i \in Items, NEW s \in ItemStatus, ItemBecomes(i, s)
  PROVE  item' \in [Items -> ItemRow]
BY DEF TypeOK, ItemBecomes, ItemRow

LEMMA UnleasedType ==
  ASSUME TypeOK, NEW i \in Items, NEW s \in ItemStatus, NEW due \in BOOLEAN,
         Unleased(i, s, due)
  PROVE  job' \in [Items -> JobRow]
BY ZenonT(60) DEF TypeOK, Unleased, JobRow

\* The three ways in which a leased job ends or waits again keep all rows typed.
LEMMA CancelLeasedType ==
  ASSUME TypeOK, NEW i \in Items, CancelLeasedJob(i)
  PROVE  RowsTyped'
<1>1. /\ item' \in [Items -> ItemRow]
      /\ credits' \in Balance
      /\ reservation' \in [Batches -> ReservationRow]
      /\ settlement' \in [Items -> SettlementRow]
  <2>1. CASE item[i].status = "running"
    BY <2>1, Statuses, ItemBecomesType, ReleaseType DEF CancelLeasedJob
  <2>2. CASE item[i].status # "running"
    BY <2>2 DEF CancelLeasedJob, TypeOK
  <2> QED  BY <2>1, <2>2
<1>2. job' \in [Items -> JobRow]
  BY Statuses, UnleasedType DEF CancelLeasedJob
<1>3. batch' \in [Batches -> BatchRow]  BY DEF CancelLeasedJob, TypeOK
<1> QED  BY <1>1, <1>2, <1>3 DEF RowsTyped

LEMMA DeadLetterType ==
  ASSUME TypeOK, NEW i \in Items, DeadLetterLeasedJob(i)
  PROVE  RowsTyped'
<1>1. /\ item' \in [Items -> ItemRow]
      /\ credits' \in Balance
      /\ reservation' \in [Batches -> ReservationRow]
      /\ settlement' \in [Items -> SettlementRow]
  BY Statuses, ItemBecomesType, ReleaseType DEF DeadLetterLeasedJob
<1>2. job' \in [Items -> JobRow]
  BY Statuses, UnleasedType DEF DeadLetterLeasedJob
<1>3. batch' \in [Batches -> BatchRow]  BY DEF DeadLetterLeasedJob, TypeOK
<1> QED  BY <1>1, <1>2, <1>3 DEF RowsTyped

LEMMA ScheduleRetryType ==
  ASSUME TypeOK, NEW i \in Items, ScheduleRetry(i)
  PROVE  RowsTyped'
<1>1. item' \in [Items -> ItemRow]
  <2>1. CASE item[i].status = "running"
    BY <2>1, Statuses, ItemBecomesType DEF ScheduleRetry
  <2>2. CASE item[i].status # "running"
    BY <2>2 DEF ScheduleRetry, TypeOK
  <2> QED  BY <2>1, <2>2
<1>2. job' \in [Items -> JobRow]
  BY Statuses, UnleasedType DEF ScheduleRetry
<1>3. batch' \in [Batches -> BatchRow]  BY DEF ScheduleRetry, TypeOK
<1> QED  BY <1>1, <1>2, <1>3 DEF RowsTyped, ScheduleRetry, TypeOK

-----------------------------------------------------------------------------
(***************************************************************************)
(* The inductive invariant.  Every conjunct but the last two is checked by *)
(* TLC as a property of its own; together they are inductive.  Types need  *)
(* QueueNeverPoisoned: a claim counts an attempt, and only because a       *)
(* waiting job has one left does the count stay within MaxAttempts.  That  *)
(* in turn needs JobItemAgree: a retry is scheduled after a look at the    *)
(* job and leaves the item waiting as well.                                *)
(***************************************************************************)

\* A batch that does not exist yet carries no cancellation.
AbsentBatchUnmarked == \A b \in Batches : ~batch[b].exists => ~batch[b].cancel

\* An item that does not exist yet belongs to no batch.
AbsentItemUnbatched == \A i \in Items : item[i].status = "absent" => item[i].batch = NoBatch

IInv ==
    /\ TypeOK
    /\ JobItemAgree
    /\ QueueNeverPoisoned
    /\ AcceptedCancelEndsCanceled
    /\ HoldResolvedWithItem
    /\ DeletionStopsWork
    /\ AbsentBatchUnmarked
    /\ AbsentItemUnbatched

LEMMA InitIInv == Init => IInv
<1> SUFFICES ASSUME Init PROVE IInv
  OBVIOUS
<1>1. /\ batch = [b \in Batches |-> AbsentBatch]
      /\ item = [i \in Items |-> AbsentItem]
      /\ job = [i \in Items |-> AbsentJob]
      /\ handler = [i \in Items |-> [a \in Attempts |-> NoHandler]]
      /\ reservation = [b \in Batches |-> NoReservation]
      /\ settlement = [i \in Items |-> [claimed |-> FALSE, settled |-> 0]]
  BY DEF Init
<1>2. TypeOK
  <2>1. AbsentBatch \in BatchRow  BY DEF AbsentBatch, BatchRow
  <2>2. AbsentItem \in ItemRow  BY DEF AbsentItem, ItemRow
  <2>3. AbsentJob \in JobRow
    <3>1. 0 \in 0..MaxAttempts  BY CountsAssumption
    <3> QED  BY <3>1 DEF AbsentJob, JobRow
  <2>4. NoHandler \in Handler  BY DEF NoHandler, Handler, HandlerStates
  <2>5. NoReservation \in ReservationRow  BY DEF NoReservation, ReservationRow
  <2>6. [claimed |-> FALSE, settled |-> 0] \in SettlementRow
    <3>1. 0 \in 0..Price  BY CountsAssumption
    <3> QED  BY <3>1 DEF SettlementRow
  <2>7. credits \in Balance  BY CountsAssumption DEF Init, Balance
  <2>8. OthersTyped
    BY <1>1, <2>4 DEF Init, OthersTyped
  <2> QED  BY <1>1, <2>1, <2>2, <2>3, <2>5, <2>6, <2>7, <2>8, TypeParts DEF RowsTyped
<1>3. \A i \in Items : /\ item[i].status = "absent" /\ job[i].status = "absent"
                       /\ ~item[i].cancel /\ ~job[i].cancel
                       /\ item[i].batch = NoBatch
                       /\ ~settlement[i].claimed /\ settlement[i].settled = 0
  BY <1>1 DEF AbsentItem, AbsentJob
<1>4. \A b \in Batches : ~batch[b].cancel
  BY <1>1 DEF AbsentBatch
<1>5. "absent" \notin Live /\ "absent" \notin Waiting /\ "absent" \notin Terminal
  BY DEF Live, Waiting, Terminal
<1>6. JobItemAgree  BY <1>1, <1>4 DEF JobItemAgree, AbsentItem, AbsentJob
<1>7. QueueNeverPoisoned  BY <1>3, <1>5 DEF QueueNeverPoisoned
<1>8. AcceptedCancelEndsCanceled  BY <1>3 DEF AcceptedCancelEndsCanceled
<1>9. HoldResolvedWithItem  BY <1>3, <1>5 DEF HoldResolvedWithItem
<1>10. DeletionStopsWork  BY DEF DeletionStopsWork, Init
<1>11. AbsentBatchUnmarked  BY <1>4 DEF AbsentBatchUnmarked
<1>12. AbsentItemUnbatched  BY <1>3 DEF AbsentItemUnbatched
<1> QED  BY <1>2, <1>6, <1>7, <1>8, <1>9, <1>10, <1>11, <1>12 DEF IInv

\* Every step keeps the types.
LEMMA TypeStep ==
  ASSUME TypeOK, QueueNeverPoisoned, [Next]_vars
  PROVE  TypeOK'
<1> SUFFICES RowsTyped' /\ OthersTyped'
  BY DEF TypeOK, RowsTyped, OthersTyped
<1>1. ASSUME NEW b \in Batches, NEW S \in SUBSET Items, SubmitBatch(b, S)
      PROVE  RowsTyped' /\ OthersTyped'
  <2>1. Price * Cardinality(S) \in Nat
    BY ItemsAssumption, CountsAssumption, FS_Subset, FS_CardinalityType
  <2> QED  BY <1>1, <2>1, ReserveType, CreateRowsType
           DEF SubmitBatch, TypeOK, RowsTyped, OthersTyped
<1>2. ASSUME NEW parent \in Items, NEW b \in Batches, NEW i \in Items, RetryItem(parent, b, i)
      PROVE  RowsTyped' /\ OthersTyped'
  <2>1. {i} \in SUBSET Items /\ Price \in Nat  BY CountsAssumption
  <2> QED  BY <1>2, <2>1, ReserveType, CreateRowsType
           DEF RetryItem, TypeOK, RowsTyped, OthersTyped
<1>3. ASSUME NEW b \in Batches, CancelBatch(b)
      PROVE  RowsTyped' /\ OthersTyped'
  <2>1. Member(b, item) \in SUBSET Items  BY DEF Member
  <2>2. batch' \in [Batches -> BatchRow]
    BY <1>3 DEF CancelBatch, TypeOK, BatchRow
  <2> QED  BY <1>3, <2>1, <2>2, CancelRowsType DEF CancelBatch, TypeOK, RowsTyped, OthersTyped
<1>4. ASSUME RequestProjectDeletion
      PROVE  RowsTyped' /\ OthersTyped'
  <2>1. Items \in SUBSET Items  OBVIOUS
  <2> QED  BY <1>4, <2>1, CancelRowsType
           DEF RequestProjectDeletion, TypeOK, RowsTyped, OthersTyped
<1>5. ASSUME NEW i \in Items, CancelItemRead(i)
      PROVE  RowsTyped' /\ OthersTyped'
  BY <1>5 DEF CancelItemRead, TypeOK, RowsTyped, OthersTyped, Live
<1>6. ASSUME FinalizeProjectDeletion
      PROVE  RowsTyped' /\ OthersTyped'
  BY <1>6 DEF FinalizeProjectDeletion, TypeOK, RowsTyped, OthersTyped
<1>7. ASSUME NEW i \in Items, CancelRunningItem(i)
      PROVE  RowsTyped' /\ OthersTyped'
  <2>1. item' \in [Items -> ItemRow]
    BY <1>7 DEF CancelRunningItem, TypeOK, ItemRow
  <2>2. job' \in [Items -> JobRow]
    BY ZenonT(60), <1>7 DEF CancelRunningItem, MarkRunningJob, TypeOK, JobRow
  <2> QED  BY <1>7, <2>1, <2>2 DEF CancelRunningItem, TypeOK, RowsTyped, OthersTyped
<1>8. ASSUME NEW i \in Items, CancelWaitingItem(i)
      PROVE  RowsTyped' /\ OthersTyped'
  <2>1. item' \in [Items -> ItemRow]
    BY <1>8, Statuses DEF CancelWaitingItem, TypeOK, ItemRow
  <2>2. job' \in [Items -> JobRow]
    BY ZenonT(60), <1>8, Statuses DEF CancelWaitingItem, TypeOK, JobRow
  <2>3. {i} \in SUBSET Items  OBVIOUS
  <2> QED  BY <1>8, <2>1, <2>2, <2>3, ReleaseType
           DEF CancelWaitingItem, TypeOK, RowsTyped, OthersTyped
<1>9. ASSUME NEW i \in Items, CancelItemMisses(i)
      PROVE  RowsTyped' /\ OthersTyped'
  BY <1>9 DEF CancelItemMisses, TypeOK, RowsTyped, OthersTyped
<1>10. ASSUME NEW i \in Items, BackoffElapses(i) \/ LeaseExpires(i)
       PROVE  RowsTyped' /\ OthersTyped'
  <2>1. job' \in [Items -> JobRow]
    <3>1. CASE BackoffElapses(i)  BY ZenonT(60), <3>1 DEF BackoffElapses, TypeOK, JobRow
    <3>2. CASE LeaseExpires(i)  BY ZenonT(60), <3>2 DEF LeaseExpires, TypeOK, JobRow
    <3> QED  BY <1>10, <3>1, <3>2
  <2> QED  BY <1>10, <2>1 DEF BackoffElapses, LeaseExpires, TypeOK, RowsTyped, OthersTyped
<1>11. ASSUME NEW i \in Items, RecoverExpired(i)
       PROVE  RowsTyped' /\ OthersTyped'
  <2>1. RowsTyped'
    BY <1>11, CancelLeasedType, ScheduleRetryType, DeadLetterType DEF RecoverExpired
  <2> QED  BY <1>11, <2>1 DEF RecoverExpired, TypeOK, OthersTyped
<1>12. ASSUME NEW w \in Workers, NEW i \in Items, Claim(w, i)
       PROVE  RowsTyped' /\ OthersTyped'
  <2>1. job[i].attempts + 1 \in Attempts
    BY <1>12, CountsAssumption DEF Claim, QueueNeverPoisoned, TypeOK, JobRow, Attempts
  <2>2. job' \in [Items -> JobRow]
    <3>1. job[i] \in JobRow /\ job[i].attempts + 1 \in 0..MaxAttempts
      BY <2>1, CountsAssumption DEF TypeOK, Attempts
    <3> QED  BY <1>12, <3>1, Statuses DEF Claim, TypeOK, JobRow
  <2>3. item' \in [Items -> ItemRow]
    BY <1>12, Statuses, ItemBecomesType DEF Claim
  <2>4. [pc |-> "handling", worker |-> w] \in Handler
    BY DEF Handler, HandlerStates
  <2>5. handler' \in [Items -> [Attempts -> Handler]]
    BY <1>12, <2>1, <2>4 DEF Claim, TypeOK
  <2> QED  BY <1>12, <2>2, <2>3, <2>5 DEF Claim, TypeOK, RowsTyped, OthersTyped
<1>13. ASSUME NEW i \in Items, NEW a \in Attempts, Ends(i, a)
       PROVE  handler' \in [Items -> [Attempts -> Handler]]
  BY <1>13 DEF Ends, TypeOK, NoHandler, Handler, HandlerStates
<1>14. ASSUME NEW i \in Items, NEW a \in Attempts, NEW pc \in HandlerStates, Goes(i, a, pc)
       PROVE  handler' \in [Items -> [Attempts -> Handler]]
  <2>1. handler[i] \in [Attempts -> Handler] /\ handler[i][a] \in Handler
    BY DEF TypeOK
  <2>2. [handler[i][a] EXCEPT !.pc = pc] \in Handler  BY <2>1 DEF Handler
  <2>3. [handler[i] EXCEPT ![a] = [handler[i][a] EXCEPT !.pc = pc]] \in [Attempts -> Handler]
    BY <2>1, <2>2
  <2> QED  BY <1>14, <2>3 DEF Goes, TypeOK
<1>15. ASSUME NEW i \in Items, NEW a \in Attempts, Heartbeat(i, a)
       PROVE  RowsTyped' /\ OthersTyped'
  <2>1. job' \in [Items -> JobRow]
    BY ZenonT(60), <1>15 DEF Heartbeat, TypeOK, JobRow
  <2>2. handler' \in [Items -> [Attempts -> Handler]]
    BY <1>15, <1>14 DEF Heartbeat, TypeOK, HandlerStates
  <2> QED  BY <1>15, <2>1, <2>2 DEF Heartbeat, TypeOK, RowsTyped, OthersTyped
<1>16. ASSUME NEW i \in Items, NEW a \in Attempts, HeartbeatFails(i, a)
       PROVE  RowsTyped' /\ OthersTyped'
  BY <1>16, <1>14 DEF HeartbeatFails, TypeOK, RowsTyped, OthersTyped, HandlerStates
<1>17. ASSUME NEW i \in Items, NEW a \in Attempts, NEW actual \in 0..MaxActual,
              CompleteItem(i, a, actual)
       PROVE  RowsTyped' /\ OthersTyped'
  BY <1>17, <1>13, Statuses, ItemBecomesType, UnleasedType, SettleType
     DEF CompleteItem, TypeOK, RowsTyped, OthersTyped
<1>18. ASSUME NEW i \in Items, NEW a \in Attempts, DiscardLateResult(i, a) \/ CancelHandled(i, a)
       PROVE  RowsTyped' /\ OthersTyped'
  BY <1>18, <1>13, CancelLeasedType DEF DiscardLateResult, CancelHandled, TypeOK, OthersTyped
<1>19. ASSUME NEW i \in Items, NEW a \in Attempts, NEW retryable \in BOOLEAN,
              FailItem(i, a, retryable)
       PROVE  RowsTyped' /\ OthersTyped'
  <2>1. RowsTyped'
    BY <1>19, CancelLeasedType, ScheduleRetryType, DeadLetterType DEF FailItem
  <2> QED  BY <1>19, <1>13, <2>1 DEF FailItem, TypeOK, OthersTyped
<1>20. ASSUME NEW i \in Items, NEW a \in Attempts, GiveUp(i, a)
       PROVE  RowsTyped' /\ OthersTyped'
  BY <1>20, <1>13 DEF GiveUp, TypeOK, RowsTyped, OthersTyped
<1>21. ASSUME NEW w \in Workers, WorkerStops(w)
       PROVE  RowsTyped' /\ OthersTyped'
  <2>1. NoHandler \in Handler  BY DEF NoHandler, Handler, HandlerStates
  <2>2. handler' \in [Items -> [Attempts -> Handler]]
    BY <1>21, <2>1 DEF WorkerStops, TypeOK
  <2> QED  BY <1>21, <2>2 DEF WorkerStops, TypeOK, RowsTyped, OthersTyped
<1>22. CASE UNCHANGED vars
  BY <1>22 DEF vars, TypeOK, RowsTyped, OthersTyped
<1> QED
  BY <1>1, <1>2, <1>3, <1>4, <1>5, <1>6, <1>7, <1>8, <1>9, <1>10, <1>11, <1>12, <1>15, <1>16,
     <1>17, <1>18, <1>19, <1>20, <1>21, <1>22
     DEF Next, UserStep, CancelItemWrite, QueueStep, WorkerStep, HandlerReturns

-----------------------------------------------------------------------------
(***************************************************************************)
(* The rows of one item.  All conjuncts of IInv but the types and the      *)
(* marks of absent batches speak of one item at a time; Consistent says    *)
(* what they say of item i.                                                *)
(***************************************************************************)

Consistent(i) ==
    /\ job[i].status = item[i].status /\ job[i].cancel = item[i].cancel
    /\ item[i].batch \in Batches /\ batch[item[i].batch].cancel
         => item[i].status \in Terminal \/ (item[i].status = "running" /\ item[i].cancel)
    /\ item[i].status \in Waiting =>
         /\ ~item[i].cancel
         /\ job[i].attempts < MaxAttempts
         /\ job[i].lease = "none" /\ job[i].owner = Nobody
    /\ item[i].cancel => item[i].status \in {"running", "canceled"}
    /\ settlement[i].claimed <=> item[i].status \in Terminal
    /\ settlement[i].settled > 0 => item[i].status = "succeeded"
    /\ project # "active" /\ item[i].status \in Live => item[i].status = "running" /\ item[i].cancel
    /\ project = "deleted" => item[i].status \notin Live
    /\ item[i].status = "absent" => item[i].batch = NoBatch

LEMMA IInvParts ==
  IInv <=> TypeOK /\ AbsentBatchUnmarked /\ \A i \in Items : Consistent(i)
<1>1. ASSUME IInv, NEW i \in Items PROVE Consistent(i)
  BY <1>1 DEF IInv, Consistent, JobItemAgree, QueueNeverPoisoned, AcceptedCancelEndsCanceled,
              HoldResolvedWithItem, DeletionStopsWork, LiveItems, AbsentItemUnbatched
<1>2. ASSUME TypeOK, AbsentBatchUnmarked, \A i \in Items : Consistent(i) PROVE IInv
  <2>1. JobItemAgree  BY <1>2 DEF Consistent, JobItemAgree
  <2>2. QueueNeverPoisoned  BY <1>2 DEF Consistent, QueueNeverPoisoned
  <2>3. AcceptedCancelEndsCanceled  BY <1>2 DEF Consistent, AcceptedCancelEndsCanceled
  <2>4. HoldResolvedWithItem  BY <1>2 DEF Consistent, HoldResolvedWithItem
  <2>5. DeletionStopsWork  BY <1>2 DEF Consistent, DeletionStopsWork, LiveItems
  <2>6. AbsentItemUnbatched  BY <1>2 DEF Consistent, AbsentItemUnbatched
  <2> QED  BY <1>2, <2>1, <2>2, <2>3, <2>4, <2>5, <2>6 DEF IInv
<1> QED  BY <1>1, <1>2 DEF IInv

\* Releasing resolves exactly the holds that were not resolved.
LEMMA ReleaseRows ==
  ASSUME TypeOK, NEW S \in SUBSET Items, ReleaseHolds(S), NEW i \in Items
  PROVE  settlement'[i] = IF i \in S /\ ~settlement[i].claimed
                          THEN [claimed |-> TRUE, settled |-> 0] ELSE settlement[i]
BY DEF ReleaseHolds, Unclaimed

LEMMA SettleRows ==
  ASSUME TypeOK, NEW i \in Items, NEW actual, SettleHold(i, actual), NEW j \in Items
  PROVE  /\ j # i => settlement'[j] = settlement[j]
         /\ settlement'[i].claimed
BY DEF SettleHold, TypeOK, SettlementRow

LEMMA StatusSets ==
  /\ Waiting = {"queued", "retrying"}
  /\ Live = {"queued", "retrying", "running"}
  /\ Terminal = {"succeeded", "failed", "canceled"}
BY DEF Live, Waiting, Terminal

\* Three ways to take a job from its worker, when item j is looked at afterwards.
LEMMA CancelLeasedRows ==
  ASSUME TypeOK, NEW i \in Items, CancelLeasedJob(i), job[i].status = "running",
         UNCHANGED project, NEW j \in Items, Consistent(i), Consistent(j)
  PROVE  Consistent(j)'
<1>1. item[i].status = "running"  BY DEF Consistent
<1>2. /\ item' = [item EXCEPT ![i].status = "canceled"]
      /\ ReleaseHolds({i})
      /\ UNCHANGED batch
  BY <1>1 DEF CancelLeasedJob, ItemBecomes
<1>3. CASE j # i
  <2>1. item'[j] = item[j]  BY <1>2, <1>3 DEF TypeOK
  <2>2. job'[j] = job[j]  BY <1>3 DEF CancelLeasedJob, Unleased, TypeOK
  <2>3. settlement'[j] = settlement[j]  BY <1>2, <1>3, ReleaseRows
  <2>4. item[j].batch \in Batches => batch'[item[j].batch].cancel = batch[item[j].batch].cancel
    BY <1>2
  <2> QED  BY <2>1, <2>2, <2>3, <2>4 DEF Consistent
<1>4. CASE j = i
  <2>1. /\ item'[i].status = "canceled" /\ item'[i].cancel = item[i].cancel
    BY <1>2 DEF TypeOK, ItemRow
  <2>2. job'[i].status = "canceled" /\ job'[i].cancel = job[i].cancel
    BY DEF CancelLeasedJob, Unleased, TypeOK, JobRow
  <2>3. settlement'[i] = [claimed |-> TRUE, settled |-> 0]
    BY <1>1, <1>2, ReleaseRows, StatusSets DEF Consistent
  <2> QED  BY <1>4, <2>1, <2>2, <2>3, StatusSets DEF Consistent
<1> QED  BY <1>3, <1>4

LEMMA DeadLetterRows ==
  ASSUME TypeOK, NEW i \in Items, DeadLetterLeasedJob(i), ~item[i].cancel,
         UNCHANGED project, NEW j \in Items, Consistent(i), Consistent(j)
  PROVE  Consistent(j)'
<1>1. /\ item[i].status = "running"
      /\ item' = [item EXCEPT ![i].status = "failed"]
      /\ ReleaseHolds({i})
      /\ UNCHANGED batch
  BY DEF DeadLetterLeasedJob, ItemBecomes
<1>2. CASE j # i
  <2>1. item'[j] = item[j]  BY <1>1, <1>2 DEF TypeOK
  <2>2. job'[j] = job[j]  BY <1>2 DEF DeadLetterLeasedJob, Unleased, TypeOK
  <2>3. settlement'[j] = settlement[j]  BY <1>1, <1>2, ReleaseRows
  <2>4. item[j].batch \in Batches => batch'[item[j].batch].cancel = batch[item[j].batch].cancel
    BY <1>1
  <2> QED  BY <2>1, <2>2, <2>3, <2>4 DEF Consistent
<1>3. CASE j = i
  <2>1. /\ item'[i].status = "failed" /\ item'[i].cancel = item[i].cancel
    BY <1>1 DEF TypeOK, ItemRow
  <2>2. job'[i].status = "failed" /\ job'[i].cancel = job[i].cancel
    BY DEF DeadLetterLeasedJob, Unleased, TypeOK, JobRow
  <2>3. settlement'[i] = [claimed |-> TRUE, settled |-> 0]
    BY <1>1, ReleaseRows, StatusSets DEF Consistent
  <2> QED  BY <1>3, <2>1, <2>2, <2>3, StatusSets DEF Consistent
<1> QED  BY <1>2, <1>3

LEMMA ScheduleRetryRows ==
  ASSUME TypeOK, NEW i \in Items, ScheduleRetry(i), job[i].status = "running",
         ~item[i].cancel, AttemptsLeft(i),
         UNCHANGED project, NEW j \in Items, Consistent(i), Consistent(j)
  PROVE  Consistent(j)'
<1>1. /\ item[i].status = "running"
      /\ item' = [item EXCEPT ![i].status = "retrying"]
      /\ UNCHANGED batch
      /\ UNCHANGED settlement
  BY DEF ScheduleRetry, ItemBecomes, Consistent
<1>2. CASE j # i
  <2>1. item'[j] = item[j]  BY <1>1, <1>2 DEF TypeOK
  <2>2. job'[j] = job[j]  BY <1>2 DEF ScheduleRetry, Unleased, TypeOK
  <2>3. item[j].batch \in Batches => batch'[item[j].batch].cancel = batch[item[j].batch].cancel
    BY <1>1
  <2> QED  BY <1>1, <2>1, <2>2, <2>3 DEF Consistent
<1>3. CASE j = i
  <2>1. /\ item'[i].status = "retrying" /\ item'[i].cancel = item[i].cancel
        /\ item'[i].batch = item[i].batch
    BY <1>1 DEF TypeOK, ItemRow
  <2>2. /\ job'[i].status = "retrying" /\ job'[i].cancel = job[i].cancel
        /\ job'[i].attempts = job[i].attempts
        /\ job'[i].lease = "none" /\ job'[i].owner = Nobody
    BY DEF ScheduleRetry, Unleased, TypeOK, JobRow
  <2>3. item[i].batch \in Batches => ~batch'[item[i].batch].cancel
    BY <1>1, StatusSets DEF Consistent
  <2>4. project = "active"
    <3>1. project # "deleted"  BY <1>1, StatusSets DEF Consistent
    <3> QED  BY <1>1, <3>1, StatusSets DEF Consistent
  <2> QED  BY <1>1, <1>3, <2>1, <2>2, <2>3, <2>4, StatusSets DEF Consistent, AttemptsLeft
<1> QED  BY <1>2, <1>3

LEMMA CompleteRows ==
  ASSUME TypeOK, NEW i \in Items, NEW a \in Attempts, NEW actual \in 0..MaxActual,
         CompleteItem(i, a, actual), NEW j \in Items, Consistent(i), Consistent(j)
  PROVE  Consistent(j)'
<1>1. /\ item[i].status = "running" /\ ~item[i].cancel
      /\ item' = [item EXCEPT ![i].status = "succeeded"]
      /\ SettleHold(i, actual)
      /\ UNCHANGED batch
      /\ UNCHANGED project
  BY DEF CompleteItem, ItemBecomes
<1>2. CASE j # i
  <2>1. item'[j] = item[j]  BY <1>1, <1>2 DEF TypeOK
  <2>2. job'[j] = job[j]  BY <1>2 DEF CompleteItem, Unleased, TypeOK
  <2>3. settlement'[j] = settlement[j]  BY <1>1, <1>2, SettleRows
  <2>4. item[j].batch \in Batches => batch'[item[j].batch].cancel = batch[item[j].batch].cancel
    BY <1>1
  <2> QED  BY <1>1, <2>1, <2>2, <2>3, <2>4 DEF Consistent
<1>3. CASE j = i
  <2>1. /\ item'[i].status = "succeeded" /\ item'[i].cancel = item[i].cancel
    BY <1>1 DEF TypeOK, ItemRow
  <2>2. job'[i].status = "succeeded" /\ job'[i].cancel = job[i].cancel
    BY DEF CompleteItem, Unleased, TypeOK, JobRow
  <2>3. settlement'[i].claimed  BY <1>1, SettleRows
  <2> QED  BY <1>1, <1>3, <2>1, <2>2, <2>3, StatusSets DEF Consistent
<1> QED  BY <1>2, <1>3

LEMMA ClaimRows ==
  ASSUME TypeOK, NEW w \in Workers, NEW i \in Items, Claim(w, i),
         NEW j \in Items, Consistent(i), Consistent(j)
  PROVE  Consistent(j)'
<1>1. /\ item[i].status \in Waiting /\ ~item[i].cancel
      /\ item' = [item EXCEPT ![i].status = "running"]
      /\ UNCHANGED batch
      /\ UNCHANGED <<project, settlement>>
  BY DEF Claim, ItemBecomes
<1>2. item[j].batch \in Batches => batch'[item[j].batch].cancel = batch[item[j].batch].cancel
  BY <1>1
<1>3. CASE j # i
  <2>1. item'[j] = item[j]  BY <1>1, <1>3 DEF TypeOK
  <2>2. job'[j] = job[j]  BY <1>3 DEF Claim, TypeOK
  <2> QED  BY <1>1, <1>2, <2>1, <2>2 DEF Consistent
<1>4. CASE j = i
  <2>1. /\ item'[i].status = "running" /\ item'[i].cancel = item[i].cancel
        /\ item'[i].batch = item[i].batch
    BY <1>1 DEF TypeOK, ItemRow
  <2>2. job'[i].status = "running" /\ job'[i].cancel = job[i].cancel
    BY DEF Claim, TypeOK, JobRow
  <2>3. item[i].batch \in Batches => ~batch'[item[i].batch].cancel
    BY <1>1, <1>2, <1>4, StatusSets DEF Consistent
  <2>4. project = "active"
    BY <1>1, StatusSets DEF Consistent
  <2> QED  BY <1>1, <1>4, <2>1, <2>2, <2>3, <2>4, StatusSets DEF Consistent
<1> QED  BY <1>3, <1>4

\* Items that did not exist are ordered in a batch that did not exist.
LEMMA CreateRowsRows ==
  ASSUME TypeOK, AbsentBatchUnmarked, NEW b \in Batches, NEW S \in SUBSET Items,
         CreateRows(b, S), ~batch[b].exists, project = "active",
         \A i \in S : item[i].status = "absent",
         UNCHANGED <<project, settlement>>, NEW j \in Items, Consistent(j)
  PROVE  Consistent(j)'
<1>1. ASSUME NEW c \in Batches PROVE batch'[c].cancel = batch[c].cancel
  BY DEF CreateRows, TypeOK, BatchRow
<1>2. CASE j \notin S
  <2>1. item'[j] = item[j] /\ job'[j] = job[j]  BY <1>2 DEF CreateRows
  <2> QED  BY <1>1, <2>1 DEF Consistent
<1>3. CASE j \in S
  <2>1. item'[j] = [status |-> "queued", batch |-> b, cancel |-> FALSE]
    BY <1>3 DEF CreateRows
  <2>2. job'[j] = [AbsentJob EXCEPT !.status = "queued"]  BY <1>3 DEF CreateRows
  <2>3. /\ job'[j].status = "queued" /\ job'[j].cancel = FALSE /\ job'[j].attempts = 0
        /\ job'[j].lease = "none" /\ job'[j].owner = Nobody
    BY <2>2 DEF AbsentJob
  <2>4. ~batch'[b].cancel  BY <1>1 DEF AbsentBatchUnmarked
  <2>5. ~settlement[j].claimed /\ ~(settlement[j].settled > 0)
    BY <1>3, StatusSets DEF Consistent
  <2>6. /\ item'[j].status = "queued" /\ item'[j].batch = b
        /\ ~item'[j].cancel /\ job'[j].cancel = item'[j].cancel
    <3>1. /\ item'[j].status = "queued" /\ item'[j].batch = b /\ item'[j].cancel = FALSE
      BY <2>1
    <3>2. job'[j].cancel = item'[j].cancel  BY <2>3, <3>1, Zenon
    <3> QED  BY <3>1, <3>2
  <2>7. 0 < MaxAttempts  BY CountsAssumption
  <2>8. UNCHANGED <<project, settlement>> /\ project = "active"  OBVIOUS
  <2> QED  BY <2>3, <2>4, <2>5, <2>6, <2>7, <2>8, StatusSets DEF Consistent
<1> QED  BY <1>2, <1>3

LEMMA CancelRunningRows ==
  ASSUME TypeOK, NEW i \in Items, CancelRunningItem(i),
         NEW j \in Items, Consistent(i), Consistent(j)
  PROVE  Consistent(j)'
<1>1. /\ item[i].status = "running" /\ job[i].status = "running"
      /\ item' = [item EXCEPT ![i].cancel = TRUE]
      /\ job' = [job EXCEPT ![i].cancel = TRUE]
      /\ UNCHANGED <<project, batch, settlement>>
  BY DEF CancelRunningItem, MarkRunningJob, Consistent
<1>2. CASE j # i
  <2>1. item'[j] = item[j] /\ job'[j] = job[j]  BY <1>1, <1>2 DEF TypeOK
  <2> QED  BY <1>1, <2>1 DEF Consistent
<1>3. CASE j = i
  <2>1. item'[i].status = "running" /\ item'[i].cancel = TRUE
    BY <1>1 DEF TypeOK, ItemRow
  <2>2. job'[i].status = "running" /\ job'[i].cancel = TRUE
    BY <1>1 DEF TypeOK, JobRow
  <2>3. job'[i].cancel = item'[i].cancel /\ item'[i].cancel  BY <2>1, <2>2
  <2>4. ~settlement'[i].claimed /\ ~(settlement'[i].settled > 0)
    BY <1>1, StatusSets DEF Consistent
  <2>5. project' # "deleted"  BY <1>1, StatusSets DEF Consistent
  <2> QED  BY <1>3, <2>1, <2>2, <2>3, <2>4, <2>5, StatusSets DEF Consistent
<1> QED  BY <1>2, <1>3

LEMMA CancelWaitingRows ==
  ASSUME TypeOK, NEW i \in Items, CancelWaitingItem(i),
         NEW j \in Items, Consistent(i), Consistent(j)
  PROVE  Consistent(j)'
<1>1. /\ item[i].status \in Waiting /\ job[i].status \in Waiting
      /\ item' = [item EXCEPT ![i].status = "canceled"]
      /\ job' = [job EXCEPT ![i].status = "canceled"]
      /\ ReleaseHolds({i})
      /\ UNCHANGED batch
      /\ UNCHANGED project
  BY DEF CancelWaitingItem, StillWaits, Consistent
<1>2. CASE j # i
  <2>1. item'[j] = item[j] /\ job'[j] = job[j]  BY <1>1, <1>2 DEF TypeOK
  <2>2. settlement'[j] = settlement[j]  BY <1>1, <1>2, ReleaseRows
  <2>3. item[j].batch \in Batches => batch'[item[j].batch].cancel = batch[item[j].batch].cancel
    BY <1>1
  <2> QED  BY <1>1, <2>1, <2>2, <2>3 DEF Consistent
<1>3. CASE j = i
  <2>1. item'[i].status = "canceled" /\ item'[i].cancel = item[i].cancel
    BY <1>1 DEF TypeOK, ItemRow
  <2>2. job'[i].status = "canceled" /\ job'[i].cancel = job[i].cancel
    BY <1>1 DEF TypeOK, JobRow
  <2>3. settlement'[i] = [claimed |-> TRUE, settled |-> 0]
    BY <1>1, ReleaseRows, StatusSets DEF Consistent
  <2> QED  BY <1>1, <1>3, <2>1, <2>2, <2>3, StatusSets DEF Consistent
<1> QED  BY <1>2, <1>3

\* What CancelRows does to the rows of one item: nothing that waits is left, and what
\* runs is marked.
LEMMA CancelRowsRows ==
  ASSUME TypeOK, NEW S \in SUBSET Items, CancelRows(S), NEW j \in Items, Consistent(j)
  PROVE  /\ j \notin S \/ item[j].status \notin Live =>
               item'[j] = item[j] /\ job'[j] = job[j] /\ settlement'[j] = settlement[j]
         /\ j \in S /\ item[j].status = "running" =>
               /\ item'[j].status = "running" /\ item'[j].cancel = TRUE
               /\ job'[j].status = "running" /\ job'[j].cancel = TRUE
               /\ settlement'[j] = settlement[j]
         /\ j \in S /\ item[j].status \in Waiting =>
               /\ item'[j].status = "canceled" /\ item'[j].cancel = TRUE
               /\ job'[j].status = "canceled" /\ job'[j].cancel = TRUE
               /\ settlement'[j] = [claimed |-> TRUE, settled |-> 0]
         /\ item'[j].batch = item[j].batch
<1>1. item[j] \in ItemRow /\ job[j] \in JobRow  BY DEF TypeOK
<1>2. job[j].status = item[j].status  BY DEF Consistent
<1>3. item'[j] = IF j \in S /\ item[j].status \in Live
                 THEN [item[j] EXCEPT !.cancel = TRUE,
                                      !.status = IF item[j].status \in Waiting
                                                 THEN "canceled" ELSE item[j].status]
                 ELSE item[j]
  BY <1>1 DEF CancelRows, LiveOf, ItemRow
<1>4. job'[j] = IF j \in S /\ job[j].status \in Live
                THEN [job[j] EXCEPT !.cancel = TRUE,
                                    !.status = IF job[j].status \in Waiting
                                               THEN "canceled" ELSE job[j].status]
                ELSE job[j]
  BY <1>1 DEF CancelRows, LiveOf, JobRow
<1>5. settlement'[j] = IF j \in S /\ item[j].status \in Waiting /\ ~settlement[j].claimed
                       THEN [claimed |-> TRUE, settled |-> 0] ELSE settlement[j]
  <2> DEFINE T == {i \in S : item[i].status \in Waiting}
  <2>1. T \in SUBSET Items /\ ReleaseHolds(T)  BY DEF CancelRows
  <2>2. j \in T <=> j \in S /\ item[j].status \in Waiting  OBVIOUS
  <2> HIDE DEF T
  <2> QED  BY <2>1, <2>2, ReleaseRows
<1>6. item[j].status \in Waiting => ~settlement[j].claimed
  BY StatusSets DEF Consistent
<1> QED  BY <1>1, <1>2, <1>3, <1>4, <1>5, <1>6, StatusSets DEF ItemRow, JobRow

LEMMA CancelBatchRows ==
  ASSUME TypeOK, NEW b \in Batches, CancelBatch(b), NEW j \in Items, Consistent(j)
  PROVE  Consistent(j)'
<1> DEFINE S == Member(b, item)
<1>1. /\ S \in SUBSET Items /\ (j \in S <=> item[j].batch = b)
      /\ CancelRows(S) /\ UNCHANGED project
  BY DEF CancelBatch, Member
<1>2. ASSUME NEW c \in Batches, c # b PROVE batch'[c].cancel = batch[c].cancel
  BY <1>2 DEF CancelBatch, TypeOK
<1> HIDE DEF S
<1>3. CASE j \notin S
  <2>1. item'[j] = item[j] /\ job'[j] = job[j] /\ settlement'[j] = settlement[j]
    BY <1>1, <1>3, CancelRowsRows
  <2> QED  BY <1>1, <1>2, <1>3, <2>1 DEF Consistent
<1>4. CASE j \in S /\ item[j].status \notin Live
  <2>1. item'[j] = item[j] /\ job'[j] = job[j] /\ settlement'[j] = settlement[j]
    BY <1>1, <1>4, CancelRowsRows
  <2>2. item[j].status \in Terminal
    <3>1. item[j].status # "absent"  BY <1>1, <1>4, NullsAssumption DEF Consistent
    <3> QED  BY <1>4, <3>1, StatusSets DEF TypeOK, ItemRow, ItemStatus
  <2> QED  BY <1>1, <1>4, <2>1, <2>2, StatusSets DEF Consistent
<1>5. CASE j \in S /\ item[j].status \in Live
  <2>1. /\ item'[j].status \in {"running", "canceled"} /\ item'[j].cancel = TRUE
        /\ job'[j].status = item'[j].status /\ job'[j].cancel = TRUE
        /\ item'[j].status = "running" =>
              item[j].status = "running" /\ settlement'[j] = settlement[j]
        /\ item'[j].status = "canceled" =>
              settlement'[j] = [claimed |-> TRUE, settled |-> 0]
    <3>1. CASE item[j].status = "running"
      BY <1>1, <1>5, <3>1, CancelRowsRows, StatusSets
    <3>2. CASE item[j].status \in Waiting
      <4>1. /\ item'[j].status = "canceled" /\ item'[j].cancel = TRUE
            /\ job'[j].status = "canceled" /\ job'[j].cancel = TRUE
            /\ settlement'[j] = [claimed |-> TRUE, settled |-> 0]
        BY <1>1, <1>5, <3>2, CancelRowsRows
      <4> QED  BY <4>1
    <3> QED  BY <1>5, <3>1, <3>2, StatusSets
  <2>2. job'[j].cancel = item'[j].cancel /\ item'[j].cancel  BY <2>1, Zenon
  <2>3. settlement'[j].claimed <=> item'[j].status \in Terminal
    BY <2>1, StatusSets DEF Consistent
  <2>4. ~(settlement'[j].settled > 0)
    BY <2>1, StatusSets DEF Consistent
  <2>5. project' = "deleted" => item'[j].status \notin Live
    BY <1>1, <1>5 DEF Consistent
  <2>6. item'[j].status \notin Waiting /\ (item'[j].status \in Terminal \/ item'[j].status = "running")
    BY <2>1, StatusSets
  <2>7. item'[j].status \in Live => item'[j].status = "running"
    BY <2>1, StatusSets
  <2> QED  BY <2>1, <2>2, <2>3, <2>4, <2>5, <2>6, <2>7 DEF Consistent
<1> QED  BY <1>3, <1>4, <1>5

LEMMA DeletionRows ==
  ASSUME TypeOK, RequestProjectDeletion, NEW j \in Items, Consistent(j)
  PROVE  Consistent(j)'
<1>1. CancelRows(Items) /\ project' = "deletion_requested"
  BY DEF RequestProjectDeletion
<1>2. ASSUME NEW c \in Batches PROVE batch'[c].cancel = batch[c].cancel
  BY DEF RequestProjectDeletion
<1>3. item'[j].batch = item[j].batch
  BY <1>1, CancelRowsRows
<1>4. CASE item[j].status \notin Live
  <2>1. item'[j] = item[j] /\ job'[j] = job[j] /\ settlement'[j] = settlement[j]
    BY <1>1, <1>4, CancelRowsRows
  <2> QED  BY <1>1, <1>2, <1>4, <2>1 DEF Consistent
<1>5. CASE item[j].status \in Live
  <2>1. /\ item'[j].status \in {"running", "canceled"} /\ item'[j].cancel = TRUE
        /\ job'[j].status = item'[j].status /\ job'[j].cancel = TRUE
        /\ item'[j].status = "running" =>
              item[j].status = "running" /\ settlement'[j] = settlement[j]
        /\ item'[j].status = "canceled" =>
              settlement'[j] = [claimed |-> TRUE, settled |-> 0]
    BY ZenonT(60), <1>1, <1>5, CancelRowsRows, StatusSets
  <2>2. job'[j].cancel = item'[j].cancel /\ item'[j].cancel  BY <2>1, Zenon
  <2>3. settlement'[j].claimed <=> item'[j].status \in Terminal
    BY <2>1, StatusSets DEF Consistent
  <2>4. ~(settlement'[j].settled > 0)
    BY <2>1, StatusSets DEF Consistent
  <2>5. item'[j].status \notin Waiting /\ (item'[j].status \in Terminal \/ item'[j].status = "running")
    BY <2>1, StatusSets
  <2>6. item'[j].status \in Live => item'[j].status = "running"
    BY <2>1, StatusSets
  <2> QED  BY <1>1, <2>1, <2>2, <2>3, <2>4, <2>5, <2>6 DEF Consistent
<1> QED  BY <1>4, <1>5

\* A step that leaves the rows alone, or only prolongs, ends or awaits a lease.
LEMMA QuietRows ==
  ASSUME TypeOK, NEW j \in Items, Consistent(j),
         UNCHANGED <<project, batch, item, settlement>>,
         \/ job' = job
         \/ \E i \in Items : BackoffElapses(i) \/ LeaseExpires(i)
         \/ \E i \in Items, a \in Attempts : Heartbeat(i, a)
  PROVE  Consistent(j)'
<1>1. CASE job' = job  BY <1>1 DEF Consistent
<1>2. ASSUME NEW i \in Items, BackoffElapses(i) PROVE Consistent(j)'
  <2>1. /\ job'[j].status = job[j].status /\ job'[j].cancel = job[j].cancel
        /\ job'[j].attempts = job[j].attempts
        /\ job'[j].lease = job[j].lease /\ job'[j].owner = job[j].owner
    BY <1>2 DEF BackoffElapses, TypeOK, JobRow
  <2> QED  BY <2>1 DEF Consistent
<1>3. ASSUME NEW i \in Items, LeaseExpires(i) \/ \E a \in Attempts : Heartbeat(i, a)
      PROVE Consistent(j)'
  <2>1. /\ job'[j].status = job[j].status /\ job'[j].cancel = job[j].cancel
        /\ job'[j].attempts = job[j].attempts /\ job'[j].owner = job[j].owner
    <3>1. CASE LeaseExpires(i)  BY <3>1 DEF LeaseExpires, TypeOK, JobRow
    <3>2. ASSUME NEW a \in Attempts, Heartbeat(i, a)
          PROVE  job' = [job EXCEPT ![i].lease = "live"]
      BY <3>2 DEF Heartbeat
    <3> QED  BY <1>3, <3>1, <3>2 DEF TypeOK, JobRow
  <2>2. job[j].status \in Waiting => job'[j].lease = job[j].lease
    <3>1. CASE LeaseExpires(i)
      BY <3>1 DEF LeaseExpires, TypeOK, JobRow, Consistent
    <3>2. ASSUME NEW a \in Attempts, Heartbeat(i, a)
          PROVE  job[j].status \in Waiting => job'[j].lease = job[j].lease
      BY <3>2, StatusSets DEF Heartbeat, Holds, TypeOK, JobRow
    <3> QED  BY <1>3, <3>1, <3>2
  <2> QED  BY <2>1, <2>2 DEF Consistent
<1> QED  BY <1>1, <1>2, <1>3

\* A deleted project has no work left; the rows of its items stay as they are.
LEMMA FinalizeRows ==
  ASSUME TypeOK, FinalizeProjectDeletion, NEW j \in Items, Consistent(j)
  PROVE  Consistent(j)'
<1>1. item[j].status \notin Live
  BY DEF FinalizeProjectDeletion, Quiescent, Consistent
<1>2. project # "active" /\ UNCHANGED <<batch, item, job, settlement>>
  BY DEF FinalizeProjectDeletion
<1> QED  BY <1>1, <1>2 DEF Consistent

\* A batch that does not exist after a step did not before it, and no mark was set.
LEMMA AbsentStays ==
  ASSUME TypeOK, [Next]_vars, NEW d \in Batches, ~batch'[d].exists
  PROVE  ~batch[d].exists /\ batch'[d].cancel = batch[d].cancel
<1> DEFINE Stays == ~batch[d].exists /\ batch'[d].cancel = batch[d].cancel
<1>1. CASE batch' = batch
  BY <1>1
<1>2. ASSUME NEW b \in Batches, batch' = [batch EXCEPT ![b].exists = TRUE] PROVE Stays
  BY <1>2 DEF TypeOK, BatchRow
<1>3. ASSUME NEW b \in Batches, CancelBatch(b) PROVE Stays
  <2>1. batch' = [batch EXCEPT ![b].cancel = TRUE] /\ batch[b].exists
    BY <1>3 DEF CancelBatch
  <2> QED  BY <2>1 DEF TypeOK, BatchRow
<1>4. \/ batch' = batch
      \/ \E b \in Batches : batch' = [batch EXCEPT ![b].exists = TRUE]
      \/ \E b \in Batches : CancelBatch(b)
  <2>1. ASSUME NEW b \in Batches, NEW S \in SUBSET Items, SubmitBatch(b, S)
        PROVE  batch' = [batch EXCEPT ![b].exists = TRUE]
    BY <2>1 DEF SubmitBatch, CreateRows
  <2>2. ASSUME NEW parent \in Items, NEW b \in Batches, NEW i \in Items, RetryItem(parent, b, i)
        PROVE  batch' = [batch EXCEPT ![b].exists = TRUE]
    BY <2>2 DEF RetryItem, CreateRows
  <2>3. ASSUME NEW i \in Items, CancelItemRead(i) \/ CancelItemWrite(i)
        PROVE  batch' = batch
    BY <2>3 DEF CancelItemRead, CancelItemWrite, CancelRunningItem, CancelWaitingItem,
                CancelItemMisses
  <2>4. ASSUME NEW i \in Items, QueueStep(i)
        PROVE  batch' = batch
    BY <2>4 DEF QueueStep, BackoffElapses, LeaseExpires, RecoverExpired, CancelLeasedJob,
                ScheduleRetry, DeadLetterLeasedJob, Claim
  <2>5. ASSUME NEW i \in Items, NEW a \in Attempts, WorkerStep(i, a)
        PROVE  batch' = batch
    BY <2>5 DEF WorkerStep, HandlerReturns, Heartbeat, HeartbeatFails, CompleteItem,
                DiscardLateResult, FailItem, CancelHandled, GiveUp, CancelLeasedJob,
                ScheduleRetry, DeadLetterLeasedJob
  <2> QED  BY <2>1, <2>2, <2>3, <2>4, <2>5
           DEF Next, UserStep, FinalizeProjectDeletion, RequestProjectDeletion, WorkerStops, vars
<1> QED  BY <1>1, <1>2, <1>3, <1>4

LEMMA MarksStep ==
  ASSUME TypeOK, AbsentBatchUnmarked, [Next]_vars
  PROVE  AbsentBatchUnmarked'
BY AbsentStays DEF AbsentBatchUnmarked

\* No step changes rows other than consistently.
LEMMA RowsStep ==
  ASSUME IInv, [Next]_vars, NEW j \in Items
  PROVE  Consistent(j)'
<1>1. TypeOK /\ AbsentBatchUnmarked /\ \A i \in Items : Consistent(i)
  BY IInvParts
<1>2. ASSUME NEW b \in Batches, NEW S \in SUBSET Items, SubmitBatch(b, S)
      PROVE  Consistent(j)'
  BY <1>1, <1>2, CreateRowsRows DEF SubmitBatch, Writable
<1>3. ASSUME NEW parent \in Items, NEW b \in Batches, NEW i \in Items, RetryItem(parent, b, i)
      PROVE  Consistent(j)'
  <2>1. {i} \in SUBSET Items /\ (\A k \in {i} : item[k].status = "absent")
    BY <1>3 DEF RetryItem
  <2> QED  BY <1>1, <1>3, <2>1, CreateRowsRows DEF RetryItem, Writable
<1>4. ASSUME NEW b \in Batches, CancelBatch(b) PROVE Consistent(j)'
  BY <1>1, <1>4, CancelBatchRows
<1>5. CASE RequestProjectDeletion
  BY <1>1, <1>5, DeletionRows
<1>6. CASE FinalizeProjectDeletion
  BY <1>1, <1>6, FinalizeRows
<1>7. ASSUME NEW i \in Items, CancelItemRead(i) \/ CancelItemMisses(i) PROVE Consistent(j)'
  BY <1>1, <1>7, QuietRows DEF CancelItemRead, CancelItemMisses
<1>8. ASSUME NEW i \in Items, CancelRunningItem(i) PROVE Consistent(j)'
  BY <1>1, <1>8, CancelRunningRows
<1>9. ASSUME NEW i \in Items, CancelWaitingItem(i) PROVE Consistent(j)'
  BY <1>1, <1>9, CancelWaitingRows
<1>10. ASSUME NEW i \in Items, BackoffElapses(i) \/ LeaseExpires(i) PROVE Consistent(j)'
  BY <1>1, <1>10, QuietRows DEF BackoffElapses, LeaseExpires
<1>11. ASSUME NEW w \in Workers, NEW i \in Items, Claim(w, i) PROVE Consistent(j)'
  BY <1>1, <1>11, ClaimRows
<1>12. ASSUME NEW i \in Items, RecoverExpired(i) PROVE Consistent(j)'
  <2>1. job[i].status = "running" /\ UNCHANGED project
    BY <1>12 DEF RecoverExpired, Expired
  <2>2. CASE CancelRequested(i)
    BY <1>1, <1>12, <2>1, <2>2, CancelLeasedRows DEF RecoverExpired
  <2>3. CASE ~CancelRequested(i)
    <3>1. ~item[i].cancel  BY <2>3 DEF CancelRequested
    <3>2. \/ AttemptsLeft(i) /\ ScheduleRetry(i)
          \/ DeadLetterLeasedJob(i)
      BY <1>12, <2>3 DEF RecoverExpired
    <3> QED  BY <1>1, <2>1, <3>1, <3>2, ScheduleRetryRows, DeadLetterRows
  <2> QED  BY <2>2, <2>3
<1>13. ASSUME NEW i \in Items, NEW a \in Attempts, Heartbeat(i, a) PROVE Consistent(j)'
  BY <1>1, <1>13, QuietRows DEF Heartbeat
<1>14. ASSUME NEW i \in Items, NEW a \in Attempts, HeartbeatFails(i, a) \/ GiveUp(i, a)
       PROVE  Consistent(j)'
  BY <1>1, <1>14, QuietRows DEF HeartbeatFails, GiveUp
<1>15. ASSUME NEW i \in Items, NEW a \in Attempts, NEW actual \in 0..MaxActual,
              CompleteItem(i, a, actual)
       PROVE  Consistent(j)'
  BY <1>1, <1>15, CompleteRows
<1>16. ASSUME NEW i \in Items, NEW a \in Attempts, DiscardLateResult(i, a) \/ CancelHandled(i, a)
       PROVE  Consistent(j)'
  <2>1. job[i].status = "running" /\ UNCHANGED project /\ CancelLeasedJob(i)
    BY <1>16 DEF DiscardLateResult, CancelHandled, Holds
  <2> QED  BY <1>1, <2>1, CancelLeasedRows
<1>17. ASSUME NEW i \in Items, NEW a \in Attempts, NEW retryable \in BOOLEAN,
              FailItem(i, a, retryable)
       PROVE  Consistent(j)'
  <2>1. job[i].status = "running" /\ UNCHANGED project
    BY <1>17 DEF FailItem, Holds
  <2>2. CASE job[i].cancel
    BY <1>1, <1>17, <2>1, <2>2, CancelLeasedRows DEF FailItem
  <2>3. CASE ~job[i].cancel
    <3>1. ~item[i].cancel
      <4>1. job[i].cancel = item[i].cancel  BY <1>1 DEF Consistent
      <4> QED  BY <2>3, <4>1, Zenon
    <3>2. \/ AttemptsLeft(i) /\ ScheduleRetry(i)
          \/ DeadLetterLeasedJob(i)
      BY <1>17, <2>3 DEF FailItem
    <3> QED  BY <1>1, <2>1, <3>1, <3>2, ScheduleRetryRows, DeadLetterRows
  <2> QED  BY <2>2, <2>3
<1>18. ASSUME NEW w \in Workers, WorkerStops(w) PROVE Consistent(j)'
  BY <1>1, <1>18, QuietRows DEF WorkerStops
<1>19. CASE UNCHANGED vars
  BY <1>1, <1>19, QuietRows DEF vars
<1> QED
  BY <1>2, <1>3, <1>4, <1>5, <1>6, <1>7, <1>8, <1>9, <1>10, <1>11, <1>12, <1>13, <1>14,
     <1>15, <1>16, <1>17, <1>18, <1>19
     DEF Next, UserStep, CancelItemWrite, QueueStep, WorkerStep, HandlerReturns

LEMMA IInvStep == IInv /\ [Next]_vars => IInv'
<1> SUFFICES ASSUME IInv, [Next]_vars PROVE IInv'
  OBVIOUS
<1>1. TypeOK'  BY TypeStep DEF IInv
<1>2. AbsentBatchUnmarked'  BY MarksStep DEF IInv
<1>3. \A i \in Items : Consistent(i)'  BY RowsStep
<1>4. JobItemAgree'  BY <1>1, <1>3 DEF Consistent, JobItemAgree
<1>5. QueueNeverPoisoned'  BY <1>3 DEF Consistent, QueueNeverPoisoned
<1>6. AcceptedCancelEndsCanceled'  BY <1>3 DEF Consistent, AcceptedCancelEndsCanceled
<1>7. HoldResolvedWithItem'  BY <1>3 DEF Consistent, HoldResolvedWithItem
<1>8. DeletionStopsWork'  BY <1>3 DEF Consistent, DeletionStopsWork, LiveItems
<1>9. AbsentItemUnbatched'  BY <1>3 DEF Consistent, AbsentItemUnbatched
<1> QED  BY <1>1, <1>2, <1>4, <1>5, <1>6, <1>7, <1>8, <1>9 DEF IInv

THEOREM Inductive == Spec => []IInv
BY InitIInv, IInvStep, PTL DEF Spec

-----------------------------------------------------------------------------
(***************************************************************************)
(* What follows for every number of items, batches and workers, and every  *)
(* limit on attempts and concurrency.                                      *)
(***************************************************************************)

\* No transaction of batches.go, queue.go or the credit adapter writes a row out
\* of its type: no balance, reservation or settlement column becomes negative and
\* no job is claimed more often than its recipe allows.
THEOREM TypeCorrect == Spec => []TypeOK
BY Inductive, PTL DEF IInv

\* The job row and the item row, written by hand in every transaction, never
\* disagree on status or cancellation.
THEOREM JobsAgree == Spec => []JobItemAgree
BY Inductive, PTL DEF IInv

\* Claim never meets a job that makes it roll back: one bad job cannot keep
\* the others from starting.
THEOREM ClaimsNeverRollBack == Spec => []QueueNeverPoisoned
BY Inductive, PTL DEF IInv

\* An item whose cancellation was accepted ends as canceled and as nothing else.
THEOREM CancelIsKept == Spec => []AcceptedCancelEndsCanceled
BY Inductive, PTL DEF IInv

\* The hold of an item is settled or released exactly when the item ends, and only
\* success costs anything.
THEOREM HoldsAreResolved == Spec => []HoldResolvedWithItem
BY Inductive, PTL DEF IInv

\* Deletion leaves no work waiting, and a deleted project has none at all.
THEOREM DeletionIsSafe == Spec => []DeletionStopsWork
BY Inductive, PTL DEF IInv

\* An item that has ended is never changed again, by whatever transaction.
LEMMA EndedStep ==
  ASSUME IInv, [Next]_vars, NEW j \in Items, item[j].status \in Terminal
  PROVE  item'[j] = item[j] /\ settlement'[j] = settlement[j]
<1> DEFINE Kept == item'[j] = item[j] /\ settlement'[j] = settlement[j]
<1>0. /\ TypeOK /\ \A i \in Items : Consistent(i)
      /\ item[j].status \notin Live /\ item[j].status # "absent"
      /\ job[j].status = item[j].status
  BY IInvParts, StatusSets DEF Consistent
<1>1. ASSUME NEW b \in Batches, NEW S \in SUBSET Items, SubmitBatch(b, S) PROVE Kept
  BY <1>0, <1>1 DEF SubmitBatch, CreateRows
<1>2. ASSUME NEW parent \in Items, NEW b \in Batches, NEW i \in Items, RetryItem(parent, b, i)
      PROVE  Kept
  BY <1>0, <1>2 DEF RetryItem, CreateRows
<1>3. ASSUME NEW b \in Batches, CancelBatch(b) PROVE Kept
  <2>1. Member(b, item) \in SUBSET Items /\ CancelRows(Member(b, item))
    BY <1>3 DEF CancelBatch, Member
  <2> QED  BY <1>0, <2>1, CancelRowsRows
<1>4. CASE RequestProjectDeletion
  <2>1. CancelRows(Items)  BY <1>4 DEF RequestProjectDeletion
  <2> QED  BY <1>0, <2>1, CancelRowsRows
<1>5. ASSUME NEW i \in Items, CancelItemWrite(i) PROVE Kept
  <2>1. CASE CancelRunningItem(i)
    BY <1>0, <2>1, StatusSets DEF CancelRunningItem, TypeOK
  <2>2. CASE CancelWaitingItem(i)
    BY SMTT(40), <1>0, <2>2, StatusSets, ReleaseRows DEF CancelWaitingItem, StillWaits, TypeOK
  <2> QED  BY <1>5, <2>1, <2>2 DEF CancelItemWrite, CancelItemMisses
<1>6. ASSUME NEW i \in Items, job[i].status = "running" \/ item[i].status = "running",
             CancelLeasedJob(i) \/ ScheduleRetry(i) \/ DeadLetterLeasedJob(i)
      PROVE  Kept
  <2>1. job[i].status = item[i].status /\ i # j
    BY <1>0, <1>6, StatusSets DEF Consistent
  <2>2. item'[j] = item[j]
    <3>1. item' = item \/ \E s : item' = [item EXCEPT ![i].status = s]
      BY <1>6 DEF CancelLeasedJob, ScheduleRetry, DeadLetterLeasedJob, ItemBecomes
    <3> QED  BY <1>0, <2>1, <3>1 DEF TypeOK
  <2>3. settlement' = settlement \/ ReleaseHolds({i})
    BY <1>6 DEF CancelLeasedJob, ScheduleRetry, DeadLetterLeasedJob
  <2> QED  BY <1>0, <2>1, <2>2, <2>3, ReleaseRows
<1>7. ASSUME NEW i \in Items, QueueStep(i) PROVE Kept
  <2>1. ASSUME NEW w \in Workers, Claim(w, i) PROVE Kept
    BY <1>0, <2>1, StatusSets DEF Claim, ItemBecomes, TypeOK
  <2>2. CASE RecoverExpired(i)
    BY <1>6, <2>2 DEF RecoverExpired, Expired
  <2> QED  BY <1>7, <2>1, <2>2 DEF QueueStep, BackoffElapses, LeaseExpires
<1>8. ASSUME NEW i \in Items, NEW a \in Attempts, WorkerStep(i, a) PROVE Kept
  <2>1. ASSUME NEW actual \in 0..MaxActual, CompleteItem(i, a, actual) PROVE Kept
    BY <1>0, <2>1, StatusSets, SettleRows DEF CompleteItem, ItemBecomes, TypeOK
  <2>2. CASE DiscardLateResult(i, a) \/ CancelHandled(i, a)
    BY <1>6, <2>2 DEF DiscardLateResult, CancelHandled, Holds
  <2>3. ASSUME NEW retryable \in BOOLEAN, FailItem(i, a, retryable) PROVE Kept
    BY <1>6, <2>3 DEF FailItem, Holds
  <2> QED  BY <1>8, <2>1, <2>2, <2>3
           DEF WorkerStep, HandlerReturns, Heartbeat, HeartbeatFails, GiveUp
<1> QED
  BY <1>1, <1>2, <1>3, <1>4, <1>5, <1>7, <1>8
     DEF Next, UserStep, CancelItemRead, FinalizeProjectDeletion, WorkerStops, vars

\* No late worker, cancellation or recovery changes an item that has ended, or what
\* it has cost.
THEOREM EndedIsFinal == Spec => EndedStaysEnded
<1>1. IInv /\ [Next]_vars =>
        [\A i \in Items : item[i].status \in Terminal =>
            item'[i] = item[i] /\ settlement'[i] = settlement[i]]_vars
  BY EndedStep
<1> QED  BY <1>1, Inductive, PTL DEF Spec, EndedStaysEnded

\* No step moves an item along an edge that the transition table of jobstate forbids.
LEMMA LegalItem ==
  ASSUME IInv, [Next]_vars, NEW j \in Items, item[j].status # "absent"
  PROVE  \/ item'[j].status = item[j].status
         \/ CanTransition(item[j].status, item'[j].status)
<1> DEFINE From == item[j].status
           To   == item'[j].status
           Legal == \/ To = From
                    \/ From \in Waiting /\ To \in {"running", "canceled"}
                    \/ From = "running" /\ To \in {"retrying", "succeeded", "failed", "canceled"}
<1>0. TypeOK /\ \A i \in Items : Consistent(i)
  BY IInvParts
<1>1. ASSUME NEW b \in Batches, NEW S \in SUBSET Items, SubmitBatch(b, S) PROVE Legal
  BY <1>0, <1>1 DEF SubmitBatch, CreateRows
<1>2. ASSUME NEW parent \in Items, NEW b \in Batches, NEW i \in Items, RetryItem(parent, b, i)
      PROVE  Legal
  BY <1>0, <1>2 DEF RetryItem, CreateRows
<1>3. ASSUME NEW S \in SUBSET Items, CancelRows(S) PROVE Legal
  <2>1. CASE j \notin S \/ From \notin Live
    BY <1>0, <1>3, <2>1, CancelRowsRows
  <2>2. CASE j \in S /\ From = "running"
    BY <1>0, <1>3, <2>2, CancelRowsRows
  <2>3. CASE j \in S /\ From \in Waiting
    BY <1>0, <1>3, <2>3, CancelRowsRows
  <2> QED  BY <2>1, <2>2, <2>3, StatusSets
<1>4. ASSUME NEW b \in Batches, CancelBatch(b) PROVE Legal
  <2>1. Member(b, item) \in SUBSET Items /\ CancelRows(Member(b, item))
    BY <1>4 DEF CancelBatch, Member
  <2> QED  BY <1>3, <2>1
<1>5. ASSUME RequestProjectDeletion PROVE Legal
  <2>1. CancelRows(Items)  BY <1>5 DEF RequestProjectDeletion
  <2>2. Items \in SUBSET Items  OBVIOUS
  <2> QED  BY <1>3, <2>1, <2>2
<1>6. ASSUME NEW i \in Items, CancelItemWrite(i) PROVE Legal
  <2>1. CASE CancelRunningItem(i)
    BY <1>0, <2>1 DEF CancelRunningItem, TypeOK, ItemRow
  <2>2. CASE CancelWaitingItem(i)
    BY <1>0, <2>2 DEF CancelWaitingItem, StillWaits, TypeOK, ItemRow
  <2> QED  BY <1>6, <2>1, <2>2 DEF CancelItemWrite, CancelItemMisses
<1>7. ASSUME NEW i \in Items, CancelLeasedJob(i) \/ ScheduleRetry(i) \/ DeadLetterLeasedJob(i)
      PROVE  Legal
  <2>1. \/ item' = item
        \/ item[i].status = "running" /\ \E s \in {"retrying", "failed", "canceled"} :
                                            item' = [item EXCEPT ![i].status = s]
    BY <1>7 DEF CancelLeasedJob, ScheduleRetry, DeadLetterLeasedJob, ItemBecomes
  <2> QED  BY SMTT(40), <1>0, <2>1 DEF TypeOK, ItemRow
<1>8. ASSUME NEW i \in Items, QueueStep(i) PROVE Legal
  <2>1. ASSUME NEW w \in Workers, Claim(w, i) PROVE Legal
    BY <1>0, <2>1 DEF Claim, ItemBecomes, TypeOK, ItemRow
  <2>2. CASE RecoverExpired(i)
    BY <1>7, <2>2 DEF RecoverExpired
  <2> QED  BY <1>8, <2>1, <2>2 DEF QueueStep, BackoffElapses, LeaseExpires
<1>9. ASSUME NEW i \in Items, NEW a \in Attempts, WorkerStep(i, a) PROVE Legal
  <2>1. ASSUME NEW actual \in 0..MaxActual, CompleteItem(i, a, actual) PROVE Legal
    BY <1>0, <2>1 DEF CompleteItem, ItemBecomes, TypeOK, ItemRow
  <2>2. CASE DiscardLateResult(i, a) \/ CancelHandled(i, a)
    BY <1>7, <2>2 DEF DiscardLateResult, CancelHandled
  <2>3. ASSUME NEW retryable \in BOOLEAN, FailItem(i, a, retryable) PROVE Legal
    BY <1>7, <2>3 DEF FailItem
  <2> QED  BY <1>9, <2>1, <2>2, <2>3
           DEF WorkerStep, HandlerReturns, Heartbeat, HeartbeatFails, GiveUp
<1>10. Legal
  BY <1>1, <1>2, <1>4, <1>5, <1>6, <1>8, <1>9
     DEF Next, UserStep, CancelItemRead, FinalizeProjectDeletion, WorkerStops, vars
<1> QED  BY <1>10 DEF CanTransition

\* An item and its job move only along the edges of the table that the code declares
\* and never consults.
THEOREM TransitionsAreLegal == Spec => LegalTransitions
<1>1. ASSUME IInv, IInv', [Next]_vars, NEW i \in Items
      PROVE  /\ item[i].status \notin {"absent", item'[i].status}
                  => CanTransition(item[i].status, item'[i].status)
             /\ job[i].status \notin {"absent", job'[i].status}
                  => CanTransition(job[i].status, job'[i].status)
  <2>1. job[i].status = item[i].status  BY <1>1, IInvParts DEF Consistent
  <2>2. job'[i].status = item'[i].status
    BY <1>1 DEF IInv, JobItemAgree
  <2> QED  BY <1>1, <2>1, <2>2, LegalItem
<1>2. IInv /\ IInv' /\ [Next]_vars =>
        [\A i \in Items :
            /\ item[i].status \notin {"absent", item'[i].status}
                 => CanTransition(item[i].status, item'[i].status)
            /\ job[i].status \notin {"absent", job'[i].status}
                 => CanTransition(job[i].status, job'[i].status)]_vars
  BY <1>1
<1> QED  BY <1>2, Inductive, PTL DEF Spec, LegalTransitions

\* Jobs, items and the project never contradict one another, whatever transactions
\* interleave.
THEOREM RowsAlwaysAgree == Spec => []RowsAgree
BY JobsAgree, ClaimsNeverRollBack, DeletionIsSafe, PTL DEF RowsAgree

\* Every step of an item and its job is legal, and none follows its end.
THEOREM StepsAlwaysLegal == Spec => StepsAreLegal
BY TransitionsAreLegal, EndedIsFinal DEF StepsAreLegal
-----------------------------------------------------------------------------
(***************************************************************************)
(* The credits: the journal explains the balance, and the queue with its   *)
(* three ledger tables implements CreditHold.                              *)
(***************************************************************************)

-----------------------------------------------------------------------------
(***************************************************************************)
(* The holds that CreditHold sees.                                         *)
(***************************************************************************)

LEMMA HoldParts ==
  ASSUME NEW i \in Items
  PROVE  /\ item[i].status = "absent" => HoldOf(i) = "none"
         /\ item[i].status \in Live => HoldOf(i) = "held"
         /\ item[i].status = "succeeded" => HoldOf(i) = "settled"
         /\ item[i].status \in {"failed", "canceled"} => HoldOf(i) = "released"
BY StatusSets DEF HoldOf

LEMMA HoldPartsNext ==
  ASSUME NEW i \in Items
  PROVE  /\ item'[i].status = "absent" => HoldOf(i)' = "none"
         /\ item'[i].status \in Live => HoldOf(i)' = "held"
         /\ item'[i].status = "succeeded" => HoldOf(i)' = "settled"
         /\ item'[i].status \in {"failed", "canceled"} => HoldOf(i)' = "released"
BY StatusSets DEF HoldOf

\* A step that moves item j at most between the live statuses.
SameHold(j) ==
    \/ item'[j].status = item[j].status
    \/ item[j].status \in Live /\ item'[j].status \in Live

LEMMA SameHoldIsSame ==
  ASSUME TypeOK, NEW j \in Items, SameHold(j)
  PROVE  HoldOf(j)' = HoldOf(j)
<1>1. item[j].status \in Live \union Terminal \union {"absent"}
  BY DEF TypeOK, ItemRow, ItemStatus
<1> QED  BY <1>1, HoldParts, HoldPartsNext, StatusSets DEF SameHold

LEMMA LedgerInit == Init => Ledger!Init
<1> SUFFICES ASSUME Init PROVE Ledger!Init
  OBVIOUS
<1>1. \A i \in Items : HoldOf(i) = "none" /\ settlement[i].settled = 0
  BY HoldParts DEF Init, AbsentItem
<1>2. credits.available = InitialCredits  BY DEF Init
<1> QED  BY <1>1, <1>2 DEF Ledger!Init

-----------------------------------------------------------------------------
(***************************************************************************)
(* The four things a transaction can do to the ledger.                     *)
(***************************************************************************)

\* CreditHold counts as the queue does.
LEMMA SameCardinality ==
  ASSUME NEW S
  PROVE  Ledger!Cardinality(S) = Cardinality(S)
BY DEF Ledger!Cardinality, Cardinality

\* Nothing.
LEMMA QuietRefines ==
  ASSUME TypeOK, UNCHANGED <<credits, settlement>>, \A j \in Items : SameHold(j)
  PROVE  UNCHANGED Ledger!holdVars
<1>1. \A j \in Items : HoldOf(j)' = HoldOf(j)  BY SameHoldIsSame
<1> QED  BY <1>1 DEF Ledger!holdVars

\* Items are ordered.
LEMMA ReserveRefines ==
  ASSUME TypeOK, NEW b, NEW S \in SUBSET Items, S # {},
         Reserve(b, Price * Cardinality(S)), UNCHANGED settlement,
         \A j \in S : item[j].status = "absent" /\ item'[j].status = "queued",
         \A j \in Items \ S : SameHold(j)
  PROVE  Ledger!Hold(S)
<1>1. \A j \in S : HoldOf(j) = "none" /\ HoldOf(j)' = "held"
  BY HoldParts, HoldPartsNext, StatusSets
<1>2. \A j \in Items \ S : HoldOf(j)' = HoldOf(j)  BY SameHoldIsSame
<1>3. /\ credits.available >= Price * Cardinality(S)
      /\ credits'.available = credits.available - Price * Cardinality(S)
  BY DEF Reserve
<1>4. [i \in Items |-> HoldOf(i)]' = [i \in Items |-> IF i \in S THEN "held"
                                        ELSE [k \in Items |-> HoldOf(k)][i]]
  BY <1>1, <1>2
<1>5. \A j \in S : [i \in Items |-> HoldOf(i)][j] = "none"  BY <1>1
<1>6. [i \in Items |-> settlement[i].settled]' = [i \in Items |-> settlement[i].settled]
  OBVIOUS
<1> QED  BY <1>3, <1>4, <1>5, <1>6, SameCardinality DEF Ledger!Hold

\* Unresolved holds are released.
LEMMA ReleaseRefines ==
  ASSUME TypeOK, NEW S \in SUBSET Items, S # {}, ReleaseHolds(S),
         \A j \in S : /\ item[j].status \in Live /\ ~settlement[j].claimed
                      /\ settlement[j].settled = 0
                      /\ item'[j].status \in {"failed", "canceled"},
         \A j \in Items \ S : SameHold(j)
  PROVE  Ledger!Release(S)
<1>1. \A j \in S : HoldOf(j) = "held" /\ HoldOf(j)' = "released"
  BY HoldParts, HoldPartsNext
<1>2. \A j \in Items \ S : HoldOf(j)' = HoldOf(j)  BY SameHoldIsSame
<1>3. credits'.available = credits.available + Price * Cardinality(S)
  <2>1. Unclaimed(S) = S  BY DEF Unclaimed
  <2> QED  BY <2>1 DEF ReleaseHolds, Return
<1>4. \A j \in Items : settlement'[j].settled = settlement[j].settled
  BY ReleaseRows
<1>5. [i \in Items |-> HoldOf(i)]' = [i \in Items |-> IF i \in S THEN "released"
                                        ELSE [k \in Items |-> HoldOf(k)][i]]
  BY <1>1, <1>2
<1>6. \A j \in S : [i \in Items |-> HoldOf(i)][j] = "held"  BY <1>1
<1>7. [i \in Items |-> settlement[i].settled]' = [i \in Items |-> settlement[i].settled]
  BY <1>4
<1> QED  BY <1>3, <1>5, <1>6, <1>7, SameCardinality DEF Ledger!Release

\* The hold of an item is settled.
LEMMA SettleRefines ==
  ASSUME TypeOK, NEW i \in Items, NEW actual \in 0..MaxActual, SettleHold(i, actual),
         item[i].status \in Live, ~settlement[i].claimed, item'[i].status = "succeeded",
         \A j \in Items \ {i} : SameHold(j)
  PROVE  Ledger!Settle(i, Charge(actual))
<1>1. HoldOf(i) = "held" /\ HoldOf(i)' = "settled"
  BY HoldParts, HoldPartsNext
<1>2. \A j \in Items \ {i} : HoldOf(j)' = HoldOf(j)  BY SameHoldIsSame
<1>3. /\ credits'.available = credits.available + (Price - Charge(actual))
      /\ settlement' = [settlement EXCEPT ![i] = [claimed |-> TRUE, settled |-> Charge(actual)]]
  BY DEF SettleHold, Return
<1>4. [k \in Items |-> HoldOf(k)]' = [[k \in Items |-> HoldOf(k)] EXCEPT ![i] = "settled"]
  BY <1>1, <1>2
<1>5. [k \in Items |-> settlement[k].settled]'
        = [[k \in Items |-> settlement[k].settled] EXCEPT ![i] = Charge(actual)]
  BY <1>3 DEF TypeOK
<1> QED  BY <1>1, <1>3, <1>4, <1>5 DEF Ledger!Settle

-----------------------------------------------------------------------------
(***************************************************************************)
(* Every step is one of the four.                                          *)
(***************************************************************************)

\* The hold of a live item is open and has cost nothing yet.
LEMMA LiveHoldOpen ==
  ASSUME IInv, NEW j \in Items, item[j].status \in Live
  PROVE  /\ ~settlement[j].claimed
         /\ settlement[j].settled = 0
<1>1. TypeOK /\ Consistent(j)  BY IInvParts
<1>2. settlement[j].settled \in Nat
  BY <1>1, CountsAssumption DEF TypeOK, SettlementRow
<1> QED  BY <1>1, <1>2, StatusSets DEF Consistent

\* An order: SubmitBatch and RetryItem.
LEMMA CreateRefines ==
  ASSUME TypeOK, NEW b, NEW S \in SUBSET Items, S # {}, \A j \in S : item[j].status = "absent",
         Reserve(b, Price * Cardinality(S)), CreateRows(b, S), UNCHANGED settlement
  PROVE  Ledger!Next
<1>1. \A j \in S : item'[j].status = "queued"  BY DEF CreateRows
<1>2. \A j \in Items \ S : SameHold(j)  BY DEF CreateRows, SameHold
<1>3. Ledger!Hold(S)  BY <1>1, <1>2, ReserveRefines
<1> QED  BY <1>3 DEF Ledger!Next

\* A job is taken from its worker for good.
LEMMA EndLeasedRefines ==
  ASSUME IInv, NEW i \in Items, job[i].status = "running",
         CancelLeasedJob(i) \/ DeadLetterLeasedJob(i)
  PROVE  Ledger!Next
<1>1. TypeOK /\ item[i].status = "running"  BY IInvParts DEF Consistent
<1>2. /\ ReleaseHolds({i})
      /\ \E s \in {"failed", "canceled"} : item' = [item EXCEPT ![i].status = s]
  BY <1>1 DEF CancelLeasedJob, DeadLetterLeasedJob, ItemBecomes
<1>3. item'[i].status \in {"failed", "canceled"}  BY <1>1, <1>2 DEF TypeOK, ItemRow
<1>4. \A j \in Items \ {i} : SameHold(j)  BY <1>1, <1>2 DEF TypeOK, SameHold
<1>5. item[i].status \in Live  BY <1>1, StatusSets
<1>6. \A j \in {i} : ~settlement[j].claimed /\ settlement[j].settled = 0
  BY <1>5, LiveHoldOpen
<1>7. Ledger!Release({i})  BY <1>1, <1>2, <1>3, <1>4, <1>5, <1>6, ReleaseRefines
<1>8. {i} \in SUBSET Items  OBVIOUS
<1> QED  BY <1>7, <1>8 DEF Ledger!Next

\* A job is put back into the queue.
LEMMA RetryRefines ==
  ASSUME IInv, NEW i \in Items, job[i].status = "running", ScheduleRetry(i)
  PROVE  UNCHANGED Ledger!holdVars
<1>1. TypeOK /\ item[i].status = "running"  BY IInvParts DEF Consistent
<1>2. item' = [item EXCEPT ![i].status = "retrying"] /\ UNCHANGED <<credits, settlement>>
  BY <1>1 DEF ScheduleRetry, ItemBecomes
<1>3. \A j \in Items : SameHold(j)
  BY <1>1, <1>2, StatusSets DEF TypeOK, ItemRow, SameHold
<1> QED  BY <1>1, <1>2, <1>3, QuietRefines

\* Waiting work is cancelled and running work marked: CancelBatch and
\* RequestProjectDeletion.
LEMMA CancelRowsRefines ==
  ASSUME IInv, NEW S \in SUBSET Items, CancelRows(S)
  PROVE  Ledger!Next \/ UNCHANGED Ledger!holdVars
<1> DEFINE T == {i \in S : item[i].status \in Waiting}
<1>1. TypeOK /\ \A j \in Items : Consistent(j)  BY IInvParts
<1>2. T \in SUBSET Items /\ ReleaseHolds(T)  BY DEF CancelRows
<1>3. \A j \in T : item[j].status \in Live  BY StatusSets
<1>4. \A j \in T : item'[j].status = "canceled"
  BY <1>1, CancelRowsRows
<1>5. \A j \in Items \ T : SameHold(j)
  <2> SUFFICES ASSUME NEW j \in Items, j \notin T PROVE SameHold(j)
    OBVIOUS
  <2>1. CASE j \notin S \/ item[j].status \notin Live
    BY <1>1, <2>1, CancelRowsRows DEF SameHold
  <2>2. CASE j \in S /\ item[j].status = "running"
    BY <1>1, <2>2, CancelRowsRows DEF SameHold
  <2> QED  BY <2>1, <2>2, StatusSets
<1>6. \A j \in T : ~settlement[j].claimed /\ settlement[j].settled = 0
  BY <1>2, <1>3, LiveHoldOpen
<1> HIDE DEF T
<1>7. CASE T = {}
  <2>1. Unclaimed(T) = {}  BY <1>7 DEF Unclaimed
  <2>2. Price * Cardinality(Unclaimed(T)) = 0
    BY <2>1, FS_EmptySet, CountsAssumption
  <2>3. credits'.available = credits.available
    BY <1>1, <1>2, <2>2 DEF ReleaseHolds, Return, TypeOK, Balance
  <2>4. \A j \in Items : settlement'[j].settled = settlement[j].settled
    BY <1>1, <1>2, <1>7, ReleaseRows
  <2>5. \A j \in Items : HoldOf(j)' = HoldOf(j)  BY <1>1, <1>5, <1>7, SameHoldIsSame
  <2> QED  BY <2>3, <2>4, <2>5 DEF Ledger!holdVars
<1>8. CASE T # {}
  <2>1. Ledger!Release(T)
    BY <1>1, <1>2, <1>3, <1>4, <1>5, <1>6, <1>8, ReleaseRefines
  <2> QED  BY <1>2, <2>1 DEF Ledger!Next
<1> QED  BY <1>7, <1>8

LEMMA LedgerStep == IInv /\ [Next]_vars => [Ledger!Next]_(Ledger!holdVars)
<1> SUFFICES ASSUME IInv, [Next]_vars PROVE Ledger!Next \/ UNCHANGED Ledger!holdVars
  OBVIOUS
<1> DEFINE Goal == Ledger!Next \/ UNCHANGED Ledger!holdVars
<1>0. TypeOK /\ \A j \in Items : Consistent(j)  BY IInvParts
<1>1. ASSUME NEW b \in Batches, NEW S \in SUBSET Items, SubmitBatch(b, S) PROVE Goal
  BY <1>0, <1>1, CreateRefines DEF SubmitBatch
<1>2. ASSUME NEW parent \in Items, NEW b \in Batches, NEW i \in Items, RetryItem(parent, b, i)
      PROVE  Goal
  <2>1. Price * Cardinality({i}) = Price
    <3>1. Cardinality({i}) = 1  BY FS_Singleton
    <3> QED  BY <3>1, CountsAssumption
  <2>2. {i} \in SUBSET Items /\ {i} # {} /\ \A j \in {i} : item[j].status = "absent"
    BY <1>2 DEF RetryItem
  <2>3. Reserve(b, Price * Cardinality({i})) /\ CreateRows(b, {i}) /\ UNCHANGED settlement
    BY <1>2, <2>1 DEF RetryItem
  <2> QED  BY <1>0, <2>2, <2>3, CreateRefines
<1>3. ASSUME NEW b \in Batches, CancelBatch(b) PROVE Goal
  BY <1>3, CancelRowsRefines DEF CancelBatch, Member
<1>4. CASE RequestProjectDeletion
  BY <1>4, CancelRowsRefines DEF RequestProjectDeletion
<1>5. ASSUME UNCHANGED <<item, credits, settlement>> PROVE Goal
  BY <1>0, <1>5, QuietRefines DEF SameHold
<1>6. ASSUME NEW i \in Items, CancelRunningItem(i) PROVE Goal
  <2>1. \A j \in Items : SameHold(j)
    BY <1>0, <1>6 DEF CancelRunningItem, SameHold, TypeOK, ItemRow
  <2> QED  BY <1>0, <1>6, <2>1, QuietRefines DEF CancelRunningItem
<1>7. ASSUME NEW i \in Items, CancelWaitingItem(i) PROVE Goal
  <2>1. /\ item[i].status \in Live
        /\ item' = [item EXCEPT ![i].status = "canceled"]
        /\ ReleaseHolds({i})
    BY <1>7, StatusSets DEF CancelWaitingItem, StillWaits
  <2>2. item'[i].status = "canceled" /\ \A j \in Items \ {i} : SameHold(j)
    BY <1>0, <2>1 DEF TypeOK, ItemRow, SameHold
  <2>3. \A j \in {i} : ~settlement[j].claimed /\ settlement[j].settled = 0
    BY <2>1, LiveHoldOpen
  <2>4. {i} \in SUBSET Items /\ Ledger!Release({i})
    BY <1>0, <2>1, <2>2, <2>3, ReleaseRefines
  <2> QED  BY <2>4 DEF Ledger!Next
<1>8. ASSUME NEW w \in Workers, NEW i \in Items, Claim(w, i) PROVE Goal
  <2>1. /\ item[i].status \in Live
        /\ item' = [item EXCEPT ![i].status = "running"]
        /\ UNCHANGED <<credits, settlement>>
    BY <1>8, StatusSets DEF Claim, ItemBecomes
  <2>2. \A j \in Items : SameHold(j)
    BY <1>0, <2>1, StatusSets DEF TypeOK, ItemRow, SameHold
  <2> QED  BY <1>0, <2>1, <2>2, QuietRefines
<1>9. ASSUME NEW i \in Items, job[i].status = "running",
             CancelLeasedJob(i) \/ ScheduleRetry(i) \/ DeadLetterLeasedJob(i)
      PROVE  Goal
  BY <1>9, EndLeasedRefines, RetryRefines
<1>10. ASSUME NEW i \in Items, RecoverExpired(i) PROVE Goal
  BY <1>9, <1>10 DEF RecoverExpired, Expired
<1>11. ASSUME NEW i \in Items, NEW a \in Attempts, NEW actual \in 0..MaxActual,
              CompleteItem(i, a, actual)
       PROVE  Goal
  <2>1. /\ item[i].status \in Live
        /\ item' = [item EXCEPT ![i].status = "succeeded"]
        /\ SettleHold(i, actual)
    BY <1>11, StatusSets DEF CompleteItem, ItemBecomes
  <2>2. item'[i].status = "succeeded" /\ \A j \in Items \ {i} : SameHold(j)
    BY <1>0, <2>1 DEF TypeOK, ItemRow, SameHold
  <2>3. ~settlement[i].claimed  BY <2>1, LiveHoldOpen
  <2>4. Ledger!Settle(i, Charge(actual))  BY <1>0, <2>1, <2>2, <2>3, SettleRefines
  <2>5. Charge(actual) \in 0..Price  BY ChargeType
  <2> QED  BY <2>4, <2>5 DEF Ledger!Next
<1>12. ASSUME NEW i \in Items, NEW a \in Attempts,
              \/ DiscardLateResult(i, a) \/ CancelHandled(i, a)
              \/ \E retryable \in BOOLEAN : FailItem(i, a, retryable)
       PROVE  Goal
  BY <1>9, <1>12 DEF DiscardLateResult, CancelHandled, FailItem, Holds
<1> QED
  BY <1>1, <1>2, <1>3, <1>4, <1>5, <1>6, <1>7, <1>8, <1>10, <1>11, <1>12
     DEF Next, UserStep, CancelItemRead, CancelItemWrite, CancelItemMisses, QueueStep,
         BackoffElapses, LeaseExpires, WorkerStep, HandlerReturns, Heartbeat, HeartbeatFails,
         GiveUp, FinalizeProjectDeletion, WorkerStops, vars

\* The queue, with the balance, reservation and settlement rows it keeps by hand,
\* implements the abstract ledger: whatever workers, users and recoveries do, a hold
\* is placed once, resolved once, and an item costs at most its hold.
THEOREM RefinesCreditHold == Spec => ImplementsCreditHold
BY LedgerInit, LedgerStep, Inductive, PTL DEF Spec, ImplementsCreditHold, Ledger!Spec

-----------------------------------------------------------------------------
(***************************************************************************)
(* The journal.  The balance and its journal are written by two functions. *)
(***************************************************************************)

\* A transaction reserves credits, returns some of a hold, or leaves them alone.
LEMMA CreditsStep ==
  ASSUME TypeOK, [Next]_vars
  PROVE  \/ credits' = credits
         \/ \E b \in Batches, S \in SUBSET Items : Reserve(b, Price * Cardinality(S))
         \/ \E held, back \in Nat : Return(held, back)
<1> DEFINE Moved == \/ credits' = credits
                    \/ \E held, back \in Nat : Return(held, back)
           Placed == \E b \in Batches, S \in SUBSET Items : Reserve(b, Price * Cardinality(S))
<1>1. ASSUME NEW S \in SUBSET Items, ReleaseHolds(S) PROVE Moved
  BY <1>1, HeldType DEF ReleaseHolds
<1>2. ASSUME NEW i \in Items, CancelLeasedJob(i) \/ ScheduleRetry(i) \/ DeadLetterLeasedJob(i)
      PROVE  Moved
  BY <1>1, <1>2 DEF CancelLeasedJob, ScheduleRetry, DeadLetterLeasedJob
<1>3. ASSUME NEW i \in Items, NEW actual \in 0..MaxActual, SettleHold(i, actual) PROVE Moved
  <2>1. Price \in Nat /\ Price - Charge(actual) \in Nat
    BY ChargeType, CountsAssumption
  <2> QED  BY <1>3, <2>1 DEF SettleHold
<1>4. ASSUME NEW S \in SUBSET Items, CancelRows(S) PROVE Moved
  BY <1>1, <1>4 DEF CancelRows
<1>5. ASSUME NEW b \in Batches, NEW S \in SUBSET Items, SubmitBatch(b, S) PROVE Placed
  BY <1>5 DEF SubmitBatch
<1>6. ASSUME NEW parent \in Items, NEW b \in Batches, NEW i \in Items, RetryItem(parent, b, i)
      PROVE  Placed
  <2>1. Price * Cardinality({i}) = Price
    <3>1. Cardinality({i}) = 1  BY FS_Singleton
    <3> QED  BY <3>1, CountsAssumption
  <2>2. Reserve(b, Price * Cardinality({i}))  BY <1>6, <2>1 DEF RetryItem
  <2> QED  BY <2>2
<1>7. ASSUME NEW b \in Batches, CancelBatch(b) PROVE Moved
  BY <1>4, <1>7 DEF CancelBatch, Member
<1>8. CASE RequestProjectDeletion
  BY <1>4, <1>8 DEF RequestProjectDeletion
<1>9. ASSUME NEW i \in Items, CancelItemRead(i) \/ CancelItemWrite(i) PROVE Moved
  BY <1>1, <1>9 DEF CancelItemRead, CancelItemWrite, CancelRunningItem, CancelWaitingItem,
                    CancelItemMisses
<1>10. ASSUME NEW i \in Items, QueueStep(i) PROVE Moved
  BY <1>2, <1>10 DEF QueueStep, BackoffElapses, LeaseExpires, RecoverExpired, Claim
<1>11. ASSUME NEW i \in Items, NEW a \in Attempts, WorkerStep(i, a) PROVE Moved
  BY <1>2, <1>3, <1>11 DEF WorkerStep, HandlerReturns, Heartbeat, HeartbeatFails, CompleteItem,
                           DiscardLateResult, FailItem, CancelHandled, GiveUp
<1> QED
  BY <1>5, <1>6, <1>7, <1>8, <1>9, <1>10, <1>11
     DEF Next, UserStep, FinalizeProjectDeletion, WorkerStops, vars

\* Whatever moves the balance writes the same amount to the journal: none of the
\* dozen transactions that reserve, settle or release can leave a gap between
\* CreditBalance and the sum of CreditTransaction.
THEOREM JournalIsComplete == Spec => []JournalExplainsBalance
<1>1. Init => JournalExplainsBalance
  BY CountsAssumption DEF Init, JournalExplainsBalance
<1>2. TypeOK /\ JournalExplainsBalance /\ [Next]_vars => JournalExplainsBalance'
  <2> SUFFICES ASSUME TypeOK, JournalExplainsBalance, [Next]_vars
               PROVE  JournalExplainsBalance'
    OBVIOUS
  <2>1. credits.available \in Nat /\ credits.journal \in Int /\ InitialCredits \in Nat
    BY CountsAssumption DEF TypeOK, Balance
  <2>2. CASE credits' = credits
    BY <2>2 DEF JournalExplainsBalance
  <2>3. ASSUME NEW b \in Batches, NEW S \in SUBSET Items, Reserve(b, Price * Cardinality(S))
        PROVE  JournalExplainsBalance'
    <3>1. Price * Cardinality(S) \in Nat
      BY ItemsAssumption, FS_Subset, FS_CardinalityType, CountsAssumption
    <3> QED  BY <2>1, <2>3, <3>1 DEF Reserve, JournalExplainsBalance
  <2>4. ASSUME NEW held \in Nat, NEW back \in Nat, Return(held, back)
        PROVE  JournalExplainsBalance'
    BY <2>1, <2>4 DEF Return, JournalExplainsBalance
  <2> QED  BY <2>2, <2>3, <2>4, CreditsStep
<1> QED  BY <1>1, <1>2, TypeCorrect, PTL DEF Spec

-----------------------------------------------------------------------------
(***************************************************************************)
(* The reserved columns.  That they are exactly the holds of the live      *)
(* items is inductive together with IInv and one more fact: a batch that   *)
(* does not exist yet has no items, so that an order does not write over   *)
(* a reservation which still backs some.                                   *)
(***************************************************************************)

AbsentBatchEmpty == \A b \in Batches : ~batch[b].exists => Member(b, item) = {}

RInv == IInv /\ AbsentBatchEmpty /\ ReservedBacksLiveItems

\* The live items of batch b.
LiveMember(b) == Member(b, item) \cap LiveItems

LEMMA LiveFinite ==
  /\ LiveItems \in SUBSET Items /\ IsFiniteSet(LiveItems)
  /\ \A b : LiveMember(b) \in SUBSET Items /\ IsFiniteSet(LiveMember(b))
<1>1. ASSUME NEW T \in SUBSET Items PROVE IsFiniteSet(T)
  BY ItemsAssumption, FS_Subset
<1> QED  BY <1>1 DEF LiveItems, LiveMember, Member

\* Credits of the items that remain when those of S are taken from L.
LEMMA PriceDifference ==
  ASSUME NEW L, IsFiniteSet(L), NEW S
  PROVE  /\ Price * Cardinality(L \ S) = Price * Cardinality(L) - Price * Cardinality(L \cap S)
         /\ Price * Cardinality(L) \in Nat /\ Price * Cardinality(L \cap S) \in Nat
         /\ Price * Cardinality(L) = Price * Cardinality(L \cap S) <=> L \ S = {}
         /\ Price * Cardinality(L \cap S) = 0 <=> L \cap S = {}
<1> DEFINE l == Cardinality(L)
           c == Cardinality(L \cap S)
           d == Cardinality(L \ S)
<1>1. IsFiniteSet(L \cap S) /\ IsFiniteSet(L \ S)
  BY FS_Intersection, FS_Difference
<1>2. l \in Nat /\ c \in Nat /\ d \in Nat /\ d = l - c
  BY <1>1, FS_CardinalityType, FS_Difference
<1>3. (d = 0 <=> L \ S = {}) /\ (c = 0 <=> L \cap S = {})
  BY <1>1, FS_EmptySet
<1> HIDE DEF l, c, d
<1>4. \A p \in Nat \ {0}, x, y \in Nat :
         /\ p * x \in Nat /\ p * (x - y) = p * x - p * y
         /\ p * x = 0 <=> x = 0
  OBVIOUS
<1>5. /\ Price * l \in Nat /\ Price * c \in Nat
      /\ Price * (l - c) = Price * l - Price * c
      /\ Price * c = 0 <=> c = 0
      /\ Price * d = 0 <=> d = 0
  BY <1>2, <1>4, CountsAssumption
<1>6. Price * l = Price * c <=> d = 0
  BY <1>2, <1>5
<1> QED  BY <1>2, <1>3, <1>5, <1>6 DEF l, c, d

\* Row r is the reservation of a batch whose live items are L.
Backs(r, L) ==
    /\ r.reserved = Price * Cardinality(L)
    /\ r.status = "reserved" <=> L # {}

\* It stays one when the holds of the items of S are drawn from it.
LEMMA DrawDownBacks ==
  ASSUME NEW L, IsFiniteSet(L), NEW S, L \cap S # {}, NEW r, Backs(r, L)
  PROVE  \A settled : Backs(DrawDown(r, Price * Cardinality(L \cap S), settled), L \ S)
BY PriceDifference DEF DrawDown, Backs

\* A step that moves no item into or out of the live ones.
LEMMA QuietBacks ==
  ASSUME ReservedBacksLiveItems, UNCHANGED <<credits, reservation>>,
         \A j \in Items : /\ item'[j].status \in Live <=> item[j].status \in Live
                          /\ item'[j].batch = item[j].batch
  PROVE  ReservedBacksLiveItems'
<1>1. LiveItems' = LiveItems  BY DEF LiveItems
<1>2. \A b \in Batches : Member(b, item)' = Member(b, item)  BY DEF Member
<1> QED  BY <1>1, <1>2 DEF ReservedBacksLiveItems

\* Items that end together take their holds with them.
LEMMA ReleaseBacks ==
  ASSUME TypeOK, ReservedBacksLiveItems, NEW S \in SUBSET Items, ReleaseHolds(S),
         \A j \in S : /\ item[j].status \in Live /\ ~settlement[j].claimed
                      /\ item'[j].status \notin Live,
         \A j \in Items \ S : item'[j].status \in Live <=> item[j].status \in Live,
         \A j \in Items : item'[j].batch = item[j].batch
  PROVE  ReservedBacksLiveItems'
<1>1. Unclaimed(S) = S  BY DEF Unclaimed
<1>2. LiveItems' = LiveItems \ S /\ LiveItems \cap S = S  BY DEF LiveItems
<1>3. credits'.reserved = Price * Cardinality(LiveItems')
  <2>1. credits'.reserved = credits.reserved - Price * Cardinality(S)
    BY <1>1 DEF ReleaseHolds, Return
  <2> QED  BY <1>2, <2>1, PriceDifference, LiveFinite DEF ReservedBacksLiveItems
<1>4. ASSUME NEW b \in Batches
      PROVE  /\ reservation'[b].reserved = Price * Cardinality((Member(b, item) \cap LiveItems)')
             /\ reservation'[b].status = "reserved" <=> (Member(b, item) \cap LiveItems)' # {}
  <2> DEFINE L == LiveMember(b)
  <2>1. (Member(b, item) \cap LiveItems)' = L \ S
    BY <1>2 DEF Member, LiveMember
  <2>2. HeldIn(b, S) = Price * Cardinality(L \cap S)
    <3>1. {i \in Unclaimed(S) : item[i].batch = b} = L \cap S
      BY <1>1, <1>2 DEF LiveMember, Member, LiveItems
    <3> QED  BY <3>1 DEF HeldIn
  <2>3. Backs(reservation[b], L)
    BY DEF ReservedBacksLiveItems, LiveMember, Backs
  <2>4. reservation'[b] = IF HeldIn(b, S) = 0 THEN reservation[b]
                          ELSE DrawDown(reservation[b], HeldIn(b, S), 0)
    BY DEF ReleaseHolds
  <2>5. IsFiniteSet(L)  BY LiveFinite
  <2> HIDE DEF L
  <2>6. CASE L \cap S = {}
    <3>1. L \ S = L /\ HeldIn(b, S) = 0  BY <2>2, <2>5, <2>6, PriceDifference
    <3> QED  BY <2>1, <2>3, <2>4, <3>1 DEF Backs
  <2>7. CASE L \cap S # {}
    <3>1. Price * Cardinality(L \cap S) = 0 <=> L \cap S = {}
      BY <2>5, PriceDifference
    <3>2. reservation'[b] = DrawDown(reservation[b], Price * Cardinality(L \cap S), 0)
      BY <2>2, <2>4, <2>7, <3>1
    <3>3. Backs(reservation'[b], L \ S)
      BY <2>3, <2>5, <2>7, <3>2, DrawDownBacks
    <3> QED  BY <2>1, <3>3 DEF Backs
  <2> QED  BY <2>6, <2>7
<1> QED  BY <1>3, <1>4 DEF ReservedBacksLiveItems

\* So does an item that succeeds, whatever it cost.
LEMMA SettleBacks ==
  ASSUME TypeOK, ReservedBacksLiveItems, NEW i \in Items, NEW actual \in 0..MaxActual,
         SettleHold(i, actual), item[i].status \in Live, ~settlement[i].claimed,
         item'[i].status \notin Live,
         \A j \in Items \ {i} : item'[j].status \in Live <=> item[j].status \in Live,
         \A j \in Items : item'[j].batch = item[j].batch
  PROVE  ReservedBacksLiveItems'
<1> DEFINE S == {i}
<1>1. /\ Return(Price, Price - Charge(actual))
      /\ reservation' = [reservation EXCEPT ![item[i].batch] = DrawDown(@, Price, Charge(actual))]
  BY DEF SettleHold
<1>2. LiveItems' = LiveItems \ S /\ LiveItems \cap S = S  BY DEF LiveItems
<1>3. Price * Cardinality(S) = Price
  <2>1. Cardinality(S) = 1  BY FS_Singleton
  <2> QED  BY <2>1, CountsAssumption
<1>4. credits'.reserved = Price * Cardinality(LiveItems')
  <2>1. credits'.reserved = credits.reserved - Price * Cardinality(S)
    BY <1>1, <1>3 DEF Return
  <2> QED  BY SMTT(40), <1>2, <2>1, PriceDifference, LiveFinite DEF ReservedBacksLiveItems
<1>5. ASSUME NEW b \in Batches
      PROVE  /\ reservation'[b].reserved = Price * Cardinality((Member(b, item) \cap LiveItems)')
             /\ reservation'[b].status = "reserved" <=> (Member(b, item) \cap LiveItems)' # {}
  <2> DEFINE L == LiveMember(b)
  <2>1. (Member(b, item) \cap LiveItems)' = L \ S
    BY <1>2 DEF Member, LiveMember
  <2>2. Backs(reservation[b], L)
    BY DEF ReservedBacksLiveItems, LiveMember, Backs
  <2>3. IsFiniteSet(L)  BY LiveFinite
  <2>4. CASE item[i].batch = b
    <3>1. L \cap S = S  BY <2>4 DEF LiveMember, Member, LiveItems
    <3>2. reservation'[b] = DrawDown(reservation[b], Price * Cardinality(L \cap S), Charge(actual))
      BY <1>1, <1>3, <2>4, <3>1 DEF TypeOK
    <3>3. L \cap S # {}  BY <3>1
    <3> HIDE DEF L, S
    <3>4. Backs(reservation'[b], L \ S)
      BY <2>2, <2>3, <3>2, <3>3, DrawDownBacks
    <3> QED  BY <2>1, <3>4 DEF Backs
  <2>5. CASE item[i].batch # b
    <3>1. L \ S = L  BY <2>5 DEF LiveMember, Member
    <3>2. reservation'[b] = reservation[b]  BY <1>1, <2>5 DEF TypeOK
    <3> QED  BY <2>1, <2>2, <3>1, <3>2 DEF Backs
  <2> QED  BY <2>4, <2>5
<1> QED  BY <1>4, <1>5 DEF ReservedBacksLiveItems

\* An order opens the reservation of a batch that had no items.
LEMMA CreateBacks ==
  ASSUME TypeOK, ReservedBacksLiveItems, NEW b \in Batches, Member(b, item) = {},
         NEW S \in SUBSET Items, S # {}, \A j \in S : item[j].status = "absent",
         Reserve(b, Price * Cardinality(S)), CreateRows(b, S)
  PROVE  ReservedBacksLiveItems'
<1>1. /\ LiveItems' = LiveItems \union S /\ LiveItems \cap S = {}
      /\ Member(b, item)' = S
      /\ \A c \in Batches \ {b} : (Member(c, item) \cap LiveItems)' = Member(c, item) \cap LiveItems
  <2>1. \A j \in S : item'[j].status = "queued" /\ item'[j].batch = b  BY DEF CreateRows
  <2>2. \A j \in Items \ S : item'[j] = item[j]  BY DEF CreateRows
  <2>3. LiveItems' = LiveItems \union S /\ LiveItems \cap S = {}
    BY <2>1, <2>2, StatusSets DEF LiveItems
  <2>4. Member(b, item)' = S
    BY <2>1, <2>2 DEF Member
  <2>5. ASSUME NEW c \in Batches, c # b
        PROVE  (Member(c, item) \cap LiveItems)' = Member(c, item) \cap LiveItems
    BY <2>1, <2>2, <2>3, <2>5 DEF Member
  <2> QED  BY <2>3, <2>4, <2>5
<1>2. IsFiniteSet(S)  BY ItemsAssumption, FS_Subset
<1>3. credits'.reserved = Price * Cardinality(LiveItems')
  <2>1. Cardinality(LiveItems') = Cardinality(LiveItems) + Cardinality(S)
    <3>1. /\ Cardinality(LiveItems \union S)
               = Cardinality(LiveItems) + Cardinality(S) - Cardinality(LiveItems \cap S)
          /\ IsFiniteSet(LiveItems \union S)
      BY <1>2, LiveFinite, FS_Union
    <3>2. Cardinality(LiveItems \cap S) = 0  BY <1>1, FS_EmptySet
    <3>3. Cardinality(LiveItems) \in Nat /\ Cardinality(S) \in Nat
      BY <1>2, LiveFinite, FS_CardinalityType
    <3> QED  BY <1>1, <3>1, <3>2, <3>3
  <2>2. Cardinality(LiveItems) \in Nat /\ Cardinality(S) \in Nat
    BY <1>2, LiveFinite, FS_CardinalityType
  <2>3. credits'.reserved = Price * Cardinality(LiveItems) + Price * Cardinality(S)
    BY DEF Reserve, ReservedBacksLiveItems
  <2> DEFINE x == Cardinality(LiveItems)
             y == Cardinality(S)
  <2> HIDE DEF x, y
  <2>4. \A p \in Nat, k, m \in Nat : p * k + p * m = p * (k + m)
    OBVIOUS
  <2>5. Price * x + Price * y = Price * (x + y)
    BY <2>2, <2>4, CountsAssumption DEF x, y
  <2> QED  BY <2>1, <2>3, <2>5 DEF x, y
<1>4. ASSUME NEW c \in Batches PROVE Backs(reservation'[c], (Member(c, item) \cap LiveItems)')
  <2>1. CASE c = b
    <3>1. (Member(b, item) \cap LiveItems)' = S  BY <1>1
    <3>2. reservation'[b].status = "reserved" /\ reservation'[b].reserved = Price * Cardinality(S)
      BY DEF Reserve, TypeOK
    <3> QED  BY <2>1, <3>1, <3>2 DEF Backs
  <2>2. CASE c # b
    <3>1. reservation'[c] = reservation[c]  BY <2>2 DEF Reserve, TypeOK
    <3> QED  BY <1>1, <2>2, <3>1 DEF ReservedBacksLiveItems, Backs
  <2> QED  BY <2>1, <2>2
<1> QED  BY <1>3, <1>4 DEF ReservedBacksLiveItems, Backs

\* A step that changes at most one item row, and not its batch.
LEMMA OneItem ==
  ASSUME TypeOK, NEW i \in Items, NEW s, item' = [item EXCEPT ![i].status = s]
  PROVE  /\ item'[i].status = s
         /\ \A j \in Items \ {i} : item'[j].status \in Live <=> item[j].status \in Live
         /\ \A j \in Items : item'[j].batch = item[j].batch
BY DEF TypeOK, ItemRow

LEMMA EndLeasedBacks ==
  ASSUME RInv, NEW i \in Items, job[i].status = "running",
         CancelLeasedJob(i) \/ DeadLetterLeasedJob(i)
  PROVE  /\ ReservedBacksLiveItems'
         /\ \A j \in Items : item'[j].batch = item[j].batch
<1>1. TypeOK /\ item[i].status = "running" /\ ReservedBacksLiveItems
  BY IInvParts DEF RInv, Consistent
<1>2. ReleaseHolds({i}) /\ \E s \in {"failed", "canceled"} : item' = [item EXCEPT ![i].status = s]
  BY <1>1 DEF CancelLeasedJob, DeadLetterLeasedJob, ItemBecomes
<1>3. item'[i].status \notin Live  BY <1>1, <1>2, OneItem, StatusSets
<1>4. /\ \A j \in Items \ {i} : item'[j].status \in Live <=> item[j].status \in Live
      /\ \A j \in Items : item'[j].batch = item[j].batch
  BY <1>1, <1>2, OneItem
<1>5. item[i].status \in Live /\ ~settlement[i].claimed
  BY <1>1, LiveHoldOpen, StatusSets DEF RInv
<1> QED  BY <1>1, <1>2, <1>3, <1>4, <1>5, ReleaseBacks

LEMMA RetryBacks ==
  ASSUME RInv, NEW i \in Items, job[i].status = "running", ScheduleRetry(i)
  PROVE  /\ ReservedBacksLiveItems'
         /\ \A j \in Items : item'[j].batch = item[j].batch
<1>1. TypeOK /\ item[i].status = "running" /\ ReservedBacksLiveItems
  BY IInvParts DEF RInv, Consistent
<1>2. item' = [item EXCEPT ![i].status = "retrying"] /\ UNCHANGED <<credits, reservation>>
  BY <1>1 DEF ScheduleRetry, ItemBecomes
<1>3. \A j \in Items : /\ item'[j].status \in Live <=> item[j].status \in Live
                       /\ item'[j].batch = item[j].batch
  BY <1>1, <1>2, OneItem, StatusSets
<1> QED  BY <1>1, <1>2, <1>3, QuietBacks

LEMMA CancelRowsBacks ==
  ASSUME RInv, NEW S \in SUBSET Items, CancelRows(S)
  PROVE  /\ ReservedBacksLiveItems'
         /\ \A j \in Items : item'[j].batch = item[j].batch
<1> DEFINE T == {i \in S : item[i].status \in Waiting}
<1>1. TypeOK /\ ReservedBacksLiveItems /\ \A j \in Items : Consistent(j)
  BY IInvParts DEF RInv
<1>2. T \in SUBSET Items /\ ReleaseHolds(T)  BY DEF CancelRows
<1>3. \A j \in T : /\ item[j].status \in Live /\ ~settlement[j].claimed
                   /\ item'[j].status \notin Live
  <2> SUFFICES ASSUME NEW j \in T
               PROVE  /\ item[j].status \in Live /\ ~settlement[j].claimed
                      /\ item'[j].status \notin Live
    OBVIOUS
  <2>1. j \in Items /\ item[j].status \in Live  BY StatusSets
  <2>2. item'[j].status = "canceled"  BY <1>1, CancelRowsRows
  <2> QED  BY <2>1, <2>2, LiveHoldOpen, StatusSets DEF RInv
<1>4. \A j \in Items : item'[j].batch = item[j].batch
  BY <1>1, CancelRowsRows
<1>5. \A j \in Items \ T : item'[j].status \in Live <=> item[j].status \in Live
  <2> SUFFICES ASSUME NEW j \in Items, j \notin T
               PROVE  item'[j].status \in Live <=> item[j].status \in Live
    OBVIOUS
  <2>1. CASE j \notin S \/ item[j].status \notin Live
    BY <1>1, <2>1, CancelRowsRows
  <2>2. CASE j \in S /\ item[j].status = "running"
    BY <1>1, <2>2, CancelRowsRows, StatusSets
  <2> QED  BY <2>1, <2>2, StatusSets
<1> HIDE DEF T
<1> QED  BY <1>1, <1>2, <1>3, <1>4, <1>5, ReleaseBacks

LEMMA ReserveStep ==
  ASSUME RInv, [Next]_vars
  PROVE  /\ ReservedBacksLiveItems'
         /\ \/ \A j \in Items : item'[j].batch = item[j].batch
            \/ \E b \in Batches, S \in SUBSET Items :
                   ~batch[b].exists /\ CreateRows(b, S)
<1> DEFINE Column == \A j \in Items : item'[j].batch = item[j].batch
           Created == \E b \in Batches, S \in SUBSET Items :
                         ~batch[b].exists /\ CreateRows(b, S)
           Goal == ReservedBacksLiveItems' /\ (Column \/ Created)
<1>0. /\ TypeOK /\ ReservedBacksLiveItems /\ AbsentBatchEmpty
      /\ \A i \in Items : Consistent(i)
  BY IInvParts DEF RInv
<1>1. ASSUME NEW b \in Batches, NEW S \in SUBSET Items, SubmitBatch(b, S) PROVE Goal
  BY <1>0, <1>1, CreateBacks DEF SubmitBatch, AbsentBatchEmpty
<1>2. ASSUME NEW parent \in Items, NEW b \in Batches, NEW i \in Items, RetryItem(parent, b, i)
      PROVE  Goal
  <2>1. Price * Cardinality({i}) = Price
    <3>1. Cardinality({i}) = 1  BY FS_Singleton
    <3> QED  BY <3>1, CountsAssumption
  <2>2. /\ {i} \in SUBSET Items /\ {i} # {} /\ \A j \in {i} : item[j].status = "absent"
        /\ Member(b, item) = {} /\ CreateRows(b, {i}) /\ ~batch[b].exists
    BY <1>0, <1>2 DEF RetryItem, AbsentBatchEmpty
  <2>3. Reserve(b, Price * Cardinality({i}))
    BY <1>2, <2>1 DEF RetryItem
  <2> QED  BY <1>0, <2>2, <2>3, CreateBacks
<1>3. ASSUME NEW b \in Batches, CancelBatch(b) PROVE Goal
  BY <1>3, CancelRowsBacks DEF CancelBatch, Member
<1>4. CASE RequestProjectDeletion
  BY <1>4, CancelRowsBacks DEF RequestProjectDeletion
<1>5. ASSUME UNCHANGED <<item, credits, reservation>> PROVE Goal
  BY <1>0, <1>5, QuietBacks
<1>6. ASSUME NEW i \in Items, CancelRunningItem(i) PROVE Goal
  <2>1. \A j \in Items : item'[j].status = item[j].status /\ item'[j].batch = item[j].batch
    BY <1>0, <1>6 DEF CancelRunningItem, TypeOK, ItemRow
  <2> QED  BY <1>0, <1>6, <2>1, QuietBacks DEF CancelRunningItem
<1>7. ASSUME NEW i \in Items, CancelWaitingItem(i) PROVE Goal
  <2>1. /\ item[i].status \in Live /\ ~settlement[i].claimed
        /\ item' = [item EXCEPT ![i].status = "canceled"]
        /\ ReleaseHolds({i})
    BY <1>7, LiveHoldOpen, StatusSets DEF CancelWaitingItem, StillWaits, RInv
  <2>2. item'[i].status \notin Live
    <3>1. item'[i].status = "canceled"  BY <1>0, <2>1 DEF TypeOK, ItemRow
    <3> QED  BY <3>1, StatusSets
  <2>3. /\ \A j \in Items \ {i} : item'[j].status \in Live <=> item[j].status \in Live
        /\ Column
    BY <1>0, <2>1, OneItem
  <2> QED  BY <1>0, <2>1, <2>2, <2>3, ReleaseBacks
<1>8. ASSUME NEW w \in Workers, NEW i \in Items, Claim(w, i) PROVE Goal
  <2>1. /\ item[i].status \in Live
        /\ item' = [item EXCEPT ![i].status = "running"]
        /\ UNCHANGED <<credits, reservation>>
    BY <1>8, StatusSets DEF Claim, ItemBecomes
  <2>2. \A j \in Items : /\ item'[j].status \in Live <=> item[j].status \in Live
                         /\ item'[j].batch = item[j].batch
    BY <1>0, <2>1, OneItem, StatusSets
  <2> QED  BY <1>0, <2>1, <2>2, QuietBacks
<1>9. ASSUME NEW i \in Items, job[i].status = "running",
             CancelLeasedJob(i) \/ ScheduleRetry(i) \/ DeadLetterLeasedJob(i)
      PROVE  Goal
  BY <1>9, EndLeasedBacks, RetryBacks
<1>10. ASSUME NEW i \in Items, RecoverExpired(i) PROVE Goal
  BY <1>9, <1>10 DEF RecoverExpired, Expired
<1>11. ASSUME NEW i \in Items, NEW a \in Attempts, NEW actual \in 0..MaxActual,
              CompleteItem(i, a, actual)
       PROVE  Goal
  <2>1. /\ item[i].status \in Live /\ ~settlement[i].claimed
        /\ item' = [item EXCEPT ![i].status = "succeeded"]
        /\ SettleHold(i, actual)
    BY <1>11, LiveHoldOpen, StatusSets DEF CompleteItem, ItemBecomes, RInv
  <2>2. item'[i].status \notin Live
    <3>1. item'[i].status = "succeeded"  BY <1>0, <2>1 DEF TypeOK, ItemRow
    <3> QED  BY <3>1, StatusSets
  <2>3. /\ \A j \in Items \ {i} : item'[j].status \in Live <=> item[j].status \in Live
        /\ Column
    BY <1>0, <2>1, OneItem
  <2> QED  BY <1>0, <2>1, <2>2, <2>3, SettleBacks
<1>12. ASSUME NEW i \in Items, NEW a \in Attempts,
              \/ DiscardLateResult(i, a) \/ CancelHandled(i, a)
              \/ \E retryable \in BOOLEAN : FailItem(i, a, retryable)
       PROVE  Goal
  BY <1>9, <1>12 DEF DiscardLateResult, CancelHandled, FailItem, Holds
<1> QED
  BY <1>1, <1>2, <1>3, <1>4, <1>5, <1>6, <1>7, <1>8, <1>10, <1>11, <1>12
     DEF Next, UserStep, CancelItemRead, CancelItemWrite, CancelItemMisses, QueueStep,
         BackoffElapses, LeaseExpires, WorkerStep, HandlerReturns, Heartbeat, HeartbeatFails,
         GiveUp, FinalizeProjectDeletion, WorkerStops, vars

\* A batch that is absent after a step has no items after it.
LEMMA EmptyStep ==
  ASSUME RInv, [Next]_vars
  PROVE  AbsentBatchEmpty'
<1> SUFFICES ASSUME NEW c \in Batches, ~batch'[c].exists
             PROVE  \A j \in Items : item'[j].batch # c
  BY DEF AbsentBatchEmpty, Member
<1>1. TypeOK /\ \A j \in Items : item[j].batch # c
  BY AbsentStays DEF RInv, IInv, AbsentBatchEmpty, Member
<1>2. ASSUME NEW b \in Batches, NEW S \in SUBSET Items, CreateRows(b, S)
      PROVE  \A j \in Items : item'[j].batch # c
  <2>1. batch'[b].exists
    BY <1>1, <1>2 DEF CreateRows, TypeOK, BatchRow
  <2> QED  BY <1>1, <1>2, <2>1 DEF CreateRows
<1> QED  BY <1>1, <1>2, ReserveStep

LEMMA InitRInv == Init => RInv
<1> SUFFICES ASSUME Init PROVE RInv
  OBVIOUS
<1>1. IInv  BY InitIInv
<1>2. \A i \in Items : item[i].status = "absent" /\ item[i].batch = NoBatch
  BY DEF Init, AbsentItem
<1>3. LiveItems = {}  BY <1>2, StatusSets DEF LiveItems
<1>4. \A b \in Batches : Member(b, item) = {}
  BY <1>2, NullsAssumption DEF Member
<1>5. \A b \in Batches : reservation[b].reserved = 0 /\ reservation[b].status = "none"
  BY DEF Init, NoReservation
<1>6. Price * Cardinality({}) = 0 /\ credits.reserved = 0
  BY FS_EmptySet, CountsAssumption DEF Init
<1>7. ReservedBacksLiveItems
  BY <1>3, <1>4, <1>5, <1>6 DEF ReservedBacksLiveItems
<1> QED  BY <1>1, <1>4, <1>7 DEF RInv, AbsentBatchEmpty

LEMMA RInvStep == RInv /\ [Next]_vars => RInv'
BY IInvStep, ReserveStep, EmptyStep DEF RInv

\* The reserved credits of the balance and of each reservation are exactly the holds
\* of the items that have not ended, for every number of items and every price: no
\* settlement or release can fail for want of reserved credits (ErrCreditInvariant),
\* and none is left over when all work has ended.
THEOREM ReservedIsBacked == Spec => []ReservedBacksLiveItems
<1>1. RInv => ReservedBacksLiveItems  BY DEF RInv
<1> QED  BY <1>1, InitRInv, RInvStep, PTL DEF Spec

\* Holds, reserved credits and journal agree for every number of items, price and
\* balance.
THEOREM LedgerAlwaysAgrees == Spec => []LedgerAgrees
BY HoldsAreResolved, ReservedIsBacked, JournalIsComplete, PTL DEF LedgerAgrees
=============================================================================
