------------------------ MODULE CommerceBatchProofs ------------------------
(***************************************************************************)
(* Proofs about the handlers and the batches of the commerce queue: a      *)
(* worker never has more handlers than Concurrency, only the holder of the *)
(* lease ends an item as succeeded, and the row of a batch is right when   *)
(* its items have ended.  And about what the handlers execute: what        *)
(* succeeded has one Work, and no provider is asked without cause.         *)
(***************************************************************************)
EXTENDS CommerceQueueProofs, CommerceExecution, BatchCounters

-----------------------------------------------------------------------------
(***************************************************************************)
(* Handlers: only a claim starts one, and none moves to another worker.    *)
(***************************************************************************)

\* No handler starts, and those that go on belong to their worker as before.
NoHandlerStarts ==
    \A i \in Items, a \in Attempts :
        handler'[i][a].pc # "none" =>
            /\ handler[i][a].pc # "none"
            /\ handler'[i][a].worker = handler[i][a].worker

LEMMA HandlersStep ==
  ASSUME TypeOK, [Next]_vars
  PROVE  NoHandlerStarts \/ \E w \in Workers, i \in Items : Claim(w, i)
<1>1. ASSUME UNCHANGED handler PROVE NoHandlerStarts
  BY <1>1 DEF NoHandlerStarts
<1>2. ASSUME NEW i \in Items, NEW a \in Attempts, Ends(i, a) PROVE NoHandlerStarts
  BY <1>2 DEF Ends, NoHandlerStarts, NoHandler, TypeOK
<1>3. ASSUME NEW i \in Items, NEW a \in Attempts, NEW pc, handler[i][a].pc = "handling",
             Goes(i, a, pc)
      PROVE  NoHandlerStarts
  <2>1. \A j \in Items, k \in Attempts :
           /\ handler'[j][k].worker = handler[j][k].worker
           /\ handler'[j][k] = handler[j][k] \/ (j = i /\ k = a)
    BY <1>3 DEF Goes, TypeOK, Handler
  <2>2. ASSUME NEW j \in Items, NEW k \in Attempts, handler'[j][k].pc # "none"
        PROVE  handler[j][k].pc # "none"
    <3>1. CASE j = i /\ k = a  BY <1>3, <3>1
    <3>2. CASE ~(j = i /\ k = a)  BY <2>1, <2>2, <3>2
    <3> QED  BY <3>1, <3>2
  <2> QED  BY <2>1, <2>2 DEF NoHandlerStarts
<1>4. ASSUME NEW w \in Workers, WorkerStops(w) PROVE NoHandlerStarts
  BY <1>4 DEF WorkerStops, NoHandlerStarts, NoHandler
<1>5. ASSUME NEW i \in Items, NEW a \in Attempts, WorkerStep(i, a) PROVE NoHandlerStarts
  <2>1. CASE Heartbeat(i, a)
    <3>1. /\ handler[i][a].pc = "handling"
          /\ (Goes(i, a, "cancel_seen") \/ UNCHANGED handler)
      BY <2>1 DEF Heartbeat
    <3> QED  BY <1>1, <1>3, <3>1
  <2>2. CASE HeartbeatFails(i, a)
    BY <1>3, <2>2 DEF HeartbeatFails
  <2>3. CASE HandlerReturns(i, a)
    BY <1>2, <2>3 DEF HandlerReturns, GiveUp, CompleteItem, DiscardLateResult, FailItem,
                      CancelHandled
  <2> QED  BY <1>5, <2>1, <2>2, <2>3 DEF WorkerStep
<1>6. ASSUME NEW i \in Items, QueueStep(i)
      PROVE  UNCHANGED handler \/ \E w \in Workers : Claim(w, i)
  BY <1>6 DEF QueueStep, BackoffElapses, LeaseExpires, RecoverExpired
<1>7. ASSUME NEW i \in Items, CancelItemWrite(i) PROVE UNCHANGED handler
  BY <1>7 DEF CancelItemWrite, CancelRunningItem, CancelWaitingItem, CancelItemMisses
<1>8. CASE UserStep
  BY <1>1, <1>8 DEF UserStep, SubmitBatch, RetryItem, CancelBatch, RequestProjectDeletion,
                    CancelItemRead
<1> QED
  BY <1>1, <1>4, <1>5, <1>6, <1>7, <1>8 DEF Next, FinalizeProjectDeletion, vars

LEMMA ActiveFinite == \A w : IsFiniteSet(Active(w))
<1>1. IsFiniteSet(Attempts)
  BY FS_Interval, CountsAssumption DEF Attempts
<1>2. IsFiniteSet(Items \X Attempts)
  BY <1>1, ItemsAssumption, FS_Product
<1> QED  BY <1>2, FS_Subset DEF Active

\* A worker never handles more jobs at a time than it was configured for, although
\* the handler of a lost lease lives on while its job is claimed again.
THEOREM ConcurrencyAlwaysRespected == Spec => []ConcurrencyRespected
<1>1. Init => ConcurrencyRespected
  <2> SUFFICES ASSUME Init, NEW w \in Workers PROVE Cardinality(Active(w)) <= Concurrency
    BY DEF ConcurrencyRespected
  <2>1. Active(w) = {}  BY DEF Init, Active, HandlerAt, NoHandler
  <2> QED  BY <2>1, FS_EmptySet, CountsAssumption
<1>2. TypeOK /\ ConcurrencyRespected /\ [Next]_vars => ConcurrencyRespected'
  <2> SUFFICES ASSUME TypeOK, ConcurrencyRespected, [Next]_vars, NEW w \in Workers
               PROVE  Cardinality(Active(w)') <= Concurrency
    BY DEF ConcurrencyRespected
  <2> DEFINE A == Active(w)
             B == Active(w)'
  <2>1. IsFiniteSet(A) /\ Cardinality(A) \in Nat /\ Cardinality(A) <= Concurrency
    BY ActiveFinite, FS_CardinalityType DEF ConcurrencyRespected
  <2>2. CASE NoHandlerStarts
    <3>1. B \in SUBSET A  BY <2>2 DEF NoHandlerStarts, Active, HandlerAt
    <3> HIDE DEF A, B
    <3>2. Cardinality(B) <= Cardinality(A) /\ IsFiniteSet(B)
      BY <2>1, <3>1, FS_Subset
    <3>3. Cardinality(B) \in Nat  BY <3>2, FS_CardinalityType
    <3>4. Cardinality(B) <= Concurrency  BY <2>1, <3>2, <3>3, CountsAssumption
    <3> QED  BY <3>4 DEF B
  <2>3. ASSUME NEW u \in Workers, NEW i \in Items, Claim(u, i)
        PROVE  Cardinality(B) <= Concurrency
    <3> DEFINE x == <<i, job[i].attempts + 1>>
    <3>1. HasSlot(u) /\ handler' = [handler EXCEPT ![i][job[i].attempts + 1] =
                                       [pc |-> "handling", worker |-> u]]
      BY <2>3 DEF Claim
    <3>2. \A j \in Items, k \in Attempts :
             \/ handler'[j][k] = handler[j][k]
             \/ <<j, k>> = x /\ handler'[j][k].worker = u
      BY <3>1 DEF TypeOK
    <3>3. CASE u = w
      <4>1. B \in SUBSET (A \union {x})
        BY <3>2 DEF Active, HandlerAt
      <4>2. Cardinality(A) < Concurrency  BY <3>1, <3>3 DEF HasSlot
      <4> HIDE DEF A, B, x
      <4>3. /\ IsFiniteSet(A \union {x})
            /\ Cardinality(A \union {x}) <= Cardinality(A) + 1
            /\ Cardinality(A \union {x}) \in Nat
        <5>1. /\ IsFiniteSet(A \union {x})
              /\ Cardinality(A \union {x})
                   = IF x \in A THEN Cardinality(A) ELSE Cardinality(A) + 1
          BY <2>1, FS_AddElement
        <5> QED  BY <2>1, <5>1
      <4>4. Cardinality(B) <= Cardinality(A \union {x}) /\ IsFiniteSet(B)
        BY <4>1, <4>3, FS_Subset
      <4>5. Cardinality(B) \in Nat  BY <4>4, FS_CardinalityType
      <4> QED  BY <2>1, <4>2, <4>3, <4>4, <4>5, CountsAssumption
    <3>4. CASE u # w
      <4>1. B \in SUBSET A
        BY <3>2, <3>4 DEF Active, HandlerAt
      <4> HIDE DEF A, B
      <4>2. Cardinality(B) <= Cardinality(A) /\ IsFiniteSet(B)
        BY <2>1, <4>1, FS_Subset
      <4>3. Cardinality(B) \in Nat  BY <4>2, FS_CardinalityType
      <4> QED  BY <2>1, <4>2, <4>3, CountsAssumption
    <3> QED  BY <3>3, <3>4
  <2> QED  BY <2>2, <2>3, HandlersStep
<1> QED  BY <1>1, <1>2, TypeCorrect, PTL DEF Spec

-----------------------------------------------------------------------------
(***************************************************************************)
(* Success.                                                                *)
(***************************************************************************)

\* An item that a step ends as succeeded is completed by a handler that holds its lease.
LEMMA SuccessStep ==
  ASSUME IInv, [Next]_vars, NEW j \in Items,
         item[j].status # "succeeded", item'[j].status = "succeeded"
  PROVE  \E a \in Attempts, actual \in 0..MaxActual : CompleteItem(j, a, actual)
<1> DEFINE Goal == \E a \in Attempts, actual \in 0..MaxActual : CompleteItem(j, a, actual)
<1>0. TypeOK /\ \A i \in Items : Consistent(i)
  BY IInvParts
<1>1. ASSUME NEW b, NEW S \in SUBSET Items, CreateRows(b, S) PROVE FALSE
  BY <1>0, <1>1 DEF CreateRows
<1>2. ASSUME NEW S \in SUBSET Items, CancelRows(S) PROVE FALSE
  <2>1. item'[j].status \in {item[j].status, "running", "canceled"}
    BY <1>0, <1>2, CancelRowsRows, StatusSets
  <2> QED  BY <2>1
<1>3. CASE UserStep
  <2>1. ASSUME NEW b \in Batches, CancelBatch(b) PROVE FALSE
    BY <1>2, <2>1 DEF CancelBatch, Member
  <2>2. CASE RequestProjectDeletion
    BY <1>2, <2>2 DEF RequestProjectDeletion
  <2>3. ASSUME NEW b \in Batches, NEW i \in Items, CreateRows(b, {i}) PROVE FALSE
    BY <1>1, <2>3
  <2> QED  BY <1>1, <1>3, <2>1, <2>2, <2>3 DEF UserStep, SubmitBatch, RetryItem, CancelItemRead
<1>4. ASSUME NEW i \in Items, NEW s, item' = [item EXCEPT ![i].status = s], s # "succeeded"
      PROVE  FALSE
  BY <1>0, <1>4 DEF TypeOK, ItemRow
<1>5. ASSUME NEW i \in Items, CancelItemWrite(i) PROVE FALSE
  <2>1. CASE CancelRunningItem(i)
    BY <1>0, <2>1 DEF CancelRunningItem, TypeOK, ItemRow
  <2>2. CASE CancelWaitingItem(i)
    BY <1>4, <2>2 DEF CancelWaitingItem
  <2> QED  BY <1>5, <2>1, <2>2 DEF CancelItemWrite, CancelItemMisses
<1>6. ASSUME NEW i \in Items, CancelLeasedJob(i) \/ ScheduleRetry(i) \/ DeadLetterLeasedJob(i)
      PROVE  FALSE
  <2>1. item' = item \/ \E s \in {"retrying", "failed", "canceled"} :
                             item' = [item EXCEPT ![i].status = s]
    BY <1>6 DEF CancelLeasedJob, ScheduleRetry, DeadLetterLeasedJob, ItemBecomes
  <2> QED  BY <1>4, <2>1
<1>7. ASSUME NEW i \in Items, QueueStep(i) PROVE FALSE
  <2>1. ASSUME NEW w \in Workers, Claim(w, i) PROVE FALSE
    BY <1>4, <2>1 DEF Claim, ItemBecomes
  <2>2. CASE RecoverExpired(i)
    BY <1>6, <2>2 DEF RecoverExpired
  <2> QED  BY <1>7, <2>1, <2>2 DEF QueueStep, BackoffElapses, LeaseExpires
<1>8. ASSUME NEW i \in Items, NEW a \in Attempts, WorkerStep(i, a) PROVE Goal
  <2>1. ASSUME NEW actual \in 0..MaxActual, CompleteItem(i, a, actual) PROVE Goal
    <3>1. i = j  BY <1>0, <2>1 DEF CompleteItem, ItemBecomes, TypeOK
    <3> QED  BY <2>1, <3>1
  <2>2. CASE DiscardLateResult(i, a) \/ CancelHandled(i, a)
    BY <1>6, <2>2 DEF DiscardLateResult, CancelHandled
  <2>3. ASSUME NEW retryable \in BOOLEAN, FailItem(i, a, retryable) PROVE FALSE
    BY <1>6, <2>3 DEF FailItem
  <2> QED  BY <1>8, <2>1, <2>2, <2>3
           DEF WorkerStep, HandlerReturns, Heartbeat, HeartbeatFails, GiveUp
<1> QED
  BY <1>3, <1>5, <1>7, <1>8 DEF Next, FinalizeProjectDeletion, WorkerStops, vars

\* Whatever leases run out, are recovered and are claimed again, the result that is
\* accepted is brought by the newest attempt, on a lease that is still its own: a late
\* attempt never ends an item that a newer one works on, also when both run in one
\* worker, which the owner of the job does not tell apart.
THEOREM SuccessIsOfLeaseHolder == Spec => SuccessOnlyByLeaseHolder
<1>1. ASSUME IInv, [Next]_vars, NEW i \in Items,
             item[i].status # "succeeded", item'[i].status = "succeeded"
      PROVE  LET newest == job[i].attempts
             IN  /\ handler[i][newest] = [pc |-> "handling", worker |-> job[i].owner]
                 /\ handler' = [handler EXCEPT ![i][newest] = NoHandler]
  <2>1. PICK a \in Attempts, actual \in 0..MaxActual : CompleteItem(i, a, actual)
    BY <1>1, SuccessStep
  <2>2. /\ handler[i][a].pc = "handling" /\ Holds(i, a)
        /\ handler' = [handler EXCEPT ![i][a] = NoHandler]
    BY <2>1 DEF CompleteItem, Ends
  <2>3. a = job[i].attempts /\ handler[i][a].worker = job[i].owner
    BY <2>2 DEF Holds
  <2>4. handler[i][a] \in Handler  BY <1>1 DEF IInv, TypeOK
  <2>5. handler[i][a] = [pc |-> "handling", worker |-> job[i].owner]
    BY <2>2, <2>3, <2>4 DEF Handler
  <2> QED  BY <2>2, <2>3, <2>5
<1>2. IInv /\ [Next]_vars =>
        [\A i \in Items :
            item[i].status # "succeeded" /\ item'[i].status = "succeeded" =>
              LET newest == job[i].attempts
              IN  /\ handler[i][newest] = [pc |-> "handling", worker |-> job[i].owner]
                  /\ handler' = [handler EXCEPT ![i][newest] = NoHandler]]_vars
  BY <1>1
<1> QED  BY <1>2, Inductive, PTL DEF Spec, SuccessOnlyByLeaseHolder

-----------------------------------------------------------------------------
(***************************************************************************)
(* The counters of a batch, statement by statement.  What makes the last   *)
(* recount right is which rows a transaction has locked when it counts:    *)
(* the jobs and items it writes, so that nobody else moves them, and, when *)
(* it ends items, the balance of the user or the row of the batch, so that *)
(* nobody else ends items between its count and its commit.                *)
(***************************************************************************)

LockIsKept(r) ==
    /\ \A m \in Members : /\ jobLock[m] = r => jobLock'[m] = r
                          /\ itemLock[m] = r => itemLock'[m] = r
    /\ balanceLock = r => balanceLock' = r
    /\ batchLock' = r <=> batchLock = r

\* Session s has written only rows that it has locked, and it moves only live items.
WritesItsOwn(s) ==
    LET t == session[s]
    IN  /\ t.wrote \subseteq t.part
        /\ t.at \in {"idle", "jobs", "items"} => t.wrote = {}
        /\ t.at = "items" => \A m \in LiveMembers : jobLock[m] = s
        /\ t.kind = "cancel_item" => t.part = t.wrote /\ t.at \in {"written", "counted", "done"}
        /\ \A m \in t.part : t.kind # "cancel_item" => jobLock[m] = s /\ member[m] \in Live
        /\ \A m \in t.wrote : itemLock[m] = s /\ member[m] \in Live
        /\ t.at \in {"counted", "done"} => \A m \in t.wrote : jobLock[m] = s

\* Session s counts under the lock that keeps others from ending items meanwhile.
CountsAlone(s) ==
    LET t == session[s]
    IN  /\ t.at = "items" => t.kind = "cancel_batch"
        /\ t.kind = "cancel_batch" => batchLock = s /\ t.to \in Terminal
        /\ t.at \in {"written", "counted"} => t.wrote # {} \/ t.kind = "cancel_batch"
        /\ batchLock = s => t.at # "idle" /\ (t.wrote # {} \/ t.kind = "cancel_batch")
        /\ t.at \in {"counted", "done"} /\ EndsItems(t) => balanceLock = s
        /\ t.at = "done" /\ t.wrote # {} => batchLock = s

\* What s will write into the row of the batch.
HasCounted(s) == session[s].at = "counted" \/ (session[s].at = "done" /\ batchLock = s)

SawTheTruth(s) ==
    LET t == session[s]
    IN  HasCounted(s) =>
          /\ \A m \in t.wrote : t.seen[m] = t.to
          /\ \A m \in Members \ t.wrote : t.seen[m] \in Terminal => member[m] = t.seen[m]
          /\ t.to \in Terminal =>
                \A m \in Members \ t.wrote : member[m] \in Terminal => t.seen[m] = member[m]

Sound(s) == WritesItsOwn(s) /\ CountsAlone(s) /\ SawTheTruth(s)

CInv == BatchRowIsHonest /\ \A s \in Sessions : Sound(s)

\* A step of s that takes no lock of r, and moves items only under its own locks, leaves
\* what is known of r.
LEMMA Undisturbed ==
  ASSUME CountersTypeOK, NEW s \in Sessions, NEW r \in Sessions, r # s, Sound(r),
         session'[r] = session[r], LockIsKept(r),
         \A m \in Members : member'[m] # member[m] =>
             /\ jobLock[m] = s /\ itemLock[m] = s /\ member[m] \in Live
             /\ member'[m] \in Terminal => balanceLock = s /\ batchLock = s
  PROVE  Sound(r)'
<1> DEFINE t == session[r]
<1>1. t \in Transaction /\ t.wrote \subseteq Members /\ t.part \subseteq Members
  BY DEF CountersTypeOK, Transaction
<1>2. /\ \A m \in Members : jobLock[m] = r \/ itemLock[m] = r => member'[m] = member[m]
      /\ \A m \in Members : member[m] \in Terminal => member'[m] = member[m]
      /\ LiveMembers' \subseteq LiveMembers
  BY StatusSets DEF LiveMembers
<1>3. WritesItsOwn(r)'
  BY <1>1, <1>2 DEF Sound, WritesItsOwn, LockIsKept, LiveMembers
<1>4. CountsAlone(r)'
  BY DEF Sound, CountsAlone, LockIsKept, EndsItems
<1>5. SawTheTruth(r)'
  <2> SUFFICES ASSUME HasCounted(r)
               PROVE  /\ \A m \in t.wrote : t.seen[m] = t.to
                      /\ \A m \in Members \ t.wrote : t.seen[m] \in Terminal => member'[m] = t.seen[m]
                      /\ t.to \in Terminal =>
                            \A m \in Members \ t.wrote : member'[m] \in Terminal => t.seen[m] = member'[m]
    BY DEF SawTheTruth, HasCounted, LockIsKept
  <2>1. ASSUME t.to \in Terminal, NEW m \in Members, member'[m] \in Terminal
        PROVE  member'[m] = member[m]
    <3>1. t.wrote # {} \/ t.kind = "cancel_batch"  BY DEF HasCounted, Sound, CountsAlone
    <3>2. balanceLock = r \/ batchLock = r
      BY <2>1, <3>1 DEF HasCounted, Sound, CountsAlone, EndsItems
    <3> QED  BY <2>1, <3>2
  <2> QED  BY <1>2, <2>1 DEF Sound, SawTheTruth
<1> QED  BY <1>3, <1>4, <1>5 DEF Sound

\* The same of a step that moves no item.
LEMMA UndisturbedByStatement ==
  ASSUME CountersTypeOK, NEW s \in Sessions, NEW r \in Sessions, r # s, Sound(r),
         session'[r] = session[r], LockIsKept(r), UNCHANGED member
  PROVE  Sound(r)'
BY Undisturbed

\* A statement of s: the session of s changes to t, and the locks of s only grow.
LEMMA StatementType ==
  ASSUME CountersTypeOK, NEW s \in Sessions, NEW t \in Transaction,
         session' = [session EXCEPT ![s] = t]
  PROVE  /\ session' \in [Sessions -> Transaction] /\ session'[s] = t
         /\ \A r \in Sessions : r # s => session'[r] = session[r]
BY DEF CountersTypeOK

LEMMA FreeNotOther ==
  ASSUME NEW s \in Sessions, NEW r \in Sessions, r # s, NEW l, FreeFor(s, l)
  PROVE  l # r
BY SessionsAssumption DEF FreeFor

LEMMA NothingTyped == Nothing \in Transaction
BY StatusSets DEF Nothing, Transaction, Places, Kinds, ItemStatus

\* What a statement of s has to show: it keeps the types, the locks of the others and
\* what is known of s.
LEMMA StatementKeeps ==
  ASSUME CInv, NEW s \in Sessions, UNCHANGED <<member, row>>, CountersTypeOK', Sound(s)',
         \A r \in Sessions \ {s} : session'[r] = session[r] /\ LockIsKept(r)
  PROVE  CInv'
<1>1. ASSUME NEW r \in Sessions PROVE Sound(r)'
  <2>1. CASE r = s  BY <2>1
  <2>2. CASE r # s
    BY <2>2, UndisturbedByStatement DEF CInv, BatchRowIsHonest
  <2> QED  BY <2>1, <2>2
<1>2. NeverAhead' /\ EndedBatchIsRecounted'
  BY DEF CInv, BatchRowIsHonest, NeverAhead, EndedBatchIsRecounted
<1> QED  BY <1>1, <1>2 DEF CInv, BatchRowIsHonest

\* A transaction that begins has written nothing, or the one item it has locked.
LEMMA BeginKeeps ==
  ASSUME CInv, NEW s \in Sessions, Begin(s)
  PROVE  CInv'
<1>1. CountersTypeOK /\ Sound(s)  BY DEF CInv, BatchRowIsHonest
<1>2. session[s].at = "idle" /\ UNCHANGED <<member, row>>
  BY DEF Begin, BeginClaim, BeginLeased, BeginCancelItem, BeginCancelBatch, BeginDeletion,
         Starts
<1>3. batchLock # s  BY <1>1, <1>2 DEF Sound, CountsAlone
<1>4. ASSUME NEW S \in SUBSET Members, BeginClaim(s, S) PROVE CInv'
  <2> DEFINE t == [Nothing EXCEPT !.at = "work", !.part = S]
  <2>1. /\ t \in Transaction /\ t.at = "work" /\ t.part = S /\ t.wrote = {} /\ t.kind = "claim"
        /\ t.to = "running"
    BY NothingTyped DEF Nothing, Transaction, Places
  <2>2. /\ session' = [session EXCEPT ![s] = t]
        /\ \A m \in S : member[m] \in Waiting /\ jobLock[m] = NoSession /\ jobLock'[m] = s
        /\ \A m \in Members \ S : jobLock'[m] = jobLock[m]
        /\ UNCHANGED <<itemLock, balanceLock, batchLock>>
        /\ jobLock' \in [Members -> Sessions \union {NoSession}]
    BY <1>1, <1>4 DEF BeginClaim, Starts, CountersTypeOK
  <2> HIDE DEF t
  <2>3. CountersTypeOK'
    BY <1>1, <1>2, <2>1, <2>2, StatementType DEF CountersTypeOK
  <2>4. \A r \in Sessions \ {s} : session'[r] = session[r] /\ LockIsKept(r)
    BY <1>1, <2>1, <2>2, StatementType, SessionsAssumption DEF LockIsKept
  <2>5. session'[s] = t  BY <1>1, <2>1, <2>2, StatementType
  <2>6. Sound(s)'
    BY <1>2, <1>3, <2>1, <2>2, <2>5, StatusSets
       DEF Sound, WritesItsOwn, CountsAlone, SawTheTruth, HasCounted
  <2> QED  BY <1>2, <2>3, <2>4, <2>6, StatementKeeps
<1>5. ASSUME NEW m \in Members, NEW to \in ItemStatus, BeginLeased(s, m, to) PROVE CInv'
  <2> DEFINE t == [Nothing EXCEPT !.at = "work", !.kind = "leased", !.part = {m}, !.to = to]
  <2>1. /\ t \in Transaction /\ t.at = "work" /\ t.part = {m} /\ t.wrote = {} /\ t.kind = "leased"
    BY NothingTyped DEF Nothing, Transaction, Places, Kinds
  <2>2. /\ session' = [session EXCEPT ![s] = t]
        /\ member[m] = "running" /\ FreeFor(s, jobLock[m]) /\ jobLock'[m] = s
        /\ \A n \in Members \ {m} : jobLock'[n] = jobLock[n]
        /\ UNCHANGED <<itemLock, balanceLock, batchLock>>
        /\ jobLock' \in [Members -> Sessions \union {NoSession}]
    BY <1>1, <1>5 DEF BeginLeased, Starts, CountersTypeOK
  <2> HIDE DEF t
  <2>3. CountersTypeOK'
    BY <1>1, <1>2, <2>1, <2>2, StatementType DEF CountersTypeOK
  <2>4. \A r \in Sessions \ {s} : session'[r] = session[r] /\ LockIsKept(r)
    BY <1>1, <2>1, <2>2, StatementType, FreeNotOther DEF LockIsKept
  <2>5. session'[s] = t  BY <1>1, <2>1, <2>2, StatementType
  <2>6. Sound(s)'
    BY <1>2, <1>3, <2>1, <2>2, <2>5, StatusSets
       DEF Sound, WritesItsOwn, CountsAlone, SawTheTruth, HasCounted
  <2> QED  BY <1>2, <2>3, <2>4, <2>6, StatementKeeps
<1>6. ASSUME NEW m \in Members, BeginCancelItem(s, m) PROVE CInv'
  <2> DEFINE t == [Nothing EXCEPT !.at = "written", !.kind = "cancel_item", !.part = {m},
                                  !.to = "canceled", !.wrote = {m}]
  <2>1. /\ t \in Transaction /\ t.at = "written" /\ t.part = {m} /\ t.wrote = {m}
        /\ t.kind = "cancel_item"
    BY NothingTyped, Statuses DEF Nothing, Transaction, Places, Kinds
  <2>2. /\ session' = [session EXCEPT ![s] = t]
        /\ member[m] \in Waiting /\ FreeFor(s, itemLock[m]) /\ itemLock'[m] = s
        /\ \A n \in Members \ {m} : itemLock'[n] = itemLock[n]
        /\ UNCHANGED <<jobLock, balanceLock, batchLock>>
        /\ itemLock' \in [Members -> Sessions \union {NoSession}]
    BY <1>1, <1>6 DEF BeginCancelItem, Starts, CountersTypeOK
  <2> HIDE DEF t
  <2>3. CountersTypeOK'
    BY <1>1, <1>2, <2>1, <2>2, StatementType DEF CountersTypeOK
  <2>4. \A r \in Sessions \ {s} : session'[r] = session[r] /\ LockIsKept(r)
    BY <1>1, <2>1, <2>2, StatementType, FreeNotOther DEF LockIsKept
  <2>5. session'[s] = t  BY <1>1, <2>1, <2>2, StatementType
  <2>6. Sound(s)'
    BY <1>2, <1>3, <2>1, <2>2, <2>5, StatusSets
       DEF Sound, WritesItsOwn, CountsAlone, SawTheTruth, HasCounted
  <2> QED  BY <1>2, <2>3, <2>4, <2>6, StatementKeeps
<1>7. ASSUME BeginCancelBatch(s) \/ BeginDeletion(s) PROVE CInv'
  <2>1. PICK k \in {"cancel_batch", "delete"} :
           /\ session' = [session EXCEPT ![s] =
                 [Nothing EXCEPT !.at = "jobs", !.kind = k, !.to = "canceled"]]
           /\ IF k = "cancel_batch" THEN FreeFor(s, batchLock) /\ batchLock' = s
                                    ELSE UNCHANGED batchLock
           /\ UNCHANGED <<jobLock, itemLock, balanceLock>>
    BY <1>7 DEF BeginCancelBatch, BeginDeletion, Starts, locks
  <2> DEFINE t == [Nothing EXCEPT !.at = "jobs", !.kind = k, !.to = "canceled"]
  <2>2. /\ t \in Transaction /\ t.at = "jobs" /\ t.part = {} /\ t.wrote = {} /\ t.kind = k
        /\ t.to = "canceled"
    BY NothingTyped, Statuses DEF Nothing, Transaction, Places, Kinds
  <2>3. session' = [session EXCEPT ![s] = t]  BY <2>1
  <2> HIDE DEF t
  <2>4. CountersTypeOK'
    BY <1>1, <1>2, <2>1, <2>2, <2>3, StatementType DEF CountersTypeOK
  <2>5. \A r \in Sessions \ {s} : session'[r] = session[r] /\ LockIsKept(r)
    BY <1>1, <2>1, <2>2, <2>3, StatementType, FreeNotOther DEF LockIsKept
  <2>6. session'[s] = t  BY <1>1, <2>2, <2>3, StatementType
  <2>7. WritesItsOwn(s)'  BY <2>1, <2>2, <2>6 DEF WritesItsOwn
  <2>8. CountsAlone(s)'  BY <1>3, <2>1, <2>2, <2>6, StatusSets DEF CountsAlone
  <2>9. SawTheTruth(s)'  BY <2>2, <2>6 DEF SawTheTruth, HasCounted
  <2> QED  BY <1>2, <2>4, <2>5, <2>7, <2>8, <2>9, StatementKeeps DEF Sound
<1> QED  BY <1>4, <1>5, <1>6, <1>7 DEF Begin

\* Locks that are taken one after the other.
LEMMA LockKeeps ==
  ASSUME CInv, NEW s \in Sessions, NEW m \in Members,
         LockJob(s, m) \/ LockItem(s, m) \/ CancelJobOfItem(s, m)
  PROVE  CInv'
<1>1. CountersTypeOK /\ Sound(s)  BY DEF CInv, BatchRowIsHonest
<1>2. /\ UNCHANGED <<member, row, session, balanceLock, batchLock>>
      /\ \A n \in Members : /\ jobLock'[n] = jobLock[n] \/ (jobLock[n] = NoSession /\ jobLock'[n] = s)
                            /\ itemLock'[n] = itemLock[n] \/ (itemLock[n] = NoSession /\ itemLock'[n] = s)
      /\ jobLock' \in [Members -> Sessions \union {NoSession}]
      /\ itemLock' \in [Members -> Sessions \union {NoSession}]
  BY <1>1 DEF LockJob, LockItem, CancelJobOfItem, CountersTypeOK
<1>3. CountersTypeOK'  BY <1>1, <1>2 DEF CountersTypeOK
<1>4. \A r \in Sessions : LockIsKept(r)
  BY <1>2, SessionsAssumption DEF LockIsKept
<1>5. session[s].wrote \subseteq Members /\ session[s].part \subseteq Members
  BY <1>1 DEF CountersTypeOK, Transaction
<1>6. Sound(s)'
  BY <1>1, <1>2, <1>4, <1>5
     DEF Sound, WritesItsOwn, CountsAlone, SawTheTruth, HasCounted, LockIsKept, EndsItems,
         LiveMembers
<1> QED  BY <1>2, <1>3, <1>4, <1>6, StatementKeeps

\* Once all live rows are locked the waiting ones are to be written.
LEMMA LockedKeeps ==
  ASSUME CInv, NEW s \in Sessions, JobsLocked(s) \/ ItemsLocked(s)
  PROVE  CInv'
<1>1. CountersTypeOK /\ Sound(s) /\ session[s] \in Transaction
  BY DEF CInv, BatchRowIsHonest, CountersTypeOK
<1>2. PICK at \in Places :
         /\ session' = [session EXCEPT ![s].at = at, ![s].part = WaitingMembers]
         /\ \/ session[s].at = "jobs" /\ session[s].kind = "cancel_batch" /\ at = "items"
            \/ session[s].at = "jobs" /\ session[s].kind # "cancel_batch" /\ at \in {"done", "work"}
            \/ session[s].at = "items" /\ at \in {"written", "work"}
         /\ session[s].at = "jobs" => \A m \in LiveMembers : jobLock[m] = s
         /\ session[s].at = "items" => \A m \in LiveMembers : itemLock[m] = s
  BY DEF JobsLocked, ItemsLocked, Places
<1> DEFINE t == [session[s] EXCEPT !.at = at, !.part = WaitingMembers]
<1>3. /\ t \in Transaction /\ t.at = at /\ t.part = WaitingMembers
      /\ t.wrote = session[s].wrote /\ t.kind = session[s].kind /\ t.to = session[s].to
  BY <1>1 DEF Transaction, WaitingMembers
<1>4. session' = [session EXCEPT ![s] = t]  BY <1>1, <1>2 DEF CountersTypeOK
<1>5. UNCHANGED <<member, row, jobLock, itemLock, balanceLock, batchLock>>
  BY DEF JobsLocked, ItemsLocked, locks
<1> HIDE DEF t
<1>6. CountersTypeOK'  BY <1>1, <1>3, <1>4, <1>5, StatementType DEF CountersTypeOK
<1>7. \A r \in Sessions \ {s} : session'[r] = session[r] /\ LockIsKept(r)
  BY <1>1, <1>3, <1>4, <1>5, StatementType DEF LockIsKept
<1>8. session'[s] = t  BY <1>1, <1>3, <1>4, StatementType
<1>9. /\ session[s].wrote = {} /\ session[s].kind # "cancel_item"
      /\ \A m \in LiveMembers : jobLock[m] = s
      /\ WaitingMembers \subseteq LiveMembers
  BY <1>1, <1>2, StatusSets DEF Sound, WritesItsOwn, WaitingMembers, LiveMembers
<1>10. WritesItsOwn(s)'
  BY <1>2, <1>3, <1>5, <1>8, <1>9 DEF WritesItsOwn, LiveMembers
<1>11. CountsAlone(s)'
  BY <1>1, <1>2, <1>3, <1>5, <1>8, <1>9 DEF Sound, CountsAlone, EndsItems
<1>12. SawTheTruth(s)'
  BY <1>1, <1>2, <1>3, <1>5, <1>8, <1>9 DEF Sound, CountsAlone, SawTheTruth, HasCounted
<1>13. Sound(s)'  BY <1>10, <1>11, <1>12 DEF Sound
<1> QED  BY <1>5, <1>6, <1>7, <1>13, StatementKeeps

\* An item is written under its own lock and that of its job.
LEMMA WriteItemKeeps ==
  ASSUME CInv, NEW s \in Sessions, NEW m \in Members, WriteItem(s, m)
  PROVE  CInv'
<1>1. CountersTypeOK /\ Sound(s) /\ session[s] \in Transaction
  BY DEF CInv, BatchRowIsHonest, CountersTypeOK
<1>2. /\ session[s].at = "work" /\ m \in session[s].part \ session[s].wrote
      /\ FreeFor(s, itemLock[m])
      /\ itemLock' = [itemLock EXCEPT ![m] = s]
      /\ UNCHANGED <<member, row, jobLock, balanceLock, batchLock>>
  BY DEF WriteItem
<1> DEFINE wrote == session[s].wrote \union {m}
<1>3. PICK at \in {"work", "written"} :
         session' = [session EXCEPT ![s].wrote = wrote, ![s].at = at]
  BY DEF WriteItem
<1> DEFINE t == [session[s] EXCEPT !.wrote = wrote, !.at = at]
<1>4. /\ t \in Transaction /\ t.at = at /\ t.wrote = wrote
      /\ t.part = session[s].part /\ t.kind = session[s].kind /\ t.to = session[s].to
  BY <1>1, <1>3 DEF Transaction, Places
<1>5. session' = [session EXCEPT ![s] = t]  BY <1>1, <1>3 DEF CountersTypeOK
<1> HIDE DEF t
<1>6. /\ itemLock' \in [Members -> Sessions \union {NoSession}]
      /\ itemLock'[m] = s /\ \A n \in Members \ {m} : itemLock'[n] = itemLock[n]
  BY <1>1, <1>2 DEF CountersTypeOK
<1>7. CountersTypeOK'  BY <1>1, <1>2, <1>4, <1>5, <1>6, StatementType DEF CountersTypeOK
<1>8. \A r \in Sessions \ {s} : session'[r] = session[r] /\ LockIsKept(r)
  BY <1>1, <1>2, <1>4, <1>5, <1>6, StatementType, FreeNotOther DEF LockIsKept
<1>9. session'[s] = t  BY <1>1, <1>4, <1>5, StatementType
<1>10. session[s].kind # "cancel_item" /\ member[m] \in Live
  BY <1>1, <1>2 DEF Sound, WritesItsOwn
<1>11. session[s].wrote \subseteq Members /\ session[s].part \subseteq Members
  BY <1>1 DEF Transaction
<1>12. WritesItsOwn(s)'
  BY <1>1, <1>2, <1>3, <1>4, <1>6, <1>9, <1>10, <1>11 DEF Sound, WritesItsOwn
<1>13. CountsAlone(s)'
  BY <1>1, <1>2, <1>3, <1>4, <1>9 DEF Sound, CountsAlone
<1>14. SawTheTruth(s)'
  BY <1>3, <1>4, <1>9 DEF SawTheTruth, HasCounted
<1> QED  BY <1>2, <1>7, <1>8, <1>12, <1>13, <1>14, StatementKeeps DEF Sound

LEMMA MoveCreditsKeeps ==
  ASSUME CInv, NEW s \in Sessions, MoveCredits(s)
  PROVE  CInv'
<1>1. CountersTypeOK /\ Sound(s)  BY DEF CInv, BatchRowIsHonest
<1>2. /\ balanceLock = NoSession /\ balanceLock' = s
      /\ session[s].at \in {"work", "written"}
      /\ UNCHANGED <<member, row, jobLock, itemLock, batchLock, session>>
  BY DEF MoveCredits
<1>3. CountersTypeOK'  BY <1>1, <1>2 DEF CountersTypeOK
<1>4. \A r \in Sessions \ {s} : session'[r] = session[r] /\ LockIsKept(r)
  BY <1>2, SessionsAssumption DEF LockIsKept
<1>5. Sound(s)'
  BY <1>1, <1>2 DEF Sound, WritesItsOwn, CountsAlone, SawTheTruth, HasCounted, LiveMembers, EndsItems
<1> QED  BY <1>2, <1>3, <1>4, <1>5, StatementKeeps

\* The count: what s has written it sees as written, the rest as committed.
LEMMA CountKeeps ==
  ASSUME CInv, NEW s \in Sessions, CountItems(s)
  PROVE  CInv'
<1>1. CountersTypeOK /\ Sound(s) /\ session[s] \in Transaction
  BY DEF CInv, BatchRowIsHonest, CountersTypeOK
<1> DEFINE seen == [m \in Members |-> IF m \in session[s].wrote THEN session[s].to ELSE member[m]]
           t == [session[s] EXCEPT !.at = "counted", !.seen = seen]
<1>2. seen \in [Members -> ItemStatus]
  BY <1>1 DEF CountersTypeOK, Transaction
<1>3. /\ t \in Transaction /\ t.at = "counted" /\ t.seen = seen /\ t.wrote = session[s].wrote
      /\ t.part = session[s].part /\ t.kind = session[s].kind /\ t.to = session[s].to
  BY <1>1, <1>2 DEF Transaction, Places
<1>4. /\ session' = [session EXCEPT ![s] = t]
      /\ session[s].at = "written" /\ HasPaid(s)
      /\ session[s].kind = "cancel_item" => \A m \in session[s].part : jobLock[m] = s
      /\ UNCHANGED <<member, row, jobLock, itemLock, balanceLock, batchLock>>
  BY <1>1 DEF CountItems, CountersTypeOK, locks
<1>5. /\ \A m \in Members : m \in session[s].wrote => seen[m] = session[s].to
      /\ \A m \in Members : m \notin session[s].wrote => seen[m] = member[m]
  OBVIOUS
<1> HIDE DEF t, seen
<1>6. CountersTypeOK'  BY <1>1, <1>3, <1>4, StatementType DEF CountersTypeOK
<1>7. \A r \in Sessions \ {s} : session'[r] = session[r] /\ LockIsKept(r)
  BY <1>1, <1>3, <1>4, StatementType DEF LockIsKept
<1>8. session'[s] = t  BY <1>1, <1>3, <1>4, StatementType
<1>9. session[s].wrote \subseteq Members  BY <1>1 DEF Transaction
<1>10. WritesItsOwn(s)'
  BY <1>1, <1>3, <1>4, <1>8 DEF Sound, WritesItsOwn
<1>11. CountsAlone(s)'
  BY <1>1, <1>3, <1>4, <1>8 DEF Sound, CountsAlone, HasPaid, EndsItems
<1>12. SawTheTruth(s)'
  BY <1>3, <1>4, <1>5, <1>8, <1>9 DEF SawTheTruth
<1> QED  BY <1>4, <1>6, <1>7, <1>10, <1>11, <1>12, StatementKeeps DEF Sound

LEMMA WriteBatchKeeps ==
  ASSUME CInv, NEW s \in Sessions, WriteBatch(s)
  PROVE  CInv'
<1>1. CountersTypeOK /\ Sound(s) /\ session[s] \in Transaction
  BY DEF CInv, BatchRowIsHonest, CountersTypeOK
<1>2. PICK at \in {"done", "work"} :
         /\ session' = [session EXCEPT ![s].at = at]
         /\ at = "work" => session[s].part # session[s].wrote
  BY DEF WriteBatch, Becomes
<1> DEFINE t == [session[s] EXCEPT !.at = at]
<1>3. /\ t \in Transaction /\ t.at = at /\ t.seen = session[s].seen /\ t.wrote = session[s].wrote
      /\ t.part = session[s].part /\ t.kind = session[s].kind /\ t.to = session[s].to
  BY <1>1, <1>2 DEF Transaction, Places
<1>4. /\ session' = [session EXCEPT ![s] = t]
      /\ session[s].at = "counted" /\ FreeFor(s, batchLock) /\ batchLock' = s
      /\ UNCHANGED <<member, row, jobLock, itemLock, balanceLock>>
  BY <1>1, <1>2 DEF WriteBatch, CountersTypeOK
<1> HIDE DEF t
<1>5. CountersTypeOK'  BY <1>1, <1>3, <1>4, StatementType DEF CountersTypeOK
<1>6. \A r \in Sessions \ {s} : session'[r] = session[r] /\ LockIsKept(r)
  BY <1>1, <1>3, <1>4, StatementType, FreeNotOther DEF LockIsKept
<1>7. session'[s] = t  BY <1>1, <1>3, <1>4, StatementType
<1>8. WritesItsOwn(s)'
  BY <1>1, <1>2, <1>3, <1>4, <1>7 DEF Sound, WritesItsOwn
<1>9. CountsAlone(s)'
  BY <1>1, <1>2, <1>3, <1>4, <1>7 DEF Sound, CountsAlone, EndsItems
<1>10. SawTheTruth(s)'
  BY <1>1, <1>3, <1>4, <1>7 DEF Sound, SawTheTruth, HasCounted
<1> QED  BY <1>4, <1>5, <1>6, <1>8, <1>9, <1>10, StatementKeeps DEF Sound

\* What holds of a session between two transactions.
LEMMA NothingSound ==
  ASSUME NEW s \in Sessions, session'[s] = Nothing, batchLock' # s
  PROVE  Sound(s)'
<1>1. Nothing.at = "idle" /\ Nothing.kind = "claim" /\ Nothing.part = {} /\ Nothing.wrote = {}
  BY DEF Nothing
<1> QED  BY <1>1 DEF Sound, WritesItsOwn, CountsAlone, SawTheTruth, HasCounted

\* Locks are let go only by those who hold them.
LEMMA LetGoKeeps ==
  ASSUME CountersTypeOK, NEW s \in Sessions, LetGo(s)
  PROVE  /\ session' \in [Sessions -> Transaction] /\ session'[s] = Nothing
         /\ \A r \in Sessions \ {s} : session'[r] = session[r] /\ LockIsKept(r)
         /\ jobLock' \in [Members -> Sessions \union {NoSession}]
         /\ itemLock' \in [Members -> Sessions \union {NoSession}]
         /\ balanceLock' \in Sessions \union {NoSession}
         /\ batchLock' \in Sessions \union {NoSession} /\ batchLock' # s
<1>1. session' = [session EXCEPT ![s] = Nothing]  BY DEF LetGo
<1>2. /\ session' \in [Sessions -> Transaction] /\ session'[s] = Nothing
      /\ \A r \in Sessions : r # s => session'[r] = session[r]
  BY <1>1, NothingTyped DEF CountersTypeOK
<1>3. ASSUME NEW r \in Sessions, r # s PROVE LockIsKept(r)
  BY <1>3, SessionsAssumption DEF LetGo, LockIsKept
<1> QED  BY <1>2, <1>3, SessionsAssumption DEF LetGo, CountersTypeOK

LEMMA RollbackKeeps ==
  ASSUME CInv, NEW s \in Sessions, Rollback(s)
  PROVE  CInv'
<1>1. CountersTypeOK /\ LetGo(s) /\ UNCHANGED <<member, row>>
  BY DEF CInv, BatchRowIsHonest, Rollback
<1>2. CountersTypeOK'  BY <1>1, LetGoKeeps DEF CountersTypeOK
<1>3. Sound(s)'  BY <1>1, LetGoKeeps, NothingSound
<1> QED  BY <1>1, <1>2, <1>3, LetGoKeeps, StatementKeeps

\* The numbers of a count, and what follows from its status.
LEMMA RecountTyped ==
  ASSUME NEW st \in [Members -> ItemStatus]
  PROVE  /\ Recount(st) \in BatchCounts
         /\ Recount(st).finished = AllAre(st, Terminal)
         /\ Recount(st).status \notin {"queued", "running"} => AllAre(st, Terminal)
         /\ \A x \in ItemStatus : Recount(st).counts[x] = Number(st, x)
<1>1. \A x \in ItemStatus : Number(st, x) \in Nat
  <2> TAKE x \in ItemStatus
  <2>1. IsFiniteSet({m \in Members : st[m] = x})  BY MembersAssumption, FS_Subset
  <2> QED  BY <2>1, FS_CardinalityType DEF Number
<1>2. BatchStatusOf(st) \in BatchStatus  BY DEF BatchStatusOf, BatchStatus
<1>3. AllAre(st, Terminal) \in BOOLEAN  BY DEF AllAre
<1>4. [x \in ItemStatus |-> Number(st, x)] \in [ItemStatus -> Nat]  BY <1>1
<1>5. BatchStatusOf(st) \notin {"queued", "running"} => AllAre(st, Terminal)
  BY DEF BatchStatusOf
<1> QED  BY <1>2, <1>3, <1>4, <1>5 DEF Recount, BatchCounts

LEMMA NumberGrows ==
  ASSUME NEW st, NEW new, NEW x, \A m \in Members : st[m] = x => new[m] = x
  PROVE  Number(st, x) <= Number(new, x)
<1> DEFINE A == {m \in Members : st[m] = x}
           B == {m \in Members : new[m] = x}
<1>1. A \subseteq B /\ IsFiniteSet(B)  BY MembersAssumption, FS_Subset
<1> HIDE DEF A, B
<1>2. Cardinality(A) <= Cardinality(B)  BY <1>1, FS_Subset
<1> QED  BY <1>2 DEF Number, A, B

\* The commit: what others see of the items and of the row of the batch.
LEMMA CommitKeeps ==
  ASSUME CInv, NEW s \in Sessions, Commit(s)
  PROVE  CInv'
<1> DEFINE t == session[s]
<1>1. /\ CountersTypeOK /\ NeverAhead /\ EndedBatchIsRecounted /\ Sound(s)
      /\ t \in Transaction /\ t.at = "done" /\ LetGo(s)
  BY DEF CInv, BatchRowIsHonest, CountersTypeOK, Commit
<1>2. /\ t.wrote \subseteq Members /\ t.to \in ItemStatus /\ t.seen \in [Members -> ItemStatus]
      /\ member \in [Members -> ItemStatus] /\ row \in BatchCounts
  BY <1>1 DEF Transaction, CountersTypeOK
<1>3. /\ member' \in [Members -> ItemStatus]
      /\ \A m \in t.wrote : member'[m] = t.to
      /\ \A m \in Members \ t.wrote : member'[m] = member[m]
  BY <1>2 DEF Commit
<1>4. /\ \A m \in t.wrote : jobLock[m] = s /\ itemLock[m] = s /\ member[m] \in Live
      /\ t.wrote # {} => batchLock = s /\ (t.to \in Terminal => balanceLock = s)
  BY <1>1 DEF Sound, WritesItsOwn, CountsAlone, EndsItems
<1>5. ASSUME NEW r \in Sessions PROVE Sound(r)'
  <2>1. CASE r = s
    BY <1>1, <2>1, LetGoKeeps, NothingSound
  <2>2. CASE r # s
    <3>1. Sound(r) /\ session'[r] = session[r] /\ LockIsKept(r)
      BY <1>1, <2>2, LetGoKeeps DEF CInv
    <3>2. \A m \in Members : member'[m] # member[m] =>
             /\ jobLock[m] = s /\ itemLock[m] = s /\ member[m] \in Live
             /\ member'[m] \in Terminal => balanceLock = s /\ batchLock = s
      BY <1>3, <1>4
    <3> QED  BY <1>1, <2>2, <3>1, <3>2, Undisturbed
  <2> QED  BY <2>1, <2>2
<1>6. CASE batchLock # s
  <2>1. t.wrote = {} /\ row' = row  BY <1>4, <1>6 DEF Commit
  <2>2. member' = member  BY <1>2, <1>3, <2>1
  <2>3. CountersTypeOK'  BY <1>1, <2>1, <2>2, LetGoKeeps DEF CountersTypeOK
  <2> QED  BY <1>1, <1>5, <2>1, <2>2, <2>3
           DEF CInv, BatchRowIsHonest, NeverAhead, EndedBatchIsRecounted
<1>7. CASE batchLock = s
  <2> DEFINE c == Recount(t.seen)
  <2>1. row' = [c EXCEPT !.finished = @ \/ row.finished]  BY <1>7 DEF Commit
  <2>2. /\ c \in BatchCounts /\ c.finished = AllAre(t.seen, Terminal)
        /\ c.status \notin {"queued", "running"} => AllAre(t.seen, Terminal)
        /\ \A x \in ItemStatus : c.counts[x] = Number(t.seen, x)
    BY <1>2, RecountTyped
  <2>3. /\ \A m \in t.wrote : t.seen[m] = t.to
        /\ \A m \in Members \ t.wrote : t.seen[m] \in Terminal => member[m] = t.seen[m]
        /\ t.to \in Terminal =>
              \A m \in Members \ t.wrote : member[m] \in Terminal => t.seen[m] = member[m]
    BY <1>1, <1>7 DEF Sound, SawTheTruth, HasCounted
  <2>4. \A m \in Members : t.seen[m] \in Terminal => member'[m] = t.seen[m]
    BY <1>3, <2>3
  <2>5. AllAre(member', Terminal) => t.seen = member'
    <3> SUFFICES ASSUME AllAre(member', Terminal), NEW m \in Members PROVE t.seen[m] = member'[m]
      BY <1>2, <1>3
    <3>1. t.to \in Terminal
      <4>1. CASE t.wrote # {}  BY <1>2, <1>3, <4>1 DEF AllAre
      <4>2. CASE t.wrote = {}
        BY <1>1, <1>7, <4>2 DEF Sound, CountsAlone
      <4> QED  BY <4>1, <4>2
    <3> QED  BY <1>3, <2>3, <3>1 DEF AllAre
  <2> HIDE DEF c
  <2>6. /\ row' \in BatchCounts /\ row'.status = c.status /\ row'.counts = c.counts
        /\ row'.finished = (c.finished \/ row.finished)
    BY <1>2, <2>1, <2>2 DEF BatchCounts
  <2>7. CountersTypeOK'  BY <1>1, <1>3, <2>6, LetGoKeeps DEF CountersTypeOK
  <2>8. row.finished => AllAre(member', Terminal)
    <3> SUFFICES ASSUME row.finished PROVE AllAre(member', Terminal)
      OBVIOUS
    <3>1. AllAre(member, Terminal)  BY <1>1 DEF NeverAhead
    <3>2. t.wrote = {}  BY <1>2, <1>4, <3>1, StatusSets DEF AllAre
    <3> QED  BY <1>3, <3>1, <3>2 DEF AllAre
  <2>9. AllAre(t.seen, Terminal) => AllAre(member', Terminal)
    BY <2>4 DEF AllAre
  <2>10. ASSUME NEW x \in Terminal PROVE row'.counts[x] <= Number(member', x)
    <3>1. x \in ItemStatus  BY DEF ItemStatus
    <3>2. Number(t.seen, x) <= Number(member', x)  BY <2>4, NumberGrows
    <3> QED  BY <2>2, <2>6, <3>1, <3>2
  <2>11. NeverAhead'  BY <2>2, <2>6, <2>8, <2>9, <2>10 DEF NeverAhead
  <2>12. EndedBatchIsRecounted'
    <3> SUFFICES ASSUME AllAre(member', Terminal) PROVE row' = Recount(member')
      BY DEF EndedBatchIsRecounted
    <3>1. t.seen = member'  BY <2>5
    <3>2. c = Recount(member') /\ c.finished = TRUE  BY <2>2, <3>1 DEF c
    <3>3. \A x \in BatchCounts : x.finished = TRUE => [x EXCEPT !.finished = @ \/ row.finished] = x
      BY DEF BatchCounts
    <3> QED  BY <2>1, <2>2, <3>2, <3>3
  <2> QED  BY <1>5, <2>7, <2>11, <2>12 DEF CInv, BatchRowIsHonest
<1> QED  BY <1>6, <1>7

LEMMA CInvStep == CInv /\ [CountersNext]_counterVars => CInv'
<1> SUFFICES ASSUME CInv, [CountersNext]_counterVars PROVE CInv'
  OBVIOUS
<1>1. CASE UNCHANGED counterVars
  BY <1>1 DEF counterVars, locks, CInv, BatchRowIsHonest, CountersTypeOK, NeverAhead,
              EndedBatchIsRecounted, Sound, WritesItsOwn, CountsAlone, SawTheTruth,
              HasCounted, LiveMembers
<1>2. ASSUME NEW s \in Sessions, Begin(s) \/ Statement(s) \/ Commit(s) \/ Rollback(s)
      PROVE  CInv'
  BY <1>2, BeginKeeps, LockKeeps, LockedKeeps, WriteItemKeeps, MoveCreditsKeeps, CountKeeps,
     WriteBatchKeeps, CommitKeeps, RollbackKeeps DEF Statement
<1> QED  BY <1>1, <1>2 DEF CountersNext

LEMMA InitCInv == CountersInit => CInv
<1> SUFFICES ASSUME CountersInit PROVE CInv
  OBVIOUS
<1>1. /\ member = [m \in Members |-> "queued"] /\ row = Recount(member)
      /\ jobLock = [m \in Members |-> NoSession] /\ itemLock = [m \in Members |-> NoSession]
      /\ balanceLock = NoSession /\ batchLock = NoSession
      /\ session = [s \in Sessions |-> Nothing]
  BY DEF CountersInit
<1>2. member \in [Members -> ItemStatus]  BY <1>1, Statuses
<1>3. CountersTypeOK
  BY <1>1, <1>2, RecountTyped, NothingTyped DEF CountersTypeOK
<1>4. ~AllAre(member, Terminal)
  BY <1>1, MembersAssumption, StatusSets DEF AllAre
<1>5. NeverAhead
  <2>1. ASSUME NEW x \in Terminal PROVE row.counts[x] <= Number(member, x)
    <3>1. x \in ItemStatus  BY DEF ItemStatus
    <3>2. Number(member, x) <= Number(member, x)  BY NumberGrows
    <3> QED  BY <1>1, <1>2, <3>1, <3>2, RecountTyped
  <2> QED  BY <1>1, <1>2, <1>4, <2>1, RecountTyped DEF NeverAhead
<1>6. ASSUME NEW s \in Sessions PROVE Sound(s)
  <2>1. session[s] = Nothing /\ batchLock # s  BY <1>1, SessionsAssumption
  <2>2. Nothing.at = "idle" /\ Nothing.kind = "claim" /\ Nothing.part = {} /\ Nothing.wrote = {}
    BY DEF Nothing
  <2> QED  BY <2>1, <2>2 DEF Sound, WritesItsOwn, CountsAlone, SawTheTruth, HasCounted
<1> QED  BY <1>3, <1>4, <1>5, <1>6 DEF CInv, BatchRowIsHonest, EndedBatchIsRecounted

\* For every number of items and of sessions that work on them, and whatever rolls back:
\* the row of a batch never runs ahead of its items, and when they have all ended it is
\* what a recount gives, although refreshBatchCounters counts before it locks the row.
THEOREM BatchRowAlwaysHonest == CountersSpec => []BatchRowIsHonest
<1>1. CInv => BatchRowIsHonest  BY DEF CInv
<1> QED  BY <1>1, InitCInv, CInvStep, PTL DEF CountersSpec

-----------------------------------------------------------------------------
(***************************************************************************)
(* The executions of the items.  Every step of CommerceExecution is one of *)
(* the queue, so IInv holds of it as well.  Two things are added: what     *)
(* records and Works say of each other whatever happens (RowsTell), and,   *)
(* for an item none of whose executions outlived its lease, that only the  *)
(* newest attempt is executed (NewestOnly), so that what it knows of the   *)
(* record from its copy is still true (AttemptSound).                      *)
(***************************************************************************)

LEMMA ExecIsNext ==
  ASSUME [ExecNext]_allVars
  PROVE  [Next]_vars
<1>1. CASE QueueOnly
  BY <1>1 DEF QueueOnly, Next, QueueStep, WorkerStep
<1>2. ASSUME NEW i \in Items, LeaseRunsOut(i) PROVE Next
  BY <1>2 DEF LeaseRunsOut, Next, QueueStep
<1>3. ASSUME NEW w \in Workers, NEW i \in Items, ClaimAndStart(w, i) PROVE Next
  BY <1>3 DEF ClaimAndStart, Next, QueueStep
<1>4. ASSUME NEW w \in Workers, StopExecutions(w) PROVE Next
  BY <1>4 DEF StopExecutions, Next
<1>5. ASSUME NEW i \in Items, NEW a \in Attempts,
             \/ CompleteExecuted(i, a) \/ DiscardExecuted(i, a) \/ FailExecuted(i, a)
             \/ CancelExecuted(i, a) \/ GiveUpExecuted(i, a)
      PROVE  Next
  <2>1. HandlerReturns(i, a)
    <3>1. CASE FailExecuted(i, a)
      <4>1. (exec[i][a].pc = "failed_retryable") \in BOOLEAN  OBVIOUS
      <4> QED  BY <3>1, <4>1 DEF FailExecuted, HandlerReturns
    <3> QED
      BY <1>5, <3>1
         DEF CompleteExecuted, DiscardExecuted, CancelExecuted, GiveUpExecuted, HandlerReturns
  <2> QED  BY <2>1 DEF Next, WorkerStep
<1> QED  BY <1>1, <1>2, <1>3, <1>4, <1>5 DEF ExecNext, allVars

\* The places of an execution between its record and its result.
Underway  == {"bound", "saved", "marked", "asking", "image", "checked", "persisting"}
RecordRow == [status : RecordStatus, started : BOOLEAN, dedup : BOOLEAN, work : BOOLEAN]
ExecRow   == [pc : Returned \union Underway \union {"none", "start"}, copy : RecordRow,
              replay : BOOLEAN]

\* The type of the rows, as functions; an execution lives exactly as long as its handler.
ExecTyped ==
    /\ record \in [Items -> RecordRow]
    /\ works \in [Items -> Nat]
    /\ exec \in [Items -> [Attempts -> ExecRow]]
    /\ asked \in [Items -> {"never", "open", "answered"}]
    /\ stalled \in [Items -> BOOLEAN]

LivesWithHandler ==
    \A i \in Items, a \in Attempts : exec[i][a].pc = "none" <=> handler[i][a].pc = "none"

\* A record says that it has a Work only while there is one, and no copy of it does.
WorkTold(i, a) ==
    /\ record[i].work => record[i].status = "succeeded" /\ works[i] > 0
    /\ ~exec[i][a].copy.work

\* What holds whether or not an execution outlived its lease.
RowsTell(i) ==
    /\ settlement[i].settled > 0 => works[i] > 0
    /\ \A a \in Attempts :
          /\ WorkTold(i, a)
          /\ exec[i][a].pc = "ok" /\ item[i].status \notin Terminal => works[i] > 0

\* Only the newest attempt has a handler, and its lease is live.
NewestOnly(i) ==
    \A a \in Attempts : handler[i][a].pc # "none" =>
        job[i].status = "running" /\ job[i].attempts = a /\ job[i].lease = "live"

RecordSound(i) ==
    /\ works[i] <= 1
    /\ works[i] = 1 => Finished(record[i])
    /\ asked[i] = "open" => record[i].started /\ ~record[i].dedup

\* An execution that is under way has found no Work, and its copy knows what the record
\* knows of the request; while a request is unanswered nobody is about to send one.
AttemptSound(i, a) ==
    /\ exec[i][a].pc \in Underway =>
          /\ works[i] = 0
          /\ exec[i][a].copy.started = record[i].started
          /\ exec[i][a].copy.dedup = record[i].dedup
    /\ exec[i][a].pc \in Underway \ {"bound", "saved"} => exec[i][a].copy.started
    /\ asked[i] = "open" => exec[i][a].pc \notin Underway \ {"asking"}

OneExecution(i) ==
    /\ NewestOnly(i)
    /\ RecordSound(i)
    /\ \A a \in Attempts : AttemptSound(i, a)
    /\ item[i].status = "succeeded" => works[i] = 1

ExecInv ==
    /\ IInv /\ ExecTyped /\ LivesWithHandler
    /\ \A i \in Items : RowsTell(i) /\ (~stalled[i] => OneExecution(i))

-----------------------------------------------------------------------------
\* What a step of execution a of item i leaves alone.
Others(i, a) ==
    /\ ExecTyped' /\ UNCHANGED stalled
    /\ exec[i][a].pc # "none" /\ exec'[i][a].pc # "none"
    /\ \A j \in Items \ {i} : /\ record'[j] = record[j] /\ works'[j] = works[j]
                              /\ asked'[j] = asked[j] /\ exec'[j] = exec[j]
    /\ \A b \in Attempts \ {a} : exec'[i][b] = exec[i][b]

\* ... and what it preserves of the rows it writes.
Keeps(i, a) ==
    /\ Others(i, a)
    /\ works'[i] >= works[i]
    /\ WorkTold(i, a) => /\ WorkTold(i, a)'
                         /\ exec'[i][a].pc = "ok" => works'[i] > 0
    /\ WorkTold(i, a) /\ RecordSound(i) /\ AttemptSound(i, a)
         => RecordSound(i)' /\ AttemptSound(i, a)'

LEMMA IdleWith ==
  ASSUME NEW p \in Returned \union {"start"}
  PROVE  LET e == [Idle EXCEPT !.pc = p]
         IN  e \in ExecRow /\ e.pc = p /\ ~e.copy.work
<1>1. PICK d : d = Idle  OBVIOUS
<1>2. d \in ExecRow /\ ~d.copy.work
  BY <1>1 DEF Idle, ExecRow, NoRecord, RecordRow, RecordStatus
<1>3. LET e == [d EXCEPT !.pc = p] IN e \in ExecRow /\ e.pc = p /\ ~e.copy.work
  BY <1>2 DEF ExecRow
<1> QED  BY <1>1, <1>3, Zenon

LEMMA RowWith ==
  ASSUME NEW r \in RecordRow, NEW s \in RecordStatus
  PROVE  LET x == [r EXCEPT !.status = s]
         IN  /\ x \in RecordRow /\ x.status = s
             /\ x.started = r.started /\ x.dedup = r.dedup /\ x.work = r.work
BY DEF RecordRow

LEMMA ReturnsRow ==
  ASSUME ExecTyped, NEW i \in Items, NEW a \in Attempts, NEW p \in Returned, Returns(i, a, p)
  PROVE  /\ exec' \in [Items -> [Attempts -> ExecRow]]
         /\ exec'[i][a].pc = p /\ ~exec'[i][a].copy.work
         /\ \A j \in Items \ {i} : exec'[j] = exec[j]
         /\ \A b \in Attempts \ {a} : exec'[i][b] = exec[i][b]
<1>1. PICK e : e = [Idle EXCEPT !.pc = p]  OBVIOUS
<1>2. e \in ExecRow /\ e.pc = p /\ ~e.copy.work
  BY <1>1, IdleWith
<1>3. exec' = [exec EXCEPT ![i][a] = e]  BY <1>1 DEF Returns
<1> QED  BY <1>2, <1>3 DEF ExecTyped

LEMMA MovesRow ==
  ASSUME ExecTyped, NEW i \in Items, NEW a \in Attempts, NEW p \in Underway,
         NEW c \in RecordRow, Moves(i, a, p, c)
  PROVE  /\ exec' \in [Items -> [Attempts -> ExecRow]]
         /\ exec'[i][a].pc = p /\ exec'[i][a].copy = c
         /\ \A j \in Items \ {i} : exec'[j] = exec[j]
         /\ \A b \in Attempts \ {a} : exec'[i][b] = exec[i][b]
<1>1. exec' = [exec EXCEPT ![i][a].pc = p, ![i][a].copy = c]  BY DEF Moves
<1>2. exec[i] \in [Attempts -> ExecRow] /\ exec[i][a] \in ExecRow  BY DEF ExecTyped
<1> QED  BY <1>1, <1>2 DEF ExecTyped, ExecRow

LEMMA FailRecordRow ==
  ASSUME ExecTyped, NEW i \in Items, NEW c \in RecordRow, FailRecord(i, c)
  PROVE  /\ record' \in [Items -> RecordRow]
         /\ \A j \in Items \ {i} : record'[j] = record[j]
         /\ \/ record'[i] = record[i]
            \/ /\ record'[i].status = "failed" /\ record'[i].started = c.started
               /\ record'[i].dedup = c.dedup /\ record'[i].work = c.work
<1>1. PICK r : r = FailedRow(c)  OBVIOUS
<1>2. /\ r \in RecordRow /\ r.status = "failed"
      /\ r.started = c.started /\ r.dedup = c.dedup /\ r.work = c.work
  BY <1>1, RowWith DEF FailedRow, RecordStatus
<1>3. record' = [record EXCEPT ![i] = r] \/ record' = [record EXCEPT ![i] = record[i]]
  <2>1. CASE StillActive(record[i])  BY <1>1, <2>1 DEF FailRecord, ExecTyped
  <2>2. CASE ~StillActive(record[i])  BY <2>2 DEF FailRecord, ExecTyped
  <2> QED  BY <2>1, <2>2
<1> QED  BY <1>2, <1>3 DEF ExecTyped

LEMMA CopyTyped ==
  ASSUME ExecTyped, NEW i \in Items, NEW a \in Attempts
  PROVE  /\ exec[i][a] \in ExecRow /\ exec[i][a].copy \in RecordRow
         /\ record[i] \in RecordRow /\ works[i] \in Nat
         /\ asked[i] \in {"never", "open", "answered"}
BY DEF ExecTyped, ExecRow

\* An execution that gives up, with the record failed or as it was.
LEMMA FailedKeeps ==
  ASSUME ExecTyped, NEW i \in Items, NEW a \in Attempts, NEW p \in {"failed", "failed_retryable"},
         Returns(i, a, p), exec[i][a].pc \in Underway \union {"start"},
         \/ UNCHANGED record
         \/ exec[i][a].pc \in Underway /\ FailRecord(i, exec[i][a].copy),
         UNCHANGED <<works, stalled>>,
         asked' = asked \/ asked' = [asked EXCEPT ![i] = "answered"]
  PROVE  Keeps(i, a)
<1>1. /\ exec[i][a].copy \in RecordRow /\ works[i] \in Nat
      /\ works'[i] = works[i] /\ (asked'[i] = asked[i] \/ asked'[i] = "answered")
  BY CopyTyped DEF ExecTyped
<1>2. /\ exec' \in [Items -> [Attempts -> ExecRow]]
      /\ exec'[i][a].pc = p /\ ~exec'[i][a].copy.work
      /\ \A j \in Items \ {i} : exec'[j] = exec[j]
      /\ \A b \in Attempts \ {a} : exec'[i][b] = exec[i][b]
  BY ReturnsRow DEF Returned
<1>3. /\ record' \in [Items -> RecordRow]
      /\ \A j \in Items \ {i} : record'[j] = record[j]
      /\ \/ record'[i] = record[i]
         \/ /\ exec[i][a].pc \in Underway
            /\ record'[i].status = "failed" /\ record'[i].started = exec[i][a].copy.started
            /\ record'[i].dedup = exec[i][a].copy.dedup /\ record'[i].work = exec[i][a].copy.work
  BY <1>1, FailRecordRow DEF ExecTyped
<1>4. asked' \in [Items -> {"never", "open", "answered"}] /\ \A j \in Items \ {i} : asked'[j] = asked[j]
  BY DEF ExecTyped
<1>5. Others(i, a)
  BY <1>2, <1>3, <1>4 DEF Others, ExecTyped, Underway
<1>6. WorkTold(i, a) => WorkTold(i, a)' /\ exec'[i][a].pc # "ok"
  BY <1>1, <1>2, <1>3 DEF WorkTold
<1>7. RecordSound(i) /\ AttemptSound(i, a) => RecordSound(i)' /\ AttemptSound(i, a)'
  BY <1>1, <1>2, <1>3 DEF RecordSound, AttemptSound, Underway, Finished
<1> QED  BY <1>1, <1>5, <1>6, <1>7 DEF Keeps

\* An execution that goes on with its copy, and writes nothing.
LEMMA GoesOnKeeps ==
  ASSUME ExecTyped, NEW i \in Items, NEW a \in Attempts, NEW p \in Underway,
         Moves(i, a, p, exec[i][a].copy), exec[i][a].pc \in Underway,
         p \in {"bound", "saved"} \/ exec[i][a].pc \notin {"bound", "saved"},
         UNCHANGED <<record, works, stalled>>,
         asked' = asked \/ \E k \in {"open", "answered"} : asked' = [asked EXCEPT ![i] = k],
         AttemptSound(i, a) /\ RecordSound(i) =>
            /\ asked'[i] = "open" => p = "asking" /\ record[i].started /\ ~record[i].dedup
  PROVE  Keeps(i, a)
<1>1. exec[i][a].copy \in RecordRow /\ works[i] \in Nat /\ works'[i] = works[i] /\ record'[i] = record[i]
  BY CopyTyped
<1>2. /\ exec' \in [Items -> [Attempts -> ExecRow]]
      /\ exec'[i][a].pc = p /\ exec'[i][a].copy = exec[i][a].copy
      /\ \A j \in Items \ {i} : exec'[j] = exec[j]
      /\ \A b \in Attempts \ {a} : exec'[i][b] = exec[i][b]
  BY <1>1, MovesRow
<1>3. asked' \in [Items -> {"never", "open", "answered"}] /\ \A j \in Items \ {i} : asked'[j] = asked[j]
  BY DEF ExecTyped
<1>4. Others(i, a)
  BY <1>2, <1>3 DEF Others, ExecTyped, Underway
<1>5. WorkTold(i, a) => WorkTold(i, a)' /\ exec'[i][a].pc # "ok"
  BY <1>1, <1>2 DEF WorkTold, Underway
<1>6. RecordSound(i) /\ AttemptSound(i, a) => RecordSound(i)' /\ AttemptSound(i, a)'
  BY <1>1, <1>2 DEF RecordSound, AttemptSound, Underway, Finished
<1> QED  BY <1>1, <1>4, <1>5, <1>6 DEF Keeps

\* An execution that writes the record and goes on with what it wrote.
LEMMA WritesKeeps ==
  ASSUME ExecTyped, NEW i \in Items, NEW a \in Attempts, NEW p \in Underway,
         NEW r \in RecordRow, NEW c \in RecordRow,
         Moves(i, a, p, c), record' = [record EXCEPT ![i] = r],
         exec[i][a].pc # "none",
         WorkTold(i, a) => (r.work => r.status = "succeeded" /\ works[i] > 0) /\ ~c.work,
         WorkTold(i, a) /\ AttemptSound(i, a) /\ RecordSound(i) =>
            /\ works[i] = 0 /\ asked[i] # "open"
            /\ c.started = r.started /\ c.dedup = r.dedup
            /\ p \in Underway \ {"bound", "saved"} => r.started,
         UNCHANGED <<works, asked, stalled>>
  PROVE  Keeps(i, a)
<1>1. works[i] \in Nat /\ works'[i] = works[i] /\ asked'[i] = asked[i]
  BY CopyTyped
<1>2. /\ exec' \in [Items -> [Attempts -> ExecRow]]
      /\ exec'[i][a].pc = p /\ exec'[i][a].copy = c
      /\ \A j \in Items \ {i} : exec'[j] = exec[j]
      /\ \A b \in Attempts \ {a} : exec'[i][b] = exec[i][b]
  BY <1>1, MovesRow
<1>3. /\ record' \in [Items -> RecordRow] /\ record'[i] = r
      /\ \A j \in Items \ {i} : record'[j] = record[j]
  BY DEF ExecTyped
<1>4. Others(i, a)
  BY <1>2, <1>3 DEF Others, ExecTyped, Underway
<1>5. WorkTold(i, a) => WorkTold(i, a)' /\ exec'[i][a].pc # "ok"
  BY <1>1, <1>2, <1>3 DEF WorkTold, Underway
<1>6. WorkTold(i, a) /\ RecordSound(i) /\ AttemptSound(i, a) => RecordSound(i)' /\ AttemptSound(i, a)'
  BY <1>1, <1>2, <1>3 DEF RecordSound, AttemptSound
<1> QED  BY <1>1, <1>4, <1>5, <1>6 DEF Keeps

LEMMA BindKeeps ==
  ASSUME ExecTyped, NEW i \in Items, NEW a \in Attempts, Bind(i, a)
  PROVE  Keeps(i, a)
<1>1. exec[i][a].pc = "start" /\ UNCHANGED <<works, asked, stalled>>
  BY DEF Bind
<1>2. record[i] \in RecordRow /\ works[i] \in Nat /\ works'[i] = works[i] /\ asked'[i] = asked[i]
  BY <1>1, CopyTyped
<1>3. ASSUME NEW p \in {"failed", "failed_retryable"}, Returns(i, a, p), UNCHANGED record
      PROVE  Keeps(i, a)
  BY <1>1, <1>3, FailedKeeps
<1>4. ASSUME record' = [record EXCEPT ![i] =
                           IF @.status = "none" THEN [@ EXCEPT !.status = "queued"] ELSE @],
             NEW offered \in BOOLEAN,
             IF Finished(record'[i]) THEN Returns(i, a, "ok")
             ELSE IF ReplaySafe(record'[i], offered)
             THEN exec' = [exec EXCEPT ![i][a] =
                     [pc |-> "bound", copy |-> record'[i], replay |-> record'[i].started]]
             ELSE Returns(i, a, "failed")
      PROVE  Keeps(i, a)
  <2>1. PICK q : q = [record[i] EXCEPT !.status = "queued"]  OBVIOUS
  <2>2. /\ q \in RecordRow /\ q.status = "queued" /\ q.started = record[i].started
        /\ q.dedup = record[i].dedup /\ q.work = record[i].work
    BY <1>2, <2>1, RowWith DEF RecordStatus
  <2>3. PICK r : r = record'[i]  OBVIOUS
  <2>4. /\ record' \in [Items -> RecordRow] /\ r \in RecordRow
        /\ r.started = record[i].started /\ r.dedup = record[i].dedup /\ r.work = record[i].work
        /\ r = record[i] \/ (record[i].status = "none" /\ r.status = "queued")
        /\ \A j \in Items \ {i} : record'[j] = record[j]
    <3>1. record' = [record EXCEPT ![i] = IF record[i].status = "none" THEN q ELSE record[i]]
      BY <1>4, <2>1
    <3>2. r = IF record[i].status = "none" THEN q ELSE record[i]
      BY <2>3, <3>1 DEF ExecTyped
    <3> QED  BY <1>2, <2>2, <3>1, <3>2 DEF ExecTyped
  <2>5. WorkTold(i, a) => /\ r.work => r.status = "succeeded" /\ works[i] > 0
    BY <2>4 DEF WorkTold
  <2>6. RecordSound(i) => RecordSound(i)'
    BY <1>2, <2>3, <2>4 DEF RecordSound, Finished
  <2>7. asked' \in [Items -> {"never", "open", "answered"}] /\ works' \in [Items -> Nat]
        /\ stalled' \in [Items -> BOOLEAN]
    BY <1>1 DEF ExecTyped
  <2>8. CASE Finished(r) \/ ~ReplaySafe(r, offered)
    <3>1. PICK p \in {"ok", "failed"} : Returns(i, a, p) /\ (p = "ok" => Finished(r))
      BY <1>4, <2>3, <2>8
    <3>2. /\ exec' \in [Items -> [Attempts -> ExecRow]]
          /\ exec'[i][a].pc = p /\ ~exec'[i][a].copy.work
          /\ \A j \in Items \ {i} : exec'[j] = exec[j]
          /\ \A b \in Attempts \ {a} : exec'[i][b] = exec[i][b]
      BY <3>1, ReturnsRow DEF Returned
    <3>3. Others(i, a)
      BY <1>1, <2>4, <2>7, <3>2 DEF Others, ExecTyped
    <3>4. WorkTold(i, a) => WorkTold(i, a)' /\ (exec'[i][a].pc = "ok" => works'[i] > 0)
      BY <1>2, <2>3, <2>5, <3>1, <3>2 DEF WorkTold, Finished
    <3>5. AttemptSound(i, a)'
      BY <3>2 DEF AttemptSound, Underway
    <3> QED  BY <1>2, <2>6, <3>3, <3>4, <3>5 DEF Keeps
  <2>9. CASE ~Finished(r) /\ ReplaySafe(r, offered)
    <3>1. PICK e : e = [pc |-> "bound", copy |-> r, replay |-> r.started]  OBVIOUS
    <3>2. e \in ExecRow /\ e.pc = "bound" /\ e.copy = r
      <4>1. r.started \in BOOLEAN  BY <2>4 DEF RecordRow
      <4> QED  BY <2>4, <3>1, <4>1 DEF ExecRow, Underway
    <3>3. exec' = [exec EXCEPT ![i][a] = e]
      BY <1>4, <2>3, <2>9, <3>1
    <3>4. /\ exec' \in [Items -> [Attempts -> ExecRow]] /\ exec'[i][a] = e
          /\ \A j \in Items \ {i} : exec'[j] = exec[j]
          /\ \A b \in Attempts \ {a} : exec'[i][b] = exec[i][b]
      BY <3>2, <3>3 DEF ExecTyped
    <3>5. Others(i, a)
      BY <1>1, <2>4, <2>7, <3>2, <3>4 DEF Others, ExecTyped
    <3>6. WorkTold(i, a) => WorkTold(i, a)' /\ exec'[i][a].pc # "ok"
      BY <1>2, <2>3, <2>5, <2>9, <3>2, <3>4 DEF WorkTold, Finished
    <3>7. RecordSound(i) /\ WorkTold(i, a) => works[i] = 0 /\ asked[i] # "open"
      BY <1>2, <2>4, <2>5, <2>6, <2>9 DEF RecordSound, Finished, ReplaySafe
    <3>8. RecordSound(i) /\ WorkTold(i, a) => AttemptSound(i, a)'
      BY <1>2, <2>3, <3>2, <3>4, <3>7 DEF AttemptSound, Underway
    <3> QED  BY <1>2, <2>6, <3>5, <3>6, <3>8 DEF Keeps
  <2> QED  BY <2>8, <2>9
<1> QED  BY <1>3, <1>4 DEF Bind

LEMMA ExecuteKeeps ==
  ASSUME ExecTyped, NEW i \in Items, NEW a \in Attempts, Execute(i, a)
  PROVE  Keeps(i, a)
<1> DEFINE c == exec[i][a].copy
<1>1. /\ c \in RecordRow /\ record[i] \in RecordRow /\ works[i] \in Nat
      /\ asked[i] \in {"never", "open", "answered"}
  BY CopyTyped
<1>2. ASSUME Fails(i, a)
      PROVE  \E p \in {"failed", "failed_retryable"} : Returns(i, a, p)
  BY <1>2 DEF Fails
<1>3. CASE PreparationFails(i, a)
  <2>1. \E p \in {"failed", "failed_retryable"} : Returns(i, a, p)
    BY <1>2, <1>3 DEF PreparationFails
  <2> QED  BY <1>3, <2>1, FailedKeeps DEF PreparationFails, Underway
<1>4. CASE StatementErrs(i, a)
  BY <1>4, FailedKeeps DEF StatementErrs, Underway
<1>5. ASSUME NEW p \in Underway, NEW s \in {"bound", "checked"}, SaveRunning(i, a, s, p),
             s = "bound" => p = "saved"
      PROVE  Keeps(i, a)
  <2>1. PICK r : r = [c EXCEPT !.status = "running"]  OBVIOUS
  <2>2. /\ r \in RecordRow /\ r.started = c.started /\ r.dedup = c.dedup /\ r.work = c.work
    BY <1>1, <2>1, RowWith DEF RecordStatus
  <2>3. /\ exec[i][a].pc = s /\ record' = [record EXCEPT ![i] = r] /\ Moves(i, a, p, r)
        /\ UNCHANGED <<works, asked, stalled>>
    BY <1>5, <2>1 DEF SaveRunning
  <2>4. WorkTold(i, a) => ~r.work  BY <2>2 DEF WorkTold
  <2>5. AttemptSound(i, a) => /\ works[i] = 0 /\ asked[i] # "open"
                              /\ p \in Underway \ {"bound", "saved"} => r.started
    BY <1>5, <2>2, <2>3 DEF AttemptSound, Underway
  <2>6. exec[i][a].pc # "none"  BY <2>3
  <2> QED  BY <2>2, <2>3, <2>4, <2>5, <2>6, WritesKeeps
<1>6. CASE MarkStarted(i, a)
  <2>1. exec[i][a].pc = "saved" /\ UNCHANGED <<works, asked, stalled>>
    BY <1>6 DEF MarkStarted
  <2>2. CASE ~Alive(i, a)
    <3>1. Returns(i, a, "failed") /\ UNCHANGED record
      BY <1>6, <2>2 DEF MarkStarted
    <3> QED  BY <2>1, <3>1, FailedKeeps DEF Underway
  <2>3. CASE Alive(i, a)
    <3>1. PICK d \in BOOLEAN :
             /\ record' = [record EXCEPT ![i].started = TRUE, ![i].dedup = d]
             /\ Moves(i, a, "marked", [c EXCEPT !.started = TRUE, !.dedup = d])
      <4>1. Channels \subseteq BOOLEAN  BY ExecutionAssumption
      <4>2. \A d : d \in (IF exec[i][a].replay THEN {TRUE} ELSE Channels) => d \in BOOLEAN
        BY <4>1
      <4> QED  BY <1>6, <2>3, <4>2 DEF MarkStarted
    <3>2. PICK r : r = [record[i] EXCEPT !.started = TRUE, !.dedup = d]  OBVIOUS
    <3>3. PICK f : f = [c EXCEPT !.started = TRUE, !.dedup = d]  OBVIOUS
    <3>4. /\ r \in RecordRow /\ r.started = TRUE /\ r.dedup = d /\ r.work = record[i].work
      BY <1>1, <3>2 DEF RecordRow
    <3>5. /\ f \in RecordRow /\ f.started = TRUE /\ f.dedup = d /\ f.work = c.work
      BY <1>1, <3>3 DEF RecordRow
    <3>6. record' = [record EXCEPT ![i] = r] /\ Moves(i, a, "marked", f)
      BY <3>1, <3>2, <3>3
    <3>7. r.status = record[i].status
      BY <1>1, <3>2 DEF RecordRow
    <3>8. WorkTold(i, a) => (r.work => r.status = "succeeded" /\ works[i] > 0) /\ ~f.work
      BY <3>4, <3>5, <3>7 DEF WorkTold
    <3>9. AttemptSound(i, a) => works[i] = 0 /\ asked[i] # "open"
      BY <2>1 DEF AttemptSound, Underway
    <3> QED
      BY <2>1, <3>4, <3>5, <3>6, <3>8, <3>9, WritesKeeps DEF Underway
  <2> QED  BY <2>2, <2>3
<1>7. CASE AskProvider(i, a)
  <2>1. /\ exec[i][a].pc = "marked" /\ Moves(i, a, "asking", c)
        /\ UNCHANGED <<record, works, stalled>>
        /\ asked' = IF c.dedup THEN asked ELSE [asked EXCEPT ![i] = "open"]
    BY <1>7 DEF AskProvider
  <2>2. AttemptSound(i, a) => /\ asked[i] # "open" /\ record[i].started
                              /\ c.dedup = record[i].dedup
    BY <2>1 DEF AttemptSound, Underway
  <2>3. AttemptSound(i, a) => (asked'[i] = "open" => record[i].started /\ ~record[i].dedup)
    BY <1>1, <2>1, <2>2 DEF RecordRow
  <2>4. asked' = asked \/ asked' = [asked EXCEPT ![i] = "open"]
    BY <2>1
  <2> QED  BY <2>1, <2>3, <2>4, GoesOnKeeps DEF Underway
<1>8. ASSUME NEW p \in {"saved", "image"}, exec[i][a].pc = "asking", Moves(i, a, p, c),
             UNCHANGED <<record, works, stalled>>, Answered(i, a) \/ (c.dedup /\ UNCHANGED asked)
      PROVE  Keeps(i, a)
  <2>1. (asked' = asked /\ c.dedup) \/ asked' = [asked EXCEPT ![i] = "answered"]
    BY <1>8 DEF Answered
  <2>2. RecordSound(i) /\ AttemptSound(i, a) => asked'[i] # "open"
    <3>1. AttemptSound(i, a) => c.dedup = record[i].dedup
      BY <1>8 DEF AttemptSound, Underway
    <3> QED  BY <1>1, <2>1, <3>1 DEF RecordSound, ExecTyped
  <2>3. asked' = asked \/ asked' = [asked EXCEPT ![i] = "answered"]
    BY <2>1
  <2> QED  BY <1>8, <2>2, <2>3, GoesOnKeeps DEF Underway
<1>9. CASE ProviderDelivers(i, a)
  BY <1>8, <1>9 DEF ProviderDelivers
<1>10. ASSUME exec[i][a].pc = "asking", FailRecord(i, c),
              \E p \in {"failed", "failed_retryable"} : Returns(i, a, p),
              UNCHANGED <<works, stalled>>, Answered(i, a) \/ UNCHANGED asked
       PROVE  Keeps(i, a)
  <2>1. asked' = asked \/ asked' = [asked EXCEPT ![i] = "answered"]
    BY <1>10 DEF Answered
  <2> QED  BY <1>10, <2>1, FailedKeeps DEF Underway
<1>11. CASE ProviderRefuses(i, a)
  <2>1. exec[i][a].pc = "asking" /\ Answered(i, a) /\ UNCHANGED <<works, stalled>>
    BY <1>11 DEF ProviderRefuses
  <2>2. CASE Moves(i, a, "saved", c) /\ UNCHANGED record
    BY <1>8, <2>1, <2>2
  <2>3. CASE FailRecord(i, c) /\ Fails(i, a)
    BY <1>2, <1>10, <2>1, <2>3
  <2>4. CASE Returns(i, a, "failed_retryable") /\ UNCHANGED record
    <3>1. asked' = asked \/ asked' = [asked EXCEPT ![i] = "answered"]
      BY <2>1 DEF Answered
    <3> QED  BY <2>1, <2>4, <3>1, FailedKeeps DEF Underway
  <2> QED  BY <1>11, <2>2, <2>3, <2>4 DEF ProviderRefuses
<1>12. CASE ProviderSilent(i, a)
  <2>1. exec[i][a].pc = "asking" /\ UNCHANGED <<works, asked, stalled>>
    BY <1>12 DEF ProviderSilent
  <2>2. CASE c.dedup /\ Moves(i, a, "saved", c) /\ UNCHANGED record
    BY <1>8, <2>1, <2>2
  <2>3. ASSUME NEW p \in {"failed", "failed_retryable"}, FailRecord(i, c), Returns(i, a, p)
        PROVE  Keeps(i, a)
    BY <1>10, <2>1, <2>3
  <2>4. CASE Returns(i, a, "failed_retryable") /\ UNCHANGED record
    BY <2>1, <2>4, FailedKeeps DEF Underway
  <2> QED  BY <1>12, <2>2, <2>3, <2>4 DEF ProviderSilent
<1>13. CASE CheckActive(i, a)
  <2>1. exec[i][a].pc = "image" /\ UNCHANGED <<record, works, asked, stalled>>
    BY <1>13 DEF CheckActive
  <2>2. CASE Returns(i, a, "failed_retryable")
    BY <2>1, <2>2, FailedKeeps DEF Underway
  <2>3. CASE Moves(i, a, "checked", c)
    <3>1. AttemptSound(i, a) => asked'[i] # "open"
      BY <2>1 DEF AttemptSound, Underway
    <3> QED  BY <2>1, <2>3, <3>1, GoesOnKeeps DEF Underway
  <2> QED  BY <1>13, <2>2, <2>3 DEF CheckActive
<1>14. CASE Persist(i, a)
  <2>1. PICK r : r = SucceededRow(c)  OBVIOUS
  <2>2. /\ r \in RecordRow /\ r.status = "succeeded" /\ r.work
        /\ r.started = c.started /\ r.dedup = c.dedup
    BY <1>1, <2>1 DEF SucceededRow, RecordRow, RecordStatus
  <2>3. /\ exec[i][a].pc = "persisting" /\ record' = [record EXCEPT ![i] = r]
        /\ Returns(i, a, "ok") /\ works' = [works EXCEPT ![i] = @ + 1]
        /\ UNCHANGED <<asked, stalled>>
    BY <1>14, <2>1 DEF Persist
  <2>4. /\ exec' \in [Items -> [Attempts -> ExecRow]]
        /\ exec'[i][a].pc = "ok" /\ ~exec'[i][a].copy.work
        /\ \A j \in Items \ {i} : exec'[j] = exec[j]
        /\ \A b \in Attempts \ {a} : exec'[i][b] = exec[i][b]
    BY <2>3, ReturnsRow DEF Returned
  <2>5. /\ record' \in [Items -> RecordRow] /\ record'[i] = r
        /\ \A j \in Items \ {i} : record'[j] = record[j]
    BY <2>2, <2>3 DEF ExecTyped
  <2>6. /\ works' \in [Items -> Nat] /\ works'[i] = works[i] + 1
        /\ \A j \in Items \ {i} : works'[j] = works[j]
    BY <2>3 DEF ExecTyped
  <2>7. Others(i, a)
    BY <2>3, <2>4, <2>5, <2>6 DEF Others, ExecTyped
  <2>8. WorkTold(i, a)' /\ works'[i] > 0
    BY <1>1, <2>2, <2>4, <2>5, <2>6 DEF WorkTold
  <2>9. AttemptSound(i, a) => works[i] = 0 /\ asked[i] # "open"
    BY <2>3 DEF AttemptSound, Underway
  <2>10. AttemptSound(i, a) => RecordSound(i)'
    BY <2>2, <2>3, <2>5, <2>6, <2>9 DEF RecordSound, Finished
  <2>11. AttemptSound(i, a)'
    BY <2>4 DEF AttemptSound, Underway
  <2> QED  BY <1>1, <2>6, <2>7, <2>8, <2>10, <2>11 DEF Keeps
<1>15. CASE PersistFails(i, a)
  <2>1. \E p \in {"failed", "failed_retryable"} : Returns(i, a, p)
    BY <1>2, <1>15 DEF PersistFails
  <2> QED  BY <1>15, <2>1, FailedKeeps DEF PersistFails, Underway
<1> QED
  BY <1>3, <1>4, <1>5, <1>6, <1>7, <1>9, <1>11, <1>12, <1>13, <1>14, <1>15, BindKeeps
     DEF Execute, Underway

-----------------------------------------------------------------------------
\* The steps of the queue, seen from item j: a live lease stays what it is ...
LeaseKept(j) ==
    job[j].status = "running" /\ job[j].lease = "live" =>
        /\ job'[j].status = "running" /\ job'[j].lease = "live"
        /\ job'[j].attempts = job[j].attempts

\* ... and an item that succeeds has succeeded before.
NoSuccess(j) == item'[j].status = "succeeded" => item[j].status = "succeeded"

LEMMA CancelRowsQuiet ==
  ASSUME TypeOK, NEW S \in SUBSET Items, CancelRows(S), NEW j \in Items
  PROVE  LeaseKept(j) /\ NoSuccess(j)
<1>1. item[j] \in ItemRow /\ job[j] \in JobRow  BY DEF TypeOK
<1>2. item'[j] = item[j] \/
      item'[j] = [item[j] EXCEPT !.cancel = TRUE,
                                 !.status = IF item[j].status \in Waiting
                                            THEN "canceled" ELSE item[j].status]
  BY <1>1 DEF CancelRows, LiveOf, ItemRow
<1>3. job'[j] = job[j] \/
      job'[j] = [job[j] EXCEPT !.cancel = TRUE,
                               !.status = IF job[j].status \in Waiting
                                          THEN "canceled" ELSE job[j].status]
  BY <1>1 DEF CancelRows, LiveOf, JobRow
<1> QED  BY <1>1, <1>2, <1>3, StatusSets DEF LeaseKept, NoSuccess, ItemRow, JobRow

\* A job that its lease is taken from: the rows of the others stay as they are, and
\* the item does not succeed.
LEMMA TakenQuiet ==
  ASSUME TypeOK, NEW i \in Items,
         CancelLeasedJob(i) \/ ScheduleRetry(i) \/ DeadLetterLeasedJob(i), NEW j \in Items
  PROVE  NoSuccess(j) /\ (j # i => job'[j] = job[j])
<1>1. item' = item \/ \E s \in {"retrying", "failed", "canceled"} :
                           item' = [item EXCEPT ![i].status = s]
  BY DEF CancelLeasedJob, ScheduleRetry, DeadLetterLeasedJob, ItemBecomes
<1>2. j # i => job'[j] = job[j]
  <2>1. \E r : job' = [job EXCEPT ![i] = r]
    BY DEF CancelLeasedJob, ScheduleRetry, DeadLetterLeasedJob, Unleased
  <2> QED  BY <2>1 DEF TypeOK
<1>3. item[j] \in ItemRow  BY DEF TypeOK
<1> QED  BY <1>1, <1>2, <1>3 DEF NoSuccess, TypeOK, ItemRow

\* What the queue does on its own leaves live leases and the life of handlers alone.
LEMMA QueueQuiet ==
  ASSUME IInv, QueueOnly, NEW j \in Items
  PROVE  /\ LeaseKept(j) /\ NoSuccess(j)
         /\ \A a \in Attempts : handler'[j][a].pc = "none" <=> handler[j][a].pc = "none"
<1> DEFINE Kept == LeaseKept(j) /\ NoSuccess(j)
           Lives == \A a \in Attempts : handler'[j][a].pc = "none" <=> handler[j][a].pc = "none"
<1>0. /\ TypeOK /\ \A i \in Items : Consistent(i)
      /\ item[j] \in ItemRow /\ job[j] \in JobRow
  BY IInvParts DEF TypeOK
<1>1. ASSUME NEW b \in Batches, NEW S \in SUBSET Items,
             \A i \in S : item[i].status = "absent", CreateRows(b, S)
      PROVE  Kept
  <2>1. CASE j \in S
    <3>1. job[j].status = "absent"  BY <1>0, <1>1, <2>1 DEF Consistent
    <3>2. item'[j].status = "queued"  BY <1>1, <2>1 DEF CreateRows
    <3> QED  BY <3>1, <3>2 DEF LeaseKept, NoSuccess
  <2>2. CASE j \notin S
    <3>1. job'[j] = job[j] /\ item'[j] = item[j]  BY <1>1, <2>2 DEF CreateRows
    <3> QED  BY <3>1 DEF LeaseKept, NoSuccess
  <2> QED  BY <2>1, <2>2
<1>2. ASSUME UNCHANGED <<item, job>>  PROVE Kept
  BY <1>2 DEF LeaseKept, NoSuccess
<1>3. CASE UserStep
  <2>1. ASSUME NEW b \in Batches, NEW S \in SUBSET Items, SubmitBatch(b, S)  PROVE Kept
    BY <1>1, <2>1 DEF SubmitBatch
  <2>2. ASSUME NEW parent \in Items, NEW i \in Items, NEW b \in Batches, RetryItem(parent, b, i)
        PROVE  Kept
    <3>1. /\ {i} \in SUBSET Items /\ CreateRows(b, {i})
          /\ \A k \in {i} : item[k].status = "absent"
      BY <2>2 DEF RetryItem
    <3> QED  BY <1>1, <3>1
  <2>3. ASSUME NEW b \in Batches, CancelBatch(b)  PROVE Kept
    <3>1. Member(b, item) \in SUBSET Items /\ CancelRows(Member(b, item))
      BY <2>3 DEF CancelBatch, Member
    <3> QED  BY <1>0, <3>1, CancelRowsQuiet
  <2>4. CASE RequestProjectDeletion
    BY <1>0, <2>4, CancelRowsQuiet DEF RequestProjectDeletion
  <2>5. ASSUME NEW i \in Items, CancelItemRead(i)  PROVE Kept
    BY <1>2, <2>5 DEF CancelItemRead
  <2>6. UNCHANGED handler
    BY <1>3
    DEF UserStep, SubmitBatch, RetryItem, CancelBatch, RequestProjectDeletion, CancelItemRead
  <2> QED  BY <1>3, <2>1, <2>2, <2>3, <2>4, <2>5, <2>6 DEF UserStep
<1>4. CASE FinalizeProjectDeletion
  BY <1>2, <1>4 DEF FinalizeProjectDeletion
<1>5. ASSUME NEW i \in Items, CancelItemWrite(i)  PROVE Kept /\ UNCHANGED handler
  <2>1. CASE CancelRunningItem(i)
    <3>1. /\ item' = [item EXCEPT ![i].cancel = TRUE]
          /\ job' = job \/ job' = [job EXCEPT ![i].cancel = TRUE]
          /\ UNCHANGED handler
      BY <2>1 DEF CancelRunningItem, MarkRunningJob
    <3> QED  BY <1>0, <3>1 DEF LeaseKept, NoSuccess, TypeOK, ItemRow, JobRow
  <2>2. CASE CancelWaitingItem(i)
    <3>1. /\ item' = [item EXCEPT ![i].status = "canceled"]
          /\ job' = job \/ (job[i].status \in Waiting /\ job' = [job EXCEPT ![i].status = "canceled"])
          /\ UNCHANGED handler
      BY <2>2 DEF CancelWaitingItem
    <3> QED  BY <1>0, <3>1, StatusSets DEF LeaseKept, NoSuccess, TypeOK, ItemRow, JobRow
  <2>3. CASE CancelItemMisses(i)
    BY <1>2, <2>3 DEF CancelItemMisses
  <2> QED  BY <1>5, <2>1, <2>2, <2>3 DEF CancelItemWrite
<1>6. ASSUME NEW i \in Items, BackoffElapses(i)  PROVE Kept /\ UNCHANGED handler
  BY <1>0, <1>6 DEF BackoffElapses, LeaseKept, NoSuccess, TypeOK, JobRow
<1>7. ASSUME NEW i \in Items, RecoverExpired(i)  PROVE Kept /\ UNCHANGED handler
  <2>1. /\ job[i].lease = "expired" /\ UNCHANGED handler
        /\ CancelLeasedJob(i) \/ ScheduleRetry(i) \/ DeadLetterLeasedJob(i)
    BY <1>7 DEF RecoverExpired, Expired
  <2> QED  BY <1>0, <2>1, TakenQuiet DEF LeaseKept
<1>8. ASSUME NEW i \in Items, NEW a \in Attempts, NEW p \in {"cancel_seen", "lease_lost"},
             handler[i][a].pc = "handling", Goes(i, a, p)
      PROVE  Lives
  BY <1>0, <1>8 DEF Goes, TypeOK, Handler
<1>9. ASSUME NEW i \in Items, NEW a \in Attempts, Heartbeat(i, a)  PROVE Kept /\ Lives
  <2>1. /\ job' = [job EXCEPT ![i].lease = "live"] /\ UNCHANGED item
        /\ handler[i][a].pc = "handling"
        /\ Goes(i, a, "cancel_seen") \/ UNCHANGED handler
    BY <1>9 DEF Heartbeat
  <2>2. Kept  BY <1>0, <2>1 DEF LeaseKept, NoSuccess, TypeOK, JobRow
  <2> QED  BY <1>8, <2>1, <2>2
<1>10. ASSUME NEW i \in Items, NEW a \in Attempts, HeartbeatFails(i, a)  PROVE Kept /\ Lives
  BY <1>2, <1>8, <1>10 DEF HeartbeatFails
<1> QED
  BY <1>3, <1>4, <1>5, <1>6, <1>7, <1>9, <1>10 DEF QueueOnly, FinalizeProjectDeletion

-----------------------------------------------------------------------------
\* A step of an execution preserves the invariant of its item, and of every other.
LEMMA ExecuteRows ==
  ASSUME ExecInv, NEW i \in Items, NEW a \in Attempts, Execute(i, a), UNCHANGED vars,
         NEW j \in Items
  PROVE  RowsTell(j)' /\ (~stalled'[j] => OneExecution(j)')
<1>1. ExecTyped /\ Keeps(i, a) /\ Others(i, a) /\ RowsTell(j) /\ RowsTell(i)
  BY ExecuteKeeps DEF ExecInv, Keeps
<1>2. UNCHANGED <<item, job, handler, settlement>>  BY DEF vars
<1>3. CASE j # i
  <2>1. /\ record'[j] = record[j] /\ works'[j] = works[j] /\ asked'[j] = asked[j]
        /\ exec'[j] = exec[j] /\ stalled'[j] = stalled[j]
    BY <1>1, <1>3 DEF Others
  <2>2. RowsTell(j)'
    BY <1>1, <1>2, <2>1 DEF RowsTell, WorkTold
  <2>3. OneExecution(j) => OneExecution(j)'
    BY <1>2, <2>1 DEF OneExecution, NewestOnly, RecordSound, AttemptSound
  <2> QED  BY <2>1, <2>2, <2>3 DEF ExecInv
<1>4. CASE j = i
  <2>1. /\ works'[i] >= works[i] /\ works[i] \in Nat /\ works'[i] \in Nat /\ stalled'[i] = stalled[i]
        /\ exec[i][a].pc # "none" /\ \A b \in Attempts \ {a} : exec'[i][b] = exec[i][b]
    BY <1>1 DEF Keeps, Others, ExecTyped
  <2>2. WorkTold(i, a)' /\ (exec'[i][a].pc = "ok" => works'[i] > 0)
    BY <1>1 DEF Keeps, RowsTell
  <2>3. ASSUME NEW b \in Attempts
        PROVE  /\ WorkTold(i, b)'
               /\ exec'[i][b].pc = "ok" /\ item'[i].status \notin Terminal => works'[i] > 0
    <3>1. CASE b = a  BY <2>2, <3>1
    <3>2. CASE b # a
      <4>1. exec'[i][b] = exec[i][b] /\ ~exec[i][b].copy.work
        BY <1>1, <2>1, <3>2 DEF RowsTell, WorkTold
      <4>2. WorkTold(i, b)'  BY <2>2, <4>1 DEF WorkTold
      <4>3. exec'[i][b].pc = "ok" /\ item'[i].status \notin Terminal => works[i] > 0
        BY <1>1, <1>2, <4>1 DEF RowsTell
      <4> QED  BY <2>1, <4>2, <4>3
    <3> QED  BY <3>1, <3>2
  <2>4. settlement'[i].settled > 0 => works'[i] > 0
    BY <1>1, <1>2, <2>1 DEF RowsTell
  <2>5. RowsTell(i)'  BY <2>3, <2>4 DEF RowsTell
  <2>6. ASSUME ~stalled[i]  PROVE OneExecution(i)'
    <3>1. OneExecution(i) /\ LivesWithHandler /\ IInv  BY <2>6 DEF ExecInv
    <3>2. RecordSound(i)' /\ AttemptSound(i, a)'
      BY <1>1, <3>1 DEF Keeps, OneExecution, RowsTell
    <3>3. job[i].attempts = a /\ job[i].status = "running"
      BY <2>1, <3>1 DEF OneExecution, NewestOnly, LivesWithHandler
    <3>4. ASSUME NEW b \in Attempts, b # a  PROVE AttemptSound(i, b)'
      <4>1. exec'[i][b].pc = "none"
        BY <2>1, <3>1, <3>3, <3>4 DEF OneExecution, NewestOnly, LivesWithHandler
      <4> QED  BY <4>1 DEF AttemptSound, Underway
    <3>5. item'[i].status = "running"
      BY <1>2, <3>1, <3>3 DEF IInv, JobItemAgree
    <3>6. NewestOnly(i)'
      BY <1>2, <3>1 DEF OneExecution, NewestOnly
    <3> QED  BY <3>2, <3>4, <3>5, <3>6 DEF OneExecution
  <2> QED  BY <1>4, <2>1, <2>5, <2>6
<1> QED  BY <1>3, <1>4

\* A step that writes neither the record of item j nor its Works, and may start or end
\* an execution: no item succeeds without a Work, and the newest attempt stays the newest.
LEMMA QuietExec ==
  ASSUME ExecInv, [ExecNext]_allVars, NEW j \in Items,
         record'[j] = record[j], works'[j] = works[j], asked'[j] = asked[j],
         \A b \in Attempts :
            \/ exec'[j][b] = exec[j][b]
            \/ exec'[j][b].pc \in {"none", "start"} /\ ~exec'[j][b].copy.work,
         stalled'[j] = stalled[j] \/ stalled'[j],
         NoSuccess(j) \/ works[j] > 0,
         ~stalled'[j] /\ NewestOnly(j) => NewestOnly(j)'
  PROVE  RowsTell(j)' /\ (~stalled'[j] => OneExecution(j)')
<1>1. IInv /\ IInv' /\ [Next]_vars /\ ExecTyped /\ RowsTell(j) /\ works[j] \in Nat
  BY ExecIsNext, IInvStep DEF ExecInv, ExecTyped
<1>2. item[j].status \in Terminal => item'[j] = item[j] /\ settlement'[j] = settlement[j]
  BY <1>1, EndedStep
<1>3. settlement'[j].settled > 0 => works'[j] > 0
  <2>1. settlement'[j].settled > 0 => item'[j].status = "succeeded"
    BY <1>1 DEF IInv, HoldResolvedWithItem
  <2>2. CASE item[j].status = "succeeded"
    BY <1>1, <1>2, <2>2, StatusSets DEF RowsTell
  <2>3. CASE item[j].status # "succeeded"
    BY <2>1, <2>3 DEF NoSuccess
  <2> QED  BY <2>2, <2>3
<1>4. ASSUME NEW b \in Attempts
      PROVE  /\ WorkTold(j, b)'
             /\ exec'[j][b].pc = "ok" /\ item'[j].status \notin Terminal => works'[j] > 0
  <2>1. WorkTold(j, b)'  BY <1>1 DEF RowsTell, WorkTold
  <2>2. ASSUME exec'[j][b].pc = "ok", item'[j].status \notin Terminal  PROVE works'[j] > 0
    <3>1. item[j].status \notin Terminal  BY <1>2, <2>2
    <3>2. exec[j][b].pc = "ok"  BY <2>2
    <3> QED  BY <1>1, <3>1, <3>2 DEF RowsTell
  <2> QED  BY <2>1, <2>2
<1>5. RowsTell(j)'  BY <1>3, <1>4 DEF RowsTell
<1>6. ASSUME ~stalled'[j]  PROVE OneExecution(j)'
  <2>1. OneExecution(j) /\ ~stalled[j]  BY <1>6 DEF ExecInv
  <2>2. NewestOnly(j)'  BY <1>6, <2>1 DEF OneExecution
  <2>3. RecordSound(j)'  BY <2>1 DEF OneExecution, RecordSound
  <2>4. ASSUME NEW b \in Attempts  PROVE AttemptSound(j, b)'
    <3>1. CASE exec'[j][b] = exec[j][b]
      BY <2>1, <3>1 DEF OneExecution, AttemptSound
    <3>2. CASE exec'[j][b].pc \in {"none", "start"}
      BY <3>2 DEF AttemptSound, Underway
    <3> QED  BY <3>1, <3>2
  <2>5. item'[j].status = "succeeded" => works'[j] = 1
    BY <1>1, <2>1 DEF OneExecution, RecordSound, NoSuccess
  <2> QED  BY <2>2, <2>3, <2>4, <2>5 DEF OneExecution
<1> QED  BY <1>5, <1>6

\* An execution that ends, with what the queue does to its item.
LEMMA LeavesRows ==
  ASSUME ExecTyped, LivesWithHandler, TypeOK, NEW i \in Items, NEW a \in Attempts,
         Leaves(i, a), Ends(i, a)
  PROVE  /\ exec' \in [Items -> [Attempts -> ExecRow]] /\ LivesWithHandler'
         /\ \A j \in Items, b \in Attempts :
               IF j = i /\ b = a
               THEN /\ exec'[j][b].pc = "none" /\ ~exec'[j][b].copy.work
                    /\ handler'[j][b].pc = "none"
               ELSE exec'[j][b] = exec[j][b] /\ handler'[j][b] = handler[j][b]
<1>1. PICK e : e = Idle  OBVIOUS
<1>2. e \in ExecRow /\ e.pc = "none" /\ ~e.copy.work
  BY <1>1 DEF Idle, ExecRow, NoRecord, RecordRow, RecordStatus
<1>3. exec' = [exec EXCEPT ![i][a] = e]  BY <1>1 DEF Leaves
<1>4. PICK h : h = NoHandler  OBVIOUS
<1>5. handler' = [handler EXCEPT ![i][a] = h] /\ h.pc = "none"
  BY <1>4 DEF Ends, NoHandler
<1>6. exec' \in [Items -> [Attempts -> ExecRow]]
  BY <1>2, <1>3 DEF ExecTyped
<1>7. \A j \in Items, b \in Attempts :
         IF j = i /\ b = a
         THEN exec'[j][b] = e /\ handler'[j][b] = h
         ELSE exec'[j][b] = exec[j][b] /\ handler'[j][b] = handler[j][b]
  BY <1>3, <1>5 DEF ExecTyped, TypeOK
<1>8. LivesWithHandler'
  BY <1>2, <1>5, <1>7 DEF LivesWithHandler
<1> QED  BY <1>2, <1>5, <1>6, <1>7, <1>8

LEMMA EndsNewest ==
  ASSUME ExecInv, NEW i \in Items, NEW a \in Attempts, Leaves(i, a), Ends(i, a),
         \/ UNCHANGED job
         \/ Holds(i, a) /\ \A k \in Items \ {i} : job'[k] = job[k],
         NEW j \in Items, NewestOnly(j)
  PROVE  NewestOnly(j)'
<1>1. \A b \in Attempts : IF j = i /\ b = a THEN handler'[j][b].pc = "none"
                          ELSE handler'[j][b] = handler[j][b]
  BY LeavesRows DEF ExecInv, IInv
<1>2. CASE job'[j] = job[j]
  BY <1>1, <1>2 DEF NewestOnly
<1>3. CASE j = i /\ Holds(i, a)
  BY <1>1, <1>3 DEF NewestOnly, Holds
<1> QED  BY <1>2, <1>3

\* An execution that ends, and whose result does not touch the Works.
LEMMA EndKeeps ==
  ASSUME ExecInv, [ExecNext]_allVars, NEW i \in Items, NEW a \in Attempts,
         Leaves(i, a), Ends(i, a), UNCHANGED <<record, works, asked, stalled>>,
         \/ UNCHANGED job
         \/ Holds(i, a) /\ \A k \in Items \ {i} : job'[k] = job[k],
         \A j \in Items : NoSuccess(j) \/ works[j] > 0
  PROVE  ExecInv'
<1>1. IInv /\ TypeOK /\ ExecTyped /\ LivesWithHandler /\ IInv'
  BY ExecIsNext, IInvStep DEF ExecInv, IInv
<1>2. /\ exec' \in [Items -> [Attempts -> ExecRow]] /\ LivesWithHandler'
      /\ \A j \in Items, b \in Attempts :
               IF j = i /\ b = a
               THEN /\ exec'[j][b].pc = "none" /\ ~exec'[j][b].copy.work
                    /\ handler'[j][b].pc = "none"
               ELSE exec'[j][b] = exec[j][b] /\ handler'[j][b] = handler[j][b]
  BY <1>1, LeavesRows
<1>3. ExecTyped'  BY <1>1, <1>2 DEF ExecTyped
<1>4. ASSUME NEW j \in Items  PROVE RowsTell(j)' /\ (~stalled'[j] => OneExecution(j)')
  <2>1. NewestOnly(j) => NewestOnly(j)'  BY EndsNewest
  <2>2. \A b \in Attempts : \/ exec'[j][b] = exec[j][b]
                            \/ exec'[j][b].pc \in {"none", "start"} /\ ~exec'[j][b].copy.work
    BY <1>2
  <2> QED  BY <2>1, <2>2, QuietExec
<1> QED  BY <1>1, <1>2, <1>3, <1>4 DEF ExecInv

\* The result of a handler: accepted, refused or ignored.
LEMMA ReturnKeeps ==
  ASSUME ExecInv, [ExecNext]_allVars, NEW i \in Items, NEW a \in Attempts,
         \/ CompleteExecuted(i, a) \/ FailExecuted(i, a)
         \/ CancelExecuted(i, a) \/ GiveUpExecuted(i, a)
  PROVE  ExecInv'
<1>1. TypeOK /\ RowsTell(i)  BY DEF ExecInv, IInv
<1>2. CASE CompleteExecuted(i, a)
  <2>1. PICK actual \in 0..MaxActual : CompleteItem(i, a, actual)
    BY <1>2 DEF CompleteExecuted
  <2>2. /\ exec[i][a].pc = "ok" /\ Leaves(i, a) /\ UNCHANGED <<record, works, asked, stalled>>
        /\ Ends(i, a) /\ Holds(i, a) /\ item[i].status = "running"
    BY <1>2, <2>1 DEF CompleteExecuted, CompleteItem
  <2>3. /\ \A k \in Items \ {i} : job'[k] = job[k]
        /\ \A k \in Items \ {i} : item'[k] = item[k]
    BY <1>1, <2>1 DEF CompleteItem, Unleased, ItemBecomes, TypeOK
  <2>4. works[i] > 0
    BY <1>1, <2>2, StatusSets DEF RowsTell
  <2>5. \A j \in Items : NoSuccess(j) \/ works[j] > 0
    BY <2>3, <2>4 DEF NoSuccess
  <2> QED  BY <2>2, <2>3, <2>5, EndKeeps
<1>3. CASE GiveUpExecuted(i, a)
  <2>1. /\ Leaves(i, a) /\ UNCHANGED <<record, works, asked, stalled>>
        /\ Ends(i, a) /\ UNCHANGED <<item, job>>
    BY <1>3 DEF GiveUpExecuted, GiveUp
  <2>2. \A j \in Items : NoSuccess(j)  BY <2>1 DEF NoSuccess
  <2> QED  BY <2>1, <2>2, EndKeeps
<1>4. CASE FailExecuted(i, a) \/ CancelExecuted(i, a)
  <2>1. /\ Leaves(i, a) /\ UNCHANGED <<record, works, asked, stalled>>
        /\ Ends(i, a) /\ Holds(i, a)
        /\ CancelLeasedJob(i) \/ ScheduleRetry(i) \/ DeadLetterLeasedJob(i)
    BY <1>4 DEF FailExecuted, FailItem, CancelExecuted, CancelHandled
  <2>2. \A j \in Items : NoSuccess(j) /\ (j # i => job'[j] = job[j])
    BY <1>1, <2>1, TakenQuiet
  <2> QED  BY <2>1, <2>2, EndKeeps
<1> QED  BY <1>2, <1>3, <1>4

\* A late result: its Work is taken away with the item, which ends as canceled.
LEMMA DiscardKeeps ==
  ASSUME ExecInv, [ExecNext]_allVars, NEW i \in Items, NEW a \in Attempts, DiscardExecuted(i, a)
  PROVE  ExecInv'
<1>1. /\ IInv /\ TypeOK /\ ExecTyped /\ LivesWithHandler /\ IInv'
      /\ \A j \in Items : RowsTell(j) /\ (~stalled[j] => OneExecution(j))
  BY ExecIsNext, IInvStep DEF ExecInv, IInv
<1>2. /\ Leaves(i, a) /\ Ends(i, a) /\ Holds(i, a) /\ CancelLeasedJob(i) /\ DiscardWork(i)
      /\ UNCHANGED <<asked, stalled>>
  BY DEF DiscardExecuted, DiscardLateResult
<1>3. \A j \in Items : NoSuccess(j) /\ (j # i => job'[j] = job[j])
  BY <1>1, <1>2, TakenQuiet
<1>4. CASE UNCHANGED <<record, works>>
  BY <1>2, <1>3, <1>4, EndKeeps
<1>5. CASE /\ works[i] > 0 /\ record[i].work
           /\ record' = [record EXCEPT ![i].status = "failed", ![i].work = FALSE]
           /\ works' = [works EXCEPT ![i] = @ - 1]
  <2>1. /\ record' \in [Items -> RecordRow] /\ ~record'[i].work
        /\ record'[i].started = record[i].started /\ record'[i].dedup = record[i].dedup
        /\ \A j \in Items \ {i} : record'[j] = record[j]
    <3>1. PICK r : r = [record[i] EXCEPT !.status = "failed", !.work = FALSE]  OBVIOUS
    <3>2. record[i] \in RecordRow  BY <1>1 DEF ExecTyped
    <3>3. /\ r \in RecordRow /\ ~r.work /\ r.started = record[i].started
          /\ r.dedup = record[i].dedup
      BY <3>1, <3>2 DEF RecordRow, RecordStatus
    <3>4. record' = [record EXCEPT ![i] = r]  BY <1>5, <3>1
    <3> QED  BY <1>1, <3>3, <3>4 DEF ExecTyped
  <2>2. /\ works[i] \in Nat /\ works' \in [Items -> Nat] /\ works'[i] = works[i] - 1
        /\ \A j \in Items \ {i} : works'[j] = works[j]
    BY <1>1, <1>5 DEF ExecTyped
  <2>3. /\ exec' \in [Items -> [Attempts -> ExecRow]] /\ LivesWithHandler'
        /\ \A j \in Items, b \in Attempts :
               IF j = i /\ b = a
               THEN /\ exec'[j][b].pc = "none" /\ ~exec'[j][b].copy.work
                    /\ handler'[j][b].pc = "none"
               ELSE exec'[j][b] = exec[j][b] /\ handler'[j][b] = handler[j][b]
    BY <1>1, <1>2, LeavesRows
  <2>4. ExecTyped'  BY <1>1, <1>2, <2>1, <2>2, <2>3 DEF ExecTyped
  <2>5. ASSUME NEW j \in Items  PROVE NewestOnly(j) => NewestOnly(j)'
    BY <1>2, <1>3, EndsNewest
  <2>6. ASSUME NEW j \in Items, j # i  PROVE RowsTell(j)' /\ (~stalled'[j] => OneExecution(j)')
    <3>1. \A b \in Attempts : exec'[j][b] = exec[j][b]  BY <2>3, <2>6
    <3>2. record'[j] = record[j] /\ works'[j] = works[j] /\ asked'[j] = asked[j]
          /\ stalled'[j] = stalled[j]
      BY <1>2, <2>1, <2>2, <2>6
    <3> QED  BY <1>3, <2>5, <3>1, <3>2, QuietExec
  <2>7. item'[i].status = "canceled"
    <3>1. item[i].status = "running"  BY <1>1, <1>2 DEF Holds, IInv, JobItemAgree
    <3> QED  BY <1>1, <1>2, <3>1 DEF CancelLeasedJob, ItemBecomes, TypeOK, ItemRow
  <2>8. RowsTell(i)'
    <3>1. ~(settlement'[i].settled > 0)
      BY <1>1, <2>7 DEF IInv, HoldResolvedWithItem
    <3>2. \A b \in Attempts : ~exec'[i][b].copy.work
      BY <1>1, <2>3 DEF RowsTell, WorkTold
    <3> QED  BY <2>1, <2>7, <3>1, <3>2, StatusSets DEF RowsTell, WorkTold
  <2>9. ASSUME ~stalled'[i]  PROVE OneExecution(i)'
    <3>1. OneExecution(i)  BY <1>1, <1>2, <2>9
    <3>2. RecordSound(i)'
      BY <1>2, <1>5, <2>1, <2>2, <3>1 DEF OneExecution, RecordSound
    <3>3. ASSUME NEW b \in Attempts  PROVE exec'[i][b].pc = "none"
      BY <1>1, <1>2, <2>3, <3>1 DEF OneExecution, NewestOnly, Holds, LivesWithHandler
    <3>4. \A b \in Attempts : AttemptSound(i, b)'
      BY <3>3 DEF AttemptSound, Underway
    <3>5. NewestOnly(i)'  BY <2>5, <3>1 DEF OneExecution
    <3> QED  BY <2>7, <3>2, <3>4, <3>5 DEF OneExecution
  <2> QED  BY <1>1, <2>3, <2>4, <2>6, <2>8, <2>9 DEF ExecInv
<1> QED  BY <1>2, <1>4, <1>5 DEF DiscardWork

\* A claim starts the execution of the newest attempt.
LEMMA ClaimKeeps ==
  ASSUME ExecInv, [ExecNext]_allVars, NEW w \in Workers, NEW i \in Items, ClaimAndStart(w, i)
  PROVE  ExecInv'
<1>1. /\ IInv /\ TypeOK /\ ExecTyped /\ LivesWithHandler /\ IInv'
  BY ExecIsNext, IInvStep DEF ExecInv, IInv
<1> DEFINE n == job[i].attempts + 1
<1>2. /\ Claim(w, i) /\ UNCHANGED <<record, works, asked, stalled>>
      /\ job[i].status \in Waiting
  BY DEF ClaimAndStart, Claim
<1>3. n \in Attempts
  BY <1>1, <1>2, CountsAssumption DEF IInv, QueueNeverPoisoned, TypeOK, JobRow, Attempts
<1>4. /\ job'[i].status = "running" /\ job'[i].lease = "live" /\ job'[i].attempts = n
      /\ \A j \in Items \ {i} : job'[j] = job[j]
      /\ \A j \in Items : NoSuccess(j)
  <2>1. /\ job' = [job EXCEPT ![i].status = "running", ![i].owner = w, ![i].lease = "live",
                              ![i].attempts = @ + 1]
        /\ item' = [item EXCEPT ![i].status = "running"]
    BY <1>2 DEF Claim, ItemBecomes
  <2>2. job[i] \in JobRow  BY <1>1 DEF TypeOK
  <2>3. /\ job'[i].status = "running" /\ job'[i].lease = "live" /\ job'[i].attempts = n
        /\ \A j \in Items \ {i} : job'[j] = job[j]
    BY <1>1, <2>1, <2>2 DEF TypeOK, JobRow
  <2>4. \A j \in Items : NoSuccess(j)
    BY <1>1, <2>1 DEF TypeOK, ItemRow, NoSuccess
  <2> QED  BY <2>3, <2>4
<1>5. PICK e : e = [Idle EXCEPT !.pc = "start"]  OBVIOUS
<1>6. e \in ExecRow /\ e.pc = "start" /\ ~e.copy.work  BY <1>5, IdleWith
<1>7. exec' = [exec EXCEPT ![i][n] = e]  BY <1>4, <1>5 DEF ClaimAndStart
<1>8. PICK h : h = [pc |-> "handling", worker |-> w]  OBVIOUS
<1>9. handler' = [handler EXCEPT ![i][n] = h] /\ h.pc = "handling"
  BY <1>2, <1>8 DEF Claim
<1> HIDE DEF n
<1>10. \A j \in Items, b \in Attempts :
          IF j = i /\ b = n THEN exec'[j][b] = e /\ handler'[j][b] = h
          ELSE exec'[j][b] = exec[j][b] /\ handler'[j][b] = handler[j][b]
  BY <1>1, <1>3, <1>7, <1>9 DEF ExecTyped, TypeOK
<1>11. ExecTyped' /\ LivesWithHandler'
  <2>1. exec' \in [Items -> [Attempts -> ExecRow]]
    BY <1>1, <1>6, <1>7 DEF ExecTyped
  <2>2. ExecTyped'  BY <1>1, <1>2, <2>1 DEF ExecTyped
  <2>3. LivesWithHandler'
    BY <1>1, <1>6, <1>9, <1>10 DEF LivesWithHandler
  <2> QED  BY <2>2, <2>3
<1>12. ASSUME NEW j \in Items  PROVE RowsTell(j)' /\ (~stalled'[j] => OneExecution(j)')
  <2>1. NewestOnly(j) => NewestOnly(j)'
    <3>1. CASE j # i  BY <1>4, <1>10, <3>1 DEF NewestOnly
    <3>2. CASE j = i
      <4>1. job[i].status # "running"  BY <1>2, StatusSets
      <4> QED  BY <1>4, <1>10, <3>2, <4>1 DEF NewestOnly
    <3> QED  BY <3>1, <3>2
  <2>2. \A b \in Attempts : \/ exec'[j][b] = exec[j][b]
                            \/ exec'[j][b].pc \in {"none", "start"} /\ ~exec'[j][b].copy.work
    BY <1>6, <1>10
  <2> QED  BY <1>2, <1>4, <2>1, <2>2, QuietExec
<1> QED  BY <1>1, <1>11, <1>12 DEF ExecInv

\* A worker that stops takes its executions with it.
LEMMA StopKeeps ==
  ASSUME ExecInv, [ExecNext]_allVars, NEW w \in Workers, StopExecutions(w)
  PROVE  ExecInv'
<1>1. /\ IInv /\ TypeOK /\ ExecTyped /\ LivesWithHandler /\ IInv'
  BY ExecIsNext, IInvStep DEF ExecInv, IInv
<1>2. UNCHANGED <<record, works, asked, stalled>> /\ UNCHANGED <<item, job>>
  BY DEF StopExecutions, WorkerStops
<1>3. PICK e : e = Idle  OBVIOUS
<1>4. e \in ExecRow /\ e.pc = "none" /\ ~e.copy.work
  BY <1>3 DEF Idle, ExecRow, NoRecord, RecordRow, RecordStatus
<1>5. /\ exec' = [j \in Items |-> [b \in Attempts |->
                    IF <<j, b>> \in Active(w) THEN e ELSE exec[j][b]]]
      /\ handler' = [j \in Items |-> [b \in Attempts |->
                    IF <<j, b>> \in Active(w) THEN NoHandler ELSE handler[j][b]]]
  BY <1>3 DEF StopExecutions, WorkerStops
<1>6. ExecTyped' /\ LivesWithHandler'
  <2>1. exec' \in [Items -> [Attempts -> ExecRow]]
    BY <1>1, <1>4, <1>5 DEF ExecTyped
  <2>2. ExecTyped'  BY <1>1, <1>2, <2>1 DEF ExecTyped
  <2>3. LivesWithHandler'
    BY <1>1, <1>4, <1>5 DEF LivesWithHandler, NoHandler
  <2> QED  BY <2>2, <2>3
<1>7. ASSUME NEW j \in Items  PROVE RowsTell(j)' /\ (~stalled'[j] => OneExecution(j)')
  <2>1. NewestOnly(j) => NewestOnly(j)'
    BY <1>2, <1>5 DEF NewestOnly, NoHandler
  <2>2. \A b \in Attempts : \/ exec'[j][b] = exec[j][b]
                            \/ exec'[j][b].pc \in {"none", "start"} /\ ~exec'[j][b].copy.work
    BY <1>4, <1>5
  <2>3. NoSuccess(j)  BY <1>2 DEF NoSuccess
  <2> QED  BY <1>2, <2>1, <2>2, <2>3, QuietExec
<1> QED  BY <1>1, <1>6, <1>7 DEF ExecInv

LEMMA ExecInvStep == ExecInv /\ [ExecNext]_allVars => ExecInv'
<1> SUFFICES ASSUME ExecInv, [ExecNext]_allVars  PROVE ExecInv'
  OBVIOUS
<1>1. /\ IInv /\ TypeOK /\ ExecTyped /\ LivesWithHandler /\ IInv'
  BY ExecIsNext, IInvStep DEF ExecInv, IInv
<1>2. ASSUME ExecTyped', LivesWithHandler',
             \A j \in Items : RowsTell(j)' /\ (~stalled'[j] => OneExecution(j)')
      PROVE  ExecInv'
  BY <1>1, <1>2 DEF ExecInv
<1>3. CASE QueueOnly
  <2>1. UNCHANGED <<record, works, exec, asked, stalled>>
    BY <1>3 DEF QueueOnly, execVars
  <2>2. ExecTyped'  BY <1>1, <2>1 DEF ExecTyped
  <2>3. ASSUME NEW j \in Items
        PROVE  /\ LeaseKept(j) /\ NoSuccess(j)
               /\ \A a \in Attempts : handler'[j][a].pc = "none" <=> handler[j][a].pc = "none"
    BY <1>1, <1>3, QueueQuiet
  <2>4. LivesWithHandler'  BY <1>1, <2>1, <2>3 DEF LivesWithHandler
  <2>5. ASSUME NEW j \in Items  PROVE RowsTell(j)' /\ (~stalled'[j] => OneExecution(j)')
    <3>1. NewestOnly(j) => NewestOnly(j)'  BY <2>3 DEF NewestOnly, LeaseKept
    <3> QED  BY <2>1, <2>3, <3>1, QuietExec
  <2> QED  BY <1>2, <2>2, <2>4, <2>5
<1>4. ASSUME NEW i \in Items, LeaseRunsOut(i)  PROVE ExecInv'
  <2>1. /\ UNCHANGED <<record, works, exec, asked, item, handler>>
        /\ job' = [job EXCEPT ![i].lease = "expired"]
        /\ stalled' = [stalled EXCEPT ![i] = @ \/ \E a \in Attempts : handler[i][a].pc # "none"]
    BY <1>4 DEF LeaseRunsOut, LeaseExpires
  <2>2. PICK s : s = (stalled[i] \/ \E a \in Attempts : handler[i][a].pc # "none")  OBVIOUS
  <2>3. s \in BOOLEAN /\ stalled' = [stalled EXCEPT ![i] = s]
    BY <1>1, <2>1, <2>2 DEF ExecTyped
  <2>4. /\ stalled' \in [Items -> BOOLEAN] /\ stalled'[i] = s
        /\ \A j \in Items \ {i} : stalled'[j] = stalled[j] /\ job'[j] = job[j]
    BY <1>1, <2>1, <2>3 DEF ExecTyped, TypeOK
  <2>5. ExecTyped' /\ LivesWithHandler'
    BY <1>1, <2>1, <2>4 DEF ExecTyped, LivesWithHandler
  <2>6. ASSUME NEW j \in Items  PROVE RowsTell(j)' /\ (~stalled'[j] => OneExecution(j)')
    <3>1. stalled'[j] = stalled[j] \/ stalled'[j]
      <4>1. CASE j = i
        <5>1. stalled[i] \in BOOLEAN  BY <1>1 DEF ExecTyped
        <5>2. stalled'[i] = (stalled[i] \/ \E a \in Attempts : handler[i][a].pc # "none")
          BY <2>2, <2>4
        <5> QED  BY <4>1, <5>1, <5>2
      <4> QED  BY <2>4, <4>1
    <3>2. ~stalled'[j] /\ NewestOnly(j) => NewestOnly(j)'
      <4>1. CASE j = i
        <5>1. ~stalled'[i] => \A a \in Attempts : handler[i][a].pc = "none"
          BY <2>2, <2>4
        <5> QED  BY <2>1, <4>1, <5>1 DEF NewestOnly
      <4>2. CASE j # i  BY <2>1, <2>4, <4>2 DEF NewestOnly
      <4> QED  BY <4>1, <4>2
    <3>3. NoSuccess(j)  BY <2>1 DEF NoSuccess
    <3> QED  BY <2>1, <3>1, <3>2, <3>3, QuietExec
  <2> QED  BY <1>2, <2>5, <2>6
<1>5. ASSUME NEW i \in Items, NEW a \in Attempts, Execute(i, a), UNCHANGED vars  PROVE ExecInv'
  <2>1. Others(i, a)  BY <1>1, <1>5, ExecuteKeeps DEF Keeps
  <2>2. UNCHANGED handler  BY <1>5 DEF vars
  <2>3. LivesWithHandler'
    <3> SUFFICES ASSUME NEW j \in Items, NEW b \in Attempts
                 PROVE  exec'[j][b].pc = "none" <=> handler'[j][b].pc = "none"
      BY DEF LivesWithHandler
    <3>1. CASE j = i /\ b = a  BY <1>1, <2>1, <2>2, <3>1 DEF LivesWithHandler, Others
    <3>2. CASE ~(j = i /\ b = a)
      <4>1. exec'[j][b] = exec[j][b]  BY <2>1, <3>2 DEF Others
      <4> QED  BY <1>1, <2>2, <4>1 DEF LivesWithHandler
    <3> QED  BY <3>1, <3>2
  <2>4. \A j \in Items : RowsTell(j)' /\ (~stalled'[j] => OneExecution(j)')
    BY <1>5, ExecuteRows
  <2> QED  BY <1>2, <2>1, <2>3, <2>4 DEF Others
<1>6. CASE UNCHANGED allVars
  <2>1. UNCHANGED <<record, works, exec, asked, stalled, item, job, handler, settlement>>
    BY <1>6 DEF allVars, vars, execVars
  <2> QED
    BY <1>1, <2>1 DEF ExecInv, ExecTyped, LivesWithHandler, RowsTell, WorkTold, OneExecution,
                      NewestOnly, RecordSound, AttemptSound
<1> QED
  BY <1>3, <1>4, <1>5, <1>6, ClaimKeeps, StopKeeps, ReturnKeeps, DiscardKeeps DEF ExecNext

LEMMA ExecInvInit == ExecInit => ExecInv
<1> SUFFICES ASSUME ExecInit  PROVE ExecInv
  OBVIOUS
<1>1. IInv  BY InitIInv DEF ExecInit
<1>2. /\ \A i \in Items : /\ record[i] = NoRecord /\ works[i] = 0 /\ asked[i] = "never"
                          /\ ~stalled[i] /\ \A a \in Attempts : exec[i][a] = Idle
      /\ \A i \in Items, a \in Attempts : handler[i][a].pc = "none"
      /\ \A i \in Items : item[i].status = "absent" /\ settlement[i].settled = 0
  BY DEF ExecInit, Init, NoHandler, AbsentItem
<1>3. NoRecord \in RecordRow /\ Idle \in ExecRow
  BY DEF NoRecord, Idle, RecordRow, RecordStatus, ExecRow
<1>4. ExecTyped  BY <1>3 DEF ExecTyped, ExecInit
<1>5. LivesWithHandler  BY <1>2 DEF LivesWithHandler, Idle
<1>6. ASSUME NEW i \in Items  PROVE RowsTell(i) /\ OneExecution(i)
  <2>1. RowsTell(i)
    BY <1>2 DEF RowsTell, WorkTold, Idle, NoRecord
  <2>2. RecordSound(i) /\ NewestOnly(i)
    BY <1>2 DEF RecordSound, NewestOnly
  <2>3. \A a \in Attempts : AttemptSound(i, a)
    BY <1>2 DEF AttemptSound, Underway, Idle
  <2> QED  BY <1>2, <2>1, <2>2, <2>3 DEF OneExecution
<1> QED  BY <1>1, <1>4, <1>5, <1>6 DEF ExecInv

LEMMA ExecInductive == ExecSpec => []ExecInv
BY ExecInvInit, ExecInvStep, PTL DEF ExecSpec

\* Over all attempts of an item, their crashes, retries and recoveries: what succeeded
\* and was charged has a Work, and no item has two (Execute, bindCommerceGenerationRecord,
\* persistGenerationResult); an execution that outlived its lease may make a second Work,
\* but even then nothing is charged without one.
THEOREM WorksAlwaysMatch == ExecSpec => []WorksMatchItems
<1>1. ExecInv => WorksMatchItems
  <2> SUFFICES ASSUME ExecInv  PROVE WorksMatchItems
    OBVIOUS
  <2>1. /\ ExecTyped /\ LivesWithHandler
        /\ \A i \in Items : RowsTell(i) /\ (~stalled[i] => OneExecution(i))
    BY DEF ExecInv
  <2>2. ExecTypeOK
    BY <2>1 DEF ExecTyped, LivesWithHandler, ExecTypeOK, ExecRow, RecordRow, Underway
  <2>3. OneWorkPerItem
    BY <2>1 DEF OneWorkPerItem, OneExecution, RecordSound
  <2>4. SucceededItemHasItsWork
    BY <2>1 DEF SucceededItemHasItsWork, OneExecution, RecordSound
  <2>5. ChargedItemHasWork
    BY <2>1 DEF ChargedItemHasWork, RowsTell
  <2> QED  BY <2>2, <2>3, <2>4, <2>5 DEF WorksMatchItems
<1> QED  BY <1>1, ExecInductive, PTL

\* A provider is asked only with cause: not while it is unknown what an earlier request
\* without an idempotency key did, and not when the Work is there already (ReplaySafe,
\* commerceProviderFailureAllowsRetry), whichever attempt of the item asks.
THEOREM AlwaysAskedWithCause == ExecSpec => AskedWithCause
<1>1. ASSUME ExecInv, NEW i \in Items, NEW a \in Attempts, AskProvider(i, a), ~stalled[i]
      PROVE  asked[i] # "open" /\ works[i] = 0
  <2>1. exec[i][a].pc = "marked" /\ AttemptSound(i, a)
    BY <1>1 DEF AskProvider, ExecInv, OneExecution
  <2> QED  BY <2>1 DEF AttemptSound, Underway
<1>2. ExecInv => [\A i \in Items, a \in Attempts :
                     AskProvider(i, a) /\ ~stalled[i] => asked[i] # "open"]_allVars
  BY <1>1
<1>3. ExecInv => [\A i \in Items, a \in Attempts :
                     AskProvider(i, a) /\ ~stalled[i] => works[i] = 0]_allVars
  BY <1>1
<1>4. ExecSpec => NoBlindReplay
  BY <1>2, ExecInductive, PTL DEF NoBlindReplay
<1>5. ExecSpec => FinishedWorkIsReplayed
  BY <1>3, ExecInductive, PTL DEF FinishedWorkIsReplayed
<1> QED  BY <1>4, <1>5 DEF AskedWithCause
=============================================================================
