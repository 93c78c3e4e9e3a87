------------------------ MODULE CommerceObjectsProofs ------------------------
(***************************************************************************)
(* Proofs about CommerceObjects, for every number of objects, requests,    *)
(* cleanups and stops.                                                     *)
(***************************************************************************)
EXTENDS CommerceObjects, TLAPS

-----------------------------------------------------------------------------
(***************************************************************************)
(* Types.                                                                  *)
(***************************************************************************)

AtType ==
    [complete : [Uploads -> [Clients -> {"idle", "guarded", "valid", "done"}]],
     bind     : [Uploads -> {"idle", "found", "done"}],
     delete   : [Uploads -> {"idle", "leased", "removed"}],
     drop     : [Uploads -> {"idle", "alone", "removed"}],
     store    : [Results -> {"idle", "saved", "guarded", "done"}],
     clean    : [id : 0..MaxCleanups, stage : {"idle", "leased", "removed"}]]

\* A row whose attempts are used up is not tried again.
TriesLeft ==
    \A i \in 1..MaxCleanups :
        cleanup[i].st \in {"queued", "retrying"} => cleanup[i].tries < CleanupTries

Typed == ObjectsTypeOK /\ at \in AtType /\ TriesLeft

\* A cleanup that is under way holds the guard of the object of its row.
CleaningSound ==
    at.clean.stage # "idle" =>
        /\ at.clean.id \in 1..MaxCleanups
        /\ cleanup[at.clean.id].st \in {"queued", "retrying"}
        /\ Held(cleanup[at.clean.id].of, "cleanup")
        /\ at.clean.stage = "leased" /\ cleanup[at.clean.id].of \in Uploads \ dropped =>
               object[cleanup[at.clean.id].of] # "gone"

GuardRow == [state : {"none", "active", "deleting", "deleted"}, token : {"none", "user", "cleanup"}]

AssetRow == [st : {"none", "live", "deleted"}, temporary : BOOLEAN, objectDeleted : BOOLEAN]
Stores == {"absent", "good", "bad", "gone"}

\* What is written to the guards and to the store has its type.
LEMMA GuardTyped ==
  ASSUME Typed, NEW k \in Objects
  PROVE  /\ Ensured(k) \in [Objects -> GuardRow]
         /\ GuardDeleted(k) \in [Objects -> GuardRow]
         /\ Gone(k) \in [Objects -> Stores]
<1>1. ActiveGuard \in GuardRow /\ [state |-> "deleted", token |-> "none"] \in GuardRow
  BY DEF ActiveGuard, GuardRow
<1>2. guard \in [Objects -> GuardRow] /\ object \in [Objects -> Stores]
  BY DEF Typed, ObjectsTypeOK, GuardRow, Stores
<1> QED  BY <1>1, <1>2 DEF Ensured, GuardDeleted, Gone, Stores

\* A lease, and its return, leave guards.
LEMMA LeaseTyped ==
  ASSUME Typed, NEW k \in Objects, NEW holder \in {"user", "cleanup"}, NEW e,
         Lease(k, holder, e) \/ Release(k, holder)
  PROVE  guard' \in [Objects -> GuardRow]
<1>1. ActiveGuard \in GuardRow /\ [state |-> "deleting", token |-> holder] \in GuardRow
  BY DEF ActiveGuard, GuardRow
<1>2. guard \in [Objects -> GuardRow]
  BY DEF Typed, ObjectsTypeOK, GuardRow
<1> QED  BY <1>1, <1>2 DEF Lease, Release

\* A row that is scheduled is queued with all its attempts, at the place of a row that
\* was not used; the others stay as they are.
LEMMA ScheduleRows ==
  ASSUME Typed, NEW k \in Objects, NEW ofAsset \in BOOLEAN, Schedule(k, ofAsset)
  PROVE  /\ cleanup' \in [1..MaxCleanups -> CleanupRow \cup {NoCleanup}]
         /\ TriesLeft'
         /\ \A i \in 1..MaxCleanups :
               \/ cleanup'[i] = cleanup[i]
               \/ cleanup[i].st = "none" /\ cleanup'[i] = NewCleanup(k, ofAsset)
<1>1. PICK i \in FreeCleanups : cleanup' = [cleanup EXCEPT ![i] = NewCleanup(k, ofAsset)]
  BY DEF Schedule
<1>2. NewCleanup(k, ofAsset) \in CleanupRow /\ NewCleanup(k, ofAsset).tries < CleanupTries
  BY CleanupsAssumption DEF NewCleanup, CleanupRow
<1> QED  BY <1>1, <1>2 DEF FreeCleanups, Typed, ObjectsTypeOK, TriesLeft

\* The rows of the cleanups, and what the other variables are, by parts.
CleanupsTyped == cleanup \in [1..MaxCleanups -> CleanupRow \cup {NoCleanup}] /\ TriesLeft

\* The cleanup of an upload that came to nothing leaves guards and rows.
LEMMA OrphanTyped ==
  ASSUME Typed, NEW u \in Uploads, ScheduleOrphan(u)
  PROVE  guard' \in [Objects -> GuardRow] /\ CleanupsTyped'
<1>1. u \in Objects  BY DEF Objects
<1> QED
  BY <1>1, GuardTyped, ScheduleRows
  DEF ScheduleOrphan, CleanupsTyped, Typed, ObjectsTypeOK, TriesLeft

OthersTyped ==
    /\ reference \in [Uploads -> {"none", "live", "deleted"}]
    /\ asset \in [Uploads -> AssetRow]
    /\ uses \in [Objects -> SUBSET {"generation", "brand", "work"}]
    /\ dropped \subseteq Uploads /\ stops \in 0..MaxStops

\* The store that fails leaves the object, or takes it away and the history tells.
LEMMA FailsTyped ==
  ASSUME Typed, NEW k \in Objects, NEW holder, StoreFails(k, holder)
  PROVE  /\ Release(k, holder) /\ (object' = object \/ object' = Gone(k))
         /\ dropped \subseteq dropped' /\ dropped' \subseteq Uploads
         /\ object' = object \/ (k \in Uploads => k \in dropped')
BY DEF StoreFails, Typed, ObjectsTypeOK

\* Every move of a request is one between places.
LEMMA AtMoves ==
  ASSUME at \in AtType
  PROVE  /\ \A u \in Uploads, c \in Clients, p \in {"idle", "guarded", "valid", "done"} :
               [at EXCEPT !.complete[u][c] = p] \in AtType
         /\ \A u \in Uploads : /\ \A p \in {"found", "done"} : [at EXCEPT !.bind[u] = p] \in AtType
                               /\ \A p \in {"idle", "leased", "removed"} :
                                     [at EXCEPT !.delete[u] = p] \in AtType
                               /\ \A p \in {"idle", "alone", "removed"} :
                                     [at EXCEPT !.drop[u] = p] \in AtType
         /\ \A r \in Results, p \in {"saved", "guarded", "done"} :
               [at EXCEPT !.store[r] = p] \in AtType
         /\ \A i \in 0..MaxCleanups, p \in {"idle", "leased", "removed"} :
               [at EXCEPT !.clean = [id |-> i, stage |-> p]] \in AtType
         /\ [at EXCEPT !.clean.stage = "removed"] \in AtType
         /\ [at EXCEPT !.clean = Quiet.clean] \in AtType
<1>1. 0 \in 0..MaxCleanups /\ Quiet.clean = [id |-> 0, stage |-> "idle"]
  BY CleanupsAssumption DEF Quiet
<1>2. [at EXCEPT !.clean = Quiet.clean] \in AtType  BY <1>1 DEF AtType
<1>3. \A u \in Uploads, c \in Clients, p \in {"idle", "guarded", "valid", "done"} :
         [at EXCEPT !.complete[u][c] = p] \in AtType
  BY DEF AtType
<1>4. \A i \in 0..MaxCleanups, p \in {"idle", "leased", "removed"} :
         [at EXCEPT !.clean = [id |-> i, stage |-> p]] \in AtType
  BY DEF AtType
<1>5. [at EXCEPT !.clean.stage = "removed"] \in AtType  BY DEF AtType
<1>6. \A u \in Uploads : /\ \A p \in {"found", "done"} : [at EXCEPT !.bind[u] = p] \in AtType
                         /\ \A p \in {"idle", "leased", "removed"} :
                               [at EXCEPT !.delete[u] = p] \in AtType
                         /\ \A p \in {"idle", "alone", "removed"} :
                               [at EXCEPT !.drop[u] = p] \in AtType
  BY DEF AtType
<1>7. \A r \in Results, p \in {"saved", "guarded", "done"} :
         [at EXCEPT !.store[r] = p] \in AtType
  BY DEF AtType
<1> QED  BY <1>2, <1>3, <1>4, <1>5, <1>6, <1>7

\* The asset of an upload is made, deleted, or loses its object.
LEMMA AssetMoves ==
  ASSUME OthersTyped, NEW u \in Uploads
  PROVE  /\ \A t \in BOOLEAN : [asset EXCEPT ![u] = [NoAsset EXCEPT !.st = "live", !.temporary = t]]
                                 \in [Uploads -> AssetRow]
         /\ [asset EXCEPT ![u].st = "deleted"] \in [Uploads -> AssetRow]
         /\ [asset EXCEPT ![u].st = "deleted", ![u].objectDeleted = TRUE] \in [Uploads -> AssetRow]
         /\ [asset EXCEPT ![u].objectDeleted = TRUE] \in [Uploads -> AssetRow]
BY ZenonT(60) DEF OthersTyped, NoAsset, AssetRow

\* One step per action; a cleanup needs that its row is there (CleaningSound).
LEMMA TypedStep ==
  ASSUME Typed, CleaningSound, ObjectsNext
  PROVE  Typed'
<1> DEFINE ObjectTyped == object \in [Objects -> Stores]
           GuardsTyped == guard \in [Objects -> GuardRow]
           Goal == ObjectTyped' /\ GuardsTyped' /\ CleanupsTyped' /\ OthersTyped' /\ at' \in AtType
<1> SUFFICES Goal
  BY DEF Typed, ObjectsTypeOK, GuardRow, Stores, CleanupsTyped, OthersTyped, AssetRow
<1>0. /\ \A u \in Uploads : u \in Objects
      /\ \A r \in Results : r \in Objects
      /\ ObjectTyped /\ GuardsTyped /\ CleanupsTyped /\ OthersTyped /\ at \in AtType
  BY DEF Objects, Typed, ObjectsTypeOK, GuardRow, Stores, CleanupsTyped, OthersTyped, AssetRow
<1>00. ASSUME NEW i \in 1..MaxCleanups, cleanup[i].st # "none"
       PROVE  cleanup[i] \in CleanupRow /\ cleanup[i].of \in Objects
  BY <1>0, <1>00 DEF CleanupsTyped, NoCleanup, CleanupRow
<1>1. ASSUME NEW u \in Uploads, CreateUploadPolicy(u) PROVE Goal
  BY <1>0, <1>1, GuardTyped DEF CreateUploadPolicy, OthersTyped, CleanupsTyped, TriesLeft
<1>2. ASSUME NEW u \in Uploads, NEW q \in {"good", "bad"}, Upload(u, q) PROVE Goal
  BY <1>0, <1>2 DEF Upload, OthersTyped, CleanupsTyped, TriesLeft, tables, Stores
<1>3. ASSUME NEW u \in Uploads, NEW c \in Clients, BeginComplete(u, c) PROVE Goal
  BY <1>0, <1>3, AtMoves DEF BeginComplete, OthersTyped, CleanupsTyped, TriesLeft, tables
<1>4. ASSUME NEW u \in Uploads, NEW c \in Clients, ValidateUpload(u, c) PROVE Goal
  <2>1. ObjectTyped'  BY <1>0, <1>4 DEF ValidateUpload
  <2>2. GuardsTyped'  BY <1>0, <1>4, OrphanTyped DEF ValidateUpload
  <2>3. CleanupsTyped'  BY <1>0, <1>4, OrphanTyped DEF ValidateUpload, CleanupsTyped, TriesLeft
  <2>4. OthersTyped'  BY <1>0, <1>4 DEF ValidateUpload, OthersTyped
  <2>5. at' \in AtType
    <3>1. CASE object[u] = "good"
      <4>1. at' = [at EXCEPT !.complete[u][c] = "valid"]  BY <1>4, <3>1 DEF ValidateUpload
      <4> QED  BY <1>0, <4>1, AtMoves
    <3>2. CASE object[u] # "good"
      <4>1. at' = [at EXCEPT !.complete[u][c] = "done"]  BY <1>4, <3>2 DEF ValidateUpload
      <4> QED  BY <1>0, <4>1, AtMoves
    <3> QED  BY <3>1, <3>2
  <2> QED  BY <2>1, <2>2, <2>3, <2>4, <2>5
<1>5. ASSUME NEW u \in Uploads, NEW c \in Clients, FinishComplete(u, c) PROVE Goal
  <2>1. ObjectTyped'  BY <1>0, <1>5 DEF FinishComplete
  <2>2. GuardsTyped'  BY <1>0, <1>5, OrphanTyped DEF FinishComplete
  <2>3. CleanupsTyped'  BY <1>0, <1>5, OrphanTyped DEF FinishComplete, CleanupsTyped, TriesLeft
  <2>4. OthersTyped'
    <3>1. /\ reference' \in {reference, [reference EXCEPT ![u] = "live"]}
          /\ \/ asset' = asset
             \/ \E t \in BOOLEAN :
                   asset' = [asset EXCEPT ![u] = [NoAsset EXCEPT !.st = "live", !.temporary = t]]
          /\ UNCHANGED <<uses, dropped, stops>>
      BY <1>5 DEF FinishComplete
    <3>2. asset' \in [Uploads -> AssetRow]
      <4>1. CASE asset' = asset  BY <1>0, <4>1 DEF OthersTyped
      <4>2. ASSUME NEW t \in BOOLEAN,
                   asset' = [asset EXCEPT ![u] = [NoAsset EXCEPT !.st = "live", !.temporary = t]]
            PROVE  asset' \in [Uploads -> AssetRow]
        <5>1. [NoAsset EXCEPT !.st = "live", !.temporary = t] \in AssetRow
          BY DEF NoAsset, AssetRow
        <5> QED  BY <1>0, <4>2, <5>1 DEF OthersTyped
      <4> QED  BY <3>1, <4>1, <4>2
    <3> QED  BY <1>0, <3>1, <3>2 DEF OthersTyped
  <2>5. at' \in AtType  BY <1>0, <1>5, AtMoves DEF FinishComplete
  <2> QED  BY <2>1, <2>2, <2>3, <2>4, <2>5
<1>6. ASSUME NEW u \in Uploads, LookUp(u) PROVE Goal
  BY <1>0, <1>6, AtMoves DEF LookUp, OthersTyped, CleanupsTyped, TriesLeft, tables
<1>7. ASSUME NEW u \in Uploads, NEW by \in {"generation", "brand"}, BindObject(u, by) PROVE Goal
  <2>1. ObjectTyped'  BY <1>0, <1>7 DEF BindObject
  <2>2. GuardsTyped'  BY <1>0, <1>7 DEF BindObject
  <2>3. CleanupsTyped'  BY <1>0, <1>7 DEF BindObject, CleanupsTyped, TriesLeft
  <2>4. OthersTyped'
    <3>1. uses' \in {uses, [uses EXCEPT ![u] = @ \union {by}]}
      BY <1>7 DEF BindObject
    <3>2. uses' \in [Objects -> SUBSET {"generation", "brand", "work"}]
      BY <1>0, <3>1 DEF OthersTyped
    <3> QED  BY <1>0, <1>7, <3>2 DEF BindObject, OthersTyped
  <2>5. at' \in AtType  BY <1>0, <1>7, AtMoves DEF BindObject
  <2> QED  BY <2>1, <2>2, <2>3, <2>4, <2>5
<1>8. ASSUME NEW u \in Uploads, UnbindObject(u) PROVE Goal
  BY <1>0, <1>8 DEF UnbindObject, OthersTyped, CleanupsTyped, TriesLeft
<1>9. ASSUME NEW u \in Uploads, BeginDelete(u) PROVE Goal
  <2>1. ObjectTyped'  BY <1>0, <1>9 DEF BeginDelete
  <2>2. GuardsTyped'  BY <1>0, <1>9, LeaseTyped DEF BeginDelete
  <2>3. CleanupsTyped'  BY <1>0, <1>9 DEF BeginDelete, CleanupsTyped, TriesLeft
  <2>4. OthersTyped'  BY ZenonT(60), <1>0, <1>9, AssetMoves DEF BeginDelete, OthersTyped
  <2>5. at' \in AtType  BY <1>0, <1>9, AtMoves DEF BeginDelete
  <2> QED  BY <2>1, <2>2, <2>3, <2>4, <2>5
<1>10. ASSUME NEW u \in Uploads, DeleteObject(u) PROVE Goal
  <2>0. /\ (object' = object \/ object' = Gone(u)) /\ (guard' = guard \/ Release(u, "user"))
        /\ dropped' \subseteq Uploads /\ UNCHANGED <<reference, asset, uses, cleanup, stops>>
        /\ \E p \in {"removed", "idle"} : at' = [at EXCEPT !.delete[u] = p]
    BY <1>0, <1>10, FailsTyped DEF DeleteObject, OthersTyped
  <2>1. ObjectTyped'  BY <1>0, <2>0, GuardTyped
  <2>2. GuardsTyped'  BY <1>0, <2>0, GuardTyped, LeaseTyped
  <2>3. CleanupsTyped'  BY <1>0, <2>0 DEF CleanupsTyped, TriesLeft
  <2>4. OthersTyped'  BY <1>0, <2>0 DEF OthersTyped
  <2>5. at' \in AtType  BY <1>0, <2>0, AtMoves
  <2> QED  BY <2>1, <2>2, <2>3, <2>4, <2>5
<1>11. ASSUME NEW u \in Uploads, FinishDelete(u) PROVE Goal
  <2>1. ObjectTyped'  BY <1>0, <1>11, GuardTyped DEF FinishDelete
  <2>2. GuardsTyped'  BY <1>0, <1>11, GuardTyped DEF FinishDelete
  <2>3. CleanupsTyped'  BY <1>0, <1>11 DEF FinishDelete, CleanupsTyped, TriesLeft
  <2>4. OthersTyped'  BY <1>0, <1>11, AssetMoves DEF FinishDelete, OthersTyped
  <2>5. at' \in AtType  BY <1>0, <1>11, AtMoves DEF FinishDelete
  <2> QED  BY <2>1, <2>2, <2>3, <2>4, <2>5
<1>12. ASSUME NEW u \in Uploads, BeginDrop(u) PROVE Goal
  <2>1. ObjectTyped'  BY <1>0, <1>12 DEF BeginDrop
  <2>2. GuardsTyped'  BY <1>0, <1>12 DEF BeginDrop
  <2>3. CleanupsTyped'  BY <1>0, <1>12 DEF BeginDrop, CleanupsTyped, TriesLeft
  <2>4. OthersTyped'  BY <1>0, <1>12 DEF BeginDrop, OthersTyped
  <2>5. at' \in AtType  BY <1>0, <1>12, AtMoves DEF BeginDrop
  <2> QED  BY <2>1, <2>2, <2>3, <2>4, <2>5
<1>13. ASSUME NEW u \in Uploads, DropObject(u) PROVE Goal
  BY <1>0, <1>13, GuardTyped, AtMoves
  DEF DropObject, OthersTyped, CleanupsTyped, TriesLeft, tables, Stores
<1>14. ASSUME NEW u \in Uploads, FinishDrop(u) PROVE Goal
  BY <1>0, <1>14, AtMoves DEF FinishDrop, OthersTyped, CleanupsTyped, TriesLeft
<1>15. ASSUME NEW u \in Uploads, QueueExpired(u) PROVE Goal
  BY <1>0, <1>15, ScheduleRows DEF QueueExpired, OthersTyped, CleanupsTyped, TriesLeft
<1>16. ASSUME NEW u \in Uploads, DeleteProjectAsset(u) PROVE Goal
  <2>1. ObjectTyped'  BY <1>0, <1>16 DEF DeleteProjectAsset
  <2>2. GuardsTyped'  BY <1>0, <1>16 DEF DeleteProjectAsset
  <2>3. CleanupsTyped'
    BY <1>0, <1>16, ScheduleRows DEF DeleteProjectAsset, CleanupsTyped, TriesLeft
  <2>4. OthersTyped'  BY <1>0, <1>16, AssetMoves DEF DeleteProjectAsset, OthersTyped
  <2>5. at' \in AtType  BY <1>0, <1>16 DEF DeleteProjectAsset
  <2> QED  BY <2>1, <2>2, <2>3, <2>4, <2>5
<1>17. ASSUME NEW r \in Results, SaveResult(r) PROVE Goal
  BY <1>0, <1>17, AtMoves DEF SaveResult, OthersTyped, CleanupsTyped, TriesLeft, tables, Stores
<1>18. ASSUME NEW r \in Results, GuardResult(r) PROVE Goal
  BY <1>0, <1>18, GuardTyped, AtMoves DEF GuardResult, OthersTyped, CleanupsTyped, TriesLeft
<1>19. ASSUME NEW r \in Results, PersistWork(r) PROVE Goal
  BY <1>0, <1>19, AtMoves DEF PersistWork, OthersTyped, CleanupsTyped, TriesLeft
<1>20. ASSUME NEW r \in Results, CancelResult(r) PROVE Goal
  <2>1. ObjectTyped'  BY <1>0, <1>20, GuardTyped DEF CancelResult
  <2>2. GuardsTyped'  BY <1>0, <1>20, GuardTyped DEF CancelResult
  <2>3. CleanupsTyped'  BY <1>0, <1>20, ScheduleRows DEF CancelResult, CleanupsTyped, TriesLeft
  <2>4. OthersTyped'  BY <1>0, <1>20 DEF CancelResult, OthersTyped
  <2>5. at' \in AtType  BY <1>0, <1>20, AtMoves DEF CancelResult
  <2> QED  BY <2>1, <2>2, <2>3, <2>4, <2>5
<1>21. ASSUME NEW r \in Results, DropLateWork(r) PROVE Goal
  BY <1>0, <1>21, ScheduleRows DEF DropLateWork, OthersTyped, CleanupsTyped, TriesLeft
<1>22. ASSUME NEW i \in 1..MaxCleanups, BeginCleanup(i) PROVE Goal
  <2> DEFINE k == cleanup[i].of
  <2>1. k \in Objects /\ cleanup[i] \in CleanupRow /\ cleanup[i].st \in {"queued", "retrying"}
    BY <1>00, <1>22 DEF BeginCleanup
  <2>2. /\ \/ guard' = Ensured(k) /\ cleanup' = [cleanup EXCEPT ![i].st = "retrying"] /\ at' = at
           \/ /\ Lease(k, "cleanup", cleanup[i].asset) /\ cleanup' = cleanup
              /\ at' = [at EXCEPT !.clean = [id |-> i, stage |-> "leased"]]
        /\ UNCHANGED <<object, reference, asset, uses, dropped, stops>>
    BY <1>22 DEF BeginCleanup
  <2>3. CleanupsTyped'
    <3>1. [cleanup[i] EXCEPT !.st = "retrying"] \in CleanupRow
      BY <2>1 DEF CleanupRow
    <3> QED  BY ZenonT(60), <1>0, <2>1, <2>2, <3>1 DEF CleanupsTyped, TriesLeft, CleanupRow
  <2>4. GuardsTyped'  BY <1>0, <2>1, <2>2, GuardTyped, LeaseTyped
  <2>5. at' \in AtType
    <3>1. i \in 0..MaxCleanups  OBVIOUS
    <3> QED  BY <1>0, <2>2, <3>1 DEF AtType
  <2> QED  BY <1>0, <2>2, <2>3, <2>4, <2>5 DEF OthersTyped
<1>23. ASSUME CleanObject PROVE Goal
  <2> DEFINE i == at.clean.id
             k == cleanup[i].of
  <2>1. /\ i \in 1..MaxCleanups /\ k \in Objects /\ cleanup[i] \in CleanupRow
        /\ cleanup[i].st \in {"queued", "retrying"}
    BY <1>00, <1>23 DEF CleanObject, CleaningSound
  <2>2. /\ \/ /\ object' = Gone(k) /\ at' = [at EXCEPT !.clean.stage = "removed"]
              /\ UNCHANGED <<guard, cleanup, dropped>>
           \/ /\ StoreFails(k, "cleanup") /\ at' = [at EXCEPT !.clean = Quiet.clean]
              /\ cleanup' = [cleanup EXCEPT ![i].tries = @ + 1,
                                ![i].st = IF AttemptsUsedUp(i) THEN "failed" ELSE "retrying"]
        /\ UNCHANGED <<reference, asset, uses, stops>>
    BY <1>23 DEF CleanObject
  <2>7. /\ (object' = object \/ object' = Gone(k)) /\ (guard' = guard \/ Release(k, "cleanup"))
        /\ dropped' \subseteq Uploads
    BY <1>0, <2>1, <2>2, FailsTyped DEF OthersTyped
  <2>3. CleanupsTyped'
    <3> DEFINE st == IF AttemptsUsedUp(i) THEN "failed" ELSE "retrying"
    <3>1. /\ cleanup[i].tries \in 0..CleanupTries /\ cleanup[i].tries < CleanupTries
          /\ CleanupTries \in Nat
      BY <1>0, <2>1, CleanupsAssumption DEF CleanupsTyped, TriesLeft, CleanupRow
    <3>2. cleanup[i].tries + 1 \in 0..CleanupTries  BY <3>1
    <3>3. st \in {"failed", "retrying"} /\ (st = "retrying" => cleanup[i].tries + 1 < CleanupTries)
      BY <3>1 DEF AttemptsUsedUp
    <3> HIDE DEF st
    <3>4. [cleanup[i] EXCEPT !.tries = @ + 1, !.st = st] \in CleanupRow
      BY <2>1, <3>2, <3>3 DEF CleanupRow
    <3>5. [cleanup EXCEPT ![i].tries = @ + 1, ![i].st = st]
            = [cleanup EXCEPT ![i] = [cleanup[i] EXCEPT !.tries = @ + 1, !.st = st]]
      BY <1>0, <2>1 DEF CleanupsTyped
    <3>6. CASE cleanup' = cleanup  BY <1>0, <3>6 DEF CleanupsTyped, TriesLeft
    <3>7. CASE cleanup' = [cleanup EXCEPT ![i].tries = @ + 1, ![i].st = st]
      BY <1>0, <2>1, <3>3, <3>4, <3>5, <3>7 DEF CleanupsTyped, TriesLeft, CleanupRow
    <3> QED  BY <2>2, <3>6, <3>7 DEF st
  <2>4. GuardsTyped'  BY <1>0, <2>1, <2>7, LeaseTyped
  <2>5. at' \in AtType  BY <1>0, <2>2, AtMoves
  <2>6. ObjectTyped'  BY <1>0, <2>1, <2>7, GuardTyped
  <2> QED  BY <1>0, <2>2, <2>3, <2>4, <2>5, <2>6, <2>7 DEF OthersTyped
<1>24. ASSUME FinishCleanup PROVE Goal
  <2> DEFINE i == at.clean.id
             k == cleanup[i].of
  <2>1. i \in 1..MaxCleanups /\ k \in Objects /\ cleanup[i] \in CleanupRow
    BY <1>00, <1>24 DEF FinishCleanup, CleaningSound
  <2>2. /\ at' = [at EXCEPT !.clean = Quiet.clean]
        /\ guard' \in {guard, GuardDeleted(k)}
        /\ cleanup' \in {cleanup, [cleanup EXCEPT ![i].st = "succeeded"]}
        /\ asset' \in {asset, [asset EXCEPT ![k].objectDeleted = TRUE]}
        /\ UNCHANGED <<object, reference, uses, dropped, stops>>
    BY <1>24 DEF FinishCleanup
  <2>3. CleanupsTyped'
    <3>1. [cleanup[i] EXCEPT !.st = "succeeded"] \in CleanupRow
      BY <2>1 DEF CleanupRow
    <3> QED  BY ZenonT(60), <1>0, <2>1, <2>2, <3>1 DEF CleanupsTyped, TriesLeft, CleanupRow
  <2>4. GuardsTyped'  BY <1>0, <2>1, <2>2, GuardTyped
  <2>5. at' \in AtType  BY <1>0, <2>2, AtMoves
  <2>6. asset' \in [Uploads -> AssetRow]
    <3>1. CASE k \in Uploads
      <4>1. asset \in [Uploads -> AssetRow] /\ asset[k] \in AssetRow
        BY <1>0, <3>1 DEF OthersTyped
      <4>2. [asset[k] EXCEPT !.objectDeleted = TRUE] \in AssetRow  BY <4>1 DEF AssetRow
      <4> QED  BY <2>2, <4>1, <4>2
    <3>2. CASE k \notin Uploads  BY <1>0, <2>2, <3>2 DEF OthersTyped
    <3> QED  BY <3>1, <3>2
  <2> QED  BY <1>0, <2>2, <2>3, <2>4, <2>5, <2>6 DEF OthersTyped
<1>25. ASSUME StopObjects PROVE Goal
  <2>1. at' \in AtType
    <3>1. Quiet \in AtType
      BY CleanupsAssumption DEF Quiet, AtType
    <3>2. at' = [Quiet EXCEPT !.store = [r \in Results |-> IF at.store[r] = "idle" THEN "idle" ELSE "done"]]
      BY <1>25 DEF StopObjects
    <3>3. [r \in Results |-> IF at.store[r] = "idle" THEN "idle" ELSE "done"]
             \in [Results -> {"idle", "saved", "guarded", "done"}]
      OBVIOUS
    <3> QED  BY <3>1, <3>2, <3>3 DEF AtType
  <2>2. stops' \in 0..MaxStops
    BY <1>0, <1>25, CleanupsAssumption DEF StopObjects, OthersTyped
  <2> QED
    BY <1>0, <1>25, <2>1, <2>2 DEF StopObjects, tables, OthersTyped, CleanupsTyped, TriesLeft
<1> QED
  BY <1>1, <1>2, <1>3, <1>4, <1>5, <1>6, <1>7, <1>8, <1>9, <1>10, <1>11, <1>12, <1>13, <1>14,
     <1>15, <1>16, <1>17, <1>18, <1>19, <1>20, <1>21, <1>22, <1>23, <1>24, <1>25
  DEF ObjectsNext

-----------------------------------------------------------------------------
(***************************************************************************)
(* The guard decides.                                                      *)
(***************************************************************************)

\* Nothing refers to an object whose guard is not active.
UsesActive == \A k \in Objects : uses[k] # {} => guard[k].state = "active"

\* Somebody has seen the uploaded object, or relies on one who has.
Known(u) ==
    \/ reference[u] = "live" \/ HasAsset(u) \/ uses[u] # {}
    \/ at.bind[u] = "found" \/ \E c \in Clients : at.complete[u][c] = "valid"

UploadSound(u) ==
    /\ Known(u) => object[u] \in {"good", "gone"}
    /\ object[u] = "gone" /\ u \notin dropped => guard[u].state \in {"deleting", "deleted"}
    /\ at.delete[u] # "idle" => Held(u, "user")
    /\ at.delete[u] = "leased" /\ u \notin dropped => object[u] # "gone"

ResultSound(r) ==
    /\ at.store[r] # "done" => uses[r] = {}
    /\ at.store[r] \in {"saved", "guarded"} \/ uses[r] # {} => object[r] = "good"
    /\ \A i \in 1..MaxCleanups :
          cleanup[i].st # "none" /\ cleanup[i].of = r => at.store[r] = "done"

OInv ==
    /\ Typed /\ CleaningSound /\ UsesActive
    /\ \A u \in Uploads : UploadSound(u)
    /\ \A r \in Results : ResultSound(r)

\* What a step that needs no lease does to the guards.
GuardsKept ==
    \A k \in Objects : \/ guard'[k] = guard[k]
                       \/ guard[k].state = "none" /\ guard'[k] = ActiveGuard

\* A guard that is made is active; one that is there stays.
LEMMA EnsuredRows ==
  ASSUME Typed, NEW k \in Objects, guard' = Ensured(k)
  PROVE  GuardsKept /\ (guard[k].state \in {"none", "active"} => guard'[k].state = "active")
BY DEF Typed, ObjectsTypeOK, Ensured, GuardsKept, ActiveGuard

\* The cleanup of an upload takes an unused row, and no lease.
LEMMA OrphanRows ==
  ASSUME Typed, NEW u \in Uploads, ScheduleOrphan(u)
  PROVE  /\ GuardsKept
         /\ \A i \in 1..MaxCleanups :
               \/ cleanup'[i] = cleanup[i]
               \/ cleanup[i].st = "none" /\ cleanup'[i] = NewCleanup(u, FALSE)
<1>1. u \in Objects  BY DEF Objects
<1> QED  BY <1>1, EnsuredRows, ScheduleRows DEF ScheduleOrphan

\* A lease is taken of an object that nothing refers to, and of no other.
LEMMA LeaseRows ==
  ASSUME Typed, NEW k \in Objects, NEW holder, NEW e, Lease(k, holder, e)
  PROVE  /\ uses[k] = {} /\ Held(k, holder)'
         /\ \A j \in Objects \ {k} : guard'[j] = guard[j]
BY DEF Typed, ObjectsTypeOK, Lease, Referred, Held

\* The holder of a lease gives the guard back as it was.
LEMMA ReleaseRows ==
  ASSUME Typed, NEW k \in Objects, NEW holder, Release(k, holder), Held(k, holder)
  PROVE  /\ guard'[k] = ActiveGuard
         /\ \A j \in Objects \ {k} : guard'[j] = guard[j]
BY DEF Typed, ObjectsTypeOK, Release, Held

\* One guard is marked deleted.
LEMMA DeletedRows ==
  ASSUME Typed, NEW k \in Objects, guard' = GuardDeleted(k)
  PROVE  /\ guard'[k] = [state |-> "deleted", token |-> "none"]
         /\ \A j \in Objects \ {k} : guard'[j] = guard[j]
BY DEF Typed, ObjectsTypeOK, GuardDeleted

\* One object is taken from the store.
LEMMA GoneRows ==
  ASSUME Typed, NEW k \in Objects, object' = Gone(k)
  PROVE  /\ object'[k] \in {"absent", "gone"} /\ (object[k] # "absent" => object'[k] = "gone")
         /\ \A j \in Objects \ {k} : object'[j] = object[j]
BY DEF Typed, ObjectsTypeOK, Gone

\* A row that is in use is for an object.
LEMMA RowOfCleanup ==
  ASSUME Typed, NEW i \in 1..MaxCleanups, cleanup[i].st # "none"
  PROVE  cleanup[i].of \in Objects
BY DEF Typed, ObjectsTypeOK, NoCleanup, CleanupRow

\* The steps of a cleanup, with the object k it is for.
LEMMA BeginCleanupRows ==
  ASSUME OInv, NEW i \in 1..MaxCleanups, BeginCleanup(i), NEW k, k = cleanup[i].of
  PROVE  /\ k \in Objects /\ cleanup[i].st \in {"queued", "retrying"}
         /\ UNCHANGED <<object, reference, asset, uses, dropped>>
         /\ \/ /\ GuardsKept /\ at' = at
               /\ \A j \in 1..MaxCleanups : /\ cleanup'[j].of = cleanup[j].of
                                            /\ cleanup[j].st = "none" => cleanup'[j].st = "none"
            \/ /\ uses[k] = {} /\ guard[k].state \in {"none", "active"}
               /\ Held(k, "cleanup")' /\ \A j \in Objects \ {k} : guard'[j] = guard[j]
               /\ cleanup' = cleanup /\ at' = [at EXCEPT !.clean = [id |-> i, stage |-> "leased"]]
<1>1. cleanup[i].st \in {"queued", "retrying"} /\ Typed  BY DEF BeginCleanup, OInv
<1>2. k \in Objects  BY <1>1, RowOfCleanup
<1>3. /\ cleanup \in [1..MaxCleanups -> CleanupRow \cup {NoCleanup}]
      /\ cleanup[i] \in CleanupRow
  BY <1>1 DEF Typed, ObjectsTypeOK, NoCleanup
<1>4. CASE guard' = Ensured(k) /\ cleanup' = [cleanup EXCEPT ![i].st = "retrying"] /\ at' = at
  <2>1. \A j \in 1..MaxCleanups : /\ cleanup'[j].of = cleanup[j].of
                                  /\ cleanup[j].st = "none" => cleanup'[j].st = "none"
    BY <1>1, <1>3, <1>4 DEF CleanupRow
  <2> QED  BY <1>1, <1>2, <1>4, <2>1, EnsuredRows DEF BeginCleanup
<1>5. CASE /\ Ensures(k) /\ Lease(k, "cleanup", cleanup[i].asset) /\ cleanup' = cleanup
           /\ at' = [at EXCEPT !.clean = [id |-> i, stage |-> "leased"]]
  BY <1>1, <1>2, <1>5, LeaseRows DEF BeginCleanup, Ensures
<1> QED  BY <1>4, <1>5 DEF BeginCleanup

\* It deletes the object it holds the guard of, or gives the guard back; the object may
\* be gone all the same.
LEMMA CleanObjectRows ==
  ASSUME OInv, CleanObject, NEW k, k = cleanup[at.clean.id].of
  PROVE  /\ k \in Objects /\ Held(k, "cleanup") /\ at.clean.id \in 1..MaxCleanups
         /\ cleanup[at.clean.id].st \in {"queued", "retrying"}
         /\ k \in Uploads \ dropped => object[k] # "gone"
         /\ UNCHANGED <<reference, asset, uses>> /\ dropped \subseteq dropped'
         /\ \/ /\ object' = Gone(k) /\ UNCHANGED <<guard, cleanup, dropped>>
               /\ at' = [at EXCEPT !.clean.stage = "removed"]
            \/ /\ guard'[k] = ActiveGuard /\ \A j \in Objects \ {k} : guard'[j] = guard[j]
               /\ \A j \in 1..MaxCleanups : /\ cleanup'[j].of = cleanup[j].of
                                            /\ cleanup[j].st = "none" => cleanup'[j].st = "none"
               /\ \/ object' = object
                  \/ object' = Gone(k) /\ (k \in Uploads => k \in dropped')
               /\ at' = [at EXCEPT !.clean = Quiet.clean]
<1> DEFINE i == at.clean.id
<1>1. /\ Typed /\ i \in 1..MaxCleanups /\ cleanup[i].st \in {"queued", "retrying"}
      /\ Held(k, "cleanup")
      /\ k \in Uploads \ dropped => object[k] # "gone"
  BY DEF CleanObject, OInv, CleaningSound
<1>2. k \in Objects  BY <1>1, RowOfCleanup
<1>3. CASE /\ object' = Gone(k) /\ UNCHANGED <<guard, cleanup, dropped>>
           /\ at' = [at EXCEPT !.clean.stage = "removed"]
  BY <1>1, <1>2, <1>3 DEF CleanObject
<1>4. CASE /\ StoreFails(k, "cleanup") /\ at' = [at EXCEPT !.clean = Quiet.clean]
           /\ cleanup' = [cleanup EXCEPT ![i].tries = @ + 1,
                             ![i].st = IF AttemptsUsedUp(i) THEN "failed" ELSE "retrying"]
  <2>1. \A j \in 1..MaxCleanups : /\ cleanup'[j].of = cleanup[j].of
                                  /\ cleanup[j].st = "none" => cleanup'[j].st = "none"
    <3>1. /\ cleanup \in [1..MaxCleanups -> CleanupRow \cup {NoCleanup}]
          /\ cleanup[i] \in CleanupRow
      BY <1>1 DEF Typed, ObjectsTypeOK, NoCleanup
    <3> QED  BY <1>1, <1>4, <3>1 DEF CleanupRow
  <2>2. /\ Release(k, "cleanup") /\ dropped \subseteq dropped'
        /\ \/ object' = object
           \/ object' = Gone(k) /\ (k \in Uploads => k \in dropped')
    BY <1>1, <1>2, <1>4, FailsTyped
  <2> QED  BY <1>1, <1>2, <1>4, <2>1, <2>2, ReleaseRows DEF CleanObject
<1> QED  BY <1>3, <1>4 DEF CleanObject

\* It closes the guard it still holds.
LEMMA FinishCleanupRows ==
  ASSUME OInv, FinishCleanup, NEW k, k = cleanup[at.clean.id].of
  PROVE  /\ k \in Objects /\ Held(k, "cleanup")
         /\ UNCHANGED <<object, reference, uses, dropped>>
         /\ at' = [at EXCEPT !.clean = Quiet.clean]
         /\ guard'[k] = [state |-> "deleted", token |-> "none"]
         /\ \A j \in Objects \ {k} : guard'[j] = guard[j]
         /\ asset' = IF cleanup[at.clean.id].asset THEN [asset EXCEPT ![k].objectDeleted = TRUE] ELSE asset
         /\ \A j \in 1..MaxCleanups : /\ cleanup'[j].of = cleanup[j].of
                                      /\ cleanup[j].st = "none" => cleanup'[j].st = "none"
<1> DEFINE i == at.clean.id
<1>1. /\ Typed /\ i \in 1..MaxCleanups /\ cleanup[i].st \in {"queued", "retrying"}
      /\ Held(k, "cleanup")
  BY DEF FinishCleanup, OInv, CleaningSound
<1>2. k \in Objects  BY <1>1, RowOfCleanup
<1>3. /\ guard' = GuardDeleted(k) /\ cleanup' = [cleanup EXCEPT ![i].st = "succeeded"]
      /\ asset' = IF cleanup[i].asset THEN [asset EXCEPT ![k].objectDeleted = TRUE] ELSE asset
  BY <1>1 DEF FinishCleanup
<1>4. \A j \in 1..MaxCleanups : /\ cleanup'[j].of = cleanup[j].of
                                /\ cleanup[j].st = "none" => cleanup'[j].st = "none"
  <2>1. /\ cleanup \in [1..MaxCleanups -> CleanupRow \cup {NoCleanup}]
        /\ cleanup[i] \in CleanupRow
    BY <1>1 DEF Typed, ObjectsTypeOK, NoCleanup
  <2> QED  BY <1>1, <1>3, <2>1 DEF CleanupRow
<1> QED  BY <1>1, <1>2, <1>3, <1>4, DeletedRows DEF FinishCleanup

\* A row comes to refer to an object only while its guard is active (MayRefer), and a
\* guard leaves that state only by a lease, which is given when nothing refers to the object.
LEMMA UsesActiveStep ==
  ASSUME OInv, ObjectsNext
  PROVE  UsesActive'
<1> SUFFICES ASSUME NEW k \in Objects, uses'[k] # {} PROVE guard'[k].state = "active"
  BY DEF UsesActive
<1> DEFINE Goal == guard'[k].state = "active"
<1>0. /\ Typed /\ (uses[k] # {} => guard[k].state = "active")
      /\ \A u \in Uploads : u \in Objects
      /\ \A r \in Results : r \in Objects
      /\ uses \in [Objects -> SUBSET {"generation", "brand", "work"}]
  BY DEF OInv, UsesActive, Objects, Typed, ObjectsTypeOK
<1>1. ASSUME NEW u \in Uploads, CreateUploadPolicy(u) PROVE Goal
  BY <1>0, <1>1, EnsuredRows DEF CreateUploadPolicy, GuardsKept
<1>2. ASSUME NEW u \in Uploads, NEW q \in {"good", "bad"}, Upload(u, q) PROVE Goal
  BY <1>0, <1>2 DEF Upload, tables
<1>3. ASSUME NEW u \in Uploads, NEW c \in Clients, BeginComplete(u, c) PROVE Goal
  BY <1>0, <1>3 DEF BeginComplete, tables
<1>4. ASSUME NEW u \in Uploads, NEW c \in Clients, ValidateUpload(u, c) PROVE Goal
  BY <1>0, <1>4, OrphanRows DEF ValidateUpload, GuardsKept
<1>5. ASSUME NEW u \in Uploads, NEW c \in Clients, FinishComplete(u, c) PROVE Goal
  BY <1>0, <1>5, OrphanRows DEF FinishComplete, GuardsKept, MayRefer
<1>6. ASSUME NEW u \in Uploads, LookUp(u) PROVE Goal
  BY <1>0, <1>6 DEF LookUp, tables
<1>7. ASSUME NEW u \in Uploads, NEW by \in {"generation", "brand"}, BindObject(u, by) PROVE Goal
  BY <1>0, <1>7 DEF BindObject, MayRefer
<1>8. ASSUME NEW u \in Uploads, UnbindObject(u) PROVE Goal
  BY <1>0, <1>8 DEF UnbindObject
<1>9. ASSUME NEW u \in Uploads, BeginDelete(u) PROVE Goal
  BY <1>0, <1>9, LeaseRows DEF BeginDelete
<1>10. ASSUME NEW u \in Uploads, DeleteObject(u) PROVE Goal
  <2>1. uses' = uses /\ (guard' = guard \/ Release(u, "user"))
    BY <1>10 DEF DeleteObject, StoreFails
  <2> QED  BY <1>0, <2>1, ReleaseRows DEF ActiveGuard, Release
<1>11. ASSUME NEW u \in Uploads, FinishDelete(u) PROVE Goal
  BY <1>0, <1>11, DeletedRows DEF FinishDelete, Held, OInv, UploadSound, CleaningSound
<1>12. ASSUME NEW u \in Uploads, BeginDrop(u) PROVE Goal
  BY <1>0, <1>12 DEF BeginDrop
<1>13. ASSUME NEW u \in Uploads, DropObject(u) PROVE Goal
  BY <1>0, <1>13 DEF DropObject, tables
<1>14. ASSUME NEW u \in Uploads, FinishDrop(u) PROVE Goal
  BY <1>0, <1>14 DEF FinishDrop
<1>15. ASSUME NEW u \in Uploads, QueueExpired(u) PROVE Goal
  BY <1>0, <1>15 DEF QueueExpired
<1>16. ASSUME NEW u \in Uploads, DeleteProjectAsset(u) PROVE Goal
  BY <1>0, <1>16 DEF DeleteProjectAsset
<1>17. ASSUME NEW r \in Results, SaveResult(r) PROVE Goal
  BY <1>0, <1>17 DEF SaveResult, tables
<1>18. ASSUME NEW r \in Results, GuardResult(r) PROVE Goal
  BY <1>0, <1>18, EnsuredRows DEF GuardResult, GuardsKept
<1>19. ASSUME NEW r \in Results, PersistWork(r) PROVE Goal
  BY <1>0, <1>19 DEF PersistWork, MayRefer
<1>20. ASSUME NEW r \in Results, CancelResult(r) PROVE Goal
  BY <1>0, <1>20 DEF CancelResult
<1>21. ASSUME NEW r \in Results, DropLateWork(r) PROVE Goal
  BY <1>0, <1>21 DEF DropLateWork
<1>22. ASSUME NEW i \in 1..MaxCleanups, BeginCleanup(i) PROVE Goal
  BY <1>0, <1>22, BeginCleanupRows DEF GuardsKept, ActiveGuard
<1>23. ASSUME CleanObject PROVE Goal
  BY <1>0, <1>23, CleanObjectRows DEF Held, ActiveGuard
<1>24. ASSUME FinishCleanup PROVE Goal
  BY <1>0, <1>24, FinishCleanupRows DEF Held
<1>25. ASSUME StopObjects PROVE Goal
  BY <1>0, <1>25 DEF StopObjects, tables
<1> QED
  BY <1>1, <1>2, <1>3, <1>4, <1>5, <1>6, <1>7, <1>8, <1>9, <1>10, <1>11, <1>12, <1>13, <1>14,
     <1>15, <1>16, <1>17, <1>18, <1>19, <1>20, <1>21, <1>22, <1>23, <1>24, <1>25
  DEF ObjectsNext

\* A cleanup under way goes on undisturbed while its row and the guard it holds stay as
\* they are, and nobody else deletes its object.
LEMMA CleaningKept ==
  ASSUME OInv, at'.clean = at.clean, dropped \subseteq dropped',
         \A i \in 1..MaxCleanups : cleanup[i].st # "none" => cleanup'[i] = cleanup[i],
         \A k \in Objects : Held(k, "cleanup") => guard'[k] = guard[k],
         \A k \in Uploads \ dropped' : Held(k, "cleanup") /\ object'[k] = "gone" => object[k] = "gone"
  PROVE  CleaningSound'
<1>1. CleaningSound /\ Typed  BY DEF OInv
<1>2. SUFFICES ASSUME at.clean.stage # "idle" PROVE CleaningSound'
  BY DEF CleaningSound
<1> DEFINE i == at.clean.id
           k == cleanup[i].of
<1>3. /\ i \in 1..MaxCleanups /\ cleanup[i].st \in {"queued", "retrying"} /\ Held(k, "cleanup")
      /\ at.clean.stage = "leased" /\ k \in Uploads \ dropped => object[k] # "gone"
  BY <1>1, <1>2 DEF CleaningSound
<1>4. k \in Objects  BY <1>1, <1>3, RowOfCleanup
<1>5. cleanup'[i] = cleanup[i] /\ guard'[k] = guard[k]  BY <1>3, <1>4
<1>6. at.clean.stage = "leased" /\ k \in Uploads \ dropped' => object'[k] # "gone"
  BY <1>3
<1> QED  BY <1>3, <1>5, <1>6 DEF CleaningSound, Held

\* One step per action: all but the three of the cleanup leave it alone.
LEMMA CleaningSoundStep ==
  ASSUME OInv, ObjectsNext
  PROVE  CleaningSound'
<1> DEFINE Rows   == \A i \in 1..MaxCleanups : cleanup[i].st # "none" => cleanup'[i] = cleanup[i]
           Guards == \A k \in Objects : Held(k, "cleanup") => guard'[k] = guard[k]
           Stored == \A k \in Uploads \ dropped' :
                        Held(k, "cleanup") /\ object'[k] = "gone" => object[k] = "gone"
           Kept   == at'.clean = at.clean /\ dropped \subseteq dropped' /\ Rows /\ Guards /\ Stored
<1>0. /\ Typed /\ at \in AtType
      /\ \A u \in Uploads : u \in Objects /\ (at.delete[u] # "idle" => Held(u, "user"))
      /\ \A r \in Results : r \in Objects /\ r \notin Uploads
  BY ObjectNamesAssumption DEF OInv, Typed, Objects, UploadSound
<1>1. ASSUME NEW u \in Uploads, CreateUploadPolicy(u) PROVE Kept
  <2>1. at'.clean = at.clean /\ dropped \subseteq dropped'
    BY <1>0, <1>1 DEF CreateUploadPolicy, AtType
  <2>2. Rows  BY <1>0, <1>1 DEF CreateUploadPolicy
  <2>3. Guards
    BY <1>0, <1>1, EnsuredRows DEF CreateUploadPolicy, GuardsKept, Held
  <2>4. Stored  BY <1>0, <1>1 DEF CreateUploadPolicy, Held, Typed, ObjectsTypeOK
  <2> QED  BY <2>1, <2>2, <2>3, <2>4
<1>2. ASSUME NEW u \in Uploads, NEW q \in {"good", "bad"}, Upload(u, q) PROVE Kept
  <2>1. at'.clean = at.clean /\ dropped \subseteq dropped'
    BY <1>0, <1>2 DEF Upload, AtType
  <2>2. Rows  BY <1>0, <1>2 DEF Upload, tables
  <2>3. Guards
    BY <1>0, <1>2 DEF Upload, tables, Held
  <2>4. Stored  BY <1>0, <1>2 DEF Upload, tables, Held, Typed, ObjectsTypeOK
  <2> QED  BY <2>1, <2>2, <2>3, <2>4
<1>3. ASSUME NEW u \in Uploads, NEW c \in Clients, BeginComplete(u, c) PROVE Kept
  <2>1. at'.clean = at.clean /\ dropped \subseteq dropped'
    BY <1>0, <1>3 DEF BeginComplete, AtType
  <2>2. Rows  BY <1>0, <1>3 DEF BeginComplete, tables
  <2>3. Guards
    BY <1>0, <1>3 DEF BeginComplete, tables, Held, Ensures
  <2>4. Stored  BY <1>0, <1>3 DEF BeginComplete, tables, Held, Typed, ObjectsTypeOK
  <2> QED  BY <2>1, <2>2, <2>3, <2>4
<1>4. ASSUME NEW u \in Uploads, NEW c \in Clients, ValidateUpload(u, c) PROVE Kept
  <2>1. at'.clean = at.clean /\ dropped \subseteq dropped'
    BY <1>0, <1>4 DEF ValidateUpload, AtType
  <2>2. Rows  BY <1>0, <1>4, OrphanRows DEF ValidateUpload
  <2>3. Guards
    <3>1. guard' = guard \/ ScheduleOrphan(u)  BY <1>4 DEF ValidateUpload
    <3>2. guard' = guard \/ GuardsKept  BY <1>0, <3>1, OrphanRows
    <3> QED  BY <3>2 DEF GuardsKept, Held
  <2>4. Stored  BY <1>0, <1>4 DEF ValidateUpload, Held, Typed, ObjectsTypeOK
  <2> QED  BY <2>1, <2>2, <2>3, <2>4
<1>5. ASSUME NEW u \in Uploads, NEW c \in Clients, FinishComplete(u, c) PROVE Kept
  <2>1. at'.clean = at.clean /\ dropped \subseteq dropped'
    BY <1>0, <1>5 DEF FinishComplete, AtType
  <2>2. Rows  BY <1>0, <1>5, OrphanRows DEF FinishComplete
  <2>3. Guards
    <3>1. guard' = guard \/ ScheduleOrphan(u)  BY <1>5 DEF FinishComplete
    <3>2. guard' = guard \/ GuardsKept  BY <1>0, <3>1, OrphanRows
    <3> QED  BY <3>2 DEF GuardsKept, Held
  <2>4. Stored  BY <1>0, <1>5 DEF FinishComplete, Held, Typed, ObjectsTypeOK
  <2> QED  BY <2>1, <2>2, <2>3, <2>4
<1>6. ASSUME NEW u \in Uploads, LookUp(u) PROVE Kept
  <2>1. at'.clean = at.clean /\ dropped \subseteq dropped'
    BY <1>0, <1>6 DEF LookUp, AtType
  <2>2. Rows  BY <1>0, <1>6 DEF LookUp, tables
  <2>3. Guards
    BY <1>0, <1>6 DEF LookUp, tables, Held
  <2>4. Stored  BY <1>0, <1>6 DEF LookUp, tables, Held, Typed, ObjectsTypeOK
  <2> QED  BY <2>1, <2>2, <2>3, <2>4
<1>7. ASSUME NEW u \in Uploads, NEW by \in {"generation", "brand"}, BindObject(u, by) PROVE Kept
  <2>1. at'.clean = at.clean /\ dropped \subseteq dropped'
    BY <1>0, <1>7 DEF BindObject, AtType
  <2>2. Rows  BY <1>0, <1>7 DEF BindObject
  <2>3. Guards
    BY <1>0, <1>7 DEF BindObject, Held
  <2>4. Stored  BY <1>0, <1>7 DEF BindObject, Held, Typed, ObjectsTypeOK
  <2> QED  BY <2>1, <2>2, <2>3, <2>4
<1>8. ASSUME NEW u \in Uploads, UnbindObject(u) PROVE Kept
  <2>1. at'.clean = at.clean /\ dropped \subseteq dropped'
    BY <1>0, <1>8 DEF UnbindObject, AtType
  <2>2. Rows  BY <1>0, <1>8 DEF UnbindObject
  <2>3. Guards
    BY <1>0, <1>8 DEF UnbindObject, Held
  <2>4. Stored  BY <1>0, <1>8 DEF UnbindObject, Held, Typed, ObjectsTypeOK
  <2> QED  BY <2>1, <2>2, <2>3, <2>4
<1>9. ASSUME NEW u \in Uploads, BeginDelete(u) PROVE Kept
  <2>1. at'.clean = at.clean /\ dropped \subseteq dropped'
    BY <1>0, <1>9 DEF BeginDelete, AtType
  <2>2. Rows  BY <1>0, <1>9 DEF BeginDelete
  <2>3. Guards
    <3>1. Ensures(u) /\ (guard' = guard \/ Lease(u, "user", TRUE))  BY <1>9 DEF BeginDelete
    <3>2. \A j \in Objects \ {u} : guard'[j] = guard[j]  BY <1>0, <3>1, LeaseRows
    <3> QED  BY <3>1, <3>2 DEF Held, Ensures
  <2>4. Stored  BY <1>0, <1>9 DEF BeginDelete, Held, Typed, ObjectsTypeOK
  <2> QED  BY <2>1, <2>2, <2>3, <2>4
<1>10. ASSUME NEW u \in Uploads, DeleteObject(u) PROVE Kept
  <2>0. /\ at.delete[u] = "leased" /\ (guard' = guard \/ Release(u, "user"))
        /\ (object' = object \/ object' = Gone(u)) /\ dropped \subseteq dropped' /\ cleanup' = cleanup
    BY <1>0, <1>10, FailsTyped DEF DeleteObject
  <2>1. at'.clean = at.clean /\ dropped \subseteq dropped'
    BY <1>0, <1>10, <2>0 DEF DeleteObject, AtType
  <2>2. Rows  BY <2>0
  <2>5. Held(u, "user")  BY <1>0, <2>0
  <2>3. Guards  BY <1>0, <2>0, <2>5, ReleaseRows DEF Held
  <2>4. Stored
    <3>1. \A k \in Objects \ {u} : object'[k] = object[k]  BY <1>0, <2>0, GoneRows
    <3> QED  BY <1>0, <2>5, <3>1 DEF Held
  <2> QED  BY <2>1, <2>2, <2>3, <2>4
<1>11. ASSUME NEW u \in Uploads, FinishDelete(u) PROVE Kept
  <2>1. at'.clean = at.clean /\ dropped \subseteq dropped'
    BY <1>0, <1>11 DEF FinishDelete, AtType
  <2>2. Rows  BY <1>0, <1>11 DEF FinishDelete
  <2>3. Guards
    BY <1>0, <1>11, DeletedRows DEF FinishDelete, Held
  <2>4. Stored  BY <1>0, <1>11 DEF FinishDelete, Held, Typed, ObjectsTypeOK
  <2> QED  BY <2>1, <2>2, <2>3, <2>4
<1>12. ASSUME NEW u \in Uploads, BeginDrop(u) PROVE Kept
  <2>1. at'.clean = at.clean /\ dropped \subseteq dropped'
    BY <1>0, <1>12 DEF BeginDrop, AtType
  <2>2. Rows  BY <1>0, <1>12 DEF BeginDrop
  <2>3. Guards
    BY <1>0, <1>12 DEF BeginDrop, Held
  <2>4. Stored  BY <1>0, <1>12 DEF BeginDrop, Held, Typed, ObjectsTypeOK
  <2> QED  BY <2>1, <2>2, <2>3, <2>4
<1>13. ASSUME NEW u \in Uploads, DropObject(u) PROVE Kept
  <2>1. at'.clean = at.clean /\ dropped \subseteq dropped'
    BY <1>0, <1>13 DEF DropObject, AtType
  <2>2. Rows  BY <1>0, <1>13 DEF DropObject, tables
  <2>3. Guards
    BY <1>0, <1>13 DEF DropObject, tables, Held
  <2>4. Stored  BY <1>0, <1>13, GoneRows DEF DropObject, tables, Held, Typed, ObjectsTypeOK
  <2> QED  BY <2>1, <2>2, <2>3, <2>4
<1>14. ASSUME NEW u \in Uploads, FinishDrop(u) PROVE Kept
  <2>1. at'.clean = at.clean /\ dropped \subseteq dropped'
    BY <1>0, <1>14 DEF FinishDrop, AtType
  <2>2. Rows  BY <1>0, <1>14 DEF FinishDrop
  <2>3. Guards
    BY <1>0, <1>14 DEF FinishDrop, Held
  <2>4. Stored  BY <1>0, <1>14 DEF FinishDrop, Held, Typed, ObjectsTypeOK
  <2> QED  BY <2>1, <2>2, <2>3, <2>4
<1>15. ASSUME NEW u \in Uploads, QueueExpired(u) PROVE Kept
  <2>1. at'.clean = at.clean /\ dropped \subseteq dropped'
    BY <1>0, <1>15 DEF QueueExpired, AtType
  <2>2. Rows  BY <1>0, <1>15, ScheduleRows DEF QueueExpired
  <2>3. Guards
    BY <1>0, <1>15 DEF QueueExpired, Held
  <2>4. Stored  BY <1>0, <1>15 DEF QueueExpired, Held, Typed, ObjectsTypeOK
  <2> QED  BY <2>1, <2>2, <2>3, <2>4
<1>16. ASSUME NEW u \in Uploads, DeleteProjectAsset(u) PROVE Kept
  <2>1. at'.clean = at.clean /\ dropped \subseteq dropped'
    BY <1>0, <1>16 DEF DeleteProjectAsset, AtType
  <2>2. Rows  BY <1>0, <1>16, ScheduleRows DEF DeleteProjectAsset
  <2>3. Guards
    BY <1>0, <1>16 DEF DeleteProjectAsset, Held
  <2>4. Stored  BY <1>0, <1>16 DEF DeleteProjectAsset, Held, Typed, ObjectsTypeOK
  <2> QED  BY <2>1, <2>2, <2>3, <2>4
<1>17. ASSUME NEW r \in Results, SaveResult(r) PROVE Kept
  <2>1. at'.clean = at.clean /\ dropped \subseteq dropped'
    BY <1>0, <1>17 DEF SaveResult, AtType
  <2>2. Rows  BY <1>0, <1>17 DEF SaveResult, tables
  <2>3. Guards
    BY <1>0, <1>17 DEF SaveResult, tables, Held
  <2>4. Stored  BY <1>0, <1>17 DEF SaveResult, tables, Held, Typed, ObjectsTypeOK
  <2> QED  BY <2>1, <2>2, <2>3, <2>4
<1>18. ASSUME NEW r \in Results, GuardResult(r) PROVE Kept
  <2>1. at'.clean = at.clean /\ dropped \subseteq dropped'
    BY <1>0, <1>18 DEF GuardResult, AtType
  <2>2. Rows  BY <1>0, <1>18 DEF GuardResult
  <2>3. Guards
    BY <1>0, <1>18, EnsuredRows DEF GuardResult, GuardsKept, Held, Ensures
  <2>4. Stored  BY <1>0, <1>18 DEF GuardResult, Held, Typed, ObjectsTypeOK
  <2> QED  BY <2>1, <2>2, <2>3, <2>4
<1>19. ASSUME NEW r \in Results, PersistWork(r) PROVE Kept
  <2>1. at'.clean = at.clean /\ dropped \subseteq dropped'
    BY <1>0, <1>19 DEF PersistWork, AtType
  <2>2. Rows  BY <1>0, <1>19 DEF PersistWork
  <2>3. Guards
    BY <1>0, <1>19 DEF PersistWork, Held
  <2>4. Stored  BY <1>0, <1>19 DEF PersistWork, Held, Typed, ObjectsTypeOK
  <2> QED  BY <2>1, <2>2, <2>3, <2>4
<1>20. ASSUME NEW r \in Results, CancelResult(r) PROVE Kept
  <2>1. at'.clean = at.clean /\ dropped \subseteq dropped'
    BY <1>0, <1>20 DEF CancelResult, AtType
  <2>2. Rows  BY <1>0, <1>20, ScheduleRows DEF CancelResult
  <2>3. Guards
    BY <1>0, <1>20 DEF CancelResult, Held
  <2>4. Stored  BY <1>0, <1>20, GoneRows DEF CancelResult, Held, Typed, ObjectsTypeOK
  <2> QED  BY <2>1, <2>2, <2>3, <2>4
<1>21. ASSUME NEW r \in Results, DropLateWork(r) PROVE Kept
  <2>1. at'.clean = at.clean /\ dropped \subseteq dropped'
    BY <1>0, <1>21 DEF DropLateWork, AtType
  <2>2. Rows  BY <1>0, <1>21, ScheduleRows DEF DropLateWork
  <2>3. Guards
    BY <1>0, <1>21 DEF DropLateWork, Held
  <2>4. Stored  BY <1>0, <1>21 DEF DropLateWork, Held, Typed, ObjectsTypeOK
  <2> QED  BY <2>1, <2>2, <2>3, <2>4
<1>22. ASSUME NEW i \in 1..MaxCleanups, BeginCleanup(i) PROVE CleaningSound'
  <2> DEFINE k == cleanup[i].of
  <2>1. /\ k \in Objects /\ cleanup[i].st \in {"queued", "retrying"} /\ object' = object /\ dropped' = dropped
        /\ \/ at' = at /\ \A j \in 1..MaxCleanups : cleanup'[j].of = cleanup[j].of
           \/ /\ guard[k].state \in {"none", "active"} /\ Held(k, "cleanup")' /\ cleanup' = cleanup
              /\ at' = [at EXCEPT !.clean = [id |-> i, stage |-> "leased"]]
    BY <1>22, BeginCleanupRows
  <2>2. at.clean.stage = "idle"  BY <1>22 DEF BeginCleanup
  <2>3. CASE at' = at  BY <2>2, <2>3 DEF CleaningSound
  <2>4. CASE /\ guard[k].state \in {"none", "active"} /\ Held(k, "cleanup")' /\ cleanup' = cleanup
             /\ at' = [at EXCEPT !.clean = [id |-> i, stage |-> "leased"]]
    <3>1. at'.clean = [id |-> i, stage |-> "leased"]  BY <1>0, <2>4 DEF AtType
    <3>2. k \in Uploads \ dropped => object[k] # "gone"
      BY <2>4 DEF OInv, UploadSound
    <3> QED  BY <2>1, <2>4, <3>1, <3>2 DEF CleaningSound
  <2> QED  BY <2>1, <2>3, <2>4
<1>23. ASSUME CleanObject PROVE CleaningSound'
  <2>1. CASE UNCHANGED <<guard, cleanup>> /\ at' = [at EXCEPT !.clean.stage = "removed"]
    <3>1. at'.clean.stage = "removed" /\ at'.clean.id = at.clean.id  BY <1>0, <2>1 DEF AtType
    <3> QED  BY <1>23, <2>1, <3>1, CleanObjectRows DEF CleaningSound, Held
  <2>2. CASE at' = [at EXCEPT !.clean = Quiet.clean]
    <3>1. at'.clean.stage = "idle"  BY <1>0, <2>2 DEF AtType, Quiet
    <3> QED  BY <3>1 DEF CleaningSound
  <2> QED  BY <1>23, <2>1, <2>2, CleanObjectRows
<1>24. ASSUME FinishCleanup PROVE CleaningSound'
  <2>1. at'.clean.stage = "idle"  BY <1>0, <1>24 DEF FinishCleanup, AtType, Quiet
  <2> QED  BY <2>1 DEF CleaningSound
<1>25. ASSUME StopObjects PROVE CleaningSound'
  <2>1. at'.clean.stage = "idle"  BY <1>0, <1>25 DEF StopObjects, Quiet
  <2> QED  BY <2>1 DEF CleaningSound
<1> HIDE DEF Kept
<1>26. ASSUME Kept PROVE CleaningSound'  BY <1>26, CleaningKept DEF Kept
<1> QED
  BY <1>1, <1>2, <1>3, <1>4, <1>5, <1>6, <1>7, <1>8, <1>9, <1>10, <1>11, <1>12, <1>13, <1>14,
     <1>15, <1>16, <1>17, <1>18, <1>19, <1>20, <1>21, <1>22, <1>23, <1>24, <1>25, <1>26 DEF ObjectsNext

\* What a step does that leaves an upload to the others.
UploadLeft(u) ==
    /\ object'[u] = object[u] /\ dropped \subseteq dropped'
    /\ guard'[u] = guard[u] \/ guard[u].state = "none"
    /\ at'.delete[u] \in {at.delete[u], "idle"}
    /\ Known(u)' => Known(u)

\* Such a step keeps what is said of the upload.
LEMMA UploadKept ==
  ASSUME NEW u \in Uploads, UploadSound(u), UploadLeft(u)
  PROVE  UploadSound(u)'
<1>1. (Known(u) => object[u] \in {"good", "gone"}) /\ (at.delete[u] # "idle" => Held(u, "user"))
  BY DEF UploadSound
<1>2. object[u] = "gone" /\ u \notin dropped => guard[u].state \in {"deleting", "deleted"}
  BY DEF UploadSound
<1>3. at.delete[u] = "leased" /\ u \notin dropped => object[u] # "gone"
  BY DEF UploadSound
<1> QED  BY <1>1, <1>2, <1>3 DEF UploadSound, UploadLeft, Held

\* The steps of the upload u itself, of others (v), and of the cleanup.
LEMMA UploadSoundStep ==
  ASSUME OInv, ObjectsNext, NEW u \in Uploads
  PROVE  UploadSound(u)'
<1>0. /\ Typed /\ at \in AtType /\ UploadSound(u) /\ u \in Objects
      /\ \A v \in Uploads : v \in Objects
      /\ \A r \in Results : r \in Objects /\ r # u
      /\ reference \in [Uploads -> {"none", "live", "deleted"}]
      /\ asset \in [Uploads -> AssetRow]
      /\ uses \in [Objects -> SUBSET {"generation", "brand", "work"}]
      /\ object \in [Objects -> Stores]
  BY ObjectNamesAssumption DEF OInv, Typed, ObjectsTypeOK, Objects, AssetRow, Stores
<1> DEFINE Same == /\ object'[u] = object[u] /\ dropped \subseteq dropped'
                   /\ guard'[u] = guard[u] \/ guard[u].state = "none"
                   /\ at'.delete[u] \in {at.delete[u], "idle"}
<1>1. ASSUME NEW v \in Uploads, CreateUploadPolicy(v) PROVE UploadLeft(u)
  <2>1. Same
    BY <1>0, <1>1, EnsuredRows DEF CreateUploadPolicy, GuardsKept, AtType
  <2>2. Known(u)' => Known(u)
    BY <1>0, <1>1 DEF CreateUploadPolicy, Known, HasAsset, AtType, AssetRow
  <2> QED  BY <2>1, <2>2 DEF UploadLeft
<1>2. ASSUME NEW v \in Uploads, NEW q \in {"good", "bad"}, Upload(v, q) PROVE UploadSound(u)'
  <2>1. CASE v # u
    <3>1. Same
      BY <1>0, <1>2, <2>1 DEF Upload, tables, AtType, UploadLeft, OInv, UploadSound
    <3>2. Known(u)' => Known(u)
      BY <1>0, <1>2, <2>1 DEF Upload, tables, Known, HasAsset, AtType, AssetRow
    <3> QED  BY <1>0, <3>1, <3>2, UploadKept DEF UploadLeft
  <2>2. CASE v = u
    BY <1>0, <1>2, <2>2 DEF Upload, tables, AtType, UploadSound, Known, HasAsset, AssetRow, Held
  <2> QED  BY <2>1, <2>2
<1>3. ASSUME NEW v \in Uploads, NEW c \in Clients, BeginComplete(v, c) PROVE UploadLeft(u)
  <2>1. Same
    BY <1>0, <1>3 DEF BeginComplete, tables, AtType
  <2>2. Known(u)' => Known(u)
    BY <1>0, <1>3 DEF BeginComplete, tables, Known, HasAsset, AtType, AssetRow
  <2> QED  BY <2>1, <2>2 DEF UploadLeft
<1>4. ASSUME NEW v \in Uploads, NEW c \in Clients, ValidateUpload(v, c) PROVE UploadSound(u)'
  <2> DEFINE place == IF object[v] = "good" THEN "valid" ELSE "done"
  <2>1. /\ UNCHANGED <<object, reference, asset, uses, dropped>>
        /\ guard' = guard \/ ScheduleOrphan(v)
        /\ at' = [at EXCEPT !.complete[v][c] = place]
    BY <1>4 DEF ValidateUpload
  <2>2. guard' = guard \/ GuardsKept  BY <1>0, <2>1, OrphanRows
  <2>3. at'.delete = at.delete /\ at'.bind = at.bind  BY <1>0, <2>1 DEF AtType
  <2>4. Same  BY <1>0, <2>1, <2>2, <2>3 DEF GuardsKept
  <2>5. CASE v = u /\ object[v] = "good"
    BY <1>0, <2>1, <2>4, <2>5 DEF UploadSound, Held
  <2>6. CASE v # u \/ object[v] # "good"
    <3> HIDE DEF place
    <3>1. v = u => place = "done"  BY <2>6 DEF place
    <3>2. \A d \in Clients : at'.complete[u][d] = "valid" => at.complete[u][d] = "valid"
      BY <1>0, <2>1, <3>1 DEF AtType
    <3>3. Known(u)' => Known(u)  BY <2>1, <2>3, <3>2 DEF Known, HasAsset
    <3> QED  BY <1>0, <2>4, <3>3, UploadKept DEF UploadLeft
  <2> QED  BY <2>5, <2>6
<1>5. ASSUME NEW v \in Uploads, NEW c \in Clients, FinishComplete(v, c) PROVE UploadLeft(u)
  <2>1. /\ at.complete[v][c] = "valid" /\ UNCHANGED <<object, uses, dropped>>
        /\ at' = [at EXCEPT !.complete[v][c] = "done"]
        /\ guard' = guard \/ ScheduleOrphan(v)
        /\ reference' = reference \/ reference' = [reference EXCEPT ![v] = "live"]
        /\ \/ asset' = asset
           \/ \E t \in BOOLEAN :
                 asset' = [asset EXCEPT ![v] = [NoAsset EXCEPT !.st = "live", !.temporary = t]]
    BY <1>5 DEF FinishComplete
  <2>2. guard' = guard \/ GuardsKept  BY <1>0, <2>1, OrphanRows
  <2>3. at'.delete = at.delete /\ at'.bind = at.bind  BY <1>0, <2>1 DEF AtType
  <2>4. Same  BY <1>0, <2>1, <2>2, <2>3 DEF GuardsKept
  <2>5. CASE v = u  BY <2>1, <2>4, <2>5 DEF UploadLeft, Known
  <2>6. CASE v # u
    <3>1. /\ asset'[u] = asset[u] /\ reference'[u] = reference[u]
          /\ \A d \in Clients : at'.complete[u][d] = at.complete[u][d]
      BY ZenonT(60), <1>0, <2>1, <2>6 DEF AtType
    <3> QED  BY ZenonT(60), <2>1, <2>3, <2>4, <3>1 DEF UploadLeft, Known, HasAsset
  <2> QED  BY <2>5, <2>6
<1>6. ASSUME NEW v \in Uploads, LookUp(v) PROVE UploadLeft(u)
  <2>1. Same
    BY <1>0, <1>6 DEF LookUp, tables, AtType
  <2>2. Known(u)' => Known(u)
    BY <1>0, <1>6 DEF LookUp, tables, Known, HasAsset, AtType, AssetRow
  <2> QED  BY <2>1, <2>2 DEF UploadLeft
<1>7. ASSUME NEW v \in Uploads, NEW by \in {"generation", "brand"}, BindObject(v, by) PROVE UploadLeft(u)
  <2>1. Same
    BY <1>0, <1>7 DEF BindObject, AtType
  <2>2. Known(u)' => Known(u)
    BY <1>0, <1>7 DEF BindObject, Known, HasAsset, AtType, AssetRow
  <2> QED  BY <2>1, <2>2 DEF UploadLeft
<1>8. ASSUME NEW v \in Uploads, UnbindObject(v) PROVE UploadLeft(u)
  <2>1. Same
    BY <1>0, <1>8 DEF UnbindObject, AtType
  <2>2. Known(u)' => Known(u)
    BY <1>0, <1>8 DEF UnbindObject, Known, HasAsset, AtType, AssetRow
  <2> QED  BY <2>1, <2>2 DEF UploadLeft
<1>9. ASSUME NEW v \in Uploads, BeginDelete(v) PROVE UploadSound(u)'
  <2>1. /\ UNCHANGED <<object, reference, uses, dropped>>
        /\ \/ UNCHANGED <<guard, at>> /\ asset' = [asset EXCEPT ![v].st = "deleted"]
           \/ /\ Lease(v, "user", TRUE) /\ at' = [at EXCEPT !.delete[v] = "leased"]
              /\ Ensures(v) /\ asset' = asset
    BY <1>9 DEF BeginDelete
  <2>2. at'.bind = at.bind /\ at'.complete = at.complete  BY <1>0, <2>1 DEF AtType
  <2>3. Known(u)' => Known(u)
    <3>1. asset'[u] = asset[u] \/ asset'[u].st = "deleted"  BY ZenonT(60), <1>0, <2>1 DEF AssetRow
    <3> QED  BY <2>1, <2>2, <3>1 DEF Known, HasAsset
  <2>4. CASE guard' = guard /\ at' = at
    BY <1>0, <2>1, <2>3, <2>4, UploadKept DEF UploadLeft
  <2>5. CASE Lease(v, "user", TRUE) /\ at' = [at EXCEPT !.delete[v] = "leased"] /\ Ensures(v)
    <3>1. Held(v, "user")' /\ \A j \in Objects \ {v} : guard'[j] = guard[j]
      BY <1>0, <2>5, LeaseRows
    <3>2. CASE v = u
      <4>1. object[u] = "gone" => u \in dropped  BY <1>0, <2>5, <3>2 DEF UploadSound, Ensures
      <4> QED  BY <1>0, <2>1, <2>3, <3>1, <3>2, <4>1 DEF UploadSound, Held
    <3>3. CASE v # u
      <4>1. at'.delete[u] = at.delete[u]  BY <1>0, <2>5, <3>3 DEF AtType
      <4> QED  BY <1>0, <2>1, <2>3, <3>1, <3>3, <4>1, UploadKept DEF UploadLeft
    <3> QED  BY <3>2, <3>3
  <2> QED  BY <2>1, <2>4, <2>5
<1>10. ASSUME NEW v \in Uploads, DeleteObject(v) PROVE UploadSound(u)'
  <2>1. /\ at.delete[v] = "leased" /\ UNCHANGED <<reference, asset, uses>>
        /\ dropped \subseteq dropped'
        /\ \/ object' = Gone(v) /\ at' = [at EXCEPT !.delete[v] = "removed"] /\ guard' = guard
           \/ Release(v, "user") /\ at' = [at EXCEPT !.delete[v] = "idle"]
        /\ (object' = object \/ object' = Gone(v))
        /\ \/ object' = Gone(v) /\ guard' = guard /\ at' = [at EXCEPT !.delete[v] = "removed"]
           \/ object' = object \/ v \in dropped'
    BY <1>0, <1>10, FailsTyped DEF DeleteObject
  <2>2. at'.bind = at.bind /\ at'.complete = at.complete  BY <1>0, <2>1 DEF AtType
  <2>3. Known(u)' => Known(u)  BY <2>1, <2>2 DEF Known, HasAsset
  <2>4. Held(v, "user")  BY <2>1 DEF OInv, UploadSound
  <2>5. CASE v # u
    <3>1. at'.delete[u] = at.delete[u]  BY <1>0, <2>1, <2>5 DEF AtType
    <3>2. object'[u] = object[u] /\ guard'[u] = guard[u]
      BY <1>0, <2>1, <2>4, <2>5, GoneRows, ReleaseRows
    <3> QED  BY <1>0, <2>1, <2>3, <3>1, <3>2, UploadKept DEF UploadLeft
  <2>6. CASE v = u /\ object' = Gone(v) /\ at' = [at EXCEPT !.delete[v] = "removed"] /\ guard' = guard
    <3>1. at'.delete[u] = "removed"  BY <1>0, <2>6 DEF AtType
    <3>2. object'[u] \in {"absent", "gone"} /\ (object[u] # "absent" => object'[u] = "gone")
      BY <1>0, <2>6, GoneRows
    <3> QED  BY <1>0, <2>3, <2>4, <2>6, <3>1, <3>2 DEF UploadSound, Held
  <2>7. CASE /\ v = u /\ Release(v, "user") /\ at' = [at EXCEPT !.delete[v] = "idle"]
             /\ object' = object \/ v \in dropped'
    <3>1. at'.delete[u] = "idle"  BY <1>0, <2>7 DEF AtType
    <3>2. object[u] = "gone" => u \in dropped  BY <1>0, <2>1, <2>7 DEF UploadSound
    <3>3. object[u] # "absent" => object'[u] \in {object[u], "gone"}
      BY <1>0, <2>1, <2>7, GoneRows
    <3> QED  BY <1>0, <2>1, <2>3, <2>7, <3>1, <3>2, <3>3 DEF UploadSound
  <2> QED  BY <2>1, <2>5, <2>6, <2>7
<1>11. ASSUME NEW v \in Uploads, FinishDelete(v) PROVE UploadSound(u)'
  <2>1. CASE v # u
    <3>1. Same
      BY <1>0, <1>11, <2>1, DeletedRows DEF FinishDelete, AtType, UploadLeft, OInv, UploadSound
    <3>2. Known(u)' => Known(u)
      BY <1>0, <1>11, <2>1 DEF FinishDelete, Known, HasAsset, AtType, AssetRow
    <3> QED  BY <1>0, <3>1, <3>2, UploadKept DEF UploadLeft
  <2>2. CASE v = u
    BY <1>0, <1>11, <2>2, DeletedRows
    DEF FinishDelete, AtType, UploadSound, Known, HasAsset, AssetRow, Held
  <2> QED  BY <2>1, <2>2
<1>12. ASSUME NEW v \in Uploads, BeginDrop(v) PROVE UploadLeft(u)
  <2>1. /\ UNCHANGED <<object, guard, asset, uses, dropped>>
        /\ reference' = reference \/ reference' = [reference EXCEPT ![v] = "deleted"]
        /\ at' = at \/ at' = [at EXCEPT !.drop[v] = "alone"]
    BY <1>12 DEF BeginDrop
  <2>2. at'.delete = at.delete /\ at'.bind = at.bind /\ at'.complete = at.complete
    BY <1>0, <2>1 DEF AtType
  <2> QED  BY <1>0, <2>1, <2>2 DEF UploadLeft, Known, HasAsset
<1>13. ASSUME NEW v \in Uploads, DropObject(v) PROVE UploadSound(u)'
  <2>1. CASE v # u
    <3>1. Same
      BY <1>0, <1>13, <2>1, GoneRows
      DEF DropObject, tables, AtType, UploadLeft, OInv, UploadSound
    <3>2. Known(u)' => Known(u)
      BY <1>0, <1>13, <2>1 DEF DropObject, tables, Known, HasAsset, AtType, AssetRow
    <3> QED  BY <1>0, <3>1, <3>2, UploadKept DEF UploadLeft
  <2>2. CASE v = u
    BY <1>0, <1>13, <2>2, GoneRows
    DEF DropObject, tables, AtType, UploadSound, Known, HasAsset, AssetRow, Held
  <2> QED  BY <2>1, <2>2
<1>14. ASSUME NEW v \in Uploads, FinishDrop(v) PROVE UploadLeft(u)
  <2>1. Same
    BY <1>0, <1>14 DEF FinishDrop, AtType
  <2>2. Known(u)' => Known(u)
    BY <1>0, <1>14 DEF FinishDrop, Known, HasAsset, AtType, AssetRow
  <2> QED  BY <2>1, <2>2 DEF UploadLeft
<1>15. ASSUME NEW v \in Uploads, QueueExpired(v) PROVE UploadLeft(u)
  <2>1. Same
    BY <1>0, <1>15 DEF QueueExpired, AtType
  <2>2. Known(u)' => Known(u)
    BY <1>0, <1>15 DEF QueueExpired, Known, HasAsset, AtType, AssetRow
  <2> QED  BY <2>1, <2>2 DEF UploadLeft
<1>16. ASSUME NEW v \in Uploads, DeleteProjectAsset(v) PROVE UploadLeft(u)
  <2>1. Same
    BY <1>0, <1>16 DEF DeleteProjectAsset, AtType
  <2>2. Known(u)' => Known(u)
    BY <1>0, <1>16 DEF DeleteProjectAsset, Known, HasAsset, AtType, AssetRow
  <2> QED  BY <2>1, <2>2 DEF UploadLeft
<1>17. ASSUME NEW r \in Results, SaveResult(r) PROVE UploadLeft(u)
  <2>1. Same
    BY <1>0, <1>17 DEF SaveResult, tables, AtType
  <2>2. Known(u)' => Known(u)
    BY <1>0, <1>17 DEF SaveResult, tables, Known, HasAsset, AtType, AssetRow
  <2> QED  BY <2>1, <2>2 DEF UploadLeft
<1>18. ASSUME NEW r \in Results, GuardResult(r) PROVE UploadLeft(u)
  <2>1. Same
    BY <1>0, <1>18, EnsuredRows DEF GuardResult, GuardsKept, AtType
  <2>2. Known(u)' => Known(u)
    BY <1>0, <1>18 DEF GuardResult, Known, HasAsset, AtType, AssetRow
  <2> QED  BY <2>1, <2>2 DEF UploadLeft
<1>19. ASSUME NEW r \in Results, PersistWork(r) PROVE UploadLeft(u)
  <2>1. Same
    BY <1>0, <1>19 DEF PersistWork, AtType
  <2>2. Known(u)' => Known(u)
    BY <1>0, <1>19 DEF PersistWork, Known, HasAsset, AtType, AssetRow
  <2> QED  BY <2>1, <2>2 DEF UploadLeft
<1>20. ASSUME NEW r \in Results, CancelResult(r) PROVE UploadLeft(u)
  <2>1. Same
    BY <1>0, <1>20, GoneRows DEF CancelResult, AtType
  <2>2. Known(u)' => Known(u)
    BY <1>0, <1>20 DEF CancelResult, Known, HasAsset, AtType, AssetRow
  <2> QED  BY <2>1, <2>2 DEF UploadLeft
<1>21. ASSUME NEW r \in Results, DropLateWork(r) PROVE UploadLeft(u)
  <2>1. Same
    BY <1>0, <1>21 DEF DropLateWork, AtType
  <2>2. Known(u)' => Known(u)
    BY <1>0, <1>21 DEF DropLateWork, Known, HasAsset, AtType, AssetRow
  <2> QED  BY <2>1, <2>2 DEF UploadLeft
<1>22. ASSUME NEW i \in 1..MaxCleanups, BeginCleanup(i) PROVE UploadSound(u)'
  <2> DEFINE k == cleanup[i].of
  <2>1. /\ UNCHANGED <<object, reference, asset, uses, dropped>>
        /\ \/ GuardsKept /\ at' = at
           \/ /\ guard[k].state \in {"none", "active"}
              /\ guard'[k] = [state |-> "deleting", token |-> "cleanup"]
              /\ \A j \in Objects \ {k} : guard'[j] = guard[j]
              /\ at' = [at EXCEPT !.clean = [id |-> i, stage |-> "leased"]]
    BY <1>22, BeginCleanupRows DEF Held
  <2>2. at'.delete = at.delete /\ at'.bind = at.bind /\ at'.complete = at.complete
    BY <1>0, <2>1 DEF AtType
  <2>3. Known(u)' => Known(u)  BY <2>1, <2>2 DEF Known, HasAsset
  <2>4. CASE guard'[u] = guard[u] \/ guard[u].state = "none"
    BY <1>0, <2>1, <2>2, <2>3, <2>4, UploadKept DEF UploadLeft
  <2>5. CASE /\ guard[u].state \in {"none", "active"}
             /\ guard'[u] = [state |-> "deleting", token |-> "cleanup"]
    BY <1>0, <2>1, <2>2, <2>3, <2>5 DEF UploadSound, Held
  <2>6. CASE k # u  BY <1>0, <2>1, <2>4, <2>6 DEF GuardsKept
  <2>7. CASE k = u  BY <1>0, <2>1, <2>4, <2>5, <2>7 DEF GuardsKept
  <2> QED  BY <2>6, <2>7
<1>23. ASSUME CleanObject PROVE UploadSound(u)'
  <2> DEFINE k == cleanup[at.clean.id].of
  <2>1. /\ k \in Objects /\ Held(k, "cleanup") /\ (k \in Uploads \ dropped => object[k] # "gone")
        /\ UNCHANGED <<reference, asset, uses>> /\ dropped \subseteq dropped'
        /\ \/ object' = Gone(k) /\ guard' = guard /\ at' = [at EXCEPT !.clean.stage = "removed"]
           \/ /\ guard'[k] = ActiveGuard /\ \A j \in Objects \ {k} : guard'[j] = guard[j]
              /\ \/ object' = object
                 \/ object' = Gone(k) /\ (k \in Uploads => k \in dropped')
              /\ at' = [at EXCEPT !.clean = Quiet.clean]
    BY <1>23, CleanObjectRows
  <2>2. at'.delete = at.delete /\ at'.bind = at.bind /\ at'.complete = at.complete
    BY <1>0, <2>1 DEF AtType
  <2>3. Known(u)' => Known(u)  BY <2>1, <2>2 DEF Known, HasAsset
  <2>4. CASE k # u
    <3>1. object'[u] = object[u] /\ guard'[u] = guard[u]  BY <1>0, <2>1, <2>4, GoneRows
    <3> QED  BY <1>0, <2>1, <2>2, <2>3, <3>1, UploadKept DEF UploadLeft
  <2>5. CASE k = u
    <3>1. at.delete[u] = "idle"  BY <1>0, <2>1, <2>5 DEF UploadSound, Held
    <3>2. CASE object' = Gone(k) /\ guard' = guard
      <4>1. object'[u] \in {"absent", "gone"} /\ (object[u] # "absent" => object'[u] = "gone")
        BY <1>0, <2>5, <3>2, GoneRows
      <4> QED  BY <1>0, <2>1, <2>2, <2>3, <2>5, <3>1, <3>2, <4>1 DEF UploadSound, Held
    <3>3. CASE object' = object
      BY <1>0, <2>1, <2>2, <2>3, <2>5, <3>1, <3>3 DEF UploadSound
    <3>4. CASE object' = Gone(k) /\ u \in dropped'
      <4>1. object[u] # "absent" => object'[u] = "gone"  BY <1>0, <2>5, <3>4, GoneRows
      <4> QED  BY <1>0, <2>1, <2>2, <2>3, <2>5, <3>1, <3>4, <4>1 DEF UploadSound
    <3> QED  BY <2>1, <2>5, <3>2, <3>3, <3>4
  <2> QED  BY <2>4, <2>5
<1>24. ASSUME FinishCleanup PROVE UploadSound(u)'
  <2> DEFINE k == cleanup[at.clean.id].of
  <2>1. /\ k \in Objects /\ Held(k, "cleanup")
        /\ UNCHANGED <<object, reference, uses, dropped>>
        /\ at' = [at EXCEPT !.clean = Quiet.clean]
        /\ guard'[k] = [state |-> "deleted", token |-> "none"]
        /\ \A j \in Objects \ {k} : guard'[j] = guard[j]
        /\ asset' = asset \/ asset' = [asset EXCEPT ![k].objectDeleted = TRUE]
    BY <1>24, FinishCleanupRows
  <2>2. at'.delete = at.delete /\ at'.bind = at.bind /\ at'.complete = at.complete
    BY <1>0, <2>1 DEF AtType
  <2>3. Known(u)' => Known(u)  BY SMTT(40), <1>0, <2>1, <2>2 DEF Known, HasAsset, AssetRow
  <2>4. CASE k # u
    BY <1>0, <2>1, <2>2, <2>3, <2>4, UploadKept DEF UploadLeft
  <2>5. CASE k = u
    <3>1. at.delete[u] = "idle"  BY <1>0, <2>1, <2>5 DEF UploadSound, Held
    <3> QED  BY <1>0, <2>1, <2>2, <2>3, <2>5, <3>1 DEF UploadSound
  <2> QED  BY <2>4, <2>5
<1>25. ASSUME StopObjects PROVE UploadLeft(u)
  <2>1. Same
    BY <1>0, <1>25 DEF StopObjects, tables, AtType, Quiet
  <2>2. Known(u)' => Known(u)
    BY <1>0, <1>25 DEF StopObjects, tables, Known, HasAsset, AtType, AssetRow, Quiet
  <2> QED  BY <2>1, <2>2 DEF UploadLeft
<1>26. ASSUME UploadLeft(u) PROVE UploadSound(u)'  BY <1>0, <1>26, UploadKept
<1> QED
  BY <1>1, <1>2, <1>3, <1>4, <1>5, <1>6, <1>7, <1>8, <1>9, <1>10, <1>11, <1>12, <1>13, <1>14,
     <1>15, <1>16, <1>17, <1>18, <1>19, <1>20, <1>21, <1>22, <1>23, <1>24, <1>25, <1>26 DEF ObjectsNext

\* What a step does that leaves a result to the others.
ResultLeft(r) ==
    /\ object'[r] = object[r] /\ uses'[r] = uses[r]
    /\ \/ at'.store[r] = at.store[r]
       \/ at.store[r] # "idle" /\ at'.store[r] = "done"
    /\ \A i \in 1..MaxCleanups :
          cleanup'[i].st # "none" /\ cleanup'[i].of = r => cleanup[i].st # "none" /\ cleanup[i].of = r

\* A row that is scheduled for one object is no row of another.
LEMMA RowsOfOthers ==
  ASSUME Typed, NEW k \in Objects, NEW r \in Objects, r # k,
         cleanup' = cleanup \/ Schedule(k, TRUE) \/ Schedule(k, FALSE)
  PROVE  \A i \in 1..MaxCleanups : cleanup'[i].st # "none" /\ cleanup'[i].of = r
                                       => cleanup[i].st # "none" /\ cleanup[i].of = r
<1>1. CASE cleanup' = cleanup  BY <1>1
<1>2. CASE Schedule(k, TRUE)
  <2>1. TRUE \in BOOLEAN  OBVIOUS
  <2>2. \A i \in 1..MaxCleanups : cleanup'[i] = cleanup[i] \/ cleanup'[i] = NewCleanup(k, TRUE)
    BY <1>2, <2>1, ScheduleRows
  <2> QED  BY <2>2 DEF NewCleanup
<1>3. CASE Schedule(k, FALSE)
  <2>1. FALSE \in BOOLEAN  OBVIOUS
  <2>2. \A i \in 1..MaxCleanups : cleanup'[i] = cleanup[i] \/ cleanup'[i] = NewCleanup(k, FALSE)
    BY <1>3, <2>1, ScheduleRows
  <2> QED  BY <2>2 DEF NewCleanup
<1> QED  BY <1>1, <1>2, <1>3

\* Such a step keeps what is said of the result.
LEMMA ResultKept ==
  ASSUME NEW r \in Results, ResultSound(r), ResultLeft(r)
  PROVE  ResultSound(r)'
BY DEF ResultSound, ResultLeft

\* The steps of the result r itself, of others (q), and of the cleanup.
LEMMA ResultSoundStep ==
  ASSUME OInv, ObjectsNext, NEW r \in Results
  PROVE  ResultSound(r)'
<1>0. /\ Typed /\ at \in AtType /\ ResultSound(r) /\ r \in Objects
      /\ \A u \in Uploads : u \in Objects /\ u # r
      /\ uses \in [Objects -> SUBSET {"generation", "brand", "work"}]
      /\ object \in [Objects -> Stores]
  BY ObjectNamesAssumption DEF OInv, Typed, ObjectsTypeOK, Objects, Stores
<1> DEFINE Rows == \A i \in 1..MaxCleanups : cleanup'[i].st # "none" /\ cleanup'[i].of = r
                                                => cleanup[i].st # "none" /\ cleanup[i].of = r
           Same == /\ object'[r] = object[r] /\ uses'[r] = uses[r]
                   /\ \/ at'.store[r] = at.store[r]
                      \/ at.store[r] # "idle" /\ at'.store[r] = "done"
<1>1. ASSUME NEW u \in Uploads, CreateUploadPolicy(u) PROVE ResultLeft(r)
  <2>1. Same  BY <1>0, <1>1 DEF CreateUploadPolicy, AtType
  <2>2. Rows  BY <1>0, <1>1 DEF CreateUploadPolicy
  <2> QED  BY <2>1, <2>2 DEF ResultLeft
<1>2. ASSUME NEW u \in Uploads, NEW q \in {"good", "bad"}, Upload(u, q) PROVE ResultLeft(r)
  <2>1. Same  BY <1>0, <1>2 DEF Upload, tables, AtType
  <2>2. Rows  BY <1>0, <1>2 DEF Upload, tables
  <2> QED  BY <2>1, <2>2 DEF ResultLeft
<1>3. ASSUME NEW u \in Uploads, NEW c \in Clients, BeginComplete(u, c) PROVE ResultLeft(r)
  <2>1. Same  BY <1>0, <1>3 DEF BeginComplete, tables, AtType
  <2>2. Rows  BY <1>0, <1>3 DEF BeginComplete, tables
  <2> QED  BY <2>1, <2>2 DEF ResultLeft
<1>4. ASSUME NEW u \in Uploads, NEW c \in Clients, ValidateUpload(u, c) PROVE ResultLeft(r)
  <2>1. Same  BY <1>0, <1>4 DEF ValidateUpload, AtType
  <2>2. cleanup' = cleanup \/ Schedule(u, TRUE) \/ Schedule(u, FALSE)
    BY <1>4 DEF ValidateUpload, ScheduleOrphan
  <2>3. Rows  BY <1>0, <2>2, RowsOfOthers
  <2> QED  BY <2>1, <2>3 DEF ResultLeft
<1>5. ASSUME NEW u \in Uploads, NEW c \in Clients, FinishComplete(u, c) PROVE ResultLeft(r)
  <2>1. Same  BY <1>0, <1>5 DEF FinishComplete, AtType
  <2>2. cleanup' = cleanup \/ Schedule(u, TRUE) \/ Schedule(u, FALSE)
    BY <1>5 DEF FinishComplete, ScheduleOrphan
  <2>3. Rows  BY <1>0, <2>2, RowsOfOthers
  <2> QED  BY <2>1, <2>3 DEF ResultLeft
<1>6. ASSUME NEW u \in Uploads, LookUp(u) PROVE ResultLeft(r)
  <2>1. Same  BY <1>0, <1>6 DEF LookUp, tables, AtType
  <2>2. Rows  BY <1>0, <1>6 DEF LookUp, tables
  <2> QED  BY <2>1, <2>2 DEF ResultLeft
<1>7. ASSUME NEW u \in Uploads, NEW by \in {"generation", "brand"}, BindObject(u, by) PROVE ResultLeft(r)
  <2>1. Same  BY <1>0, <1>7 DEF BindObject, AtType
  <2>2. Rows  BY <1>0, <1>7 DEF BindObject
  <2> QED  BY <2>1, <2>2 DEF ResultLeft
<1>8. ASSUME NEW u \in Uploads, UnbindObject(u) PROVE ResultLeft(r)
  <2>1. Same  BY <1>0, <1>8 DEF UnbindObject, AtType
  <2>2. Rows  BY <1>0, <1>8 DEF UnbindObject
  <2> QED  BY <2>1, <2>2 DEF ResultLeft
<1>9. ASSUME NEW u \in Uploads, BeginDelete(u) PROVE ResultLeft(r)
  <2>1. Same  BY <1>0, <1>9 DEF BeginDelete, AtType
  <2>2. Rows  BY <1>0, <1>9 DEF BeginDelete
  <2> QED  BY <2>1, <2>2 DEF ResultLeft
<1>10. ASSUME NEW u \in Uploads, DeleteObject(u) PROVE ResultLeft(r)
  <2>0. (object' = object \/ object' = Gone(u))  BY <1>0, <1>10, FailsTyped DEF DeleteObject
  <2>1. Same  BY SMTT(40), <1>0, <1>10, <2>0, GoneRows DEF DeleteObject, AtType
  <2>2. Rows  BY <1>0, <1>10 DEF DeleteObject
  <2> QED  BY <2>1, <2>2 DEF ResultLeft
<1>11. ASSUME NEW u \in Uploads, FinishDelete(u) PROVE ResultLeft(r)
  <2>1. Same  BY <1>0, <1>11 DEF FinishDelete, AtType
  <2>2. Rows  BY <1>0, <1>11 DEF FinishDelete
  <2> QED  BY <2>1, <2>2 DEF ResultLeft
<1>12. ASSUME NEW u \in Uploads, BeginDrop(u) PROVE ResultLeft(r)
  <2>1. Same  BY <1>0, <1>12 DEF BeginDrop, AtType
  <2>2. Rows  BY <1>0, <1>12 DEF BeginDrop
  <2> QED  BY <2>1, <2>2 DEF ResultLeft
<1>13. ASSUME NEW u \in Uploads, DropObject(u) PROVE ResultLeft(r)
  <2>1. Same  BY <1>0, <1>13, GoneRows DEF DropObject, tables, AtType
  <2>2. Rows  BY <1>0, <1>13 DEF DropObject, tables
  <2> QED  BY <2>1, <2>2 DEF ResultLeft
<1>14. ASSUME NEW u \in Uploads, FinishDrop(u) PROVE ResultLeft(r)
  <2>1. Same  BY <1>0, <1>14 DEF FinishDrop, AtType
  <2>2. Rows  BY <1>0, <1>14 DEF FinishDrop
  <2> QED  BY <2>1, <2>2 DEF ResultLeft
<1>15. ASSUME NEW u \in Uploads, QueueExpired(u) PROVE ResultLeft(r)
  <2>1. Same  BY <1>0, <1>15 DEF QueueExpired, AtType
  <2>2. cleanup' = cleanup \/ Schedule(u, TRUE) \/ Schedule(u, FALSE)
    BY <1>15 DEF QueueExpired, ScheduleOrphan
  <2>3. Rows  BY <1>0, <2>2, RowsOfOthers
  <2> QED  BY <2>1, <2>3 DEF ResultLeft
<1>16. ASSUME NEW u \in Uploads, DeleteProjectAsset(u) PROVE ResultLeft(r)
  <2>1. Same  BY <1>0, <1>16 DEF DeleteProjectAsset, AtType
  <2>2. cleanup' = cleanup \/ Schedule(u, TRUE) \/ Schedule(u, FALSE)
    BY <1>16 DEF DeleteProjectAsset, ScheduleOrphan
  <2>3. Rows  BY <1>0, <2>2, RowsOfOthers
  <2> QED  BY <2>1, <2>3 DEF ResultLeft
<1>17. ASSUME NEW q \in Results, SaveResult(q) PROVE ResultSound(r)'
  <2>1. CASE q # r
    <3>1. Same  BY <1>0, <1>17, <2>1 DEF SaveResult, tables, AtType, Objects
    <3>2. Rows  BY <1>0, <1>17, <2>1 DEF SaveResult, tables, Objects
    <3> QED  BY <1>0, <3>1, <3>2, ResultKept DEF ResultLeft
  <2>2. CASE q = r
    BY <1>0, <1>17, <2>2 DEF SaveResult, tables, AtType, ResultSound
  <2> QED  BY <2>1, <2>2
<1>18. ASSUME NEW q \in Results, GuardResult(q) PROVE ResultSound(r)'
  <2>1. CASE q # r
    <3>1. Same  BY <1>0, <1>18, <2>1 DEF GuardResult, AtType, Objects
    <3>2. Rows  BY <1>0, <1>18, <2>1 DEF GuardResult, Objects
    <3> QED  BY <1>0, <3>1, <3>2, ResultKept DEF ResultLeft
  <2>2. CASE q = r
    BY <1>0, <1>18, <2>2 DEF GuardResult, AtType, ResultSound
  <2> QED  BY <2>1, <2>2
<1>19. ASSUME NEW q \in Results, PersistWork(q) PROVE ResultSound(r)'
  <2>1. CASE q # r
    <3>1. Same  BY <1>0, <1>19, <2>1 DEF PersistWork, AtType, Objects
    <3>2. Rows  BY <1>0, <1>19, <2>1 DEF PersistWork, Objects
    <3> QED  BY <1>0, <3>1, <3>2, ResultKept DEF ResultLeft
  <2>2. CASE q = r
    BY <1>0, <1>19, <2>2 DEF PersistWork, AtType, ResultSound
  <2> QED  BY <2>1, <2>2
<1>20. ASSUME NEW q \in Results, CancelResult(q) PROVE ResultSound(r)'
  <2>1. CASE q # r
    <3>1. Same  BY <1>0, <1>20, <2>1, GoneRows DEF CancelResult, AtType, Objects
    <3>2. Rows
      <4>1. Schedule(q, FALSE) /\ q \in Objects  BY <1>20 DEF CancelResult, Objects
      <4> QED  BY <1>0, <2>1, <4>1, RowsOfOthers
    <3> QED  BY <1>0, <3>1, <3>2, ResultKept DEF ResultLeft
  <2>2. CASE q = r
    BY <1>0, <1>20, <2>2, ScheduleRows DEF CancelResult, AtType, ResultSound, NewCleanup
  <2> QED  BY <2>1, <2>2
<1>21. ASSUME NEW q \in Results, DropLateWork(q) PROVE ResultSound(r)'
  <2>1. CASE q # r
    <3>1. Same  BY <1>0, <1>21, <2>1 DEF DropLateWork, AtType, Objects
    <3>2. Rows
      <4>1. Schedule(q, FALSE) /\ q \in Objects  BY <1>21 DEF DropLateWork, Objects
      <4> QED  BY <1>0, <2>1, <4>1, RowsOfOthers
    <3> QED  BY <1>0, <3>1, <3>2, ResultKept DEF ResultLeft
  <2>2. CASE q = r
    BY <1>0, <1>21, <2>2, ScheduleRows DEF DropLateWork, AtType, ResultSound, NewCleanup
  <2> QED  BY <2>1, <2>2
<1>22. ASSUME NEW i \in 1..MaxCleanups, BeginCleanup(i) PROVE ResultLeft(r)
  <2>1. Same  BY <1>0, <1>22, BeginCleanupRows DEF AtType
  <2>2. Rows  BY <1>22, BeginCleanupRows
  <2> QED  BY <2>1, <2>2 DEF ResultLeft
<1>23. ASSUME CleanObject PROVE ResultSound(r)'
  <2> DEFINE i == at.clean.id
             k == cleanup[i].of
  <2>1. /\ k \in Objects /\ Held(k, "cleanup") /\ i \in 1..MaxCleanups
        /\ cleanup[i].st \in {"queued", "retrying"}
        /\ uses' = uses /\ (object' = object \/ object' = Gone(k)) /\ at'.store = at.store
    BY <1>0, <1>23, CleanObjectRows DEF AtType
  <2>2. Rows  BY <1>23, CleanObjectRows
  <2>3. CASE k # r
    <3>1. object'[r] = object[r]  BY <1>0, <2>1, <2>3, GoneRows
    <3> QED  BY <1>0, <2>1, <2>2, <3>1, ResultKept DEF ResultLeft
  <2>4. CASE k = r
    <3>1. at.store[r] = "done"  BY <1>0, <2>1, <2>4 DEF ResultSound
    <3>2. uses[r] = {}  BY <1>0, <2>1, <2>4 DEF OInv, UsesActive, Held
    <3> QED  BY <1>0, <2>1, <2>2, <3>1, <3>2 DEF ResultSound
  <2> QED  BY <2>3, <2>4
<1>24. ASSUME FinishCleanup PROVE ResultLeft(r)
  <2>1. Same  BY <1>0, <1>24, FinishCleanupRows DEF AtType
  <2>2. Rows  BY <1>24, FinishCleanupRows
  <2> QED  BY <2>1, <2>2 DEF ResultLeft
<1>25. ASSUME StopObjects PROVE ResultLeft(r)
  <2>1. Same  BY <1>0, <1>25 DEF StopObjects, tables, AtType, Quiet
  <2>2. Rows  BY <1>0, <1>25 DEF StopObjects, tables
  <2> QED  BY <2>1, <2>2 DEF ResultLeft
<1>26. ASSUME ResultLeft(r) PROVE ResultSound(r)'  BY <1>0, <1>26, ResultKept
<1> QED
  BY <1>1, <1>2, <1>3, <1>4, <1>5, <1>6, <1>7, <1>8, <1>9, <1>10, <1>11, <1>12, <1>13, <1>14,
     <1>15, <1>16, <1>17, <1>18, <1>19, <1>20, <1>21, <1>22, <1>23, <1>24, <1>25, <1>26 DEF ObjectsNext

\* The invariant holds at first, and every step keeps it.
LEMMA InitOInv ==
  ASSUME ObjectsInit
  PROVE  OInv
<1>1. Quiet \in AtType /\ Quiet.clean = [id |-> 0, stage |-> "idle"]
  BY CleanupsAssumption DEF Quiet, AtType
<1>2. Typed
  BY <1>1, CleanupsAssumption
  DEF Typed, ObjectsInit, ObjectsTypeOK, TriesLeft, NoGuard, NoAsset, NoCleanup
<1>3. CleaningSound /\ UsesActive  BY <1>1 DEF ObjectsInit, CleaningSound, UsesActive
<1>4. \A u \in Uploads : UploadSound(u)
  BY DEF ObjectsInit, UploadSound, Known, HasAsset, Objects, NoAsset, Quiet
<1>5. \A r \in Results : ResultSound(r)
  BY DEF ObjectsInit, ResultSound, Objects, NoCleanup, Quiet
<1> QED  BY <1>2, <1>3, <1>4, <1>5 DEF OInv

LEMMA OInvStep ==
  ASSUME OInv, [ObjectsNext]_commerceObjects
  PROVE  OInv'
<1>1. CASE ObjectsNext
  <2>1. Typed'  BY <1>1, TypedStep DEF OInv
  <2>2. CleaningSound' /\ UsesActive'  BY <1>1, CleaningSoundStep, UsesActiveStep
  <2>3. \A u \in Uploads : UploadSound(u)'  BY <1>1, UploadSoundStep
  <2>4. \A r \in Results : ResultSound(r)'  BY <1>1, ResultSoundStep
  <2> QED  BY <2>1, <2>2, <2>3, <2>4 DEF OInv
<1>2. CASE UNCHANGED commerceObjects
  BY <1>2 DEF OInv, commerceObjects, Typed, ObjectsTypeOK, TriesLeft, CleaningSound, UsesActive,
              UploadSound, ResultSound, Known, HasAsset, Held
<1> QED  BY <1>1, <1>2

-----------------------------------------------------------------------------
(***************************************************************************)
(* The theorems.                                                           *)
(***************************************************************************)

\* Every row of the guards, the references, the assets and the cleanups has one of its
\* states, whatever the requests, the cleanup and the stops do to it.
THEOREM ObjectsTypeCorrect == ObjectsSpec => []ObjectsTypeOK
<1>1. ObjectsInit => OInv  BY InitOInv
<1>2. OInv /\ [ObjectsNext]_commerceObjects => OInv'  BY OInvStep
<1>3. OInv => ObjectsTypeOK  BY DEF OInv, Typed
<1> QED  BY <1>1, <1>2, <1>3, PTL DEF ObjectsSpec

\* An object that a row refers to is in the store and its guard active, with every
\* interleaving of uploads, deletions, cleanups and stops, for any number of them; only
\* the older handler, and a store that reports a failure, take uploads away past the guard.
THEOREM UsedObjectsAlwaysExist == ObjectsSpec => []UsedObjectsExist
<1>1. ObjectsInit => OInv  BY InitOInv
<1>2. OInv /\ [ObjectsNext]_commerceObjects => OInv'  BY OInvStep
<1>3. ASSUME OInv PROVE UsedObjectsExist
  <2>1. ASSUME NEW k \in Objects \ dropped
        PROVE  /\ uses[k] # {} => guard[k].state = "active" /\ object[k] = "good"
               /\ HasAsset(k) /\ guard[k].state = "active" => object[k] = "good"
    <3>1. uses[k] # {} => guard[k].state = "active"  BY <1>3 DEF OInv, UsesActive
    <3>2. CASE k \in Uploads
      BY <1>3, <2>1, <3>1, <3>2 DEF OInv, UploadSound, Known
    <3>3. CASE k \in Results /\ k \notin Uploads
      BY <1>3, <3>1, <3>3 DEF OInv, ResultSound, HasAsset
    <3> QED  BY <3>2, <3>3 DEF Objects
  <2> QED  BY <2>1 DEF UsedObjectsExist
<1> QED  BY <1>1, <1>2, <1>3, PTL DEF ObjectsSpec

=============================================================================
