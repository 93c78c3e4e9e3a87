---------------------------- MODULE CommerceObjects ----------------------------
(***************************************************************************)
(* Stored objects of commerce: files users upload for their projects, and  *)
(* the pictures the program generates.  A guard row per object decides     *)
(* between those who refer to it and those who delete it: triggers refuse  *)
(* a row that refers to an object whose guard is not active, and a         *)
(* deletion changes the guard only when nothing refers to the object.      *)
(* The database and the store are changed one after the other, by          *)
(* requests and by a cleanup that may all be interrupted.                  *)
(***************************************************************************)
EXTENDS Naturals, FiniteSets

CONSTANTS
    Uploads,        \* objects that users upload
    Results,        \* objects that generations store
    Clients,        \* requests to complete the upload of an object
    MaxCleanups,    \* bound: rows of commerce_object_cleanups
    CleanupTries,   \* max_attempts of a cleanup
    MaxStops        \* bound: how often the program stops

ASSUME ObjectNamesAssumption == Uploads \cap Results = {}
ASSUME CleanupsAssumption == MaxCleanups \in Nat /\ CleanupTries \in Nat \ {0} /\ MaxStops \in Nat

Objects == Uploads \cup Results

VARIABLES
    object,     \* the store
    guard,      \* commerce_object_guards: the state and who holds the token
    reference,  \* reference_assets of the uploads
    asset,      \* commerce_assets of the uploads
    uses,       \* other rows that refer to an object
    cleanup,    \* commerce_object_cleanups
    at,         \* where the requests and the cleanup stand
    dropped,    \* history: uploads that were deleted past their guard, or by a
                \* deletion that was told it had failed
    stops

tables          == <<guard, reference, asset, uses, cleanup>>
commerceObjects == <<object, guard, reference, asset, uses, cleanup, at, dropped, stops>>

NoGuard   == [state |-> "none", token |-> "none"]
ActiveGuard == [state |-> "active", token |-> "none"]
NoAsset   == [st |-> "none", temporary |-> FALSE, objectDeleted |-> FALSE]
NoCleanup == [of |-> "none", asset |-> FALSE, st |-> "none", tries |-> 0]
Quiet == [
    complete |-> [u \in Uploads |-> [c \in Clients |-> "idle"]],
    bind     |-> [u \in Uploads |-> "idle"],
    delete   |-> [u \in Uploads |-> "idle"],
    drop     |-> [u \in Uploads |-> "idle"],
    store    |-> [r \in Results |-> "idle"],
    clean    |-> [id |-> 0, stage |-> "idle"]]

ObjectsInit ==
    /\ object = [k \in Objects |-> "absent"]
    /\ guard = [k \in Objects |-> NoGuard]
    /\ reference = [u \in Uploads |-> "none"]
    /\ asset = [u \in Uploads |-> NoAsset]
    /\ uses = [k \in Objects |-> {}]
    /\ cleanup = [i \in 1..MaxCleanups |-> NoCleanup]
    /\ at = Quiet
    /\ dropped = {}
    /\ stops = 0

(* A guard is made when it is missing; it serves while it is active.       *)
Ensured(k) == IF guard[k].state = "none" THEN [guard EXCEPT ![k] = ActiveGuard] ELSE guard
Ensures(k) == guard[k].state \in {"none", "active"}

(* The triggers on the tables that refer to objects.                       *)
MayRefer(k) == guard[k].state = "active"

(* What refers to an object, without one asset.                            *)
HasAsset(k)   == k \in Uploads /\ asset[k].st = "live" /\ ~asset[k].objectDeleted
Referred(k, exceptAsset) == uses[k] # {} \/ (HasAsset(k) /\ ~exceptAsset)

FreeCleanups == {i \in 1..MaxCleanups : cleanup[i].st = "none"}
NewCleanup(k, ofAsset) == [of |-> k, asset |-> ofAsset, st |-> "queued", tries |-> 0]

(* Rows are scheduled while the bound leaves room.                         *)
Schedule(k, ofAsset) ==
    \E i \in FreeCleanups :
        /\ \A m \in FreeCleanups : i <= m
        /\ cleanup' = [cleanup EXCEPT ![i] = NewCleanup(k, ofAsset)]

(* An upload that came to nothing is cleaned up later, unless its object   *)
(* is referred to after all.                                               *)
ScheduleOrphan(k) ==
    /\ guard' = Ensured(k)
    /\ IF Ensures(k) /\ ~Referred(k, FALSE) /\ reference[k] # "live" THEN Schedule(k, FALSE)
       ELSE UNCHANGED cleanup
-----------------------------------------------------------------------------
(* Uploads.                                                                *)

CreateUploadPolicy(u) ==
    /\ guard[u].state = "none" /\ guard' = Ensured(u)
    /\ UNCHANGED <<object, reference, asset, uses, cleanup, at, dropped, stops>>

(* The client sends the file to the store, which never overwrites one.     *)
Upload(u, quality) ==
    /\ object[u] = "absent" /\ guard[u].state # "none"
    /\ object' = [object EXCEPT ![u] = quality]
    /\ UNCHANGED <<tables, at, dropped, stops>>

(* A completed upload is answered again when its reference is there.       *)
BeginComplete(u, c) ==
    /\ at.complete[u][c] = "idle" /\ guard[u].state # "none"
    /\ at' = [at EXCEPT !.complete[u][c] =
                 IF ~Ensures(u) \/ reference[u] = "live" THEN "done" ELSE "guarded"]
    /\ UNCHANGED <<object, tables, dropped, stops>>

ValidateUpload(u, c) ==
    /\ at.complete[u][c] = "guarded"
    /\ IF object[u] = "good"
       THEN at' = [at EXCEPT !.complete[u][c] = "valid"] /\ UNCHANGED <<guard, cleanup>>
       ELSE at' = [at EXCEPT !.complete[u][c] = "done"] /\ ScheduleOrphan(u)
    /\ UNCHANGED <<object, reference, asset, uses, dropped, stops>>

(* The reference and the asset in one transaction; one reference at a time *)
(* for an object.  A failure is answered like a repetition, or cleaned up. *)
FinishComplete(u, c) ==
    /\ at.complete[u][c] = "valid"
    /\ at' = [at EXCEPT !.complete[u][c] = "done"]
    /\ \/ /\ MayRefer(u) /\ reference[u] # "live"
          /\ reference' = [reference EXCEPT ![u] = "live"]
          /\ \E temporary \in BOOLEAN :
                asset' = [asset EXCEPT ![u] = [NoAsset EXCEPT !.st = "live", !.temporary = temporary]]
          /\ UNCHANGED <<guard, cleanup>>
       \/ /\ reference[u] = "live" /\ UNCHANGED <<guard, reference, asset, cleanup>>
       \/ /\ reference[u] # "live" /\ ScheduleOrphan(u)
          /\ UNCHANGED <<reference, asset>>
    /\ UNCHANGED <<object, uses, dropped, stops>>

(* A generation or a brand takes a reference it has looked up.             *)
LookUp(u) ==
    /\ at.bind[u] = "idle" /\ reference[u] = "live"
    /\ at' = [at EXCEPT !.bind[u] = "found"]
    /\ UNCHANGED <<object, tables, dropped, stops>>

BindObject(u, by) ==
    /\ at.bind[u] = "found"
    /\ at' = [at EXCEPT !.bind[u] = "done"]
    /\ IF MayRefer(u) THEN uses' = [uses EXCEPT ![u] = @ \cup {by}] ELSE UNCHANGED uses
    /\ UNCHANGED <<object, guard, reference, asset, cleanup, dropped, stops>>

(* A brand drops its logo.                                                 *)
UnbindObject(u) ==
    /\ "brand" \in uses[u] /\ uses' = [uses EXCEPT ![u] = @ \ {"brand"}]
    /\ UNCHANGED <<object, guard, reference, asset, cleanup, at, dropped, stops>>
-----------------------------------------------------------------------------
(* Deletions.  The guard, the row and the references are read and changed  *)
(* under the lock of the guard.                                            *)

(* A mutant: references are looked at before the guard is held only.       *)
LeaseUnseen(k, holder, exceptAsset) == guard' = [guard EXCEPT ![k] = [state |-> "deleting", token |-> holder]]

Lease(k, holder, exceptAsset) ==
    /\ ~Referred(k, exceptAsset)
    /\ guard' = [guard EXCEPT ![k] = [state |-> "deleting", token |-> holder]]

Held(k, holder)    == guard[k] = [state |-> "deleting", token |-> holder]
Release(k, holder) == guard' = IF Held(k, holder) THEN [guard EXCEPT ![k] = ActiveGuard] ELSE guard
GuardDeleted(k)    == [guard EXCEPT ![k] = [state |-> "deleted", token |-> "none"]]
Gone(k)            == [object EXCEPT ![k] = IF @ = "absent" THEN "absent" ELSE "gone"]

(* A user deletes an asset.  While others refer to the object, only the    *)
(* asset goes.                                                             *)
BeginDelete(u) ==
    /\ at.delete[u] = "idle" /\ asset[u].st = "live" /\ reference[u] = "live"
    /\ Ensures(u)
    /\ \/ /\ Referred(u, TRUE) /\ UNCHANGED guard
          /\ asset' = [asset EXCEPT ![u].st = "deleted"]
          /\ UNCHANGED at
       \/ /\ Lease(u, "user", TRUE) /\ at' = [at EXCEPT !.delete[u] = "leased"] /\ UNCHANGED asset
    /\ UNCHANGED <<object, reference, uses, cleanup, dropped, stops>>

(* The store answers with an error, which may be all that went wrong.      *)
StoreFails(k, holder) ==
    /\ Release(k, holder)
    /\ \/ UNCHANGED <<object, dropped>>
       \/ object[k] \in {"good", "bad"} /\ object' = Gone(k) /\ dropped' = dropped \cup ({k} \cap Uploads)

DeleteObject(u) ==
    /\ at.delete[u] = "leased"
    /\ \/ object' = Gone(u) /\ at' = [at EXCEPT !.delete[u] = "removed"] /\ UNCHANGED <<guard, dropped>>
       \/ StoreFails(u, "user") /\ at' = [at EXCEPT !.delete[u] = "idle"]
    /\ UNCHANGED <<reference, asset, uses, cleanup, stops>>

FinishDelete(u) ==
    /\ at.delete[u] = "removed"
    /\ at' = [at EXCEPT !.delete[u] = "idle"]
    /\ IF Held(u, "user")
       THEN /\ guard' = GuardDeleted(u)
            /\ asset' = [asset EXCEPT ![u].st = "deleted", ![u].objectDeleted = TRUE]
            /\ reference' = [reference EXCEPT ![u] = "deleted"]
       ELSE UNCHANGED <<guard, asset, reference>>
    /\ UNCHANGED <<object, uses, cleanup, dropped, stops>>

(* The older handler deletes a reference and its object.  It asks for      *)
(* assets and generations, and neither for the guard nor for the others.   *)
BeginDrop(u) ==
    /\ at.drop[u] = "idle" /\ reference[u] = "live" /\ asset[u].st # "live"
    /\ IF "generation" \in uses[u]
       THEN reference' = [reference EXCEPT ![u] = "deleted"] /\ UNCHANGED at
       ELSE at' = [at EXCEPT !.drop[u] = "alone"] /\ UNCHANGED reference
    /\ UNCHANGED <<object, guard, asset, uses, cleanup, dropped, stops>>

DropObject(u) ==
    /\ at.drop[u] = "alone"
    /\ object' = Gone(u) /\ dropped' = dropped \cup {u}
    /\ at' = [at EXCEPT !.drop[u] = "removed"]
    /\ UNCHANGED <<tables, stops>>

FinishDrop(u) ==
    /\ at.drop[u] = "removed"
    /\ reference' = [reference EXCEPT ![u] = "none"]
    /\ at' = [at EXCEPT !.drop[u] = "idle"]
    /\ UNCHANGED <<object, guard, asset, uses, cleanup, dropped, stops>>
-----------------------------------------------------------------------------
(* Results of generations.                                                 *)

SaveResult(r) ==
    /\ at.store[r] = "idle" /\ object[r] = "absent"
    /\ object' = [object EXCEPT ![r] = "good"]
    /\ at' = [at EXCEPT !.store[r] = "saved"]
    /\ UNCHANGED <<tables, dropped, stops>>

GuardResult(r) ==
    /\ at.store[r] = "saved" /\ Ensures(r)
    /\ guard' = Ensured(r)
    /\ at' = [at EXCEPT !.store[r] = "guarded"]
    /\ UNCHANGED <<object, reference, asset, uses, cleanup, dropped, stops>>

(* The work and the record refer to the object from one transaction on.    *)
PersistWork(r) ==
    /\ at.store[r] = "guarded" /\ MayRefer(r)
    /\ uses' = [uses EXCEPT ![r] = @ \cup {"work"}]
    /\ at' = [at EXCEPT !.store[r] = "done"]
    /\ UNCHANGED <<object, guard, reference, asset, cleanup, dropped, stops>>

(* A canceled generation, or a transaction that fails: the object is       *)
(* deleted at once, and once more by a cleanup.                            *)
CancelResult(r) ==
    /\ at.store[r] \in {"saved", "guarded"}
    /\ object' \in {object, Gone(r)} /\ Schedule(r, FALSE)
    /\ at' = [at EXCEPT !.store[r] = "done"]
    /\ UNCHANGED <<guard, reference, asset, uses, dropped, stops>>

(* The work of an item that was canceled meanwhile is discarded.           *)
DropLateWork(r) ==
    /\ "work" \in uses[r]
    /\ uses' = [uses EXCEPT ![r] = @ \ {"work"}] /\ Schedule(r, FALSE)
    /\ UNCHANGED <<object, guard, reference, asset, at, dropped, stops>>
-----------------------------------------------------------------------------
(* Cleanups.                                                               *)

Open(u) == {i \in 1..MaxCleanups : cleanup[i].of = u /\ cleanup[i].asset
                                   /\ cleanup[i].st \in {"queued", "retrying", "failed"}}

QueueExpired(u) ==
    /\ asset[u].st = "live" /\ asset[u].temporary /\ ~asset[u].objectDeleted
    /\ ~Referred(u, TRUE) /\ Open(u) = {}
    /\ Schedule(u, TRUE)
    /\ UNCHANGED <<object, guard, reference, asset, uses, at, dropped, stops>>

(* The end of a project takes its assets along.                            *)
DeleteProjectAsset(u) ==
    /\ asset[u].st = "live"
    /\ IF Open(u) = {} THEN Schedule(u, TRUE) ELSE UNCHANGED cleanup
    /\ asset' = [asset EXCEPT ![u].st = "deleted"]
    /\ UNCHANGED <<object, guard, reference, uses, at, dropped, stops>>

(* An object that is busy, gone or referred to is left for another day.    *)
BeginCleanup(i) ==
    LET k == cleanup[i].of IN
    /\ at.clean.stage = "idle" /\ cleanup[i].st \in {"queued", "retrying"}
    /\ \/ /\ ~Ensures(k) \/ Referred(k, cleanup[i].asset)
          /\ guard' = Ensured(k) /\ cleanup' = [cleanup EXCEPT ![i].st = "retrying"]
          /\ UNCHANGED at
       \/ /\ Ensures(k) /\ Lease(k, "cleanup", cleanup[i].asset)
          /\ at' = [at EXCEPT !.clean = [id |-> i, stage |-> "leased"]]
          /\ UNCHANGED cleanup
    /\ UNCHANGED <<object, reference, asset, uses, dropped, stops>>

(* A mutant: one attempt more.                                             *)
AttemptsLeftOver(i) == cleanup[i].tries >= CleanupTries

(* A cleanup that fails with its attempts used up is given up.             *)
AttemptsUsedUp(i) == cleanup[i].tries + 1 >= CleanupTries

CleanObject ==
    LET i == at.clean.id IN
    /\ at.clean.stage = "leased"
    /\ \/ /\ object' = Gone(cleanup[i].of)
          /\ at' = [at EXCEPT !.clean.stage = "removed"]
          /\ UNCHANGED <<guard, cleanup, dropped>>
       \/ /\ StoreFails(cleanup[i].of, "cleanup")
          /\ cleanup' = [cleanup EXCEPT ![i].tries = @ + 1,
                                        ![i].st = IF AttemptsUsedUp(i) THEN "failed" ELSE "retrying"]
          /\ at' = [at EXCEPT !.clean = Quiet.clean]
    /\ UNCHANGED <<reference, asset, uses, stops>>

FinishCleanup ==
    LET i == at.clean.id
        k == cleanup[i].of IN
    /\ at.clean.stage = "removed" /\ at' = [at EXCEPT !.clean = Quiet.clean]
    /\ IF Held(k, "cleanup")
       THEN /\ guard' = GuardDeleted(k)
            /\ cleanup' = [cleanup EXCEPT ![i].st = "succeeded"]
            /\ asset' = IF cleanup[i].asset THEN [asset EXCEPT ![k].objectDeleted = TRUE] ELSE asset
       ELSE UNCHANGED <<guard, cleanup, asset>>
    /\ UNCHANGED <<object, reference, uses, dropped, stops>>

(* The program stops: what was under way is forgotten.                     *)
StopObjects ==
    /\ stops < MaxStops /\ stops' = stops + 1
    /\ at # Quiet /\ at' = [Quiet EXCEPT !.store = [r \in Results |-> IF at.store[r] = "idle" THEN "idle" ELSE "done"]]
    /\ UNCHANGED <<object, tables, dropped>>

ObjectsNext ==
    \/ \E u \in Uploads :
          \/ CreateUploadPolicy(u) \/ \E q \in {"good", "bad"} : Upload(u, q)
          \/ \E c \in Clients : BeginComplete(u, c) \/ ValidateUpload(u, c) \/ FinishComplete(u, c)
          \/ LookUp(u) \/ (\E by \in {"generation", "brand"} : BindObject(u, by)) \/ UnbindObject(u)
          \/ BeginDelete(u) \/ DeleteObject(u) \/ FinishDelete(u)
          \/ BeginDrop(u) \/ DropObject(u) \/ FinishDrop(u)
          \/ QueueExpired(u) \/ DeleteProjectAsset(u)
    \/ \E r \in Results :
          SaveResult(r) \/ GuardResult(r) \/ PersistWork(r) \/ CancelResult(r) \/ DropLateWork(r)
    \/ \E i \in 1..MaxCleanups : BeginCleanup(i)
    \/ CleanObject \/ FinishCleanup \/ StopObjects

ObjectsSpec == ObjectsInit /\ [][ObjectsNext]_commerceObjects
-----------------------------------------------------------------------------
CleanupRow == [of : Objects, asset : BOOLEAN, st : {"queued", "retrying", "failed", "succeeded"},
               tries : 0..CleanupTries]

ObjectsTypeOK ==
    /\ object \in [Objects -> {"absent", "good", "bad", "gone"}]
    /\ guard \in [Objects -> [state : {"none", "active", "deleting", "deleted"},
                              token : {"none", "user", "cleanup"}]]
    /\ reference \in [Uploads -> {"none", "live", "deleted"}]
    /\ asset \in [Uploads -> [st : {"none", "live", "deleted"}, temporary : BOOLEAN, objectDeleted : BOOLEAN]]
    /\ uses \in [Objects -> SUBSET {"generation", "brand", "work"}]
    /\ cleanup \in [1..MaxCleanups -> CleanupRow \cup {NoCleanup}]
    /\ dropped \subseteq Uploads /\ stops \in 0..MaxStops

(* An object somebody refers to is in the store, and nothing refers to one *)
(* that a deletion holds or has removed: the guard decides between the     *)
(* rows that come to refer to an object and the requests and cleanups that *)
(* delete it, in whatever order they run or stop.  The exception are the   *)
(* uploads that the older handler deletes past the guard, and those that   *)
(* the store deleted when it reported a failure: their guard is given back *)
(* as if they were there.                                                  *)
UsedObjectsExist ==
    \A k \in Objects \ dropped :
        /\ uses[k] # {} => guard[k].state = "active" /\ object[k] = "good"
        /\ HasAsset(k) /\ guard[k].state = "active" => object[k] = "good"
=============================================================================
