------------------------------ MODULE NovelRender ------------------------------
(***************************************************************************)
(* The shots of a novel video project: planning, editing, rendering of the *)
(* approved shots to videos, and the composition.                           *)
(* A render reads the approved shots, takes the user's lock, queues what it*)
(* has read and films one shot after the other in a goroutine, saving its  *)
(* copies of the rows whole; the other handlers read and save rows beside  *)
(* it.  Shots are deleted for good, and saving a deleted shot inserts it.  *)
(***************************************************************************)
EXTENDS Integers, FiniteSets, FiniteSetsExt

CONSTANTS
    NumShots,     \* bound: the rows of shots, in the order of their numbers
    Renders,      \* the calls of handleRenderNovelVideoApprovedShots
    Compositions, \* the calls of handleComposeNovelVideoProject
    Writers,      \* bound: other handlers under way at a time
    ShotCost,     \* the credits of a shot's video
    StartCredits, \* the balance of the user
    MaxRevisions, \* bound: calls of other handlers and compositions
    MaxMishaps    \* bound: how often the process dies or a save fails

ASSUME NovelRenderConstants ==
    {NumShots, ShotCost, StartCredits, MaxRevisions, MaxMishaps} \subseteq Nat /\ IsFiniteSet(Renders)

VARIABLES
    shot,        \* the rows of shots
    novel,       \* the row of the project
    takes,       \* the attempts of each render
    filmed,      \* how often an attempt was charged
    credit,      \* the balance
    render,      \* the render calls and their goroutines
    slot,        \* the render that holds the lock of the user
    composition, \* the compositions with their jobs
    unserved,    \* the shots with a queued job that nothing takes up
    writer,      \* the other handlers
    lost,        \* history: the attempts of which a save failed
    late,        \* history: the attempts queued for a shot no longer approved
    approvals,   \* history: how often each shot became approved
    revisions, mishaps

films       == <<takes, filmed, lost, late>>
reel        == <<films, credit, render, slot>>
novelRender == <<shot, novel, reel, composition, unserved, writer, approvals, revisions, mishaps>>

ShotIds     == 1..NumShots
ShotRow     == [live : BOOLEAN, work : BOOLEAN,
                status : {"needs_review", "approved", "queued", "running", "succeeded", "failed"}]
NoShot      == [live |-> FALSE, work |-> FALSE, status |-> "needs_review"]
Planned     == [NoShot EXCEPT !.live = TRUE]
ProjectStatuses == {"planned", "rendering", "partial", "succeeded", "failed"}
NotRendered == [pc |-> "new", todo |-> {}, rows |-> [s \in ShotIds |-> NoShot],
                result |-> "none",
                good |-> FALSE, bad |-> FALSE]
Off         == [op |-> "off", id |-> 0, row |-> NoShot, ids |-> {},
                project |-> "planned"]

RenderInit ==
    /\ shot = [s \in ShotIds |->
           IF s = NumShots THEN NoShot ELSE [Planned EXCEPT !.status = "approved"]]
    /\ novel = "planned"
    /\ takes = [r \in Renders |-> [s \in ShotIds |-> "none"]]
    /\ filmed = [r \in Renders |-> [s \in ShotIds |-> 0]]
    /\ lost = {} /\ late = {}
    /\ approvals = [s \in ShotIds |-> IF s = NumShots THEN 0 ELSE 1]
    /\ credit = StartCredits
    /\ render = [r \in Renders |-> NotRendered]
    /\ slot = {}
    /\ composition = [c \in Compositions |-> "none"]
    /\ unserved = {}
    /\ writer = [w \in Writers |-> Off]
    /\ revisions = 0 /\ mishaps = 0

Approved == {s \in ShotIds : shot[s].live /\ shot[s].status = "approved"}
Others   == <<composition, unserved, writer, approvals, revisions, mishaps>>

-----------------------------------------------------------------------------
(* The request to render.  The preflight reads the approved shots, checks   *)
(* that each can be rendered and that the credits suffice; the lock comes   *)
(* after it.                                                                *)
RenderGoes(r, s)  == render' = [render EXCEPT ![r].pc = s]
Refuse(r)   == render' = [render EXCEPT ![r] = [NotRendered EXCEPT !.pc = "refused"]]

Preflight(r) ==
    /\ render[r].pc = "new"
    /\ \/ /\ Approved # {} /\ credit >= ShotCost * Cardinality(Approved)
          /\ render' = [render EXCEPT ![r] = [NotRendered EXCEPT
                 !.pc = "checked", !.todo = Approved,
                 !.rows = [s \in ShotIds |-> IF s \in Approved THEN shot[s] ELSE NoShot]]]
       \/ Refuse(r)
    /\ UNCHANGED <<shot, novel, films, credit, slot, Others>>

(* A mutant: a render that does not wait for its lock.                      *)
TakeSlotAnyway(r) ==
    /\ render[r].pc = "checked" /\ slot' = {r} /\ RenderGoes(r, "locked")
    /\ UNCHANGED <<shot, novel, films, credit, Others>>

TakeSlot(r) ==
    /\ render[r].pc = "checked"
    /\ IF slot = {} THEN slot' = {r} /\ RenderGoes(r, "locked")
       ELSE Refuse(r) /\ UNCHANGED slot
    /\ UNCHANGED <<shot, novel, films, credit, Others>>

(* One transaction: the project, the shots as they were read, the attempts. *)
QueueShots(r) ==
    LET todo == render[r].todo
        rows == [s \in ShotIds |->
                   IF s \in todo THEN [render[r].rows[s] EXCEPT !.status = "queued"] ELSE NoShot]
    IN  /\ render[r].pc = "locked"
        /\ \/ /\ novel' = "rendering"
              /\ shot' = [s \in ShotIds |-> IF s \in todo THEN rows[s] ELSE shot[s]]
              /\ takes' = [takes EXCEPT ![r] =
                     [s \in ShotIds |-> IF s \in todo THEN "queued" ELSE "none"]]
              /\ render' = [render EXCEPT ![r].pc = "next", ![r].rows = rows]
              /\ late' = late \cup ({r} \X (todo \ Approved))
              /\ UNCHANGED slot
           \/ Refuse(r) /\ slot' = {} /\ UNCHANGED <<shot, novel, takes, late>>
        /\ UNCHANGED <<filmed, lost, credit, Others>>

-----------------------------------------------------------------------------
(* The goroutine films the shots in their order.  Attempt and shot are saved*)
(* one after the other, and each save may fail, which goes unnoticed.       *)
Current(r) == Min(render[r].todo)

Saves(r, status, row) ==
    LET saved == [takes EXCEPT ![r][Current(r)] = status]
        shown == [shot EXCEPT ![Current(r)] = row]
    IN  /\ \/ takes' = saved /\ shot' = shown /\ UNCHANGED <<lost, mishaps>>
           \/ /\ mishaps < MaxMishaps /\ mishaps' = mishaps + 1 /\ shot' \in {shot, shown}
              /\ \/ takes' = saved /\ UNCHANGED lost
                 \/ takes' = takes /\ lost' = lost \cup {<<r, Current(r)>>}
        /\ UNCHANGED <<novel, filmed, late, credit, slot, composition, unserved, writer>>
        /\ UNCHANGED <<approvals, revisions>>

StartShot(r) ==
    LET row == [render[r].rows[Current(r)] EXCEPT !.status = "running"]
    IN  /\ render[r].pc = "next" /\ render[r].todo # {}
        /\ Saves(r, "running", row)
        /\ render' = [render EXCEPT ![r].pc = "film", ![r].rows[Current(r)] = row]

(* A video that is made is paid with it.  A provider that reports a failed  *)
(* or empty video ends the record, but is no error to the caller; one that  *)
(* refuses is, and has the copy of the row saved once more.                 *)
Made(r) ==
    /\ credit >= ShotCost
    /\ credit' = credit - ShotCost
    /\ filmed' = [filmed EXCEPT ![r][Current(r)] = @ + 1]
    /\ render' = [render EXCEPT ![r].pc = "end", ![r].result = "work"]

Film(r) ==
    /\ render[r].pc = "film"
    /\ \/ Made(r) /\ UNCHANGED shot
       \/ \E result \in {"nothing", "error"} :
            /\ render' = [render EXCEPT ![r].pc = "end", ![r].result = result]
            /\ \/ UNCHANGED shot
               \/ result = "error" /\ shot' = [shot EXCEPT ![Current(r)] = render[r].rows[Current(r)]]
            /\ UNCHANGED <<filmed, credit>>
    /\ UNCHANGED <<novel, takes, lost, late, slot, Others>>

Outcome(r) == IF render[r].result = "error" THEN "failed" ELSE "succeeded"

EndShot(r) ==
    LET s == Current(r)
        kept == render[r].rows[s].work
        row == [render[r].rows[s] EXCEPT !.status = Outcome(r),
                    !.work = IF Outcome(r) = "failed" THEN kept ELSE render[r].result = "work"]
    IN  /\ render[r].pc = "end"
        /\ Saves(r, Outcome(r), row)
        /\ render' = [render EXCEPT ![r].pc = "next", ![r].todo = @ \ {s},
                          ![r].rows[s] = NoShot, ![r].result = "none",
                          ![r].good = @ \/ Outcome(r) = "succeeded",
                          ![r].bad = @ \/ Outcome(r) = "failed"]

FinishRender(r) ==
    LET status == IF render[r].good /\ render[r].bad THEN "partial"
                  ELSE IF render[r].bad THEN "failed" ELSE "succeeded"
    IN  /\ render[r].pc = "next" /\ render[r].todo = {}
        /\ \/ novel' = status /\ UNCHANGED mishaps
           \/ mishaps < MaxMishaps /\ mishaps' = mishaps + 1 /\ UNCHANGED novel
        /\ slot' = {} /\ render' = [render EXCEPT ![r] = [NotRendered EXCEPT !.pc = "over"]]
        /\ UNCHANGED <<shot, films, credit, composition, unserved, writer, approvals, revisions>>

-----------------------------------------------------------------------------
(* The other handlers read, then write.                                     *)
Reads(w, r) ==
    /\ writer[w] = Off /\ revisions < MaxRevisions
    /\ revisions' = revisions + 1
    /\ writer' = [writer EXCEPT ![w] = [r EXCEPT !.project = novel]]
    /\ UNCHANGED <<shot, novel, reel, composition, unserved, approvals, mishaps>>

Writes(w, op) ==
    /\ writer[w].op = op
    /\ writer' = [writer EXCEPT ![w] = Off]
    /\ UNCHANGED <<reel, revisions, mishaps>>

ReadShot(w) ==
    \E s \in ShotIds, op \in {"shot", "board"} :
        shot[s].live /\ Reads(w, [Off EXCEPT !.op = op, !.id = s, !.row = shot[s]])

SaveRead(w, row) ==
    /\ shot' = [shot EXCEPT ![writer[w].id] = row]
    /\ approvals' = IF writer[w].id \notin Approved /\ row.live /\ row.status = "approved"
                    THEN [approvals EXCEPT ![writer[w].id] = @ + 1] ELSE approvals

PatchShot(w) ==
    /\ Writes(w, "shot")
    /\ \E status \in {writer[w].row.status, "approved", "needs_review"} :
         SaveRead(w, [writer[w].row EXCEPT !.status = status])
    /\ UNCHANGED <<novel, composition, unserved>>

(* A storyboard is asked for with a job, which nothing takes up.            *)
Storyboard(w) ==
    /\ Writes(w, "board")
    /\ SaveRead(w, writer[w].row)
    /\ unserved' = unserved \cup {writer[w].id}
    /\ UNCHANGED <<novel, composition>>

ReadProject(w) ==
    \E op \in {"novel", "restore", "plan"} : Reads(w, [Off EXCEPT !.op = op])

ReadApproved(w) == Reads(w, [Off EXCEPT !.op = "jobs", !.ids = Approved])

(* A patch of the project, and new grids, save the status they had read.    *)
PatchProject(w) ==
    /\ Writes(w, "novel")
    /\ novel' = writer[w].project
    /\ UNCHANGED <<shot, approvals, composition, unserved>>

RestoreVersion(w) ==
    /\ Writes(w, "restore")
    /\ novel' = "planned"
    /\ UNCHANGED <<shot, approvals, composition, unserved>>

(* A plan deletes the shots there are and writes new ones, here one with the*)
(* next number.                                                             *)
LastShot  == Max({0} \cup {s \in ShotIds : shot[s].live})
Replanned == [s \in ShotIds |-> IF s = LastShot + 1 THEN Planned ELSE NoShot]

PlanEpisodes(w) ==
    /\ Writes(w, "plan") /\ LastShot < NumShots
    /\ shot' = Replanned
    /\ novel' = "planned"
    /\ UNCHANGED <<approvals, composition, unserved>>

(* Jobs of type shot_video are queued; no worker takes them.                *)
QueueRenderJobs(w) ==
    /\ Writes(w, "jobs")
    /\ unserved' = unserved \cup writer[w].ids
    /\ novel' = "rendering"
    /\ UNCHANGED <<shot, approvals, composition>>

-----------------------------------------------------------------------------
(* Composition: job and composition are written as running, the clips of    *)
(* the succeeded shots are put together, and the result is written.  When   *)
(* its work cannot be written both stay running.                            *)
Clips == {s \in ShotIds : shot[s].live /\ shot[s].status = "succeeded" /\ shot[s].work}

Compose(c) ==
    /\ \/ /\ composition[c] = "none" /\ revisions < MaxRevisions /\ revisions' = revisions + 1
          /\ composition' = [composition EXCEPT ![c] = "running"]
       \/ /\ composition[c] = "running" /\ UNCHANGED revisions
          /\ \E s \in {"failed", "stuck"} \cup (IF Clips = {} THEN {} ELSE {"succeeded"}) :
               composition' = [composition EXCEPT ![c] = s]
    /\ UNCHANGED <<shot, novel, reel, unserved, writer, approvals, mishaps>>

(* The process dies: the lock is free, the rows stay as they are.           *)
Stop ==
    /\ mishaps < MaxMishaps /\ mishaps' = mishaps + 1
    /\ render' = [r \in Renders |->
           [NotRendered EXCEPT !.pc = IF render[r].pc = "new" THEN "new" ELSE "over"]]
    /\ slot' = {}
    /\ writer' = [w \in Writers |-> Off]
    /\ composition' = [c \in Compositions |-> IF composition[c] = "running" THEN "stuck" ELSE composition[c]]
    /\ UNCHANGED <<shot, novel, films, credit, unserved, approvals, revisions>>

Render(r) ==
    \/ Preflight(r) \/ TakeSlot(r) \/ QueueShots(r) \/ StartShot(r)
    \/ Film(r) \/ EndShot(r) \/ FinishRender(r)

Write(w) ==
    \/ ReadShot(w) \/ PatchShot(w) \/ Storyboard(w) \/ ReadProject(w) \/ ReadApproved(w)
    \/ PatchProject(w) \/ RestoreVersion(w) \/ PlanEpisodes(w) \/ QueueRenderJobs(w)

RenderNext ==
    \/ \E r \in Renders : Render(r)
    \/ \E w \in Writers : Write(w)
    \/ \E c \in Compositions : Compose(c)
    \/ Stop

RenderSpec == RenderInit /\ [][RenderNext]_novelRender

-----------------------------------------------------------------------------
RenderTypeOK ==
    /\ shot \in [ShotIds -> ShotRow]
    /\ novel \in ProjectStatuses /\ slot \subseteq Renders /\ credit \in Nat
    /\ takes \in [Renders -> [ShotIds -> {"none", "queued", "running", "succeeded", "failed"}]]
    /\ composition \in [Compositions -> {"none", "running", "succeeded", "failed", "stuck"}]

(* What the attempts of a project say is what was paid.  The credits that   *)
(* are missing are the videos made, one for an attempt.  An attempt that    *)
(* failed cost nothing, nor did one that is queued, unless its save as      *)
(* running was lost; one that is paid says succeeded as soon as its render  *)
(* went on, unless a save of it was lost.  A shot is paid no more often     *)
(* than it was approved, except by a render that read it as approved before *)
(* it had the lock and queued it when it no longer was; and two renders of  *)
(* the user never film at the same time (runQueuedNovelVideoShots,          *)
(* handleRenderNovelVideoApprovedShots).                                    *)
Filming == {r \in Renders : render[r].pc \notin {"new", "checked", "refused", "over"}}

PaidAttempts == {x \in Renders \X ShotIds : filmed[x[1]][x[2]] > 0}

PaidInTime(s) == {r \in Renders : filmed[r][s] > 0 /\ <<r, s>> \notin late}

AttemptsTellWhatWasPaid ==
    /\ credit + ShotCost * Cardinality(PaidAttempts) = StartCredits
    /\ \A r \in Renders, s \in ShotIds : filmed[r][s] > 0 =>
         /\ takes[r][s] \notin {"none", "failed"}
         /\ <<r, s>> \notin lost => takes[r][s] # "queued"
         /\ <<r, s>> \notin lost /\ render[r].pc = "next" => takes[r][s] = "succeeded"
    /\ \A s \in ShotIds : Cardinality(PaidInTime(s)) <= approvals[s]
    /\ Cardinality(Filming) <= 1

(* A shot that succeeded has its video.                                     *)
SucceededShotHasWork == \A s \in ShotIds : shot[s].live /\ shot[s].status = "succeeded" => shot[s].work
=============================================================================
