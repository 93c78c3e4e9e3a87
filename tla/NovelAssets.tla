------------------------------ MODULE NovelAssets ------------------------------
(***************************************************************************)
(* The visual assets of a novel video project: drafts of scenes, props and *)
(* actors, the jobs that paint them, and the portraits of its creatures.   *)
(* Handlers read rows, decide, and save them whole in a later statement or *)
(* transaction, so every statement is a step; the runner of a job is a     *)
(* goroutine beside them that holds its asset in memory while the image is *)
(* made.  Rows are deleted softly, and saving a deleted row brings it back.*)
(***************************************************************************)
EXTENDS Integers, FiniteSets, FiniteSetsExt

CONSTANTS
    NumAssets,   \* bound: the rows of assets, in the order they are created
    Intents,     \* what an asset is of, its deduplication key
    ActorIntent, \* the intent of the reference of the creature
    ImageJobs,   \* the jobs of type asset_image
    Portraits,   \* the records of portraits of the creature
    Hands,       \* bound: handlers under way at a time
    MaxEdits,    \* bound: calls of handlers
    MaxDeaths,   \* bound: how often the process dies
    None

ASSUME NovelAssetConstants ==
    /\ {NumAssets, MaxEdits, MaxDeaths} \subseteq Nat
    /\ ActorIntent \in Intents /\ None \notin ImageJobs \cup Portraits
    /\ ImageJobs \cap Portraits = {}

VARIABLES
    visual,      \* the rows of assets
    imageJob,    \* the rows of the jobs
    runner,      \* the goroutines of the jobs, each with its asset in memory
    painted,     \* how often an image was made and paid, by job or portrait
    creature,    \* the row of the creature
    portrait,    \* where the goroutine of each portrait stands
    referenced,  \* the assets that shots refer to
    editor,      \* the handlers under way
    edits, deaths

jobRows  == <<imageJob, runner, painted>>
castRows == <<creature, portrait>>
bounds   == <<edits, deaths>>
novelAssets == <<visual, jobRows, castRows, referenced, editor, bounds>>

Ids        == 1..NumAssets
AssetRow   == [made : BOOLEAN, live : BOOLEAN, approved : BOOLEAN,
               image : ImageJobs \cup Portraits \cup {None}, intent : Intents]
Unmade     == [made |-> FALSE, live |-> FALSE, approved |-> FALSE, image |-> None,
               intent |-> ActorIntent]
DraftOf(i) == [Unmade EXCEPT !.made = TRUE, !.live = TRUE, !.intent = i]
Creature   == [live : BOOLEAN, record : Portraits \cup {None}, work : Portraits \cup {None}]
NewCast    == [live |-> TRUE, record |-> None, work |-> None]
JobRow     == [status : {"none", "queued", "running", "succeeded", "failed", "cancelled"},
               of : 0..NumAssets]
Free       == [op |-> "free", at |-> 0, ids |-> {}, jobs |-> {}, row |-> Unmade, cast |-> NewCast]

AssetsInit ==
    /\ visual = [a \in Ids |-> Unmade]
    /\ imageJob = [j \in ImageJobs |-> [status |-> "none", of |-> 0]]
    /\ runner = [j \in ImageJobs |-> [pc |-> "none", row |-> Unmade]]
    /\ painted = [x \in ImageJobs \cup Portraits |-> 0]
    /\ creature = NewCast
    /\ portrait = [p \in Portraits |-> "none"]
    /\ referenced = {}
    /\ editor = [e \in Hands |-> Free]
    /\ edits = 0 /\ deaths = 0

LiveAssets   == {a \in Ids : visual[a].live}
Room         == {a \in Ids : ~visual[a].made}
NextId       == Min(Room)
ActiveJobs   == {j \in ImageJobs : imageJob[j].status \in {"queued", "running"}}
Unstarted    == {j \in ImageJobs : imageJob[j].status = "none"}
Put(a, r)    == [visual EXCEPT ![a] = r]

Begin(e, r) ==
    /\ editor[e] = Free /\ edits < MaxEdits
    /\ edits' = edits + 1
    /\ editor' = [editor EXCEPT ![e] = r]
    /\ UNCHANGED <<visual, jobRows, castRows, referenced, deaths>>

Continue(e, r) ==
    /\ editor' = [editor EXCEPT ![e] = r]
    /\ UNCHANGED <<visual, jobRows, castRows, referenced, bounds>>

Finish(e) == editor' = [editor EXCEPT ![e] = Free] /\ UNCHANGED bounds
At(e, op, n) == editor[e].op = op /\ editor[e].at = n

-----------------------------------------------------------------------------
(* A job is created with its goroutine.                                     *)
Enqueue(j, a) ==
    /\ imageJob' = [imageJob EXCEPT ![j] = [status |-> "queued", of |-> a]]
    /\ runner' = [runner EXCEPT ![j].pc = "start"]
    /\ UNCHANGED painted

(* Generating assets of a kind: the handler looks for an asset of the same  *)
(* intent and, in a later transaction, drafts one with its job if there was *)
(* none.                                                                    *)
LookForDraft(e, i) ==
    Begin(e, [Free EXCEPT !.op = "draft", !.row = DraftOf(i),
                          !.ids = {a \in LiveAssets : visual[a].intent = i}])

Draft(e) ==
    /\ At(e, "draft", 0) /\ Finish(e)
    /\ IF editor[e].ids # {} THEN UNCHANGED <<visual, jobRows>>
       ELSE \/ /\ Room # {}
               /\ visual' = Put(NextId, editor[e].row)
               /\ \E j \in Unstarted : Enqueue(j, NextId)
            \/ UNCHANGED <<visual, jobRows>>
    /\ UNCHANGED <<castRows, referenced>>

(* A sheet that locks an actor is drafted without a job.                    *)
LockSheet ==
    /\ edits < MaxEdits /\ Room # {} /\ creature.live
    /\ edits' = edits + 1
    /\ \E i \in Intents : visual' = Put(NextId, DraftOf(i))
    /\ UNCHANGED <<jobRows, castRows, referenced, editor, deaths>>

(* Retry and patch read the row and save it whole.                          *)
ReadAsset(e, op) ==
    \E a \in LiveAssets : Begin(e, [Free EXCEPT !.op = op, !.ids = {a}, !.row = visual[a]])

Retry(e) ==
    /\ At(e, "retry", 0) /\ Finish(e)
    /\ \E a \in editor[e].ids :
         \/ visual' = Put(a, editor[e].row) /\ \E j \in Unstarted : Enqueue(j, a)
         \/ UNCHANGED <<visual, jobRows>>
    /\ UNCHANGED <<castRows, referenced>>

PatchAsset(e) ==
    /\ At(e, "patch", 0) /\ Finish(e)
    /\ \E a \in editor[e].ids, ok \in BOOLEAN, i \in Intents :
         visual' = Put(a, [editor[e].row EXCEPT !.approved = ok, !.intent = i])
    /\ UNCHANGED <<jobRows, castRows, referenced>>

-----------------------------------------------------------------------------
(* The goroutine of a job: claim, read the asset, make the image, save.     *)
CanClaim(j) == imageJob[j].status = "queued"

ClaimImageJob(j) ==
    /\ runner[j].pc = "start"
    /\ IF CanClaim(j)
       THEN /\ imageJob' = [imageJob EXCEPT ![j].status = "running"]
            /\ runner' = [runner EXCEPT ![j].pc = "claimed"]
       ELSE UNCHANGED imageJob /\ runner' = [runner EXCEPT ![j].pc = "over"]
    /\ UNCHANGED <<visual, painted, castRows, referenced, editor, bounds>>

LoadAsset(j) ==
    LET a == imageJob[j].of
    IN  /\ runner[j].pc = "claimed"
        /\ IF visual[a].live
           THEN runner' = [runner EXCEPT ![j] = [pc |-> "making", row |-> visual[a]]] /\ UNCHANGED imageJob
           ELSE /\ runner' = [runner EXCEPT ![j].pc = "over"]
                /\ imageJob' = [imageJob EXCEPT ![j].status = "failed"]
        /\ UNCHANGED <<visual, painted, castRows, referenced, editor, bounds>>

(* The credits are estimated, the record written and the image made and     *)
(* paid; or one of these fails.                                             *)
MakeImage(j) ==
    /\ runner[j].pc = "making"
    /\ \/ /\ painted' = [painted EXCEPT ![j] = @ + 1]
          /\ runner' = [runner EXCEPT ![j].pc = "made", ![j].row.image = j]
       \/ runner' = [runner EXCEPT ![j].pc = "unmade"] /\ UNCHANGED painted
    /\ UNCHANGED <<visual, imageJob, castRows, referenced, editor, bounds>>

(* Asset and job in one transaction; its failure goes unnoticed.            *)
SaveImage(j) ==
    /\ runner[j].pc \in {"made", "unmade"}
    /\ runner' = [runner EXCEPT ![j].pc = "over"]
    /\ \/ /\ visual' = Put(imageJob[j].of, runner[j].row)
          /\ imageJob' = [imageJob EXCEPT ![j].status =
                 IF runner[j].pc = "made" THEN "succeeded" ELSE "failed"]
       \/ UNCHANGED <<visual, imageJob>>
    /\ UNCHANGED <<painted, castRows, referenced, editor, bounds>>

-----------------------------------------------------------------------------
(* Deleting an asset: its jobs are read, a running one or a reference       *)
(* refuses, and a transaction cancels the queued ones that are still queued.*)
FindJobs(e) ==
    /\ At(e, "delete", 0)
    /\ LET js == {j \in ActiveJobs : imageJob[j].of \in editor[e].ids}
       IN  Continue(e, IF \E j \in js : imageJob[j].status = "running" THEN Free
                       ELSE [editor[e] EXCEPT !.at = 1, !.jobs = js])

FindReferences(e) ==
    /\ At(e, "delete", 1)
    /\ Continue(e, IF editor[e].ids \cap referenced # {} THEN Free ELSE [editor[e] EXCEPT !.at = 2])

(* A mutant: the deletion cancels the jobs it found.                        *)
CancelsWhatItFound(e) == editor[e].jobs

Cancels(e) == {j \in editor[e].jobs : imageJob[j].status = "queued"}

DeleteAsset(e) ==
    /\ At(e, "delete", 2) /\ Finish(e)
    /\ imageJob' = [j \in ImageJobs |->
           IF j \in Cancels(e) THEN [imageJob[j] EXCEPT !.status = "cancelled"] ELSE imageJob[j]]
    /\ visual' = [a \in Ids |-> IF a \in editor[e].ids THEN [visual[a] EXCEPT !.live = FALSE] ELSE visual[a]]
    /\ UNCHANGED <<runner, painted, castRows, referenced>>

(* Deduplication keeps the best of each intent and removes the others but   *)
(* approved ones, ones with a job and ones a shot refers to.                *)
Score(a) == IF visual[a].approved THEN 3 ELSE IF visual[a].image # None THEN 2 ELSE 1

Better(a, b) == Score(a) > Score(b) \/ (Score(a) = Score(b) /\ a < b)

Duplicates ==
    {b \in LiveAssets : ~visual[b].approved /\
        \E a \in LiveAssets : visual[a].intent = visual[b].intent /\ Better(a, b)}

FindDuplicates(e) == Begin(e, [Free EXCEPT !.op = "dedupe", !.ids = Duplicates])

SkipActive(e) ==
    /\ At(e, "dedupe", 0)
    /\ Continue(e, [editor[e] EXCEPT !.at = 1, !.ids = @ \ {imageJob[j].of : j \in ActiveJobs}])

SkipReferenced(e) ==
    /\ At(e, "dedupe", 1)
    /\ Continue(e, [editor[e] EXCEPT !.at = 2, !.ids = @ \ referenced])

RemoveDuplicates(e) ==
    /\ At(e, "dedupe", 2) /\ Finish(e)
    /\ visual' = [a \in Ids |-> IF a \in editor[e].ids THEN [visual[a] EXCEPT !.live = FALSE] ELSE visual[a]]
    /\ UNCHANGED <<jobRows, castRows, referenced>>

(* A shot comes to refer to an asset that was there when it was checked, or *)
(* lets go of one.                                                          *)
CheckReference(e) ==
    \E a \in LiveAssets : Begin(e, [Free EXCEPT !.op = "refer", !.ids = {a}])

Refer(e) ==
    /\ At(e, "refer", 0) /\ Finish(e)
    /\ referenced' \in {referenced \cup editor[e].ids, referenced \ editor[e].ids}
    /\ UNCHANGED <<visual, jobRows, castRows>>

-----------------------------------------------------------------------------
(* Portraits.  The record of the newest one is written to the creature with *)
(* the rest of its row, and only its goroutine writes the result.           *)
ReadCreature(e, op) == creature.live /\ Begin(e, [Free EXCEPT !.op = op, !.cast = creature])

RecordPortrait(e) ==
    /\ At(e, "portrait", 0)
    /\ \/ \E p \in Portraits :
            /\ portrait[p] = "none" /\ portrait' = [portrait EXCEPT ![p] = "recorded"]
            /\ editor' = [editor EXCEPT ![e].at = 1, ![e].cast.record = p]
       \/ editor' = [editor EXCEPT ![e] = Free] /\ UNCHANGED portrait
    /\ UNCHANGED <<visual, jobRows, creature, referenced, bounds>>

StartPortrait(e) ==
    /\ At(e, "portrait", 1) /\ Finish(e)
    /\ \/ /\ creature' = editor[e].cast
          /\ portrait' = [portrait EXCEPT ![editor[e].cast.record] = "running"]
       \/ UNCHANGED castRows
    /\ UNCHANGED <<visual, jobRows, referenced>>

PatchCreature(e) ==
    /\ At(e, "creature", 0) /\ Finish(e)
    /\ creature' = editor[e].cast
    /\ UNCHANGED <<visual, jobRows, portrait, referenced>>

ActorRefs == {a \in LiveAssets : visual[a].intent = ActorIntent}

(* The reference asset of the creature: the first there is, or a new one.   *)
ActorRefId  == IF ActorRefs # {} THEN Min(ActorRefs) ELSE IF Room # {} THEN NextId ELSE 0
ActorRefRow == IF ActorRefs # {} THEN visual[ActorRefId] ELSE DraftOf(ActorIntent)
SaveActorRef(r) == ActorRefId # 0 /\ visual' = Put(ActorRefId, r)

PatchActor(e) ==
    /\ At(e, "actor", 0) /\ Finish(e)
    /\ creature' = editor[e].cast
    /\ \E yes \in BOOLEAN : SaveActorRef([ActorRefRow EXCEPT !.approved = yes])
    /\ UNCHANGED <<jobRows, portrait, referenced>>

(* The portrait is made and paid, and shown if the creature still waits for *)
(* this record.                                                             *)
MakePortrait(p) ==
    /\ portrait[p] = "running"
    /\ \/ portrait' = [portrait EXCEPT ![p] = "made"] /\ painted' = [painted EXCEPT ![p] = @ + 1]
       \/ portrait' = [portrait EXCEPT ![p] = "over"] /\ UNCHANGED painted
    /\ UNCHANGED <<visual, imageJob, runner, creature, referenced, editor, bounds>>

Awaited(p) == creature.live /\ creature.record = p

ShowPortrait(p) ==
    /\ portrait[p] = "made"
    /\ portrait' = [portrait EXCEPT ![p] = "over"]
    /\ \/ /\ Awaited(p) /\ creature' = [creature EXCEPT !.work = p]
          /\ SaveActorRef([ActorRefRow EXCEPT !.image = p])
       \/ UNCHANGED <<creature, visual>>
    /\ UNCHANGED <<jobRows, referenced, editor, bounds>>

-----------------------------------------------------------------------------
(* A new analysis drops a creature without a portrait; a new plan of images *)
(* also every asset without one, and all shots.                             *)
Analyze ==
    /\ edits < MaxEdits /\ edits' = edits + 1
    /\ creature' = [creature EXCEPT !.live = @ /\ creature.work # None]
    /\ UNCHANGED <<visual, jobRows, portrait, referenced, editor, deaths>>

PlanImages ==
    LET kept == [a \in Ids |-> [visual[a] EXCEPT !.live = @ /\ visual[a].image # None]]
    IN  /\ edits < MaxEdits /\ edits' = edits + 1
        /\ creature' = [creature EXCEPT !.live = @ /\ creature.work # None]
        /\ Room # {} /\ referenced' = {NextId}
        /\ \E i \in Intents : visual' = [kept EXCEPT ![NextId] = DraftOf(i)]
        /\ UNCHANGED <<jobRows, portrait, editor, deaths>>

(* Goroutines and handlers die with the process; running rows stay running. *)
Die ==
    /\ deaths < MaxDeaths /\ deaths' = deaths + 1
    /\ runner' = [j \in ImageJobs |->
           IF runner[j].pc = "none" THEN runner[j] ELSE [runner[j] EXCEPT !.pc = "over"]]
    /\ portrait' = [p \in Portraits |-> IF portrait[p] = "none" THEN "none" ELSE "over"]
    /\ editor' = [e \in Hands |-> Free]
    /\ UNCHANGED <<visual, imageJob, painted, creature, referenced, edits>>

Edit(e) ==
    \/ \E i \in Intents : LookForDraft(e, i)
    \/ \E op \in {"retry", "patch", "delete"} : ReadAsset(e, op)
    \/ \E op \in {"portrait", "creature", "actor"} : ReadCreature(e, op)
    \/ FindDuplicates(e) \/ CheckReference(e)
    \/ Draft(e) \/ Retry(e) \/ PatchAsset(e)
    \/ FindJobs(e) \/ FindReferences(e) \/ DeleteAsset(e)
    \/ SkipActive(e) \/ SkipReferenced(e) \/ RemoveDuplicates(e) \/ Refer(e)
    \/ RecordPortrait(e) \/ StartPortrait(e) \/ PatchCreature(e) \/ PatchActor(e)

AssetsNext ==
    \/ \E e \in Hands : Edit(e)
    \/ \E j \in ImageJobs : ClaimImageJob(j) \/ LoadAsset(j) \/ MakeImage(j) \/ SaveImage(j)
    \/ \E p \in Portraits : MakePortrait(p) \/ ShowPortrait(p)
    \/ LockSheet \/ Analyze \/ PlanImages \/ Die

AssetsSpec == AssetsInit /\ [][AssetsNext]_novelAssets

-----------------------------------------------------------------------------
AssetsTypeOK ==
    /\ visual \in [Ids -> AssetRow] /\ imageJob \in [ImageJobs -> JobRow]
    /\ runner \in [ImageJobs -> [pc : {"none", "start", "claimed", "making", "made", "unmade", "over"},
                                 row : AssetRow]]
    /\ painted \in [ImageJobs \cup Portraits -> 0..1] /\ creature \in Creature
    /\ portrait \in [Portraits -> {"none", "recorded", "running", "made", "over"}]
    /\ referenced \subseteq Ids

(* A job that was cancelled with its asset stays cancelled, paints nothing  *)
(* and costs nothing, although the deletion looks for the jobs before its   *)
(* transaction, runners claim jobs meanwhile, and a handler that saves the  *)
(* deleted row brings the asset back (handleDeleteNovelVideoAsset,          *)
(* runNovelVideoAssetImageJob).                                             *)
CancelledJobNeverPaints ==
    [][\A j \in ImageJobs : imageJob[j].status = "cancelled" =>
           painted[j] = 0 /\ UNCHANGED <<imageJob[j], painted[j]>>]_novelAssets

=============================================================================
