----------------------------- MODULE NovelImages -----------------------------
(***************************************************************************)
(* The candidate images of the shots of a novel video project.  A request  *)
(* estimates the credits, writes one record and one candidate after the    *)
(* other, and paints them in goroutines; users select a candidate of a     *)
(* shot with a handler that reads the row and, in a transaction of two     *)
(* statements, unselects the others and saves it whole.                    *)
(***************************************************************************)
EXTENDS Integers, FiniteSets

CONSTANTS
    Batches,     \* the requests for candidates
    Candidates,  \* the rows they create
    BatchOf,     \* the request that creates a row
    ShotOf,      \* the shot of a row
    Slots,       \* maxConcurrentImageGenerationsPerUser
    Brushes,     \* bound: patches under way at a time
    ImageCost,   \* the credits of an image
    StartBudget, \* the balance of the user
    MaxPatches   \* bound: patches of candidates and new plans

ASSUME NovelImagesConstants ==
    /\ BatchOf \in [Candidates -> Batches] /\ Slots \in Nat \ {0}
    /\ {ImageCost, StartBudget, MaxPatches} \subseteq Nat

VARIABLES
    candidate,   \* the rows
    task,        \* where the goroutine of each row stands
    asking,      \* where each request stands
    budget,      \* the balance
    brush,       \* the patches under way, each with the row it read
    patches,
    missed       \* history: rows selected behind the back of an open patch

novelImages == <<candidate, task, asking, budget, brush, patches, missed>>

CandidateRow == [live : BOOLEAN, selected : BOOLEAN, work : BOOLEAN]
Unwritten    == [live |-> FALSE, selected |-> FALSE, work |-> FALSE]
Dry          == [id |-> {}, row |-> Unwritten, rivals |-> {}, open |-> FALSE]

ImagesInit ==
    /\ candidate = [c \in Candidates |-> Unwritten]
    /\ task = [c \in Candidates |-> "none"]
    /\ asking = [b \in Batches |-> "new"]
    /\ budget = StartBudget
    /\ brush = [d \in Brushes |-> Dry]
    /\ patches = 0
    /\ missed = {}

InBatch(b) == {c \in Candidates : BatchOf[c] = b}
Moves(c, s) == task' = [task EXCEPT ![c] = s]
Painting   == {c \in Candidates : task[c] \in {"holds", "done"}}
Admitted(b) == {c \in InBatch(b) : task[c] \in {"waits", "unpainted"} \cup {"holds", "done"}}

(* The request: the credits must suffice for all its candidates; then each  *)
(* is written, and the goroutine starts after the answer.  A failing write  *)
(* ends the request, and what was written before stays queued.              *)
CostOf(b) ==
    /\ asking[b] = "new"
    /\ asking' = [asking EXCEPT ![b] =
           IF budget >= ImageCost * Cardinality(InBatch(b)) THEN "writing" ELSE "over"]
    /\ UNCHANGED <<candidate, task, budget, brush, patches, missed>>

WriteCandidate(b) ==
    /\ asking[b] = "writing"
    /\ \/ \E c \in InBatch(b) :
            /\ task[c] = "none" /\ Moves(c, "queued")
            /\ candidate' = [candidate EXCEPT ![c].live = TRUE]
            /\ asking' = [asking EXCEPT ![b] =
                   IF \E o \in InBatch(b) \ {c} : task[o] = "none" THEN "writing" ELSE "started"]
       \/ asking' = [asking EXCEPT ![b] = "over"] /\ UNCHANGED <<candidate, task>>
    /\ UNCHANGED <<budget, brush, patches, missed>>

(* As many tasks of a batch as there are slots go on to ask for a slot, and *)
(* one that finds all taken for five seconds fails.                         *)
Admit(c) ==
    /\ task[c] = "queued" /\ asking[BatchOf[c]] = "started"
    /\ Cardinality(Admitted(BatchOf[c])) < Slots
    /\ Moves(c, "waits")
    /\ UNCHANGED <<candidate, asking, budget, brush, patches, missed>>

TakePlace(c) ==
    /\ task[c] = "waits"
    /\ IF Cardinality(Painting) < Slots THEN Moves(c, "holds") ELSE Moves(c, "unpainted")
    /\ UNCHANGED <<candidate, asking, budget, brush, patches, missed>>

(* The image is made and paid in one transaction, or the record failed.     *)
Paint(c) ==
    /\ task[c] = "holds"
    /\ \/ budget >= ImageCost /\ budget' = budget - ImageCost /\ Moves(c, "done")
       \/ Moves(c, "unpainted") /\ UNCHANGED budget
    /\ UNCHANGED <<candidate, asking, brush, patches, missed>>

(* The row is told of its work, if it is there.                             *)
SyncCandidate(c) ==
    /\ task[c] \in {"done", "unpainted"} /\ Moves(c, "over")
    /\ candidate' \in {candidate, [candidate EXCEPT ![c].work =
           @ \/ (candidate[c].live /\ task[c] = "done")]}
    /\ UNCHANGED <<asking, budget, brush, patches, missed>>

-----------------------------------------------------------------------------
(* A patch reads the row.                                                   *)
ReadCandidate(d) ==
    /\ brush[d] = Dry /\ patches < MaxPatches /\ patches' = patches + 1
    /\ \E c \in Candidates :
         /\ candidate[c].live
         /\ brush' = [brush EXCEPT ![d] = [Dry EXCEPT !.id = {c}, !.row = candidate[c]]]
    /\ UNCHANGED <<candidate, task, asking, budget, missed>>

(* A mutant: the other candidates are unselected only on request.           *)
RivalsIfAsked(c, asked, row) ==
    IF asked = "select" THEN {o \in Candidates \ {c} : candidate[o].live /\ ShotOf[o] = ShotOf[c]} ELSE {}

(* The first statement of its transaction, at READ COMMITTED, unselects the *)
(* other candidates of the shot it sees when the row to save is selected,   *)
(* asked for or not; nobody else sees the change before the commit.  Its    *)
(* locks only delay other patches or make one of two fail, so that they are *)
(* left out.                                                                *)
Rivals(c, asked, row) ==
    IF row.selected THEN {o \in Candidates \ {c} : candidate[o].live /\ ShotOf[o] = ShotOf[c]} ELSE {}

UnselectRivals(d) ==
    /\ ~brush[d].open
    /\ \E c \in brush[d].id, asked \in {"select", "unselect", "other"} :
         LET row == [brush[d].row EXCEPT !.selected =
                       CASE asked = "select" -> TRUE [] asked = "unselect" -> FALSE [] OTHER -> @]
         IN  brush' = [brush EXCEPT ![d] = [id |-> {c}, row |-> row,
                           rivals |-> Rivals(c, asked, row), open |-> TRUE]]
    /\ UNCHANGED <<candidate, task, asking, budget, patches, missed>>

(* Whether another patch has begun to select a candidate of the shot of c   *)
(* and has not seen c, deleted at that time.                                *)
Unseen(d, c) ==
    \E e \in Brushes \ {d}, o \in Candidates \ {c} :
        /\ brush[e].open /\ brush[e].row.selected /\ o \in brush[e].id
        /\ ShotOf[o] = ShotOf[c] /\ c \notin brush[e].rivals

(* The second statement saves the row whole, and the transaction commits;   *)
(* or one of the two fails, by a deadlock of two patches or otherwise.      *)
PatchCandidate(d) ==
    /\ brush[d].open
    /\ \/ \E c \in brush[d].id :
            /\ candidate' = [o \in Candidates |->
                   IF o = c THEN brush[d].row
                   ELSE IF o \in brush[d].rivals THEN [candidate[o] EXCEPT !.selected = FALSE]
                   ELSE candidate[o]]
            /\ missed' = (missed \ ({c} \cup brush[d].rivals)) \cup
                   IF brush[d].row.selected /\ Unseen(d, c) THEN {c} ELSE {}
       \/ UNCHANGED <<candidate, missed>>
    /\ brush' = [brush EXCEPT ![d] = Dry]
    /\ UNCHANGED <<task, asking, budget, patches>>

(* A new plan of images deletes the candidates, softly: one that is saved   *)
(* afterwards is back.                                                      *)
Replan ==
    /\ patches < MaxPatches /\ patches' = patches + 1
    /\ candidate' = [c \in Candidates |-> [candidate[c] EXCEPT !.live = FALSE]]
    /\ UNCHANGED <<task, asking, budget, brush, missed>>

ImagesNext ==
    \/ \E b \in Batches : CostOf(b) \/ WriteCandidate(b)
    \/ \E c \in Candidates : Admit(c) \/ TakePlace(c) \/ Paint(c) \/ SyncCandidate(c)
    \/ \E d \in Brushes : ReadCandidate(d) \/ UnselectRivals(d) \/ PatchCandidate(d)
    \/ Replan

ImagesSpec == ImagesInit /\ [][ImagesNext]_novelImages

-----------------------------------------------------------------------------
ImagesTypeOK ==
    /\ candidate \in [Candidates -> CandidateRow] /\ budget \in Nat
    /\ task \in [Candidates -> {"none", "queued", "waits", "holds", "done", "unpainted", "over"}]
    /\ asking \in [Batches -> {"new", "writing", "started", "over"}]
    /\ missed \subseteq Candidates

(* At most one live candidate of a shot is selected, although a patch saves *)
(* the row it read before others were selected, and a row it saves may have *)
(* been deleted meanwhile (handlePatchNovelVideoShotImage).  Excepted is a  *)
(* deleted candidate that a patch brings back as selected while another     *)
(* patch of the shot, which did not see it, is about to save.               *)
OneSelectedPerShot ==
    \A c, o \in Candidates \ missed :
        candidate[c].live /\ candidate[c].selected /\ candidate[o].live /\ candidate[o].selected
            /\ ShotOf[c] = ShotOf[o] => c = o
=============================================================================
