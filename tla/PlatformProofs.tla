---------------------------- MODULE PlatformProofs ----------------------------
(***************************************************************************)
(* Proofs about the accounts, the studio of commerce, and the assets,      *)
(* shots and candidate images of novels, for every number of requests,     *)
(* rows and changes.                                                       *)
(***************************************************************************)
EXTENDS MCPlatform, FiniteSetTheorems, WellFoundedInduction, TLAPS

-----------------------------------------------------------------------------
(***************************************************************************)
(* Candidate images.                                                       *)
(***************************************************************************)

\* A patch under way holds the row it read, which was there.
BrushTyped ==
    brush \in [Brushes -> [id : SUBSET Candidates, row : CandidateRow,
                           rivals : SUBSET Candidates, open : BOOLEAN]]

\* Who is about to select a candidate has seen those of the shot that are selected, or
\* they are counted as missed.
Seen ==
    \A d \in Brushes, c, o \in Candidates :
        /\ brush[d].open /\ brush[d].row.selected /\ c \in brush[d].id
        /\ o # c /\ ShotOf[o] = ShotOf[c] /\ candidate[o].live /\ candidate[o].selected
        => o \in brush[d].rivals \cup missed

\* Who has no task yet was never written, so that nobody can hold a row of it.
UnwrittenUnread ==
    \A c \in Candidates : task[c] = "none" =>
        candidate[c] = Unwritten /\ \A d \in Brushes : c \notin brush[d].id \cup brush[d].rivals

ShotInv == ImagesTypeOK /\ BrushTyped /\ UnwrittenUnread /\ Seen /\ OneSelectedPerShot

LEMMA InitShotInv == ImagesInit => ShotInv
BY NovelImagesConstants DEF ImagesInit, ShotInv, ImagesTypeOK, BrushTyped, UnwrittenUnread,
   Seen, OneSelectedPerShot, CandidateRow, Unwritten, Dry

LEMMA RowFields ==
    ASSUME NEW r \in CandidateRow
    PROVE  r = [live |-> r.live, selected |-> r.selected, work |-> r.work]
BY DEF CandidateRow

LEMMA RowLive ==
    ASSUME NEW r \in CandidateRow, NEW l \in BOOLEAN
    PROVE  [r EXCEPT !.live = l] = [live |-> l, selected |-> r.selected, work |-> r.work]
<1>1. [r EXCEPT !.live = l] \in CandidateRow  BY DEF CandidateRow
<1>2. /\ [r EXCEPT !.live = l].live = l
      /\ [r EXCEPT !.live = l].selected = r.selected
      /\ [r EXCEPT !.live = l].work = r.work
  BY DEF CandidateRow
<1> QED  BY <1>1, <1>2, RowFields

LEMMA UnwrittenRow == Unwritten \in CandidateRow
BY DEF Unwritten, CandidateRow

\* A request writes a candidate that nobody has selected.
LEMMA WriteKeeps == ASSUME ShotInv, NEW b \in Batches, WriteCandidate(b) PROVE ShotInv'
<1>1. UNCHANGED <<budget, brush, missed>>  BY DEF WriteCandidate
<1>2. CASE UNCHANGED <<candidate, task>>
  <2>1. asking' \in [Batches -> {"new", "writing", "started", "over"}]
    BY DEF WriteCandidate, ShotInv, ImagesTypeOK
  <2> QED
    BY <1>1, <1>2, <2>1
    DEF ShotInv, ImagesTypeOK, BrushTyped, UnwrittenUnread, Seen, OneSelectedPerShot
<1>3. ASSUME NEW c \in InBatch(b), task[c] = "none", Moves(c, "queued"),
             candidate' = [candidate EXCEPT ![c].live = TRUE],
             asking' = [asking EXCEPT ![b] =
                   IF \E o \in InBatch(b) \ {c} : task[o] = "none" THEN "writing" ELSE "started"]
      PROVE  ShotInv'
  <2>1. c \in Candidates  BY DEF InBatch
  <2>2. candidate[c] = Unwritten  BY <1>3, <2>1 DEF ShotInv, UnwrittenUnread
  <2>3. /\ candidate'[c] = [live |-> TRUE, selected |-> FALSE, work |-> FALSE]
        /\ \A o \in Candidates \ {c} : candidate'[o] = candidate[o]
        /\ candidate' \in [Candidates -> CandidateRow]
    <3>1. candidate \in [Candidates -> CandidateRow]  BY DEF ShotInv, ImagesTypeOK
    <3>2. [candidate[c] EXCEPT !.live = TRUE] = [live |-> TRUE, selected |-> FALSE, work |-> FALSE]
      BY <2>2, UnwrittenRow, RowLive DEF Unwritten
    <3>3. candidate' = [candidate EXCEPT ![c] = [live |-> TRUE, selected |-> FALSE, work |-> FALSE]]
      BY <1>3, <3>2
    <3> QED  BY <2>1, <3>1, <3>3 DEF CandidateRow
  <2>4. /\ task'[c] = "queued" /\ \A o \in Candidates \ {c} : task'[o] = task[o]
        /\ task' \in [Candidates -> {"none", "queued", "waits", "holds", "done", "unpainted", "over"}]
    BY <1>3, <2>1 DEF Moves, ShotInv, ImagesTypeOK
  <2>5. ImagesTypeOK'  BY <1>1, <1>3, <2>3, <2>4 DEF ShotInv, ImagesTypeOK
  <2>6. UnwrittenUnread'  BY <1>1, <2>3, <2>4 DEF ShotInv, UnwrittenUnread
  <2>7. OneSelectedPerShot'  BY <1>1, <2>3 DEF ShotInv, OneSelectedPerShot
  <2>8. Seen'  BY <1>1, <2>3 DEF ShotInv, Seen
  <2> QED  BY <1>1, <2>5, <2>6, <2>7, <2>8 DEF ShotInv, BrushTyped
<1> QED  BY <1>2, <1>3 DEF WriteCandidate

\* A task changes where it stands, the balance, or the work of a row.
LEMMA TaskKeeps ==
    ASSUME ShotInv, NEW c \in Candidates, Admit(c) \/ TakePlace(c) \/ Paint(c) \/ SyncCandidate(c)
    PROVE  ShotInv'
<1>1. UNCHANGED <<asking, brush, missed>>  BY DEF Admit, TakePlace, Paint, SyncCandidate
<1>2. \E s \in {"waits", "holds", "done", "unpainted", "over"} : task' = [task EXCEPT ![c] = s]
  BY DEF Admit, TakePlace, Paint, SyncCandidate, Moves
<1>3. task[c] # "none"  BY DEF Admit, TakePlace, Paint, SyncCandidate
<1>4. budget' \in Nat
  BY NovelImagesConstants DEF Admit, TakePlace, Paint, SyncCandidate, ShotInv, ImagesTypeOK
<1>5. /\ candidate' \in [Candidates -> CandidateRow]
      /\ \A o \in Candidates : /\ candidate'[o].live = candidate[o].live
                               /\ candidate'[o].selected = candidate[o].selected
                               /\ o # c => candidate'[o] = candidate[o]
  BY DEF Admit, TakePlace, Paint, SyncCandidate, ShotInv, ImagesTypeOK, CandidateRow
<1>6. /\ task' \in [Candidates -> {"none", "queued", "waits", "holds", "done", "unpainted", "over"}]
      /\ \A o \in Candidates : task'[o] = "none" => o # c /\ task[o] = "none"
  BY <1>2, <1>3 DEF ShotInv, ImagesTypeOK
<1>7. ImagesTypeOK'  BY <1>1, <1>4, <1>5, <1>6 DEF ShotInv, ImagesTypeOK
<1>8. UnwrittenUnread'  BY <1>1, <1>5, <1>6 DEF ShotInv, UnwrittenUnread
<1>9. OneSelectedPerShot' /\ Seen'  BY <1>1, <1>5 DEF ShotInv, Seen, OneSelectedPerShot
<1> QED  BY <1>1, <1>7, <1>8, <1>9 DEF ShotInv, BrushTyped

\* The patch reads a row that was written.
LEMMA ReadKeeps == ASSUME ShotInv, NEW d \in Brushes, ReadCandidate(d) PROVE ShotInv'
<1>1. PICK c \in Candidates :
         /\ candidate[c].live
         /\ brush' = [brush EXCEPT ![d] = [id |-> {c}, row |-> candidate[c],
                                           rivals |-> {}, open |-> FALSE]]
  BY DEF ReadCandidate, Dry
<1>2. UNCHANGED <<candidate, task, asking, budget, missed>>  BY DEF ReadCandidate
<1>3. task[c] # "none"  BY <1>1 DEF ShotInv, UnwrittenUnread, Unwritten
<1>4. /\ BrushTyped'
      /\ \A e \in Brushes : \/ brush'[e] = brush[e]
                            \/ ~brush'[e].open /\ brush'[e].id = {c} /\ brush'[e].rivals = {}
  BY <1>1 DEF ShotInv, BrushTyped, ImagesTypeOK
<1>5. UnwrittenUnread'  BY <1>2, <1>3, <1>4 DEF ShotInv, UnwrittenUnread
<1>6. Seen'  BY <1>2, <1>4 DEF ShotInv, Seen
<1> QED  BY <1>2, <1>4, <1>5, <1>6 DEF ShotInv, ImagesTypeOK, OneSelectedPerShot

\* The transaction sees every candidate that is selected when it begins to select its own.
LEMMA UnselectKeeps == ASSUME ShotInv, NEW d \in Brushes, UnselectRivals(d) PROVE ShotInv'
<1>1. PICK c \in brush[d].id, asked \in {"select", "unselect", "other"} :
         LET row == [brush[d].row EXCEPT !.selected =
                       CASE asked = "select" -> TRUE [] asked = "unselect" -> FALSE [] OTHER -> @]
         IN  brush' = [brush EXCEPT ![d] = [id |-> {c}, row |-> row,
                           rivals |-> Rivals(c, asked, row), open |-> TRUE]]
  BY DEF UnselectRivals
<1> DEFINE row == [brush[d].row EXCEPT !.selected =
                     CASE asked = "select" -> TRUE [] asked = "unselect" -> FALSE [] OTHER -> @]
           rivals == Rivals(c, asked, row)
<1>2. UNCHANGED <<candidate, task, asking, budget, missed>>  BY DEF UnselectRivals
<1>3. c \in Candidates /\ row \in CandidateRow
  BY DEF ShotInv, BrushTyped, CandidateRow
<1>4. brush' = [brush EXCEPT ![d] = [id |-> {c}, row |-> row, rivals |-> rivals, open |-> TRUE]]
  BY <1>1
<1> HIDE DEF row
<1>5. /\ rivals \subseteq Candidates
      /\ \A o \in rivals : candidate[o].live
      /\ row.selected => \A o \in Candidates \ {c} :
                           candidate[o].live /\ ShotOf[o] = ShotOf[c] => o \in rivals
  BY DEF Rivals
<1> HIDE DEF rivals
<1>6. /\ brush'[d] = [id |-> {c}, row |-> row, rivals |-> rivals, open |-> TRUE]
      /\ \A e \in Brushes \ {d} : brush'[e] = brush[e]
  BY <1>4 DEF ShotInv, BrushTyped
<1>7. BrushTyped'  BY <1>3, <1>4, <1>5 DEF ShotInv, BrushTyped
<1>8. UnwrittenUnread'
  <2>1. \A o \in Candidates : task[o] = "none" => o # c /\ o \notin rivals
    BY <1>5 DEF ShotInv, UnwrittenUnread, Unwritten
  <2> QED  BY <1>2, <1>6, <2>1 DEF ShotInv, UnwrittenUnread
<1>9. Seen'  BY <1>2, <1>5, <1>6 DEF ShotInv, Seen
<1> QED  BY <1>2, <1>7, <1>8, <1>9 DEF ShotInv, ImagesTypeOK, OneSelectedPerShot

\* A row is saved as selected only together with the rivals it takes the place of; a
\* rival that is not there does not come back by it, and who has not seen it counts it
\* as missed.
LEMMA PatchKeeps == ASSUME ShotInv, NEW d \in Brushes, PatchCandidate(d) PROVE ShotInv'
<1>1. UNCHANGED <<task, asking, budget>> /\ brush' = [brush EXCEPT ![d] = Dry] /\ brush[d].open
  BY DEF PatchCandidate
<1>2. /\ BrushTyped' /\ ~brush'[d].open /\ brush'[d].id = {} /\ brush'[d].rivals = {}
      /\ \A e \in Brushes \ {d} : brush'[e] = brush[e]
  BY <1>1, UnwrittenRow DEF ShotInv, BrushTyped, Dry
<1>3. CASE UNCHANGED <<candidate, missed>>
  <2>1. UnwrittenUnread' /\ Seen'  BY <1>1, <1>2, <1>3 DEF ShotInv, UnwrittenUnread, Seen
  <2> QED  BY <1>1, <1>2, <1>3, <2>1 DEF ShotInv, ImagesTypeOK, OneSelectedPerShot
<1>4. ASSUME NEW c \in brush[d].id,
             candidate' = [o \in Candidates |->
                   IF o = c THEN brush[d].row
                   ELSE IF o \in brush[d].rivals THEN [candidate[o] EXCEPT !.selected = FALSE]
                   ELSE candidate[o]],
             missed' = (missed \ ({c} \cup brush[d].rivals)) \cup
                   IF brush[d].row.selected /\ Unseen(d, c) THEN {c} ELSE {}
      PROVE  ShotInv'
  <2>1. /\ c \in Candidates /\ task[c] # "none"
        /\ brush[d].row \in CandidateRow /\ brush[d].rivals \subseteq Candidates
    BY DEF ShotInv, BrushTyped, UnwrittenUnread
  <2>2. /\ candidate' \in [Candidates -> CandidateRow] /\ candidate'[c] = brush[d].row
        /\ \A o \in Candidates \ {c} :
              /\ candidate'[o].live = candidate[o].live
              /\ candidate'[o].selected => candidate[o].selected
              /\ o \in brush[d].rivals => ~candidate'[o].selected
              /\ o \notin brush[d].rivals => candidate'[o] = candidate[o]
    BY <1>4, <2>1 DEF ShotInv, ImagesTypeOK, CandidateRow
  <2>3. /\ missed' \subseteq Candidates
        /\ \A o \in Candidates \ {c} : o \in missed /\ o \notin brush[d].rivals => o \in missed'
        /\ brush[d].row.selected /\ Unseen(d, c) => c \in missed'
        /\ \A o \in Candidates \ {c} : o \in missed' => o \in missed
    BY <1>4, <2>1 DEF ShotInv, ImagesTypeOK
  <2>4. ImagesTypeOK'  BY <1>1, <2>2, <2>3 DEF ShotInv, ImagesTypeOK
  <2>5. UnwrittenUnread'
    <3> SUFFICES ASSUME NEW o \in Candidates, task[o] = "none"
                 PROVE  /\ candidate'[o] = Unwritten
                        /\ \A e \in Brushes : o \notin brush'[e].id \cup brush'[e].rivals
      BY <1>1 DEF UnwrittenUnread
    <3>1. /\ candidate[o] = Unwritten
          /\ \A e \in Brushes : o \notin brush[e].id \cup brush[e].rivals
      BY DEF ShotInv, UnwrittenUnread
    <3> QED  BY <1>2, <2>1, <2>2, <3>1
  <2>6. Seen'
    <3> SUFFICES ASSUME NEW e \in Brushes, NEW a \in Candidates, NEW o \in Candidates,
                        brush'[e].open, brush'[e].row.selected, a \in brush'[e].id,
                        o # a, ShotOf[o] = ShotOf[a], candidate'[o].live, candidate'[o].selected
                 PROVE  o \in brush'[e].rivals \cup missed'
      BY DEF Seen
    <3>1. e # d /\ brush'[e] = brush[e]  BY <1>2
    <3>2. CASE o = c
      <4>1. brush[d].row.selected  BY <2>2, <3>2
      <4>2. c \notin brush[e].rivals => Unseen(d, c)  BY <3>1, <3>2 DEF Unseen
      <4> QED  BY <2>3, <3>1, <3>2, <4>1, <4>2
    <3>3. CASE o # c
      <4>1. o \in brush[e].rivals \cup missed  BY <2>2, <3>1, <3>3 DEF ShotInv, Seen
      <4>2. o \notin brush[d].rivals  BY <2>2, <3>3
      <4> QED  BY <2>3, <3>1, <3>3, <4>1, <4>2
    <3> QED  BY <3>2, <3>3
  <2>7. OneSelectedPerShot'
    <3>1. ASSUME NEW o \in Candidates \ {c}, ShotOf[o] = ShotOf[c], candidate'[c].selected,
                 candidate'[o].live, candidate'[o].selected
          PROVE  o \in missed'
      <4>1. candidate[o].live /\ candidate[o].selected /\ o \notin brush[d].rivals
        BY <2>2, <3>1
      <4>2. brush[d].row.selected  BY <2>2, <3>1
      <4>3. o \in brush[d].rivals \cup missed  BY <1>1, <2>1, <3>1, <4>1, <4>2 DEF ShotInv, Seen
      <4> QED  BY <2>3, <4>1, <4>3
    <3>2. ASSUME NEW a \in Candidates \ {c}, NEW o \in Candidates \ {c},
                 a \notin missed', o \notin missed', ShotOf[a] = ShotOf[o],
                 candidate'[a].live, candidate'[a].selected,
                 candidate'[o].live, candidate'[o].selected
          PROVE  a = o
      <4>1. /\ candidate[a].live /\ candidate[a].selected /\ a \notin brush[d].rivals
            /\ candidate[o].live /\ candidate[o].selected /\ o \notin brush[d].rivals
        BY <2>2, <3>2
      <4>2. a \notin missed /\ o \notin missed  BY <2>3, <3>2, <4>1
      <4> QED  BY <3>2, <4>1, <4>2 DEF ShotInv, OneSelectedPerShot
    <3> QED  BY <3>1, <3>2 DEF OneSelectedPerShot
  <2> QED  BY <1>2, <2>4, <2>5, <2>6, <2>7 DEF ShotInv
<1> QED  BY <1>3, <1>4 DEF PatchCandidate

LEMMA ShotInvStep == ShotInv /\ [ImagesNext]_novelImages => ShotInv'
<1> SUFFICES ASSUME ShotInv, [ImagesNext]_novelImages PROVE ShotInv'
  OBVIOUS
<1>1. ASSUME NEW b \in Batches, CostOf(b) PROVE ShotInv'
  BY <1>1 DEF CostOf, ShotInv, ImagesTypeOK, BrushTyped, UnwrittenUnread, Seen, OneSelectedPerShot
<1>2. CASE Replan
  <2>1. /\ UNCHANGED <<task, asking, budget, brush, missed>>
        /\ candidate' = [c \in Candidates |-> [candidate[c] EXCEPT !.live = FALSE]]
    BY <1>2 DEF Replan
  <2>2. candidate' \in [Candidates -> CandidateRow]
    BY <2>1 DEF ShotInv, ImagesTypeOK, CandidateRow
  <2>3. UnwrittenUnread'
    <3>1. [Unwritten EXCEPT !.live = FALSE] = Unwritten  BY UnwrittenRow, RowLive DEF Unwritten
    <3> QED  BY <2>1, <3>1 DEF ShotInv, UnwrittenUnread
  <2>4. OneSelectedPerShot' /\ Seen'
    BY <2>1 DEF ShotInv, ImagesTypeOK, CandidateRow, Seen, OneSelectedPerShot
  <2> QED  BY <2>1, <2>2, <2>3, <2>4 DEF ShotInv, ImagesTypeOK, BrushTyped
<1>3. CASE UNCHANGED novelImages
  BY <1>3
  DEF novelImages, ShotInv, ImagesTypeOK, BrushTyped, UnwrittenUnread, Seen, OneSelectedPerShot
<1> QED
  BY <1>1, <1>2, <1>3, WriteKeeps, TaskKeeps, ReadKeeps, UnselectKeeps, PatchKeeps DEF ImagesNext

\* At most one live candidate of a shot is selected, for any number of shots, candidates
\* and patches whose two statements overlap; excepted is one that is brought back behind
\* the back of another patch.
THEOREM OneSelectedAlways == ImagesSpec => []OneSelectedPerShot
<1>1. ShotInv => OneSelectedPerShot  BY DEF ShotInv
<1> QED  BY <1>1, InitShotInv, ShotInvStep, PTL DEF ImagesSpec
-----------------------------------------------------------------------------
(***************************************************************************)
(* Accounts.                                                               *)
(***************************************************************************)

CallKinds  == Purposes \cup {"none", "wechat", "bind", "admin", "invite"}
CallPlaces == {"off", "send", "code", "consume", "miss", "invite", "create", "write", "save"}

UserRow == [state : {"unmade", "live", "deleted"}, phone : Phones \cup {Nobody},
            open : OpenIds \cup {Nobody}, credits : Nat, consents : BOOLEAN]
CodeRow == [phone : Phones \cup {Nobody}, purpose : CallKinds, age : {"new", "valid", "expired"},
            tries : Nat, consumed : BOOLEAN]
CallRow == [kind : CallKinds, at : CallPlaces, phone : Phones \cup {Nobody},
            open : OpenIds \cup {Nobody}, user : 0..MaxUsers, code : Nat, invited : BOOLEAN]

UserTyped    == user \in [Users -> UserRow]
SessionTyped == session \in [Users -> 0..2]
CodeTyped    == code \in [Codes -> CodeRow]
CallTyped    == call \in [Calls -> CallRow]
InviteTyped  == invite \in [active : BOOLEAN, quota : Nat, used : Nat] /\ overwrote \in BOOLEAN
CountsTyped  == calls \in 0..MaxCalls /\ admin \in 0..MaxAdmin

BonusOnce ==
    \A u \in Users : user[u].credits = IF user[u].state = "unmade" THEN 0 ELSE Bonus

\* What the unique index ensures, rows that are marked as deleted included.
PhonesUnique ==
    \A u, v \in Users :
        user[u].state # "unmade" /\ user[v].state # "unmade"
            /\ user[u].phone = user[v].phone /\ user[u].phone # Nobody => u = v

\* Only users that were made have redeemed the invite.
RedeemedMade == redeemed \subseteq {u \in Users : user[u].state # "unmade"}

\* A request that found a code wrong will count it: what was counted and what will be
\* leaves room for one entry less than what is allowed and all requests.
Missing(n) == {c \in Calls : call[c].at = "miss" /\ call[c].code = n}

TriesBounded ==
    \A n \in Codes :
        code[n].tries + Cardinality(Missing(n)) < MaxTries + Cardinality(Calls)

UsersSound == UserTyped /\ BonusOnce /\ PhonesUnique

AInv ==
    /\ UsersSound /\ SessionTyped /\ CodeTyped /\ CallTyped /\ CountsTyped
    /\ TriesBounded
    /\ InviteTyped /\ RedeemedMade /\ InvitesAddUp

\* The newest of some codes is one of them.
LEMMA NewestIsIn == ASSUME NEW S \in SUBSET Codes, S # {} PROVE NewestOf(S) \in S
<1> DEFINE T == {MaxCodes - n : n \in S}
<1>1. MaxCodes \in Nat /\ S \subseteq 1..MaxCodes  BY AccountsAssumption DEF Codes
<1>2. T \subseteq Nat /\ T # {}
  <2>1. \A n \in S : MaxCodes - n \in Nat  BY <1>1
  <2> QED  BY <2>1
<1>3. PICK t \in T : \A y \in T : ~(<<y, t>> \in OpToRel(<, Nat))
  <2> HIDE DEF T
  <2> QED  BY <1>2, NatLessThanWellFounded, WFMin
<1>4. \A y \in T : ~(y < t)
  BY <1>2, <1>3 DEF OpToRel
<1>5. PICK n \in S : t = MaxCodes - n  BY <1>3
<1>6. \A m \in S : m <= n
  <2> TAKE m \in S
  <2>1. MaxCodes - m \in T  OBVIOUS
  <2> HIDE DEF T
  <2> QED  BY <1>1, <1>4, <1>5, <2>1
<1> QED  BY <1>5, <1>6 DEF NewestOf

LEMMA NoCallTyped == NoCall \in CallRow
BY AccountsAssumption DEF NoCall, CallRow, CallKinds, CallPlaces, Purposes

LEMMA InitAInv == AccountsInit => AInv
<1> SUFFICES ASSUME AccountsInit PROVE AInv
  OBVIOUS
<1> DEFINE o == CHOOSE x \in OpenIds : TRUE
<1> DEFINE first == [NoUser EXCEPT !.state = "live", !.open = o, !.credits = Bonus]
<1>1. o \in OpenIds  BY AccountsAssumption
<1>2. user \in [Users -> {NoUser, first}] /\ \A u \in Users : user[u].state = "live" => u = 1
  BY DEF AccountsInit
<1> HIDE DEF o
<1>3. /\ NoUser \in UserRow /\ first \in UserRow
      /\ NoUser.state = "unmade" /\ NoUser.credits = 0
      /\ first.state = "live" /\ first.credits = Bonus /\ first.phone = Nobody
  BY <1>1 DEF NoUser, UserRow, Bonus
<1> HIDE DEF first
<1>4. UsersSound
  <2>1. \A u \in Users : user[u] = NoUser \/ (user[u] = first /\ u = 1)  BY <1>2, <1>3
  <2>2. BonusOnce  BY <1>3, <2>1 DEF BonusOnce
  <2>3. PhonesUnique  BY <1>3, <2>1 DEF PhonesUnique
  <2> QED  BY <1>2, <1>3, <2>2, <2>3 DEF UsersSound, UserTyped
<1>5. CallTyped /\ \A c \in Calls : call[c].at = "off"
  BY NoCallTyped DEF AccountsInit, CallTyped, NoCall
<1>6. CodeTyped /\ \A n \in Codes : code[n].tries = 0
  BY DEF AccountsInit, CodeTyped, NoCode, CodeRow, CallKinds, Purposes
<1>7. TriesBounded
  <2> SUFFICES ASSUME NEW n \in Codes
               PROVE  code[n].tries + Cardinality(Missing(n)) < MaxTries + Cardinality(Calls)
    BY DEF TriesBounded
  <2>1. Missing(n) = {}  BY <1>5 DEF Missing
  <2>2. Cardinality(Missing(n)) = 0  BY <2>1, FS_EmptySet
  <2>3. Cardinality(Calls) \in Nat  BY FS_CardinalityType, AccountsAssumption
  <2> QED  BY <1>6, <2>2, <2>3, AccountsAssumption
<1>8. InvitesAddUp  BY FS_EmptySet DEF AccountsInit, InvitesAddUp
<1>9. SessionTyped /\ RedeemedMade
  <2>1. session = [u \in Users |-> IF u \in LiveUsers THEN 1 ELSE 0] /\ redeemed = {}
    BY DEF AccountsInit
  <2> QED  BY <2>1 DEF SessionTyped, RedeemedMade
<1>10. CountsTyped /\ InviteTyped
  <2>1. MaxCalls \in Nat /\ MaxAdmin \in Nat /\ Quota \in Nat  BY AccountsAssumption
  <2>2. /\ calls = 0 /\ admin = 0 /\ overwrote = FALSE
        /\ invite = [active |-> TRUE, quota |-> Quota, used |-> 0]
    BY DEF AccountsInit
  <2>3. CountsTyped  BY <2>1, <2>2 DEF CountsTyped
  <2>4. InviteTyped  BY <2>1, <2>2 DEF InviteTyped
  <2> QED  BY <2>3, <2>4
<1> QED  BY <1>4, <1>5, <1>6, <1>7, <1>8, <1>9, <1>10 DEF AInv
-----------------------------------------------------------------------------
\* What a step does to the requests: it counts no wrong code that was not counted
\* before, unless it reads one.
CallsQuiet == CallTyped' /\ \A d \in Calls : call'[d].at = "miss" => call'[d] = call[d]

LEMMA CallEnds ==
    ASSUME CallTyped, NEW c \in Calls, EndCall(c)
    PROVE  CallsQuiet /\ call'[c].at = "off"
<1>1. NoCall \in CallRow /\ NoCall.at = "off"  BY NoCallTyped DEF NoCall
<1>2. call' = [call EXCEPT ![c] = NoCall]  BY DEF EndCall
<1> QED  BY <1>1, <1>2 DEF CallTyped, CallsQuiet

LEMMA CallGoes ==
    ASSUME CallTyped, NEW c \in Calls, NEW at \in CallPlaces \ {"miss"}, CallGoesTo(c, at)
    PROVE  CallsQuiet
<1> DEFINE row == [call[c] EXCEPT !.at = at]
<1>1. row \in CallRow /\ row.at = at  BY DEF CallTyped, CallRow
<1>2. call' = [call EXCEPT ![c] = row]  BY DEF CallGoesTo
<1> HIDE DEF row
<1> QED  BY <1>1, <1>2 DEF CallTyped, CallsQuiet

LEMMA CallStarts ==
    ASSUME CallTyped, NEW c \in Calls, NEW new, new \in CallRow, new.at # "miss",
           call' = [call EXCEPT ![c] = new]
    PROVE  CallsQuiet
BY DEF CallTyped, CallsQuiet

LEMMA CallRests == ASSUME CallTyped, call' = call PROVE CallsQuiet
BY DEF CallTyped, CallsQuiet

LEMMA ReadCodeGoes ==
    ASSUME CallTyped, CodeTyped, NEW c \in Calls, ReadCode(c)
    PROVE  /\ CallTyped' /\ code' = code
           /\ \/ CallsQuiet
              \/ \E n \in Codes :
                    /\ TriesLeft(n) /\ call'[c].code = n
                    /\ \A d \in Calls \ {c} : call'[d] = call[d]
<1> DEFINE S == PendingCodes(call[c].phone, call[c].kind)
           n == NewestOf(S)
<1>1. CASE EndCall(c)  BY <1>1, CallEnds DEF ReadCode, CallsQuiet
<1>2. CASE ~EndCall(c)
  <2>1. S # {} /\ TriesLeft(n)  BY <1>2 DEF ReadCode
  <2>2. n \in S  BY <2>1, NewestIsIn DEF PendingCodes
  <2>3. n \in Codes /\ n \in Nat  BY <2>2 DEF PendingCodes, Codes
  <2> HIDE DEF S, n
  <2>4. PICK at \in {"consume", "miss"} : call' = [call EXCEPT ![c].at = at, ![c].code = n]
    BY <1>2 DEF ReadCode, S, n
  <2> DEFINE row == [call[c] EXCEPT !.at = at, !.code = n]
  <2>5. row \in CallRow /\ row.code = n  BY <2>3 DEF CallTyped, CallRow, CallPlaces
  <2>6. call' = [call EXCEPT ![c] = row]  BY <2>4 DEF CallTyped, CallRow
  <2> HIDE DEF row
  <2>7. CallTyped' /\ call'[c].code = n /\ \A d \in Calls \ {c} : call'[d] = call[d]
    BY <2>5, <2>6 DEF CallTyped
  <2>8. code' = code  BY DEF ReadCode
  <2> QED  BY <2>1, <2>3, <2>7, <2>8
<1> QED  BY <1>1, <1>2
\* Whatever else happens to the requests is quiet.
LEMMA OtherCalls ==
    ASSUME CallTyped, InviteTyped, AccountsNext, ~\E c \in Calls : ReadCode(c)
    PROVE  CallsQuiet
<1> USE DEF CallKinds, CallPlaces, Purposes
<1>0. MaxUsers \in Nat  BY AccountsAssumption
<1>1. ASSUME NEW c \in Calls, AskCode(c) PROVE CallsQuiet
  <2>1. PICK p \in Phones, purpose \in Purposes :
           StartCall(c, [NoCall EXCEPT !.kind = purpose, !.at = "send", !.phone = p])
    BY <1>1 DEF AskCode
  <2> DEFINE new == [NoCall EXCEPT !.kind = purpose, !.at = "send", !.phone = p]
  <2>2. new \in CallRow /\ new.at # "miss"  BY <1>0, NoCallTyped DEF CallRow
  <2>3. call' = [call EXCEPT ![c] = new]  BY <2>1 DEF StartCall
  <2> HIDE DEF new
  <2> QED  BY <2>2, <2>3, CallStarts
<1>2. ASSUME NEW c \in Calls, StoreCode(c) \/ CountMiss(c) \/ CreateUser(c) \/ CreateWechatUser(c)
                \/ WriteBinding(c) \/ SavePassword(c) \/ SaveInvite(c)
      PROVE  CallsQuiet
  BY <1>2, CallEnds DEF StoreCode, CountMiss, CreateUser, CreateWechatUser, WriteBinding,
     SavePassword, SaveInvite
<1>3. ASSUME NEW c \in Calls, ConsumeCode(c) PROVE CallsQuiet
  <2>1. AfterCode(c) \in CallPlaces \ {"miss"}  BY DEF AfterCode
  <2> QED  BY <1>3, <2>1, CallGoes DEF ConsumeCode
<1>4. ASSUME NEW c \in Calls, Register(c) PROVE CallsQuiet
  <2>1. PICK p \in Phones, i \in BOOLEAN :
           StartCall(c, [NoCall EXCEPT !.kind = "register", !.at = "code", !.phone = p, !.invited = i])
    BY <1>4 DEF Register
  <2> DEFINE new == [NoCall EXCEPT !.kind = "register", !.at = "code", !.phone = p, !.invited = i]
  <2>2. new \in CallRow /\ new.at # "miss"  BY <1>0, NoCallTyped DEF CallRow
  <2>3. call' = [call EXCEPT ![c] = new]  BY <2>1 DEF StartCall
  <2> HIDE DEF new
  <2> QED  BY <2>2, <2>3, CallStarts
<1>5. ASSUME NEW c \in Calls, ReadInvite(c) PROVE CallsQuiet
  <2>1. "create" \in CallPlaces \ {"miss"}  OBVIOUS
  <2> QED  BY <1>5, <2>1, CallEnds, CallGoes DEF ReadInvite
<1>6. ASSUME NEW c \in Calls, WechatLogin(c) PROVE CallsQuiet
  <2>1. CASE call' = call  BY <2>1, CallRests
  <2>2. ASSUME NEW o \in OpenIds,
               StartCall(c, [NoCall EXCEPT !.kind = "wechat", !.at = "create", !.open = o])
        PROVE  CallsQuiet
    <3> DEFINE new == [NoCall EXCEPT !.kind = "wechat", !.at = "create", !.open = o]
    <3>1. new \in CallRow /\ new.at # "miss"  BY <1>0, NoCallTyped DEF CallRow
    <3>2. call' = [call EXCEPT ![c] = new]  BY <2>2 DEF StartCall
    <3> HIDE DEF new
    <3> QED  BY <3>1, <3>2, CallStarts
  <2> QED  BY <1>6, <2>1, <2>2 DEF WechatLogin
<1>7. ASSUME NEW c \in Calls, NEW new, new \in CallRow, new.at # "miss", StartCall(c, new)
      PROVE  CallsQuiet
  BY <1>7, CallStarts DEF StartCall
<1>8. ASSUME NEW c \in Calls, WechatPhoneLogin(c) PROVE CallsQuiet
  <2>1. PICK o \in OpenIds, p \in Phones :
          LET asked == [NoCall EXCEPT !.kind = "wechat", !.phone = p, !.open = o]
          IN  \/ call' = call
              \/ \E u \in OpenedBy(o) :
                    StartCall(c, [asked EXCEPT !.at = "write", !.open = Nobody, !.user = u])
              \/ StartCall(c, [asked EXCEPT !.at = "create"])
              \/ \E u \in OwnersOf(p) :
                    StartCall(c, [asked EXCEPT !.at = "write", !.phone = Nobody, !.user = u])
    BY <1>8 DEF WechatPhoneLogin
  <2> DEFINE asked == [NoCall EXCEPT !.kind = "wechat", !.phone = p, !.open = o]
  <2>2. asked \in CallRow  BY NoCallTyped DEF CallRow
  <2>3. \/ call' = call
        \/ \E u \in OpenedBy(o) :
              StartCall(c, [asked EXCEPT !.at = "write", !.open = Nobody, !.user = u])
        \/ StartCall(c, [asked EXCEPT !.at = "create"])
        \/ \E u \in OwnersOf(p) :
              StartCall(c, [asked EXCEPT !.at = "write", !.phone = Nobody, !.user = u])
    BY <2>1
  <2> HIDE DEF asked
  <2>4. CASE call' = call  BY <2>4, CallRests
  <2>5. ASSUME NEW u \in OpenedBy(o),
               StartCall(c, [asked EXCEPT !.at = "write", !.open = Nobody, !.user = u])
        PROVE  CallsQuiet
    <3> DEFINE new == [asked EXCEPT !.at = "write", !.open = Nobody, !.user = u]
    <3>1. u \in 0..MaxUsers  BY <1>0 DEF OpenedBy, LiveUsers, Users
    <3>2. new \in CallRow /\ new.at # "miss"  BY <2>2, <3>1 DEF CallRow
    <3> HIDE DEF new
    <3> QED  BY <1>7, <2>5, <3>2 DEF new
  <2>6. ASSUME StartCall(c, [asked EXCEPT !.at = "create"]) PROVE CallsQuiet
    <3> DEFINE new == [asked EXCEPT !.at = "create"]
    <3>1. new \in CallRow /\ new.at # "miss"  BY <2>2 DEF CallRow
    <3> HIDE DEF new
    <3> QED  BY <1>7, <2>6, <3>1 DEF new
  <2>7. ASSUME NEW u \in OwnersOf(p),
               StartCall(c, [asked EXCEPT !.at = "write", !.phone = Nobody, !.user = u])
        PROVE  CallsQuiet
    <3> DEFINE new == [asked EXCEPT !.at = "write", !.phone = Nobody, !.user = u]
    <3>1. u \in 0..MaxUsers  BY <1>0 DEF OwnersOf, LiveUsers, Users
    <3>2. new \in CallRow /\ new.at # "miss"  BY <2>2, <3>1 DEF CallRow
    <3> HIDE DEF new
    <3> QED  BY <1>7, <2>7, <3>2 DEF new
  <2> QED  BY <2>3, <2>4, <2>5, <2>6, <2>7
<1>9. ASSUME NEW c \in Calls, BindPhone(c) \/ ResetPassword(c) PROVE CallsQuiet
  <2>1. PICK u \in LiveUsers, p \in Phones, kind \in {"bind_phone", "reset_password"} :
           \/ StartCall(c, [NoCall EXCEPT !.kind = "bind_phone", !.at = "code", !.phone = p,
                                          !.user = u])
           \/ StartCall(c, [NoCall EXCEPT !.kind = "reset_password", !.at = "code", !.phone = p,
                                          !.user = u])
    BY <1>9 DEF BindPhone, ResetPassword, OwnersOf
  <2>2. u \in 0..MaxUsers  BY <1>0 DEF LiveUsers, Users
  <2>3. ASSUME NEW k \in {"bind_phone", "reset_password"},
               StartCall(c, [NoCall EXCEPT !.kind = k, !.at = "code", !.phone = p, !.user = u])
        PROVE  CallsQuiet
    <3> DEFINE new == [NoCall EXCEPT !.kind = k, !.at = "code", !.phone = p, !.user = u]
    <3>1. new \in CallRow /\ new.at # "miss"  BY <2>2, NoCallTyped DEF CallRow
    <3> HIDE DEF new
    <3> QED  BY <1>7, <2>3, <3>1 DEF new
  <2> QED  BY <2>1, <2>3
<1>10. ASSUME NEW c \in Calls, BindWechatPhone(c) PROVE CallsQuiet
  <2>1. PICK u \in LiveUsers, p \in Phones, o \in OpenIds :
           StartCall(c, [NoCall EXCEPT !.kind = "bind", !.at = "write", !.user = u, !.phone = p,
                               !.open = IF user[u].open = Nobody THEN o ELSE Nobody])
    BY <1>10 DEF BindWechatPhone
  <2> DEFINE free == IF user[u].open = Nobody THEN o ELSE Nobody
             new == [NoCall EXCEPT !.kind = "bind", !.at = "write", !.user = u, !.phone = p,
                                   !.open = free]
  <2>2. u \in 0..MaxUsers /\ free \in OpenIds \cup {Nobody}  BY <1>0 DEF LiveUsers, Users
  <2>3. StartCall(c, new)  BY <2>1
  <2> HIDE DEF free
  <2>4. new \in CallRow /\ new.at # "miss"  BY <2>2, NoCallTyped DEF CallRow
  <2> HIDE DEF new
  <2> QED  BY <1>7, <2>3, <2>4
<1>11. ASSUME NEW c \in Calls, BindWechat(c) PROVE CallsQuiet
  <2>1. PICK u \in LiveUsers, o \in OpenIds, by \in {"bind", "admin"} :
           StartCall(c, [NoCall EXCEPT !.kind = by, !.at = "write", !.user = u, !.open = o])
    BY <1>11 DEF BindWechat
  <2> DEFINE new == [NoCall EXCEPT !.kind = by, !.at = "write", !.user = u, !.open = o]
  <2>2. u \in 0..MaxUsers  BY <1>0 DEF LiveUsers, Users
  <2>3. new \in CallRow /\ new.at # "miss"  BY <2>2, NoCallTyped DEF CallRow
  <2> HIDE DEF new
  <2> QED  BY <1>7, <2>1, <2>3 DEF new
<1>12. ASSUME NEW c \in Calls, ReadInviteRow(c) PROVE CallsQuiet
  <2> DEFINE new == [NoCall EXCEPT !.kind = "invite", !.at = "save", !.code = invite.used]
  <2>1. new \in CallRow /\ new.at # "miss"  BY NoCallTyped DEF CallRow, InviteTyped
  <2>2. call' = [call EXCEPT ![c] = new]  BY <1>12 DEF ReadInviteRow
  <2> HIDE DEF new
  <2> QED  BY <2>1, <2>2, CallStarts
<1>13. ASSUME call' = call PROVE CallsQuiet  BY <1>13, CallRests
<1>14. ASSUME NEW c \in Calls, Login(c) PROVE call' = call  BY <1>14 DEF Login
<1>15. ASSUME NEW n \in Codes, AgeCode(n) PROVE call' = call  BY <1>15 DEF AgeCode
<1>16. ASSUME NEW u \in Users, Logout(u) \/ EndOthers(u) \/ UnbindPhone(u) \/ AdminUnbind(u)
                  \/ AdminResetPassword(u)
       PROVE  call' = call
  BY <1>16 DEF Logout, EndOthers, LeaveSession, UnbindPhone, AdminUnbind, AdminResetPassword
<1>17. ASSUME NEW S \in SUBSET Users, DeleteUsers(S) PROVE call' = call
  BY <1>17 DEF DeleteUsers
<1> QED
  BY <1>1, <1>2, <1>3, <1>4, <1>5, <1>6, <1>8, <1>9, <1>10, <1>11, <1>12, <1>13, <1>14, <1>15,
     <1>16, <1>17 DEF AccountsNext
\* A row that is made takes a phone that no other row has, and a changed row too.
LEMMA UserChanged ==
    ASSUME UsersSound, NEW u \in Users, NEW row \in UserRow, row.state # "unmade",
           row.credits = Bonus,
           \/ row.phone = user[u].phone /\ user[u].state # "unmade"
           \/ row.phone = Nobody
           \/ ~PhoneIndexed(row.phone, u),
           user' = [user EXCEPT ![u] = row]
    PROVE  UsersSound'
<1>1. /\ user'[u] = row /\ user' \in [Users -> UserRow]
      /\ \A v \in Users \ {u} : user'[v] = user[v]
  BY DEF UsersSound, UserTyped
<1>2. PhonesUnique'
  <2> SUFFICES ASSUME NEW v \in Users, NEW w \in Users,
                      user'[v].state # "unmade", user'[w].state # "unmade",
                      user'[v].phone = user'[w].phone, user'[v].phone # Nobody
               PROVE  v = w
    BY DEF PhonesUnique
  <2>1. CASE v # u /\ w # u  BY <1>1, <2>1 DEF UsersSound, PhonesUnique
  <2>2. CASE v = u  BY <1>1, <2>2 DEF UsersSound, PhonesUnique, PhoneIndexed
  <2>3. CASE w = u  BY <1>1, <2>3 DEF UsersSound, PhonesUnique, PhoneIndexed
  <2> QED  BY <2>1, <2>2, <2>3
<1>3. BonusOnce'  BY <1>1 DEF UsersSound, BonusOnce
<1> QED  BY <1>1, <1>2, <1>3 DEF UsersSound, UserTyped

LEMMA NewAccountRow ==
    ASSUME NEW p \in Phones \cup {Nobody}, NEW o \in OpenIds \cup {Nobody}, NEW s \in BOOLEAN
    PROVE  /\ NewAccount(p, o, s) \in UserRow /\ NewAccount(p, o, s).state = "live"
           /\ NewAccount(p, o, s).credits = Bonus /\ NewAccount(p, o, s).phone = p
BY DEF NewAccount, UserRow, Bonus

LEMMA UsersStep ==
    ASSUME UsersSound, CallTyped, [AccountsNext]_accounts
    PROVE  UsersSound' /\ \A u \in Users : user[u].state # "unmade" => user'[u].state # "unmade"
<1> DEFINE Goal == UsersSound' /\ \A u \in Users : user[u].state # "unmade" => user'[u].state # "unmade"
<1>1. ASSUME user' = user PROVE Goal
  BY <1>1 DEF UsersSound, UserTyped, BonusOnce, PhonesUnique
<1>2. ASSUME NEW c \in Calls, CreateUser(c) \/ CreateWechatUser(c) PROVE Goal
  <2>1. CASE user' = user  BY <1>1, <2>1
  <2>2. CASE user' # user
    <3>1. PICK u \in UnmadeUsers, o \in {call[c].open, Nobody}, s \in BOOLEAN :
             /\ ~PhoneIndexed(call[c].phone, u)
             /\ user' = [user EXCEPT ![u] = NewAccount(call[c].phone, o, s)]
      BY <1>2, <2>2 DEF CreateUser, CreateWechatUser
    <3> DEFINE row == NewAccount(call[c].phone, o, s)
    <3>2. call[c].phone \in Phones \cup {Nobody} /\ o \in OpenIds \cup {Nobody}
      BY DEF CallTyped, CallRow
    <3>3. /\ row \in UserRow /\ row.state = "live" /\ row.credits = Bonus
          /\ row.phone = call[c].phone
      BY <3>2, NewAccountRow
    <3> HIDE DEF row
    <3>4. user' = [user EXCEPT ![u] = row] /\ u \in Users  BY <3>1 DEF row, UnmadeUsers
    <3>5. UsersSound'  BY <3>1, <3>3, <3>4, UserChanged
    <3> QED  BY <3>3, <3>4, <3>5 DEF UsersSound, UserTyped
  <2> QED  BY <2>1, <2>2
<1>3. ASSUME NEW u \in LiveUsers, NEW row \in UserRow, row.state = "live", row.credits = user[u].credits,
             row.phone \in {user[u].phone, Nobody} \/ ~PhoneIndexed(row.phone, u),
             user' = [user EXCEPT ![u] = row]
      PROVE  Goal
  <2>1. u \in Users /\ user[u].state = "live"  BY DEF LiveUsers
  <2>2. user[u].credits = Bonus  BY <2>1 DEF UsersSound, BonusOnce
  <2>3. UsersSound'  BY <1>3, <2>1, <2>2, UserChanged
  <2> QED  BY <1>3, <2>1, <2>3 DEF UsersSound, UserTyped
<1>4. ASSUME NEW c \in Calls, WriteBinding(c) PROVE Goal
  <2>1. CASE user' = user  BY <1>1, <2>1
  <2>2. CASE user' # user
    <3> DEFINE u == call[c].user
               row == [user[u] EXCEPT !.phone = KeptUnless(call[c].phone, @),
                                      !.open = KeptUnless(call[c].open, @)]
    <3>1. /\ u \in LiveUsers /\ ~PhoneIndexed(call[c].phone, u)
          /\ user' = [user EXCEPT ![u].phone = KeptUnless(call[c].phone, @),
                                  ![u].open = KeptUnless(call[c].open, @)]
      BY <1>4, <2>2 DEF WriteBinding
    <3>2. /\ call[c].phone \in Phones \cup {Nobody} /\ call[c].open \in OpenIds \cup {Nobody}
          /\ user[u] \in UserRow /\ user[u].state = "live" /\ u \in Users
      BY <3>1 DEF CallTyped, CallRow, UsersSound, UserTyped, LiveUsers
    <3>3. /\ row \in UserRow /\ row.state = "live" /\ row.credits = user[u].credits
          /\ row.phone = user[u].phone \/ row.phone = call[c].phone
      BY <3>2 DEF UserRow, KeptUnless
    <3>4. user' = [user EXCEPT ![u] = row]
      BY <3>1, <3>2 DEF UsersSound, UserTyped, UserRow
    <3> HIDE DEF row
    <3> QED  BY <1>3, <3>1, <3>3, <3>4
  <2> QED  BY <2>1, <2>2
<1>5. ASSUME NEW u \in Users, UnbindPhone(u) \/ AdminUnbind(u) PROVE Goal
  <2>1. u \in LiveUsers  BY <1>5 DEF UnbindPhone, AdminUnbind, Serves
  <2>2. user[u] \in UserRow /\ user[u].state = "live"
    BY <2>1 DEF UsersSound, UserTyped, LiveUsers
  <2>3. PICK row \in {[user[u] EXCEPT !.phone = Nobody], [user[u] EXCEPT !.open = Nobody]} :
           user' = [user EXCEPT ![u] = row]
    BY <1>5 DEF UnbindPhone, AdminUnbind
  <2>4. /\ row \in UserRow /\ row.state = "live" /\ row.credits = user[u].credits
        /\ row.phone \in {user[u].phone, Nobody}
    BY <2>2 DEF UserRow
  <2> QED  BY <1>3, <2>1, <2>3, <2>4
<1>6. ASSUME NEW S \in SUBSET Users, DeleteUsers(S) PROVE Goal
  <2>1. /\ S \subseteq LiveUsers
        /\ user' = [u \in Users |-> IF u \in S THEN [user[u] EXCEPT !.state = "deleted"] ELSE user[u]]
    BY <1>6 DEF DeleteUsers
  <2>2. \A u \in Users : user[u] \in UserRow  BY DEF UsersSound, UserTyped
  <2>3. \A u \in Users : /\ user'[u] \in UserRow
                         /\ user'[u].phone = user[u].phone /\ user'[u].credits = user[u].credits
                         /\ user'[u].state = "unmade" <=> user[u].state = "unmade"
    BY <2>1, <2>2 DEF UserRow, LiveUsers
  <2>4. UserTyped'  BY <2>1, <2>3 DEF UserTyped
  <2> QED  BY <2>3, <2>4 DEF UsersSound, BonusOnce, PhonesUnique
<1>7. ASSUME NEW c \in Calls,
             AskCode(c) \/ StoreCode(c) \/ ReadCode(c) \/ CountMiss(c) \/ ConsumeCode(c)
             \/ Register(c) \/ ReadInvite(c) \/ WechatLogin(c) \/ WechatPhoneLogin(c)
             \/ BindPhone(c) \/ BindWechatPhone(c) \/ BindWechat(c) \/ ResetPassword(c)
             \/ SavePassword(c) \/ Login(c) \/ ReadInviteRow(c) \/ SaveInvite(c)
      PROVE  user' = user
  BY <1>7 DEF AskCode, StoreCode, ReadCode, CountMiss, ConsumeCode, Register, ReadInvite,
     WechatLogin, WechatPhoneLogin, BindPhone, BindWechatPhone, BindWechat, ResetPassword,
     SavePassword, Login, ReadInviteRow, SaveInvite
<1>8. ASSUME NEW n \in Codes, AgeCode(n) PROVE user' = user  BY <1>8 DEF AgeCode
<1>9. ASSUME NEW u \in Users, Logout(u) \/ EndOthers(u) \/ AdminResetPassword(u)
      PROVE  user' = user
  BY <1>9 DEF Logout, EndOthers, LeaveSession, AdminResetPassword
<1>10. CASE UNCHANGED accounts  BY <1>1, <1>10 DEF accounts
<1> QED
  BY <1>1, <1>2, <1>4, <1>5, <1>6, <1>7, <1>8, <1>9, <1>10 DEF AccountsNext
LEMMA SessionsStep ==
    ASSUME SessionTyped, [AccountsNext]_accounts
    PROVE  SessionTyped'
<1>1. ASSUME session' = session PROVE SessionTyped'  BY <1>1 DEF SessionTyped
<1>2. ASSUME NEW u, IssueSession(u) PROVE SessionTyped'
  <2>1. CASE u \in Users
    <3>1. session[u] \in 0..2  BY <2>1 DEF SessionTyped
    <3>2. (IF session[u] < 2 THEN session[u] + 1 ELSE session[u]) \in 0..2  BY <3>1
    <3> QED  BY <1>2, <3>2 DEF SessionTyped, IssueSession
  <2>2. CASE u \notin Users  BY <1>2, <2>2 DEF SessionTyped, IssueSession
  <2> QED  BY <2>1, <2>2
<1>3. ASSUME NEW u, NEW n \in 0..2, session' = [session EXCEPT ![u] = n] PROVE SessionTyped'
  BY <1>3 DEF SessionTyped
<1>4. ASSUME NEW c \in Calls, CreateUser(c) \/ CreateWechatUser(c) \/ WechatLogin(c)
                \/ WechatPhoneLogin(c) \/ WriteBinding(c) \/ Login(c)
      PROVE  session' = session \/ \E u : IssueSession(u)
  BY <1>4 DEF CreateUser, CreateWechatUser, WechatLogin, WechatPhoneLogin, WriteBinding, Login
<1>5. ASSUME NEW c \in Calls, SavePassword(c) PROVE SessionTyped'
  <2>1. session' = [session EXCEPT ![call[c].user] = 0] /\ 0 \in 0..2  BY <1>5 DEF SavePassword
  <2> QED  BY <1>3, <2>1
<1>6. ASSUME NEW u \in Users, AdminResetPassword(u) PROVE SessionTyped'
  <2>1. session' = [session EXCEPT ![u] = 0] /\ 0 \in 0..2  BY <1>6 DEF AdminResetPassword
  <2> QED  BY <1>3, <2>1
<1>7. ASSUME NEW u \in Users, Logout(u) \/ EndOthers(u) PROVE SessionTyped'
  BY <1>3, <1>7 DEF Logout, EndOthers, LeaveSession, Serves, SessionTyped
<1>8. ASSUME NEW S \in SUBSET Users, DeleteUsers(S) PROVE SessionTyped'
  BY <1>8 DEF DeleteUsers, SessionTyped
<1>9. ASSUME NEW c \in Calls,
             AskCode(c) \/ StoreCode(c) \/ ReadCode(c) \/ CountMiss(c) \/ ConsumeCode(c)
             \/ Register(c) \/ ReadInvite(c) \/ BindPhone(c) \/ BindWechatPhone(c)
             \/ BindWechat(c) \/ ResetPassword(c) \/ ReadInviteRow(c) \/ SaveInvite(c)
      PROVE  session' = session
  BY <1>9 DEF AskCode, StoreCode, ReadCode, CountMiss, ConsumeCode, Register, ReadInvite,
     BindPhone, BindWechatPhone, BindWechat, ResetPassword, ReadInviteRow, SaveInvite
<1>10. ASSUME NEW n \in Codes, AgeCode(n) PROVE session' = session  BY <1>10 DEF AgeCode
<1>11. ASSUME NEW u \in Users, UnbindPhone(u) \/ AdminUnbind(u) PROVE session' = session
  BY <1>11 DEF UnbindPhone, AdminUnbind
<1>12. CASE UNCHANGED accounts  BY <1>1, <1>12 DEF accounts
<1> QED
  BY <1>1, <1>2, <1>4, <1>5, <1>6, <1>7, <1>8, <1>9, <1>10, <1>11, <1>12 DEF AccountsNext

\* Codes: a step writes one row, and only the counting of a wrong entry adds to its tries.
CodesQuiet == CodeTyped' /\ \A n \in Codes : code'[n].tries <= code[n].tries

LEMMA CodeChanged ==
    ASSUME CodeTyped, NEW n \in Codes, NEW row \in CodeRow, row.tries <= code[n].tries,
           code' = [code EXCEPT ![n] = row]
    PROVE  CodesQuiet
<1>1. \A m \in Codes : code[m].tries \in Nat  BY DEF CodeTyped, CodeRow
<1>2. row.tries \in Nat  BY DEF CodeRow
<1>3. \A m \in Codes : code'[m] = IF m = n THEN row ELSE code[m]  BY DEF CodeTyped
<1> QED  BY <1>1, <1>2, <1>3 DEF CodeTyped, CodesQuiet

LEMMA CodesStep ==
    ASSUME CodeTyped, CallTyped, [AccountsNext]_accounts
    PROVE  CodesQuiet \/ \E c \in Calls : CountMiss(c)
<1>0. \A n \in Codes : code[n] \in CodeRow /\ code[n].tries \in Nat  BY DEF CodeTyped, CodeRow
<1>1. ASSUME code' = code PROVE CodesQuiet  BY <1>0, <1>1 DEF CodeTyped, CodesQuiet
<1>2. ASSUME NEW c \in Calls, StoreCode(c) PROVE CodesQuiet
  <2>1. CASE code' = code  BY <1>1, <2>1
  <2>2. CASE code' # code
    <3> DEFINE row == [NoCode EXCEPT !.phone = call[c].phone, !.purpose = call[c].kind]
    <3>1. NoCode \in CodeRow /\ NoCode.tries = 0
      BY DEF NoCode, CodeRow, CallKinds, Purposes
    <3>2. call[c].phone \in Phones \cup {Nobody} /\ call[c].kind \in CallKinds
      BY DEF CallTyped, CallRow
    <3>3. row \in CodeRow /\ row.tries = 0  BY <3>1, <3>2 DEF CodeRow
    <3>4. PICK n \in Codes : code' = [code EXCEPT ![n] = row]  BY <1>2, <2>2 DEF StoreCode
    <3> HIDE DEF row
    <3>5. row.tries <= code[n].tries  BY <1>0, <3>3
    <3> QED  BY <3>3, <3>4, <3>5, CodeChanged
  <2> QED  BY <2>1, <2>2
<1>3. ASSUME NEW n \in Codes, AgeCode(n) PROVE CodesQuiet
  <2> DEFINE row == [code[n] EXCEPT !.age = OlderAge(@)]
  <2>1. row \in CodeRow /\ row.tries = code[n].tries  BY <1>0 DEF CodeRow, OlderAge
  <2>2. code' = [code EXCEPT ![n] = row]  BY <1>3 DEF AgeCode
  <2> HIDE DEF row
  <2>3. row.tries <= code[n].tries  BY <1>0, <2>1
  <2> QED  BY <2>1, <2>2, <2>3, CodeChanged
<1>4. ASSUME NEW c \in Calls, ConsumeCode(c) PROVE CodesQuiet
  <2> DEFINE n == call[c].code
  <2>1. CASE n \in Codes
    <3> DEFINE row == [code[n] EXCEPT !.consumed = TRUE]
    <3>1. row \in CodeRow /\ row.tries = code[n].tries  BY <1>0, <2>1 DEF CodeRow
    <3>2. code' = [code EXCEPT ![n] = row]  BY <1>4 DEF ConsumeCode
    <3> HIDE DEF row
    <3>3. row.tries <= code[n].tries  BY <1>0, <2>1, <3>1
    <3> QED  BY <2>1, <3>1, <3>2, <3>3, CodeChanged
  <2>2. CASE n \notin Codes
    <3>1. code' = code  BY <1>4, <2>2 DEF ConsumeCode, CodeTyped
    <3> QED  BY <1>1, <3>1
  <2> QED  BY <2>1, <2>2
<1>5. ASSUME NEW c \in Calls,
             AskCode(c) \/ ReadCode(c) \/ Register(c) \/ ReadInvite(c) \/ CreateUser(c)
             \/ WechatLogin(c) \/ WechatPhoneLogin(c) \/ CreateWechatUser(c)
             \/ BindPhone(c) \/ BindWechatPhone(c) \/ BindWechat(c) \/ WriteBinding(c)
             \/ ResetPassword(c) \/ SavePassword(c) \/ Login(c) \/ ReadInviteRow(c) \/ SaveInvite(c)
      PROVE  code' = code
  BY <1>5
  DEF AskCode, ReadCode, Register, ReadInvite, CreateUser, WechatLogin, WechatPhoneLogin,
     CreateWechatUser, BindPhone, BindWechatPhone, BindWechat, WriteBinding, ResetPassword,
     SavePassword, Login, ReadInviteRow, SaveInvite
<1>6. ASSUME NEW u \in Users, Logout(u) \/ EndOthers(u) \/ UnbindPhone(u) \/ AdminUnbind(u)
                 \/ AdminResetPassword(u)
      PROVE  code' = code
  BY <1>6 DEF Logout, EndOthers, LeaveSession, UnbindPhone, AdminUnbind, AdminResetPassword
<1>7. ASSUME NEW S \in SUBSET Users, DeleteUsers(S) PROVE code' = code  BY <1>7 DEF DeleteUsers
<1>8. CASE UNCHANGED accounts  BY <1>1, <1>8 DEF accounts
<1> QED
  BY <1>1, <1>2, <1>3, <1>4, <1>5, <1>6, <1>7, <1>8 DEF AccountsNext
LEMMA MissingFinite ==
    ASSUME NEW n
    PROVE  /\ Missing(n) \subseteq Calls /\ IsFiniteSet(Missing(n)) /\ IsFiniteSet(Calls)
           /\ Cardinality(Missing(n)) \in Nat /\ Cardinality(Calls) \in Nat
           /\ Cardinality(Missing(n)) <= Cardinality(Calls)
<1>1. Missing(n) \subseteq Calls  BY DEF Missing
<1> QED  BY <1>1, AccountsAssumption, FS_Subset, FS_CardinalityType

LEMMA MissingShrinks ==
    ASSUME NEW n \in Codes, Missing(n)' \subseteq Missing(n)
    PROVE  Cardinality(Missing(n)') \in Nat /\ Cardinality(Missing(n)') <= Cardinality(Missing(n))
BY MissingFinite, FS_Subset, FS_CardinalityType

LEMMA TriesStep ==
    ASSUME TriesBounded, CallTyped, CodeTyped, InviteTyped, [AccountsNext]_accounts
    PROVE  CallTyped' /\ CodeTyped' /\ TriesBounded'
<1>0. /\ MaxTries \in Nat /\ Cardinality(Calls) \in Nat
      /\ \A n \in Codes : /\ code[n].tries \in Nat
                          /\ Cardinality(Missing(n)) \in Nat
                          /\ code[n].tries + Cardinality(Missing(n)) < MaxTries + Cardinality(Calls)
  BY AccountsAssumption, MissingFinite DEF CodeTyped, CodeRow, TriesBounded
<1>1. ASSUME CallsQuiet PROVE \A n \in Codes : Missing(n)' \subseteq Missing(n)
  BY <1>1 DEF CallsQuiet, Missing
<1>2. CASE CallsQuiet /\ CodesQuiet
  <2> SUFFICES ASSUME NEW n \in Codes
               PROVE  code'[n].tries + Cardinality(Missing(n)') < MaxTries + Cardinality(Calls)
    BY <1>2 DEF CallsQuiet, CodesQuiet, TriesBounded
  <2>1. /\ Cardinality(Missing(n)') \in Nat
        /\ Cardinality(Missing(n)') <= Cardinality(Missing(n))
    BY <1>1, <1>2, MissingShrinks
  <2>2. code'[n].tries \in Nat /\ code'[n].tries <= code[n].tries
    BY <1>2 DEF CodesQuiet, CodeTyped, CodeRow
  <2> QED  BY <1>0, <2>1, <2>2
<1>3. ASSUME NEW c \in Calls, ReadCode(c) PROVE CallTyped' /\ CodeTyped' /\ TriesBounded'
  <2>1. CallTyped' /\ code' = code  BY <1>3, ReadCodeGoes
  <2>2. CodeTyped'  BY <2>1 DEF CodeTyped
  <2>3. ASSUME NEW n \in Codes
        PROVE  code'[n].tries + Cardinality(Missing(n)') < MaxTries + Cardinality(Calls)
    <3>1. CASE Missing(n)' \subseteq Missing(n)
      BY <1>0, <2>1, <3>1, MissingShrinks
    <3>2. CASE ~(Missing(n)' \subseteq Missing(n))
      <4>1. TriesLeft(n)
        <5>1. ~CallsQuiet  BY <1>1, <3>2
        <5>2. PICK m \in Codes : /\ TriesLeft(m) /\ call'[c].code = m
                                 /\ \A d \in Calls \ {c} : call'[d] = call[d]
          BY <1>3, <5>1, ReadCodeGoes
        <5>3. m = n  BY <3>2, <5>2 DEF Missing
        <5> QED  BY <5>2, <5>3
      <4>2. code[n].tries < MaxTries  BY <4>1 DEF TriesLeft
      <4>3. Missing(n)' \subseteq Calls  BY DEF Missing
      <4>4. Cardinality(Missing(n)') \in Nat /\ Cardinality(Missing(n)') <= Cardinality(Calls)
        BY <4>3, AccountsAssumption, FS_Subset, FS_CardinalityType
      <4> QED  BY <1>0, <2>1, <4>2, <4>4
    <3> QED  BY <3>1, <3>2
  <2> QED  BY <2>1, <2>2, <2>3 DEF TriesBounded
<1>4. ASSUME NEW c \in Calls, CountMiss(c) PROVE CallTyped' /\ CodeTyped' /\ TriesBounded'
  <2> DEFINE k == call[c].code
  <2>1. /\ CallsQuiet /\ call'[c].at = "off" /\ call[c].at = "miss"
        /\ code' = [code EXCEPT ![k].tries = @ + 1]
    BY <1>4, CallEnds DEF CountMiss
  <2>2. ASSUME NEW n \in Codes
        PROVE  /\ code'[n] \in CodeRow
               /\ code'[n].tries = IF n = k THEN code[n].tries + 1 ELSE code[n].tries
    <3> DEFINE row == [code[n] EXCEPT !.tries = @ + 1]
    <3>1. code[n] \in CodeRow  BY DEF CodeTyped
    <3>2. row \in CodeRow /\ row.tries = code[n].tries + 1  BY <3>1 DEF CodeRow
    <3>3. code'[n] = IF n = k THEN row ELSE code[n]  BY <2>1 DEF CodeTyped
    <3> QED  BY <3>1, <3>2, <3>3
  <2>3. CodeTyped'  BY <2>1, <2>2 DEF CodeTyped
  <2>4. ASSUME NEW n \in Codes
        PROVE  code'[n].tries + Cardinality(Missing(n)') < MaxTries + Cardinality(Calls)
    <3>1. CASE n # k
      BY <1>0, <1>1, <2>1, <2>2, <3>1, MissingShrinks
    <3>2. CASE n = k
      <4>1. c \in Missing(n) /\ Missing(n)' \subseteq Missing(n) \ {c}
        BY <1>1, <2>1, <3>2 DEF Missing
      <4>2. /\ IsFiniteSet(Missing(n) \ {c})
            /\ Cardinality(Missing(n) \ {c}) = Cardinality(Missing(n)) - 1
        BY <4>1, MissingFinite, FS_RemoveElement
      <4>3. /\ Cardinality(Missing(n)') <= Cardinality(Missing(n)) - 1
            /\ Cardinality(Missing(n)') \in Nat
        BY <4>1, <4>2, FS_Subset, FS_CardinalityType
      <4> QED  BY <1>0, <2>2, <3>2, <4>3
    <3> QED  BY <3>1, <3>2
  <2> QED  BY <2>1, <2>3, <2>4 DEF CallsQuiet, TriesBounded
<1>5. CASE UNCHANGED accounts
  <2>1. CallsQuiet /\ CodesQuiet
    BY <1>0, <1>5 DEF accounts, CallsQuiet, CodesQuiet, CallTyped, CodeTyped
  <2> QED  BY <1>2, <2>1
<1> QED  BY <1>2, <1>3, <1>4, <1>5, OtherCalls, CodesStep

\* A redemption counts for a user that was not there before, and only an edit that has
\* read an older count can lose it.
LEMMA InvitesStep ==
    ASSUME AInv, [AccountsNext]_accounts
    PROVE  InviteTyped' /\ RedeemedMade' /\ InvitesAddUp'
<1> USE DEF AInv
<1>1. RedeemedMade => RedeemedMade' \/ redeemed' # redeemed
  BY UsersStep DEF RedeemedMade
<1>2. ASSUME UNCHANGED <<invite, redeemed, overwrote>>
      PROVE  InviteTyped' /\ RedeemedMade' /\ InvitesAddUp'
  BY <1>1, <1>2 DEF InviteTyped, InvitesAddUp
<1>3. ASSUME NEW c \in Calls, CreateUser(c), ~UNCHANGED <<invite, redeemed, overwrote>>
      PROVE  InviteTyped' /\ RedeemedMade' /\ InvitesAddUp'
  <2>1. PICK u \in UnmadeUsers :
           /\ user' = [user EXCEPT ![u] = NewAccount(call[c].phone, Nobody, TRUE)]
           /\ invite' = [invite EXCEPT !.used = @ + 1] /\ redeemed' = redeemed \cup {u}
           /\ overwrote' = overwrote
    BY <1>3 DEF CreateUser
  <2>2. u \in Users /\ u \notin redeemed /\ IsFiniteSet(redeemed)
    <3>1. IsFiniteSet(Users)  BY AccountsAssumption, FS_Interval DEF Users
    <3> QED  BY <3>1, FS_Subset DEF UnmadeUsers, RedeemedMade
  <2>3. Cardinality(redeemed') = Cardinality(redeemed) + 1 /\ Cardinality(redeemed) \in Nat
    BY <2>1, <2>2, FS_AddElement, FS_CardinalityType
  <2>4. InviteTyped' /\ invite'.used = invite.used + 1  BY <2>1 DEF InviteTyped
  <2>5. user'[u].state = "live"  BY <2>1, <2>2 DEF NewAccount, UsersSound, UserTyped
  <2>6. RedeemedMade'  BY <2>1, <2>2, <2>5, UsersStep DEF RedeemedMade
  <2>7. InvitesAddUp'  BY <2>1, <2>3, <2>4 DEF InvitesAddUp
  <2> QED  BY <2>4, <2>6, <2>7
<1>4. ASSUME NEW c \in Calls, SaveInvite(c)
      PROVE  InviteTyped' /\ RedeemedMade' /\ InvitesAddUp'
  <2>1. PICK active \in BOOLEAN, quota \in {invite.quota, invite.quota + 1} :
           /\ invite' = [active |-> active, quota |-> quota, used |-> call[c].code]
           /\ overwrote' = (overwrote \/ invite.used # call[c].code)
           /\ redeemed' = redeemed
    BY <1>4 DEF SaveInvite
  <2>2. call[c].code \in Nat  BY DEF CallTyped, CallRow
  <2>3. InviteTyped'  BY <2>1, <2>2 DEF InviteTyped
  <2>4. InvitesAddUp'  BY <2>1 DEF InvitesAddUp
  <2> QED  BY <1>1, <2>1, <2>3, <2>4
<1>5. ASSUME NEW c \in Calls,
             AskCode(c) \/ StoreCode(c) \/ ReadCode(c) \/ CountMiss(c) \/ ConsumeCode(c)
             \/ Register(c) \/ ReadInvite(c) \/ WechatLogin(c) \/ WechatPhoneLogin(c)
             \/ CreateWechatUser(c) \/ WriteBinding(c) \/ BindPhone(c) \/ BindWechatPhone(c)
             \/ BindWechat(c) \/ ResetPassword(c) \/ SavePassword(c) \/ Login(c) \/ ReadInviteRow(c)
      PROVE  UNCHANGED <<invite, redeemed, overwrote>>
  BY <1>5 DEF AskCode, StoreCode, ReadCode, CountMiss, ConsumeCode, Register, ReadInvite,
     WechatLogin, WechatPhoneLogin, CreateWechatUser, WriteBinding, BindPhone, BindWechatPhone,
     BindWechat, ResetPassword, SavePassword, Login, ReadInviteRow
<1>6. ASSUME NEW n \in Codes, AgeCode(n) PROVE UNCHANGED <<invite, redeemed, overwrote>>
  BY <1>6 DEF AgeCode
<1>7. ASSUME NEW u \in Users, Logout(u) \/ EndOthers(u) \/ UnbindPhone(u) \/ AdminUnbind(u)
                 \/ AdminResetPassword(u)
      PROVE  UNCHANGED <<invite, redeemed, overwrote>>
  BY <1>7 DEF Logout, EndOthers, LeaveSession, UnbindPhone, AdminUnbind, AdminResetPassword
<1>8. ASSUME NEW S \in SUBSET Users, DeleteUsers(S) PROVE UNCHANGED <<invite, redeemed, overwrote>>
  BY <1>8 DEF DeleteUsers
<1>9. CASE UNCHANGED accounts  BY <1>2, <1>9 DEF accounts
<1> QED  BY <1>2, <1>3, <1>4, <1>5, <1>6, <1>7, <1>8, <1>9 DEF AccountsNext

LEMMA CountsStep ==
    ASSUME CountsTyped, [AccountsNext]_accounts
    PROVE  CountsTyped'
<1>0. MaxCalls \in Nat /\ MaxAdmin \in Nat  BY AccountsAssumption
<1>1. /\ calls' = calls \/ (calls < MaxCalls /\ calls' = calls + 1)
      /\ admin' = admin \/ (admin < MaxAdmin /\ admin' = admin + 1)
  <2>1. ASSUME NEW c \in Calls,
               AskCode(c) \/ Register(c) \/ WechatLogin(c) \/ WechatPhoneLogin(c) \/ BindPhone(c)
               \/ BindWechatPhone(c) \/ BindWechat(c) \/ ResetPassword(c) \/ Login(c)
        PROVE  admin' = admin /\ (calls' = calls \/ (calls < MaxCalls /\ calls' = calls + 1))
    BY <2>1 DEF AskCode, Register, WechatLogin, WechatPhoneLogin, BindPhone, BindWechatPhone,
       BindWechat, ResetPassword, Login, StartCall
  <2>2. ASSUME NEW c \in Calls,
               StoreCode(c) \/ ReadCode(c) \/ CountMiss(c) \/ ConsumeCode(c) \/ ReadInvite(c)
               \/ CreateUser(c) \/ CreateWechatUser(c) \/ WriteBinding(c) \/ SavePassword(c)
               \/ SaveInvite(c)
        PROVE  admin' = admin /\ calls' = calls
    BY <2>2 DEF StoreCode, ReadCode, CountMiss, ConsumeCode, ReadInvite, CreateUser,
       CreateWechatUser, WriteBinding, SavePassword, SaveInvite
  <2>3. ASSUME NEW c \in Calls, ReadInviteRow(c)
        PROVE  calls' = calls /\ admin < MaxAdmin /\ admin' = admin + 1
    BY <2>3 DEF ReadInviteRow, Administer
  <2>4. ASSUME NEW n \in Codes, AgeCode(n) PROVE admin' = admin /\ calls' = calls
    BY <2>4 DEF AgeCode
  <2>5. ASSUME NEW u \in Users, Logout(u) \/ EndOthers(u) \/ UnbindPhone(u)
        PROVE  admin' = admin /\ calls' = calls
    BY <2>5 DEF Logout, EndOthers, LeaveSession, UnbindPhone
  <2>6. ASSUME NEW u \in Users, AdminUnbind(u) \/ AdminResetPassword(u)
        PROVE  calls' = calls /\ admin < MaxAdmin /\ admin' = admin + 1
    BY <2>6 DEF AdminUnbind, AdminResetPassword, Administer
  <2>7. ASSUME NEW S \in SUBSET Users, DeleteUsers(S)
        PROVE  calls' = calls /\ admin < MaxAdmin /\ admin' = admin + 1
    BY <2>7 DEF DeleteUsers, Administer
  <2>8. CASE UNCHANGED accounts  BY <2>8 DEF accounts
  <2> QED  BY <2>1, <2>2, <2>3, <2>4, <2>5, <2>6, <2>7, <2>8 DEF AccountsNext
<1> QED  BY <1>0, <1>1 DEF CountsTyped

LEMMA AInvStep == AInv /\ [AccountsNext]_accounts => AInv'
<1> SUFFICES ASSUME AInv, [AccountsNext]_accounts PROVE AInv'
  OBVIOUS
<1>1. UsersSound'  BY UsersStep DEF AInv
<1>2. SessionTyped'  BY SessionsStep DEF AInv
<1>3. CallTyped' /\ CodeTyped' /\ TriesBounded'  BY TriesStep DEF AInv
<1>4. CountsTyped'  BY CountsStep DEF AInv
<1> QED  BY <1>1, <1>2, <1>3, <1>4, InvitesStep DEF AInv

LEMMA AccountTypes == ASSUME AInv PROVE AccountsTypeOK
<1>1. \A u \in Users : /\ user[u].state \in {"unmade", "live", "deleted"}
                       /\ user[u].phone \in Phones \cup {Nobody}
                       /\ user[u].open \in OpenIds \cup {Nobody}
                       /\ user[u].credits = (IF user[u].state = "unmade" THEN 0 ELSE Bonus)
  BY DEF AInv, UsersSound, UserTyped, UserRow, BonusOnce
<1>2. \A n \in Codes : code[n].tries < MaxTries + Cardinality(Calls)
  <2> TAKE n \in Codes
  <2>1. code[n].tries \in Nat  BY DEF AInv, CodeTyped, CodeRow
  <2>2. code[n].tries + Cardinality(Missing(n)) < MaxTries + Cardinality(Calls)
    BY DEF AInv, TriesBounded
  <2> QED  BY <2>1, <2>2, MissingFinite, AccountsAssumption
<1>3. \A c \in Calls : call[c].user \in 0..MaxUsers  BY DEF AInv, CallTyped, CallRow
<1> QED
  BY <1>1, <1>2, <1>3 DEF AInv, AccountsTypeOK, SessionTyped, CountsTyped, InviteTyped,
     RedeemedMade

\* The rows of the accounts have their types, an account its bonus once, and the wrong
\* entries of a code stay within what is allowed and what may be under way.
THEOREM AccountTypesAlways == AccountsSpec => []AccountsTypeOK
BY AccountTypes, InitAInv, AInvStep, PTL DEF AccountsSpec

\* No two accounts share a phone, and an invite counts its redemptions, for any number of
\* requests that look whether a phone is free and write later.
THEOREM RegistrationsAlwaysAddUp == AccountsSpec => []RegistrationsAddUp
<1>1. ASSUME AInv PROVE RegistrationsAddUp
  <2>1. OneAccountPerPhone
    BY <1>1 DEF AInv, UsersSound, PhonesUnique, OneAccountPerPhone, LiveUsers
  <2> QED  BY <1>1, <2>1 DEF AInv, RegistrationsAddUp
<1> QED  BY <1>1, InitAInv, AInvStep, PTL DEF AccountsSpec
-----------------------------------------------------------------------------
(***************************************************************************)
(* Renders of the shots of a novel.                                        *)
(***************************************************************************)

RenderPlaces == {"new", "checked", "refused", "locked", "next", "film", "end", "over"}
TakeStates   == {"none", "queued", "running", "succeeded", "failed"}

RenderRow == [pc : RenderPlaces, todo : SUBSET ShotIds, rows : [ShotIds -> ShotRow],
              result : {"none", "work", "nothing", "error"}, good : BOOLEAN, bad : BOOLEAN]
WriterRow == [op : {"off", "shot", "board", "novel", "restore", "plan", "jobs"},
              id : 0..NumShots, row : ShotRow, ids : SUBSET ShotIds, project : ProjectStatuses]

ShotsTyped == shot \in [ShotIds -> ShotRow] /\ writer \in [Writers -> WriterRow]
              /\ novel \in ProjectStatuses
              /\ composition \in [Compositions -> {"none", "running", "succeeded", "failed", "stuck"}]
ReelTyped  == render \in [Renders -> RenderRow] /\ slot \subseteq Renders /\ credit \in Nat
              /\ takes \in [Renders -> [ShotIds -> TakeStates]]
              /\ filmed \in [Renders -> [ShotIds -> Nat]]

\* Where a render stands, and what it has filmed: nothing before it queues its shots, then
\* none of those it still has to do, except the one whose video was just made.
Rolling(r) ==
    /\ r \in Filming => r \in slot
    /\ render[r].pc \in {"new", "checked", "locked"} =>
         \A s \in ShotIds : filmed[r][s] = 0 /\ takes[r][s] = "none"
    /\ render[r].pc \in {"next", "film", "end"} =>
         \A s \in render[r].todo :
            /\ takes[r][s] \in {"queued", "running"}
            /\ filmed[r][s] = 0 \/ (render[r].pc = "end" /\ render[r].result = "work" /\ s = Current(r))
    /\ render[r].pc \in {"film", "end"} => render[r].todo # {}
    /\ \A s \in ShotIds : takes[r][s] \in {"none", "failed"} => filmed[r][s] = 0

\* What the attempts of a render say of it, if no save of them was lost.
Telling(r) ==
    /\ render[r].pc \in {"next", "film", "end"} =>
         \A s \in ShotIds \ render[r].todo :
            filmed[r][s] > 0 /\ <<r, s>> \notin lost => takes[r][s] = "succeeded"
    /\ render[r].pc \in {"film", "end"} /\ <<r, Current(r)>> \notin lost =>
         takes[r][Current(r)] = "running"
    /\ render[r].pc = "film" => render[r].rows[Current(r)].status = "running"
    /\ \A s \in ShotIds : takes[r][s] = "queued" /\ filmed[r][s] > 0 => <<r, s>> \in lost

OneInSlot == \A a, b \in slot : a = b

PaidUp == credit + ShotCost * Cardinality(PaidAttempts) = StartCredits

ReelInv == /\ ShotsTyped /\ ReelTyped /\ OneInSlot /\ PaidUp
           /\ \A r \in Renders : Rolling(r) /\ Telling(r)

\* The renders that queued a shot while it was approved; each used up an approval.
InTime(s) == {r \in Renders : takes[r][s] # "none" /\ <<r, s>> \notin late}

ApprovalsSpent ==
    /\ approvals \in [ShotIds -> Nat]
    /\ \A s \in ShotIds :
         Cardinality(InTime(s)) + (IF s \in Approved THEN 1 ELSE 0) <= approvals[s]

\* The first of some shots is one of them.
LEMMA FirstIsIn == ASSUME NEW S \in SUBSET Nat, S # {} PROVE Min(S) \in S
<1>1. PICK m \in S : \A y \in S : ~(<<y, m>> \in OpToRel(<, Nat))
  BY NatLessThanWellFounded, WFMin
<1>2. \A y \in S : ~(y < m)  BY <1>1 DEF OpToRel
<1>3. \A y \in S : m <= y  BY <1>2
<1> QED  BY <1>3 DEF Min

LEMMA CurrentIsIn ==
    ASSUME ReelTyped, NEW r \in Renders, render[r].todo # {}
    PROVE  Current(r) \in render[r].todo /\ Current(r) \in ShotIds
<1>1. render[r].todo \in SUBSET ShotIds  BY DEF ReelTyped, RenderRow
<1>2. render[r].todo \in SUBSET Nat  BY <1>1, NovelRenderConstants DEF ShotIds
<1> QED  BY <1>1, <1>2, FirstIsIn DEF Current

LEMMA NoShotTyped == NoShot \in ShotRow /\ Planned \in ShotRow
BY DEF NoShot, Planned, ShotRow

LEMMA NotRenderedTyped ==
    /\ NotRendered \in RenderRow
    /\ \A pc \in RenderPlaces : /\ [NotRendered EXCEPT !.pc = pc] \in RenderRow
                                /\ [NotRendered EXCEPT !.pc = pc].pc = pc
<1>1. NotRendered \in RenderRow
  BY NoShotTyped DEF NotRendered, RenderRow, RenderPlaces
<1> QED  BY <1>1 DEF RenderRow

LEMMA OffTyped == Off \in WriterRow
BY NoShotTyped, NovelRenderConstants DEF Off, WriterRow, ProjectStatuses

LEMMA AttemptsFinite ==
    /\ IsFiniteSet(PaidAttempts) /\ Cardinality(PaidAttempts) \in Nat
    /\ IsFiniteSet(Renders) /\ NumShots \in Nat /\ ShotCost \in Nat /\ StartCredits \in Nat
<1>1. NumShots \in Nat /\ ShotCost \in Nat /\ StartCredits \in Nat /\ IsFiniteSet(Renders)
  BY NovelRenderConstants
<1>2. IsFiniteSet(ShotIds)  BY <1>1, FS_Interval DEF ShotIds
<1>3. IsFiniteSet(Renders \X ShotIds)  BY <1>1, <1>2, FS_Product
<1> QED  BY <1>1, <1>3, FS_Subset, FS_CardinalityType DEF PaidAttempts

LEMMA InitReelInv == RenderInit => ReelInv
<1> SUFFICES ASSUME RenderInit PROVE ReelInv
  OBVIOUS
<1>1. ShotsTyped
  <2>1. [Planned EXCEPT !.status = "approved"] \in ShotRow  BY NoShotTyped DEF ShotRow
  <2>2. shot \in [ShotIds -> ShotRow]  BY <2>1, NoShotTyped DEF RenderInit
  <2> QED  BY <2>2, OffTyped DEF RenderInit, ShotsTyped, ProjectStatuses
<1>2. ReelTyped
  BY NotRenderedTyped, AttemptsFinite DEF RenderInit, ReelTyped, TakeStates
<1>3. \A r \in Renders : /\ render[r].pc = "new"
                         /\ \A s \in ShotIds : filmed[r][s] = 0 /\ takes[r][s] = "none"
  BY DEF RenderInit, NotRendered
<1>4. \A r \in Renders : Rolling(r) /\ Telling(r)  BY <1>3 DEF Rolling, Telling, Filming
<1>5. PaidUp
  <2>1. PaidAttempts = {}  BY <1>3 DEF PaidAttempts
  <2>2. credit = StartCredits /\ Cardinality(PaidAttempts) = 0
    BY <2>1, FS_EmptySet DEF RenderInit
  <2> QED  BY <2>2, AttemptsFinite DEF PaidUp
<1> QED  BY <1>1, <1>2, <1>4, <1>5 DEF ReelInv, OneInSlot, RenderInit
\* A step of one render leaves the others what they were, if it takes the lock only when
\* nobody has it and gives back only its own.
LEMMA OthersRoll ==
    ASSUME ReelInv, NEW r \in Renders, ReelTyped',
           \A q \in Renders \ {r} : /\ render'[q] = render[q] /\ takes'[q] = takes[q]
                                    /\ filmed'[q] = filmed[q],
           \A q \in Renders \ {r}, s \in ShotIds : <<q, s>> \in lost' <=> <<q, s>> \in lost,
           Rolling(r)', Telling(r)',
           slot' = slot \/ (slot \subseteq {r} /\ slot' \subseteq {r})
    PROVE  (\A q \in Renders : Rolling(q) /\ Telling(q))' /\ OneInSlot'
<1>1. ASSUME NEW q \in Renders \ {r} PROVE Rolling(q)' /\ Telling(q)'
  <2>1. Rolling(q) /\ Telling(q)  BY DEF ReelInv
  <2>2. /\ render'[q] = render[q] /\ takes'[q] = takes[q] /\ filmed'[q] = filmed[q]
        /\ Current(q)' = Current(q)
    BY DEF Current
  <2>3. q \in Filming' <=> q \in Filming  BY <2>2 DEF Filming
  <2>4. q \in Filming => q \in slot'
    BY <2>1 DEF Rolling
  <2>5. Rolling(q)'  BY <2>1, <2>2, <2>3, <2>4 DEF Rolling
  <2>6. render[q].pc \in {"film", "end"} => Current(q) \in ShotIds
    BY <2>1, CurrentIsIn DEF ReelInv, Rolling
  <2>7. Telling(q)'  BY <2>1, <2>2, <2>6 DEF Telling
  <2> QED  BY <2>5, <2>7
<1>2. OneInSlot'  BY DEF ReelInv, OneInSlot
<1> QED  BY <1>1, <1>2

\* What a step says of the other renders when it changes one row.
LEMMA RowOnly ==
    ASSUME ReelTyped, NEW r \in Renders, NEW row \in RenderRow, render' = [render EXCEPT ![r] = row]
    PROVE  /\ render' \in [Renders -> RenderRow] /\ render'[r] = row
           /\ \A q \in Renders \ {r} : render'[q] = render[q]
BY DEF ReelTyped

LEMMA SamePaid ==
    ASSUME PaidUp, credit' = credit, filmed' = filmed
    PROVE  PaidUp'
BY DEF PaidUp, PaidAttempts

LEMMA SameShots ==
    ASSUME ShotsTyped, UNCHANGED <<shot, writer, novel, composition>>
    PROVE  ShotsTyped'
BY DEF ShotsTyped

LEMMA PreflightKeeps == ASSUME ReelInv, NEW r \in Renders, Preflight(r) PROVE ReelInv'
<1>1. UNCHANGED <<shot, novel, takes, filmed, lost, credit, slot, writer, composition>>
  BY DEF Preflight, films, Others
<1>2. PICK row : /\ render' = [render EXCEPT ![r] = row] /\ row \in RenderRow
                 /\ row.pc \in {"checked", "refused"}
  <2>1. CASE Refuse(r)
    <3> DEFINE row == [NotRendered EXCEPT !.pc = "refused"]
    <3>1. row \in RenderRow /\ row.pc = "refused"  BY NotRenderedTyped DEF RenderPlaces
    <3> QED  BY <2>1, <3>1 DEF Refuse
  <2>2. CASE ~Refuse(r)
    <3> DEFINE rows == [s \in ShotIds |-> IF s \in Approved THEN shot[s] ELSE NoShot]
               row == [NotRendered EXCEPT !.pc = "checked", !.todo = Approved, !.rows = rows]
    <3>1. rows \in [ShotIds -> ShotRow] /\ Approved \in SUBSET ShotIds
      BY NoShotTyped DEF ReelInv, ShotsTyped, Approved
    <3>2. render' = [render EXCEPT ![r] = row]  BY <2>2 DEF Preflight
    <3> HIDE DEF rows
    <3>3. row \in RenderRow /\ row.pc = "checked"
      BY <3>1, NotRenderedTyped DEF RenderRow, RenderPlaces
    <3> HIDE DEF row
    <3> QED  BY <3>2, <3>3
  <2> QED  BY <2>1, <2>2
<1>3. /\ render' \in [Renders -> RenderRow] /\ render'[r] = row
      /\ \A q \in Renders \ {r} : render'[q] = render[q]
  BY <1>2, RowOnly DEF ReelInv
<1>4. ReelTyped'  BY <1>1, <1>3 DEF ReelInv, ReelTyped
<1>5. Rolling(r) /\ Telling(r) /\ render[r].pc = "new"  BY DEF ReelInv, Preflight
<1>6. Rolling(r)' /\ Telling(r)'  BY <1>1, <1>2, <1>3, <1>5 DEF Rolling, Telling, Filming
<1> QED  BY <1>1, <1>3, <1>4, <1>6, OthersRoll, SamePaid, SameShots DEF ReelInv

LEMMA TakeSlotKeeps == ASSUME ReelInv, NEW r \in Renders, TakeSlot(r) PROVE ReelInv'
<1>1. UNCHANGED <<shot, novel, takes, filmed, lost, credit, writer, composition>>
  BY DEF TakeSlot, films, Others
<1>2. PICK row \in RenderRow : /\ render' = [render EXCEPT ![r] = row]
                               /\ \/ row.pc = "locked" /\ slot = {} /\ slot' = {r}
                                  \/ row.pc = "refused" /\ slot' = slot
  <2>1. CASE slot = {}
    <3> DEFINE row == [render[r] EXCEPT !.pc = "locked"]
    <3>0. render[r] \in RenderRow  BY DEF ReelInv, ReelTyped
    <3>1. row \in RenderRow /\ row.pc = "locked"  BY <3>0 DEF RenderRow, RenderPlaces
    <3>2. render' = [render EXCEPT ![r] = row] /\ slot' = {r}  BY <2>1 DEF TakeSlot, RenderGoes
    <3> HIDE DEF row
    <3> QED  BY <2>1, <3>1, <3>2
  <2>2. CASE slot # {}
    <3> DEFINE row == [NotRendered EXCEPT !.pc = "refused"]
    <3>1. row \in RenderRow /\ row.pc = "refused"  BY NotRenderedTyped DEF RenderPlaces
    <3> QED  BY <2>2, <3>1 DEF TakeSlot, Refuse
  <2> QED  BY <2>1, <2>2
<1>3. /\ render' \in [Renders -> RenderRow] /\ render'[r] = row
      /\ \A q \in Renders \ {r} : render'[q] = render[q]
  BY <1>2, RowOnly DEF ReelInv
<1>4. ReelTyped'  BY <1>1, <1>2, <1>3 DEF ReelInv, ReelTyped
<1>5. Rolling(r) /\ Telling(r) /\ render[r].pc = "checked"  BY DEF ReelInv, TakeSlot
<1>6. Rolling(r)' /\ Telling(r)'  BY <1>1, <1>2, <1>3, <1>5 DEF Rolling, Telling, Filming
<1> QED  BY <1>1, <1>2, <1>3, <1>4, <1>6, OthersRoll, SamePaid, SameShots DEF ReelInv

LEMMA QueueShotsKeeps == ASSUME ReelInv, NEW r \in Renders, QueueShots(r) PROVE ReelInv'
<1> DEFINE todo == render[r].todo
           rows == [s \in ShotIds |->
                      IF s \in todo THEN [render[r].rows[s] EXCEPT !.status = "queued"] ELSE NoShot]
           queued == [s \in ShotIds |-> IF s \in todo THEN "queued" ELSE "none"]
<1>1. render[r] \in RenderRow /\ render[r].pc = "locked" /\ Rolling(r) /\ Telling(r)
  BY DEF ReelInv, ReelTyped, QueueShots
<1>2. r \in slot /\ slot \subseteq {r}  BY <1>1 DEF Rolling, Filming, ReelInv, OneInSlot
<1>3. UNCHANGED <<filmed, lost, credit, writer, composition>>  BY DEF QueueShots, Others
<1>4. CASE Refuse(r) /\ slot' = {} /\ UNCHANGED <<shot, novel, takes>>
  <2> DEFINE row == [NotRendered EXCEPT !.pc = "refused"]
  <2>1. row \in RenderRow /\ row.pc = "refused"  BY NotRenderedTyped DEF RenderPlaces
  <2> HIDE DEF row
  <2>2. /\ render' \in [Renders -> RenderRow] /\ render'[r] = row
        /\ \A q \in Renders \ {r} : render'[q] = render[q]
    BY <1>4, <2>1, RowOnly DEF ReelInv, Refuse, row
  <2>3. ReelTyped'  BY <1>3, <1>4, <2>2 DEF ReelInv, ReelTyped
  <2>4. Rolling(r)' /\ Telling(r)'  BY <1>1, <1>3, <1>4, <2>1, <2>2 DEF Rolling, Telling, Filming
  <2> QED  BY <1>2, <1>3, <1>4, <2>2, <2>3, <2>4, OthersRoll, SamePaid, SameShots DEF ReelInv
<1>5. CASE /\ novel' = "rendering"
           /\ shot' = [s \in ShotIds |-> IF s \in todo THEN rows[s] ELSE shot[s]]
           /\ takes' = [takes EXCEPT ![r] = queued]
           /\ render' = [render EXCEPT ![r].pc = "next", ![r].rows = rows]
           /\ UNCHANGED slot
  <2> DEFINE row == [render[r] EXCEPT !.pc = "next", !.rows = rows]
  <2>1. rows \in [ShotIds -> ShotRow]
    BY <1>1, NoShotTyped DEF RenderRow, ShotRow
  <2>2. queued \in [ShotIds -> TakeStates]
        /\ \A s \in ShotIds : queued[s] = IF s \in todo THEN "queued" ELSE "none"
    BY DEF TakeStates
  <2>3. ShotsTyped'
    <3>1. shot' \in [ShotIds -> ShotRow]  BY <1>5, <2>1 DEF ReelInv, ShotsTyped
    <3> QED  BY <1>3, <1>5, <3>1 DEF ReelInv, ShotsTyped, ProjectStatuses
  <2> HIDE DEF rows, queued
  <2>4. row \in RenderRow /\ row.pc = "next" /\ row.todo = todo
    BY <1>1, <2>1 DEF RenderRow, RenderPlaces
  <2>5. render' = [render EXCEPT ![r] = row]  BY <1>5
  <2> HIDE DEF row
  <2>6. /\ render' \in [Renders -> RenderRow] /\ render'[r] = row
        /\ \A q \in Renders \ {r} : render'[q] = render[q]
    BY <2>4, <2>5, RowOnly DEF ReelInv
  <2>7. /\ takes' \in [Renders -> [ShotIds -> TakeStates]] /\ takes'[r] = queued
        /\ \A q \in Renders \ {r} : takes'[q] = takes[q]
    BY <1>5, <2>2 DEF ReelInv, ReelTyped
  <2>8. ReelTyped'  BY <1>3, <1>5, <2>6, <2>7 DEF ReelInv, ReelTyped
  <2>9. Rolling(r)'
    <3>1. todo \subseteq ShotIds  BY <1>1 DEF RenderRow
    <3>2. \A s \in ShotIds : filmed'[r][s] = 0  BY <1>1, <1>3 DEF Rolling
    <3>3. r \in slot'  BY <1>2, <1>5
    <3> QED  BY <2>2, <2>4, <2>6, <2>7, <3>1, <3>2, <3>3 DEF Rolling
  <2>10. Telling(r)'
    <3>1. \A s \in ShotIds : filmed'[r][s] = 0  BY <1>1, <1>3 DEF Rolling
    <3> QED  BY <2>4, <2>6, <3>1 DEF Telling
  <2> QED
    BY <1>3, <1>5, <2>3, <2>6, <2>7, <2>8, <2>9, <2>10, OthersRoll, SamePaid DEF ReelInv
<1> QED  BY <1>4, <1>5 DEF QueueShots
\* A save writes the attempt and the row of the current shot, or loses either.
LEMMA SavesRows ==
    ASSUME ReelInv, NEW r \in Renders, render[r].todo # {}, NEW status \in TakeStates,
           NEW row \in ShotRow, Saves(r, status, row)
    PROVE  /\ ShotsTyped' /\ takes' \in [Renders -> [ShotIds -> TakeStates]]
           /\ \A q \in Renders \ {r} : takes'[q] = takes[q]
           /\ \A s \in ShotIds \ {Current(r)} : takes'[r][s] = takes[r][s]
           /\ takes'[r][Current(r)] \in {takes[r][Current(r)], status}
           /\ lost' \in {lost, lost \cup {<<r, Current(r)>>}}
           /\ <<r, Current(r)>> \notin lost' => takes'[r][Current(r)] = status
           /\ UNCHANGED <<novel, filmed, credit, slot, composition, writer>>
<1>1. Current(r) \in ShotIds  BY CurrentIsIn DEF ReelInv
<1>2. UNCHANGED <<novel, filmed, credit, slot, composition, writer>>  BY DEF Saves
<1>3. shot' = shot \/ shot' = [shot EXCEPT ![Current(r)] = row]  BY DEF Saves
<1>4. shot' \in [ShotIds -> ShotRow]  BY <1>3 DEF ReelInv, ShotsTyped
<1>5. \/ takes' = takes /\ lost' = lost \cup {<<r, Current(r)>>}
      \/ takes' = [takes EXCEPT ![r][Current(r)] = status] /\ lost' = lost
  BY DEF Saves
<1>7. <<r, Current(r)>> \notin lost' => takes'[r][Current(r)] = status
  BY <1>1, <1>5 DEF ReelInv, ReelTyped
<1>6. /\ takes' \in [Renders -> [ShotIds -> TakeStates]]
      /\ \A q \in Renders \ {r} : takes'[q] = takes[q]
      /\ \A s \in ShotIds \ {Current(r)} : takes'[r][s] = takes[r][s]
      /\ takes'[r][Current(r)] \in {takes[r][Current(r)], status}
  <2> DEFINE c == Current(r)
  <2>1. c \in ShotIds /\ (takes' = takes \/ takes' = [takes EXCEPT ![r][c] = status])
    BY <1>1, <1>5
  <2>2. takes \in [Renders -> [ShotIds -> TakeStates]]  BY DEF ReelInv, ReelTyped
  <2> HIDE DEF c
  <2>3. /\ takes' \in [Renders -> [ShotIds -> TakeStates]]
        /\ \A q \in Renders \ {r} : takes'[q] = takes[q]
        /\ \A s \in ShotIds \ {c} : takes'[r][s] = takes[r][s]
        /\ takes'[r][c] \in {takes[r][c], status}
    <3>1. CASE takes' = takes  BY <2>2, <3>1
    <3>2. CASE takes' = [takes EXCEPT ![r][c] = status]  BY <2>1, <2>2, <3>2
    <3> QED  BY <2>1, <3>1, <3>2
  <2> QED  BY <2>3 DEF c
<1> QED  BY <1>2, <1>4, <1>5, <1>6, <1>7 DEF ReelInv, ShotsTyped

LEMMA StartShotKeeps == ASSUME ReelInv, NEW r \in Renders, StartShot(r) PROVE ReelInv'
<1> DEFINE s == Current(r)
           shown == [render[r].rows[s] EXCEPT !.status = "running"]
           row == [render[r] EXCEPT !.pc = "film", !.rows[s] = shown]
<1>1. /\ render[r] \in RenderRow /\ render[r].pc = "next" /\ render[r].todo # {}
      /\ Rolling(r) /\ Telling(r) /\ s \in render[r].todo /\ s \in ShotIds
  BY CurrentIsIn DEF ReelInv, ReelTyped, StartShot
<1>2. shown \in ShotRow /\ shown.status = "running"  BY <1>1 DEF RenderRow, ShotRow
<1>3. Saves(r, "running", shown) /\ render' = [render EXCEPT ![r].pc = "film", ![r].rows[s] = shown]
  BY DEF StartShot
<1> HIDE DEF s, shown
<1>4. row \in RenderRow /\ row.pc = "film" /\ row.todo = render[r].todo /\ row.rows[s] = shown
  BY <1>1, <1>2 DEF RenderRow, RenderPlaces
<1>5. render' = [render EXCEPT ![r] = row]  BY <1>1, <1>3 DEF ReelInv, ReelTyped, RenderRow
<1> HIDE DEF row
<1>6. /\ render' \in [Renders -> RenderRow] /\ render'[r] = row
      /\ \A q \in Renders \ {r} : render'[q] = render[q]
  BY <1>4, <1>5, RowOnly DEF ReelInv
<1>7. "running" \in TakeStates  BY DEF TakeStates
<1>8. /\ ShotsTyped' /\ takes' \in [Renders -> [ShotIds -> TakeStates]]
      /\ \A q \in Renders \ {r} : takes'[q] = takes[q]
      /\ \A t \in ShotIds \ {s} : takes'[r][t] = takes[r][t]
      /\ takes'[r][s] \in {takes[r][s], "running"}
      /\ lost' \in {lost, lost \cup {<<r, s>>}}
      /\ <<r, s>> \notin lost' => takes'[r][s] = "running"
      /\ UNCHANGED <<novel, filmed, credit, slot, composition, writer>>
  BY <1>1, <1>2, <1>3, <1>7, SavesRows DEF s
<1>9. ReelTyped'  BY <1>6, <1>8 DEF ReelInv, ReelTyped
<1>10. \A t \in render[r].todo : t \in ShotIds /\ filmed[r][t] = 0 /\ takes[r][t] \in {"queued", "running"}
  BY <1>1 DEF Rolling, RenderRow
<1>11. Rolling(r)'
  <2>1. r \in slot'  BY <1>1, <1>8 DEF Rolling, Filming
  <2>2. \A t \in render'[r].todo : takes'[r][t] \in {"queued", "running"} /\ filmed'[r][t] = 0
    BY <1>4, <1>6, <1>8, <1>10
  <2>3. \A t \in ShotIds : takes'[r][t] \in {"none", "failed"} => filmed'[r][t] = 0
    BY <1>1, <1>8, <1>10 DEF Rolling
  <2>4. render'[r].pc = "film" /\ render'[r].todo # {}  BY <1>1, <1>4, <1>6
  <2> QED  BY <2>1, <2>2, <2>3, <2>4 DEF Rolling
<1>12. Telling(r)'
  <2>1. Current(r)' = s  BY <1>4, <1>6 DEF Current, s
  <2>2. \A t \in ShotIds \ render'[r].todo :
           filmed'[r][t] > 0 /\ <<r, t>> \notin lost' => takes'[r][t] = "succeeded"
    BY <1>1, <1>4, <1>6, <1>8 DEF Telling
  <2>3. \A t \in ShotIds : takes'[r][t] = "queued" /\ filmed'[r][t] > 0 => <<r, t>> \in lost'
    BY <1>1, <1>8, <1>10 DEF Telling
  <2> QED  BY <1>2, <1>4, <1>6, <1>8, <2>1, <2>2, <2>3 DEF Telling
<1> QED  BY <1>6, <1>8, <1>9, <1>11, <1>12, OthersRoll, SamePaid DEF ReelInv

LEMMA OneMore == ASSUME NEW a \in Nat, NEW n \in Nat PROVE a * (n + 1) = a * n + a /\ a * n \in Nat
BY SMTT(40)

\* The video is paid once: the shot has no paid attempt of this render yet.
LEMMA FilmKeeps == ASSUME ReelInv, NEW r \in Renders, Film(r) PROVE ReelInv'
<1> DEFINE s == Current(r)
<1>1. /\ render[r] \in RenderRow /\ render[r].pc = "film" /\ render[r].todo # {}
      /\ Rolling(r) /\ Telling(r)
      /\ s \in render[r].todo /\ s \in ShotIds /\ filmed[r][s] = 0
      /\ takes[r][s] \in {"queued", "running"}
  BY CurrentIsIn DEF ReelInv, ReelTyped, Film, Rolling
<1>2. UNCHANGED <<novel, takes, lost, slot, writer, composition>>  BY DEF Film, Others
<1>12. ShotsTyped'
  <2>1. shot' = shot \/ shot' = [shot EXCEPT ![s] = render[r].rows[s]]  BY DEF Film
  <2>2. render[r].rows[s] \in ShotRow  BY <1>1 DEF RenderRow
  <2> QED  BY <1>1, <1>2, <2>1, <2>2 DEF ReelInv, ShotsTyped
<1>3. PICK result \in {"work", "nothing", "error"} :
         /\ render' = [render EXCEPT ![r].pc = "end", ![r].result = result]
         /\ \/ /\ result = "work" /\ credit >= ShotCost /\ credit' = credit - ShotCost
               /\ filmed' = [filmed EXCEPT ![r][s] = @ + 1]
            \/ UNCHANGED <<credit, filmed>>
  BY DEF Film, Made
<1> DEFINE row == [render[r] EXCEPT !.pc = "end", !.result = result]
<1>4. row \in RenderRow /\ row.pc = "end" /\ row.todo = render[r].todo /\ row.result = result
  BY <1>1 DEF RenderRow, RenderPlaces
<1>5. render' = [render EXCEPT ![r] = row]  BY <1>3
<1> HIDE DEF row, s
<1>6. /\ render' \in [Renders -> RenderRow] /\ render'[r] = row
      /\ \A q \in Renders \ {r} : render'[q] = render[q]
  BY <1>4, <1>5, RowOnly DEF ReelInv
<1>7. Current(r)' = s  BY <1>4, <1>6 DEF Current, s
<1>8. \A t \in render[r].todo : filmed[r][t] = 0 /\ takes[r][t] \in {"queued", "running"}
  BY <1>1 DEF Rolling
<1>9. r \in slot  BY <1>1 DEF Rolling, Filming
<1>13. ASSUME \A t \in ShotIds \ {s} : filmed'[r][t] = filmed[r][t] PROVE Telling(r)'
  BY <1>1, <1>2, <1>4, <1>6, <1>7, <1>13 DEF Telling, s
<1>10. CASE UNCHANGED <<credit, filmed>>
  <2>1. ReelTyped'  BY <1>2, <1>6, <1>10 DEF ReelInv, ReelTyped
  <2>2. Rolling(r)'
    BY <1>1, <1>2, <1>4, <1>6, <1>8, <1>9, <1>10 DEF Rolling
  <2> QED  BY <1>2, <1>6, <1>10, <1>12, <1>13, <2>1, <2>2, OthersRoll, SamePaid DEF ReelInv
<1>11. CASE /\ result = "work" /\ credit >= ShotCost /\ credit' = credit - ShotCost
            /\ filmed' = [filmed EXCEPT ![r][s] = @ + 1]
  <2>1. /\ filmed' \in [Renders -> [ShotIds -> Nat]] /\ filmed'[r][s] = 1
        /\ \A q \in Renders, t \in ShotIds : <<q, t>> # <<r, s>> => filmed'[q][t] = filmed[q][t]
        /\ \A q \in Renders \ {r} : filmed'[q] = filmed[q]
    BY <1>1, <1>11 DEF ReelInv, ReelTyped
  <2>2. credit' \in Nat /\ credit \in Nat /\ ShotCost \in Nat
    BY <1>11, AttemptsFinite DEF ReelInv, ReelTyped
  <2>3. ReelTyped'  BY <1>2, <1>6, <2>1, <2>2 DEF ReelInv, ReelTyped
  <2>4. \A t \in render[r].todo \ {s} : filmed'[r][t] = 0
    <3>1. render[r].todo \subseteq ShotIds  BY <1>1 DEF RenderRow
    <3> QED  BY <1>8, <2>1, <3>1
  <2>5. \A t \in ShotIds : takes'[r][t] \in {"none", "failed"} => filmed'[r][t] = 0
    BY <1>1, <1>2, <2>1 DEF Rolling
  <2>6. Rolling(r)'
    BY <1>1, <1>2, <1>4, <1>6, <1>7, <1>8, <1>9, <1>11, <2>4, <2>5 DEF Rolling
  <2>7. PaidUp'
    <3>1. PaidAttempts' = PaidAttempts \cup {<<r, s>>} /\ <<r, s>> \notin PaidAttempts
      BY <1>1, <2>1 DEF PaidAttempts
    <3>2. Cardinality(PaidAttempts') = Cardinality(PaidAttempts) + 1
      BY <3>1, AttemptsFinite, FS_AddElement
    <3>3. /\ ShotCost * (Cardinality(PaidAttempts) + 1) = ShotCost * Cardinality(PaidAttempts) + ShotCost
          /\ ShotCost * Cardinality(PaidAttempts) \in Nat
      BY OneMore, AttemptsFinite
    <3>4. credit + ShotCost * Cardinality(PaidAttempts) = StartCredits  BY DEF ReelInv, PaidUp
    <3>5. credit' + (ShotCost * Cardinality(PaidAttempts) + ShotCost) = StartCredits
      BY <1>11, <2>2, <3>3, <3>4
    <3> QED  BY <3>2, <3>3, <3>5 DEF PaidUp
  <2> QED  BY <1>2, <1>6, <1>12, <1>13, <2>1, <2>3, <2>6, <2>7, OthersRoll DEF ReelInv
<1> QED  BY <1>3, <1>10, <1>11

LEMMA EndShotKeeps == ASSUME ReelInv, NEW r \in Renders, EndShot(r) PROVE ReelInv'
<1> DEFINE s == Current(r)
           kept == render[r].rows[s].work
           shown == [render[r].rows[s] EXCEPT !.status = Outcome(r),
                        !.work = IF Outcome(r) = "failed" THEN kept ELSE render[r].result = "work"]
           row == [render[r] EXCEPT !.pc = "next", !.todo = @ \ {s},
                          !.rows[s] = NoShot, !.result = "none",
                          !.good = @ \/ Outcome(r) = "succeeded",
                          !.bad = @ \/ Outcome(r) = "failed"]
<1>1. /\ render[r] \in RenderRow /\ render[r].pc = "end" /\ render[r].todo # {}
      /\ Rolling(r) /\ Telling(r) /\ s \in render[r].todo /\ s \in ShotIds
  BY CurrentIsIn DEF ReelInv, ReelTyped, EndShot, Rolling
<1>2. Outcome(r) \in {"failed", "succeeded"} /\ Outcome(r) \in TakeStates
      /\ (Outcome(r) = "failed" <=> render[r].result = "error")
  BY DEF Outcome, TakeStates
<1>3. shown \in ShotRow
  <2>1. render[r].rows[s] \in ShotRow  BY <1>1 DEF RenderRow
  <2> QED  BY <1>2, <2>1 DEF ShotRow
<1>4. /\ Saves(r, Outcome(r), shown)
      /\ render' = [render EXCEPT ![r].pc = "next", ![r].todo = @ \ {s},
                          ![r].rows[s] = NoShot, ![r].result = "none",
                          ![r].good = @ \/ Outcome(r) = "succeeded",
                          ![r].bad = @ \/ Outcome(r) = "failed"]
  BY DEF EndShot
<1> HIDE DEF s, shown
<1>5. row \in RenderRow /\ row.pc = "next" /\ row.todo = render[r].todo \ {s}
  BY <1>1, <1>2, NoShotTyped DEF RenderRow, RenderPlaces
<1>6. render' = [render EXCEPT ![r] = row]  BY <1>1, <1>4 DEF ReelInv, ReelTyped, RenderRow
<1> HIDE DEF row
<1>7. /\ render' \in [Renders -> RenderRow] /\ render'[r] = row
      /\ \A q \in Renders \ {r} : render'[q] = render[q]
  BY <1>5, <1>6, RowOnly DEF ReelInv
<1>8. /\ ShotsTyped' /\ takes' \in [Renders -> [ShotIds -> TakeStates]]
      /\ \A q \in Renders \ {r} : takes'[q] = takes[q]
      /\ \A t \in ShotIds \ {s} : takes'[r][t] = takes[r][t]
      /\ takes'[r][s] \in {takes[r][s], Outcome(r)}
      /\ lost' \in {lost, lost \cup {<<r, s>>}}
      /\ <<r, s>> \notin lost' => takes'[r][s] = Outcome(r)
      /\ UNCHANGED <<novel, filmed, credit, slot, composition, writer>>
  BY <1>1, <1>2, <1>3, <1>4, SavesRows DEF s
<1>9. ReelTyped'  BY <1>7, <1>8 DEF ReelInv, ReelTyped
<1>10. /\ \A t \in render[r].todo : takes[r][t] \in {"queued", "running"}
       /\ \A t \in render[r].todo \ {s} : t \in ShotIds /\ filmed[r][t] = 0
       /\ render[r].result # "work" => filmed[r][s] = 0
  BY <1>1 DEF Rolling, RenderRow, s
<1>11. Rolling(r)'
  <2>1. r \in slot'  BY <1>1, <1>8 DEF Rolling, Filming
  <2>2. \A t \in render'[r].todo : takes'[r][t] \in {"queued", "running"} /\ filmed'[r][t] = 0
    BY <1>5, <1>7, <1>8, <1>10
  <2>3. \A t \in ShotIds : takes'[r][t] \in {"none", "failed"} => filmed'[r][t] = 0
    BY <1>1, <1>2, <1>8, <1>10 DEF Rolling
  <2>4. render'[r].pc = "next"  BY <1>5, <1>7
  <2> QED  BY <2>1, <2>2, <2>3, <2>4 DEF Rolling
<1>12. Telling(r)'
  <2>1. filmed[r][s] > 0 => Outcome(r) = "succeeded"
    BY <1>1, <1>2, <1>10 DEF ReelInv, ReelTyped
  <2>2. \A t \in ShotIds \ render'[r].todo :
           filmed'[r][t] > 0 /\ <<r, t>> \notin lost' => takes'[r][t] = "succeeded"
    <3>1. TAKE t \in ShotIds \ render'[r].todo
    <3>2. CASE t = s  BY <1>8, <2>1, <3>2
    <3>3. CASE t # s
      <4>1. t \in ShotIds \ render[r].todo  BY <1>5, <1>7, <3>1, <3>3
      <4> QED  BY <1>1, <1>8, <3>3, <4>1 DEF Telling
    <3> QED  BY <3>2, <3>3
  <2>3. \A t \in ShotIds : takes'[r][t] = "queued" /\ filmed'[r][t] > 0 => <<r, t>> \in lost'
    BY <1>1, <1>2, <1>8 DEF Telling
  <2> QED  BY <1>5, <1>7, <2>2, <2>3 DEF Telling
<1> QED  BY <1>7, <1>8, <1>9, <1>11, <1>12, OthersRoll, SamePaid DEF ReelInv

LEMMA FinishKeeps == ASSUME ReelInv, NEW r \in Renders, FinishRender(r) PROVE ReelInv'
<1> DEFINE row == [NotRendered EXCEPT !.pc = "over"]
<1>1. Rolling(r) /\ Telling(r) /\ render[r].pc = "next"  BY DEF ReelInv, FinishRender
<1>2. slot \subseteq {r} /\ slot' = {}
  BY <1>1 DEF Rolling, Filming, ReelInv, OneInSlot, FinishRender
<1>3. /\ UNCHANGED <<shot, takes, filmed, lost, credit, composition, writer>>
      /\ render' = [render EXCEPT ![r] = row]
  BY DEF FinishRender, films
<1>4. row \in RenderRow /\ row.pc = "over"  BY NotRenderedTyped DEF RenderPlaces
<1> HIDE DEF row
<1>5. /\ render' \in [Renders -> RenderRow] /\ render'[r] = row
      /\ \A q \in Renders \ {r} : render'[q] = render[q]
  BY <1>3, <1>4, RowOnly DEF ReelInv
<1>6. novel' \in ProjectStatuses
  BY DEF FinishRender, ReelInv, ShotsTyped, ProjectStatuses
<1>7. ReelTyped' /\ ShotsTyped'
  BY <1>2, <1>3, <1>5, <1>6 DEF ReelInv, ReelTyped, ShotsTyped
<1>8. Rolling(r)' /\ Telling(r)'  BY <1>1, <1>3, <1>4, <1>5 DEF Rolling, Telling, Filming
<1> QED  BY <1>2, <1>3, <1>5, <1>7, <1>8, OthersRoll, SamePaid DEF ReelInv
\* When the process dies nobody films, and the lock is free.
LEMMA StopKeeps == ASSUME ReelInv, Stop PROVE ReelInv'
<1>1. /\ render' = [r \in Renders |->
             [NotRendered EXCEPT !.pc = IF render[r].pc = "new" THEN "new" ELSE "over"]]
      /\ slot' = {} /\ writer' = [w \in Writers |-> Off]
      /\ composition' = [c \in Compositions |->
             IF composition[c] = "running" THEN "stuck" ELSE composition[c]]
      /\ UNCHANGED <<shot, novel, takes, filmed, lost, credit>>
  BY DEF Stop, films
<1>2. ASSUME NEW r \in Renders
      PROVE  /\ render'[r] \in RenderRow
             /\ render'[r].pc = IF render[r].pc = "new" THEN "new" ELSE "over"
  <2> DEFINE pc == IF render[r].pc = "new" THEN "new" ELSE "over"
  <2>1. pc \in RenderPlaces  BY DEF RenderPlaces
  <2>2. render'[r] = [NotRendered EXCEPT !.pc = pc]  BY <1>1
  <2> HIDE DEF pc
  <2>3. render'[r] \in RenderRow /\ render'[r].pc = pc  BY <2>1, <2>2, NotRenderedTyped
  <2> QED  BY <2>3 DEF pc
<1>3. ReelTyped'  BY <1>1, <1>2 DEF ReelInv, ReelTyped
<1>4. ShotsTyped'  BY <1>1, OffTyped DEF ReelInv, ShotsTyped
<1>5. ASSUME NEW r \in Renders PROVE Rolling(r)' /\ Telling(r)'
  <2>1. Rolling(r) /\ Telling(r)  BY DEF ReelInv
  <2>2. render'[r].pc \in {"new", "over"} /\ (render'[r].pc = "new" => render[r].pc = "new")
    BY <1>2
  <2>3. Rolling(r)'  BY <1>1, <2>1, <2>2 DEF Rolling, Filming
  <2>4. Telling(r)'  BY <1>1, <2>1, <2>2 DEF Telling
  <2> QED  BY <2>3, <2>4
<1> QED  BY <1>1, <1>3, <1>4, <1>5, SamePaid DEF ReelInv, OneInSlot

\* The other handlers and the compositions leave the renders alone.
LEMMA ReelRests == ASSUME ReelInv, ShotsTyped', UNCHANGED reel PROVE ReelInv'
<1>1. UNCHANGED <<takes, filmed, lost, credit, render, slot>>  BY DEF reel, films
<1>2. ReelTyped'  BY <1>1 DEF ReelInv, ReelTyped
<1>3. ASSUME NEW r \in Renders PROVE Rolling(r)' /\ Telling(r)'
  <2>1. Rolling(r) /\ Telling(r)  BY DEF ReelInv
  <2>2. Current(r)' = Current(r) /\ Filming' = Filming  BY <1>1 DEF Current, Filming
  <2> QED  BY <1>1, <2>1, <2>2 DEF Rolling, Telling
<1>4. OneInSlot'  BY <1>1 DEF ReelInv, OneInSlot
<1> QED  BY <1>1, <1>2, <1>3, <1>4, SamePaid DEF ReelInv

LEMMA WriteRests == ASSUME ReelInv, NEW w \in Writers, Write(w) PROVE ReelInv'
<1>0. ShotsTyped /\ writer[w] \in WriterRow  BY DEF ReelInv, ShotsTyped
<1>1. ASSUME NEW row \in WriterRow, Reads(w, row) PROVE ReelInv'
  <2> DEFINE new == [row EXCEPT !.project = novel]
  <2>1. new \in WriterRow  BY <1>0 DEF ShotsTyped, WriterRow
  <2>2. writer' = [writer EXCEPT ![w] = new] /\ UNCHANGED <<shot, novel, composition>> /\ UNCHANGED reel
    BY <1>1 DEF Reads
  <2> HIDE DEF new
  <2>3. ShotsTyped'  BY <1>0, <2>1, <2>2 DEF ShotsTyped
  <2> QED  BY <2>2, <2>3, ReelRests
<1>2. ASSUME writer' = [writer EXCEPT ![w] = Off], shot' \in [ShotIds -> ShotRow],
             novel' \in ProjectStatuses, composition' = composition, UNCHANGED reel
      PROVE  ReelInv'
  BY <1>0, <1>2, OffTyped, ReelRests DEF ShotsTyped
<1>3. ASSUME ReadShot(w) PROVE ReelInv'
  <2>1. PICK s \in ShotIds, op \in {"shot", "board"} :
           Reads(w, [Off EXCEPT !.op = op, !.id = s, !.row = shot[s]])
    BY <1>3 DEF ReadShot
  <2> DEFINE row == [Off EXCEPT !.op = op, !.id = s, !.row = shot[s]]
  <2>2. shot[s] \in ShotRow /\ s \in 0..NumShots
    BY <1>0, NovelRenderConstants DEF ShotsTyped, ShotIds
  <2>3. row \in WriterRow  BY <2>2, OffTyped DEF WriterRow
  <2> HIDE DEF row
  <2> QED  BY <1>1, <2>1, <2>3 DEF row
<1>4. ASSUME PatchShot(w) PROVE ReelInv'
  <2>1. PICK status \in {writer[w].row.status, "approved", "needs_review"} :
           shot' = [shot EXCEPT ![writer[w].id] = [writer[w].row EXCEPT !.status = status]]
    BY <1>4 DEF PatchShot, SaveRead
  <2>2. [writer[w].row EXCEPT !.status = status] \in ShotRow
    <3>1. writer[w].row \in ShotRow  BY <1>0 DEF WriterRow
    <3> QED  BY <3>1 DEF ShotRow
  <2>3. shot' \in [ShotIds -> ShotRow]  BY <1>0, <2>1, <2>2 DEF ShotsTyped
  <2> QED  BY <1>0, <1>2, <1>4, <2>3 DEF PatchShot, Writes, ShotsTyped
<1>5. ASSUME Storyboard(w) PROVE ReelInv'
  <2>1. writer[w].row \in ShotRow  BY <1>0 DEF WriterRow
  <2>2. shot' \in [ShotIds -> ShotRow]  BY <1>0, <1>5, <2>1 DEF ShotsTyped, Storyboard, SaveRead
  <2> QED  BY <1>0, <1>2, <1>5, <2>2 DEF Storyboard, Writes, ShotsTyped
<1>6. ASSUME ReadProject(w) PROVE ReelInv'
  <2>1. PICK op \in {"novel", "restore", "plan"} : Reads(w, [Off EXCEPT !.op = op])
    BY <1>6 DEF ReadProject
  <2>2. [Off EXCEPT !.op = op] \in WriterRow  BY OffTyped DEF WriterRow
  <2> QED  BY <1>1, <2>1, <2>2
<1>7. ASSUME ReadApproved(w) PROVE ReelInv'
  <2>1. Reads(w, [Off EXCEPT !.op = "jobs", !.ids = Approved])  BY <1>7 DEF ReadApproved
  <2>2. Approved \in SUBSET ShotIds  BY DEF Approved
  <2>3. [Off EXCEPT !.op = "jobs", !.ids = Approved] \in WriterRow
    BY <2>2, OffTyped DEF WriterRow
  <2> QED  BY <1>1, <2>1, <2>3
<1>8. ASSUME PatchProject(w) \/ RestoreVersion(w) \/ QueueRenderJobs(w) PROVE ReelInv'
  <2>1. shot' = shot /\ composition' = composition /\ UNCHANGED reel
        /\ writer' = [writer EXCEPT ![w] = Off]
        /\ novel' \in {writer[w].project, "planned", "rendering"}
    BY <1>8 DEF PatchProject, RestoreVersion, QueueRenderJobs, Writes
  <2>2. novel' \in ProjectStatuses  BY <1>0, <2>1 DEF WriterRow, ProjectStatuses
  <2> QED  BY <1>0, <1>2, <2>1, <2>2 DEF ShotsTyped
<1>9. ASSUME PlanEpisodes(w) PROVE ReelInv'
  <2>1. shot' \in [ShotIds -> ShotRow]  BY <1>9, NoShotTyped DEF PlanEpisodes, Replanned
  <2> QED  BY <1>2, <1>9, <2>1 DEF PlanEpisodes, Writes, ProjectStatuses
<1> QED  BY <1>3, <1>4, <1>5, <1>6, <1>7, <1>8, <1>9 DEF Write

LEMMA ReelInvStep == ReelInv /\ [RenderNext]_novelRender => ReelInv'
<1> SUFFICES ASSUME ReelInv, [RenderNext]_novelRender PROVE ReelInv'
  OBVIOUS
<1>1. ASSUME NEW r \in Renders, Render(r) PROVE ReelInv'
  BY <1>1, PreflightKeeps, TakeSlotKeeps, QueueShotsKeeps, StartShotKeeps, FilmKeeps,
     EndShotKeeps,
     FinishKeeps DEF Render
<1>2. ASSUME NEW c \in Compositions, Compose(c) PROVE ReelInv'
  <2>1. UNCHANGED <<shot, novel, writer>> /\ UNCHANGED reel  BY <1>2 DEF Compose
  <2>2. PICK st \in {"running", "failed", "stuck", "succeeded"} :
           composition' = [composition EXCEPT ![c] = st]
    BY <1>2 DEF Compose
  <2>3. ShotsTyped'  BY <2>1, <2>2 DEF ReelInv, ShotsTyped
  <2> QED  BY <2>1, <2>3, ReelRests
<1>3. CASE UNCHANGED novelRender
  <2>1. UNCHANGED <<shot, novel, writer, composition>> /\ UNCHANGED reel
    BY <1>3 DEF novelRender
  <2> QED  BY <2>1, ReelRests, SameShots DEF ReelInv
<1> QED  BY <1>1, <1>2, <1>3, WriteRests, StopKeeps DEF RenderNext

\* What a step must keep for the approvals not to be exceeded.
LEMMA ApprovalsKept ==
    ASSUME ApprovalsSpent, approvals' \in [ShotIds -> Nat],
           \A s \in ShotIds : /\ InTime(s)' \subseteq InTime(s)
                              /\ \/ approvals'[s] = approvals[s] /\ (s \in Approved' => s \in Approved)
                                 \/ approvals'[s] = approvals[s] + 1 /\ s \notin Approved
    PROVE  ApprovalsSpent'
<1>1. IsFiniteSet(Renders)  BY AttemptsFinite
<1>2. ASSUME NEW s \in ShotIds
      PROVE  Cardinality(InTime(s)') + (IF s \in Approved' THEN 1 ELSE 0) <= approvals'[s]
  <2>1. IsFiniteSet(InTime(s))  BY <1>1, FS_Subset DEF InTime
  <2>2. /\ Cardinality(InTime(s)) \in Nat /\ Cardinality(InTime(s)') \in Nat
        /\ Cardinality(InTime(s)') <= Cardinality(InTime(s))
    BY <2>1, FS_Subset, FS_CardinalityType
  <2>3. approvals[s] \in Nat
        /\ Cardinality(InTime(s)) + (IF s \in Approved THEN 1 ELSE 0) <= approvals[s]
    BY DEF ApprovalsSpent
  <2> DEFINE n == Cardinality(InTime(s))
             m == Cardinality(InTime(s)')
  <2>4. n \in Nat /\ m \in Nat /\ m <= n /\ n + (IF s \in Approved THEN 1 ELSE 0) <= approvals[s]
    BY <2>2, <2>3
  <2> HIDE DEF n, m
  <2>5. m + (IF s \in Approved' THEN 1 ELSE 0) <= approvals'[s]  BY <2>3, <2>4
  <2> QED  BY <2>5 DEF m
<1> QED  BY <1>2 DEF ApprovalsSpent

\* Queueing in time uses up the approval: the shot was approved and now is queued.
LEMMA QueueSpends == ASSUME ReelInv, ApprovalsSpent, NEW r \in Renders, QueueShots(r) PROVE ApprovalsSpent'
<1> DEFINE todo == render[r].todo
           rows == [s \in ShotIds |->
                      IF s \in todo THEN [render[r].rows[s] EXCEPT !.status = "queued"] ELSE NoShot]
           queued == [s \in ShotIds |-> IF s \in todo THEN "queued" ELSE "none"]
<1>1. /\ render[r] \in RenderRow /\ takes \in [Renders -> [ShotIds -> TakeStates]]
      /\ \A s \in ShotIds : takes[r][s] = "none"
  BY DEF ReelInv, ReelTyped, QueueShots, Rolling
<1>2. approvals' = approvals  BY DEF QueueShots, Others
<1>3. CASE UNCHANGED <<shot, takes, late>>
  <2>1. Approved' = Approved /\ \A s \in ShotIds : InTime(s)' = InTime(s)
    BY <1>3 DEF Approved, InTime
  <2> QED  BY <1>2, <2>1, ApprovalsKept DEF ApprovalsSpent
<1>4. CASE /\ shot' = [s \in ShotIds |-> IF s \in todo THEN rows[s] ELSE shot[s]]
           /\ takes' = [takes EXCEPT ![r] = queued]
           /\ late' = late \cup ({r} \X (todo \ Approved))
  <2>1. ASSUME NEW s \in ShotIds
        PROVE  Cardinality(InTime(s)') + (IF s \in Approved' THEN 1 ELSE 0) <= approvals'[s]
    <3>0. render[r].rows[s] \in ShotRow  BY <1>1 DEF RenderRow
    <3>1. s \in todo => shot'[s].status = "queued"  BY <1>4, <3>0 DEF ShotRow
    <3>2. s \notin todo => shot'[s] = shot[s]  BY <1>4
    <3>3. s \in Approved' <=> s \in Approved /\ s \notin todo
      BY <3>1, <3>2 DEF Approved
    <3>4. takes'[r][s] = IF s \in todo THEN "queued" ELSE "none"  BY <1>1, <1>4
    <3>5. \A q \in Renders \ {r} : takes'[q] = takes[q]  BY <1>1, <1>4
    <3>6. \A q \in Renders : <<q, s>> \in late' <=> <<q, s>> \in late \/ (q = r /\ s \in todo \ Approved)
      BY <1>4
    <3> HIDE DEF todo, rows, queued
    <3>7. r \notin InTime(s)  BY <1>1 DEF InTime
    <3>8. InTime(s)' \in {InTime(s), InTime(s) \cup {r}}
          /\ (r \in InTime(s)' => s \in todo /\ s \in Approved)
      BY <1>1, <3>4, <3>5, <3>6 DEF InTime
    <3>9. IsFiniteSet(InTime(s)) /\ Cardinality(InTime(s)) \in Nat
      BY AttemptsFinite, FS_Subset, FS_CardinalityType DEF InTime
    <3>10. /\ approvals[s] \in Nat
           /\ Cardinality(InTime(s)) + (IF s \in Approved THEN 1 ELSE 0) <= approvals[s]
      BY DEF ApprovalsSpent
    <3>11. CASE r \in InTime(s)'
      <4>1. InTime(s)' = InTime(s) \cup {r}  BY <3>7, <3>8, <3>11
      <4>2. Cardinality(InTime(s)') = Cardinality(InTime(s)) + 1
        BY <3>7, <3>9, <4>1, FS_AddElement
      <4> QED  BY <1>2, <3>3, <3>8, <3>9, <3>10, <3>11, <4>2
    <3>12. CASE r \notin InTime(s)'
      <4>1. InTime(s)' = InTime(s)  BY <3>8, <3>12
      <4> QED  BY <1>2, <3>3, <3>9, <3>10, <4>1
    <3> QED  BY <3>11, <3>12
  <2> QED  BY <1>2, <2>1 DEF ApprovalsSpent
<1> QED  BY <1>3, <1>4 DEF QueueShots, Refuse

\* The rows a render saves are not approved, and the shots it saves are queued already.
LEMMA SavesSpendNothing ==
    ASSUME ReelInv, ApprovalsSpent, NEW r \in Renders, StartShot(r) \/ Film(r) \/ EndShot(r)
    PROVE  ApprovalsSpent'
<1> DEFINE s == Current(r)
<1>1. /\ render[r] \in RenderRow /\ render[r].todo # {} /\ s \in ShotIds
      /\ Telling(r) /\ takes[r][s] # "none" /\ takes \in [Renders -> [ShotIds -> TakeStates]]
  <2>1. render[r].pc \in {"next", "film", "end"} /\ Rolling(r) /\ Telling(r) /\ render[r] \in RenderRow
    BY DEF ReelInv, ReelTyped, StartShot, Film, EndShot
  <2>2. render[r].todo # {}  BY <2>1 DEF StartShot, Film, EndShot, Rolling
  <2>3. s \in render[r].todo /\ s \in ShotIds  BY <2>2, CurrentIsIn DEF ReelInv
  <2>4. takes[r][s] \in {"queued", "running"}  BY <2>1, <2>3 DEF Rolling
  <2> QED  BY <2>1, <2>2, <2>3, <2>4 DEF ReelInv, ReelTyped
<1>2. render[r].rows[s] \in ShotRow  BY <1>1 DEF RenderRow
<1>3. approvals' = approvals /\ late' = late  BY DEF StartShot, Film, EndShot, Saves, Others
<1>4. PICK row \in ShotRow : /\ row.status # "approved"
                             /\ shot' = shot \/ shot' = [shot EXCEPT ![s] = row]
  <2>1. CASE StartShot(r)
    <3> DEFINE row == [render[r].rows[s] EXCEPT !.status = "running"]
    <3>1. row \in ShotRow /\ row.status # "approved"  BY <1>2 DEF ShotRow
    <3>2. shot' = shot \/ shot' = [shot EXCEPT ![s] = row]  BY <2>1 DEF StartShot, Saves
    <3> HIDE DEF row
    <3> QED  BY <3>1, <3>2
  <2>2. CASE Film(r)
    <3>1. render[r].rows[s].status = "running"  BY <1>1, <2>2 DEF Film, Telling
    <3>2. shot' = shot \/ shot' = [shot EXCEPT ![s] = render[r].rows[s]]  BY <2>2 DEF Film
    <3> QED  BY <1>2, <3>1, <3>2
  <2>3. CASE EndShot(r)
    <3> DEFINE row == [render[r].rows[s] EXCEPT !.status = Outcome(r),
                          !.work = IF Outcome(r) = "failed" THEN render[r].rows[s].work
                                   ELSE render[r].result = "work"]
    <3>1. Outcome(r) \in {"failed", "succeeded"}  BY DEF Outcome
    <3>2. row \in ShotRow /\ row.status # "approved"  BY <1>2, <3>1 DEF ShotRow
    <3>3. shot' = shot \/ shot' = [shot EXCEPT ![s] = row]  BY <2>3 DEF EndShot, Saves
    <3> HIDE DEF row
    <3> QED  BY <3>2, <3>3
  <2> QED  BY <2>1, <2>2, <2>3
<1>5. Approved' \subseteq Approved
  BY <1>1, <1>4 DEF ReelInv, ShotsTyped, Approved
<1>6. \/ takes' = takes
      \/ \E status : takes' = [takes EXCEPT ![r][s] = status]
  BY DEF StartShot, Film, EndShot, Saves
<1> HIDE DEF s
<1>7. \A q \in Renders, t \in ShotIds : takes[q][t] = "none" => takes'[q][t] = "none"
  BY <1>1, <1>6
<1>8. \A t \in ShotIds : InTime(t)' \subseteq InTime(t)  BY <1>3, <1>7 DEF InTime
<1> QED  BY <1>3, <1>5, <1>8, ApprovalsKept DEF ApprovalsSpent

LEMMA ApprovalsStep ==
    ReelInv /\ ApprovalsSpent /\ [RenderNext]_novelRender => ApprovalsSpent'
<1> SUFFICES ASSUME ReelInv, ApprovalsSpent, [RenderNext]_novelRender PROVE ApprovalsSpent'
  OBVIOUS
<1>0. approvals \in [ShotIds -> Nat]  BY DEF ApprovalsSpent
<1>1. ASSUME UNCHANGED <<shot, takes, late, approvals>> PROVE ApprovalsSpent'
  <2>1. Approved' = Approved /\ \A s \in ShotIds : InTime(s)' = InTime(s)
    BY <1>1 DEF Approved, InTime
  <2> QED  BY <1>0, <1>1, <2>1, ApprovalsKept
<1>2. ASSUME NEW r \in Renders, Render(r) PROVE ApprovalsSpent'
  <2>1. Preflight(r) \/ TakeSlot(r) \/ FinishRender(r) => UNCHANGED <<shot, takes, late, approvals>>
    BY DEF Preflight, TakeSlot, FinishRender, films, Others
  <2> QED  BY <1>1, <1>2, <2>1, QueueSpends, SavesSpendNothing DEF Render
<1>3. ASSUME NEW w \in Writers, NEW row, SaveRead(w, row), Writes(w, writer[w].op) PROVE ApprovalsSpent'
  <2> DEFINE id == writer[w].id
  <2>1. /\ takes' = takes /\ late' = late /\ shot \in [ShotIds -> ShotRow]
        /\ shot' = [shot EXCEPT ![id] = row]
        /\ \/ id \notin Approved /\ approvals' = [approvals EXCEPT ![id] = @ + 1]
           \/ /\ approvals' = approvals
              /\ id \in Approved \/ ~(row.live /\ row.status = "approved")
    BY <1>3 DEF SaveRead, Writes, reel, films, ReelInv, ShotsTyped
  <2> HIDE DEF id
  <2>2. \A s \in ShotIds : InTime(s)' = InTime(s)  BY <2>1 DEF InTime
  <2>3. approvals' \in [ShotIds -> Nat]  BY <1>0, <2>1
  <2>4. \A s \in ShotIds : \/ approvals'[s] = approvals[s] /\ (s \in Approved' => s \in Approved)
                           \/ approvals'[s] = approvals[s] + 1 /\ s \notin Approved
    BY <1>0, <2>1 DEF Approved
  <2> QED  BY <2>2, <2>3, <2>4, ApprovalsKept
<1>4. ASSUME NEW w \in Writers, PlanEpisodes(w) PROVE ApprovalsSpent'
  <2>1. UNCHANGED <<takes, late, approvals>> /\ shot' = Replanned
    BY <1>4 DEF PlanEpisodes, Writes, reel, films
  <2>2. Approved' = {}  BY <2>1 DEF Approved, Replanned, Planned, NoShot
  <2>3. \A s \in ShotIds : InTime(s)' = InTime(s)  BY <2>1 DEF InTime
  <2> QED  BY <1>0, <2>1, <2>2, <2>3, ApprovalsKept
<1>5. ASSUME NEW w \in Writers, Write(w) PROVE ApprovalsSpent'
  <2>1. CASE PatchShot(w)  BY <1>3, <2>1 DEF PatchShot, Writes
  <2>2. CASE Storyboard(w)  BY <1>3, <2>2 DEF Storyboard, Writes
  <2>3. CASE ReadShot(w) \/ ReadProject(w) \/ ReadApproved(w)
    BY <1>1, <2>3 DEF ReadShot, ReadProject, ReadApproved, Reads, reel, films
  <2>4. CASE PatchProject(w) \/ RestoreVersion(w) \/ QueueRenderJobs(w)
    BY <1>1, <2>4 DEF PatchProject, RestoreVersion, QueueRenderJobs, Writes, reel, films
  <2> QED  BY <1>4, <1>5, <2>1, <2>2, <2>3, <2>4 DEF Write
<1>6. ASSUME NEW c \in Compositions, Compose(c) PROVE ApprovalsSpent'
  BY <1>1, <1>6 DEF Compose, reel, films
<1>7. CASE Stop  BY <1>1, <1>7 DEF Stop, films
<1>8. CASE UNCHANGED novelRender  BY <1>1, <1>8 DEF novelRender, reel, films
<1> QED  BY <1>2, <1>5, <1>6, <1>7, <1>8 DEF RenderNext

LEMMA InitApprovals == RenderInit => ApprovalsSpent
<1> SUFFICES ASSUME RenderInit PROVE ApprovalsSpent
  OBVIOUS
<1>1. approvals \in [ShotIds -> Nat]  BY DEF RenderInit
<1>2. ASSUME NEW s \in ShotIds
      PROVE  Cardinality(InTime(s)) + (IF s \in Approved THEN 1 ELSE 0) <= approvals[s]
  <2>1. InTime(s) = {}  BY DEF RenderInit, InTime
  <2>2. Cardinality(InTime(s)) = 0  BY <2>1, FS_EmptySet
  <2>3. s \in Approved => approvals[s] = 1  BY DEF RenderInit, Approved, NoShot
  <2>4. approvals[s] \in Nat  BY <1>1
  <2> QED  BY <2>2, <2>3, <2>4
<1> QED  BY <1>1, <1>2 DEF ApprovalsSpent

\* The credits of a project tell what its attempts say, for any number of renders, shots
\* and stops: each attempt is paid at most once, one that failed never, one that waits only
\* if its save was lost; one that is paid says so when its render goes on, unless a save of
\* it was lost; a shot is paid at most as often as it was approved, but for renders that
\* queued it late; and two renders never film at the same time.
THEOREM AttemptsAlwaysTell == RenderSpec => []AttemptsTellWhatWasPaid
<1>1. ASSUME ReelInv, ApprovalsSpent PROVE AttemptsTellWhatWasPaid
  <2>1. Cardinality(Filming) <= 1
    <3>1. Filming \subseteq slot  BY <1>1 DEF ReelInv, Rolling, Filming
    <3>2. CASE Filming = {}  BY <3>2, FS_EmptySet
    <3>3. CASE Filming # {}
      <4>1. PICK r : Filming = {r}  BY <1>1, <3>1, <3>3 DEF ReelInv, OneInSlot
      <4>2. Cardinality({r}) = 1  BY FS_Singleton
      <4>3. Cardinality(Filming) = 1  BY <4>1, <4>2
      <4> QED  BY <4>3
    <3> QED  BY <3>2, <3>3
  <2>2. ASSUME NEW r \in Renders, NEW s \in ShotIds, filmed[r][s] > 0
        PROVE  /\ takes[r][s] \notin {"none", "failed"}
               /\ <<r, s>> \notin lost => takes[r][s] # "queued"
               /\ <<r, s>> \notin lost /\ render[r].pc = "next" => takes[r][s] = "succeeded"
    <3>1. Rolling(r) /\ Telling(r)  BY <1>1 DEF ReelInv
    <3>2. render[r].pc = "next" => s \notin render[r].todo  BY <2>2, <3>1 DEF Rolling
    <3> QED  BY <2>2, <3>1, <3>2 DEF Rolling, Telling
  <2>3. ASSUME NEW s \in ShotIds PROVE Cardinality(PaidInTime(s)) <= approvals[s]
    <3>1. PaidInTime(s) \subseteq InTime(s)
      BY <1>1 DEF PaidInTime, InTime, ReelInv, Rolling
    <3>2. IsFiniteSet(InTime(s))  BY AttemptsFinite, FS_Subset DEF InTime
    <3>3. /\ Cardinality(PaidInTime(s)) \in Nat /\ Cardinality(InTime(s)) \in Nat
          /\ Cardinality(PaidInTime(s)) <= Cardinality(InTime(s))
      BY <3>1, <3>2, FS_Subset, FS_CardinalityType
    <3>4. approvals[s] \in Nat
          /\ Cardinality(InTime(s)) + (IF s \in Approved THEN 1 ELSE 0) <= approvals[s]
      BY <1>1 DEF ApprovalsSpent
    <3> QED  BY <3>3, <3>4
  <2> QED  BY <1>1, <2>1, <2>2, <2>3 DEF ReelInv, PaidUp, AttemptsTellWhatWasPaid
<1> QED  BY <1>1, InitReelInv, InitApprovals, ReelInvStep, ApprovalsStep, PTL DEF RenderSpec
-----------------------------------------------------------------------------
(***************************************************************************)
(* The studio of commerce.                                                 *)
(***************************************************************************)

Quotes == 1..MaxQuotes

ProjectRow == [st : {"none", "active", "blocked", "leaving", "gone"}, product : Products \cup {0},
               def : Skus \cup {0}, spec : Specs \cup {0}]
SpecRow(c) == [st : {"none", "analyzing", "draft", "confirmed", "analysis_failed"},
               source : {"manual", "vision"}, version : Nat, complete : BOOLEAN, context : {c}]
AnalysisRow == [st : {"none", "queued", "retrying", "running", "succeeded", "failed", "canceled"},
                tries : Nat, cancel : BOOLEAN]
PatchRow   == [at : {"idle", "loaded", "done"}, product : Products \cup {0}, moves : BOOLEAN,
               def : Skus \cup {0}]
Totals     == {0} \cup {Cost(r, p) : r \in Requests, p \in {1, 2}}
QuoteRow   == [st : {"none", "issued", "expired", "consumed"}, request : Requests \cup {<<>>},
               price : {0, 1, 2}, total : Totals]
BatchRow   == [st : {"none", "queued"}, request : Requests \cup {<<>>}, quote : Quotes \cup {0},
               total : Totals]
Stages     == {"none", "claimed", "asked", "ok", "failed", "retry", "done"}

SkuTyped     == sku \in [Skus -> {"none", "active", "disabled", "other"}]
ProjectTyped == project \in ProjectRow /\ desk \in [Editors -> PatchRow]
SpecTyped    == DOMAIN spec = Specs /\ spec = [x \in Specs |-> spec[x]]
                /\ \A x \in Specs : \E c : spec[x] \in SpecRow(c)
JobTyped     == job \in [Specs -> AnalysisRow] /\ attempt \in [Specs -> [Attempts -> Stages]]
QuoteTyped   == quote \in [Quotes -> QuoteRow] /\ price \in {1, 2}
                /\ batch \in [SubmitKeys -> BatchRow]

\* The default SKU as DefaultServes has it, and no row that was never written.
DefaultIsThere ==
    There /\ project.def # 0 /\ ~crossed =>
        ProductOf[project.def] = project.product /\ sku[project.def] \in {"active", "other"}

\* The submission under way has a quotation that is not spent and a key that is free.
Submitting ==
    submit # NoSubmit =>
        /\ submit.key \in SubmitKeys /\ submit.quote \in Quotes
        /\ quote[submit.quote].st \in {"issued", "expired"}
        /\ batch[submit.key].st = "none"

QuotesTell ==
    \A q \in Quotes : quote[q].st # "none" =>
        quote[q].request \in Requests /\ quote[q].total = Cost(quote[q].request, quote[q].price)

\* Spent quotations and batches correspond one to one.
Spends(k, q) == batch[k].st # "none" /\ batch[k].quote = q

SpentOnce ==
    /\ \A k \in SubmitKeys : batch[k].st # "none" =>
          /\ batch[k].quote \in Quotes /\ quote[batch[k].quote].st = "consumed"
          /\ quote[batch[k].quote].request = batch[k].request
          /\ quote[batch[k].quote].total = batch[k].total
    /\ \A q \in Quotes : quote[q].st = "consumed" => \E k \in SubmitKeys : Spends(k, q)
    /\ \A k, l \in SubmitKeys, q \in Quotes : Spends(k, q) /\ Spends(l, q) => k = l

\* What the rows of an analysis say of its specification.
AnalysisTells(x) ==
    /\ spec[x].st = "none" => job[x].st = "none" /\ \A a \in Attempts : attempt[x][a] = "none"
    /\ spec[x].st = "analyzing" => spec[x].version = 1
    /\ job[x].cancel => project.st \in {"leaving", "gone"}
    /\ \A a \in Attempts : attempt[x][a] = "ok" => spec[x].st # "analyzing"
    /\ \A a \in Attempts : attempt[x][a] = "failed" => spec[x].st # "analyzing" \/ x \in slipped
    /\ spec[x].st = "analyzing" =>
          Pending(x) \/ job[x].st = "running" \/ x \in slipped \/ project.st \in {"leaving", "gone"}

Confirming == confirm # NoConfirm => confirm.spec \in Specs

StudioTyped == SkuTyped /\ ProjectTyped /\ SpecTyped /\ JobTyped /\ QuoteTyped

StudioInv ==
    /\ StudioTyped /\ Confirming
    /\ DefaultIsThere
    /\ Submitting /\ QuotesTell /\ SubmissionHolds /\ SpentOnce
    /\ ActiveIsConfirmed /\ \A x \in Specs : AnalysisTells(x)

LEMMA InitStudioInv == StudioInit => StudioInv
<1> SUFFICES ASSUME StudioInit PROVE StudioInv
  OBVIOUS
<1>1. SkuTyped  BY DEF StudioInit, SkuTyped
<1>2. ProjectTyped  BY DEF StudioInit, ProjectTyped, NoProject, ProjectRow, NoPatch, PatchRow
<1>3. SpecTyped
  <2>1. NoSpec \in SpecRow(<<>>)  BY DEF NoSpec, SpecRow
  <2> QED  BY <2>1 DEF StudioInit, SpecTyped
<1>4. JobTyped
  <2>1. NoJob \in AnalysisRow  BY DEF NoJob, AnalysisRow
  <2> QED  BY <2>1 DEF StudioInit, JobTyped, Stages
<1>5. QuoteTyped /\ \A q \in Quotes : quote[q].st = "none"
  <2>1. NoQuote \in QuoteRow /\ NoQuote.st = "none"  BY DEF NoQuote, QuoteRow, Totals
  <2>2. NoBatch \in BatchRow  BY DEF NoBatch, BatchRow, Totals
  <2> QED  BY <2>1, <2>2 DEF StudioInit, QuoteTyped, Quotes
<1>6. \A k \in SubmitKeys : batch[k].st = "none"  BY DEF StudioInit, NoBatch
<1>7. DefaultIsThere /\ ActiveIsConfirmed
  BY DEF StudioInit, NoProject, DefaultIsThere, ActiveIsConfirmed, There
<1>8. submit = NoSubmit /\ confirm = NoConfirm  BY DEF StudioInit
<1>9. \A x \in Specs : AnalysisTells(x)
  <2>1. \A x \in Specs : /\ spec[x].st = "none" /\ job[x].st = "none" /\ ~job[x].cancel
                         /\ \A a \in Attempts : attempt[x][a] = "none"
    BY DEF StudioInit, NoSpec, NoJob
  <2> QED  BY <2>1 DEF AnalysisTells
<1>10. SpentOnce  BY <1>5, <1>6 DEF SpentOnce, Spends
<1> QED
  BY <1>1, <1>2, <1>3, <1>4, <1>5, <1>7, <1>8, <1>9, <1>10
  DEF StudioInv, StudioTyped, Confirming,
     Submitting, QuotesTell, SubmissionHolds
\* Steps that leave the SKUs and the projects alone.
RestsSkus == UNCHANGED <<sku, project, desk, crossed>>

LEMMA RestOfStudio ==
    /\ \A x \in Specs : \A complete \in BOOLEAN : CreateManual(x, complete) => RestsSkus
    /\ \A x \in Specs :
          LoadConfirm(x) \/ AnalyzeProduct(x) \/ ClaimAnalysis(x) \/ RecoverAnalysis(x) => RestsSkus
    /\ \A x \in Specs, a \in Attempts :
          LoadAnalysis(x, a) \/ Report(x, a) \/ SettleAnalysis(x, a) => RestsSkus
    /\ \A q \in Quotes, r \in Requests : Estimate(q, r) => RestsSkus
    /\ \A q \in Quotes, k \in SubmitKeys : ExpireQuote(q) \/ BeginSubmit(k, q) => RestsSkus
    /\ \A q \in Quotes : ExpireQuote(q) => RestsSkus
    /\ SetPrice \/ FinishSubmit => RestsSkus
    /\ \A a \in Pictures : ChangePicture(a) => RestsSkus
BY DEF RestsSkus, CreateManual, LoadConfirm, AnalyzeProduct, ClaimAnalysis, RecoverAnalysis,
   LoadAnalysis, Report, SettleAnalysis, Estimate, ExpireQuote, BeginSubmit, SetPrice, FinishSubmit,
   ChangePicture

\* A default SKU is set to an active one of the product, or its change is refused; a change
\* that pairs it with another product is what crossed records.
LEMMA DefaultStep ==
    ASSUME SkuTyped, ProjectTyped, Confirming, DefaultIsThere, [StudioNext]_commerceStudio
    PROVE  SkuTyped' /\ ProjectTyped' /\ DefaultIsThere'
<1> DEFINE Goal == SkuTyped' /\ ProjectTyped' /\ DefaultIsThere'
<1>0. 0 \notin Skus /\ 0 \notin Products /\ \A s \in Skus : ProductOf[s] \in Products
  BY StudioAssumption
<1>1. ASSUME RestsSkus PROVE Goal
  BY <1>1 DEF RestsSkus, SkuTyped, ProjectTyped, DefaultIsThere, There
<1>2. ASSUME NEW s \in Skus, NEW st \in {"active", "disabled"}, CreateSKU(s, st) PROVE Goal
  <2>1. sku' = [sku EXCEPT ![s] = st] /\ sku[s] = "none" /\ UNCHANGED <<project, desk, crossed>>
    BY <1>2 DEF CreateSKU
  <2>2. SkuTyped'  BY <2>1 DEF SkuTyped
  <2> QED  BY <2>1, <2>2 DEF SkuTyped, ProjectTyped, DefaultIsThere, There, ProjectRow
<1>3. ASSUME NEW s \in Skus, NEW st \in {"active", "disabled", "other"}, PatchSKU(s, st) PROVE Goal
  <2>1. /\ sku' = [sku EXCEPT ![s] = st] /\ UNCHANGED <<project, desk, crossed>>
        /\ st = "disabled" => SparesDefaults(s)
    BY <1>3 DEF PatchSKU
  <2>2. SkuTyped'  BY <2>1 DEF SkuTyped
  <2>3. DefaultIsThere'
    BY <2>1 DEF SkuTyped, ProjectTyped, DefaultIsThere, There, ProjectRow, SparesDefaults
  <2> QED  BY <2>1, <2>2, <2>3 DEF ProjectTyped
<1>4. ASSUME NEW p \in Products, ApplySKUMatrix(p) PROVE Goal
  <2>1. PICK drop \in SUBSET {s \in SkusOf(p) : Active(s)}, add \in SUBSET {s \in SkusOf(p) : sku[s] = "none"} :
          /\ sku' = [s \in Skus |-> IF s \in drop THEN "disabled" ELSE IF s \in add THEN "active" ELSE sku[s]]
          /\ \E first \in add \cup {s \in SkusOf(p) \ drop : Active(s)} :
                project' = IF There /\ project.product = p /\ project.def \in drop
                           THEN [project EXCEPT !.def = first] ELSE project
    BY <1>4 DEF ApplySKUMatrix
  <2>2. PICK first \in add \cup {s \in SkusOf(p) \ drop : Active(s)} :
                project' = IF There /\ project.product = p /\ project.def \in drop
                           THEN [project EXCEPT !.def = first] ELSE project
    BY <2>1
  <2>3. UNCHANGED <<desk, crossed>>  BY <1>4 DEF ApplySKUMatrix
  <2>4. SkuTyped'  BY <2>1 DEF SkuTyped
  <2>5. first \in Skus /\ ProductOf[first] = p /\ first \notin drop /\ sku'[first] = "active"
    BY <2>1, <2>2 DEF SkusOf, Active
  <2>6. ASSUME There, project.product = p, project.def \in drop PROVE ProjectTyped' /\ DefaultIsThere'
    <3>1. project' = [project EXCEPT !.def = first]  BY <2>2, <2>6
    <3>2. /\ project' \in ProjectRow /\ project'.def = first /\ project'.product = p
      BY <2>5, <2>6, <3>1 DEF ProjectTyped, ProjectRow
    <3> QED  BY <2>3, <2>5, <3>2 DEF ProjectTyped, DefaultIsThere
  <2>7. ASSUME ~(There /\ project.product = p /\ project.def \in drop)
        PROVE  ProjectTyped' /\ DefaultIsThere'
    <3>1. project' = project  BY <2>2, <2>7
    <3>2. ASSUME There, project.def # 0, ~crossed
          PROVE  ProductOf[project.def] = project.product /\ sku'[project.def] \in {"active", "other"}
      <4>1. /\ ProductOf[project.def] = project.product /\ sku[project.def] \in {"active", "other"}
            /\ project.def \in Skus
        BY <3>2 DEF DefaultIsThere, ProjectTyped, ProjectRow
      <4>2. project.def \notin drop  BY <2>7, <3>2, <4>1, <2>1 DEF SkusOf
      <4> QED  BY <2>1, <4>1, <4>2
    <3> QED  BY <2>3, <3>1, <3>2 DEF ProjectTyped, DefaultIsThere, There
  <2> QED  BY <2>4, <2>6, <2>7
<1>5. ASSUME NEW s \in Skus, Bootstrap(s) PROVE Goal
  <2>1. /\ sku' = [sku EXCEPT ![s] = "active"] /\ UNCHANGED <<desk, crossed>>
        /\ project' = [NoProject EXCEPT !.st = "active", !.product = ProductOf[s], !.def = s]
    BY <1>5 DEF Bootstrap
  <2>2. SkuTyped' /\ sku'[s] = "active"  BY <2>1 DEF SkuTyped
  <2>3. NoProject \in ProjectRow  BY DEF NoProject, ProjectRow
  <2>4. /\ project' \in ProjectRow /\ project'.def = s /\ project'.product = ProductOf[s]
    BY <1>0, <2>1, <2>3 DEF ProjectRow
  <2> QED  BY <2>1, <2>2, <2>4 DEF ProjectTyped, DefaultIsThere
<1>6. ASSUME CreateProject PROVE Goal
  <2>0. PICK p \in Products : \E def \in {s \in SkusOf(p) : Active(s)} \cup {0} :
          project' = [NoProject EXCEPT !.st = "active", !.product = p, !.def = def]
    BY <1>6 DEF CreateProject
  <2>1. PICK def \in {s \in SkusOf(p) : Active(s)} \cup {0} :
          project' = [NoProject EXCEPT !.st = "active", !.product = p, !.def = def]
    BY <2>0
  <2>2. NoProject \in ProjectRow  BY DEF NoProject, ProjectRow
  <2>3. UNCHANGED <<sku, desk, crossed>>  BY <1>6 DEF CreateProject
  <2>4. def \in Skus \cup {0} /\ (def # 0 => ProductOf[def] = p /\ sku[def] = "active")
    BY DEF SkusOf, Active
  <2>5. project' \in ProjectRow /\ project'.def = def /\ project'.product = p
    BY <2>1, <2>2, <2>4 DEF ProjectRow
  <2> QED  BY <2>3, <2>4, <2>5 DEF SkuTyped, ProjectTyped, DefaultIsThere
<1>7. ASSUME NEW d \in Editors, LoadPatch(d) PROVE Goal
  <2>1. PICK product \in Products \cup {0}, def \in Skus \cup {0} :
          desk' = [desk EXCEPT ![d] = [at |-> "loaded",
                      product |-> IF product # 0 THEN product ELSE project.product,
                      moves |-> product # 0, def |-> def]]
    BY <1>7 DEF LoadPatch
  <2>2. UNCHANGED <<sku, project, crossed>>  BY <1>7 DEF LoadPatch
  <2>3. desk' \in [Editors -> PatchRow]  BY <2>1 DEF ProjectTyped, ProjectRow, PatchRow
  <2> QED  BY <2>2, <2>3 DEF SkuTyped, ProjectTyped, DefaultIsThere, There
<1>8. ASSUME NEW d \in Editors, SavePatch(d) PROVE Goal
  <2>1. /\ desk' = [desk EXCEPT ![d] = [NoPatch EXCEPT !.at = "done"]] /\ sku' = sku
        /\ \/ UNCHANGED <<project, crossed>>
           \/ /\ project.st = "active" /\ (desk[d].def # 0 => Active(desk[d].def))
              /\ project' = Patched(d)
              /\ crossed' = (crossed \/ LET after == Patched(d) IN
                              after.def # 0 /\ ProductOf[after.def] # after.product)
    BY <1>8 DEF SavePatch
  <2>2. NoPatch \in PatchRow  BY DEF NoPatch, PatchRow
  <2>3. [NoPatch EXCEPT !.at = "done"] \in PatchRow  BY <2>2 DEF PatchRow
  <2>4. desk' \in [Editors -> PatchRow]  BY <2>1, <2>3 DEF ProjectTyped
  <2>5. CASE UNCHANGED <<project, crossed>>
    BY <2>1, <2>4, <2>5 DEF SkuTyped, ProjectTyped, DefaultIsThere, There
  <2>6. CASE /\ project.st = "active" /\ (desk[d].def # 0 => Active(desk[d].def))
             /\ project' = Patched(d)
             /\ crossed' = (crossed \/ LET after == Patched(d) IN
                              after.def # 0 /\ ProductOf[after.def] # after.product)
    <3>1. desk[d] \in PatchRow /\ project \in ProjectRow  BY DEF ProjectTyped
    <3>2. /\ Patched(d) \in ProjectRow
          /\ Patched(d).def = IF desk[d].def # 0 THEN desk[d].def ELSE project.def
      BY <3>1 DEF Patched, ProjectRow, PatchRow
    <3>3. ~crossed' => ~crossed /\ (project'.def # 0 => ProductOf[project'.def] = project'.product)
      BY <2>6
    <3>4. project'.def # 0 /\ ~crossed' => sku[project'.def] \in {"active", "other"}
      BY <2>6, <3>2, <3>3 DEF DefaultIsThere, There, Active
    <3> QED
      BY <2>1, <2>4, <2>6, <3>2, <3>3, <3>4 DEF SkuTyped, ProjectTyped, DefaultIsThere
  <2> QED  BY <2>1, <2>5, <2>6
<1>9. ASSUME NEW row \in ProjectRow, project' = row, UNCHANGED <<sku, desk, crossed>>,
             There' => There,
             row.def \in {project.def, 0}, row.product = project.product
      PROVE  Goal
  BY <1>9 DEF SkuTyped, ProjectTyped, DefaultIsThere
<1>10. ASSUME ClearDefault PROVE Goal
  <2>1. /\ project' = [project EXCEPT !.def = 0] /\ UNCHANGED <<sku, desk, crossed>>
        /\ project.st = "active"
    BY <1>10 DEF ClearDefault, Writable
  <2>2. /\ project' \in ProjectRow /\ project'.def = 0 /\ project'.product = project.product
    BY <2>1 DEF ProjectTyped, ProjectRow
  <2> QED  BY <1>9, <2>1, <2>2 DEF There
<1>11. ASSUME NEW st \in {"blocked", "leaving", "gone"}, project' = [project EXCEPT !.st = st],
              There, UNCHANGED <<sku, desk, crossed>>
       PROVE  Goal
  <2>1. /\ project' \in ProjectRow /\ project'.def = project.def /\ project'.product = project.product
    BY <1>11 DEF ProjectTyped, ProjectRow
  <2> QED  BY <1>9, <1>11, <2>1
<1>12. ASSUME BlockProject \/ RequestDeletion \/ FinalizeDeletion PROVE Goal
  <2>1. There /\ UNCHANGED <<sku, desk, crossed>>
    BY <1>12 DEF BlockProject, RequestDeletion, FinalizeDeletion, Writable, There
  <2>2. PICK st \in {"blocked", "leaving", "gone"} : project' = [project EXCEPT !.st = st]
    BY <1>12 DEF BlockProject, RequestDeletion, FinalizeDeletion
  <2> QED  BY <1>11, <2>1, <2>2
<1>13. ASSUME NEW n \in Specs \cup {0}, project' = [project EXCEPT !.spec = n],
              UNCHANGED <<sku, desk, crossed>>
       PROVE  Goal
  <2>1. /\ project' \in ProjectRow /\ project'.def = project.def /\ project'.product = project.product
        /\ project'.st = project.st
    BY <1>13 DEF ProjectTyped, ProjectRow
  <2> QED  BY <1>9, <1>13, <2>1 DEF There
<1>14. ASSUME NEW x \in Specs, PatchSpec(x) PROVE Goal
  <2>1. /\ project' = [project EXCEPT !.spec = IF project.spec = x THEN 0 ELSE project.spec]
        /\ UNCHANGED <<sku, desk, crossed>>
    BY <1>14 DEF PatchSpec
  <2>2. (IF project.spec = x THEN 0 ELSE project.spec) \in Specs \cup {0}
    BY DEF ProjectTyped, ProjectRow
  <2> QED  BY <1>13, <2>1, <2>2
<1>15. ASSUME SaveConfirm PROVE Goal
  <2>1. /\ project' = project \/ project' = [project EXCEPT !.spec = confirm.spec]
        /\ UNCHANGED <<sku, desk, crossed>> /\ confirm.spec \in Specs
    BY <1>15 DEF SaveConfirm, Confirming
  <2> QED  BY <1>1, <1>13, <2>1 DEF RestsSkus
<1>16. CASE UNCHANGED commerceStudio  BY <1>1, <1>16 DEF commerceStudio, RestsSkus
<1> QED
  BY <1>1, <1>2, <1>3, <1>4, <1>5, <1>6, <1>7, <1>8, <1>10, <1>12, <1>14, <1>15, <1>16,
     RestOfStudio
  DEF StudioNext, Quotes

\* The actions that leave the quotations, the batches, the submission and the price alone.
RestsQuotes == UNCHANGED <<quote, batch, price, submit>>

LEMMA QuotesRest ==
    /\ \A s \in Skus, st \in {"active", "disabled"} : CreateSKU(s, st) => RestsQuotes
    /\ \A s \in Skus, st \in {"active", "disabled", "other"} : PatchSKU(s, st) => RestsQuotes
    /\ \A s \in Skus : Bootstrap(s) => RestsQuotes
    /\ \A p \in Products : ApplySKUMatrix(p) => RestsQuotes
    /\ CreateProject \/ ClearDefault \/ BlockProject \/ RequestDeletion \/ FinalizeDeletion => RestsQuotes
    /\ \A d \in Editors : LoadPatch(d) \/ SavePatch(d) => RestsQuotes
    /\ \A a \in Pictures : ChangePicture(a) => RestsQuotes
    /\ \A x \in Specs : \A complete \in BOOLEAN : CreateManual(x, complete) => RestsQuotes
    /\ \A x \in Specs : PatchSpec(x) \/ LoadConfirm(x) => RestsQuotes
    /\ \A x \in Specs : AnalyzeProduct(x) \/ ClaimAnalysis(x) \/ RecoverAnalysis(x) => RestsQuotes
    /\ \A x \in Specs, a \in Attempts :
          LoadAnalysis(x, a) \/ Report(x, a) \/ SettleAnalysis(x, a) => RestsQuotes
    /\ SaveConfirm => RestsQuotes
BY DEF RestsQuotes, CreateSKU, PatchSKU, Bootstrap, ApplySKUMatrix, CreateProject, ClearDefault,
   BlockProject, RequestDeletion, FinalizeDeletion, LoadPatch, SavePatch, ChangePicture, CreateManual,
   PatchSpec, LoadConfirm, AnalyzeProduct, ClaimAnalysis, RecoverAnalysis, LoadAnalysis, Report,
   SettleAnalysis, SaveConfirm

QuotesSound == QuoteTyped /\ QuotesTell /\ Submitting /\ SpentOnce

\* What a quotation was given for never changes.
QuotesStand ==
    \A q \in Quotes : quote[q].st # "none" => quote'[q].st # "none" /\ quote'[q].request = quote[q].request

\* A quotation is spent by the submission that found its key free, and then the batch is
\* there with what it says.
LEMMA QuoteStep ==
    ASSUME QuotesSound, [StudioNext]_commerceStudio
    PROVE  QuotesSound' /\ QuotesStand
<1> DEFINE Goal == QuotesSound' /\ QuotesStand
<1> USE DEF QuotesSound
<1>1. ASSUME RestsQuotes PROVE Goal
  BY <1>1 DEF RestsQuotes, QuoteTyped, QuotesTell, Submitting, SpentOnce, Spends, QuotesStand
<1>2. ASSUME NEW q \in Quotes, NEW r \in Requests, Estimate(q, r) PROVE Goal
  <2> DEFINE row == [st |-> "issued", request |-> r, price |-> price, total |-> Cost(r, price)]
  <2>1. /\ quote' = [quote EXCEPT ![q] = row] /\ quote[q].st = "none"
        /\ UNCHANGED <<batch, price, submit>>
    BY <1>2 DEF Estimate
  <2>2. /\ row \in QuoteRow /\ row.st = "issued" /\ row.request \in Requests
        /\ row.total = Cost(row.request, row.price)
    BY DEF QuoteTyped, QuoteRow, Totals
  <2> HIDE DEF row
  <2>3. /\ quote' \in [Quotes -> QuoteRow] /\ quote'[q] = row
        /\ \A p \in Quotes \ {q} : quote'[p] = quote[p]
    BY <2>1, <2>2 DEF QuoteTyped
  <2>4. QuoteTyped'  BY <2>1, <2>3 DEF QuoteTyped
  <2>5. QuotesTell'  BY <2>2, <2>3 DEF QuotesTell
  <2>6. Submitting'  BY <2>1, <2>3 DEF Submitting
  <2>7. SpentOnce'  BY <2>1, <2>2, <2>3 DEF SpentOnce, Spends
  <2>8. QuotesStand  BY <2>1, <2>3 DEF QuotesStand
  <2> QED  BY <2>4, <2>5, <2>6, <2>7, <2>8
<1>3. ASSUME NEW q \in Quotes, quote[q].st = "issued", NEW st \in {"expired", "consumed"},
             quote' = [quote EXCEPT ![q].st = st]
      PROVE  /\ quote' \in [Quotes -> QuoteRow]
             /\ quote'[q].st = st /\ quote'[q].request = quote[q].request
             /\ quote'[q].total = quote[q].total
             /\ \A p \in Quotes \ {q} : quote'[p] = quote[p]
             /\ QuotesTell' /\ QuotesStand
  <2> DEFINE row == [quote[q] EXCEPT !.st = st]
  <2>1. /\ row \in QuoteRow /\ row.st = st /\ row.request = quote[q].request
        /\ row.price = quote[q].price /\ row.total = quote[q].total
    BY DEF QuoteTyped, QuoteRow
  <2>2. quote' = [quote EXCEPT ![q] = row]  BY <1>3
  <2> HIDE DEF row
  <2>3. /\ quote' \in [Quotes -> QuoteRow] /\ quote'[q] = row
        /\ \A p \in Quotes \ {q} : quote'[p] = quote[p]
    BY <2>1, <2>2 DEF QuoteTyped
  <2>4. QuotesTell' /\ QuotesStand  BY <1>3, <2>1, <2>3 DEF QuotesTell, QuotesStand
  <2> QED  BY <2>1, <2>3, <2>4
<1>4. ASSUME NEW q \in Quotes, ExpireQuote(q) PROVE Goal
  <2>1. quote' = [quote EXCEPT ![q].st = "expired"] /\ quote[q].st = "issued"
        /\ UNCHANGED <<batch, price, submit>>
    BY <1>4 DEF ExpireQuote
  <2>2. /\ quote' \in [Quotes -> QuoteRow]
        /\ quote'[q].st = "expired"
        /\ \A p \in Quotes \ {q} : quote'[p] = quote[p]
        /\ QuotesTell' /\ QuotesStand
    BY <1>3, <2>1
  <2>3. QuoteTyped' /\ Submitting'  BY <2>1, <2>2 DEF QuoteTyped, Submitting
  <2>4. SpentOnce'  BY <2>1, <2>2 DEF SpentOnce, Spends
  <2> QED  BY <2>2, <2>3, <2>4
<1>5. ASSUME SetPrice PROVE Goal
  <2>1. price' = 3 - price /\ UNCHANGED <<quote, batch, submit>>  BY <1>5 DEF SetPrice
  <2> QED  BY <2>1 DEF QuoteTyped, QuotesTell, Submitting, SpentOnce, Spends, QuotesStand
<1>6. ASSUME NEW k \in SubmitKeys, NEW q \in Quotes, BeginSubmit(k, q) PROVE Goal
  <2>1. /\ submit' = [key |-> k, quote |-> q] /\ batch[k].st = "none" /\ quote[q].st = "issued"
        /\ UNCHANGED <<quote, batch, price>>
    BY <1>6 DEF BeginSubmit
  <2> QED  BY <2>1 DEF QuoteTyped, QuotesTell, Submitting, SpentOnce, Spends, QuotesStand
<1>7. ASSUME FinishSubmit PROVE Goal
  <2> DEFINE q == submit.quote
             k == submit.key
             row == [st |-> "queued", request |-> quote[q].request, quote |-> q,
                     total |-> Cost(quote[q].request, quote[q].price)]
  <2>1. /\ submit # NoSubmit /\ submit' = NoSubmit /\ price' = price
        /\ \/ UNCHANGED <<quote, batch>>
           \/ /\ quote[q].st = "issued" /\ quote' = [quote EXCEPT ![q].st = "consumed"]
              /\ batch' = [batch EXCEPT ![k] = row]
    BY <1>7 DEF FinishSubmit
  <2>2. q \in Quotes /\ k \in SubmitKeys /\ batch[k].st = "none"  BY <2>1 DEF Submitting
  <2>3. CASE UNCHANGED <<quote, batch>>
    BY <2>1, <2>3 DEF QuoteTyped, QuotesTell, Submitting, SpentOnce, Spends, QuotesStand
  <2>4. CASE /\ quote[q].st = "issued" /\ quote' = [quote EXCEPT ![q].st = "consumed"]
             /\ batch' = [batch EXCEPT ![k] = row]
    <3>1. quote[q].request \in Requests /\ quote[q].total = Cost(quote[q].request, quote[q].price)
      BY <2>2, <2>4 DEF QuotesTell
    <3>2. /\ row \in BatchRow /\ row.st = "queued" /\ row.quote = q
          /\ row.request = quote[q].request /\ row.total = quote[q].total
      BY <2>2, <3>1 DEF QuoteTyped, QuoteRow, BatchRow
    <3>3. batch' = [batch EXCEPT ![k] = row]  BY <2>4
    <3>4. quote[q].st = "issued" /\ quote' = [quote EXCEPT ![q].st = "consumed"]  BY <2>4
    <3> HIDE DEF row, q, k
    <3>5. /\ batch' \in [SubmitKeys -> BatchRow] /\ batch'[k] = row
          /\ \A l \in SubmitKeys \ {k} : batch'[l] = batch[l]
      BY <2>2, <3>2, <3>3 DEF QuoteTyped
    <3>6. /\ quote' \in [Quotes -> QuoteRow]
          /\ quote'[q].st = "consumed" /\ quote'[q].request = quote[q].request
          /\ quote'[q].total = quote[q].total
          /\ \A p \in Quotes \ {q} : quote'[p] = quote[p]
          /\ QuotesTell' /\ QuotesStand
      BY <1>3, <2>2, <3>4
    <3>7. QuoteTyped' /\ Submitting'  BY <2>1, <3>5, <3>6 DEF QuoteTyped, Submitting
    <3>8. \A l \in SubmitKeys : batch[l].st # "none" => batch[l].quote \in Quotes \ {q} /\ l # k
      BY <2>2, <3>4 DEF SpentOnce
    <3>9. \A l \in SubmitKeys : batch'[l].st # "none" =>
            /\ batch'[l].quote \in Quotes /\ quote'[batch'[l].quote].st = "consumed"
            /\ quote'[batch'[l].quote].request = batch'[l].request
            /\ quote'[batch'[l].quote].total = batch'[l].total
      <4>1. ASSUME NEW l \in SubmitKeys, batch'[l].st # "none", l # k
            PROVE  /\ batch'[l].quote \in Quotes /\ quote'[batch'[l].quote].st = "consumed"
                   /\ quote'[batch'[l].quote].request = batch'[l].request
                   /\ quote'[batch'[l].quote].total = batch'[l].total
        BY <3>5, <3>6, <3>8, <4>1 DEF SpentOnce
      <4> QED  BY <2>2, <3>2, <3>5, <3>6, <4>1
    <3>10. \A p \in Quotes : quote'[p].st = "consumed" => \E l \in SubmitKeys : Spends(l, p)'
      BY <2>2, <3>2, <3>5, <3>6, <3>8 DEF SpentOnce, Spends
    <3>11. \A l, m \in SubmitKeys, p \in Quotes : Spends(l, p)' /\ Spends(m, p)' => l = m
      BY <2>2, <3>2, <3>5, <3>8 DEF SpentOnce, Spends
    <3> QED  BY <3>6, <3>7, <3>9, <3>10, <3>11 DEF SpentOnce, Spends
  <2> QED  BY <2>1, <2>3, <2>4
<1>8. CASE UNCHANGED commerceStudio  BY <1>1, <1>8 DEF commerceStudio, RestsQuotes
<1> QED
  BY <1>1, <1>2, <1>4, <1>5, <1>6, <1>7, <1>8, QuotesRest DEF StudioNext, Quotes

\* The row of the project is held by the submission: what it has checked stays.
Holding(r) ==
    /\ project'.st = project.st /\ project'.product = project.product
    /\ \A s \in r.skus : sku'[s] = sku[s]

LEMMA HoldsItsSkus ==
    ASSUME SkuTyped, ProjectTyped, Confirming, submit # NoSubmit, Writable,
           NEW r \in Requests, \A s \in r.skus : Active(s) /\ ProductOf[s] = project.product,
           [StudioNext]_commerceStudio
    PROVE  Holding(r)
<1>0. r.skus \subseteq Skus /\ There /\ ~ProjectFree /\ project.st = "active"
  BY StudioAssumption DEF Writable, There, ProjectFree
<1>1. ASSUME RestsSkus PROVE Holding(r)  BY <1>1 DEF RestsSkus, Holding
<1>2. ASSUME NEW s \in Skus, sku' = [sku EXCEPT ![s] = sku'[s]], project' = project, s \notin r.skus
      PROVE  Holding(r)
  BY <1>0, <1>2 DEF Holding, SkuTyped
<1>3. ASSUME NEW s \in Skus, NEW st \in {"active", "disabled"}, CreateSKU(s, st) PROVE Holding(r)
  <2>1. s \notin r.skus  BY <1>3 DEF CreateSKU, Active
  <2>2. sku' = [sku EXCEPT ![s] = sku'[s]] /\ project' = project
    BY <1>3 DEF CreateSKU, SkuTyped
  <2> QED  BY <1>2, <2>1, <2>2
<1>4. ASSUME NEW s \in Skus, NEW st \in {"active", "disabled", "other"}, PatchSKU(s, st) PROVE Holding(r)
  <2>1. s \notin r.skus  BY <1>0, <1>4 DEF PatchSKU, MayLock
  <2>2. sku' = [sku EXCEPT ![s] = sku'[s]] /\ project' = project  BY <1>4 DEF PatchSKU, SkuTyped
  <2> QED  BY <1>2, <2>1, <2>2
<1>5. ASSUME NEW p \in Products, ApplySKUMatrix(p) PROVE Holding(r)
  <2>1. project.product # p  BY <1>0, <1>5 DEF ApplySKUMatrix, MayLock
  <2>2. PICK drop \in SUBSET {s \in SkusOf(p) : Active(s)}, add \in SUBSET {s \in SkusOf(p) : sku[s] = "none"} :
          /\ sku' = [s \in Skus |-> IF s \in drop THEN "disabled" ELSE IF s \in add THEN "active" ELSE sku[s]]
          /\ \E first \in add \cup {s \in SkusOf(p) \ drop : Active(s)} :
                project' = IF There /\ project.product = p /\ project.def \in drop
                           THEN [project EXCEPT !.def = first] ELSE project
    BY <1>5 DEF ApplySKUMatrix
  <2>3. project' = project  BY <2>1, <2>2
  <2>4. \A s \in r.skus : s \notin drop /\ s \notin add  BY <2>1 DEF SkusOf
  <2>5. \A s \in r.skus : sku'[s] = sku[s]  BY <1>0, <2>2, <2>4
  <2> QED  BY <2>3, <2>5 DEF Holding
<1>6. ~CreateProject /\ \A s \in Skus : ~Bootstrap(s)  BY <1>0 DEF CreateProject, Bootstrap
<1>7. ASSUME NEW d \in Editors, LoadPatch(d) PROVE Holding(r)
  BY <1>7 DEF LoadPatch, Holding
<1>8. \A d \in Editors : ~SavePatch(d)  BY <1>0 DEF SavePatch
<1>9. ~ClearDefault /\ ~BlockProject /\ ~RequestDeletion /\ ~FinalizeDeletion /\ ~SaveConfirm
  BY <1>0 DEF ClearDefault, BlockProject, RequestDeletion, FinalizeDeletion, SaveConfirm
<1>10. ASSUME NEW x \in Specs, PatchSpec(x) PROVE Holding(r)
  <2>1. sku' = sku /\ project' = [project EXCEPT !.spec = IF project.spec = x THEN 0 ELSE project.spec]
    BY <1>10 DEF PatchSpec
  <2> QED  BY <2>1 DEF Holding, ProjectTyped, ProjectRow
<1>11. CASE UNCHANGED commerceStudio  BY <1>11 DEF commerceStudio, Holding
<1> QED
  BY <1>1, <1>3, <1>4, <1>5, <1>6, <1>7, <1>8, <1>9, <1>10, <1>11, RestOfStudio
  DEF StudioNext, Quotes

LEMMA SubmissionStep ==
    ASSUME SkuTyped, ProjectTyped, Confirming, QuotesSound, SubmissionHolds,
           [StudioNext]_commerceStudio
    PROVE  SubmissionHolds'
<1>1. submit' \in {submit, NoSubmit} \/ \E k \in SubmitKeys, q \in Quotes : BeginSubmit(k, q)
  <2>1. CASE RestsQuotes  BY <2>1 DEF RestsQuotes
  <2>2. ASSUME \/ SetPrice \/ FinishSubmit
               \/ \E q \in Quotes : ExpireQuote(q) \/ \E r \in Requests : Estimate(q, r)
        PROVE  submit' \in {submit, NoSubmit}
    BY <2>2 DEF SetPrice, FinishSubmit, ExpireQuote, Estimate
  <2>3. CASE UNCHANGED commerceStudio  BY <2>3 DEF commerceStudio
  <2> QED  BY <2>1, <2>2, <2>3, QuotesRest DEF StudioNext, Quotes
<1>2. ASSUME NEW k \in SubmitKeys, NEW q \in Quotes, BeginSubmit(k, q) PROVE SubmissionHolds'
  <2>1. /\ submit' = [key |-> k, quote |-> q] /\ Compiles(quote[q].request)
        /\ UNCHANGED <<sku, project, quote>>
    BY <1>2 DEF BeginSubmit
  <2>2. submit'.quote = q  BY <2>1
  <2> QED  BY <2>1, <2>2 DEF SubmissionHolds, Compiles, SkusFit, Writable, Active
<1>3. ASSUME submit' = submit, submit # NoSubmit PROVE SubmissionHolds'
  <2> DEFINE r == quote[submit.quote].request
  <2>1. submit.quote \in Quotes /\ quote[submit.quote].st # "none"
    BY <1>3 DEF QuotesSound, Submitting
  <2>2. r \in Requests  BY <2>1 DEF QuotesSound, QuotesTell
  <2>3. Writable /\ \A s \in r.skus : Active(s) /\ ProductOf[s] = project.product
    BY <1>3 DEF SubmissionHolds
  <2>4. Holding(r)
    <3> HIDE DEF r
    <3> QED  BY <1>3, <2>2, <2>3, HoldsItsSkus
  <2>5. quote'[submit.quote].request = r  BY <2>1, QuoteStep DEF QuotesStand
  <2> HIDE DEF r
  <2>6. Writable' /\ \A s \in r.skus : Active(s)' /\ ProductOf[s] = project'.product
    BY <2>3, <2>4 DEF Holding, Writable, Active
  <2> QED  BY <1>3, <2>5, <2>6 DEF SubmissionHolds
<1>4. ASSUME submit' = NoSubmit PROVE SubmissionHolds'  BY <1>4 DEF SubmissionHolds
<1>5. ASSUME submit' = submit, submit = NoSubmit PROVE SubmissionHolds'
  BY <1>5 DEF SubmissionHolds
<1> QED  BY <1>1, <1>2, <1>3, <1>4, <1>5

\* The actions that leave the specifications, their jobs and what the project is alone.
RestsSpecs == UNCHANGED <<spec, job, attempt, slipped, confirm>> /\ project'.spec = project.spec
              /\ (project.st \in {"leaving", "gone"} => project'.st \in {"leaving", "gone"})

LEMMA SpecsRest ==
    ASSUME ProjectTyped
    PROVE  /\ \A s \in Skus, st \in {"active", "disabled"} : CreateSKU(s, st) => RestsSpecs
           /\ \A s \in Skus, st \in {"active", "disabled", "other"} : PatchSKU(s, st) => RestsSpecs
           /\ \A p \in Products : ApplySKUMatrix(p) => RestsSpecs
           /\ \A d \in Editors : LoadPatch(d) \/ SavePatch(d) => RestsSpecs
           /\ ClearDefault \/ BlockProject \/ FinalizeDeletion => RestsSpecs
           /\ \A a \in Pictures : ChangePicture(a) => RestsSpecs
           /\ \A q \in Quotes, r \in Requests : Estimate(q, r) => RestsSpecs
           /\ \A q \in Quotes : ExpireQuote(q) => RestsSpecs
           /\ \A q \in Quotes, k \in SubmitKeys : BeginSubmit(k, q) => RestsSpecs
           /\ SetPrice \/ FinishSubmit => RestsSpecs
<1>1. /\ \A s \in Skus, st \in {"active", "disabled"} : CreateSKU(s, st) => RestsSpecs
      /\ \A s \in Skus, st \in {"active", "disabled", "other"} : PatchSKU(s, st) => RestsSpecs
      /\ \A a \in Pictures : ChangePicture(a) => RestsSpecs
      /\ \A q \in Quotes, r \in Requests : Estimate(q, r) => RestsSpecs
      /\ \A q \in Quotes : ExpireQuote(q) => RestsSpecs
      /\ \A q \in Quotes, k \in SubmitKeys : BeginSubmit(k, q) => RestsSpecs
      /\ SetPrice \/ FinishSubmit => RestsSpecs
  BY DEF RestsSpecs, CreateSKU, PatchSKU, ChangePicture, Estimate, ExpireQuote, BeginSubmit,
         SetPrice,
     FinishSubmit
<1>2. ASSUME NEW def \in Skus \cup {0}, project' = [project EXCEPT !.def = def]
      PROVE  project'.spec = project.spec /\ project'.st = project.st
  BY <1>2 DEF ProjectTyped, ProjectRow
<1>3. ASSUME NEW p \in Products, ApplySKUMatrix(p) PROVE RestsSpecs
  <2>1. /\ UNCHANGED <<spec, job, attempt, slipped, confirm>>
        /\ project' = project \/ \E first \in Skus : project' = [project EXCEPT !.def = first]
    BY <1>3 DEF ApplySKUMatrix, SkusOf
  <2> QED  BY <1>2, <2>1 DEF RestsSpecs
<1>4. ASSUME NEW d \in Editors, LoadPatch(d) \/ SavePatch(d) PROVE RestsSpecs
  <2>1. /\ UNCHANGED <<spec, job, attempt, slipped, confirm>>
        /\ project' = project \/ project' = Patched(d)
    BY <1>4 DEF LoadPatch, SavePatch
  <2>2. Patched(d).spec = project.spec /\ Patched(d).st = project.st
    BY DEF Patched, ProjectTyped, ProjectRow
  <2> QED  BY <2>1, <2>2 DEF RestsSpecs
<1>5. ASSUME ClearDefault PROVE RestsSpecs
  BY <1>2, <1>5 DEF ClearDefault, RestsSpecs
<1>6. ASSUME BlockProject \/ FinalizeDeletion PROVE RestsSpecs
  BY <1>6 DEF BlockProject, FinalizeDeletion, Writable, RestsSpecs, ProjectTyped, ProjectRow
<1> QED  BY <1>1, <1>3, <1>4, <1>5, <1>6

Leaving == project.st \in {"leaving", "gone"}

SpecsSound ==
    /\ SpecTyped /\ JobTyped /\ Confirming /\ ActiveIsConfirmed
    /\ \A x \in Specs : AnalysisTells(x)

\* What is not touched keeps its word.
LEMMA TellsAgain ==
    ASSUME NEW x \in Specs, AnalysisTells(x), spec'[x] = spec[x], job'[x] = job[x],
           attempt'[x] = attempt[x], slipped \subseteq slipped', Leaving => Leaving'
    PROVE  AnalysisTells(x)'
BY DEF AnalysisTells, Leaving, Pending

\* One specification changes, and no other; what the project works with stays confirmed.
LEMMA SpecMoves ==
    ASSUME SpecsSound, NEW x \in Specs, NEW row, NEW c,
           row \in SpecRow(c), spec' = [spec EXCEPT ![x] = row], project'.spec = project.spec,
           spec[x].st = "confirmed" => row.st = "confirmed"
    PROVE  SpecTyped' /\ ActiveIsConfirmed' /\ spec'[x] = row /\ \A y \in Specs \ {x} : spec'[y] = spec[y]
<1>1. DOMAIN spec = Specs  BY DEF SpecsSound, SpecTyped
<1>2. DOMAIN spec' = Specs /\ spec' = [y \in Specs |-> spec'[y]]  BY <1>1
<1>3. spec'[x] = row /\ \A y \in Specs \ {x} : spec'[y] = spec[y]  BY <1>1
<1>4. SpecTyped'  BY <1>2, <1>3 DEF SpecsSound, SpecTyped
<1>5. ActiveIsConfirmed'  
  <2>1. ASSUME project.spec # 0 PROVE spec'[project.spec].st = "confirmed"
    <3>1. spec[project.spec].st = "confirmed"  BY <2>1 DEF SpecsSound, ActiveIsConfirmed
    <3> QED  BY <1>1, <3>1
  <2> QED  BY <2>1 DEF ActiveIsConfirmed
<1> QED  BY <1>3, <1>4, <1>5

LEMMA JobMoves ==
    ASSUME JobTyped, NEW x \in Specs, NEW row \in AnalysisRow, job' = [job EXCEPT ![x] = row]
    PROVE  job' \in [Specs -> AnalysisRow] /\ job'[x] = row /\ \A y \in Specs \ {x} : job'[y] = job[y]
BY DEF JobTyped

LEMMA AttemptMoves ==
    ASSUME JobTyped, NEW x \in Specs, NEW a \in Attempts, NEW st \in Stages,
           attempt' = [attempt EXCEPT ![x][a] = st]
    PROVE  /\ attempt' \in [Specs -> [Attempts -> Stages]]
           /\ attempt'[x][a] = st /\ \A b \in Attempts \ {a} : attempt'[x][b] = attempt[x][b]
           /\ \A y \in Specs \ {x} : attempt'[y] = attempt[y]
BY DEF JobTyped

\* An analysis that is under way is given up, and any other specification stays.
LEMMA FailedIs ==
    ASSUME SpecsSound, NEW x \in Specs, spec' = Failed(x), project'.spec = project.spec
    PROVE  /\ SpecTyped' /\ ActiveIsConfirmed'
           /\ spec'[x].st = IF spec[x].st = "analyzing" THEN "analysis_failed" ELSE spec[x].st
           /\ spec'[x].version = spec[x].version
           /\ \A y \in Specs \ {x} : spec'[y] = spec[y]
<1> DEFINE st == IF Analyzing(x) THEN "analysis_failed" ELSE spec[x].st
           row == [spec[x] EXCEPT !.st = st]
<1>1. PICK c : spec[x] \in SpecRow(c)  BY DEF SpecsSound, SpecTyped
<1>2. row \in SpecRow(c) /\ row.st = st /\ row.version = spec[x].version  BY <1>1 DEF SpecRow
<1>3. st = IF spec[x].st = "analyzing" THEN "analysis_failed" ELSE spec[x].st
  BY DEF SpecsSound, AnalysisTells, Analyzing
<1>4. spec' = [spec EXCEPT ![x] = row]  BY DEF Failed
<1> HIDE DEF st, row
<1>5. spec[x].st = "confirmed" => row.st = "confirmed"  BY <1>2, <1>3
<1> QED  BY <1>2, <1>3, <1>4, <1>5, SpecMoves

LEMMA ProjectMoves ==
    ASSUME SpecsSound, ProjectTyped, RequestDeletion \/ CreateProject \/ \E s \in Skus : Bootstrap(s)
    PROVE  SpecsSound'
<1> USE DEF SpecsSound
<1>1. ASSUME CreateProject \/ \E s \in Skus : Bootstrap(s) PROVE SpecsSound'
  <2>1. /\ UNCHANGED <<spec, job, attempt, slipped, confirm>> /\ project.st = "none"
        /\ \E st \in {"active"}, p \in Products, def \in Skus \cup {0} :
              project' = [NoProject EXCEPT !.st = st, !.product = p, !.def = def]
    <3>1. \A s \in Skus : ProductOf[s] \in Products  BY StudioAssumption
    <3> QED  BY <1>1, <3>1 DEF CreateProject, Bootstrap, SkusOf
  <2>2. project'.spec = 0  BY <2>1 DEF NoProject
  <2>3. \A x \in Specs : AnalysisTells(x)'  BY <2>1, TellsAgain DEF Leaving
  <2> QED  BY <2>1, <2>2, <2>3 DEF SpecTyped, JobTyped, Confirming, ActiveIsConfirmed
<1>2. ASSUME RequestDeletion PROVE SpecsSound'
  <2>1. /\ job' = [x \in Specs |-> IF Pending(x) THEN [job[x] EXCEPT !.st = "canceled"]
                               ELSE IF job[x].st = "running" THEN [job[x] EXCEPT !.cancel = TRUE]
                               ELSE job[x]]
        /\ UNCHANGED <<spec, attempt, slipped, confirm>>
        /\ project' = [project EXCEPT !.st = "leaving"]
    BY <1>2 DEF RequestDeletion
  <2>2. project'.st = "leaving" /\ project'.spec = project.spec
    BY <2>1 DEF ProjectTyped, ProjectRow
  <2>3. ASSUME NEW x \in Specs PROVE job'[x] \in AnalysisRow /\ (job[x].st = "none" => job'[x].st = "none")
    BY <2>1 DEF JobTyped, AnalysisRow, Pending
  <2>4. JobTyped'  BY <2>1, <2>3 DEF JobTyped
  <2>5. ASSUME NEW x \in Specs PROVE AnalysisTells(x)'
    BY <2>1, <2>2, <2>3 DEF AnalysisTells
  <2> QED  BY <2>1, <2>2, <2>4, <2>5 DEF SpecTyped, Confirming, ActiveIsConfirmed
<1> QED  BY <1>1, <1>2

LEMMA ManualMoves ==
    ASSUME SpecsSound, ProjectTyped, NEW x \in Specs,
           (\E complete \in BOOLEAN : CreateManual(x, complete)) \/ PatchSpec(x) \/ LoadConfirm(x)
    PROVE  SpecsSound'
<1> USE DEF SpecsSound
<1>1. PICK c : spec[x] \in SpecRow(c)  BY DEF SpecTyped
<1>2. ASSUME NEW complete \in BOOLEAN, CreateManual(x, complete) PROVE SpecsSound'
  <2> DEFINE row == [NoSpec EXCEPT !.st = "draft", !.version = 1, !.complete = complete]
  <2>1. /\ spec' = [spec EXCEPT ![x] = row] /\ spec[x].st = "none"
        /\ UNCHANGED <<project, job, attempt, slipped, confirm>>
    BY <1>2 DEF CreateManual, NewSpec
  <2>2. NoSpec \in SpecRow(<<>>)  BY DEF NoSpec, SpecRow
  <2>3. row \in SpecRow(<<>>) /\ row.st = "draft"  BY <2>2 DEF SpecRow
  <2> HIDE DEF row
  <2>4. SpecTyped' /\ ActiveIsConfirmed' /\ spec'[x] = row /\ \A y \in Specs \ {x} : spec'[y] = spec[y]
    BY <2>1, <2>3, SpecMoves
  <2>5. \A y \in Specs \ {x} : AnalysisTells(y)'  BY <2>1, <2>4, TellsAgain DEF Leaving
  <2>6. AnalysisTells(x)'  BY <2>1, <2>3, <2>4 DEF AnalysisTells
  <2> QED  BY <2>1, <2>4, <2>5, <2>6 DEF JobTyped, Confirming
<1>3. ASSUME PatchSpec(x) PROVE SpecsSound'
  <2> DEFINE row == [spec[x] EXCEPT !.version = spec[x].version + 1, !.st = "draft", !.complete = TRUE]
  <2>1. /\ spec' = [spec EXCEPT ![x].version = @ + 1, ![x].st = "draft", ![x].complete = TRUE]
        /\ project' = [project EXCEPT !.spec = IF project.spec = x THEN 0 ELSE project.spec]
        /\ UNCHANGED <<job, attempt, slipped, confirm>> /\ spec[x].st # "none"
    BY <1>3 DEF PatchSpec
  <2>2. row \in SpecRow(c) /\ row.st = "draft"
    <3>1. spec[x].version + 1 \in Nat  BY <1>1 DEF SpecRow
    <3> DEFINE v == spec[x].version + 1
    <3> HIDE DEF v
    <3>2. v \in Nat /\ row = [spec[x] EXCEPT !.version = v, !.st = "draft", !.complete = TRUE]
      BY <3>1 DEF v
    <3>3. [spec[x] EXCEPT !.version = v, !.st = "draft", !.complete = TRUE] \in SpecRow(c)
      BY <1>1, <3>2 DEF SpecRow
    <3>4. row \in SpecRow(c)  BY <3>2, <3>3
    <3> QED  BY <3>2, <3>4, <1>1 DEF SpecRow
  <2>3. DOMAIN spec = Specs  BY DEF SpecTyped
  <2>4. spec'[x] = row /\ (\A y \in Specs \ {x} : spec'[y] = spec[y])
        /\ DOMAIN spec' = Specs /\ spec' = [y \in Specs |-> spec'[y]]
    BY <2>1, <2>3
  <2> HIDE DEF row
  <2>5. SpecTyped'  BY <2>2, <2>4 DEF SpecTyped
  <2>6. /\ project'.spec = IF project.spec = x THEN 0 ELSE project.spec
        /\ project'.st = project.st /\ project.spec \in Specs \cup {0}
    BY <2>1 DEF ProjectTyped, ProjectRow
  <2>7. ActiveIsConfirmed'  BY <2>4, <2>6 DEF ActiveIsConfirmed
  <2>8. \A y \in Specs \ {x} : AnalysisTells(y)'  BY <2>1, <2>4, <2>6, TellsAgain DEF Leaving
  <2>9. AnalysisTells(x)'  BY <2>1, <2>2, <2>4, <2>6 DEF AnalysisTells
  <2> QED  BY <2>1, <2>5, <2>7, <2>8, <2>9 DEF JobTyped, Confirming
<1>4. ASSUME LoadConfirm(x) PROVE SpecsSound'
  <2>1. /\ confirm' = [spec |-> x, version |-> spec[x].version, context |-> Context]
        /\ UNCHANGED <<spec, project, job, attempt, slipped>>
    BY <1>4 DEF LoadConfirm
  <2>2. confirm'.spec = x  BY <2>1
  <2>3. \A y \in Specs : AnalysisTells(y)'  BY <2>1, TellsAgain DEF Leaving
  <2> QED  BY <2>1, <2>2, <2>3 DEF SpecTyped, JobTyped, Confirming, ActiveIsConfirmed
<1> QED  BY <1>2, <1>3, <1>4

LEMMA ConfirmMoves == ASSUME SpecsSound, ProjectTyped, SaveConfirm PROVE SpecsSound'
<1> USE DEF SpecsSound
<1>0. confirm # NoConfirm  BY DEF SaveConfirm
<1>2. PICK x \in Specs : x = confirm.spec  BY <1>0 DEF Confirming
<1> DEFINE row == [spec[x] EXCEPT !.st = "confirmed", !.context = confirm.context]
<1>1. /\ confirm # NoConfirm /\ confirm' = NoConfirm /\ UNCHANGED <<job, attempt, slipped>>
      /\ \/ UNCHANGED <<spec, project>>
         \/ /\ spec[x].version = confirm.version /\ Writable
            /\ spec' = [spec EXCEPT ![x].st = "confirmed", ![x].context = confirm.context]
            /\ project' = [project EXCEPT !.spec = x]
  BY <1>2 DEF SaveConfirm
<1>3. Confirming' /\ JobTyped'  BY <1>1 DEF Confirming, JobTyped
<1>4. CASE UNCHANGED <<spec, project>>
  <2>1. \A y \in Specs : AnalysisTells(y)'  BY <1>1, <1>4, TellsAgain DEF Leaving
  <2> QED  BY <1>3, <1>4, <2>1 DEF SpecTyped, ActiveIsConfirmed
<1>5. CASE /\ spec[x].version = confirm.version /\ Writable
           /\ spec' = [spec EXCEPT ![x].st = "confirmed", ![x].context = confirm.context]
           /\ project' = [project EXCEPT !.spec = x]
  <2>1. PICK c : spec[x] \in SpecRow(c)  BY <1>2 DEF SpecTyped
  <2>2. row \in SpecRow(confirm.context) /\ row.st = "confirmed"  BY <2>1 DEF SpecRow
  <2>3. DOMAIN spec = Specs  BY DEF SpecTyped
  <2>4. spec'[x] = row /\ (\A y \in Specs \ {x} : spec'[y] = spec[y])
        /\ DOMAIN spec' = Specs /\ spec' = [y \in Specs |-> spec'[y]]
    BY <1>2, <1>5, <2>3
  <2>5. project'.spec = x /\ project'.st = project.st  BY <1>5 DEF ProjectTyped, ProjectRow
  <2> HIDE DEF row
  <2>6. SpecTyped'  BY <2>2, <2>4 DEF SpecTyped
  <2>7. ActiveIsConfirmed'  BY <2>2, <2>4, <2>5 DEF ActiveIsConfirmed
  <2>8. \A y \in Specs \ {x} : AnalysisTells(y)'  BY <1>1, <2>4, <2>5, TellsAgain DEF Leaving
  <2>9. AnalysisTells(x)'  BY <1>1, <2>2, <2>4, <2>5 DEF AnalysisTells
  <2> QED  BY <1>3, <2>6, <2>7, <2>8, <2>9
<1> QED  BY <1>1, <1>4, <1>5

LEMMA AnalyzeMoves ==
    ASSUME SpecsSound, NEW x \in Specs, AnalyzeProduct(x) \/ ClaimAnalysis(x) PROVE SpecsSound'
<1> USE DEF SpecsSound
<1>0. job[x] \in AnalysisRow  BY DEF JobTyped
<1>1. ASSUME AnalyzeProduct(x) PROVE SpecsSound'
  <2> DEFINE row == [NoSpec EXCEPT !.st = "analyzing", !.source = "vision", !.version = 1]
             line == [job[x] EXCEPT !.st = "queued"]
  <2>1. /\ spec' = [spec EXCEPT ![x] = row] /\ spec[x].st = "none" /\ job' = [job EXCEPT ![x] = line]
        /\ UNCHANGED <<project, attempt, slipped, confirm>>
    BY <1>1 DEF AnalyzeProduct, NewSpec
  <2>2. NoSpec \in SpecRow(<<>>)  BY DEF NoSpec, SpecRow
  <2>3. row \in SpecRow(<<>>) /\ row.st = "analyzing" /\ row.version = 1  BY <2>2 DEF SpecRow
  <2>4. line \in AnalysisRow /\ line.st = "queued" /\ line.cancel = job[x].cancel
    BY <1>0 DEF AnalysisRow
  <2> HIDE DEF row, line
  <2>5. SpecTyped' /\ ActiveIsConfirmed' /\ spec'[x] = row /\ \A y \in Specs \ {x} : spec'[y] = spec[y]
    BY <2>1, <2>3, SpecMoves
  <2>6. job' \in [Specs -> AnalysisRow] /\ job'[x] = line /\ \A y \in Specs \ {x} : job'[y] = job[y]
    BY <2>1, <2>4, JobMoves
  <2>7. \A y \in Specs \ {x} : AnalysisTells(y)'  BY <2>1, <2>5, <2>6, TellsAgain DEF Leaving
  <2>8. \A a \in Attempts : attempt'[x][a] = "none"  BY <2>1 DEF AnalysisTells
  <2>9. AnalysisTells(x)'
    BY <2>1, <2>3, <2>4, <2>5, <2>6, <2>8 DEF AnalysisTells, Pending
  <2> QED  BY <2>1, <2>5, <2>6, <2>7, <2>9 DEF JobTyped, Confirming
<1>2. ASSUME ClaimAnalysis(x) PROVE SpecsSound'
  <2> DEFINE a == job[x].tries + 1
             line == [job[x] EXCEPT !.st = "running", !.tries = a]
  <2>0. a \in Nat /\ a \in Attempts
    <3>1. job[x].tries \in Nat /\ job[x].tries < MaxAnalysis
      BY <1>0, <1>2 DEF AnalysisRow, ClaimAnalysis
    <3> QED  BY <3>1, StudioAssumption DEF Attempts
  <2>1. /\ Pending(x)
        /\ job' = [job EXCEPT ![x] = line]
        /\ attempt' = [attempt EXCEPT ![x][a] = "claimed"]
        /\ UNCHANGED <<project, spec, slipped, confirm>>
    BY <1>2 DEF ClaimAnalysis
  <2> HIDE DEF a
  <2>2. line \in AnalysisRow /\ line.st = "running" /\ line.cancel = job[x].cancel
    BY <1>0, <2>0 DEF AnalysisRow
  <2> HIDE DEF line
  <2>3. job' \in [Specs -> AnalysisRow] /\ job'[x] = line /\ \A y \in Specs \ {x} : job'[y] = job[y]
    BY <2>1, <2>2, JobMoves
  <2>4. "claimed" \in Stages  BY DEF Stages
  <2>5. /\ attempt' \in [Specs -> [Attempts -> Stages]]
        /\ attempt'[x][a] = "claimed" /\ \A b \in Attempts \ {a} : attempt'[x][b] = attempt[x][b]
        /\ \A y \in Specs \ {x} : attempt'[y] = attempt[y]
    BY <2>0, <2>1, <2>4, AttemptMoves
  <2>6. \A y \in Specs \ {x} : AnalysisTells(y)'  BY <2>1, <2>3, <2>5, TellsAgain DEF Leaving
  <2>7. AnalysisTells(x)'
    BY <2>1, <2>2, <2>3, <2>5 DEF AnalysisTells, Pending
  <2> QED
    BY <2>1, <2>3, <2>5, <2>6, <2>7 DEF SpecTyped, JobTyped, Confirming, ActiveIsConfirmed
<1> QED  BY <1>1, <1>2

\* The handler that reads its specification and gets an answer: only an error of the
\* database leaves the analysis under way, and slipped has it.
LEMMA HandlerMoves ==
    ASSUME SpecsSound, NEW x \in Specs, NEW a \in Attempts, LoadAnalysis(x, a) \/ Report(x, a)
    PROVE  SpecsSound'
<1> USE DEF SpecsSound
<1>1. UNCHANGED <<job, project, confirm>> /\ attempt[x][a] # "none" /\ slipped \subseteq slipped'
  BY DEF LoadAnalysis, Report
<1>2. PICK st \in {"asked", "ok", "failed", "retry"} :
        /\ attempt' = [attempt EXCEPT ![x][a] = st]
        /\ \/ spec' = Failed(x)
           \/ spec' = spec /\ st \in {"asked", "retry"}
           \/ spec' = spec /\ st = "failed" /\ (spec[x].st # "analyzing" \/ x \in slipped')
           \/ spec' = [spec EXCEPT ![x].st = IF Analyzing(x) THEN "draft" ELSE spec[x].st]
        /\ st = "ok" => spec' = [spec EXCEPT ![x].st = IF Analyzing(x) THEN "draft" ELSE spec[x].st]
  <2>0. spec[x].st = "analyzing" => Analyzing(x)  BY DEF AnalysisTells, Analyzing
  <2>1. ASSUME LoadAnalysis(x, a)
        PROVE  \/ attempt' = [attempt EXCEPT ![x][a] = "asked"] /\ spec' = spec
               \/ attempt' = [attempt EXCEPT ![x][a] = "failed"] /\ spec' = spec
                  /\ spec[x].st # "analyzing"
               \/ attempt' = [attempt EXCEPT ![x][a] = "failed"] /\ spec' = Failed(x)
    BY <2>0, <2>1 DEF LoadAnalysis
  <2>2. ASSUME Report(x, a)
        PROVE  \/ /\ attempt' = [attempt EXCEPT ![x][a] = IF Analyzing(x) THEN "ok" ELSE "failed"]
                  /\ spec' = [spec EXCEPT ![x].st = IF Analyzing(x) THEN "draft" ELSE spec[x].st]
               \/ attempt' = [attempt EXCEPT ![x][a] = "failed"] /\ spec' = Failed(x)
               \/ attempt' = [attempt EXCEPT ![x][a] = "retry"] /\ spec' \in {spec, Failed(x)}
               \/ attempt' = [attempt EXCEPT ![x][a] = "failed"] /\ spec' = spec /\ x \in slipped'
    BY <2>2 DEF Report
  <2> QED  BY <2>1, <2>2
<1>3. st \in Stages  BY DEF Stages
<1>4. /\ attempt' \in [Specs -> [Attempts -> Stages]]
      /\ attempt'[x][a] = st /\ \A b \in Attempts \ {a} : attempt'[x][b] = attempt[x][b]
      /\ \A y \in Specs \ {x} : attempt'[y] = attempt[y]
  BY <1>2, <1>3, AttemptMoves
<1>5. spec[x].st # "none"  BY <1>1 DEF AnalysisTells
<1>6. JobTyped' /\ Confirming'  BY <1>1, <1>4 DEF JobTyped, Confirming
<1>7. ASSUME SpecTyped', ActiveIsConfirmed', spec'[x].st # "none", spec'[x].version = spec[x].version,
             spec'[x].st = "analyzing" => spec[x].st = "analyzing",
             st = "ok" => spec'[x].st # "analyzing",
             st = "failed" => spec'[x].st # "analyzing" \/ x \in slipped',
             \A y \in Specs \ {x} : spec'[y] = spec[y]
      PROVE  SpecsSound'
  <2>1. \A y \in Specs \ {x} : AnalysisTells(y)'  BY <1>1, <1>4, <1>7, TellsAgain DEF Leaving
  <2>2. AnalysisTells(x)
    OBVIOUS
  <2>3. AnalysisTells(x)'
    BY <1>1, <1>4, <1>7, <2>2 DEF AnalysisTells, Pending
  <2> QED  BY <1>6, <1>7, <2>1, <2>3
<1>8. ASSUME spec' = Failed(x), st # "ok" PROVE SpecsSound'
  <2>1. /\ SpecTyped' /\ ActiveIsConfirmed'
        /\ spec'[x].st = IF spec[x].st = "analyzing" THEN "analysis_failed" ELSE spec[x].st
        /\ spec'[x].version = spec[x].version
        /\ \A y \in Specs \ {x} : spec'[y] = spec[y]
    BY <1>1, <1>8, FailedIs
  <2> QED  BY <1>5, <1>7, <1>8, <2>1
<1>9. ASSUME spec' = spec, st # "ok",
             st = "failed" => spec[x].st # "analyzing" \/ x \in slipped'
      PROVE  SpecsSound'
  <2>1. SpecTyped' /\ ActiveIsConfirmed'  BY <1>1, <1>9 DEF SpecTyped, ActiveIsConfirmed
  <2> QED  BY <1>5, <1>7, <1>9, <2>1
<1>10. ASSUME spec' = [spec EXCEPT ![x].st = IF Analyzing(x) THEN "draft" ELSE spec[x].st]
       PROVE  SpecsSound'
  <2> DEFINE new == IF Analyzing(x) THEN "draft" ELSE spec[x].st
             row == [spec[x] EXCEPT !.st = new]
  <2>1. PICK c : spec[x] \in SpecRow(c)  BY DEF SpecTyped
  <2>2. row \in SpecRow(c) /\ row.st = new /\ row.version = spec[x].version  BY <2>1 DEF SpecRow
  <2>3. spec' = [spec EXCEPT ![x] = row]  BY <1>10
  <2>4. new = IF spec[x].st = "analyzing" THEN "draft" ELSE spec[x].st
    BY DEF AnalysisTells, Analyzing
  <2> HIDE DEF new, row
  <2>5. spec[x].st = "confirmed" => row.st = "confirmed"  BY <2>2, <2>4
  <2>6. SpecTyped' /\ ActiveIsConfirmed' /\ spec'[x] = row /\ \A y \in Specs \ {x} : spec'[y] = spec[y]
    BY <1>1, <2>2, <2>3, <2>5, SpecMoves
  <2> QED  BY <1>5, <1>7, <2>2, <2>4, <2>6
<1> QED  BY <1>2, <1>8, <1>9, <1>10

\* A job that ends: its analysis goes on only when it is tried again, or is not under way.
LEMMA EndedMoves ==
    ASSUME SpecsSound, NEW x \in Specs, NEW retry \in BOOLEAN, Ended(x, retry),
           UNCHANGED <<project, slipped, confirm>>, job[x].st # "none",
           attempt' \in [Specs -> [Attempts -> Stages]],
           \A y \in Specs \ {x} : attempt'[y] = attempt[y],
           \A a \in Attempts : attempt'[x][a] \in {attempt[x][a], "done"},
           retry \/ spec[x].st # "analyzing" \/ x \in slipped \/ job[x].cancel
    PROVE  SpecsSound'
<1> USE DEF SpecsSound
<1>0. job[x] \in AnalysisRow /\ AnalysisTells(x)  BY DEF JobTyped
<1>1. PICK st \in {"canceled", "failed", "retrying"} :
        /\ job' = [job EXCEPT ![x] = [job[x] EXCEPT !.st = st]]
        /\ \/ spec' = spec /\ (job[x].cancel \/ st = "retrying" \/ ~retry)
           \/ spec' = Failed(x)
  BY DEF Ended
<1> DEFINE line == [job[x] EXCEPT !.st = st]
<1>2. line \in AnalysisRow /\ line.st = st /\ line.cancel = job[x].cancel
  BY <1>0 DEF AnalysisRow
<1> HIDE DEF line
<1>3. job' \in [Specs -> AnalysisRow] /\ job'[x] = line /\ \A y \in Specs \ {x} : job'[y] = job[y]
  <2>1. job' = [job EXCEPT ![x] = line]  BY <1>1 DEF line
  <2> QED  BY <1>2, <2>1, JobMoves
<1>4. JobTyped' /\ Confirming'  BY <1>3 DEF JobTyped, Confirming
<1>5. /\ SpecTyped' /\ ActiveIsConfirmed'
      /\ spec'[x].st \in {spec[x].st, "analysis_failed"} /\ spec'[x].version = spec[x].version
      /\ \A y \in Specs \ {x} : spec'[y] = spec[y]
      /\ spec'[x].st = "analyzing" => spec' = spec
  <2>1. CASE spec' = spec  BY <2>1 DEF SpecTyped, ActiveIsConfirmed
  <2>2. CASE spec' = Failed(x)
    <3>1. /\ SpecTyped' /\ ActiveIsConfirmed'
          /\ spec'[x].st = IF spec[x].st = "analyzing" THEN "analysis_failed" ELSE spec[x].st
          /\ spec'[x].version = spec[x].version
          /\ \A y \in Specs \ {x} : spec'[y] = spec[y]
      BY <2>2, FailedIs
    <3>2. spec'[x].st # "analyzing"  BY <3>1
    <3> QED  BY <3>1, <3>2
  <2> QED  BY <1>1, <2>1, <2>2
<1>6. \A y \in Specs \ {x} : AnalysisTells(y)'  BY <1>3, <1>5, TellsAgain DEF Leaving
<1>7. spec[x].st # "none"  BY <1>0 DEF AnalysisTells
<1>8. AnalysisTells(x)'
  <2>1. spec'[x].st = "analyzing" =>
          Pending(x)' \/ x \in slipped' \/ project'.st \in {"leaving", "gone"}
    <3>1. ASSUME spec'[x].st = "analyzing"
          PROVE  st = "retrying" \/ x \in slipped \/ project.st \in {"leaving", "gone"}
      <4>1. spec[x].st = "analyzing"  BY <1>5, <3>1
      <4>2. spec' # Failed(x) \/ spec' = spec  BY <1>5, <3>1
      <4>3. job[x].cancel \/ st = "retrying" \/ ~retry
        <5>1. ASSUME spec' = Failed(x) PROVE FALSE
          <6>1. spec'[x].st = "analysis_failed"  BY <4>1, <5>1, FailedIs
          <6> QED  BY <3>1, <6>1
        <5> QED  BY <1>1, <5>1
      <4> QED  BY <1>0, <4>1, <4>3 DEF AnalysisTells
    <3> QED  BY <1>2, <1>3, <3>1 DEF Pending
  <2>2. spec'[x].st # "none"  BY <1>5, <1>7
  <2>3. spec'[x].st = "analyzing" => spec'[x].version = 1  BY <1>0, <1>5 DEF AnalysisTells
  <2>4. job'[x].cancel => project'.st \in {"leaving", "gone"}
    BY <1>0, <1>2, <1>3 DEF AnalysisTells
  <2>5. \A a \in Attempts : attempt'[x][a] = "ok" => spec'[x].st # "analyzing"
    BY <1>0, <1>5 DEF AnalysisTells
  <2>6. \A a \in Attempts : attempt'[x][a] = "failed" => spec'[x].st # "analyzing" \/ x \in slipped'
    BY <1>0, <1>5 DEF AnalysisTells
  <2> QED  BY <2>1, <2>2, <2>3, <2>4, <2>5, <2>6 DEF AnalysisTells
<1> QED  BY <1>4, <1>5, <1>6, <1>8

LEMMA SettleMoves ==
    ASSUME SpecsSound, NEW x \in Specs,
           RecoverAnalysis(x) \/ \E a \in Attempts : SettleAnalysis(x, a)
    PROVE  SpecsSound'
<1> USE DEF SpecsSound
<1>1. ASSUME RecoverAnalysis(x) PROVE SpecsSound'
  <2>1. /\ Ended(x, TRUE) /\ job[x].st # "none" /\ attempt' = attempt
        /\ UNCHANGED <<project, slipped, confirm>>
    BY <1>1 DEF RecoverAnalysis
  <2>2. attempt' \in [Specs -> [Attempts -> Stages]]  BY <2>1 DEF JobTyped
  <2> QED  BY <2>1, <2>2, EndedMoves
<1>2. ASSUME NEW a \in Attempts, SettleAnalysis(x, a) PROVE SpecsSound'
  <2>1. /\ attempt[x][a] \in {"ok", "failed", "retry"} /\ attempt' = [attempt EXCEPT ![x][a] = "done"]
        /\ UNCHANGED <<project, slipped, confirm>>
    BY <1>2 DEF SettleAnalysis
  <2>2. "done" \in Stages  BY DEF Stages
  <2>3. /\ attempt' \in [Specs -> [Attempts -> Stages]]
        /\ attempt'[x][a] = "done" /\ \A b \in Attempts \ {a} : attempt'[x][b] = attempt[x][b]
        /\ \A y \in Specs \ {x} : attempt'[y] = attempt[y]
    BY <2>1, <2>2, AttemptMoves
  <2>4. AnalysisTells(x) /\ job[x] \in AnalysisRow  BY DEF JobTyped
  <2>5. spec[x].st # "none" /\ (attempt[x][a] = "ok" => spec[x].st # "analyzing")
        /\ (attempt[x][a] = "failed" => spec[x].st # "analyzing" \/ x \in slipped)
    BY <2>1, <2>4 DEF AnalysisTells
  <2>6. ASSUME UNCHANGED <<job, spec>> PROVE SpecsSound'
    <3>1. AnalysisTells(x)'  BY <2>1, <2>3, <2>4, <2>6 DEF AnalysisTells, Pending
    <3>2. \A y \in Specs \ {x} : AnalysisTells(y)'  BY <2>1, <2>3, <2>6, TellsAgain DEF Leaving
    <3> QED
      BY <2>1, <2>3, <2>6, <3>1, <3>2 DEF SpecTyped, JobTyped, Confirming, ActiveIsConfirmed
  <2>7. ASSUME attempt[x][a] = "ok", job' = [job EXCEPT ![x].st = "succeeded"], spec' = spec
        PROVE  SpecsSound'
    <3> DEFINE line == [job[x] EXCEPT !.st = "succeeded"]
    <3>1. line \in AnalysisRow /\ line.cancel = job[x].cancel  BY <2>4 DEF AnalysisRow
    <3>2. job' = [job EXCEPT ![x] = line]  BY <2>7
    <3> HIDE DEF line
    <3>3. job' \in [Specs -> AnalysisRow] /\ job'[x] = line /\ \A y \in Specs \ {x} : job'[y] = job[y]
      BY <3>1, <3>2, JobMoves
    <3>4. AnalysisTells(x)'  BY <2>1, <2>3, <2>4, <2>5, <2>7, <3>1, <3>3 DEF AnalysisTells
    <3>5. \A y \in Specs \ {x} : AnalysisTells(y)'
      BY <2>1, <2>3, <2>7, <3>3, TellsAgain DEF Leaving
    <3> QED
      BY <2>1, <2>3, <2>7, <3>3, <3>4, <3>5
      DEF SpecTyped, JobTyped, Confirming, ActiveIsConfirmed
  <2>8. ASSUME job[x].st = "running", Ended(x, attempt[x][a] = "retry"),
               ~(attempt[x][a] = "ok" /\ ~job[x].cancel)
        PROVE  SpecsSound'
    <3> DEFINE retry == attempt[x][a] = "retry"
    <3>1. retry \in BOOLEAN /\ Ended(x, retry)  BY <2>8
    <3>2. retry \/ spec[x].st # "analyzing" \/ x \in slipped \/ job[x].cancel
      BY <2>1, <2>5, <2>8
    <3>3. \A b \in Attempts : attempt'[x][b] \in {attempt[x][b], "done"}  BY <2>3
    <3> HIDE DEF retry
    <3> QED  BY <2>1, <2>3, <2>8, <3>1, <3>2, <3>3, EndedMoves
  <2> QED  BY <1>2, <2>6, <2>7, <2>8 DEF SettleAnalysis
<1> QED  BY <1>1, <1>2

LEMMA SpecStep ==
    ASSUME SpecsSound, ProjectTyped, [StudioNext]_commerceStudio
    PROVE  SpecsSound'
<1>1. ASSUME RestsSpecs PROVE SpecsSound'
  <2>1. \A x \in Specs : AnalysisTells(x)'
    BY <1>1, TellsAgain DEF RestsSpecs, SpecsSound, Leaving
  <2> QED
    BY <1>1, <2>1 DEF RestsSpecs, SpecsSound, SpecTyped, JobTyped, Confirming, ActiveIsConfirmed
<1>2. CASE UNCHANGED commerceStudio  BY <1>1, <1>2 DEF commerceStudio, RestsSpecs
<1> QED
  BY <1>1, <1>2, SpecsRest, ProjectMoves, ManualMoves, ConfirmMoves, AnalyzeMoves, HandlerMoves,
     SettleMoves DEF StudioNext, Quotes

LEMMA StudioInvStep == StudioInv /\ [StudioNext]_commerceStudio => StudioInv'
<1> SUFFICES ASSUME StudioInv, [StudioNext]_commerceStudio PROVE StudioInv'
  OBVIOUS
<1>1. SkuTyped' /\ ProjectTyped' /\ DefaultIsThere'  BY DefaultStep DEF StudioInv, StudioTyped
<1>2. QuotesSound'  BY QuoteStep DEF StudioInv, StudioTyped, QuotesSound
<1>3. SubmissionHolds'  BY SubmissionStep DEF StudioInv, StudioTyped, QuotesSound
<1>4. SpecsSound'  BY SpecStep DEF StudioInv, StudioTyped, SpecsSound
<1> QED  BY <1>1, <1>2, <1>3, <1>4 DEF StudioInv, StudioTyped, QuotesSound, SpecsSound

\* A commerce project is sound for any number of SKUs, requests, specifications, attempts
\* and submissions: its default serves, a submission writes what it checked, a quotation
\* pays for one batch, the specification in use is confirmed and no analysis is forgotten.
THEOREM StudioAlwaysSound == StudioSpec => []StudioSound
<1>1. ASSUME StudioInv PROVE StudioSound
  <2>1. DefaultServes  BY <1>1 DEF StudioInv, DefaultIsThere, DefaultServes
  <2>2. AnalysisSettles  BY <1>1 DEF StudioInv, AnalysisTells, AnalysisSettles
  <2>3. ASSUME NEW q \in Quotes
        PROVE  Cardinality({k \in SubmitKeys : batch[k].st # "none" /\ batch[k].quote = q})
                  = IF quote[q].st = "consumed" THEN 1 ELSE 0
    <3> DEFINE spenders == {k \in SubmitKeys : batch[k].st # "none" /\ batch[k].quote = q}
    <3>1. ASSUME quote[q].st # "consumed" PROVE Cardinality(spenders) = 0
      <4>1. spenders = {}  BY <1>1, <3>1 DEF StudioInv, SpentOnce
      <4> QED  BY <4>1, FS_EmptySet
    <3>2. ASSUME quote[q].st = "consumed" PROVE Cardinality(spenders) = 1
      <4>1. PICK k \in SubmitKeys : Spends(k, q)  BY <1>1, <3>2 DEF StudioInv, SpentOnce
      <4>2. spenders = {k}  BY <1>1, <4>1 DEF StudioInv, SpentOnce, Spends
      <4>3. Cardinality({k}) = 1  BY FS_Singleton
      <4> QED  BY <4>2, <4>3
    <3> QED  BY <3>1, <3>2
  <2>4. QuotesSpentOnce  BY <1>1, <2>3 DEF StudioInv, SpentOnce, QuotesSpentOnce, Quotes
  <2> QED  BY <1>1, <2>1, <2>2, <2>4 DEF StudioInv, StudioSound
<1> QED  BY <1>1, InitStudioInv, StudioInvStep, PTL DEF StudioSpec
-----------------------------------------------------------------------------
(***************************************************************************)
(* The assets of novels.                                                   *)
(***************************************************************************)

Painters     == ImageJobs \cup Portraits
RunnerRow    == [pc : {"none", "start", "claimed", "making", "made", "unmade", "over"}, row : AssetRow]
PortraitPlaces == {"none", "recorded", "running", "made", "over"}
EditRow      == [op : {"free", "draft", "retry", "patch", "delete", "dedupe", "refer", "portrait",
                       "creature", "actor"},
                 at : 0..2, ids : SUBSET Ids, jobs : SUBSET ImageJobs, row : AssetRow, cast : Creature]

\* What the row of a job says of its goroutine and of what it has painted.
JobPaints(j) ==
    /\ imageJob[j].status = "none" <=> runner[j].pc = "none"
    /\ imageJob[j].status # "none" => imageJob[j].of \in Ids
    /\ imageJob[j].status \in {"queued", "cancelled"} =>
          painted[j] = 0 /\ runner[j].pc \in {"start", "over"}
    /\ runner[j].pc \in {"none", "start", "claimed", "making"} => painted[j] = 0

JobsSound ==
    /\ imageJob \in [ImageJobs -> JobRow] /\ runner \in [ImageJobs -> RunnerRow]
    /\ \A j \in ImageJobs : painted[j] \in 0..1 /\ JobPaints(j)

PortraitsSound ==
    /\ creature \in Creature /\ portrait \in [Portraits -> PortraitPlaces]
    /\ \A p \in Portraits : /\ painted[p] \in 0..1
                            /\ portrait[p] \in {"none", "recorded", "running"} => painted[p] = 0

\* The handler that has recorded a portrait is the only one to start it.
Records(e, p) == At(e, "portrait", 1) /\ editor[e].cast.record = p

EditorsSound ==
    /\ editor \in [Hands -> EditRow]
    /\ \A e \in Hands : At(e, "portrait", 1) =>
          editor[e].cast.record \in Portraits /\ portrait[editor[e].cast.record] = "recorded"
    /\ \A e, f \in Hands : \A p \in Portraits : Records(e, p) /\ Records(f, p) => e = f

AssetInv ==
    /\ visual \in [Ids -> AssetRow] /\ referenced \subseteq Ids /\ DOMAIN painted = Painters
    /\ painted = [x \in Painters |-> painted[x]]
    /\ JobsSound /\ PortraitsSound /\ EditorsSound

LEMMA UnmadeTyped == Unmade \in AssetRow /\ \A i \in Intents : DraftOf(i) \in AssetRow
<1>1. Unmade \in AssetRow  BY NovelAssetConstants DEF Unmade, AssetRow
<1> QED  BY <1>1 DEF DraftOf, AssetRow

LEMMA FreeTyped == Free \in EditRow /\ Free.at = 0 /\ Free.op = "free"
<1>1. NewCast \in Creature  BY DEF NewCast, Creature
<1> QED  BY <1>1, UnmadeTyped DEF Free, EditRow

LEMMA InitAssetInv == AssetsInit => AssetInv
<1> SUFFICES ASSUME AssetsInit PROVE AssetInv
  OBVIOUS
<1>1. visual \in [Ids -> AssetRow] /\ referenced \subseteq Ids  BY UnmadeTyped DEF AssetsInit
<1>2. painted = [x \in Painters |-> 0]  BY DEF AssetsInit, Painters
<1>3. JobsSound
  <2>1. [status |-> "none", of |-> 0] \in JobRow  BY NovelAssetConstants DEF JobRow
  <2>2. [pc |-> "none", row |-> Unmade] \in RunnerRow  BY UnmadeTyped DEF RunnerRow
  <2>3. imageJob \in [ImageJobs -> JobRow] /\ runner \in [ImageJobs -> RunnerRow]
    BY <2>1, <2>2 DEF AssetsInit
  <2>4. \A j \in ImageJobs : painted[j] = 0 /\ imageJob[j].status = "none" /\ runner[j].pc = "none"
    BY <1>2 DEF AssetsInit, Painters
  <2> QED  BY <2>3, <2>4 DEF JobsSound, JobPaints
<1>4. PortraitsSound
  BY <1>2 DEF AssetsInit, PortraitsSound, NewCast, Creature, PortraitPlaces, Painters
<1>5. EditorsSound
  <2>1. editor = [e \in Hands |-> Free]  BY DEF AssetsInit
  <2>2. \A e \in Hands : editor[e].at = 0  BY <2>1, FreeTyped
  <2> QED  BY <2>1, <2>2, FreeTyped DEF EditorsSound, At, Records
<1> QED  BY <1>1, <1>2, <1>3, <1>4, <1>5 DEF AssetInv

\* A new row has a number, and the reference of the actor is a row that is there or new.
LEMMA NextIsId == Room # {} => NextId \in Ids
<1>1. Room \in SUBSET Nat /\ Room \subseteq Ids  BY NovelAssetConstants DEF Room, Ids
<1> QED  BY <1>1, FirstIsIn DEF NextId

LEMMA ActorRefTyped ==
    ASSUME AssetInv
    PROVE  /\ ActorRefRow \in AssetRow
           /\ ActorRefId # 0 => ActorRefId \in Ids
<1>1. ActorRefs \in SUBSET Nat /\ ActorRefs \subseteq Ids
  BY NovelAssetConstants DEF ActorRefs, LiveAssets, Ids
<1>2. ActorRefs # {} => Min(ActorRefs) \in Ids  BY <1>1, FirstIsIn
<1>3. DraftOf(ActorIntent) \in AssetRow  BY UnmadeTyped, NovelAssetConstants
<1> QED  BY <1>2, <1>3, NextIsId DEF ActorRefRow, ActorRefId, AssetInv

LEMMA PutTyped ==
    ASSUME AssetInv, NEW a, NEW r \in AssetRow
    PROVE  Put(a, r) \in [Ids -> AssetRow]
BY DEF AssetInv, Put

\* A handler goes on or ends.
LEMMA EditorGoes ==
    ASSUME EditorsSound, NEW e \in Hands, NEW r \in EditRow, r.at # 1 \/ r.op # "portrait",
           editor' = [editor EXCEPT ![e] = r],
           portrait' \in [Portraits -> PortraitPlaces],
           \A p \in Portraits :
              portrait[p] = "recorded" /\ portrait'[p] # "recorded" => Records(e, p)
    PROVE  EditorsSound'
<1>1. /\ editor' \in [Hands -> EditRow] /\ editor'[e] = r
      /\ \A f \in Hands \ {e} : editor'[f] = editor[f]
  BY DEF EditorsSound
<1>2. ~At(e, "portrait", 1)'  BY <1>1 DEF At
<1>3. \A f \in Hands \ {e} : At(f, "portrait", 1)' <=> At(f, "portrait", 1)  BY <1>1 DEF At
<1>4. ASSUME NEW f \in Hands, At(f, "portrait", 1)'
      PROVE  editor'[f].cast.record \in Portraits /\ portrait'[editor'[f].cast.record] = "recorded"
  <2>1. f # e /\ At(f, "portrait", 1) /\ editor'[f] = editor[f]  BY <1>1, <1>2, <1>3, <1>4
  <2>2. editor[f].cast.record \in Portraits /\ portrait[editor[f].cast.record] = "recorded"
    BY <2>1 DEF EditorsSound
  <2>3. ~Records(e, editor[f].cast.record)  BY <2>1, <2>2 DEF EditorsSound, Records
  <2> QED  BY <2>1, <2>2, <2>3
<1>5. \A f, g \in Hands : \A p \in Portraits : Records(f, p)' /\ Records(g, p)' => f = g
  BY <1>1, <1>2, <1>3 DEF EditorsSound, Records
<1> QED  BY <1>1, <1>4, <1>5 DEF EditorsSound

LEMMA HandKeeps ==
    ASSUME AssetInv, NEW e \in Hands, NEW r \in EditRow, r.at # 1 \/ r.op # "portrait",
           editor' = [editor EXCEPT ![e] = r],
           visual' \in [Ids -> AssetRow], referenced' \subseteq Ids,
           JobsSound', painted' = painted, creature' \in Creature, portrait' = portrait
    PROVE  AssetInv'
<1>1. PortraitsSound'  BY DEF AssetInv, PortraitsSound
<1>2. portrait' \in [Portraits -> PortraitPlaces]  BY DEF AssetInv, PortraitsSound
<1>3. EditorsSound'  BY <1>2, EditorGoes DEF AssetInv
<1> QED  BY <1>1, <1>3 DEF AssetInv

LEMMA JobsRest == ASSUME AssetInv, UNCHANGED jobRows PROVE JobsSound' /\ painted' = painted
<1>1. UNCHANGED <<imageJob, runner, painted>>  BY DEF jobRows
<1> QED  BY <1>1 DEF AssetInv, JobsSound, JobPaints

\* One job and its goroutine move.
LEMMA JobGoes ==
    ASSUME AssetInv, NEW j \in ImageJobs, NEW row \in JobRow, NEW run \in RunnerRow,
           imageJob' = [imageJob EXCEPT ![j] = row], runner' = [runner EXCEPT ![j] = run],
           painted'[j] \in 0..1, \A i \in ImageJobs \ {j} : painted'[i] = painted[i],
           row.status = "none" <=> run.pc = "none",
           row.status # "none" => row.of \in Ids,
           row.status \in {"queued", "cancelled"} => painted'[j] = 0 /\ run.pc \in {"start", "over"},
           run.pc \in {"none", "start", "claimed", "making"} => painted'[j] = 0
    PROVE  JobsSound'
<1>1. /\ imageJob' \in [ImageJobs -> JobRow] /\ imageJob'[j] = row
      /\ runner' \in [ImageJobs -> RunnerRow] /\ runner'[j] = run
      /\ \A i \in ImageJobs \ {j} : imageJob'[i] = imageJob[i] /\ runner'[i] = runner[i]
  BY DEF AssetInv, JobsSound
<1>2. JobPaints(j)'  BY <1>1 DEF JobPaints
<1>3. \A i \in ImageJobs \ {j} : JobPaints(i)' /\ painted'[i] \in 0..1
  BY <1>1 DEF AssetInv, JobsSound, JobPaints
<1> QED  BY <1>1, <1>2, <1>3 DEF JobsSound

LEMMA EnqueueKeeps ==
    ASSUME AssetInv, NEW j \in Unstarted, NEW a \in Ids, Enqueue(j, a)
    PROVE  JobsSound' /\ painted' = painted
<1> DEFINE row == [status |-> "queued", of |-> a]
           run == [runner[j] EXCEPT !.pc = "start"]
<1>1. j \in ImageJobs /\ imageJob[j].status = "none" /\ runner[j] \in RunnerRow /\ JobPaints(j)
      /\ painted[j] \in 0..1
  BY DEF Unstarted, AssetInv, JobsSound
<1>2. row \in JobRow /\ row.status = "queued" /\ row.of = a
  BY NovelAssetConstants DEF JobRow, Ids
<1>3. run \in RunnerRow /\ run.pc = "start"  BY <1>1 DEF RunnerRow
<1>4. imageJob' = [imageJob EXCEPT ![j] = row] /\ runner' = [runner EXCEPT ![j] = run]
      /\ painted' = painted
  BY DEF Enqueue
<1>5. painted[j] = 0  BY <1>1 DEF JobPaints
<1> HIDE DEF row, run
<1> QED  BY <1>1, <1>2, <1>3, <1>4, <1>5, JobGoes

LEMMA BeginKeeps ==
    ASSUME AssetInv, NEW e \in Hands, NEW r \in EditRow, r.at # 1 \/ r.op # "portrait",
           Begin(e, r) \/ Continue(e, r)
    PROVE  AssetInv'
<1>1. /\ editor' = [editor EXCEPT ![e] = r] /\ UNCHANGED <<visual, referenced, creature, portrait>>
      /\ UNCHANGED jobRows
  BY DEF Begin, Continue, castRows
<1>2. JobsSound' /\ painted' = painted  BY <1>1, JobsRest
<1>3. /\ visual' \in [Ids -> AssetRow] /\ referenced' \subseteq Ids /\ creature' \in Creature
  BY <1>1 DEF AssetInv, PortraitsSound
<1> QED  BY <1>1, <1>2, <1>3, HandKeeps

\* A handler that ends without touching a portrait.
LEMMA FinishKeepsAssets ==
    ASSUME AssetInv, NEW e \in Hands, Finish(e), visual' \in [Ids -> AssetRow],
           referenced' \subseteq Ids, JobsSound', painted' = painted,
           creature' \in Creature, portrait' = portrait
    PROVE  AssetInv'
BY FreeTyped, HandKeeps DEF Finish

LEMMA ReadsKeep ==
    ASSUME AssetInv, NEW e \in Hands,
           \/ \E i \in Intents : LookForDraft(e, i)
           \/ \E op \in {"retry", "patch", "delete"} : ReadAsset(e, op)
           \/ \E op \in {"portrait", "creature", "actor"} : ReadCreature(e, op)
           \/ FindDuplicates(e) \/ CheckReference(e)
    PROVE  AssetInv'
<1>0. Free \in EditRow /\ Free.at = 0 /\ LiveAssets \subseteq Ids
  BY FreeTyped DEF LiveAssets
<1>7. ASSUME NEW r \in EditRow, Begin(e, r), r.at = 0 PROVE AssetInv'
  BY <1>7, BeginKeeps
<1>1. ASSUME NEW i \in Intents, LookForDraft(e, i) PROVE AssetInv'
  <2> DEFINE ids == {a \in LiveAssets : visual[a].intent = i}
             row == DraftOf(i)
  <2>1. ids \in SUBSET Ids /\ row \in AssetRow  BY <1>0, UnmadeTyped
  <2>2. Begin(e, [Free EXCEPT !.op = "draft", !.row = row, !.ids = ids])
    BY <1>1 DEF LookForDraft
  <2> HIDE DEF ids, row
  <2>3. /\ [Free EXCEPT !.op = "draft", !.row = row, !.ids = ids] \in EditRow
        /\ [Free EXCEPT !.op = "draft", !.row = row, !.ids = ids].at = 0
    BY <1>0, <2>1 DEF EditRow
  <2> QED  BY <1>7, <2>2, <2>3
<1>2. ASSUME NEW op \in {"retry", "patch", "delete"}, ReadAsset(e, op) PROVE AssetInv'
  <2>1. PICK a \in LiveAssets : Begin(e, [Free EXCEPT !.op = op, !.ids = {a}, !.row = visual[a]])
    BY <1>2 DEF ReadAsset
  <2>2. visual[a] \in AssetRow /\ {a} \in SUBSET Ids  BY <1>0 DEF AssetInv
  <2>3. /\ [Free EXCEPT !.op = op, !.ids = {a}, !.row = visual[a]] \in EditRow
        /\ [Free EXCEPT !.op = op, !.ids = {a}, !.row = visual[a]].at = 0
    BY <1>0, <2>2 DEF EditRow
  <2> QED  BY <1>7, <2>1, <2>3
<1>3. ASSUME NEW op \in {"portrait", "creature", "actor"}, ReadCreature(e, op) PROVE AssetInv'
  <2>1. Begin(e, [Free EXCEPT !.op = op, !.cast = creature])  BY <1>3 DEF ReadCreature
  <2>2. creature \in Creature  BY DEF AssetInv, PortraitsSound
  <2>3. /\ [Free EXCEPT !.op = op, !.cast = creature] \in EditRow
        /\ [Free EXCEPT !.op = op, !.cast = creature].at = 0
    BY <1>0, <2>2 DEF EditRow
  <2> QED  BY <1>7, <2>1, <2>3
<1>4. ASSUME NEW op \in {"dedupe", "refer"}, NEW ids \in SUBSET Ids,
             Begin(e, [Free EXCEPT !.op = op, !.ids = ids])
      PROVE  AssetInv'
  <2>1. /\ [Free EXCEPT !.op = op, !.ids = ids] \in EditRow
        /\ [Free EXCEPT !.op = op, !.ids = ids].at = 0
    BY <1>0 DEF EditRow
  <2> QED  BY <1>7, <1>4, <2>1
<1>5. ASSUME FindDuplicates(e) PROVE AssetInv'
  <2>1. Duplicates \in SUBSET Ids  BY <1>0 DEF Duplicates
  <2> QED  BY <1>4, <1>5, <2>1 DEF FindDuplicates
<1>6. ASSUME CheckReference(e) PROVE AssetInv'
  <2>1. \A a \in LiveAssets : {a} \in SUBSET Ids  BY <1>0
  <2> QED  BY <1>4, <1>6, <2>1 DEF CheckReference
<1> QED  BY <1>1, <1>2, <1>3, <1>5, <1>6

LEMMA EditRowGoes ==
    /\ \A r \in EditRow, n \in {1, 2} : \A ids \in SUBSET Ids :
          [r EXCEPT !.at = n, !.ids = ids] \in EditRow /\ [r EXCEPT !.at = n, !.ids = ids].op = r.op
    /\ \A r \in EditRow, n \in {1, 2} : \A jobs \in SUBSET ImageJobs :
          [r EXCEPT !.at = n, !.jobs = jobs] \in EditRow /\ [r EXCEPT !.at = n, !.jobs = jobs].op = r.op
<1>1. ASSUME NEW r \in EditRow
      PROVE  r = [op |-> r.op, at |-> r.at, ids |-> r.ids, jobs |-> r.jobs, row |-> r.row, cast |-> r.cast]
  BY DEF EditRow
<1>2. ASSUME NEW r \in EditRow, NEW n \in {1, 2}, NEW ids \in SUBSET Ids
      PROVE  [r EXCEPT !.at = n, !.ids = ids] \in EditRow /\ [r EXCEPT !.at = n, !.ids = ids].op = r.op
  <2>0. n \in 0..2
    OBVIOUS
  <2>1. [r EXCEPT !.at = n, !.ids = ids] \in EditRow  BY <2>0 DEF EditRow
  <2>2. [r EXCEPT !.at = n, !.ids = ids].op = r.op  BY <1>1
  <2> QED  BY <2>1, <2>2
<1>3. ASSUME NEW r \in EditRow, NEW n \in {1, 2}, NEW jobs \in SUBSET ImageJobs
      PROVE  [r EXCEPT !.at = n, !.jobs = jobs] \in EditRow /\ [r EXCEPT !.at = n, !.jobs = jobs].op = r.op
  <2>0. n \in 0..2
    OBVIOUS
  <2>1. [r EXCEPT !.at = n, !.jobs = jobs] \in EditRow  BY <2>0 DEF EditRow
  <2>2. [r EXCEPT !.at = n, !.jobs = jobs].op = r.op  BY <1>1
  <2> QED  BY <2>1, <2>2
<1> QED  BY <1>2, <1>3

LEMMA LooksKeep ==
    ASSUME AssetInv, NEW e \in Hands,
           FindJobs(e) \/ FindReferences(e) \/ SkipActive(e) \/ SkipReferenced(e)
    PROVE  AssetInv'
<1>0. editor[e] \in EditRow  BY DEF AssetInv, EditorsSound
<1>1. ASSUME NEW r \in EditRow, Continue(e, r), r.op # "portrait" PROVE AssetInv'
  BY <1>1, BeginKeeps
<1>2. Free \in EditRow /\ Free.op # "portrait"  BY FreeTyped
<1>3. ASSUME FindJobs(e) PROVE AssetInv'
  <2> DEFINE js == {j \in ActiveJobs : imageJob[j].of \in editor[e].ids}
  <2>1. js \in SUBSET ImageJobs /\ editor[e].op = "delete"  BY <1>3 DEF ActiveJobs, FindJobs, At
  <2>2. Continue(e, Free) \/ Continue(e, [editor[e] EXCEPT !.at = 1, !.jobs = js])
    BY <1>3 DEF FindJobs
  <2> HIDE DEF js
  <2>3. /\ [editor[e] EXCEPT !.at = 1, !.jobs = js] \in EditRow
        /\ [editor[e] EXCEPT !.at = 1, !.jobs = js].op = "delete"
    BY <1>0, <2>1, EditRowGoes
  <2> QED  BY <1>1, <1>2, <2>2, <2>3
<1>4. ASSUME FindReferences(e) PROVE AssetInv'
  <2>1. editor[e].op = "delete"  BY <1>4 DEF FindReferences, At
  <2>2. Continue(e, Free) \/ Continue(e, [editor[e] EXCEPT !.at = 2])
    BY <1>4 DEF FindReferences
  <2>3. [editor[e] EXCEPT !.at = 2] \in EditRow /\ [editor[e] EXCEPT !.at = 2].op = "delete"
    BY <1>0, <2>1 DEF EditRow
  <2> QED  BY <1>1, <1>2, <2>2, <2>3
<1>5. editor[e].ids \in SUBSET Ids  BY <1>0 DEF EditRow
<1>6. ASSUME SkipActive(e) PROVE AssetInv'
  <2> DEFINE ids == editor[e].ids \ {imageJob[j].of : j \in ActiveJobs}
  <2>1. Continue(e, [editor[e] EXCEPT !.at = 1, !.ids = ids]) /\ editor[e].op = "dedupe"
    BY <1>6 DEF SkipActive, At
  <2>2. ids \in SUBSET Ids  BY <1>5
  <2> HIDE DEF ids
  <2>3. /\ [editor[e] EXCEPT !.at = 1, !.ids = ids] \in EditRow
        /\ [editor[e] EXCEPT !.at = 1, !.ids = ids].op = editor[e].op
    BY <1>0, <2>2, EditRowGoes
  <2> QED  BY <1>1, <2>1, <2>3
<1>7. ASSUME SkipReferenced(e) PROVE AssetInv'
  <2> DEFINE ids == editor[e].ids \ referenced
  <2>1. Continue(e, [editor[e] EXCEPT !.at = 2, !.ids = ids]) /\ editor[e].op = "dedupe"
    BY <1>7 DEF SkipReferenced, At
  <2>2. ids \in SUBSET Ids  BY <1>5
  <2> HIDE DEF ids
  <2>3. /\ [editor[e] EXCEPT !.at = 2, !.ids = ids] \in EditRow
        /\ [editor[e] EXCEPT !.at = 2, !.ids = ids].op = editor[e].op
    BY <1>0, <2>2, EditRowGoes
  <2> QED  BY <1>1, <2>1, <2>3
<1> QED  BY <1>3, <1>4, <1>6, <1>7

LEMMA SavesKeep ==
    ASSUME AssetInv, NEW e \in Hands,
           Draft(e) \/ Retry(e) \/ PatchAsset(e) \/ RemoveDuplicates(e) \/ Refer(e)
    PROVE  AssetInv'
<1>0. editor[e] \in EditRow /\ editor[e].row \in AssetRow /\ editor[e].ids \in SUBSET Ids
  BY DEF AssetInv, EditorsSound, EditRow
<1>1. visual \in [Ids -> AssetRow] /\ referenced \subseteq Ids /\ creature \in Creature
  BY DEF AssetInv, PortraitsSound
<1>2. Finish(e) /\ UNCHANGED castRows
  BY DEF Draft, Retry, PatchAsset, RemoveDuplicates, Refer
<1>3. creature' = creature /\ portrait' = portrait  BY <1>2 DEF castRows
<1>4. ASSUME visual' \in [Ids -> AssetRow], referenced' \subseteq Ids, JobsSound', painted' = painted
      PROVE  AssetInv'
  BY <1>1, <1>2, <1>3, <1>4, FinishKeepsAssets
<1>5. ASSUME Draft(e) PROVE AssetInv'
  <2>1. \/ UNCHANGED <<visual, jobRows>>
        \/ Room # {} /\ visual' = Put(NextId, editor[e].row) /\ \E j \in Unstarted : Enqueue(j, NextId)
    BY <1>5 DEF Draft
  <2>2. referenced' = referenced  BY <1>5 DEF Draft
  <2>3. CASE UNCHANGED <<visual, jobRows>>
    BY <1>1, <1>4, <2>2, <2>3, JobsRest
  <2>4. CASE Room # {} /\ visual' = Put(NextId, editor[e].row) /\ \E j \in Unstarted : Enqueue(j, NextId)
    <3>1. NextId \in Ids  BY <2>4, NextIsId
    <3>2. visual' \in [Ids -> AssetRow]  BY <1>0, <2>4, PutTyped
    <3>3. JobsSound' /\ painted' = painted  BY <2>4, <3>1, EnqueueKeeps
    <3> QED  BY <1>1, <1>4, <2>2, <3>2, <3>3
  <2> QED  BY <2>1, <2>3, <2>4
<1>6. ASSUME Retry(e) PROVE AssetInv'
  <2>1. referenced' = referenced  BY <1>6 DEF Retry
  <2>2. PICK a \in editor[e].ids :
           \/ visual' = Put(a, editor[e].row) /\ \E j \in Unstarted : Enqueue(j, a)
           \/ UNCHANGED <<visual, jobRows>>
    BY <1>6 DEF Retry
  <2>3. CASE UNCHANGED <<visual, jobRows>>
    BY <1>1, <1>4, <2>1, <2>3, JobsRest
  <2>4. CASE visual' = Put(a, editor[e].row) /\ \E j \in Unstarted : Enqueue(j, a)
    <3>1. a \in Ids  BY <1>0
    <3>2. visual' \in [Ids -> AssetRow]  BY <1>0, <2>4, PutTyped
    <3>3. JobsSound' /\ painted' = painted  BY <2>4, <3>1, EnqueueKeeps
    <3> QED  BY <1>1, <1>4, <2>1, <3>2, <3>3
  <2> QED  BY <2>2, <2>3, <2>4
<1>7. ASSUME PatchAsset(e) PROVE AssetInv'
  <2>1. PICK a \in editor[e].ids, ok \in BOOLEAN, i \in Intents :
           visual' = Put(a, [editor[e].row EXCEPT !.approved = ok, !.intent = i])
    BY <1>7 DEF PatchAsset
  <2> DEFINE row == [editor[e].row EXCEPT !.approved = ok, !.intent = i]
  <2>2. row \in AssetRow  BY <1>0 DEF AssetRow
  <2>3. visual' = Put(a, row)  BY <2>1
  <2> HIDE DEF row
  <2>4. visual' \in [Ids -> AssetRow]  BY <2>2, <2>3, PutTyped
  <2>5. referenced' = referenced /\ UNCHANGED jobRows  BY <1>7 DEF PatchAsset
  <2> QED  BY <1>1, <1>4, <2>4, <2>5, JobsRest
<1>8. ASSUME RemoveDuplicates(e) PROVE AssetInv'
  <2>1. /\ visual' = [a \in Ids |-> IF a \in editor[e].ids THEN [visual[a] EXCEPT !.live = FALSE] ELSE visual[a]]
        /\ referenced' = referenced /\ UNCHANGED jobRows
    BY <1>8 DEF RemoveDuplicates
  <2>2. \A r \in AssetRow : [r EXCEPT !.live = FALSE] \in AssetRow  BY DEF AssetRow
  <2>3. visual' \in [Ids -> AssetRow]  BY <1>1, <2>1, <2>2
  <2> QED  BY <1>1, <1>4, <2>1, <2>3, JobsRest
<1>9. ASSUME Refer(e) PROVE AssetInv'
  <2>1. /\ referenced' \in {referenced \cup editor[e].ids, referenced \ editor[e].ids}
        /\ visual' = visual /\ UNCHANGED jobRows
    BY <1>9 DEF Refer
  <2> QED  BY <1>0, <1>1, <1>4, <2>1, JobsRest
<1> QED  BY <1>5, <1>6, <1>7, <1>8, <1>9

\* A deletion cancels jobs that wait, of which none has painted.
LEMMA DeleteKeepsAssets == ASSUME AssetInv, NEW e \in Hands, DeleteAsset(e) PROVE AssetInv'
<1>1. /\ imageJob' = [j \in ImageJobs |->
             IF j \in Cancels(e) THEN [imageJob[j] EXCEPT !.status = "cancelled"] ELSE imageJob[j]]
      /\ visual' = [a \in Ids |-> IF a \in editor[e].ids THEN [visual[a] EXCEPT !.live = FALSE] ELSE visual[a]]
      /\ UNCHANGED <<runner, painted, referenced, creature, portrait>> /\ Finish(e)
  BY DEF DeleteAsset, castRows
<1>2. visual \in [Ids -> AssetRow] /\ referenced \subseteq Ids /\ creature \in Creature
  BY DEF AssetInv, PortraitsSound
<1>3. \A r \in AssetRow : [r EXCEPT !.live = FALSE] \in AssetRow  BY DEF AssetRow
<1>4. visual' \in [Ids -> AssetRow]  BY <1>1, <1>2, <1>3
<1>5. ASSUME NEW j \in ImageJobs
      PROVE  imageJob'[j] \in JobRow /\ painted'[j] \in 0..1 /\ JobPaints(j)'
  <2>1. imageJob[j] \in JobRow /\ JobPaints(j) /\ painted[j] \in 0..1
    BY DEF AssetInv, JobsSound
  <2>2. CASE j \in Cancels(e)
    <3>1. imageJob[j].status = "queued"  BY <2>2 DEF Cancels
    <3>2. imageJob'[j] = [imageJob[j] EXCEPT !.status = "cancelled"]  BY <1>1, <2>2
    <3>3. imageJob'[j] \in JobRow /\ imageJob'[j].status = "cancelled" /\ imageJob'[j].of = imageJob[j].of
      BY <2>1, <3>2 DEF JobRow
    <3> QED  BY <1>1, <2>1, <3>1, <3>3 DEF JobPaints
  <2>3. CASE j \notin Cancels(e)
    <3>1. imageJob'[j] = imageJob[j]  BY <1>1, <2>3
    <3> QED  BY <1>1, <2>1, <3>1 DEF JobPaints
  <2> QED  BY <2>2, <2>3
<1>6. JobsSound'
  <2>1. imageJob' \in [ImageJobs -> JobRow]
    <3>1. imageJob' = [j \in ImageJobs |-> imageJob'[j]]  BY <1>1
    <3> QED  BY <1>5, <3>1
  <2> QED  BY <1>1, <1>5, <2>1 DEF AssetInv, JobsSound
<1> QED  BY <1>1, <1>2, <1>4, <1>6, FinishKeepsAssets

LEMMA CastKeeps ==
    ASSUME AssetInv, NEW e \in Hands, PatchCreature(e) \/ PatchActor(e)
    PROVE  AssetInv'
<1>0. editor[e] \in EditRow /\ editor[e].cast \in Creature
  BY DEF AssetInv, EditorsSound, EditRow
<1>1. /\ Finish(e) /\ creature' = editor[e].cast /\ UNCHANGED jobRows
      /\ UNCHANGED <<portrait, referenced>>
  BY DEF PatchCreature, PatchActor
<1>2. visual' \in [Ids -> AssetRow]
  <2>1. ASSUME PatchActor(e) PROVE visual' \in [Ids -> AssetRow]
    <3>1. PICK yes \in BOOLEAN : SaveActorRef([ActorRefRow EXCEPT !.approved = yes])
      BY <2>1 DEF PatchActor
    <3> DEFINE row == [ActorRefRow EXCEPT !.approved = yes]
    <3>2. row \in AssetRow  BY ActorRefTyped DEF AssetRow
    <3> HIDE DEF row
    <3>3. SaveActorRef(row)  BY <3>1 DEF row
    <3> QED  BY <3>2, <3>3, PutTyped DEF SaveActorRef
  <2> QED  BY <2>1 DEF PatchCreature, AssetInv
<1> QED  BY <1>0, <1>1, <1>2, JobsRest, FinishKeepsAssets DEF AssetInv

\* A record is made by one handler, which alone starts the portrait.
LEMMA RecordKeeps == ASSUME AssetInv, NEW e \in Hands, RecordPortrait(e) PROVE AssetInv'
<1>0. editor[e] \in EditRow /\ At(e, "portrait", 0)
  BY DEF AssetInv, EditorsSound, RecordPortrait
<1>1. UNCHANGED <<visual, creature, referenced>> /\ UNCHANGED jobRows
  BY DEF RecordPortrait
<1>2. CASE editor' = [editor EXCEPT ![e] = Free] /\ portrait' = portrait
  <2>1. JobsSound' /\ painted' = painted  BY <1>1, JobsRest
  <2>2. visual' \in [Ids -> AssetRow] /\ referenced' \subseteq Ids /\ creature' \in Creature
    BY <1>1 DEF AssetInv, PortraitsSound
  <2> QED  BY <1>2, <2>1, <2>2, FreeTyped, HandKeeps
<1>3. ASSUME NEW p \in Portraits, portrait[p] = "none", portrait' = [portrait EXCEPT ![p] = "recorded"],
             editor' = [editor EXCEPT ![e].at = 1, ![e].cast.record = p]
      PROVE  AssetInv'
  <2> DEFINE cast == [editor[e].cast EXCEPT !.record = p]
             row == [editor[e] EXCEPT !.at = 1, !.cast = cast]
  <2>1. cast \in Creature /\ cast.record = p  BY <1>0 DEF EditRow, Creature
  <2>2. editor' = [editor EXCEPT ![e] = row]  BY <1>3
  <2> HIDE DEF cast
  <2>3. row \in EditRow
    <3>1. 1 \in 0..2
      OBVIOUS
    <3> QED  BY <1>0, <2>1, <3>1 DEF EditRow
  <2>4. row.at = 1 /\ row.cast = cast /\ row.op = "portrait"  BY <1>0 DEF EditRow, At
  <2> HIDE DEF row
  <2>5. /\ editor' \in [Hands -> EditRow] /\ editor'[e] = row
        /\ \A f \in Hands \ {e} : editor'[f] = editor[f]
    BY <2>2, <2>3 DEF AssetInv, EditorsSound
  <2>6. /\ portrait' \in [Portraits -> PortraitPlaces] /\ portrait'[p] = "recorded"
        /\ \A q \in Portraits \ {p} : portrait'[q] = portrait[q]
    BY <1>3 DEF AssetInv, PortraitsSound, PortraitPlaces
  <2>7. JobsSound' /\ painted' = painted  BY <1>1, JobsRest
  <2>8. PortraitsSound'  BY <1>1, <1>3, <2>6, <2>7 DEF AssetInv, PortraitsSound
  <2>9. \A f \in Hands \ {e} : At(f, "portrait", 1)' <=> At(f, "portrait", 1)  BY <2>5 DEF At
  <2>10. \A f \in Hands \ {e} : At(f, "portrait", 1) =>
            editor[f].cast.record \in Portraits \ {p} /\ portrait[editor[f].cast.record] = "recorded"
    BY <1>3 DEF AssetInv, EditorsSound
  <2>11. editor'[e].cast.record = p  BY <2>1, <2>4, <2>5
  <2>12. \A f \in Hands : At(f, "portrait", 1)' =>
            editor'[f].cast.record \in Portraits /\ portrait'[editor'[f].cast.record] = "recorded"
    BY <2>5, <2>6, <2>9, <2>10, <2>11
  <2>13. \A f \in Hands \ {e} : \A q \in Portraits : Records(f, q)' => Records(f, q) /\ q # p
    BY <2>5, <2>9, <2>10 DEF Records
  <2>14. \A q \in Portraits : Records(e, q)' => q = p  BY <2>11 DEF Records
  <2>15. \A f, g \in Hands : \A q \in Portraits : Records(f, q)' /\ Records(g, q)' => f = g
    BY <2>13, <2>14 DEF AssetInv, EditorsSound
  <2>16. EditorsSound'  BY <2>5, <2>12, <2>15 DEF EditorsSound
  <2> QED  BY <1>1, <2>7, <2>8, <2>16 DEF AssetInv
<1> QED  BY <1>2, <1>3 DEF RecordPortrait

LEMMA StartKeeps == ASSUME AssetInv, NEW e \in Hands, StartPortrait(e) PROVE AssetInv'
<1> DEFINE p == editor[e].cast.record
<1>0. editor[e] \in EditRow /\ editor[e].cast \in Creature /\ At(e, "portrait", 1)
      /\ p \in Portraits /\ portrait[p] = "recorded"
  BY DEF AssetInv, EditorsSound, EditRow, StartPortrait
<1>1. /\ Finish(e) /\ UNCHANGED <<visual, referenced>> /\ UNCHANGED jobRows
      /\ \/ creature' = editor[e].cast /\ portrait' = [portrait EXCEPT ![p] = "running"]
         \/ UNCHANGED <<creature, portrait>>
  BY DEF StartPortrait, castRows
<1>2. JobsSound' /\ painted' = painted  BY <1>1, JobsRest
<1>3. visual' \in [Ids -> AssetRow] /\ referenced' \subseteq Ids  BY <1>1 DEF AssetInv
<1>4. CASE UNCHANGED <<creature, portrait>>
  BY <1>1, <1>2, <1>3, <1>4, FinishKeepsAssets DEF AssetInv, PortraitsSound
<1>5. CASE creature' = editor[e].cast /\ portrait' = [portrait EXCEPT ![p] = "running"]
  <2>1. portrait' = [portrait EXCEPT ![p] = "running"] /\ creature' \in Creature
    BY <1>0, <1>5
  <2>2. Records(e, p)  BY <1>0 DEF Records
  <2> HIDE DEF p
  <2>3. /\ portrait' \in [Portraits -> PortraitPlaces] /\ portrait'[p] = "running"
        /\ \A q \in Portraits \ {p} : portrait'[q] = portrait[q]
    BY <1>0, <2>1 DEF AssetInv, PortraitsSound, PortraitPlaces
  <2>4. PortraitsSound'  BY <1>0, <1>2, <2>1, <2>3 DEF AssetInv, PortraitsSound
  <2>5. \A q \in Portraits : portrait[q] = "recorded" /\ portrait'[q] # "recorded" => Records(e, q)
    BY <2>2, <2>3
  <2>6. editor' = [editor EXCEPT ![e] = Free]  BY <1>1 DEF Finish
  <2>7. Free \in EditRow /\ (Free.at # 1 \/ Free.op # "portrait")  BY FreeTyped
  <2>8. EditorsSound'  BY <2>3, <2>5, <2>6, <2>7, EditorGoes DEF AssetInv
  <2> QED  BY <1>2, <1>3, <2>4, <2>8 DEF AssetInv
<1> QED  BY <1>1, <1>4, <1>5

\* The goroutines leave the handlers alone.
LEMMA GoroutineKeeps ==
    ASSUME AssetInv, editor' = editor, \A p \in Portraits : portrait[p] = "recorded" => portrait'[p] = "recorded",
           visual' \in [Ids -> AssetRow], referenced' \subseteq Ids, JobsSound', PortraitsSound',
           DOMAIN painted' = Painters, painted' = [x \in Painters |-> painted'[x]]
    PROVE  AssetInv'
<1>1. EditorsSound'
  <2>1. \A e \in Hands : At(e, "portrait", 1)' <=> At(e, "portrait", 1)  BY DEF At
  <2> QED  BY <2>1 DEF AssetInv, EditorsSound, Records
<1> QED  BY <1>1 DEF AssetInv

LEMMA RunnerKeeps ==
    ASSUME AssetInv, NEW j \in ImageJobs,
           ClaimImageJob(j) \/ LoadAsset(j) \/ MakeImage(j) \/ SaveImage(j)
    PROVE  AssetInv'
<1>0. /\ imageJob[j] \in JobRow /\ runner[j] \in RunnerRow /\ JobPaints(j) /\ painted[j] \in 0..1
      /\ visual \in [Ids -> AssetRow] /\ referenced \subseteq Ids
      /\ DOMAIN painted = Painters /\ painted = [x \in Painters |-> painted[x]] /\ j \in Painters
  BY DEF AssetInv, JobsSound, Painters
<1>1. UNCHANGED <<creature, portrait, referenced, editor>>
  BY DEF ClaimImageJob, LoadAsset, MakeImage, SaveImage, castRows
<1>2. ASSUME NEW row \in JobRow, NEW run \in RunnerRow, NEW n \in 0..1,
             imageJob' = [imageJob EXCEPT ![j] = row], runner' = [runner EXCEPT ![j] = run],
             painted' = [painted EXCEPT ![j] = n], visual' \in [Ids -> AssetRow],
             row.status = "none" <=> run.pc = "none", row.of = imageJob[j].of,
             row.status # "none" => imageJob[j].status # "none",
             row.status \in {"queued", "cancelled"} => n = 0 /\ run.pc \in {"start", "over"},
             run.pc \in {"none", "start", "claimed", "making"} => n = 0
      PROVE  AssetInv'
  <2>1. /\ painted'[j] = n /\ \A x \in Painters \ {j} : painted'[x] = painted[x]
        /\ DOMAIN painted' = Painters /\ painted' = [x \in Painters |-> painted'[x]]
    BY <1>0, <1>2
  <2>2. row.status # "none" => row.of \in Ids  BY <1>0, <1>2 DEF JobPaints
  <2>3. JobsSound'  BY <1>2, <2>1, <2>2, JobGoes DEF Painters
  <2>4. \A p \in Portraits : painted'[p] = painted[p]  BY <2>1, NovelAssetConstants DEF Painters
  <2>5. PortraitsSound'  BY <1>1, <2>4 DEF AssetInv, PortraitsSound
  <2> QED  BY <1>0, <1>1, <1>2, <2>1, <2>3, <2>5, GoroutineKeeps
<1>3. ASSUME NEW st \in {"running", "succeeded", "failed"}
      PROVE  /\ [imageJob[j] EXCEPT !.status = st] \in JobRow
             /\ [imageJob[j] EXCEPT !.status = st].status = st
             /\ [imageJob[j] EXCEPT !.status = st].of = imageJob[j].of
  BY <1>0 DEF JobRow
<1>4. ASSUME NEW pc \in {"claimed", "unmade", "over"}
      PROVE  [runner[j] EXCEPT !.pc = pc] \in RunnerRow /\ [runner[j] EXCEPT !.pc = pc].pc = pc
  BY <1>0 DEF RunnerRow
<1>5. imageJob = [imageJob EXCEPT ![j] = imageJob[j]] /\ painted = [painted EXCEPT ![j] = painted[j]]
  BY <1>0 DEF AssetInv, JobsSound
<1>6. ASSUME ClaimImageJob(j) PROVE AssetInv'
  <2>1. runner[j].pc = "start" /\ UNCHANGED <<visual, painted>>  BY <1>6 DEF ClaimImageJob
  <2>2. painted[j] = 0 /\ imageJob[j].status # "none"  BY <1>0, <2>1 DEF JobPaints
  <2>3. CASE CanClaim(j)
    <3> DEFINE row == [imageJob[j] EXCEPT !.status = "running"]
               run == [runner[j] EXCEPT !.pc = "claimed"]
    <3>1. imageJob' = [imageJob EXCEPT ![j] = row] /\ runner' = [runner EXCEPT ![j] = run]
      BY <1>6, <2>3 DEF ClaimImageJob
    <3>2. /\ row \in JobRow /\ row.status = "running" /\ row.of = imageJob[j].of
          /\ run \in RunnerRow /\ run.pc = "claimed"
      BY <1>3, <1>4
    <3> HIDE DEF row, run
    <3> QED  BY <1>0, <1>2, <1>5, <2>1, <2>2, <3>1, <3>2
  <2>4. CASE ~CanClaim(j)
    <3> DEFINE run == [runner[j] EXCEPT !.pc = "over"]
    <3>1. imageJob' = imageJob /\ runner' = [runner EXCEPT ![j] = run]
      BY <1>6, <2>4 DEF ClaimImageJob
    <3>2. run \in RunnerRow /\ run.pc = "over"  BY <1>4
    <3> HIDE DEF run
    <3> QED  BY <1>0, <1>2, <1>5, <2>1, <2>2, <3>1, <3>2
  <2> QED  BY <2>3, <2>4
<1>7. ASSUME LoadAsset(j) PROVE AssetInv'
  <2>1. runner[j].pc = "claimed" /\ UNCHANGED <<visual, painted>>  BY <1>7 DEF LoadAsset
  <2>2. painted[j] = 0 /\ imageJob[j].status \notin {"none", "queued", "cancelled"} /\ imageJob[j].of \in Ids
    BY <1>0, <2>1 DEF JobPaints
  <2>3. ASSUME runner' = [runner EXCEPT ![j] = [pc |-> "making", row |-> visual[imageJob[j].of]]],
               imageJob' = imageJob
        PROVE  AssetInv'
    <3> DEFINE run == [pc |-> "making", row |-> visual[imageJob[j].of]]
    <3>1. run \in RunnerRow /\ run.pc = "making"  BY <1>0, <2>2 DEF RunnerRow
    <3>2. runner' = [runner EXCEPT ![j] = run]  BY <2>3
    <3> HIDE DEF run
    <3>3. /\ imageJob' = [imageJob EXCEPT ![j] = imageJob[j]]
          /\ painted' = [painted EXCEPT ![j] = painted[j]] /\ visual' \in [Ids -> AssetRow]
      BY <1>0, <1>5, <2>1, <2>3
    <3> QED  BY <1>0, <1>2, <2>2, <3>1, <3>2, <3>3
  <2>4. ASSUME runner' = [runner EXCEPT ![j].pc = "over"], imageJob' = [imageJob EXCEPT ![j].status = "failed"]
        PROVE  AssetInv'
    <3> DEFINE row == [imageJob[j] EXCEPT !.status = "failed"]
               run == [runner[j] EXCEPT !.pc = "over"]
    <3>1. imageJob' = [imageJob EXCEPT ![j] = row] /\ runner' = [runner EXCEPT ![j] = run]
      BY <2>4
    <3>2. /\ row \in JobRow /\ row.status = "failed" /\ row.of = imageJob[j].of
          /\ run \in RunnerRow /\ run.pc = "over"
      BY <1>3, <1>4
    <3> HIDE DEF row, run
    <3> QED  BY <1>0, <1>2, <1>5, <2>1, <2>2, <3>1, <3>2
  <2> QED  BY <1>7, <2>3, <2>4 DEF LoadAsset
<1>8. ASSUME MakeImage(j) PROVE AssetInv'
  <2>1. runner[j].pc = "making" /\ UNCHANGED <<visual, imageJob>>  BY <1>8 DEF MakeImage
  <2>2. painted[j] = 0 /\ imageJob[j].status \notin {"none", "queued", "cancelled"}
    BY <1>0, <2>1 DEF JobPaints
  <2>3. ASSUME painted' = [painted EXCEPT ![j] = painted[j] + 1],
               runner' = [runner EXCEPT ![j].pc = "made", ![j].row.image = j]
        PROVE  AssetInv'
    <3> DEFINE img == [runner[j].row EXCEPT !.image = j]
               run == [runner[j] EXCEPT !.pc = "made", !.row = img]
    <3>1. img \in AssetRow  BY <1>0 DEF RunnerRow, AssetRow
    <3>2. runner' = [runner EXCEPT ![j] = run]  BY <2>3
    <3> HIDE DEF img
    <3>3. run \in RunnerRow /\ run.pc = "made"  BY <1>0, <3>1 DEF RunnerRow
    <3> HIDE DEF run
    <3>4. painted' = [painted EXCEPT ![j] = 1] /\ 1 \in 0..1  BY <2>2, <2>3
    <3>5. imageJob' = [imageJob EXCEPT ![j] = imageJob[j]] /\ visual' \in [Ids -> AssetRow]
      BY <1>0, <1>5, <2>1
    <3> QED  BY <1>0, <1>2, <2>2, <3>2, <3>3, <3>4, <3>5
  <2>4. ASSUME runner' = [runner EXCEPT ![j].pc = "unmade"], painted' = painted PROVE AssetInv'
    <3> DEFINE run == [runner[j] EXCEPT !.pc = "unmade"]
    <3>1. runner' = [runner EXCEPT ![j] = run]  BY <2>4
    <3>2. run \in RunnerRow /\ run.pc = "unmade"  BY <1>4
    <3> HIDE DEF run
    <3>3. /\ imageJob' = [imageJob EXCEPT ![j] = imageJob[j]]
          /\ painted' = [painted EXCEPT ![j] = painted[j]] /\ visual' \in [Ids -> AssetRow]
      BY <1>0, <1>5, <2>1, <2>4
    <3> QED  BY <1>0, <1>2, <2>2, <3>1, <3>2, <3>3
  <2> QED  BY <1>8, <2>3, <2>4 DEF MakeImage
<1>9. ASSUME SaveImage(j) PROVE AssetInv'
  <2> DEFINE run == [runner[j] EXCEPT !.pc = "over"]
  <2>1. /\ runner[j].pc \in {"made", "unmade"} /\ painted' = painted
        /\ runner' = [runner EXCEPT ![j] = run]
    BY <1>9 DEF SaveImage
  <2>2. imageJob[j].status \notin {"none", "queued", "cancelled"}  BY <1>0, <2>1 DEF JobPaints
  <2>3. run \in RunnerRow /\ run.pc = "over" /\ runner[j].row \in AssetRow
    BY <1>0, <1>4 DEF RunnerRow
  <2> HIDE DEF run
  <2>4. CASE UNCHANGED <<visual, imageJob>>
    BY <1>0, <1>2, <1>5, <2>1, <2>2, <2>3, <2>4
  <2>5. ASSUME NEW st \in {"succeeded", "failed"}, visual' = Put(imageJob[j].of, runner[j].row),
               imageJob' = [imageJob EXCEPT ![j].status = st]
        PROVE  AssetInv'
    <3> DEFINE row == [imageJob[j] EXCEPT !.status = st]
    <3>1. row \in JobRow /\ row.status = st /\ row.of = imageJob[j].of  BY <1>3
    <3>2. imageJob' = [imageJob EXCEPT ![j] = row]  BY <2>5
    <3> HIDE DEF row
    <3>3. visual' \in [Ids -> AssetRow]  BY <2>3, <2>5, PutTyped
    <3> QED  BY <1>0, <1>2, <1>5, <2>1, <2>2, <2>3, <3>1, <3>2, <3>3
  <2> QED  BY <1>9, <2>4, <2>5 DEF SaveImage
<1> QED  BY <1>6, <1>7, <1>8, <1>9

LEMMA PortraitKeeps ==
    ASSUME AssetInv, NEW p \in Portraits, MakePortrait(p) \/ ShowPortrait(p)
    PROVE  AssetInv'
<1>0. /\ creature \in Creature /\ portrait \in [Portraits -> PortraitPlaces] /\ painted[p] \in 0..1
      /\ portrait[p] \in {"none", "recorded", "running"} => painted[p] = 0
      /\ visual \in [Ids -> AssetRow] /\ referenced \subseteq Ids
      /\ DOMAIN painted = Painters /\ painted = [x \in Painters |-> painted[x]] /\ p \in Painters
  BY DEF AssetInv, PortraitsSound, Painters
<1>1. ASSUME NEW st \in {"made", "over"}, NEW n \in 0..1, portrait[p] \in {"running", "made"},
             portrait' = [portrait EXCEPT ![p] = st], painted' = [painted EXCEPT ![p] = n],
             UNCHANGED <<imageJob, runner, editor, referenced>>,
             creature' \in Creature, visual' \in [Ids -> AssetRow]
      PROVE  AssetInv'
  <2>1. /\ painted'[p] = n /\ \A x \in Painters \ {p} : painted'[x] = painted[x]
        /\ DOMAIN painted' = Painters /\ painted' = [x \in Painters |-> painted'[x]]
    BY <1>0, <1>1
  <2>2. \A j \in ImageJobs : painted'[j] = painted[j]  BY <2>1, NovelAssetConstants DEF Painters
  <2>3. JobsSound'  BY <1>1, <2>2 DEF AssetInv, JobsSound, JobPaints
  <2>4. /\ portrait' \in [Portraits -> PortraitPlaces] /\ portrait'[p] = st
        /\ \A q \in Portraits \ {p} : portrait'[q] = portrait[q]
    BY <1>0, <1>1 DEF PortraitPlaces
  <2>5. PortraitsSound'  BY <1>1, <2>1, <2>4 DEF AssetInv, PortraitsSound, Painters
  <2>6. \A q \in Portraits : portrait[q] = "recorded" => portrait'[q] = "recorded"
    BY <1>1, <2>4
  <2> QED  BY <1>0, <1>1, <2>1, <2>3, <2>5, <2>6, GoroutineKeeps
<1>2. painted = [painted EXCEPT ![p] = painted[p]]  BY <1>0
<1>3. ASSUME MakePortrait(p) PROVE AssetInv'
  <2>1. /\ portrait[p] = "running" /\ UNCHANGED <<visual, imageJob, runner, creature, referenced, editor>>
        /\ \/ portrait' = [portrait EXCEPT ![p] = "made"] /\ painted' = [painted EXCEPT ![p] = painted[p] + 1]
           \/ portrait' = [portrait EXCEPT ![p] = "over"] /\ painted' = painted
    BY <1>3 DEF MakePortrait
  <2>2. painted[p] + 1 = 1 /\ 1 \in 0..1  BY <1>0, <2>1
  <2>3. visual' \in [Ids -> AssetRow] /\ creature' \in Creature  BY <1>0, <2>1
  <2>4. ASSUME portrait' = [portrait EXCEPT ![p] = "made"], painted' = [painted EXCEPT ![p] = painted[p] + 1]
        PROVE  AssetInv'
    <3>1. painted' = [painted EXCEPT ![p] = 1]  BY <2>2, <2>4
    <3> QED  BY <1>1, <2>1, <2>2, <2>3, <2>4, <3>1
  <2>5. ASSUME portrait' = [portrait EXCEPT ![p] = "over"], painted' = painted PROVE AssetInv'
    <3>1. painted' = [painted EXCEPT ![p] = painted[p]]  BY <1>2, <2>5
    <3> QED  BY <1>0, <1>1, <2>1, <2>3, <2>5, <3>1
  <2> QED  BY <2>1, <2>4, <2>5
<1>4. ASSUME ShowPortrait(p) PROVE AssetInv'
  <2>1. /\ portrait[p] = "made" /\ portrait' = [portrait EXCEPT ![p] = "over"]
        /\ UNCHANGED <<imageJob, runner, painted, referenced, editor>>
        /\ \/ /\ creature' = [creature EXCEPT !.work = p]
              /\ SaveActorRef([ActorRefRow EXCEPT !.image = p])
           \/ UNCHANGED <<creature, visual>>
    BY <1>4 DEF ShowPortrait, jobRows
  <2>2. painted' = [painted EXCEPT ![p] = painted[p]]  BY <1>2, <2>1
  <2>3. creature' \in Creature  BY <1>0, <2>1 DEF Creature
  <2>4. visual' \in [Ids -> AssetRow]
    <3> DEFINE row == [ActorRefRow EXCEPT !.image = p]
    <3>1. row \in AssetRow  BY ActorRefTyped DEF AssetRow
    <3>2. SaveActorRef(row) \/ visual' = visual  BY <2>1
    <3> HIDE DEF row
    <3> QED  BY <1>0, <3>1, <3>2, PutTyped DEF SaveActorRef
  <2> QED  BY <1>0, <1>1, <2>1, <2>2, <2>3, <2>4
<1> QED  BY <1>3, <1>4

LEMMA PlansKeep == ASSUME AssetInv, LockSheet \/ Analyze \/ PlanImages PROVE AssetInv'
<1>0. creature \in Creature /\ visual \in [Ids -> AssetRow] /\ referenced \subseteq Ids
      /\ DOMAIN painted = Painters /\ painted = [x \in Painters |-> painted[x]]
  BY DEF AssetInv, PortraitsSound
<1>1. editor' = editor /\ portrait' = portrait /\ UNCHANGED jobRows
  BY DEF LockSheet, Analyze, PlanImages, castRows
<1>2. JobsSound' /\ painted' = painted  BY <1>1, JobsRest
<1>3. ASSUME creature' \in Creature, visual' \in [Ids -> AssetRow], referenced' \subseteq Ids
      PROVE  AssetInv'
  <2>1. PortraitsSound'  BY <1>1, <1>2, <1>3 DEF AssetInv, PortraitsSound
  <2> QED  BY <1>0, <1>1, <1>2, <1>3, <2>1, GoroutineKeeps
<1>4. creature' = creature \/ creature' = [creature EXCEPT !.live = creature.live /\ creature.work # None]
      => creature' \in Creature
  <2>1. (creature.live /\ creature.work # None) \in BOOLEAN
    OBVIOUS
  <2> DEFINE live == creature.live /\ creature.work # None
  <2> HIDE DEF live
  <2>2. live \in BOOLEAN => [creature EXCEPT !.live = live] \in Creature  BY <1>0 DEF Creature
  <2> QED  BY <1>0, <2>1, <2>2 DEF live
<1>5. ASSUME LockSheet PROVE AssetInv'
  <2>1. PICK i \in Intents : visual' = Put(NextId, DraftOf(i))  BY <1>5 DEF LockSheet
  <2>2. visual' \in [Ids -> AssetRow]  BY <2>1, UnmadeTyped, PutTyped
  <2>3. creature' = creature /\ referenced' = referenced  BY <1>5 DEF LockSheet, castRows
  <2> QED  BY <1>0, <1>3, <2>2, <2>3
<1>6. ASSUME Analyze PROVE AssetInv'
  <2>1. /\ creature' = [creature EXCEPT !.live = creature.live /\ creature.work # None]
        /\ visual' = visual /\ referenced' = referenced
    BY <1>6 DEF Analyze
  <2> QED  BY <1>0, <1>3, <1>4, <2>1
<1>7. ASSUME PlanImages PROVE AssetInv'
  <2> DEFINE kept == [a \in Ids |-> [visual[a] EXCEPT !.live = visual[a].live /\ visual[a].image # None]]
  <2>1. /\ creature' = [creature EXCEPT !.live = creature.live /\ creature.work # None]
        /\ Room # {} /\ referenced' = {NextId}
        /\ \E i \in Intents : visual' = [kept EXCEPT ![NextId] = DraftOf(i)]
    BY <1>7 DEF PlanImages
  <2>2. kept \in [Ids -> AssetRow]
    <3>1. ASSUME NEW r \in AssetRow, NEW l \in BOOLEAN PROVE [r EXCEPT !.live = l] \in AssetRow
      BY DEF AssetRow
    <3>2. ASSUME NEW a \in Ids
          PROVE  [visual[a] EXCEPT !.live = visual[a].live /\ visual[a].image # None] \in AssetRow
      <4>1. visual[a] \in AssetRow  BY <1>0
      <4>2. (visual[a].live /\ visual[a].image # None) \in BOOLEAN
        OBVIOUS
      <4> QED  BY <3>1, <4>1, <4>2
    <3> QED  BY <3>2
  <2> HIDE DEF kept
  <2>3. visual' \in [Ids -> AssetRow]  BY <2>1, <2>2, UnmadeTyped
  <2>4. referenced' \subseteq Ids  BY <2>1, NextIsId
  <2> QED  BY <1>3, <1>4, <2>1, <2>3, <2>4
<1> QED  BY <1>5, <1>6, <1>7

\* The goroutines die; what they had painted stays paid.
LEMMA DieKeeps == ASSUME AssetInv, Die PROVE AssetInv'
<1>1. /\ runner' = [j \in ImageJobs |->
             IF runner[j].pc = "none" THEN runner[j] ELSE [runner[j] EXCEPT !.pc = "over"]]
      /\ portrait' = [p \in Portraits |-> IF portrait[p] = "none" THEN "none" ELSE "over"]
      /\ editor' = [e \in Hands |-> Free]
      /\ UNCHANGED <<visual, imageJob, painted, creature, referenced>>
  BY DEF Die
<1>2. ASSUME NEW j \in ImageJobs
      PROVE  /\ runner'[j] \in RunnerRow
             /\ runner'[j].pc = IF runner[j].pc = "none" THEN "none" ELSE "over"
  <2>1. runner[j] \in RunnerRow  BY DEF AssetInv, JobsSound
  <2> QED  BY <1>1, <2>1 DEF RunnerRow
<1>3. JobsSound'
  <2>1. runner' \in [ImageJobs -> RunnerRow]
    <3>1. runner' = [j \in ImageJobs |-> runner'[j]]  BY <1>1
    <3> QED  BY <1>2, <3>1
  <2>2. ASSUME NEW j \in ImageJobs PROVE JobPaints(j)'
    BY <1>1, <1>2 DEF AssetInv, JobsSound, JobPaints
  <2> QED  BY <1>1, <2>1, <2>2 DEF AssetInv, JobsSound
<1>4. PortraitsSound'  BY <1>1 DEF AssetInv, PortraitsSound, PortraitPlaces
<1>5. EditorsSound'
  <2>1. \A e \in Hands : editor'[e].at = 0  BY <1>1, FreeTyped
  <2> QED  BY <1>1, <2>1, FreeTyped DEF EditorsSound, At, Records
<1> QED  BY <1>1, <1>3, <1>4, <1>5 DEF AssetInv

LEMMA AssetInvStep == AssetInv /\ [AssetsNext]_novelAssets => AssetInv'
<1> SUFFICES ASSUME AssetInv, [AssetsNext]_novelAssets PROVE AssetInv'
  OBVIOUS
<1>1. ASSUME NEW e \in Hands, Edit(e) PROVE AssetInv'
  BY <1>1, ReadsKeep, LooksKeep, SavesKeep, DeleteKeepsAssets, CastKeeps, RecordKeeps,
     StartKeeps
  DEF Edit
<1>2. CASE UNCHANGED novelAssets
  <2>1. UNCHANGED <<visual, creature, portrait, referenced, editor, painted>> /\ UNCHANGED jobRows
    BY <1>2 DEF novelAssets, castRows, jobRows
  <2>2. JobsSound'  BY <2>1, JobsRest
  <2>3. PortraitsSound'  BY <2>1 DEF AssetInv, PortraitsSound
  <2> QED  BY <2>1, <2>2, <2>3, GoroutineKeeps DEF AssetInv
<1> QED  BY <1>1, <1>2, RunnerKeeps, PortraitKeeps, PlansKeep, DieKeeps DEF AssetsNext

LEMMA AssetTypes == ASSUME AssetInv PROVE AssetsTypeOK
<1>1. painted \in [Painters -> 0..1]
  BY DEF AssetInv, JobsSound, PortraitsSound, Painters
<1> QED
  BY <1>1 DEF AssetInv, JobsSound, PortraitsSound, AssetsTypeOK, RunnerRow, PortraitPlaces, Painters

\* The rows of assets, jobs and portraits keep their types, and no job or portrait is
\* painted, and paid, twice, whatever handlers save and however often the process dies.
THEOREM AssetTypesAlways == AssetsSpec => []AssetsTypeOK
BY AssetTypes, InitAssetInv, AssetInvStep, PTL DEF AssetsSpec

\* A goroutine that finds its job cancelled does nothing, and whoever holds the job in
\* another status does not write a cancelled one.
LEMMA CancelledStays ==
    ASSUME AssetInv, NEW j \in ImageJobs, imageJob[j].status = "cancelled", [AssetsNext]_novelAssets
    PROVE  painted[j] = 0 /\ UNCHANGED <<imageJob[j], painted[j]>>
<1>0. painted[j] = 0 /\ runner[j].pc \in {"start", "over"} /\ imageJob \in [ImageJobs -> JobRow]
      /\ painted = [x \in Painters |-> painted[x]] /\ j \in Painters /\ j \notin Portraits
  BY NovelAssetConstants DEF AssetInv, JobsSound, JobPaints, Painters
<1> DEFINE Kept == imageJob'[j] = imageJob[j] /\ painted'[j] = painted[j]
<1>1. ASSUME UNCHANGED jobRows PROVE Kept  BY <1>1 DEF jobRows
<1>2. ASSUME NEW i \in Unstarted, NEW a, Enqueue(i, a) PROVE Kept
  <2>1. i # j  BY DEF Unstarted
  <2> QED  BY <1>0, <1>2, <2>1 DEF Enqueue
<1>3. ASSUME NEW e \in Hands, Edit(e) PROVE Kept
  <2>1. ASSUME DeleteAsset(e) PROVE Kept
    <3>1. j \notin Cancels(e)  BY DEF Cancels
    <3> QED  BY <2>1, <3>1 DEF DeleteAsset
  <2>2. ASSUME Draft(e) \/ Retry(e) PROVE Kept
    BY <1>1, <1>2, <2>2 DEF Draft, Retry
  <2>3. ASSUME \/ \E i \in Intents : LookForDraft(e, i)
               \/ \E op \in {"retry", "patch", "delete"} : ReadAsset(e, op)
               \/ \E op \in {"portrait", "creature", "actor"} : ReadCreature(e, op)
               \/ FindDuplicates(e) \/ CheckReference(e)
        PROVE  Kept
    BY <1>1, <2>3
    DEF LookForDraft, ReadAsset, ReadCreature, FindDuplicates, CheckReference, Begin
  <2>4. ASSUME FindJobs(e) \/ FindReferences(e) \/ SkipActive(e) \/ SkipReferenced(e) PROVE Kept
    BY <1>1, <2>4 DEF FindJobs, FindReferences, SkipActive, SkipReferenced, Continue
  <2>5. ASSUME \/ PatchAsset(e) \/ RemoveDuplicates(e) \/ Refer(e) \/ RecordPortrait(e)
               \/ StartPortrait(e) \/ PatchCreature(e) \/ PatchActor(e)
        PROVE  Kept
    BY <1>1, <2>5
    DEF PatchAsset, RemoveDuplicates, Refer, RecordPortrait, StartPortrait, PatchCreature,
       PatchActor
  <2> QED  BY <1>3, <2>1, <2>2, <2>3, <2>4, <2>5 DEF Edit
<1>4. ASSUME NEW i \in ImageJobs, ClaimImageJob(i) \/ LoadAsset(i) \/ MakeImage(i) \/ SaveImage(i)
      PROVE  Kept
  <2>1. CASE i = j
    <3>1. ClaimImageJob(j) /\ ~CanClaim(j)
      BY <1>0, <1>4, <2>1 DEF ClaimImageJob, CanClaim, LoadAsset, MakeImage, SaveImage
    <3> QED  BY <3>1 DEF ClaimImageJob
  <2>2. CASE i # j
    <3>1. imageJob' = imageJob \/ \E st \in {"running", "succeeded", "failed"} :
             imageJob' = [imageJob EXCEPT ![i].status = st]
      BY <1>4 DEF ClaimImageJob, LoadAsset, MakeImage, SaveImage
    <3>2. imageJob'[j] = imageJob[j]  BY <1>0, <2>2, <3>1
    <3>3. painted' = painted \/ painted' = [painted EXCEPT ![i] = painted[i] + 1]
      BY <1>4 DEF ClaimImageJob, LoadAsset, MakeImage, SaveImage
    <3>4. painted'[j] = painted[j]  BY <1>0, <2>2, <3>3
    <3> QED  BY <3>2, <3>4
  <2> QED  BY <2>1, <2>2
<1>5. ASSUME NEW p \in Portraits, MakePortrait(p) \/ ShowPortrait(p) PROVE Kept
  <2>1. imageJob' = imageJob /\ p # j /\ (painted' = painted \/ painted' = [painted EXCEPT ![p] = painted[p] + 1])
    BY <1>0, <1>5 DEF MakePortrait, ShowPortrait, jobRows
  <2> QED  BY <1>0, <2>1
<1>6. ASSUME LockSheet \/ Analyze \/ PlanImages \/ Die PROVE Kept
  BY <1>1, <1>6 DEF LockSheet, Analyze, PlanImages, Die, jobRows
<1>7. ASSUME UNCHANGED novelAssets PROVE Kept  BY <1>1, <1>7 DEF novelAssets
<1>8. Kept  BY <1>3, <1>4, <1>5, <1>6, <1>7 DEF AssetsNext
<1> QED  BY <1>0, <1>8

\* A job that was cancelled with its asset stays cancelled, paints nothing and costs
\* nothing, for any number of assets, jobs, handlers and deaths of the process.
THEOREM CancelledNeverPaints == AssetsSpec => CancelledJobNeverPaints
<1>1. ASSUME AssetInv, [AssetsNext]_novelAssets
      PROVE  [\A j \in ImageJobs : imageJob[j].status = "cancelled" =>
                 painted[j] = 0 /\ UNCHANGED <<imageJob[j], painted[j]>>]_novelAssets
  BY <1>1, CancelledStays
<1> QED  BY <1>1, InitAssetInv, AssetInvStep, PTL DEF AssetsSpec, CancelledJobNeverPaints
-----------------------------------------------------------------------------
(***************************************************************************)
(* All parts together: each is sound whichever of them runs.               *)
(***************************************************************************)

\* A version moves only with a change that is counted.
VersionsCounted == changes \in 0..MaxChanges /\ version \in [Products -> 0..changes]

LEMMA VersionsStep ==
    ASSUME VersionsCounted, [StudioNext]_commerceStudio
    PROVE  VersionsCounted'
<1> DEFINE Rest == UNCHANGED <<version, changes>>
           Count == Counted /\ (UNCHANGED version \/ \E p \in Products : Moved(p))
<1>1. ASSUME NEW s \in Skus, NEW st, CreateSKU(s, st) \/ PatchSKU(s, st) PROVE Count
  <2>1. ProductOf[s] \in Products  BY StudioAssumption
  <2> QED  BY <1>1, <2>1 DEF CreateSKU, PatchSKU
<1>2. ASSUME NEW p \in Products, ApplySKUMatrix(p) PROVE Count  BY <1>2 DEF ApplySKUMatrix
<1>3. ASSUME ClearDefault \/ SetPrice \/ (\E a \in Pictures : ChangePicture(a))
             \/ \E x \in Specs : PatchSpec(x)
      PROVE  Count
  BY <1>3 DEF ClearDefault, SetPrice, ChangePicture, PatchSpec
<1>4. ASSUME \/ (\E s \in Skus : Bootstrap(s)) \/ CreateProject
             \/ (\E d \in Editors : LoadPatch(d) \/ SavePatch(d))
             \/ BlockProject \/ RequestDeletion \/ FinalizeDeletion
      PROVE  Rest
  BY <1>4 DEF Bootstrap, CreateProject, LoadPatch, SavePatch, BlockProject, RequestDeletion,
     FinalizeDeletion
<1>5. ASSUME NEW x \in Specs,
             \/ (\E complete \in BOOLEAN : CreateManual(x, complete))
             \/ LoadConfirm(x) \/ AnalyzeProduct(x) \/ ClaimAnalysis(x) \/ RecoverAnalysis(x)
             \/ \E a \in Attempts : LoadAnalysis(x, a) \/ Report(x, a) \/ SettleAnalysis(x, a)
      PROVE  Rest
  BY <1>5 DEF CreateManual, LoadConfirm, AnalyzeProduct, ClaimAnalysis, RecoverAnalysis,
     LoadAnalysis, Report, SettleAnalysis
<1>6. ASSUME \/ SaveConfirm \/ FinishSubmit
             \/ \E q \in 1..MaxQuotes : \/ (\E r \in Requests : Estimate(q, r)) \/ ExpireQuote(q)
                                       \/ \E k \in SubmitKeys : BeginSubmit(k, q)
      PROVE  Rest
  BY <1>6 DEF SaveConfirm, FinishSubmit, Estimate, ExpireQuote, BeginSubmit
<1>7. ASSUME UNCHANGED commerceStudio PROVE Rest  BY <1>7 DEF commerceStudio
<1>8. Rest \/ Count
  BY <1>1, <1>2, <1>3, <1>4, <1>5, <1>6, <1>7 DEF StudioNext
<1>9. MaxChanges \in Nat  BY StudioAssumption
<1>10. CASE Rest  BY <1>10 DEF VersionsCounted
<1>11. CASE Count
  <2>1. changes' \in 0..MaxChanges /\ changes' = changes + 1  BY <1>9, <1>11 DEF VersionsCounted, Counted
  <2>2. CASE UNCHANGED version  BY <1>9, <2>1, <2>2 DEF VersionsCounted
  <2>3. ASSUME NEW p \in Products, Moved(p) PROVE VersionsCounted'
    <3>1. version[p] + 1 \in 0..changes'  BY <1>9, <2>1 DEF VersionsCounted
    <3>2. version \in [Products -> 0..changes']  BY <1>9, <2>1 DEF VersionsCounted
    <3>3. version' \in [Products -> 0..changes']  BY <2>3, <3>1, <3>2 DEF Moved
    <3> QED  BY <2>1, <3>3 DEF VersionsCounted
  <2> QED  BY <1>11, <2>2, <2>3
<1> QED  BY <1>8, <1>10, <1>11

PlatformInv == AInv /\ StudioInv /\ VersionsCounted /\ AssetInv /\ ReelInv /\ ShotInv

LEMMA StudioTypes == ASSUME StudioInv, VersionsCounted PROVE StudioTypeOK
<1>1. SkuTyped /\ ProjectTyped /\ SpecTyped /\ JobTyped /\ QuoteTyped
  BY DEF StudioInv, StudioTyped
<1>2. sku \in [Skus -> {"none", "active", "disabled", "other"}]  BY <1>1 DEF SkuTyped
<1>8. version \in [Products -> 0..MaxChanges]
  <2>1. MaxChanges \in Nat  BY StudioAssumption
  <2>2. 0..changes \subseteq 0..MaxChanges  BY <2>1 DEF VersionsCounted
  <2> QED  BY <2>2 DEF VersionsCounted
<1>3. project.st \in {"none", "active", "blocked", "leaving", "gone"}
  BY <1>1 DEF ProjectTyped, ProjectRow
<1>4. \A x \in Specs : spec[x].st \in {"none", "analyzing", "draft", "confirmed", "analysis_failed"}
  BY <1>1 DEF SpecTyped, SpecRow
<1>5. \A x \in Specs :
         job[x].st \in {"none", "queued", "retrying", "running", "succeeded", "failed", "canceled"}
  BY <1>1 DEF JobTyped, AnalysisRow
<1>6. \A q \in Quotes : quote[q].st \in {"none", "issued", "expired", "consumed"}
  BY <1>1 DEF QuoteTyped, QuoteRow
<1>7. \A k \in SubmitKeys : batch[k].st \in {"none", "queued"}
  BY <1>1 DEF QuoteTyped, BatchRow
<1> QED  BY <1>2, <1>3, <1>4, <1>5, <1>6, <1>7, <1>8 DEF StudioTypeOK, Quotes

LEMMA RenderTypes == ASSUME ReelInv PROVE RenderTypeOK
BY DEF ReelInv, ShotsTyped, ReelTyped, RenderTypeOK, TakeStates

LEMMA PlatformInvStep == PlatformInv /\ [MCNext]_<<part, business, creation>> => PlatformInv'
<1> SUFFICES ASSUME PlatformInv, [MCNext]_<<part, business, creation>> PROVE PlatformInv'
  OBVIOUS
<1>1. /\ [AccountsNext]_accounts /\ [StudioNext]_commerceStudio
      /\ [AssetsNext]_novelAssets /\ [RenderNext]_novelRender /\ [ImagesNext]_novelImages
  BY DEF MCNext, business, creation
<1> QED
  BY <1>1, AInvStep, StudioInvStep, VersionsStep, AssetInvStep, ReelInvStep, ShotInvStep DEF PlatformInv

\* The rows of accounts, of the studio, and of the assets, renders and candidates of a
\* novel keep their types whichever part of the platform runs: no count of uses, videos
\* or credits leaves its range.
THEOREM PlatformTypesAlways == MCSpec => []PlatformTypesOK
<1>0. StudioInit => VersionsCounted  BY StudioAssumption DEF StudioInit, VersionsCounted
<1>1. MCInit => PlatformInv
  BY <1>0, InitAInv, InitStudioInv, InitAssetInv, InitReelInv, InitShotInv DEF MCInit, PlatformInv
<1>2. PlatformInv => PlatformTypesOK
  BY AccountTypes, StudioTypes, AssetTypes, RenderTypes
  DEF PlatformInv, ShotInv, PlatformTypesOK
<1> QED  BY <1>1, <1>2, PlatformInvStep, PTL DEF MCSpec
===============================================================================
