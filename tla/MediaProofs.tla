------------------------------ MODULE MediaProofs ------------------------------
(***************************************************************************)
(* Theorems about what makes pictures, videos and the messages about them: *)
(* the planning assistant, the calls of a generation over the channels of  *)
(* the providers, the tasks of videos, the protocols of their providers    *)
(* and the albums of couples.  The modules share no state, and each part   *)
(* stands alone; the last theorem takes those that MCVideoTasks runs       *)
(* together, with the model centre.                                        *)
(***************************************************************************)
EXTENDS MCVideoTasks, CenterProofs, CoupleAlbums, ImageFailover

-----------------------------------------------------------------------------
(***************************************************************************)
(* The planning assistant.  A key is put to the assistant by whoever       *)
(* inserts its message, and the index lets one do so.                      *)
(***************************************************************************)

AskedWithRow ==
    \A k \in Keys : asked[k] = IF message[k].status = "none" THEN 0 ELSE 1

\* A handler that has inserted its message finds it as it was.
KnowsItsMessage(c) ==
    LET k == call[c].key
    IN  /\ call[c].pc \in {"asking", "saving", "marking", "created"} =>
              message[k].status # "none" /\ message[k].content = call[c].content
        /\ call[c].pc = "marking" => k \in replies

RepliedWhenAnswered == \A k \in Keys : message[k].status = "answered" => k \in replies

MessageInv ==
    /\ ConversationTypeOK /\ AskedWithRow /\ RepliedWhenAnswered
    /\ \A c \in Calls : KnowsItsMessage(c)

LEMMA InitMessageInv == ConversationInit => MessageInv
BY ConversationConstants
   DEF ConversationInit, MessageInv, ConversationTypeOK, AskedWithRow, RepliedWhenAnswered,
       KnowsItsMessage, NoMessage, Idle, Answers

\* What the writes of a status and of a call change, and what they leave.
LEMMA StatusWritten ==
  ASSUME ConversationTypeOK, NEW k \in Keys, NEW s \in {"failed", "answered"}, Status(k, s)
  PROVE  /\ message' \in [Keys -> [status : {"none", "pending", "failed", "answered"},
                                   content : Contents \cup {NoContent}]]
         /\ message'[k].status = s /\ message'[k].content = message[k].content
         /\ \A x \in Keys \ {k} : message'[x] = message[x]
BY DEF Status, ConversationTypeOK

LEMMA CallMoves ==
  ASSUME ConversationTypeOK, NEW c \in Calls,
         NEW s \in Answers \cup {"idle", "fresh", "counted", "asking", "saving", "marking"},
         Becomes(c, s)
  PROVE  /\ call' \in [Calls -> [pc : Answers \cup {"idle", "fresh", "counted", "asking", "saving",
                                                    "marking"},
                                 key : Keys, content : Contents \cup {NoContent}]]
         /\ call'[c].pc = s /\ call'[c].key = call[c].key /\ call'[c].content = call[c].content
         /\ \A d \in Calls \ {c} : call'[d] = call[d]
BY DEF Becomes, ConversationTypeOK

LEMMA MessageInvStep ==
  ASSUME MessageInv, [ConversationNext]_conversation  PROVE MessageInv'
<1> USE ConversationConstants DEF MessageInv, ConversationTypeOK
<1>1. CASE UNCHANGED conversation
  BY <1>1 DEF conversation, AskedWithRow, RepliedWhenAnswered, KnowsItsMessage
<1>2. CASE MinutePasses \/ Rename
  BY <1>2 DEF MinutePasses, Rename, AskedWithRow, RepliedWhenAnswered, KnowsItsMessage
<1>3. ASSUME NEW c \in Calls, Call(c)  PROVE MessageInv'
  <2>1. ASSUME NEW k \in Keys, NEW text \in Contents, Look(c, k, text)  PROVE MessageInv'
    <3>1. PICK s \in {"fresh", "conflict", "replayed"} :
             call' = [call EXCEPT ![c] = [pc |-> s, key |-> k, content |-> text]]
      BY <2>1 DEF Look, Found
    <3> QED  BY <2>1, <3>1 DEF Look, AskedWithRow, RepliedWhenAnswered, KnowsItsMessage, Answers
  <2>2. CASE CountMinute(c)
    <3>1. /\ UNCHANGED <<message, replies, asked, minute>>
          /\ \E s \in {"counted", "limited"} : Becomes(c, s)
      BY <2>2 DEF CountMinute
    <3>2. ConversationTypeOK'  BY <3>1, CallMoves DEF Answers
    <3>3. ASSUME NEW d \in Calls  PROVE KnowsItsMessage(d)'
      <4>1. /\ call'[d].key = call[d].key /\ call'[d].content = call[d].content
            /\ call'[d].pc \in {"counted", "limited"} \/ call'[d] = call[d]
        BY <3>1, CallMoves DEF Answers
      <4> QED  BY <3>1, <4>1 DEF KnowsItsMessage
    <3> QED  BY <3>1, <3>2, <3>3 DEF AskedWithRow, RepliedWhenAnswered
  <2>3. CASE Insert(c)
    <3> PICK k \in Keys : k = call[c].key  OBVIOUS
    <3>1. CASE ~Vacant(k)
      <4>1. Becomes(c, "lost") /\ UNCHANGED <<message, replies, asked, minute>>
        BY <2>3, <3>1 DEF Insert
      <4> QED
        BY <4>1, CallMoves DEF Answers, AskedWithRow, RepliedWhenAnswered, KnowsItsMessage
    <3>2. CASE Vacant(k)
      <4>1. /\ message' = [message EXCEPT ![k] = [status |-> "pending", content |-> call[c].content]]
            /\ minute' = minute + 1 /\ asked' = [asked EXCEPT ![k] = @ + 1]
            /\ Becomes(c, "asking") /\ replies' = replies
        BY <2>3, <3>2 DEF Insert
      <4>2. message[k].status = "none" /\ asked[k] = 0  BY <3>2 DEF Vacant, AskedWithRow
      <4>3. ConversationTypeOK'  BY <4>1, CallMoves DEF Answers
      <4>4. AskedWithRow'  BY <4>1, <4>2 DEF AskedWithRow
      <4>5. RepliedWhenAnswered'  BY <4>1 DEF RepliedWhenAnswered
      <4>6. ASSUME NEW d \in Calls  PROVE KnowsItsMessage(d)'
        <5>1. CASE d = c  BY <4>1, <5>1, CallMoves DEF KnowsItsMessage
        <5>2. CASE d # c  BY <4>1, <4>2, <5>2, CallMoves DEF KnowsItsMessage
        <5> QED  BY <5>1, <5>2
      <4> QED  BY <4>3, <4>4, <4>5, <4>6
    <3> QED  BY <3>1, <3>2
  <2>4. CASE Ask(c)
    <3> PICK k \in Keys : k = call[c].key  OBVIOUS
    <3>1. CASE Becomes(c, "saving") /\ UNCHANGED message
      BY <2>4, <3>1, CallMoves DEF Ask, AskedWithRow, RepliedWhenAnswered, KnowsItsMessage
    <3>2. CASE Becomes(c, "unavailable") /\ Status(k, "failed")
      <4>1. message[k].status # "none"  BY <2>4 DEF Ask, KnowsItsMessage
      <4>2. UNCHANGED <<replies, asked, minute>>  BY <2>4 DEF Ask
      <4>3. ConversationTypeOK'  BY <3>2, <4>2, CallMoves, StatusWritten DEF Answers
      <4>4. AskedWithRow'  BY <3>2, <4>1, <4>2, StatusWritten DEF AskedWithRow
      <4>5. RepliedWhenAnswered'  BY <3>2, <4>2, StatusWritten DEF RepliedWhenAnswered
      <4>6. ASSUME NEW d \in Calls  PROVE KnowsItsMessage(d)'
        <5>1. CASE d = c
          BY <3>2, <5>1, CallMoves DEF Answers, KnowsItsMessage
        <5>2. CASE d # c
          <6>1. call'[d] = call[d]  BY <3>2, <5>2, CallMoves DEF Answers
          <6> QED  BY <3>2, <4>2, <6>1, StatusWritten DEF KnowsItsMessage
        <5> QED  BY <5>1, <5>2
      <4> QED  BY <4>3, <4>4, <4>5, <4>6
    <3> QED  BY <2>4, <3>1, <3>2 DEF Ask
  <2>5. CASE SaveReply(c)
    <3>1. CASE ReplyFits
      <4>1. /\ Becomes(c, "marking") /\ UNCHANGED <<message, asked, minute>>
            /\ replies' = replies \cup {call[c].key}
        BY <2>5, <3>1 DEF SaveReply
      <4>2. call[c].pc = "saving"  BY <2>5 DEF SaveReply
      <4>3. ConversationTypeOK'  BY <4>1, CallMoves
      <4>4. AskedWithRow' /\ RepliedWhenAnswered'  BY <4>1 DEF AskedWithRow, RepliedWhenAnswered
      <4>5. ASSUME NEW d \in Calls  PROVE KnowsItsMessage(d)'
        <5>1. CASE d = c  BY <4>1, <4>2, <5>1, CallMoves DEF KnowsItsMessage
        <5>2. CASE d # c
          <6>1. call'[d] = call[d]  BY <4>1, <5>2, CallMoves
          <6> QED  BY <4>1, <6>1 DEF KnowsItsMessage
        <5> QED  BY <5>1, <5>2
      <4> QED  BY <4>3, <4>4, <4>5
    <3>2. CASE ~ReplyFits
      <4>1. Becomes(c, "lost") /\ UNCHANGED <<message, asked, minute, replies>>
        BY <2>5, <3>2 DEF SaveReply
      <4>2. ConversationTypeOK'  BY <4>1, CallMoves DEF Answers
      <4>3. AskedWithRow' /\ RepliedWhenAnswered'  BY <4>1 DEF AskedWithRow, RepliedWhenAnswered
      <4>4. ASSUME NEW d \in Calls  PROVE KnowsItsMessage(d)'
        BY <4>1, CallMoves DEF Answers, KnowsItsMessage
      <4> QED  BY <4>2, <4>3, <4>4
    <3> QED  BY <3>1, <3>2
  <2>6. CASE MarkAnswered(c)
    <3> PICK k \in Keys : k = call[c].key  OBVIOUS
    <3>1. /\ call[c].pc = "marking" /\ Status(k, "answered") /\ Becomes(c, "created")
          /\ UNCHANGED <<replies, asked, minute>>
      BY <2>6 DEF MarkAnswered
    <3>2. message[k].status # "none" /\ k \in replies  BY <3>1 DEF KnowsItsMessage
    <3>3. ConversationTypeOK'  BY <3>1, CallMoves, StatusWritten DEF Answers
    <3>4. AskedWithRow'  BY <3>1, <3>2, StatusWritten DEF AskedWithRow
    <3>5. RepliedWhenAnswered'  BY <3>1, <3>2, StatusWritten DEF RepliedWhenAnswered
    <3>6. ASSUME NEW d \in Calls  PROVE KnowsItsMessage(d)'
      <4>1. CASE d = c
        BY <3>1, <3>2, <4>1, CallMoves, StatusWritten DEF Answers, KnowsItsMessage
      <4>2. CASE d # c
        <5>1. call'[d] = call[d]  BY <3>1, <4>2, CallMoves DEF Answers
        <5> QED  BY SMTT(40), <3>1, <5>1, StatusWritten DEF KnowsItsMessage
      <4> QED  BY <4>1, <4>2
    <3> QED  BY <3>3, <3>4, <3>5, <3>6
  <2>7. CASE CallFails(c)
    <3>1. /\ UNCHANGED <<message, replies, asked, minute>>
          /\ call[c].pc \in {"fresh", "counted", "asking", "saving", "marking"}
      BY <2>7 DEF CallFails
    <3>2. PICK s \in {"lost", "unavailable", "created"} :
             Becomes(c, s) /\ (s = "created" => call[c].pc = "marking")
      BY <2>7 DEF CallFails, WithoutWrite
    <3>3. ConversationTypeOK'  BY <3>1, <3>2, CallMoves DEF Answers
    <3>4. ASSUME NEW d \in Calls  PROVE KnowsItsMessage(d)'
      <4>1. /\ call'[d].key = call[d].key /\ call'[d].content = call[d].content
            /\ call'[d].pc \in {"asking", "saving", "marking"} => call'[d] = call[d]
            /\ call'[d].pc = "created" => call[d].pc \in {"created", "marking"}
        BY <3>2, CallMoves DEF Answers
      <4> QED  BY <3>1, <4>1 DEF KnowsItsMessage
    <3> QED  BY <3>1, <3>3, <3>4 DEF AskedWithRow, RepliedWhenAnswered
  <2> QED  BY <1>3, <2>1, <2>2, <2>3, <2>4, <2>5, <2>6, <2>7 DEF Call
<1> QED  BY <1>1, <1>2, <1>3 DEF ConversationNext

\* However its calls are repeated and overlap, a message is put to the assistant once
\* and with one content, and an answered message has its reply.
THEOREM MessagesAskedOnce == ConversationSpec => []AskedOnce
<1>1. MessageInv => AskedOnce
  BY DEF MessageInv, ConversationTypeOK, AskedWithRow, RepliedWhenAnswered, KnowsItsMessage,
         AskedOnce
<1> QED  BY <1>1, InitMessageInv, MessageInvStep, PTL DEF ConversationSpec
-----------------------------------------------------------------------------
(***************************************************************************)
(* The calls of a generation over the channels.  What a generation may do  *)
(* next is in its own row; only the health of channels and the spool are   *)
(* shared.                                                                 *)
(***************************************************************************)

Places == {"new", "start", "call", "read", "fetch", "spool", "write", "settle", "mark", "weigh",
           "cool", "end"}

Results == {"none", "failed", "error", "done", "kept", "waits", "unknown"}

ShotRows(api, seq) ==
    [at : Places, centre : BOOLEAN, held : BOOLEAN, api : {api}, order : {seq}, n : Nat,
     tries : 0..PerChannel, made : 0..CallLimit, fetches : 0..FetchLimit,
     kind : FailureKinds \cup {"none", "ok"}, unclear : BOOLEAN, dead : BOOLEAN, result : Results]

ShotRow(x) == x \in ShotRows(x.api, x.order)

\* A row whose outcome is unclear stands where the failure is weighed, and its channel
\* takes no key; a row that failed had no channel or no call left.
ShotSound(x) ==
    /\ ShotRow(x)
    /\ x.at # "end" => x.result = "none"
    /\ x.at = "start" => x.tries < PerChannel
    /\ x.fetches < FetchLimit
    /\ x.at = "settle" => x.kind \in FailureKinds \cup {"ok"}
    /\ x.unclear => /\ x.at = "settle" /\ x.kind \in Unclear /\ x.held
                    /\ ~(x.centre /\ x.order[x.n] \in Keyed)
    /\ x.result = "failed" /\ x.kind # "refused" =>
          x.made = CallLimit \/ x.n = Cardinality(Channels)

ShotsSound == shot = [s \in Shots |-> shot[s]] /\ \A s \in Shots : ShotSound(shot[s])

HealthTyped ==
    health \in [Channels -> [fails : 0..MaxFails, cooling : BOOLEAN, late : BOOLEAN]]

\* Who has measured the spool will add a file to it.
Writers == {s \in Shots : shot[s].at = "write"}
SpoolTyped == spool \in Nat /\ spool + Cardinality(Writers) <= SpoolMax + Cardinality(Shots) - 1

\* The row of a generation is rewritten to one that is sound.
Rewritten(s) ==
    \E x : ShotSound(x) /\ shot' = [shot EXCEPT ![s] = x]

\* A row is typed when it is for some interface and some order of channels.
LEMMA RowOf ==
  ASSUME NEW api, NEW seq, NEW x \in ShotRows(api, seq)  PROVE ShotRow(x)
BY DEF ShotRow, ShotRows

LEMMA NoShotRow ==
  /\ NoShot \in ShotRows("none", <<>>)
  /\ NoShot.n = 0 /\ NoShot.made = 0 /\ NoShot.kind = "none" /\ NoShot.unclear = FALSE
  /\ NoShot.result = "none" /\ NoShot.at = "new" /\ NoShot.tries = 0
  /\ NoShot.fetches = 0 /\ 0 < FetchLimit
BY FailoverConstants DEF NoShot, ShotRows, Places, Results, PerChannel

LEMMA RewrittenKeeps ==
  ASSUME ShotsSound, NEW s \in Shots, Rewritten(s)  PROVE ShotsSound'
<1> PICK x : ShotSound(x) /\ shot' = [shot EXCEPT ![s] = x]  BY DEF Rewritten
<1>1. shot' = [t \in Shots |-> shot'[t]] /\ shot'[s] = x
      /\ \A t \in Shots \ {s} : shot'[t] = shot[t]
  BY DEF ShotsSound
<1>2. ASSUME NEW t \in Shots  PROVE ShotSound(shot'[t])
  BY <1>1 DEF ShotsSound
<1>3. ASSUME NEW t \in Shots  PROVE ShotSound(shot[t])'
  BY <1>2 DEF ShotSound, ShotRow, ShotRows
<1> QED  BY <1>1, <1>3 DEF ShotsSound
LEMMA InitShots == FailoverInit => ShotsSound /\ HealthTyped /\ SpoolTyped
<1> SUFFICES ASSUME FailoverInit  PROVE ShotsSound /\ HealthTyped /\ SpoolTyped
  OBVIOUS
<1>1. ShotsSound
  BY NoShotRow, RowOf DEF FailoverInit, ShotsSound, ShotSound
<1>2. HealthTyped  BY FailoverConstants DEF FailoverInit, HealthTyped
<1>3. Cardinality(Writers) = 0
  BY FS_EmptySet DEF FailoverInit, NoShot, Writers
<1>4. Cardinality(Shots) \in Nat
  BY FailoverConstants, FS_CardinalityType, FS_EmptySet
<1>5. SpoolTyped  BY <1>3, <1>4, FailoverConstants DEF FailoverInit, SpoolTyped
<1> QED  BY <1>1, <1>2, <1>5

\* How a call ends and how a generation ends.
LEMMA CallEndsKeeps ==
  ASSUME ShotsSound, NEW s \in Shots, NEW kind \in FailureKinds \cup {"ok"},
         shot[s].at \notin {"settle", "end"}, CallEnds(s, kind)
  PROVE  Rewritten(s) /\ shot'[s].at = "settle"
<1> DEFINE x == shot[s]
           new == [x EXCEPT !.at = "settle", !.kind = kind, !.api = "none", !.fetches = 0,
                            !.unclear = @ \/ (x.held /\ kind \in Unclear /\ ~KeyHolds(s))]
<1>1. ShotSound(x)  BY DEF ShotsSound
<1>2. shot' = [shot EXCEPT ![s] = new]  BY DEF CallEnds, ShotStep
<1>3. ~x.unclear /\ x.result = "none"  BY <1>1 DEF ShotSound
<1>4. new.at = "settle" /\ new.kind = kind /\ new.held = x.held /\ new.centre = x.centre
      /\ new.order = x.order /\ new.n = x.n /\ new.result = x.result /\ new.api = "none"
      /\ new.fetches = 0 /\ 0 < FetchLimit
      /\ new.unclear = (x.held /\ kind \in Unclear /\ ~KeyHolds(s))
  BY <1>1, <1>3, FailoverConstants DEF ShotSound, ShotRow, ShotRows
<1>5. ShotRow(new)
  <2>1. new \in ShotRows("none", x.order)
    <3>1. (x.held /\ kind \in Unclear /\ ~KeyHolds(s)) \in BOOLEAN  OBVIOUS
    <3>2. 0 \in 0..FetchLimit  BY FailoverConstants
    <3>3. ShotRow(x)  BY <1>1 DEF ShotSound
    <3> QED  BY <1>3, <3>1, <3>2, <3>3 DEF ShotRow, ShotRows, Places
  <2> HIDE DEF new
  <2> QED  BY <2>1, RowOf
<1>6. KeyHolds(s) <=> x.centre /\ x.order[x.n] \in Keyed  BY DEF KeyHolds, ChannelOfShot
<1> HIDE DEF new, x
<1>7. ShotSound(new)
  BY <1>3, <1>4, <1>5, <1>6 DEF ShotSound
<1>8. shot'[s] = new  BY <1>2 DEF ShotsSound
<1> QED  BY <1>2, <1>4, <1>7, <1>8 DEF Rewritten

LEMMA EndShotKeeps ==
  ASSUME ShotsSound, NEW s \in Shots, NEW result \in {"failed", "error", "done", "waits", "unknown"},
         result = "failed" => \/ shot[s].kind = "refused" \/ shot[s].made = CallLimit
                              \/ shot[s].n = Cardinality(Channels),
         EndShot(s, result)
  PROVE  Rewritten(s) /\ shot'[s].at = "end"
<1>1. ShotSound(shot[s])  BY DEF ShotsSound
<1>2. CASE result = "failed"
  <2> DEFINE new == [NoShot EXCEPT !.at = "end", !.result = "failed", !.kind = shot[s].kind,
                                   !.n = shot[s].n, !.made = shot[s].made]
  <2>1. shot' = [shot EXCEPT ![s] = new]  BY <1>2 DEF EndShot, ShotStep
  <2>2. /\ shot[s].n \in Nat /\ shot[s].made \in 0..CallLimit
        /\ shot[s].kind \in FailureKinds \cup {"none", "ok"}
    BY <1>1 DEF ShotSound, ShotRow, ShotRows
  <2>3. /\ new \in ShotRows("none", <<>>)
        /\ new.n = shot[s].n /\ new.made = shot[s].made /\ new.kind = shot[s].kind
        /\ new.unclear = FALSE /\ new.result = "failed" /\ new.at = "end" /\ new.fetches < FetchLimit
    BY <2>2, NoShotRow DEF ShotRows, Places, Results
  <2>4. ShotSound(new) /\ new.at = "end"
    <3> HIDE DEF new
    <3> QED  BY <1>2, <2>3, RowOf DEF ShotSound
  <2>5. shot'[s] = new  BY <2>1 DEF ShotsSound
  <2> QED  BY <2>1, <2>4, <2>5 DEF Rewritten
<1>3. CASE result # "failed"
  <2> DEFINE new == [NoShot EXCEPT !.at = "end", !.result = result]
  <2>1. shot' = [shot EXCEPT ![s] = new]  BY <1>3 DEF EndShot, ShotStep
  <2>2. /\ new \in ShotRows("none", <<>>)
        /\ new.unclear = FALSE /\ new.result = result /\ new.at = "end" /\ new.fetches < FetchLimit
    BY NoShotRow DEF ShotRows, Places, Results
  <2>3. ShotSound(new) /\ new.at = "end"
    <3> HIDE DEF new
    <3> QED  BY <1>3, <2>2, RowOf DEF ShotSound
  <2>4. shot'[s] = new  BY <2>1 DEF ShotsSound
  <2> QED  BY <2>1, <2>3, <2>4 DEF Rewritten
<1> QED  BY <1>2, <1>3

LEMMA TryNextKeeps ==
  ASSUME ShotsSound, NEW s \in Shots, shot[s].at \notin {"end", "write"}, TryNext(s),
         ~shot[s].unclear
  PROVE  Rewritten(s) /\ shot'[s].at # "write"
<1>1. CASE shot[s].n = Cardinality(Channels)
  BY <1>1, EndShotKeeps DEF TryNext
<1>2. CASE shot[s].n # Cardinality(Channels)
  <2> DEFINE new == [shot[s] EXCEPT !.at = "start", !.n = @ + 1, !.tries = 0, !.kind = "none"]
  <2>1. shot' = [shot EXCEPT ![s] = new]  BY <1>2 DEF TryNext, ShotStep
  <2>2. ShotSound(shot[s])  BY DEF ShotsSound
  <2>3. /\ new.at = "start" /\ new.n = shot[s].n + 1 /\ new.tries = 0 /\ new.kind = "none"
        /\ new.result = "none" /\ new.unclear = FALSE /\ new.fetches < FetchLimit
    BY <2>2 DEF ShotSound, ShotRow, ShotRows
  <2>4. ShotRow(new)
    <3>1. shot[s] \in ShotRows(shot[s].api, shot[s].order)
      BY <2>2 DEF ShotSound, ShotRow, ShotRows
    <3>2. shot[s].n + 1 \in Nat /\ 0 \in 0..PerChannel  BY <3>1 DEF ShotRows, PerChannel
    <3>3. new \in ShotRows(shot[s].api, shot[s].order)  BY <3>1, <3>2 DEF ShotRows, Places
    <3> HIDE DEF new
    <3> QED  BY <3>3, RowOf
  <2>5. ShotSound(new)
    <3> HIDE DEF new
    <3> QED  BY <2>3, <2>4 DEF ShotSound, PerChannel
  <2>6. shot'[s] = new  BY <2>1 DEF ShotsSound
  <2> QED  BY <2>1, <2>3, <2>5, <2>6 DEF Rewritten
<1> QED  BY <1>1, <1>2
\* What a step of a generation does to its row: it stays sound, and nobody is about to
\* write a file who was not.
Moved(s) == Rewritten(s) /\ (shot'[s].at = "write" => shot[s].at = "write")

LEMMA MovesTo ==
  ASSUME ShotsSound, NEW s \in Shots, NEW x, ShotSound(x), shot' = [shot EXCEPT ![s] = x],
         x.at = "write" => shot[s].at = "write"
  PROVE  Moved(s)
<1>1. shot'[s] = x  BY DEF ShotsSound
<1> QED  BY <1>1 DEF Moved, Rewritten

LEMMA BeginMoves ==
  ASSUME ShotsSound, NEW s \in Shots, BeginShot(s)  PROVE Moved(s)
<1> PICK o \in ChannelOrders, centre \in BOOLEAN, held \in BOOLEAN :
      ShotStep(s, [NoShot EXCEPT !.at = "start", !.centre = centre, !.held = held, !.n = 1,
                                 !.order = IF centre THEN CooledLast(o) ELSE o])
  BY DEF BeginShot
<1> DEFINE seq == IF centre THEN CooledLast(o) ELSE o
           new == [NoShot EXCEPT !.at = "start", !.centre = centre, !.held = held, !.n = 1,
                                 !.order = seq]
<1>1. shot' = [shot EXCEPT ![s] = new]  BY DEF ShotStep
<1> HIDE DEF seq
<1>2. /\ new \in ShotRows("none", seq) /\ new.at = "start"
      /\ new.result = "none" /\ new.unclear = FALSE /\ new.tries = 0 /\ new.fetches < FetchLimit
  BY NoShotRow DEF ShotRows, Places
<1> HIDE DEF new
<1>3. ShotSound(new)  BY <1>2, RowOf DEF ShotSound, PerChannel
<1> QED  BY <1>1, <1>2, <1>3, MovesTo

LEMMA ExpiresMoves ==
  ASSUME ShotsSound, NEW s \in Shots, ShotExpires(s)  PROVE Moved(s)
<1> DEFINE x == shot[s]
           new == [x EXCEPT !.dead = TRUE]
<1>1. ShotSound(x)  BY DEF ShotsSound
<1>2. shot' = [shot EXCEPT ![s] = new]  BY DEF ShotExpires, ShotStep
<1>3. x \in ShotRows(x.api, x.order)  BY <1>1 DEF ShotSound, ShotRow
<1> HIDE DEF x
<1>4. /\ new \in ShotRows(x.api, x.order) /\ new.at = x.at /\ new.result = x.result
      /\ new.tries = x.tries /\ new.fetches = x.fetches /\ new.kind = x.kind
      /\ new.unclear = x.unclear /\ new.held = x.held /\ new.centre = x.centre
      /\ new.order = x.order /\ new.n = x.n /\ new.made = x.made
  BY <1>3 DEF ShotRows
<1> HIDE DEF new
<1>5. ShotSound(new)  BY <1>1, <1>4, RowOf DEF ShotSound
<1> QED  BY <1>2, <1>4, <1>5, MovesTo DEF x

\* A step that leaves the place of weighing alone: where the row goes and what it counts.
LEMMA StepMoves ==
  ASSUME ShotsSound, NEW s \in Shots, NEW x, NEW api, NEW seq,
         shot' = [shot EXCEPT ![s] = x], x \in ShotRows(api, seq),
         x.at \in Places \ {"end", "settle"}, x.result = "none", ~x.unclear,
         x.at = "start" => x.tries < PerChannel,
         x.fetches < FetchLimit,
         x.at = "write" => shot[s].at = "write"
  PROVE  Moved(s)
<1>1. ShotSound(x)  BY RowOf DEF ShotSound
<1> QED  BY <1>1, MovesTo

LEMMA RowAt ==
  ASSUME ShotsSound, NEW s \in Shots
  PROVE  /\ shot[s] \in ShotRows(shot[s].api, shot[s].order)
         /\ shot[s].at \notin {"end", "settle"} => shot[s].result = "none" /\ ~shot[s].unclear
         /\ shot[s].at = "settle" => shot[s].result = "none"
         /\ shot[s].at = "start" => shot[s].tries < PerChannel
         /\ shot[s].fetches < FetchLimit
BY DEF ShotsSound, ShotSound, ShotRow

LEMMA StartMoves ==
  ASSUME ShotsSound, NEW s \in Shots, StartAttempt(s)  PROVE Moved(s)
<1>1. CASE shot[s].made >= CallLimit
  <2>1. shot[s].made = CallLimit
    BY <1>1, RowAt, FailoverConstants DEF ShotRows
  <2> QED  BY <1>1, <2>1, EndShotKeeps DEF StartAttempt, Moved
<1>2. CASE ~(shot[s].made >= CallLimit) /\ shot[s].dead
  BY <1>2, EndShotKeeps DEF StartAttempt, Moved
<1>3. CASE ~(shot[s].made >= CallLimit) /\ ~shot[s].dead
  <2> DEFINE x == shot[s]
             new == [x EXCEPT !.at = "call", !.tries = @ + 1, !.made = @ + 1]
  <2>1. shot' = [shot EXCEPT ![s] = new] /\ x.at = "start"
    BY <1>3 DEF StartAttempt, ShotStep, ShotAt
  <2>2. x \in ShotRows(x.api, x.order) /\ x.result = "none" /\ ~x.unclear /\ x.tries < PerChannel
        /\ x.fetches < FetchLimit
        /\ ~(x.made >= CallLimit)
    BY <1>3, <2>1, RowAt
  <2> HIDE DEF x
  <2>3. x.tries + 1 \in 0..PerChannel /\ x.made + 1 \in 0..CallLimit
    BY <2>2, FailoverConstants DEF ShotRows, PerChannel
  <2>4. /\ new \in ShotRows(x.api, x.order) /\ new.at = "call" /\ new.result = "none"
        /\ new.unclear = x.unclear /\ new.fetches = x.fetches
    BY <2>2, <2>3 DEF ShotRows, Places
  <2> HIDE DEF new
  <2> QED  BY <2>1, <2>2, <2>4, StepMoves DEF Places
<1> QED  BY <1>1, <1>2, <1>3

LEMMA SendMoves ==
  ASSUME ShotsSound, NEW s \in Shots, SendRequest(s)  PROVE Moved(s)
<1>1. ASSUME NEW kind \in FailureKinds, CallEnds(s, kind)  PROVE Moved(s)
  BY <1>1, CallEndsKeeps DEF SendRequest, ShotAt, Moved
<1>2. ASSUME NEW api \in Interfaces, ShotStep(s, [shot[s] EXCEPT !.at = "read", !.api = api])
      PROVE Moved(s)
  <2> DEFINE x == shot[s]
             new == [x EXCEPT !.at = "read", !.api = api]
  <2>1. shot' = [shot EXCEPT ![s] = new] /\ x.at = "call"
    BY <1>2 DEF SendRequest, ShotStep, ShotAt
  <2>2. /\ x \in ShotRows(x.api, x.order) /\ x.result = "none" /\ ~x.unclear
        /\ x.fetches < FetchLimit
    BY <2>1, RowAt
  <2> HIDE DEF x
  <2>3. /\ new \in ShotRows(api, x.order) /\ new.at = "read" /\ new.result = "none"
        /\ new.unclear = x.unclear /\ new.fetches = x.fetches
    BY <2>2 DEF ShotRows, Places
  <2> HIDE DEF new
  <2> QED  BY <2>1, <2>2, <2>3, StepMoves DEF Places
<1> QED  BY <1>1, <1>2 DEF SendRequest, FailureKinds
\* A row that only goes to another place, with at most another kind.
LEMMA GoesTo ==
  ASSUME ShotsSound, NEW s \in Shots, NEW p \in Places \ {"start", "end", "settle", "write"},
         ~shot[s].unclear, shot[s].result = "none",
         \/ ShotStep(s, [shot[s] EXCEPT !.at = p])
         \/ ShotStep(s, [shot[s] EXCEPT !.at = p, !.kind = "none"])
  PROVE  Moved(s)
<1> DEFINE x == shot[s]
<1>1. x \in ShotRows(x.api, x.order) /\ x.fetches < FetchLimit  BY RowAt
<1>2. ASSUME NEW kind \in FailureKinds \cup {"none", "ok"},
             ShotStep(s, [x EXCEPT !.at = p, !.kind = kind])
      PROVE  Moved(s)
  <2> DEFINE new == [x EXCEPT !.at = p, !.kind = kind]
  <2>1. shot' = [shot EXCEPT ![s] = new]  BY <1>2 DEF ShotStep
  <2>2. x.result = "none" /\ ~x.unclear  OBVIOUS
  <2> HIDE DEF x
  <2>3. /\ new \in ShotRows(x.api, x.order) /\ new.at = p /\ new.result = "none"
        /\ new.unclear = x.unclear /\ new.fetches = x.fetches
    BY <1>1, <2>2 DEF ShotRows
  <2> HIDE DEF new
  <2> QED  BY <1>1, <2>1, <2>2, <2>3, StepMoves
<1>3. [x EXCEPT !.at = p] = [x EXCEPT !.at = p, !.kind = x.kind]
  BY <1>1 DEF ShotRows
<1>4. x.kind \in FailureKinds \cup {"none", "ok"}  BY <1>1 DEF ShotRows
<1> QED  BY <1>2, <1>3, <1>4

LEMMA ReadMoves ==
  ASSUME ShotsSound, NEW s \in Shots, ReadAnswer(s)  PROVE Moved(s)
<1>1. shot[s].at = "read" /\ ~shot[s].unclear /\ shot[s].result = "none"
  BY RowAt DEF ReadAnswer, ShotAt
<1>2. ASSUME NEW kind \in FailureKinds, CallEnds(s, kind)  PROVE Moved(s)
  BY <1>1, <1>2, CallEndsKeeps DEF Moved
<1>3. ASSUME NEW p \in {"fetch", "spool"}, ShotStep(s, [shot[s] EXCEPT !.at = p])  PROVE Moved(s)
  BY <1>1, <1>3, GoesTo DEF Places
<1> QED  BY <1>2, <1>3 DEF ReadAnswer, FailureKinds

LEMMA FetchMoves ==
  ASSUME ShotsSound, NEW s \in Shots, FetchImage(s)  PROVE Moved(s)
<1> DEFINE x == shot[s]
<1>1. x.at = "fetch" /\ ~x.unclear /\ x.result = "none" /\ x \in ShotRows(x.api, x.order)
  BY RowAt DEF FetchImage, ShotAt
<1>2. CASE CallEnds(s, "refused")
  BY <1>1, <1>2, CallEndsKeeps DEF Moved, FailureKinds
<1>3. CASE ShotStep(s, [x EXCEPT !.at = "spool"])
  BY <1>1, <1>3, GoesTo DEF Places
<1>4. CASE x.fetches + 1 < FetchLimit /\ ShotStep(s, [x EXCEPT !.fetches = @ + 1])
  <2> DEFINE new == [x EXCEPT !.fetches = @ + 1]
  <2>1. shot' = [shot EXCEPT ![s] = new]  BY <1>4 DEF ShotStep
  <2> HIDE DEF x
  <2>2. x.fetches + 1 \in 0..FetchLimit  BY <1>1, <1>4, FailoverConstants DEF ShotRows
  <2>3. /\ new \in ShotRows(x.api, x.order) /\ new.at = "fetch" /\ new.result = "none"
        /\ new.unclear = x.unclear /\ new.fetches = x.fetches + 1
    BY <1>1, <2>2 DEF ShotRows
  <2> HIDE DEF new
  <2> QED  BY <1>1, <1>4, <2>1, <2>3, StepMoves DEF Places
<1> QED  BY <1>2, <1>3, <1>4 DEF FetchImage

LEMMA CollectMoves ==
  ASSUME ShotsSound, NEW s \in Shots, Collect(s)  PROVE Moved(s)
<1> DEFINE x == shot[s]
           new == [x EXCEPT !.result = "kept"]
<1>1. ShotSound(x) /\ x.at = "end" /\ x.result = "done"  BY DEF ShotsSound, Collect, ShotAt
<1>2. shot' = [shot EXCEPT ![s] = new]  BY DEF Collect, ShotStep
<1>3. x \in ShotRows(x.api, x.order) /\ ~x.unclear  BY <1>1 DEF ShotSound, ShotRow
<1>4. x.fetches < FetchLimit  BY <1>1 DEF ShotSound
<1> HIDE DEF x
<1>5. /\ new \in ShotRows(x.api, x.order) /\ new.at = "end" /\ new.result = "kept"
      /\ new.unclear = x.unclear /\ new.fetches = x.fetches
  BY <1>1, <1>3 DEF ShotRows, Results
<1> HIDE DEF new
<1>6. ShotSound(new)  BY <1>3, <1>4, <1>5, RowOf DEF ShotSound
<1> QED  BY <1>2, <1>5, <1>6, MovesTo

\* Where a failure is weighed: a call whose outcome is unclear is not followed by another.
LEMMA SettleMoves ==
  ASSUME ShotsSound, NEW s \in Shots, SettleShot(s)  PROVE Moved(s)
<1> DEFINE x == shot[s]
<1>1. /\ x.at = "settle" /\ x.kind \in FailureKinds /\ x.result = "none"
      /\ x \in ShotRows(x.api, x.order) /\ x.fetches < FetchLimit
      /\ x.unclear => ~AllowsRetry(s) /\ x.kind # "waiting"
  <2>1. ShotSound(x) /\ x.at = "settle" /\ x.kind # "ok"  BY DEF ShotsSound, SettleShot, ShotAt
  <2>2. x.unclear => ~AllowsRetry(s)
    BY <2>1 DEF ShotSound, AllowsRetry, KeyHolds, ChannelOfShot
  <2>3. x.unclear => x.kind # "waiting"  BY <2>1 DEF ShotSound, Unclear
  <2> QED  BY <2>1, <2>2, <2>3 DEF ShotSound, ShotRow
<1>2. CASE \E result \in {"waits", "unknown"} : EndShot(s, result)
  BY <1>2, EndShotKeeps DEF Moved
<1>3. CASE ~(\E result \in {"waits", "unknown"} : EndShot(s, result))
  <2>1. AllowsRetry(s) /\ ~(x.held /\ x.kind = "waiting")  BY <1>3 DEF SettleShot
  <2>2. ~x.unclear  BY <1>1, <2>1
  <2>3. CASE x.centre /\ x.tries < PerChannel /\ x.kind \in Again /\ ~x.dead
    <3> DEFINE new == [x EXCEPT !.at = "start", !.kind = "none"]
    <3>1. shot' = [shot EXCEPT ![s] = new]  BY <2>1, <2>3 DEF SettleShot, ShotStep
    <3> HIDE DEF x
    <3>2. /\ new \in ShotRows(x.api, x.order) /\ new.at = "start" /\ new.result = "none"
          /\ new.unclear = x.unclear /\ new.fetches = x.fetches /\ new.tries = x.tries
      BY <1>1 DEF ShotRows, Places
    <3> HIDE DEF new
    <3> QED  BY <1>1, <2>2, <2>3, <3>1, <3>2, StepMoves DEF Places
  <2>4. CASE /\ ~(x.centre /\ x.tries < PerChannel /\ x.kind \in Again /\ ~x.dead)
             /\ x.kind \notin Elsewhere
    <3>1. EndShot(s, "failed")  BY <2>1, <2>4 DEF SettleShot
    <3>2. x.kind = "refused"  BY <1>1, <2>4 DEF Elsewhere
    <3> QED  BY <3>1, <3>2, EndShotKeeps DEF Moved
  <2>5. CASE /\ ~(x.centre /\ x.tries < PerChannel /\ x.kind \in Again /\ ~x.dead)
             /\ x.kind \in Elsewhere /\ x.centre
    <3>1. ShotStep(s, [x EXCEPT !.at = "mark", !.kind = "none"])
      BY <2>1, <2>5 DEF SettleShot
    <3> QED  BY <1>1, <2>2, <3>1, GoesTo DEF Places
  <2>6. CASE /\ ~(x.centre /\ x.tries < PerChannel /\ x.kind \in Again /\ ~x.dead)
             /\ x.kind \in Elsewhere /\ ~x.centre
    <3>1. TryNext(s)  BY <2>1, <2>6 DEF SettleShot
    <3> QED  BY <1>1, <2>2, <3>1, TryNextKeeps DEF Moved
  <2> QED  BY <2>3, <2>4, <2>5, <2>6
<1> QED  BY <1>2, <1>3

LEMMA MarkMoves ==
  ASSUME ShotsSound, NEW s \in Shots,
         Succeed(s) \/ CountFailure(s) \/ WeighFailure(s) \/ CoolChannel(s)
  PROVE  Moved(s)
<1>1. CASE Succeed(s)
  BY <1>1, EndShotKeeps DEF Succeed, ShotAt, Moved
<1>2. CASE CountFailure(s)
  BY <1>2, RowAt, GoesTo DEF CountFailure, ShotAt, Places
<1>3. CASE WeighFailure(s)
  <2>1. CASE ShotStep(s, [shot[s] EXCEPT !.at = "cool"])
    BY <1>3, <2>1, RowAt, GoesTo DEF WeighFailure, ShotAt, Places
  <2>2. CASE TryNext(s)
    BY <1>3, <2>2, RowAt, TryNextKeeps DEF WeighFailure, ShotAt, Moved
  <2> QED  BY <1>3, <2>1, <2>2 DEF WeighFailure
<1>4. CASE CoolChannel(s)
  BY <1>4, RowAt, TryNextKeeps DEF CoolChannel, ShotAt, Moved
<1> QED  BY <1>1, <1>2, <1>3, <1>4
\* The files of the spool and those about to be added.
LEMMA WritersCounted ==
  /\ IsFiniteSet(Writers) /\ Cardinality(Writers) \in Nat /\ Cardinality(Shots) \in Nat
  /\ SpoolMax \in Nat
  /\ \A S \in SUBSET Shots :
        IsFiniteSet(S) /\ Cardinality(S) \in Nat /\ Cardinality(S) <= Cardinality(Shots)
<1>1. \A S \in SUBSET Shots :
        IsFiniteSet(S) /\ Cardinality(S) \in Nat /\ Cardinality(S) <= Cardinality(Shots)
  BY FailoverConstants, FS_Subset, FS_CardinalityType
<1>2. Writers \in SUBSET Shots  BY DEF Writers
<1> QED  BY <1>1, <1>2, FailoverConstants, FS_CardinalityType

LEMMA MovedWriters ==
  ASSUME ShotsSound, NEW s \in Shots, Moved(s)
  PROVE  ShotsSound' /\ Writers' \subseteq Writers
<1>1. \A t \in Shots \ {s} : shot'[t] = shot[t]  BY DEF Moved, Rewritten, ShotsSound
<1>2. Writers' \subseteq Writers  BY <1>1 DEF Moved, Writers
<1> QED  BY <1>2, RewrittenKeeps DEF Moved

LEMMA FewerWriters ==
  ASSUME SpoolTyped, Writers' \subseteq Writers, spool' \in Nat, spool' <= spool
  PROVE  SpoolTyped'
<1>1. Cardinality(Writers') <= Cardinality(Writers) /\ Cardinality(Writers') \in Nat
  BY WritersCounted, FS_Subset, FS_CardinalityType
<1>2. Cardinality(Writers)' = Cardinality(Writers')  OBVIOUS
<1> QED  BY <1>1, WritersCounted DEF SpoolTyped

LEMMA SpoolWritten ==
  ASSUME ShotsSound, SpoolTyped, NEW s \in Shots, WriteSpool(s)
  PROVE  ShotsSound' /\ SpoolTyped'
<1>1. PICK kind \in FailureKinds \cup {"ok"} : CallEnds(s, kind)
  BY DEF WriteSpool, FailureKinds
<1>2. Moved(s) /\ shot'[s].at = "settle"
  BY <1>1, CallEndsKeeps DEF WriteSpool, ShotAt, Moved
<1>3. ShotsSound' /\ Writers' \subseteq Writers \ {s}
  BY <1>2, MovedWriters DEF Writers
<1>4. s \in Writers  BY DEF WriteSpool, ShotAt, Writers
<1>5. Cardinality(Writers \ {s}) = Cardinality(Writers) - 1 /\ IsFiniteSet(Writers \ {s})
  BY <1>4, WritersCounted, FS_RemoveElement
<1>6. Cardinality(Writers') <= Cardinality(Writers) - 1 /\ Cardinality(Writers') \in Nat
  BY <1>3, <1>5, FS_Subset, FS_CardinalityType
<1>7. spool' \in {spool, spool + 1}  BY DEF WriteSpool
<1> QED  BY <1>3, <1>6, <1>7, WritersCounted DEF SpoolTyped

LEMMA SpoolMeasured ==
  ASSUME ShotsSound, SpoolTyped, NEW s \in Shots, MeasureSpool(s)
  PROVE  ShotsSound' /\ SpoolTyped'
<1>1. CASE CallEnds(s, "refused")
  <2>1. Moved(s)
    BY <1>1, CallEndsKeeps DEF MeasureSpool, ShotAt, Moved, FailureKinds
  <2>2. spool' = spool /\ spool \in Nat  BY DEF MeasureSpool, SpoolTyped
  <2> QED  BY <2>1, <2>2, MovedWriters, FewerWriters
<1>2. CASE SpoolUsed < SpoolMax /\ ShotStep(s, [shot[s] EXCEPT !.at = "write"])
  <2> DEFINE x == shot[s]
             new == [x EXCEPT !.at = "write"]
  <2>1. shot' = [shot EXCEPT ![s] = new]  BY <1>2 DEF ShotStep
  <2>2. x.at = "spool" /\ x \in ShotRows(x.api, x.order) /\ x.result = "none" /\ ~x.unclear
        /\ x.fetches < FetchLimit
    BY RowAt DEF MeasureSpool, ShotAt
  <2> HIDE DEF x
  <2>3. /\ new \in ShotRows(x.api, x.order) /\ new.at = "write" /\ new.result = "none"
        /\ new.unclear = x.unclear /\ new.fetches = x.fetches
    BY <2>2 DEF ShotRows, Places
  <2> HIDE DEF new
  <2>4. ShotSound(new)  BY <2>2, <2>3, RowOf DEF ShotSound
  <2>5. ShotsSound'  BY <2>1, <2>4, RewrittenKeeps DEF Rewritten
  <2>6. {t \in Shots : Form(t)} \in SUBSET Shots  OBVIOUS
  <2>7. spool \in Nat /\ spool < SpoolMax /\ spool' = spool
    BY <1>2, <2>6, WritersCounted DEF SpoolTyped, SpoolUsed, MeasureSpool
  <2>8. Writers' \in SUBSET Shots  BY DEF Writers
  <2>9. Cardinality(Writers') \in Nat /\ Cardinality(Writers') <= Cardinality(Shots)
    BY <2>8, WritersCounted
  <2> QED  BY <2>5, <2>7, <2>9, WritersCounted DEF SpoolTyped
<1> QED  BY <1>1, <1>2 DEF MeasureSpool

-----------------------------------------------------------------------------
\* The health of the channels.
HealthSound == HealthTyped /\ CoolingIsEarned

LEMMA HealthMoves ==
  ASSUME HealthSound, NEW s \in Shots, Succeed(s) \/ CountFailure(s) \/ CoolChannel(s)
  PROVE  HealthSound'
<1> USE DEF HealthSound
<1>1. MaxFails \in Nat /\ FailLimit \in Nat  BY FailoverConstants
<1>2. CASE Succeed(s)
  <2>1. CASE health' = health  BY <2>1 DEF HealthTyped, CoolingIsEarned
  <2>2. CASE health' = [health EXCEPT ![ChannelOfShot(s)] =
                          [fails |-> 0, cooling |-> FALSE, late |-> FALSE]]
    <3>1. 0 \in 0..MaxFails  BY <1>1
    <3> QED  BY <2>2, <3>1 DEF HealthTyped, CoolingIsEarned
  <2> QED  BY <1>2, <2>1, <2>2 DEF Succeed
<1>3. CASE CountFailure(s)
  <2> DEFINE ch == ChannelOfShot(s)
  <2>1. health' = [health EXCEPT ![ch].fails = IF @ < MaxFails THEN @ + 1 ELSE @]
    BY <1>3 DEF CountFailure
  <2> HIDE DEF ch
  <2>2. \A n \in 0..MaxFails : (IF n < MaxFails THEN n + 1 ELSE n) \in 0..MaxFails
    BY <1>1
  <2>3. HealthTyped'  BY <2>1, <2>2 DEF HealthTyped
  <2>4. ASSUME NEW c \in Channels
        PROVE  /\ health'[c].cooling = health[c].cooling /\ health'[c].late = health[c].late
               /\ health'[c].fails >= health[c].fails
    <3>1. health[c].fails \in Nat  BY <1>1 DEF HealthTyped
    <3>2. CASE c = ch  BY <1>1, <2>1, <3>1, <3>2 DEF HealthTyped
    <3>3. CASE c # ch  BY <2>1, <3>1, <3>3 DEF HealthTyped
    <3> QED  BY <3>2, <3>3
  <2>5. CoolingIsEarned'
    <3> SUFFICES ASSUME NEW c \in Channels, health'[c].cooling, ~health'[c].late
                 PROVE  health'[c].fails >= FailLimit
      BY DEF CoolingIsEarned
    <3>1. health[c].fails >= FailLimit  BY <2>4 DEF CoolingIsEarned
    <3>2. health[c].fails \in Nat /\ health'[c].fails \in Nat  BY <1>1, <2>3 DEF HealthTyped
    <3> QED  BY <1>1, <2>4, <3>1, <3>2
  <2> QED  BY <2>3, <2>5
<1>4. CASE CoolChannel(s)
  <2> DEFINE ch == ChannelOfShot(s)
  <2>1. health' = [health EXCEPT ![ch].cooling = TRUE,
                                 ![ch].late = @ \/ health[ch].fails < FailLimit]
    BY <1>4 DEF CoolChannel
  <2> HIDE DEF ch
  <2>2. (health[ch].fails < FailLimit) \in BOOLEAN  OBVIOUS
  <2>3. HealthTyped'  BY <2>1, <2>2 DEF HealthTyped
  <2>4. CoolingIsEarned'
    <3> SUFFICES ASSUME NEW c \in Channels, health'[c].cooling, ~health'[c].late
                 PROVE  health'[c].fails >= FailLimit
      BY DEF CoolingIsEarned
    <3>1. CASE c = ch
      <4>1. health'[c].fails = health[c].fails /\ ~(health[c].fails < FailLimit)
        BY <2>1, <3>1 DEF HealthTyped
      <4>2. health[c].fails \in Nat  BY <1>1 DEF HealthTyped
      <4> QED  BY <1>1, <4>1, <4>2
    <3>2. CASE c # ch
      <4>1. health'[c] = health[c]  BY <2>1, <3>2 DEF HealthTyped
      <4> QED  BY <4>1 DEF CoolingIsEarned
    <3> QED  BY <3>1, <3>2
  <2> QED  BY <2>3, <2>4
<1> QED  BY <1>2, <1>3, <1>4

LEMMA FailoverStep ==
  ASSUME ShotsSound, HealthSound, SpoolTyped, [FailoverNext]_imageFailover
  PROVE  (ShotsSound /\ HealthSound /\ SpoolTyped)'
<1>1. CASE UNCHANGED imageFailover
  BY <1>1 DEF imageFailover, ShotsSound, ShotSound, ShotRow, HealthSound, HealthTyped,
              CoolingIsEarned, SpoolTyped, Writers
<1>2. ASSUME NEW s \in Shots,
             \/ BeginShot(s) \/ ShotExpires(s) \/ StartAttempt(s) \/ SendRequest(s)
             \/ ReadAnswer(s) \/ FetchImage(s) \/ Collect(s) \/ SettleShot(s)
             \/ Succeed(s) \/ CountFailure(s) \/ WeighFailure(s) \/ CoolChannel(s)
      PROVE  (ShotsSound /\ HealthSound /\ SpoolTyped)'
  <2>1. Moved(s)
    BY <1>2, BeginMoves, ExpiresMoves, StartMoves, SendMoves, ReadMoves, FetchMoves,
       CollectMoves,
       SettleMoves, MarkMoves
  <2>2. spool' \in Nat /\ spool' <= spool
    <3>0. spool \in Nat  BY DEF SpoolTyped
    <3>1. CASE Collect(s)  BY <3>0, <3>1 DEF Collect
    <3>2. CASE spool' = spool  BY <3>0, <3>2
    <3> QED  BY <1>2, <3>1, <3>2 DEF BeginShot, ShotExpires, StartAttempt, SendRequest,
             ReadAnswer, FetchImage, SettleShot, Succeed, CountFailure, WeighFailure, CoolChannel
  <2>3. HealthSound'
    <3>1. CASE Succeed(s) \/ CountFailure(s) \/ CoolChannel(s)  BY <3>1, HealthMoves
    <3>2. CASE health' = health  BY <3>2 DEF HealthSound, HealthTyped, CoolingIsEarned
    <3> QED
      BY <1>2, <3>1, <3>2 DEF BeginShot, ShotExpires, StartAttempt, SendRequest, ReadAnswer,
             FetchImage, Collect, SettleShot, WeighFailure
  <2> QED  BY <2>1, <2>2, <2>3, MovedWriters, FewerWriters
<1>3. ASSUME NEW s \in Shots, MeasureSpool(s) \/ WriteSpool(s)
      PROVE  (ShotsSound /\ HealthSound /\ SpoolTyped)'
  <2>1. health' = health  BY <1>3 DEF MeasureSpool, WriteSpool
  <2>2. HealthSound'  BY <2>1 DEF HealthSound, HealthTyped, CoolingIsEarned
  <2> QED  BY <1>3, <2>2, SpoolMeasured, SpoolWritten
<1>4. ASSUME NEW ch \in Channels, WarmUp(ch)
      PROVE  (ShotsSound /\ HealthSound /\ SpoolTyped)'
  <2>1. HealthSound'
    BY <1>4 DEF WarmUp, HealthSound, HealthTyped, CoolingIsEarned
  <2>2. shot' = shot /\ spool' = spool  BY <1>4 DEF WarmUp
  <2>3. ShotsSound' /\ SpoolTyped'
    BY <2>2 DEF ShotsSound, ShotSound, ShotRow, SpoolTyped, Writers
  <2> QED  BY <2>1, <2>3
<1> QED  BY <1>1, <1>2, <1>3, <1>4 DEF FailoverNext

\* Calls are neither repeated after one whose outcome is unknown nor given up before the
\* last channel; a channel cools down after failures; the spool keeps its bound.
THEOREM FailoverAlwaysSound == FailoverSpec => []FailoverSound
<1>1. ShotsSound /\ HealthSound /\ SpoolTyped => FailoverSound
  <2> SUFFICES ASSUME ShotsSound, HealthSound, SpoolTyped  PROVE FailoverSound
    OBVIOUS
  <2>1. NoReplayAfterUnknown  BY DEF ShotsSound, ShotSound, NoReplayAfterUnknown
  <2>2. GivesUpLate  BY DEF ShotsSound, ShotSound, GivesUpLate
  <2>3. SpoolIsBounded  BY WritersCounted DEF SpoolTyped, SpoolIsBounded
  <2> QED  BY <2>1, <2>2, <2>3 DEF HealthSound, FailoverSound
<1>2. FailoverInit => HealthSound
  BY InitShots DEF HealthSound, CoolingIsEarned, FailoverInit
<1> QED  BY <1>1, <1>2, InitShots, FailoverStep, PTL DEF FailoverSpec
-----------------------------------------------------------------------------
(***************************************************************************)
(* The tasks of videos.  A record that succeeded was charged in the same   *)
(* transaction; memory may be ahead of the record, but only on the way to  *)
(* the failing of the task, which reads the record again.                  *)
(***************************************************************************)

RowsTyped == row \in [Jobs -> Row] /\ audit \in [Jobs -> Row] /\ mem \in [Jobs -> Row]
Places_   == Waiting \cup Stages \cup Over
TasksTyped ==
    /\ RowsTyped /\ pc \in [Jobs -> Places_]
    /\ track \in [Tracks -> [pc : {"new", "asked", "made", "uploaded", "refused"}, of : Jobs]]
    /\ charges \in [Jobs \cup Tracks -> Nat] /\ balance \in [Users -> Nat]
    /\ lock \subseteq Users /\ works \subseteq Jobs

Underway == {"start", "mark", "submit", "note", "noteAudit", "poll", "persist"}
Made(j)  == row[j].status = "succeeded"

\* What a task at place s knows of its record r, the audit row a and the record m
\* in memory.
Knows(r, a, m, s) ==
    /\ s \in {"new", "prepared", "locked", "fail", "failAudit"} \cup Underway => r.status # "succeeded"
    /\ s \in Underway => m.status \in {"queued", "running"} /\ ~m.paid
    /\ s = "failAudit" => m.status # "succeeded" /\ ~m.paid
    /\ r.paid => r.status = "succeeded"
    /\ a.status = "succeeded" \/ a.paid => r.status = "succeeded"

TaskSound(j) == Knows(row[j], audit[j], mem[j], pc[j])

\* One job of a user at a time is between the taking of the lock and its release.
HoldsLock(j) == pc[j] \in Stages \cup {"locked"}
LockHeld ==
    /\ \A j \in Jobs : HoldsLock(j) => OwnerOf[j] \in lock
    /\ \A i, j \in Jobs : HoldsLock(i) /\ HoldsLock(j) /\ OwnerOf[i] = OwnerOf[j] => i = j

TaskInv == TasksTyped /\ (\A j \in Jobs : TaskSound(j)) /\ LockHeld /\ PaidForWhatWasMade

LEMMA InitTasks == Init => TaskInv
<1> SUFFICES ASSUME Init  PROVE TaskInv
  OBVIOUS
<1>1. NoRow \in Row /\ NoRow.status = "none" /\ ~NoRow.paid  BY DEF NoRow, Row, Statuses
<1>2. (CHOOSE j \in Jobs : TRUE) \in Jobs  BY VideoConstants
<1>3. TasksTyped
  BY <1>1, <1>2, VideoConstants
     DEF Init, TasksTyped, RowsTyped, Places_, Waiting, NoTrack
<1>4. ASSUME NEW j \in Jobs  PROVE TaskSound(j)
  BY <1>1 DEF Init, TaskSound, Knows, Underway
<1>5. LockHeld  BY DEF Init, LockHeld, HoldsLock, Stages
<1>6. PaidForWhatWasMade
  <2>1. ASSUME NEW u \in Users  PROVE balance[u] + Spent(u) = InitialCredits
    <3>1. {j \in Jobs : OwnerOf[j] = u /\ row[j].status = "succeeded"} = {}
      BY <1>1 DEF Init
    <3>2. {t \in Tracks : OwnerOf[track[t].of] = u /\ track[t].pc = "made"} = {}
      BY DEF Init, NoTrack
    <3>3. Spent(u) = Cost * 0 + TrackCost * 0  BY <3>1, <3>2, FS_EmptySet DEF Spent
    <3>4. balance[u] = InitialCredits  BY DEF Init
    <3> QED  BY <3>3, <3>4, VideoConstants
  <2>2. \A t \in Tracks : charges[t] = 0 /\ track[t].pc # "made"  BY DEF Init, NoTrack
  <2>3. \A j \in Jobs : charges[j] = 0 /\ row[j].status # "succeeded"  BY <1>1 DEF Init
  <2> QED  BY <2>1, <2>2, <2>3 DEF PaidForWhatWasMade
<1> QED  BY <1>3, <1>4, <1>5, <1>6 DEF TaskInv

\* A step that makes nothing costs nothing.
LEMMA NothingMade ==
  ASSUME PaidForWhatWasMade, charges' = charges, balance' = balance,
         \A j \in Jobs : Made(j)' = Made(j),
         \A t \in Tracks : /\ track'[t].pc = "made" <=> track[t].pc = "made"
                           /\ track[t].pc = "made" => track'[t].of = track[t].of
  PROVE  PaidForWhatWasMade'
<1>1. ASSUME NEW u \in Users  PROVE Spent(u)' = Spent(u)
  <2>1. {j \in Jobs : OwnerOf[j] = u /\ row'[j].status = "succeeded"} =
        {j \in Jobs : OwnerOf[j] = u /\ row[j].status = "succeeded"}
    BY DEF Made
  <2>2. {t \in Tracks : OwnerOf[track'[t].of] = u /\ track'[t].pc = "made"} =
        {t \in Tracks : OwnerOf[track[t].of] = u /\ track[t].pc = "made"}
    OBVIOUS
  <2> QED  BY <2>1, <2>2 DEF Spent
<1>2. ASSUME NEW j \in Jobs  PROVE charges'[j] = IF row'[j].status = "succeeded" THEN 1 ELSE 0
  BY DEF PaidForWhatWasMade, Made
<1>3. ASSUME NEW t \in Tracks  PROVE charges'[t] = IF track'[t].pc = "made" THEN 1 ELSE 0
  BY DEF PaidForWhatWasMade
<1> QED  BY <1>1, <1>2, <1>3 DEF PaidForWhatWasMade

\* The sets that are paid for, and what one more of them costs.
LEMMA OneMore ==
  ASSUME NEW S, IsFiniteSet(S), NEW x, x \notin S, NEW c \in Nat
  PROVE  c * Cardinality(S \cup {x}) = c * Cardinality(S) + c /\ Cardinality(S) \in Nat
         /\ c * Cardinality(S) \in Nat
<1>1. Cardinality(S \cup {x}) = Cardinality(S) + 1 /\ Cardinality(S) \in Nat
  BY FS_AddElement, FS_CardinalityType
<1> QED  BY <1>1

LEMMA SetsPaidFor ==
  ASSUME NEW u
  PROVE  /\ IsFiniteSet({j \in Jobs : OwnerOf[j] = u /\ row[j].status = "succeeded"})
         /\ IsFiniteSet({t \in Tracks : OwnerOf[track[t].of] = u /\ track[t].pc = "made"})
BY VideoConstants, FS_Subset

\* What an action does to the rows of its job.
Writes(j, r, a, m, s) ==
    /\ row' = [row EXCEPT ![j] = r] /\ audit' = [audit EXCEPT ![j] = a]
    /\ mem' = [mem EXCEPT ![j] = m] /\ Goto(j, s)

LEMMA JobMoves ==
  ASSUME TaskInv, NEW j \in Jobs, NEW r \in Row, NEW a \in Row, NEW m \in Row, NEW s \in Places_,
         Writes(j, r, a, m, s), Knows(r, a, m, s)
  PROVE  /\ RowsTyped' /\ pc' \in [Jobs -> Places_] /\ \A i \in Jobs : TaskSound(i)'
         /\ row'[j] = r /\ pc'[j] = s
         /\ \A i \in Jobs : i # j => row'[i] = row[i] /\ pc'[i] = pc[i]
<1>1. RowsTyped' /\ pc' \in [Jobs -> Places_]
  BY DEF TaskInv, TasksTyped, RowsTyped, Writes, Goto
<1>2. row'[j] = r /\ audit'[j] = a /\ mem'[j] = m /\ pc'[j] = s
  BY DEF TaskInv, TasksTyped, RowsTyped, Writes, Goto
<1>3. \A i \in Jobs : i # j =>
         row'[i] = row[i] /\ audit'[i] = audit[i] /\ mem'[i] = mem[i] /\ pc'[i] = pc[i]
  BY DEF TaskInv, TasksTyped, RowsTyped, Writes, Goto
<1>4. ASSUME NEW i \in Jobs  PROVE Knows(row'[i], audit'[i], mem'[i], pc'[i])
  <2>1. CASE i = j  BY <1>2, <2>1
  <2>2. CASE i # j
    <3>1. Knows(row[i], audit[i], mem[i], pc[i])  BY DEF TaskInv, TaskSound
    <3> QED  BY <1>3, <2>2, <3>1
  <2> QED  BY <2>1, <2>2
<1> QED  BY <1>1, <1>2, <1>3, <1>4 DEF TaskSound

LEMMA LockStays ==
  ASSUME LockHeld, lock' = lock, \A j \in Jobs : HoldsLock(j)' => HoldsLock(j)
  PROVE  LockHeld'
BY DEF LockHeld

\* A step of one job that pays for nothing and frees or takes no lock.
LEMMA QuietMove ==
  ASSUME TaskInv, NEW j \in Jobs, NEW r \in Row, NEW a \in Row, NEW m \in Row, NEW s \in Places_,
         Writes(j, r, a, m, s), Knows(r, a, m, s),
         r.status = "succeeded" <=> Made(j), s \in Stages \cup {"locked"} => HoldsLock(j),
         UNCHANGED <<works, charges, balance, lock, track>>
  PROVE  TaskInv'
<1>1. /\ RowsTyped' /\ pc' \in [Jobs -> Places_] /\ \A i \in Jobs : TaskSound(i)'
      /\ row'[j] = r /\ pc'[j] = s
      /\ \A i \in Jobs : i # j => row'[i] = row[i] /\ pc'[i] = pc[i]
  BY JobMoves
<1>2. TasksTyped'  BY <1>1 DEF TaskInv, TasksTyped
<1>3. \A i \in Jobs : HoldsLock(i)' => HoldsLock(i)  BY <1>1 DEF HoldsLock
<1>4. LockHeld'  BY <1>3, LockStays DEF TaskInv
<1>5. \A i \in Jobs : Made(i)' = Made(i)
  <2>1. \A i \in Jobs : Made(i)' <=> Made(i)  BY <1>1 DEF Made
  <2> QED  BY <2>1 DEF Made
<1>6. PaidForWhatWasMade'  BY <1>5, NothingMade DEF TaskInv
<1> QED  BY <1>1, <1>2, <1>4, <1>6 DEF TaskInv

\* The steps that leave the rows alone.
LEMMA SameRows ==
  ASSUME TaskInv, NEW j \in Jobs, NEW s \in Places_, Goto(j, s), UNCHANGED <<row, audit, mem>>
  PROVE  Writes(j, row[j], audit[j], mem[j], s) /\ row[j] \in Row /\ audit[j] \in Row
         /\ mem[j] \in Row /\ TaskSound(j)
BY DEF TaskInv, TasksTyped, RowsTyped, Writes, TaskSound

LEMMA PrepareKeeps ==
  ASSUME TaskInv, NEW j \in Jobs, Prepare(j)
  PROVE  TaskInv'
<1>1. PICK s \in {"refused", "prepared"} : Goto(j, s)  BY DEF Prepare
<1>2. pc[j] = "new" /\ UNCHANGED <<row, audit, mem, works, charges, balance, lock, track>>
  BY DEF Prepare, rows, credits
<1>3. s \in Places_ /\ s \notin Stages \cup {"locked"}
  BY DEF Places_, Waiting, Stages, Over
<1>4. Writes(j, row[j], audit[j], mem[j], s) /\ row[j] \in Row /\ audit[j] \in Row
      /\ mem[j] \in Row /\ TaskSound(j)
  BY <1>1, <1>2, <1>3, SameRows
<1>5. Knows(row[j], audit[j], mem[j], s)  BY <1>2, <1>4 DEF TaskSound, Knows, Underway
<1> QED  BY <1>2, <1>3, <1>4, <1>5, QuietMove DEF Made

LEMMA AskProviderKeeps ==
  ASSUME TaskInv, NEW j \in Jobs, Submit(j) \/ Poll(j)
  PROVE  TaskInv'
<1>1. PICK s \in {"note", "persist", "fail"} : Goto(j, s)  BY DEF Submit, Poll
<1>2. pc[j] \in {"submit", "poll"} /\ UNCHANGED <<row, audit, mem, works, charges, balance, lock, track>>
  BY DEF Submit, Poll, rows, credits
<1>3. s \in Places_ /\ HoldsLock(j)
  BY <1>2 DEF Places_, Stages, HoldsLock
<1>4. Writes(j, row[j], audit[j], mem[j], s) /\ row[j] \in Row /\ audit[j] \in Row
      /\ mem[j] \in Row /\ TaskSound(j)
  BY <1>1, <1>2, <1>3, SameRows
<1>5. Knows(row[j], audit[j], mem[j], s)  BY <1>2, <1>4 DEF TaskSound, Knows, Underway
<1> QED  BY <1>2, <1>3, <1>4, <1>5, QuietMove DEF Made

LEMMA SaveRowKeeps ==
  ASSUME TaskInv, NEW j \in Jobs, NEW r \in Row, NEW next \in Underway, pc[j] \in Underway,
         SaveRow(j, r, next), r.status \in {"queued", "running"}, ~r.paid
  PROVE  TaskInv'
<1>1. row[j] \in Row /\ audit[j] \in Row /\ mem[j] \in Row /\ TaskSound(j)
  BY DEF TaskInv, TasksTyped, RowsTyped
<1>2. PICK w \in {row[j], r}, s \in {next, "fail"} : Writes(j, w, audit[j], r, s)
  BY <1>1 DEF SaveRow, Writes, TaskInv, TasksTyped, RowsTyped
<1>3. s \in Places_ /\ HoldsLock(j)  BY DEF Places_, Stages, HoldsLock, Underway
<1>4. Knows(w, audit[j], r, s)
  BY <1>1 DEF TaskSound, Knows, Underway
<1>5. w \in Row /\ (w.status = "succeeded" <=> Made(j))  BY <1>1 DEF TaskSound, Knows, Made
<1>6. UNCHANGED <<works, charges, balance, lock, track>>  BY DEF SaveRow, credits, guards
<1> QED  BY <1>1, <1>2, <1>3, <1>4, <1>5, <1>6, QuietMove

LEMMA RecordSteps ==
  ASSUME TaskInv, NEW j \in Jobs, Start(j) \/ Note(j)
  PROVE  TaskInv'
<1>1. mem[j] \in Row /\ TaskSound(j)  BY DEF TaskInv, TasksTyped, RowsTyped
<1>2. CASE Start(j)
  <2> DEFINE r == [mem[j] EXCEPT !.status = "running"]
  <2>1. r \in Row /\ r.status = "running" /\ r.paid = mem[j].paid  BY <1>1 DEF Row, Statuses
  <2>2. pc[j] = "start" /\ SaveRow(j, r, "mark")  BY <1>2 DEF Start
  <2>3. ~mem[j].paid  BY <1>1, <2>2 DEF TaskSound, Knows, Underway
  <2> HIDE DEF r
  <2> QED  BY <2>1, <2>2, <2>3, SaveRowKeeps DEF Underway
<1>3. CASE Note(j)
  <2> DEFINE r == [mem[j] EXCEPT !.task = TRUE]
  <2>1. r \in Row /\ r.status = mem[j].status /\ r.paid = mem[j].paid  BY <1>1 DEF Row
  <2>2. pc[j] = "note" /\ SaveRow(j, r, "noteAudit")  BY <1>3 DEF Note
  <2>3. ~mem[j].paid /\ mem[j].status \in {"queued", "running"}
    BY <1>1, <2>2 DEF TaskSound, Knows, Underway
  <2> HIDE DEF r
  <2> QED  BY <2>1, <2>2, <2>3, SaveRowKeeps DEF Underway
<1> QED  BY <1>2, <1>3

LEMMA SyncAuditKeeps ==
  ASSUME TaskInv, NEW j \in Jobs, NEW next \in Underway, pc[j] \in Underway, SyncAudit(j, next)
  PROVE  TaskInv'
<1>1. row[j] \in Row /\ audit[j] \in Row /\ mem[j] \in Row /\ TaskSound(j)
  BY DEF TaskInv, TasksTyped, RowsTyped
<1>2. PICK a \in {audit[j], mem[j]}, s \in {next, "fail"} : Writes(j, row[j], a, mem[j], s)
  BY <1>1 DEF SyncAudit, Writes, TaskInv, TasksTyped, RowsTyped
<1>3. s \in Places_ /\ HoldsLock(j)  BY DEF Places_, Stages, HoldsLock, Underway
<1>4. Knows(row[j], a, mem[j], s)
  BY <1>1 DEF TaskSound, Knows, Underway
<1>5. UNCHANGED <<works, charges, balance, lock, track>>  BY DEF SyncAudit, credits, guards
<1> QED  BY <1>1, <1>2, <1>3, <1>4, <1>5, QuietMove DEF Made

LEMMA FailKeeps ==
  ASSUME TaskInv, NEW j \in Jobs, Fail(j)
  PROVE  TaskInv'
<1>1. row[j] \in Row /\ audit[j] \in Row /\ mem[j] \in Row /\ TaskSound(j) /\ pc[j] = "fail"
  BY DEF TaskInv, TasksTyped, RowsTyped, Fail
<1>2. /\ Failed(mem[j]) \in Row
      /\ Failed(mem[j]).status = "failed" /\ ~Failed(mem[j]).paid
  BY <1>1 DEF Failed, Row, Statuses
<1>3. row[j].status # "succeeded" /\ ~row[j].paid  BY <1>1 DEF TaskSound, Knows
<1>4. PICK w \in {row[j], Failed(mem[j])}, m \in {row[j], Failed(mem[j])} :
         Writes(j, w, audit[j], m, "failAudit")
  <2>1. row' \in {row, [row EXCEPT ![j] = Failed(mem[j])]} /\ UNCHANGED audit /\ Goto(j, "failAudit")
    BY DEF Fail
  <2>2. mem' = [mem EXCEPT ![j] = Failed(mem[j])] \/ mem' = [mem EXCEPT ![j] = row[j]]
    BY DEF Fail
  <2>3. row = [row EXCEPT ![j] = row[j]] /\ audit = [audit EXCEPT ![j] = audit[j]]
    BY DEF TaskInv, TasksTyped, RowsTyped
  <2> QED  BY <2>1, <2>2, <2>3 DEF Writes
<1>5. "failAudit" \in Places_ /\ HoldsLock(j)  BY <1>1 DEF Places_, Stages, HoldsLock
<1>6. Knows(w, audit[j], m, "failAudit")
  BY <1>1, <1>2, <1>3 DEF TaskSound, Knows, Underway
<1>7. UNCHANGED <<works, charges, balance, lock, track>>  BY DEF Fail, credits, guards
<1>8. w \in Row /\ m \in Row /\ (w.status = "succeeded" <=> Made(j))
  BY <1>1, <1>2, <1>3 DEF Made
<1> QED  BY <1>1, <1>4, <1>5, <1>6, <1>7, <1>8, QuietMove

LEMMA FailAuditKeeps ==
  ASSUME TaskInv, NEW j \in Jobs, FailAudit(j)
  PROVE  TaskInv'
<1>1. row[j] \in Row /\ audit[j] \in Row /\ mem[j] \in Row /\ TaskSound(j) /\ pc[j] = "failAudit"
  BY DEF TaskInv, TasksTyped, RowsTyped, FailAudit
<1>2. PICK a \in {audit[j], mem[j]} : Writes(j, row[j], a, mem[j], "release")
  BY <1>1 DEF FailAudit, Writes, TaskInv, TasksTyped, RowsTyped
<1>3. "release" \in Places_ /\ HoldsLock(j)  BY <1>1 DEF Places_, Stages, HoldsLock
<1>4. Knows(row[j], a, mem[j], "release")
  BY <1>1 DEF TaskSound, Knows, Underway
<1>5. UNCHANGED <<works, charges, balance, lock, track>>  BY DEF FailAudit, credits, guards
<1> QED  BY <1>1, <1>2, <1>3, <1>4, <1>5, QuietMove DEF Made

LEMMA LockMoves ==
  ASSUME TaskInv, NEW j \in Jobs, NEW s \in Places_, Goto(j, s), UNCHANGED <<row, audit, mem>>,
         Knows(row[j], audit[j], mem[j], s), UNCHANGED <<works, charges, balance, track>>,
         \/ s = "locked" /\ OwnerOf[j] \notin lock /\ lock' = lock \cup {OwnerOf[j]}
         \/ HoldsLock(j) /\ s \notin Stages \cup {"locked"} /\ lock' = lock \ {OwnerOf[j]}
  PROVE  TaskInv'
<1>1. Writes(j, row[j], audit[j], mem[j], s) /\ row[j] \in Row /\ audit[j] \in Row
      /\ mem[j] \in Row
  BY SameRows
<1>2. /\ RowsTyped' /\ pc' \in [Jobs -> Places_] /\ \A i \in Jobs : TaskSound(i)'
      /\ row'[j] = row[j] /\ pc'[j] = s
      /\ \A i \in Jobs : i # j => row'[i] = row[i] /\ pc'[i] = pc[i]
  BY <1>1, JobMoves
<1>3. TasksTyped'  BY <1>2, VideoConstants DEF TaskInv, TasksTyped
<1>4. LockHeld /\ \A i \in Jobs : i # j => (HoldsLock(i)' <=> HoldsLock(i))
  BY <1>2 DEF TaskInv, HoldsLock
<1>5. LockHeld'
  <2>1. CASE s = "locked" /\ OwnerOf[j] \notin lock /\ lock' = lock \cup {OwnerOf[j]}
    <3>1. ASSUME NEW i \in Jobs, i # j, HoldsLock(i)'
          PROVE  OwnerOf[i] \in lock' /\ OwnerOf[i] # OwnerOf[j]
      BY <1>4, <2>1, <3>1 DEF LockHeld
    <3>2. \A h, i \in Jobs : h # j /\ i # j /\ HoldsLock(h)' /\ HoldsLock(i)'
             /\ OwnerOf[h] = OwnerOf[i] => h = i
      BY <1>4 DEF LockHeld
    <3> QED  BY <2>1, <3>1, <3>2 DEF LockHeld
  <2>2. CASE HoldsLock(j) /\ s \notin Stages \cup {"locked"} /\ lock' = lock \ {OwnerOf[j]}
    <3>1. ~HoldsLock(j)'  BY <1>2, <2>2 DEF HoldsLock
    <3>2. ASSUME NEW i \in Jobs, HoldsLock(i)'
          PROVE  HoldsLock(i) /\ OwnerOf[i] \in lock' /\ i # j
      <4>1. i # j /\ HoldsLock(i)  BY <1>4, <3>1, <3>2
      <4>2. OwnerOf[i] # OwnerOf[j] /\ OwnerOf[i] \in lock  BY <1>4, <2>2, <4>1 DEF LockHeld
      <4> QED  BY <2>2, <4>1, <4>2
    <3> QED  BY <1>4, <3>2 DEF LockHeld
  <2> QED  BY <2>1, <2>2
<1>6. \A i \in Jobs : Made(i)' = Made(i)  BY DEF Made
<1>7. PaidForWhatWasMade'  BY <1>6, NothingMade DEF TaskInv
<1> QED  BY <1>2, <1>3, <1>5, <1>7 DEF TaskInv

LEMMA TryAcquireKeeps ==
  ASSUME TaskInv, NEW j \in Jobs, TryAcquire(j)
  PROVE  TaskInv'
<1>1. pc[j] = "prepared" /\ UNCHANGED <<row, audit, mem, works, charges, balance, track>>
  BY DEF TryAcquire, rows, credits
<1>2. TaskSound(j)  BY DEF TaskInv
<1>3. {"locked", "refused"} \subseteq Places_ /\ "refused" \notin Stages \cup {"locked"}
  BY DEF Places_, Waiting, Over, Stages
<1>4. CASE OwnerOf[j] \in lock
  <2>1. Goto(j, "refused") /\ lock' = lock  BY <1>4 DEF TryAcquire
  <2>2. Writes(j, row[j], audit[j], mem[j], "refused") /\ row[j] \in Row /\ audit[j] \in Row
        /\ mem[j] \in Row
    BY <1>1, <1>3, <2>1, SameRows
  <2>3. Knows(row[j], audit[j], mem[j], "refused")
    BY <1>1, <1>2 DEF TaskSound, Knows, Underway
  <2> QED  BY <1>1, <1>3, <2>1, <2>2, <2>3, QuietMove DEF Made
<1>5. CASE OwnerOf[j] \notin lock
  <2>1. Goto(j, "locked") /\ lock' = lock \cup {OwnerOf[j]}  BY <1>5 DEF TryAcquire
  <2>2. Knows(row[j], audit[j], mem[j], "locked")
    BY <1>1, <1>2 DEF TaskSound, Knows, Underway
  <2> QED  BY <1>1, <1>3, <1>5, <2>1, <2>2, LockMoves
<1> QED  BY <1>4, <1>5

LEMMA CreateKeeps ==
  ASSUME TaskInv, NEW j \in Jobs, Create(j)
  PROVE  TaskInv'
<1>1. pc[j] = "locked" /\ UNCHANGED <<works, charges, balance, track>>
  BY DEF Create, credits
<1>2. TaskSound(j) /\ HoldsLock(j)  BY <1>1 DEF TaskInv, HoldsLock
<1>3. {"start", "refused"} \subseteq Places_ /\ "refused" \notin Stages \cup {"locked"}
  BY DEF Places_, Waiting, Over, Stages
<1>4. row[j].status # "succeeded"  BY <1>1, <1>2 DEF TaskSound, Knows
<1>5. CASE Writes(j, Queued, Queued, Queued, "start") /\ lock' = lock
  <2>1. Queued \in Row /\ Queued.status = "queued" /\ ~Queued.paid
    BY DEF Queued, NoRow, Row, Statuses
  <2>2. Knows(Queued, Queued, Queued, "start")  BY <2>1 DEF Knows
  <2> QED  BY <1>1, <1>2, <1>3, <1>4, <1>5, <2>1, <2>2, QuietMove DEF Made
<1>6. CASE lock' = lock \ {OwnerOf[j]} /\ Goto(j, "refused") /\ UNCHANGED <<row, audit, mem>>
  <2>1. Knows(row[j], audit[j], mem[j], "refused")
    BY <1>1, <1>2 DEF TaskSound, Knows, Underway
  <2> QED  BY <1>1, <1>2, <1>3, <1>6, <2>1, LockMoves
<1> QED  BY <1>5, <1>6 DEF Create, Writes

LEMMA ReleaseKeeps ==
  ASSUME TaskInv, NEW j \in Jobs, Release(j)
  PROVE  TaskInv'
<1>1. /\ pc[j] = "release" /\ Goto(j, "done") /\ lock' = lock \ {OwnerOf[j]}
      /\ UNCHANGED <<row, audit, mem, works, charges, balance, track>>
  BY DEF Release, rows, credits
<1>2. TaskSound(j) /\ HoldsLock(j)  BY <1>1 DEF TaskInv, HoldsLock, Stages
<1>3. "done" \in Places_ /\ "done" \notin Stages \cup {"locked"}
  BY DEF Places_, Over, Stages
<1>4. Knows(row[j], audit[j], mem[j], "done")
  BY <1>1, <1>2 DEF TaskSound, Knows, Underway
<1> QED  BY <1>1, <1>2, <1>3, <1>4, LockMoves

\* Paying for one thing more: the sum of what was spent grows by its price.
LEMMA VideoPaidFor ==
  ASSUME TaskInv, NEW j \in Jobs, Deducts(OwnerOf[j], j, Cost), ~Made(j), Made(j)',
         \A i \in Jobs : i # j => (Made(i)' <=> Made(i)), track' = track
  PROVE  PaidForWhatWasMade'
<1> DEFINE V(u) == {i \in Jobs : OwnerOf[i] = u /\ row[i].status = "succeeded"}
           M(u) == {t \in Tracks : OwnerOf[track[t].of] = u /\ track[t].pc = "made"}
<1>1. /\ balance' = [balance EXCEPT ![OwnerOf[j]] = @ - Cost]
      /\ charges' = [charges EXCEPT ![j] = @ + 1]
      /\ balance \in [Users -> Nat] /\ charges \in [Jobs \cup Tracks -> Nat] /\ PaidForWhatWasMade
  BY DEF Deducts, TaskInv, TasksTyped
<1>2. ASSUME NEW u \in Users  PROVE balance'[u] + Spent(u)' = InitialCredits
  <2>1. IsFiniteSet(V(u)) /\ IsFiniteSet(M(u))  BY SetsPaidFor
  <2>2. balance[u] + (Cost * Cardinality(V(u)) + TrackCost * Cardinality(M(u))) = InitialCredits
    BY <1>1 DEF PaidForWhatWasMade, Spent
  <2>3. M(u)' = M(u)  OBVIOUS
  <2>4. Cardinality(V(u)) \in Nat /\ Cardinality(M(u)) \in Nat  BY <2>1, FS_CardinalityType
  <2>5. Cost \in Nat /\ TrackCost \in Nat /\ InitialCredits \in Nat  BY VideoConstants
  <2>6. CASE u = OwnerOf[j]
    <3>1. V(u)' = V(u) \cup {j} /\ j \notin V(u)  BY <2>6 DEF Made
    <3>2. Cost * Cardinality(V(u) \cup {j}) = Cost * Cardinality(V(u)) + Cost
      BY <2>1, <2>5, <3>1, OneMore
    <3>3. balance'[u] = balance[u] - Cost  BY <1>1, <2>6
    <3>4. Spent(u)' = (Cost * Cardinality(V(u)) + Cost) + TrackCost * Cardinality(M(u))
      BY <2>3, <3>1, <3>2 DEF Spent
    <3>5. balance[u] \in Int /\ Cost * Cardinality(V(u)) \in Int
          /\ TrackCost * Cardinality(M(u)) \in Int
      BY <1>1, <2>4, <2>5
    <3> HIDE DEF V, M
    <3> QED  BY <2>2, <2>5, <3>3, <3>4, <3>5
  <2>7. CASE u # OwnerOf[j]
    <3>1. V(u)' = V(u)  BY <2>7 DEF Made
    <3>2. balance'[u] = balance[u]  BY <1>1, <2>7
    <3> QED  BY <2>2, <2>3, <3>1, <3>2 DEF Spent
  <2> QED  BY <2>6, <2>7
<1>3. ASSUME NEW i \in Jobs  PROVE charges'[i] = IF row'[i].status = "succeeded" THEN 1 ELSE 0
  <2>1. CASE i = j  BY <1>1, <2>1 DEF PaidForWhatWasMade, Made
  <2>2. CASE i # j  BY <1>1, <2>2 DEF PaidForWhatWasMade, Made
  <2> QED  BY <2>1, <2>2
<1>4. ASSUME NEW t \in Tracks  PROVE charges'[t] = IF track'[t].pc = "made" THEN 1 ELSE 0
  <2>1. t # j  BY VideoConstants
  <2> QED  BY <1>1, <2>1 DEF PaidForWhatWasMade
<1> QED  BY <1>2, <1>3, <1>4 DEF PaidForWhatWasMade

LEMMA TrackPaidFor ==
  ASSUME TaskInv, NEW t \in Tracks, Deducts(OwnerOf[track[t].of], t, TrackCost),
         track[t].pc = "asked", track' = [track EXCEPT ![t].pc = "made"], row' = row
  PROVE  PaidForWhatWasMade'
<1> DEFINE V(u) == {i \in Jobs : OwnerOf[i] = u /\ row[i].status = "succeeded"}
           M(u) == {x \in Tracks : OwnerOf[track[x].of] = u /\ track[x].pc = "made"}
<1>1. /\ balance' = [balance EXCEPT ![OwnerOf[track[t].of]] = @ - TrackCost]
      /\ charges' = [charges EXCEPT ![t] = @ + 1]
      /\ balance \in [Users -> Nat] /\ charges \in [Jobs \cup Tracks -> Nat] /\ PaidForWhatWasMade
  BY DEF Deducts, TaskInv, TasksTyped
<1>2. /\ track'[t].pc = "made" /\ track'[t].of = track[t].of
      /\ \A x \in Tracks : x # t => track'[x] = track[x]
  BY DEF TaskInv, TasksTyped
<1>3. ASSUME NEW u \in Users  PROVE balance'[u] + Spent(u)' = InitialCredits
  <2>1. IsFiniteSet(V(u)) /\ IsFiniteSet(M(u))  BY SetsPaidFor
  <2>2. balance[u] + (Cost * Cardinality(V(u)) + TrackCost * Cardinality(M(u))) = InitialCredits
    BY <1>1 DEF PaidForWhatWasMade, Spent
  <2>3. V(u)' = V(u)  OBVIOUS
  <2>4. Cardinality(V(u)) \in Nat /\ Cardinality(M(u)) \in Nat  BY <2>1, FS_CardinalityType
  <2>5. Cost \in Nat /\ TrackCost \in Nat /\ InitialCredits \in Nat  BY VideoConstants
  <2>6. CASE u = OwnerOf[track[t].of]
    <3>1. M(u)' = M(u) \cup {t} /\ t \notin M(u)  BY <1>2, <2>6
    <3>2. TrackCost * Cardinality(M(u) \cup {t}) = TrackCost * Cardinality(M(u)) + TrackCost
      BY <2>1, <2>5, <3>1, OneMore
    <3>3. balance'[u] = balance[u] - TrackCost  BY <1>1, <2>6
    <3>4. Spent(u)' = Cost * Cardinality(V(u)) + (TrackCost * Cardinality(M(u)) + TrackCost)
      BY <2>3, <3>1, <3>2 DEF Spent
    <3>5. balance[u] \in Int /\ Cost * Cardinality(V(u)) \in Int
          /\ TrackCost * Cardinality(M(u)) \in Int
      BY <1>1, <2>4, <2>5
    <3> HIDE DEF V, M
    <3> QED  BY <2>2, <2>5, <3>3, <3>4, <3>5
  <2>7. CASE u # OwnerOf[track[t].of]
    <3>1. M(u)' = M(u)  BY <1>2, <2>7
    <3>2. balance'[u] = balance[u]  BY <1>1, <2>7
    <3> QED  BY <2>2, <2>3, <3>1, <3>2 DEF Spent
  <2> QED  BY <2>6, <2>7
<1>4. ASSUME NEW x \in Tracks  PROVE charges'[x] = IF track'[x].pc = "made" THEN 1 ELSE 0
  <2>1. CASE x = t  BY <1>1, <1>2, <2>1 DEF PaidForWhatWasMade
  <2>2. CASE x # t  BY <1>1, <1>2, <2>2 DEF PaidForWhatWasMade
  <2> QED  BY <2>1, <2>2
<1>5. ASSUME NEW i \in Jobs  PROVE charges'[i] = IF row'[i].status = "succeeded" THEN 1 ELSE 0
  <2>1. t # i  BY VideoConstants
  <2> QED  BY <1>1, <2>1 DEF PaidForWhatWasMade
<1> QED  BY <1>3, <1>4, <1>5 DEF PaidForWhatWasMade

\* What paying leaves of the types.
LEMMA DeductsTyped ==
  ASSUME balance \in [Users -> Nat], charges \in [Jobs \cup Tracks -> Nat],
         NEW u \in Users, NEW x \in Jobs \cup Tracks, NEW c \in Nat, Deducts(u, x, c)
  PROVE  balance' \in [Users -> Nat] /\ charges' \in [Jobs \cup Tracks -> Nat]
<1>1. balance[u] \in Nat /\ balance[u] - c \in Nat  BY DEF Deducts
<1> QED  BY <1>1 DEF Deducts

LEMMA PersistWorkKeeps ==
  ASSUME TaskInv, NEW j \in Jobs, PersistWork(j)
  PROVE  TaskInv'
<1>1. row[j] \in Row /\ audit[j] \in Row /\ mem[j] \in Row /\ TaskSound(j) /\ pc[j] = "persist"
  BY DEF TaskInv, TasksTyped, RowsTyped, PersistWork
<1>2. /\ Finished(mem[j]) \in Row
      /\ Finished(mem[j]).status = "succeeded"
  BY <1>1 DEF Finished, Row, Statuses
<1>3. UNCHANGED <<lock, track>> /\ HoldsLock(j)
  BY <1>1 DEF PersistWork, guards, HoldsLock, Stages
<1>4. {"release", "fail"} \subseteq Places_  BY DEF Places_, Stages
<1>5. CASE /\ Deducts(OwnerOf[j], j, Cost) /\ works' = works \cup {j}
           /\ Writes(j, Finished(mem[j]), Finished(mem[j]), Finished(mem[j]), "release")
  <2> DEFINE f == Finished(mem[j])
  <2>1. Knows(f, f, f, "release")  BY <1>2 DEF Knows, Underway
  <2> HIDE DEF f
  <2>2. /\ RowsTyped' /\ pc' \in [Jobs -> Places_] /\ \A i \in Jobs : TaskSound(i)'
        /\ row'[j] = f /\ pc'[j] = "release"
        /\ \A i \in Jobs : i # j => row'[i] = row[i] /\ pc'[i] = pc[i]
    BY <1>2, <1>4, <1>5, <2>1, JobMoves DEF f
  <2>3. balance' \in [Users -> Nat] /\ charges' \in [Jobs \cup Tracks -> Nat]
    BY <1>5, VideoConstants, DeductsTyped DEF TaskInv, TasksTyped
  <2>4. TasksTyped'  BY <1>3, <1>5, <2>2, <2>3 DEF TaskInv, TasksTyped
  <2>5. LockHeld'
    <3>1. \A i \in Jobs : HoldsLock(i)' => HoldsLock(i)  BY <1>3, <2>2 DEF HoldsLock
    <3> QED  BY <1>3, <3>1, LockStays DEF TaskInv
  <2>6. ~Made(j) /\ Made(j)' /\ \A i \in Jobs : i # j => (Made(i)' <=> Made(i))
    BY <1>1, <1>2, <2>2 DEF Made, TaskSound, Knows, Underway, f
  <2>7. PaidForWhatWasMade'  BY <1>3, <1>5, <2>6, VideoPaidFor
  <2> QED  BY <2>2, <2>4, <2>5, <2>7 DEF TaskInv
<1>6. ASSUME NEW m \in {mem[j], Finished(mem[j])}, Writes(j, row[j], audit[j], m, "fail"),
             UNCHANGED <<works, charges, balance>>
      PROVE  TaskInv'
  <2>1. Knows(row[j], audit[j], m, "fail")  BY <1>1 DEF TaskSound, Knows, Underway
  <2> QED  BY <1>1, <1>2, <1>3, <1>4, <1>6, <2>1, QuietMove DEF Made
<1>7. ASSUME Goto(j, "fail"), UNCHANGED <<row, audit, works, credits>>,
             mem' = mem \/ mem' = [mem EXCEPT ![j] = Finished(mem[j])]
      PROVE  \E m \in {mem[j], Finished(mem[j])} : Writes(j, row[j], audit[j], m, "fail")
  <2>1. /\ row = [row EXCEPT ![j] = row[j]] /\ audit = [audit EXCEPT ![j] = audit[j]]
        /\ mem = [mem EXCEPT ![j] = mem[j]]
    BY DEF TaskInv, TasksTyped, RowsTyped
  <2> QED  BY <1>7, <2>1 DEF Writes
<1> QED  BY <1>5, <1>6, <1>7 DEF PersistWork, Writes, credits

\* The steps of no task.
LEMMA RowsStay ==
  ASSUME TaskInv, UNCHANGED <<row, audit, mem, pc, lock>>
  PROVE  /\ RowsTyped' /\ pc' \in [Jobs -> Places_] /\ lock' \subseteq Users
         /\ \A i \in Jobs : TaskSound(i)' /\ Made(i)' = Made(i)
         /\ LockHeld'
<1>1. \A i \in Jobs : TaskSound(i)'  BY DEF TaskInv, TaskSound
<1>2. LockHeld'
  <2>1. \A i \in Jobs : HoldsLock(i)' => HoldsLock(i)  BY DEF HoldsLock
  <2> QED  BY <2>1, LockStays DEF TaskInv
<1> QED  BY <1>1, <1>2 DEF TaskInv, TasksTyped, RowsTyped, Made

LEMMA TrackStarts ==
  ASSUME TaskInv, NEW t \in Tracks, NEW j \in Jobs, AskTrack(t, j) \/ UploadTrack(t, j)
  PROVE  TaskInv'
<1>1. PICK p \in {"refused", "asked", "uploaded"} :
         track' = [track EXCEPT ![t] = [pc |-> p, of |-> j]]
  BY DEF AskTrack, UploadTrack
<1>2. track[t].pc = "new" /\ UNCHANGED <<row, audit, mem, pc, lock, works, charges, balance>>
  BY DEF AskTrack, UploadTrack, rows, credits, guards
<1>3. track \in [Tracks -> [pc : {"new", "asked", "made", "uploaded", "refused"}, of : Jobs]]
  BY DEF TaskInv, TasksTyped
<1>4. track' \in [Tracks -> [pc : {"new", "asked", "made", "uploaded", "refused"}, of : Jobs]]
  BY <1>1, <1>3
<1>5. \A x \in Tracks : /\ track'[x].pc = "made" <=> track[x].pc = "made"
                        /\ track[x].pc = "made" => track'[x].of = track[x].of
  BY <1>1, <1>2, <1>3
<1>6. /\ RowsTyped' /\ pc' \in [Jobs -> Places_] /\ lock' \subseteq Users
      /\ \A i \in Jobs : TaskSound(i)' /\ Made(i)' = Made(i)
      /\ LockHeld'
  BY <1>2, RowsStay
<1>7. PaidForWhatWasMade'  BY <1>2, <1>5, <1>6, NothingMade DEF TaskInv
<1> QED  BY <1>2, <1>4, <1>6, <1>7 DEF TaskInv, TasksTyped

LEMMA PersistTrackKeeps ==
  ASSUME TaskInv, NEW t \in Tracks, PersistTrack(t)
  PROVE  TaskInv'
<1> DEFINE u == OwnerOf[track[t].of]
<1>1. track[t].pc = "asked" /\ UNCHANGED <<row, audit, mem, pc, lock, works>>
  BY DEF PersistTrack, rows, guards
<1>2. track \in [Tracks -> [pc : {"new", "asked", "made", "uploaded", "refused"}, of : Jobs]]
  BY DEF TaskInv, TasksTyped
<1>3. /\ RowsTyped' /\ pc' \in [Jobs -> Places_] /\ lock' \subseteq Users
      /\ \A i \in Jobs : TaskSound(i)' /\ Made(i)' = Made(i)
      /\ LockHeld'
  BY <1>1, RowsStay
<1>4. CASE Deducts(u, t, TrackCost) /\ track' = [track EXCEPT ![t].pc = "made"]
  <2>1. PaidForWhatWasMade'  BY <1>1, <1>4, TrackPaidFor
  <2>2. track[t].of \in Jobs /\ u \in Users /\ TrackCost \in Nat  BY <1>2, VideoConstants
  <2>3. balance' \in [Users -> Nat] /\ charges' \in [Jobs \cup Tracks -> Nat]
    BY <1>4, <2>2, DeductsTyped DEF TaskInv, TasksTyped
  <2>4. track' \in [Tracks -> [pc : {"new", "asked", "made", "uploaded", "refused"}, of : Jobs]]
    BY <1>2, <1>4
  <2> QED  BY <1>1, <1>3, <2>1, <2>3, <2>4 DEF TaskInv, TasksTyped
<1>5. CASE track' = [track EXCEPT ![t].pc = "refused"] /\ UNCHANGED credits
  <2>1. track' \in [Tracks -> [pc : {"new", "asked", "made", "uploaded", "refused"}, of : Jobs]]
    BY <1>2, <1>5
  <2>2. \A x \in Tracks : /\ track'[x].pc = "made" <=> track[x].pc = "made"
                          /\ track[x].pc = "made" => track'[x].of = track[x].of
    BY <1>1, <1>2, <1>5
  <2>3. PaidForWhatWasMade'  BY <1>3, <1>5, <2>2, NothingMade DEF TaskInv, credits
  <2> QED  BY <1>1, <1>3, <1>5, <2>1, <2>3 DEF TaskInv, TasksTyped, credits
<1> QED  BY <1>4, <1>5 DEF PersistTrack

\* Neither a deleted work nor the window of the limiter nor the readiness is
\* part of what is paid for.
LEMMA AsideKeeps ==
  ASSUME TaskInv, UNCHANGED <<row, audit, mem, pc, lock, charges, balance, track>>,
         works' \subseteq works
  PROVE  TaskInv'
<1>1. /\ RowsTyped' /\ pc' \in [Jobs -> Places_] /\ lock' \subseteq Users
      /\ \A i \in Jobs : TaskSound(i)' /\ Made(i)' = Made(i)
      /\ LockHeld'
  BY RowsStay
<1>2. PaidForWhatWasMade'  BY <1>1, NothingMade DEF TaskInv
<1> QED  BY <1>1, <1>2 DEF TaskInv, TasksTyped

LEMMA CrashKeeps ==
  ASSUME TaskInv, Crash
  PROVE  TaskInv'
<1>1. /\ UNCHANGED <<row, audit, mem, works, charges, balance>> /\ lock' = {}
      /\ pc' = [j \in Jobs |->
           IF Live(j) THEN "lost" ELSE IF pc[j] \in {"prepared", "locked"} THEN "refused" ELSE pc[j]]
      /\ track' = [t \in Tracks |->
           IF track[t].pc = "asked" THEN [track[t] EXCEPT !.pc = "refused"] ELSE track[t]]
  BY DEF Crash, rows, credits
<1>2. /\ track \in [Tracks -> [pc : {"new", "asked", "made", "uploaded", "refused"}, of : Jobs]]
      /\ pc \in [Jobs -> Places_]
  BY DEF TaskInv, TasksTyped
<1>3. pc' \in [Jobs -> Places_]  BY <1>1, <1>2 DEF Places_, Over
<1>4. track' \in [Tracks -> [pc : {"new", "asked", "made", "uploaded", "refused"}, of : Jobs]]
  BY <1>1, <1>2
<1>5. \A t \in Tracks : /\ track'[t].pc = "made" <=> track[t].pc = "made"
                        /\ track[t].pc = "made" => track'[t].of = track[t].of
  BY <1>1, <1>2
<1>6. \A i \in Jobs : Made(i)' = Made(i)  BY <1>1 DEF Made
<1>7. PaidForWhatWasMade'  BY <1>1, <1>5, <1>6, NothingMade DEF TaskInv
<1>8. LockHeld'
  <2>1. \A j \in Jobs : ~HoldsLock(j)'  BY <1>1 DEF HoldsLock, Live, Stages
  <2> QED  BY <2>1 DEF LockHeld
<1>9. ASSUME NEW j \in Jobs  PROVE TaskSound(j)'
  <2>1. pc'[j] = pc[j] \/ pc'[j] \in {"lost", "refused"}  BY <1>1
  <2>2. Knows(row[j], audit[j], mem[j], pc[j])  BY DEF TaskInv, TaskSound
  <2>3. Knows(row[j], audit[j], mem[j], pc'[j])  BY <2>1, <2>2 DEF Knows, Underway
  <2> QED  BY <1>1, <2>3 DEF TaskSound
<1> QED  BY <1>1, <1>3, <1>4, <1>7, <1>8, <1>9 DEF TaskInv, TasksTyped, RowsTyped

LEMMA TaskStep ==
  ASSUME TaskInv, [Next]_vars
  PROVE  TaskInv'
<1>1. CASE UNCHANGED vars  BY <1>1, AsideKeeps DEF vars
<1>2. ASSUME NEW j \in Jobs, Prepare(j) \/ Step(j) \/ DeleteWork(j)  PROVE TaskInv'
  <2>1. CASE Prepare(j)  BY <2>1, PrepareKeeps
  <2>2. CASE TryAcquire(j)  BY <2>2, TryAcquireKeeps
  <2>3. CASE Create(j)  BY <2>3, CreateKeeps
  <2>4. CASE Start(j) \/ Note(j)  BY <2>4, RecordSteps
  <2>5. CASE Mark(j)
    <3>1. pc[j] = "mark" /\ SyncAudit(j, "submit")  BY <2>5 DEF Mark
    <3> QED  BY <3>1, SyncAuditKeeps DEF Underway
  <2>6. CASE NoteAudit(j)
    <3>1. pc[j] = "noteAudit" /\ SyncAudit(j, "poll")  BY <2>6 DEF NoteAudit
    <3> QED  BY <3>1, SyncAuditKeeps DEF Underway
  <2>7. CASE Submit(j) \/ Poll(j)  BY <2>7, AskProviderKeeps
  <2>8. CASE PersistWork(j)  BY <2>8, PersistWorkKeeps
  <2>9. CASE Fail(j)  BY <2>9, FailKeeps
  <2>10. CASE FailAudit(j)  BY <2>10, FailAuditKeeps
  <2>11. CASE Release(j)  BY <2>11, ReleaseKeeps
  <2>12. CASE DeleteWork(j)  BY <2>12, AsideKeeps DEF DeleteWork, credits, guards
  <2> QED  BY <1>2, <2>1, <2>2, <2>3, <2>4, <2>5, <2>6, <2>7, <2>8, <2>9, <2>10, <2>11, <2>12
           DEF Step
<1>3. ASSUME NEW t \in Tracks,
             PersistTrack(t) \/ \E j \in Jobs : AskTrack(t, j) \/ UploadTrack(t, j)
      PROVE  TaskInv'
  BY <1>3, PersistTrackKeeps, TrackStarts
<1>4. ASSUME NEW u \in Users, WindowPasses(u)  PROVE TaskInv'
  BY <1>4, AsideKeeps DEF WindowPasses, rows, credits
<1>5. CASE UpdateReadiness  BY <1>5, AsideKeeps DEF UpdateReadiness, rows, credits
<1>6. CASE Crash  BY <1>6, CrashKeeps
<1> QED  BY <1>1, <1>2, <1>3, <1>4, <1>5, <1>6 DEF Next

\* What users pay, see and have under way agrees with the records: every credit
\* gone from a balance is the price of one finished video or one soundtrack made,
\* the history never shows more than was made and paid, and a user never has two
\* videos under way, whatever the requests, the failures and the crashes of the
\* process (persistVideoWork, syncVideoGenerationAuditRecord, ConcurrencyLimiter).
THEOREM VideosAlwaysAddUp == Spec => []VideosAddUp
<1>1. TaskInv => VideosAddUp
  <2> SUFFICES ASSUME TaskInv  PROVE VideosAddUp
    OBVIOUS
  <2>1. OneVideoPerUser
    <3>1. \A j \in Jobs : Live(j) => HoldsLock(j)  BY DEF Live, HoldsLock
    <3> QED  BY <3>1 DEF OneVideoPerUser, TaskInv, LockHeld
  <2>2. HistoryNeverAhead
    <3> SUFFICES ASSUME NEW j \in Jobs
                 PROVE  /\ Shown(j).status = "succeeded" => row[j].status = "succeeded"
                        /\ Shown(j).price > 0 => charges[j] = 1
      BY DEF HistoryNeverAhead
    <3>1. /\ Shown(j).status = audit[j].status
          /\ Shown(j).price = IF audit[j].paid THEN Cost ELSE 0
      BY DEF Shown
    <3>2. audit[j].status = "succeeded" \/ audit[j].paid => row[j].status = "succeeded"
      BY DEF TaskInv, TaskSound, Knows
    <3>3. charges[j] = IF row[j].status = "succeeded" THEN 1 ELSE 0
      BY DEF TaskInv, PaidForWhatWasMade
    <3> QED  BY <3>1, <3>2, <3>3
  <2> QED  BY <2>1, <2>2 DEF VideosAddUp, TaskInv
<1> QED  BY <1>1, InitTasks, TaskStep, PTL DEF Spec

-----------------------------------------------------------------------------
(***************************************************************************)
(* The providers of videos.  A call that polls follows a task that was     *)
(* taken, and one that fetches follows a task that was made.               *)
(***************************************************************************)
Addresses == Video \cup {Cover}
CallStages == {"new", "poll", "sleep", "fetch", "content", "over"}
Protocols  == {"plain", "ark", "zz", "wuyin", "music"}
Outcomes   == {"none", "video", "cover", "empty", "failed", "refused", "error", "timeout"}
Remotes    == {"none", "waiting", "making", "made", "failed", "expired"}

CallsTyped ==
    /\ protocol \in [Orders -> Protocols] /\ remote \in [Orders -> Remotes]
    /\ order \in [Orders -> [at : CallStages, told : Seq(Addresses)]]
    /\ outcome \in [Orders -> Outcomes]

\* What holds of a call by protocol p that is at stage s and was told a list of
\* addresses, of its task r and of the outcome w.
Follows(p, r, s, list, w) ==
    /\ s = "new" => r = "none"
    /\ s # "over" => w = "none"
    /\ s \notin {"new", "over"} /\ p # "music" => r # "none"
    /\ s \in {"fetch", "content"} => r = "made"
    /\ s = "fetch" => list # <<>> /\ Picked(list).of \in {"video", "cover"}
    /\ s = "fetch" /\ Picked(list).of = "cover" => p = "wuyin" /\ NoneLikely(list)
    /\ w \in {"video", "cover"} => r = "made"
    /\ w = "cover" => p = "wuyin" /\ NoneLikely(list)
    /\ w = "failed" => r \in {"failed", "expired"}
    /\ w = "refused" => r = "none"

CallSound(o) == Follows(protocol[o], remote[o], order[o].at, order[o].told, outcome[o])
CallsInv == CallsTyped /\ \A o \in Orders : CallSound(o)

\* The video is taken although pictures come with it, if any address looks like one.
LEMMA PickedIsVideo ==
  ASSUME NEW o, NEW list \in Told(o) \cup {<<Sound>>}, list # <<>>
  PROVE  /\ list \in Seq(Addresses) /\ Picked(list).of \in {"video", "cover"}
         /\ Picked(list).of = "cover" => protocol[o] = "wuyin" /\ NoneLikely(list)
<1>1. /\ Cover \in Addresses /\ Cover.of = "cover" /\ ~Cover.likely /\ Sound \in Video
      /\ \A v \in Video : v \in Addresses /\ v.of = "video" /\ v.likely \in BOOLEAN
      /\ \A a \in Addresses : a.of \in {"video", "cover"} /\ (a.likely => a.of = "video")
  BY DEF Cover, Addresses, Video, Sound
<1>2. /\ list \in Seq(Addresses) /\ DOMAIN list \in {{1}, {1, 2}}
      /\ list[1].of = "cover" => protocol[o] = "wuyin"
  <2>1. CASE list = <<Cover>> /\ protocol[o] = "wuyin"  BY <1>1, <2>1
  <2>2. CASE \E v \in Video : list = <<v>>  BY <1>1, <2>2
  <2>3. CASE \E v \in Video : list = <<v, Cover>>  BY <1>1, <2>3
  <2>4. CASE (\E v \in Video : list = <<Cover, v>>) /\ protocol[o] = "wuyin"  BY <1>1, <2>4
  <2> QED  BY <1>1, <2>1, <2>2, <2>3, <2>4 DEF Told
<1> DEFINE likely == {i \in DOMAIN list : list[i].likely}
<1>3. \A i \in DOMAIN list : list[i] \in Addresses  BY <1>2
<1>4. CASE likely = {}
  <2>1. Picked(list) = list[1] /\ 1 \in DOMAIN list  BY <1>2, <1>4 DEF Picked
  <2> QED  BY <1>1, <1>2, <1>3, <1>4, <2>1 DEF NoneLikely
<1>5. CASE likely # {}
  <2>1. \E i \in likely : \A k \in likely : i <= k  BY <1>2, <1>5
  <2>2. PICK i \in likely : Picked(list) = list[i]  BY <1>5, <2>1 DEF Picked
  <2> QED  BY <1>1, <1>2, <1>3, <2>2
<1> QED  BY <1>4, <1>5

\* A word that ends a task in a protocol is said of a task that has ended so.
LEMMA WordsEnd ==
  ASSUME NEW o \in Orders, remote[o] \in Remotes, remote[o] # "none", NEW word \in Says(o, remote[o])
  PROVE  /\ protocol[o] = "plain" => /\ word \in PlainWords.failed => remote[o] \in {"failed", "expired"}
                                     /\ word \in PlainWords.done => remote[o] = "made"
         /\ protocol[o] = "ark" => /\ word \in ArkWords.failed => remote[o] \in {"failed", "expired"}
                                   /\ word \in ArkWords.done => remote[o] = "made"
         /\ protocol[o] = "zz" => /\ word \in ZZWords.failed => remote[o] \in {"failed", "expired"}
                                  /\ word \in ZZWords.done => remote[o] = "made"
         /\ protocol[o] = "wuyin" => /\ word \in WuyinWords.failed => remote[o] \in {"failed", "expired"}
                                     /\ word \in WuyinWords.done => remote[o] = "made"
<1>1. remote[o] \in {"waiting", "making", "made", "failed", "expired"}  BY DEF Remotes
<1>2. ASSUME protocol[o] = "plain"
      PROVE  /\ word \in PlainWords.failed => remote[o] \in {"failed", "expired"}
             /\ word \in PlainWords.done => remote[o] = "made"
  BY <1>1, <1>2 DEF Says, PlainWords
<1>3. ASSUME protocol[o] = "ark"
      PROVE  /\ word \in ArkWords.failed => remote[o] \in {"failed", "expired"}
             /\ word \in ArkWords.done => remote[o] = "made"
  BY <1>1, <1>3 DEF Says, ArkWords
<1>4. ASSUME protocol[o] = "zz"
      PROVE  /\ word \in ZZWords.failed => remote[o] \in {"failed", "expired"}
             /\ word \in ZZWords.done => remote[o] = "made"
  BY <1>1, <1>4 DEF Says, ZZWords
<1>5. ASSUME protocol[o] = "wuyin"
      PROVE  /\ word \in WuyinWords.failed => remote[o] \in {"failed", "expired"}
             /\ word \in WuyinWords.done => remote[o] = "made"
  BY <1>1, <1>5 DEF Says, WuyinWords
<1> QED  BY <1>2, <1>3, <1>4, <1>5

\* What a step does to an order.
Turns(o, r, s, list, w) ==
    /\ remote' = [remote EXCEPT ![o] = r] /\ outcome' = [outcome EXCEPT ![o] = w]
    /\ order' = [order EXCEPT ![o] = [at |-> s, told |-> list]]

LEMMA OrderMoves ==
  ASSUME CallsInv, NEW o \in Orders, protocol' = protocol, NEW r \in Remotes, NEW s \in CallStages,
         NEW list \in Seq(Addresses), NEW w \in Outcomes,
         Turns(o, r, s, list, w), Follows(protocol[o], r, s, list, w)
  PROVE  CallsInv'
<1> DEFINE c == [at |-> s, told |-> list]
<1>1. c \in [at : CallStages, told : Seq(Addresses)] /\ c.at = s /\ c.told = list  OBVIOUS
<1>2. /\ remote' = [remote EXCEPT ![o] = r] /\ outcome' = [outcome EXCEPT ![o] = w]
      /\ order' = [order EXCEPT ![o] = c]
  BY DEF Turns
<1> HIDE DEF c
<1>3. CallsTyped'  BY <1>1, <1>2 DEF CallsInv, CallsTyped
<1>4. /\ remote'[o] = r /\ outcome'[o] = w /\ order'[o] = c
      /\ \A i \in Orders : i # o =>
            remote'[i] = remote[i] /\ outcome'[i] = outcome[i] /\ order'[i] = order[i]
  BY <1>2 DEF CallsInv, CallsTyped
<1>5. ASSUME NEW i \in Orders  PROVE CallSound(i)'
  <2>1. CASE i = o  BY <1>1, <1>4, <2>1 DEF CallSound
  <2>2. CASE i # o
    <3>1. CallSound(i)  BY DEF CallsInv
    <3> QED  BY <1>4, <2>2, <3>1 DEF CallSound
  <2> QED  BY <2>1, <2>2
<1> QED  BY <1>3, <1>5 DEF CallsInv

\* The ways a step writes an order.
LEMMA OrderTurns ==
  ASSUME CallsInv, NEW o \in Orders, NEW r, remote' = [remote EXCEPT ![o] = r]
  PROVE  /\ \A s : Goes(o, s) => Turns(o, r, s, order[o].told, outcome[o])
         /\ \A w : Ends(o, w) => Turns(o, r, "over", order[o].told, w)
         /\ \A list : Fetches(o, list) => Turns(o, r, "fetch", list, outcome[o])
<1>1. order[o] \in [at : CallStages, told : Seq(Addresses)]  BY DEF CallsInv, CallsTyped
<1>2. outcome = [outcome EXCEPT ![o] = outcome[o]]  BY DEF CallsInv, CallsTyped
<1>3. \A s : [order[o] EXCEPT !.at = s] = [at |-> s, told |-> order[o].told]  BY <1>1
<1>4. \A s : [order EXCEPT ![o].at = s] = [order EXCEPT ![o] = [order[o] EXCEPT !.at = s]]
  OBVIOUS
<1> QED  BY <1>2, <1>3, <1>4 DEF Goes, Ends, Fetches, Turns

\* The typed parts of an order, and the turns that leave its task alone.
LEMMA OrderAt ==
  ASSUME CallsInv, NEW o \in Orders
  PROVE  /\ remote[o] \in Remotes /\ outcome[o] \in Outcomes /\ protocol[o] \in Protocols
         /\ order[o].at \in CallStages /\ order[o].told \in Seq(Addresses) /\ CallSound(o)
         /\ remote = [remote EXCEPT ![o] = remote[o]]
BY DEF CallsInv, CallsTyped

LEMMA FailsKeeps ==
  ASSUME CallsInv, NEW o \in Orders, protocol' = protocol,
         NEW r \in Remotes, remote' = [remote EXCEPT ![o] = r],
         NEW w \in {"error", "timeout", "empty"}, Ends(o, w)
  PROVE  CallsInv'
<1>1. order[o].told \in Seq(Addresses) /\ w \in Outcomes /\ "over" \in CallStages
  BY OrderAt DEF CallStages, Outcomes
<1>2. Turns(o, r, "over", order[o].told, w)  BY OrderTurns
<1>3. Follows(protocol[o], r, "over", order[o].told, w)  BY DEF Follows
<1> QED  BY <1>1, <1>2, <1>3, OrderMoves

LEMMA SubmitKeeps ==
  ASSUME CallsInv, NEW o \in Orders, protocol' = protocol, SubmitVideo(o)
  PROVE  CallsInv'
<1>1. order[o].at = "new" /\ (Refuses(o) \/ Sends(o))
  BY DEF SubmitVideo, SubmitPlain, SubmitArk, SubmitZZ, SubmitWuyin, Submits
<1>2. /\ remote[o] = "none" /\ outcome[o] = "none" /\ order[o].told \in Seq(Addresses)
      /\ remote = [remote EXCEPT ![o] = remote[o]]
  BY <1>1, OrderAt DEF CallSound, Follows
<1>3. {"waiting", "none"} \subseteq Remotes /\ {"over", "poll"} \subseteq CallStages
      /\ {"none", "refused"} \subseteq Outcomes
  BY DEF Remotes, CallStages, Outcomes
<1>4. CASE Refuses(o)
  <2>1. Turns(o, "none", "over", order[o].told, "refused")
    BY <1>2, <1>4, OrderTurns DEF Refuses
  <2>2. Follows(protocol[o], "none", "over", order[o].told, "refused")  BY DEF Follows
  <2> QED  BY <1>2, <1>3, <2>1, <2>2, OrderMoves
<1>5. CASE RequestFails(o) /\ remote' \in {remote, [remote EXCEPT ![o] = "waiting"]}
  <2>1. PICK r \in {"none", "waiting"} : remote' = [remote EXCEPT ![o] = r]  BY <1>2, <1>5
  <2> QED  BY <1>3, <1>5, <2>1, FailsKeeps DEF RequestFails
<1>6. CASE remote' = [remote EXCEPT ![o] = "waiting"] /\ Goes(o, "poll")
  <2>1. Turns(o, "waiting", "poll", order[o].told, "none")  BY <1>2, <1>6, OrderTurns
  <2>2. Follows(protocol[o], "waiting", "poll", order[o].told, "none")  BY DEF Follows
  <2> QED  BY <1>2, <1>3, <2>1, <2>2, OrderMoves
<1> QED  BY <1>1, <1>4, <1>5, <1>6 DEF Sends

LEMMA FetchesKeeps ==
  ASSUME CallsInv, NEW o \in Orders, protocol' = protocol, outcome[o] = "none",
         remote' = [remote EXCEPT ![o] = "made"],
         NEW list \in Told(o) \cup {<<Sound>>}, list # <<>>, Fetches(o, list)
  PROVE  CallsInv'
<1>1. /\ list \in Seq(Addresses) /\ Picked(list).of \in {"video", "cover"}
      /\ Picked(list).of = "cover" => protocol[o] = "wuyin" /\ NoneLikely(list)
  BY PickedIsVideo
<1>2. Turns(o, "made", "fetch", list, "none")  BY OrderTurns
<1>3. Follows(protocol[o], "made", "fetch", list, "none")  BY <1>1 DEF Follows
<1> QED  BY <1>1, <1>2, <1>3, OrderMoves DEF Remotes, Outcomes, CallStages

LEMMA PollKeeps ==
  ASSUME CallsInv, NEW o \in Orders, protocol' = protocol, PollVideo(o)
  PROVE  CallsInv'
<1>1. order[o].at = "poll" /\ remote' = remote /\ protocol[o] \in {"plain", "ark", "zz", "wuyin"}
  BY DEF PollVideo, PollPlain, PollArk, PollZZ, PollWuyin, Polls
<1>2. /\ remote[o] \in Remotes /\ outcome[o] = "none" /\ order[o].told \in Seq(Addresses)
      /\ remote' = [remote EXCEPT ![o] = remote[o]] /\ remote[o] # "none"
  BY <1>1, OrderAt DEF CallSound, Follows
<1>3. {"over", "sleep", "content"} \subseteq CallStages /\ {"none", "failed"} \subseteq Outcomes
  BY DEF CallStages, Outcomes
<1>4. CASE RequestFails(o)  BY <1>2, <1>4, FailsKeeps DEF RequestFails
<1>5. CASE remote[o] \in {"failed", "expired"} /\ Ends(o, "failed")
  <2>1. Turns(o, remote[o], "over", order[o].told, "failed")  BY <1>2, <1>5, OrderTurns
  <2>2. Follows(protocol[o], remote[o], "over", order[o].told, "failed")  BY <1>5 DEF Follows
  <2> QED  BY <1>2, <1>3, <2>1, <2>2, OrderMoves
<1>6. CASE Goes(o, "sleep")
  <2>1. Turns(o, remote[o], "sleep", order[o].told, "none")  BY <1>2, <1>6, OrderTurns
  <2>2. Follows(protocol[o], remote[o], "sleep", order[o].told, "none")  BY <1>2 DEF Follows
  <2> QED  BY <1>2, <1>3, <2>1, <2>2, OrderMoves
<1>7. CASE remote[o] = "made" /\ Content(o)
  <2>1. Turns(o, "made", "content", order[o].told, "none")
    BY <1>2, <1>7, OrderTurns DEF Content
  <2>2. Follows(protocol[o], "made", "content", order[o].told, "none")  BY DEF Follows
  <2> QED  BY <1>2, <1>3, <1>7, <2>1, <2>2, OrderMoves
<1>8. ASSUME remote[o] = "made", NEW without \in {"empty", "error"}, ToldAddress(o, without)
      PROVE  CallsInv'
  <2>1. PICK list \in Told(o) : IF list = <<>> THEN Ends(o, without) ELSE Fetches(o, list)
    BY <1>8 DEF ToldAddress
  <2>2. CASE list = <<>>  BY <1>2, <1>8, <2>1, <2>2, FailsKeeps
  <2>3. CASE list # <<>>  BY <1>2, <1>8, <2>1, <2>3, FetchesKeeps
  <2> QED  BY <2>2, <2>3
<1>9. CASE PollPlain(o)
  <2>1. PICK word \in Says(o, remote[o]) :
           \/ RequestFails(o)
           \/ CASE word \in PlainWords.failed -> Ends(o, "failed")
                [] word \in PlainWords.done   -> OrEmpty(o)
                [] OTHER                      -> Goes(o, "sleep")
    <3>1. Says(o, remote[o]) # {}  BY <1>9 DEF PollPlain, Polls, Says
    <3> QED  BY <1>9, <3>1 DEF PollPlain, Polls
  <2> QED  BY <1>2, <1>4, <1>5, <1>6, <1>8, <1>9, <2>1, WordsEnd DEF OrEmpty, PollPlain, Polls
<1>10. CASE PollArk(o)
  <2>1. PICK word \in Says(o, remote[o]) :
           \/ RequestFails(o)
           \/ CASE word \in ArkWords.failed -> Ends(o, "failed")
                [] word \in ArkWords.done   -> OrError(o)
                [] OTHER                    -> Goes(o, "sleep")
    <3>1. Says(o, remote[o]) # {}  BY <1>10 DEF PollArk, Polls, Says
    <3> QED  BY <1>10, <3>1 DEF PollArk, Polls
  <2> QED  BY <1>2, <1>4, <1>5, <1>6, <1>8, <1>10, <2>1, WordsEnd DEF OrError, PollArk, Polls
<1>11. CASE PollZZ(o)
  <2>1. PICK word \in Says(o, remote[o]) :
           \/ RequestFails(o)
           \/ CASE word \in ZZWords.failed -> Ends(o, "failed")
                [] word \in ZZWords.done   -> Content(o)
                [] OTHER                   -> Goes(o, "sleep")
    <3>1. Says(o, remote[o]) # {}  BY <1>11 DEF PollZZ, Polls, Says
    <3> QED  BY <1>11, <3>1 DEF PollZZ, Polls
  <2> QED  BY <1>2, <1>4, <1>5, <1>6, <1>7, <1>11, <2>1, WordsEnd DEF PollZZ, Polls
<1>12. CASE PollWuyin(o)
  <2>1. PICK word \in Says(o, remote[o]) :
           \/ RequestFails(o)
           \/ CASE word \in WuyinWords.failed -> Ends(o, "failed")
                [] word \in WuyinWords.done   -> OrError(o)
                [] OTHER                      -> Goes(o, "sleep")
    <3>1. Says(o, remote[o]) # {}  BY <1>12 DEF PollWuyin, Polls, Says
    <3> QED  BY <1>12, <3>1 DEF PollWuyin, Polls
  <2> QED  BY <1>2, <1>4, <1>5, <1>6, <1>8, <1>12, <2>1, WordsEnd DEF OrError, PollWuyin, Polls
<1> QED  BY <1>9, <1>10, <1>11, <1>12 DEF PollVideo

LEMMA FetchKeeps ==
  ASSUME CallsInv, NEW o \in Orders, protocol' = protocol,
         PollAgain(o) \/ FetchBinaryURL(o) \/ FetchContent(o)
  PROVE  CallsInv'
<1>1. remote' = remote  BY DEF PollAgain, FetchBinaryURL, FetchContent
<1>2. /\ remote[o] \in Remotes /\ order[o].told \in Seq(Addresses) /\ CallSound(o)
      /\ remote' = [remote EXCEPT ![o] = remote[o]]
  BY <1>1, OrderAt
<1>3. {"over", "poll"} \subseteq CallStages /\ {"none", "video", "cover"} \subseteq Outcomes
  BY DEF CallStages, Outcomes
<1>4. CASE order[o].at = "sleep" /\ Goes(o, "poll")
  <2>1. outcome[o] = "none"  BY <1>2, <1>4 DEF CallSound, Follows
  <2>2. Turns(o, remote[o], "poll", order[o].told, "none")  BY <1>2, <1>4, <2>1, OrderTurns
  <2>3. Follows(protocol[o], remote[o], "poll", order[o].told, "none")
    BY <1>2, <1>4 DEF CallSound, Follows
  <2> QED  BY <1>2, <1>3, <2>2, <2>3, OrderMoves
<1>5. CASE Ends(o, "timeout") \/ Ends(o, "error") \/ Ends(o, "empty")  BY <1>2, <1>5, FailsKeeps
<1>6. CASE order[o].at \in {"fetch", "content"} /\ Ends(o, "video")
  <2>1. remote[o] = "made"  BY <1>2, <1>6 DEF CallSound, Follows
  <2>2. Turns(o, "made", "over", order[o].told, "video")  BY <1>2, <1>6, <2>1, OrderTurns
  <2>3. Follows(protocol[o], "made", "over", order[o].told, "video")  BY DEF Follows
  <2> QED  BY <1>2, <1>3, <2>1, <2>2, <2>3, OrderMoves
<1>7. CASE order[o].at = "fetch" /\ Picked(order[o].told).of = "cover" /\ Ends(o, "cover")
  <2>1. remote[o] = "made" /\ protocol[o] = "wuyin" /\ NoneLikely(order[o].told)
    BY <1>2, <1>7 DEF CallSound, Follows
  <2>2. Turns(o, "made", "over", order[o].told, "cover")  BY <1>2, <1>7, <2>1, OrderTurns
  <2>3. Follows(protocol[o], "made", "over", order[o].told, "cover")  BY <2>1 DEF Follows
  <2> QED  BY <1>2, <1>3, <2>1, <2>2, <2>3, OrderMoves
<1>8. order[o].at = "fetch" => Picked(order[o].told).of \in {"video", "cover"}
  BY <1>2 DEF CallSound, Follows
<1> QED  BY <1>4, <1>5, <1>6, <1>7, <1>8 DEF PollAgain, FetchBinaryURL, FetchContent, RequestFails

LEMMA MusicKeeps ==
  ASSUME CallsInv, NEW o \in Orders, protocol' = protocol, GenerateMusic(o)
  PROVE  CallsInv'
<1>1. /\ remote[o] \in Remotes /\ order[o].told \in Seq(Addresses) /\ outcome[o] = "none"
      /\ remote = [remote EXCEPT ![o] = remote[o]]
  BY OrderAt DEF GenerateMusic, CallSound, Follows
<1>2. CASE RequestFails(o) /\ remote' = remote  BY <1>1, <1>2, FailsKeeps DEF RequestFails
<1>3. CASE remote' = [remote EXCEPT ![o] = "made"] /\ Ends(o, "error")
  BY <1>3, FailsKeeps DEF Remotes
<1>4. CASE remote' = [remote EXCEPT ![o] = "made"] /\ Ends(o, "video")
  <2>1. Turns(o, "made", "over", order[o].told, "video")  BY <1>4, OrderTurns
  <2>2. Follows(protocol[o], "made", "over", order[o].told, "video")  BY DEF Follows
  <2> QED  BY <1>1, <2>1, <2>2, OrderMoves DEF Remotes, Outcomes, CallStages
<1>5. CASE remote' = [remote EXCEPT ![o] = "made"] /\ Fetches(o, <<Sound>>)
  BY <1>1, <1>5, FetchesKeeps
<1> QED  BY <1>2, <1>3, <1>4, <1>5 DEF GenerateMusic

LEMMA RemoteKeeps ==
  ASSUME CallsInv, NEW o \in Orders, protocol' = protocol, RemoteWorks(o)
  PROVE  CallsInv'
<1>1. remote[o] \in {"waiting", "making"} /\ order' = order /\ outcome' = outcome
  BY DEF RemoteWorks
<1>2. PICK r \in {"making", "made", "failed", "expired"} : remote' = [remote EXCEPT ![o] = r]
  BY DEF RemoteWorks
<1>3. /\ order[o].at \in CallStages /\ order[o].told \in Seq(Addresses) /\ outcome[o] \in Outcomes
      /\ CallSound(o)
  BY OrderAt
<1>4. Turns(o, r, order[o].at, order[o].told, outcome[o])
  BY <1>1, <1>2 DEF Turns, CallsInv, CallsTyped
<1>5. Follows(protocol[o], r, order[o].at, order[o].told, outcome[o])
  BY <1>1, <1>3 DEF CallSound, Follows
<1> QED  BY <1>3, <1>4, <1>5, OrderMoves DEF Remotes, Outcomes

LEMMA CallsStep ==
  ASSUME CallsInv, [ProvidersNext]_videoProviders
  PROVE  CallsInv'
<1>1. ASSUME UNCHANGED <<protocol, remote, order, outcome>>  PROVE CallsInv'
  BY <1>1 DEF CallsInv, CallsTyped, CallSound
<1>2. CASE UNCHANGED videoProviders  BY <1>1, <1>2 DEF videoProviders
<1>3. ASSUME NEW o \in Orders, AskProvider(o) \/ RemoteWorks(o) \/ ContextEnds(o),
             protocol' = protocol
      PROVE  CallsInv'
  <2>1. CASE SubmitVideo(o)  BY <1>3, <2>1, SubmitKeeps
  <2>2. CASE PollVideo(o)  BY <1>3, <2>2, PollKeeps
  <2>3. CASE PollAgain(o) \/ FetchBinaryURL(o) \/ FetchContent(o)  BY <1>3, <2>3, FetchKeeps
  <2>4. CASE GenerateMusic(o)  BY <1>3, <2>4, MusicKeeps
  <2>5. CASE RemoteWorks(o)  BY <1>3, <2>5, RemoteKeeps
  <2>6. CASE ContextEnds(o)  BY <1>1, <1>3, <2>6 DEF ContextEnds
  <2> QED  BY <1>3, <2>1, <2>2, <2>3, <2>4, <2>5, <2>6 DEF AskProvider
<1> QED  BY <1>2, <1>3 DEF ProvidersNext

LEMMA InitCalls == ProvidersInit => CallsInv
<1> SUFFICES ASSUME ProvidersInit  PROVE CallsInv
  OBVIOUS
<1>1. [at |-> "new", told |-> <<>>] \in [at : CallStages, told : Seq(Addresses)]
  BY DEF CallStages
<1>2. CallsTyped  BY <1>1 DEF ProvidersInit, CallsTyped, Protocols, Remotes, Outcomes
<1>3. \A o \in Orders : CallSound(o)  BY DEF ProvidersInit, CallSound, Follows
<1> QED  BY <1>2, <1>3 DEF CallsInv

\* Whatever a provider calls it and whenever it is asked: the caller is given the
\* video itself, of a task its provider has finished; a task is called failed only
\* when its provider gave it up; and nothing runs at a provider for an order that
\* was never sent (SubmitVideo, PollVideo, extractWuyinVideoURL).
THEOREM ProvidersAlwaysSound == ProvidersSpec => []ProvidersSound
<1>1. CallsInv => ProvidersSound  BY DEF CallsInv, CallSound, Follows, ProvidersSound
<1> QED  BY <1>1, InitCalls, CallsStep, PTL DEF ProvidersSpec

-----------------------------------------------------------------------------
(***************************************************************************)
(* The albums of couples.  The rows of pages and pictures agree whatever   *)
(* overlaps; as long as no request wrote over what it had not read, who    *)
(* owes a page is the only one, and without errors all that is not done is *)
(* owed by somebody.                                                       *)
(***************************************************************************)
Working  == {"run", "paint", "tell", "read", "sum"}
Askings  == {"new", "clear", "write", "retry", "over"} \cup Working
AlbumStates == {"none", "draft", "generating", "succeeded", "partial_failed", "failed"}
APage    == [number : 0..AlbumPages, record : 0..MaxPictures, work : 0..MaxPictures,
             status : {"none", "queued", "running", "failed", "succeeded"}]
APicture == [status : {"none", "queued", "failed", "succeeded"}, of : 0..AlbumPages]
AnAsk    == [at : Askings, saw : APage, read : AlbumStates,
             todo : Seq(PictureIds \X (0..MaxPictures))]

AsksTyped == ask \in [AlbumRequests -> AnAsk]

\* The pages a request has yet to tell, and the pictures it has yet to paint.
RowsOwed(a) ==
    {a.todo[i][1] : i \in {k \in DOMAIN a.todo : \/ a.at \in {"run", "paint", "tell"}
                                                 \/ a.at \in {"read", "sum"} /\ k # 1}}
PicsDue(a)  ==
    {a.todo[i][2] : i \in {k \in DOMAIN a.todo : \/ a.at \in {"write", "run", "paint"}
                                                 \/ a.at \in {"tell", "read", "sum"} /\ k # 1}}

\* A page is in the row of its first picture, and has its number.
RowsSound ==
    /\ \A n \in PictureIds : drawn[n] # NoPicture => drawn[n].of # 0 /\ drawn[n].status # "none"
    /\ \A r \in PageRows : /\ drawn[r].of # 0 /\ pages[r].number = drawn[r].of
                           /\ pages[r].status # "none"
    /\ \A r, s \in PageRows : pages[r].number = pages[s].number => r = s

\* What a request knows of its pages and of the pictures d.
AskSound(a, d) ==
    /\ a.at \in {"new", "clear"} => a.todo = <<>>
    /\ a.at = "write" =>
          \A i \in DOMAIN a.todo : /\ a.todo[i][1] = a.todo[i][2] /\ d[a.todo[i][1]].of = i
    /\ a.at = "retry" => /\ Len(a.todo) = 1 /\ a.saw.status = "failed"
                         /\ d[a.todo[1][1]].of = a.saw.number /\ a.saw.number # 0
    /\ a.at \in Working => a.todo # <<>>
    /\ a.at \in Working \cup {"write"} =>
         /\ \A i \in DOMAIN a.todo : /\ a.todo[i][2] \in PictureIds /\ d[a.todo[i][1]].of # 0
                                     /\ d[a.todo[i][2]].of = d[a.todo[i][1]].of
         /\ \A i, k \in DOMAIN a.todo :
               i # k => a.todo[i][1] # a.todo[k][1] /\ a.todo[i][2] # a.todo[k][2]
    /\ a.at = "tell" => d[a.todo[1][2]].status \in {"failed", "succeeded"}
    /\ \A n \in PicsDue(a) : d[n].status = "queued"

\* Every picture is painted by one request.
AsksSound ==
    /\ \A q \in AlbumRequests : AskSound(ask[q], drawn)
    /\ \A p, q \in AlbumRequests : p # q => PicsDue(ask[p]) \cap PicsDue(ask[q]) = {}

PaidPictures(m) == {n \in PictureIds : drawn[n].status = "succeeded" /\ drawn[n].of = m}

\* An album that was not started, with what a request may have written of it.
NotStarted ==
    /\ \A q \in AlbumRequests :
         /\ ask[q].at \in {"new", "clear", "write", "over"}
         /\ ask[q].at = "write" => \A i \in DOMAIN ask[q].todo : ask[q].todo[i][1] \in PageRows
    /\ \A r \in PageRows : pages[r].status = "queued"
    /\ \A n \in PictureIds : drawn[n].status # "succeeded"

\* A page that a request owes is under way, and no picture of it is paid, but for the one
\* that was just painted.
OwesSoundly(a) ==
    \A r \in RowsOwed(a) :
        /\ r \in PageRows /\ pages[r].status \in {"queued", "running"}
        /\ \A n \in PaidPictures(drawn[r].of) : a.at = "tell" /\ r = a.todo[1][1] /\ n = a.todo[1][2]

AskStarted(a) == /\ a.at \notin {"write", "clear"}
                 /\ a.at = "sum" => a.read \notin {"none", "draft"}

\* An album that was started.
AlbumBegun ==
    /\ \A q \in AlbumRequests : AskStarted(ask[q]) /\ OwesSoundly(ask[q])
    /\ \A p, q \in AlbumRequests : p # q => RowsOwed(ask[p]) \cap RowsOwed(ask[q]) = {}
    /\ \A m \in 1..AlbumPages : \E r \in PageRows : pages[r].number = m
    /\ \A r \in PageRows : pages[r].status = "failed" => PaidPictures(drawn[r].of) = {}
    /\ \A m \in 1..AlbumPages : \A a, b \in PaidPictures(m) : a = b

\* Without errors every page that is not done is owed, what was paid is told or about to
\* be, and the last to finish has read what the pages add up to.
Faultless ==
    /\ \A r \in PageRows : pages[r].status \in {"queued", "running"} =>
         \E q \in AlbumRequests : r \in RowsOwed(ask[q])
    /\ \A n \in PictureIds : drawn[n].status = "succeeded" =>
         \/ \E r \in PageRows : pages[r].status = "succeeded" /\ pages[r].work = n
         \/ \E q \in AlbumRequests : ask[q].at = "tell" /\ ask[q].todo[1][2] = n
    /\ \A q \in AlbumRequests : ask[q].at = "sum" =>
         ask[q].read = AddsUpTo \/ \E o \in AlbumRequests \ {q} : ask[o].at \in Working
    /\ (\A q \in AlbumRequests : ask[q].at \notin Working) => album.status = AddsUpTo

Launched == album.status \notin {"none", "draft"}

AlbumRowsInv == AlbumTypeOK /\ AsksTyped /\ RowsSound /\ AsksSound /\ PagesShowTheirOwn

AlbumInv ==
    /\ AlbumRowsInv
    /\ ~overtaken /\ ~Launched => NotStarted
    /\ ~overtaken /\ Launched => AlbumBegun
    /\ ~overtaken /\ Launched /\ errors = 0 => Faultless

LEMMA NextIsNew ==
  ASSUME NewOnes # {}
  PROVE  NextOne \in PictureIds /\ drawn[NextOne] = NoPicture
BY DEF NextOne, NewOnes

\* What a request knows is kept by whoever draws something else.
LEMMA AskKept ==
  ASSUME NEW a \in AnAsk, NEW d \in [PictureIds -> APicture], NEW e \in [PictureIds -> APicture],
         AskSound(a, d),
         \A n \in PictureIds : /\ d[n].of # 0 => e[n].of = d[n].of
                               /\ d[n].status \in {"failed", "succeeded"} => e[n].status = d[n].status,
         \A n \in PicsDue(a) : e[n].status = "queued"
  PROVE  AskSound(a, e)
<1>1. \A i \in DOMAIN a.todo : a.todo[i][1] \in PictureIds
  BY DEF AnAsk
<1>2. ASSUME a.at = "write"
      PROVE  \A i \in DOMAIN a.todo : a.todo[i][1] = a.todo[i][2] /\ e[a.todo[i][1]].of = i
  <2>1. ASSUME NEW i \in DOMAIN a.todo  PROVE i # 0
    BY DEF AnAsk
  <2> QED  BY <1>1, <1>2, <2>1 DEF AskSound
<1>3. ASSUME a.at = "retry"
      PROVE  /\ Len(a.todo) = 1 /\ a.saw.status = "failed"
             /\ e[a.todo[1][1]].of = a.saw.number /\ a.saw.number # 0
  <2>1. Len(a.todo) = 1 /\ d[a.todo[1][1]].of = a.saw.number /\ a.saw.number # 0
    BY <1>3 DEF AskSound
  <2>2. a.todo[1][1] \in PictureIds  BY <1>1, <2>1 DEF AnAsk
  <2> QED  BY <1>3, <2>1, <2>2 DEF AskSound
<1>4. ASSUME a.at \in Working \cup {"write"}, NEW i \in DOMAIN a.todo
      PROVE  /\ a.todo[i][2] \in PictureIds /\ e[a.todo[i][1]].of # 0
             /\ e[a.todo[i][2]].of = e[a.todo[i][1]].of
  BY <1>1, <1>4 DEF AskSound
<1>5. ASSUME a.at = "tell"  PROVE e[a.todo[1][2]].status \in {"failed", "succeeded"}
  <2>1. a.todo # <<>> /\ a.at \in Working  BY <1>5 DEF AskSound, Working
  <2>2. 1 \in DOMAIN a.todo  BY <2>1 DEF AnAsk
  <2>3. a.todo[1][2] \in PictureIds  BY <1>4, <2>1, <2>2
  <2> QED  BY <1>5, <2>3 DEF AskSound
<1>6. ASSUME a.at \in Working \cup {"write"}
      PROVE  \A i, k \in DOMAIN a.todo :
               i # k => a.todo[i][1] # a.todo[k][1] /\ a.todo[i][2] # a.todo[k][2]
  BY <1>6 DEF AskSound
<1>7. /\ a.at \in {"new", "clear"} => a.todo = <<>>
      /\ a.at \in Working => a.todo # <<>>
  BY DEF AskSound
<1> HIDE DEF AnAsk
<1> QED  BY <1>2, <1>3, <1>4, <1>5, <1>6, <1>7 DEF AskSound

\* What is typed about the rows, as functions.
LEMMA RowTypes ==
  ASSUME AlbumTypeOK
  PROVE  /\ pages \in [PictureIds -> APage] /\ drawn \in [PictureIds -> APicture]
         /\ album.status \in AlbumStates
BY DEF AlbumTypeOK, APage, APicture, AlbumStates

\* Pictures get a number once and end once.
DrawsOn ==
    /\ drawn' \in [PictureIds -> APicture]
    /\ \A n \in PictureIds :
          /\ drawn[n].of # 0 => drawn'[n].of = drawn[n].of
          /\ drawn[n].status \in {"failed", "succeeded"} => drawn'[n].status = drawn[n].status
          /\ drawn'[n] # NoPicture => drawn'[n].of # 0 /\ drawn'[n].status # "none"

\* One request moves, and what it draws is not the business of the others.
LEMMA AskMoves ==
  ASSUME AlbumTypeOK, AsksTyped, AsksSound, NEW q \in AlbumRequests, NEW b \in AnAsk,
         ask' = [ask EXCEPT ![q] = b], DrawsOn,
         \A p \in AlbumRequests \ {q} : /\ \A n \in PicsDue(ask[p]) : drawn'[n].status = "queued"
                                        /\ PicsDue(b) \cap PicsDue(ask[p]) = {},
         AskSound(b, drawn')
  PROVE  /\ AsksTyped' /\ AsksSound'
         /\ ask'[q] = b /\ \A p \in AlbumRequests \ {q} : ask'[p] = ask[p]
<1>1. AsksTyped'  BY DEF AsksTyped
<1>2. ask'[q] = b /\ \A p \in AlbumRequests \ {q} : ask'[p] = ask[p]  BY DEF AsksTyped
<1>3. ASSUME NEW p \in AlbumRequests  PROVE AskSound(ask'[p], drawn')
  <2>1. CASE p = q  BY <1>2, <2>1
  <2>2. CASE p # q
    <3>1. AskSound(ask[p], drawn) /\ ask[p] \in AnAsk  BY DEF AsksSound, AsksTyped
    <3>2. AskSound(ask[p], drawn')  BY <2>2, <3>1, AskKept, RowTypes DEF DrawsOn
    <3> QED  BY <1>2, <2>2, <3>2
  <2> QED  BY <2>1, <2>2
<1>4. ASSUME NEW p \in AlbumRequests, NEW r \in AlbumRequests, p # r
      PROVE  PicsDue(ask'[p]) \cap PicsDue(ask'[r]) = {}
  <2>1. CASE p = q  BY <1>2, <1>4, <2>1
  <2>2. CASE r = q  BY <1>2, <1>4, <2>2
  <2>3. CASE p # q /\ r # q  BY <1>2, <1>4, <2>3 DEF AsksSound
  <2> QED  BY <2>1, <2>2, <2>3
<1> QED  BY <1>1, <1>2, <1>3, <1>4 DEF AsksSound

LEMMA NothingDrawn ==
  ASSUME AlbumTypeOK, RowsSound, drawn' = drawn
  PROVE  DrawsOn
BY RowTypes DEF DrawsOn, RowsSound

LEMMA RecordedDraws ==
  ASSUME AlbumTypeOK, RowsSound, NewOnes # {}, NEW m \in 1..AlbumPages, Recorded(m)
  PROVE  /\ DrawsOn /\ NextOne \in PictureIds /\ drawn[NextOne] = NoPicture
         /\ drawn'[NextOne].of = m /\ drawn'[NextOne].status = "queued"
         /\ \A n \in PictureIds \ {NextOne} : drawn'[n] = drawn[n]
<1> DEFINE new == [status |-> "queued", of |-> m]
<1>1. NextOne \in PictureIds /\ drawn[NextOne] = NoPicture  BY NextIsNew
<1>2. new \in APicture /\ new.of = m /\ new.status = "queued" /\ m # 0
  BY AlbumConstants DEF APicture
<1>3. drawn' = [drawn EXCEPT ![NextOne] = new]  BY DEF Recorded
<1> HIDE DEF new
<1>4. drawn' \in [PictureIds -> APicture] /\ drawn'[NextOne] = new
      /\ \A n \in PictureIds \ {NextOne} : drawn'[n] = drawn[n]
  BY <1>1, <1>2, <1>3, RowTypes
<1>5. DrawsOn
  <2>1. NoPicture.of = 0 /\ NoPicture.status = "none"  BY DEF NoPicture
  <2> QED  BY <1>1, <1>2, <1>4, <2>1 DEF DrawsOn, RowsSound
<1> QED  BY <1>1, <1>2, <1>4, <1>5

LEMMA EndDraws ==
  ASSUME AlbumTypeOK, RowsSound, NEW n \in PictureIds, drawn[n].status = "queued",
         NEW s \in {"succeeded", "failed"}, drawn' = [drawn EXCEPT ![n].status = s]
  PROVE  /\ DrawsOn /\ drawn'[n].status = s /\ drawn'[n].of = drawn[n].of
         /\ \A k \in PictureIds \ {n} : drawn'[k] = drawn[k]
<1>1. drawn[n] \in APicture /\ drawn \in [PictureIds -> APicture]  BY RowTypes
<1>2. PICK x : x = [drawn[n] EXCEPT !.status = s]  OBVIOUS
<1>3. x \in APicture /\ x.status = s /\ x.of = drawn[n].of  BY <1>1, <1>2 DEF APicture
<1>4. drawn' = [drawn EXCEPT ![n] = x]  BY <1>2
<1>5. drawn' \in [PictureIds -> APicture] /\ drawn'[n] = x
      /\ \A k \in PictureIds \ {n} : drawn'[k] = drawn[k]
  BY <1>1, <1>3, <1>4
<1>6. drawn[n] # NoPicture  BY DEF NoPicture
<1>7. DrawsOn  BY <1>3, <1>5, <1>6 DEF DrawsOn, RowsSound
<1> QED  BY <1>3, <1>5, <1>7

\* The pages stay.
LEMMA PagesStay ==
  ASSUME AlbumTypeOK, RowsSound, PagesShowTheirOwn, pages' = pages, DrawsOn
  PROVE  RowsSound' /\ PagesShowTheirOwn' /\ PageRows' = PageRows
<1>1. PageRows' = PageRows /\ PageRows \subseteq PictureIds /\ pages \in [PictureIds -> APage]
  BY RowTypes DEF PageRows
<1>2. RowsSound'  BY <1>1 DEF RowsSound, DrawsOn
<1>3. ASSUME NEW r \in Having({"succeeded"})'
      PROVE  pages[r].work # 0 /\ drawn'[pages[r].work].status = "succeeded"
             /\ drawn'[pages[r].work].of = pages[r].number
  <2>1. r \in Having({"succeeded"}) /\ r \in PageRows  BY <1>1 DEF Having
  <2>2. pages[r].work # 0 /\ drawn[pages[r].work].status = "succeeded"
        /\ drawn[pages[r].work].of = pages[r].number
    BY <2>1 DEF PagesShowTheirOwn
  <2>3. pages[r].work \in PictureIds  BY <1>1, <2>1, <2>2, AlbumConstants DEF APage, PictureIds
  <2>4. drawn[pages[r].work] # NoPicture  BY <2>2 DEF NoPicture
  <2> QED  BY <2>2, <2>3, <2>4 DEF DrawsOn, RowsSound
<1> QED  BY <1>1, <1>2, <1>3 DEF PagesShowTheirOwn

\* A page is written.
LEMMA PageMoves ==
  ASSUME AlbumTypeOK, RowsSound, PagesShowTheirOwn, DrawsOn,
         NEW r \in PictureIds, NEW p \in APage, pages' = [pages EXCEPT ![r] = p],
         p.number = drawn'[r].of, p.number # 0, p.status # "none",
         \A s \in PageRows \ {r} : pages[s].number # p.number,
         p.status = "succeeded" => /\ p.work \in PictureIds /\ drawn'[p.work].status = "succeeded"
                                   /\ drawn'[p.work].of = p.number
  PROVE  /\ RowsSound' /\ PagesShowTheirOwn' /\ PageRows' = PageRows \cup {r}
         /\ pages' \in [PictureIds -> APage]
         /\ pages'[r] = p /\ \A s \in PictureIds \ {r} : pages'[s] = pages[s]
<1>1. /\ PageRows \subseteq PictureIds /\ pages \in [PictureIds -> APage]
      /\ pages' \in [PictureIds -> APage] /\ pages'[r] = p
      /\ \A s \in PictureIds \ {r} : pages'[s] = pages[s]
  BY RowTypes DEF PageRows
<1>2. p # NoPage  BY DEF NoPage
<1>3. PageRows' = PageRows \cup {r}  BY <1>1, <1>2 DEF PageRows
<1>4. RowsSound'
  <2>1. ASSUME NEW s \in PageRows'
        PROVE  drawn'[s].of # 0 /\ pages'[s].number = drawn'[s].of /\ pages'[s].status # "none"
    <3>1. CASE s = r  BY <1>1, <3>1
    <3>2. CASE s # r  BY <1>1, <1>3, <3>2 DEF RowsSound, DrawsOn
    <3> QED  BY <3>1, <3>2
  <2>2. ASSUME NEW s \in PageRows', NEW t \in PageRows', pages'[s].number = pages'[t].number
        PROVE  s = t
    <3>1. CASE s = r \/ t = r  BY <1>1, <1>3, <2>2, <3>1
    <3>2. CASE s # r /\ t # r  BY <1>1, <1>3, <2>2, <3>2 DEF RowsSound
    <3> QED  BY <3>1, <3>2
  <2> QED  BY <2>1, <2>2 DEF RowsSound, DrawsOn
<1>5. ASSUME NEW s \in Having({"succeeded"})'
      PROVE  pages'[s].work # 0 /\ drawn'[pages'[s].work].status = "succeeded"
             /\ drawn'[pages'[s].work].of = pages'[s].number
  <2>1. s \in PageRows' /\ pages'[s].status = "succeeded"  BY DEF Having
  <2>2. CASE s = r
    <3>1. 0 \notin PictureIds  BY AlbumConstants DEF PictureIds
    <3> QED  BY <1>1, <2>1, <2>2, <3>1
  <2>3. CASE s # r
    <3>1. s \in PageRows /\ pages'[s] = pages[s]  BY <1>1, <1>3, <2>1, <2>3
    <3>2. pages[s].work # 0 /\ drawn[pages[s].work].status = "succeeded"
          /\ drawn[pages[s].work].of = pages[s].number
      BY <2>1, <3>1 DEF PagesShowTheirOwn, Having
    <3>3. pages[s].work \in PictureIds
      <4>1. pages[s] \in APage  BY <1>1, <3>1
      <4>2. pages[s].work \in 0..MaxPictures  BY <4>1 DEF APage
      <4> QED  BY <3>2, <4>2, AlbumConstants DEF PictureIds
    <3>4. drawn[pages[s].work] # NoPicture  BY <3>2 DEF NoPicture
    <3> QED  BY <3>1, <3>2, <3>3, <3>4 DEF DrawsOn, RowsSound
  <2> QED  BY <2>2, <2>3
<1> QED  BY <1>1, <1>3, <1>4, <1>5 DEF PagesShowTheirOwn

\* The head of the pages that a goroutine has to paint.
LEMMA AskHead ==
  ASSUME NEW a \in AnAsk, AskSound(a, drawn), a.at \in Working
  PROVE  /\ a.todo # <<>> /\ 1 \in DOMAIN a.todo /\ Head(a.todo) = a.todo[1]
         /\ a.todo[1][1] \in PictureIds /\ a.todo[1][2] \in PictureIds
         /\ drawn[a.todo[1][1]].of # 0 /\ drawn[a.todo[1][2]].of = drawn[a.todo[1][1]].of
<1>1. a.todo # <<>> /\ a.todo \in Seq(PictureIds \X (0..MaxPictures))
  BY DEF AskSound, AnAsk
<1>2. 1 \in DOMAIN a.todo /\ Head(a.todo) = a.todo[1]  BY <1>1
<1>3. a.todo[1][1] \in PictureIds  BY <1>1, <1>2
<1> QED  BY <1>1, <1>2, <1>3 DEF AskSound

LEMMA DueTyped ==
  ASSUME NEW a \in AnAsk, NEW d, AskSound(a, d)
  PROVE  /\ PicsDue(a) \subseteq PictureIds /\ RowsOwed(a) \subseteq PictureIds
         /\ \A r \in RowsOwed(a) : d[r].of # 0
<1>1. \A i \in DOMAIN a.todo : a.todo[i][1] \in PictureIds  BY DEF AnAsk
<1>2. ASSUME NEW n \in PicsDue(a)  PROVE n \in PictureIds
  <2>1. PICK i \in DOMAIN a.todo : n = a.todo[i][2] /\ a.at \in Working \cup {"write"}
    BY DEF PicsDue, Working
  <2> QED  BY <2>1 DEF AskSound
<1>3. ASSUME NEW r \in RowsOwed(a)  PROVE r \in PictureIds /\ d[r].of # 0
  <2>1. PICK i \in DOMAIN a.todo : r = a.todo[i][1] /\ a.at \in Working
    BY DEF RowsOwed, Working
  <2> QED  BY <1>1, <2>1 DEF AskSound
<1> QED  BY <1>2, <1>3

\* The goroutine comes to its next place.
LEMMA NextPlace ==
  ASSUME NEW a \in AnAsk, NEW d, AskSound(a, d), a.at \in Working, NEW s \in Askings,
         NEW b \in AnAsk, b.at = s, b.todo = a.todo
  PROVE  /\ a.at = "run" /\ s = "paint" =>
              RowsOwed(b) = RowsOwed(a) /\ PicsDue(b) = PicsDue(a) /\ AskSound(b, d)
         /\ a.at = "paint" /\ s = "tell" =>
              /\ RowsOwed(b) = RowsOwed(a) /\ PicsDue(b) = PicsDue(a) \ {a.todo[1][2]}
              /\ a.todo[1][2] \in PicsDue(a) /\ a.todo[1][1] \in RowsOwed(a)
         /\ a.at = "tell" /\ s = "read" =>
              /\ RowsOwed(b) = RowsOwed(a) \ {a.todo[1][1]} /\ PicsDue(b) = PicsDue(a)
              /\ AskSound(b, d) /\ a.todo[1][1] \in RowsOwed(a)
         /\ a.at = "read" /\ s = "sum" =>
              RowsOwed(b) = RowsOwed(a) /\ PicsDue(b) = PicsDue(a) /\ AskSound(b, d)
<1>1. a.todo # <<>> /\ 1 \in DOMAIN a.todo  BY DEF AskSound, AnAsk
<1>2. \A i, k \in DOMAIN a.todo :
               i # k => a.todo[i][1] # a.todo[k][1] /\ a.todo[i][2] # a.todo[k][2]
  BY DEF AskSound
<1>3. ASSUME a.at = "run", s = "paint"
      PROVE  RowsOwed(b) = RowsOwed(a) /\ PicsDue(b) = PicsDue(a)
  BY <1>3 DEF RowsOwed, PicsDue
<1>4. ASSUME a.at = "paint", s = "tell"
      PROVE  /\ RowsOwed(b) = RowsOwed(a) /\ PicsDue(b) = PicsDue(a) \ {a.todo[1][2]}
             /\ a.todo[1][2] \in PicsDue(a) /\ a.todo[1][1] \in RowsOwed(a)
  BY <1>1, <1>2, <1>4 DEF RowsOwed, PicsDue
<1>5. ASSUME a.at = "tell", s = "read"
      PROVE  /\ RowsOwed(b) = RowsOwed(a) \ {a.todo[1][1]} /\ PicsDue(b) = PicsDue(a)
             /\ a.todo[1][1] \in RowsOwed(a)
  BY <1>1, <1>2, <1>5 DEF RowsOwed, PicsDue
<1>6. ASSUME a.at = "read", s = "sum"
      PROVE  RowsOwed(b) = RowsOwed(a) /\ PicsDue(b) = PicsDue(a)
  BY <1>6 DEF RowsOwed, PicsDue
<1>7. ASSUME s \in {"paint", "read", "sum"}, PicsDue(b) = PicsDue(a)
      PROVE  AskSound(b, d)
  BY <1>1, <1>7 DEF AskSound, Working
<1> QED  BY <1>3, <1>4, <1>5, <1>6, <1>7

\* Requests of an album that was started: a step of one of them concerns the page r,
\* which no other owes, and its number m.
LEMMA OtherNumbers ==
  ASSUME AlbumRowsInv, DrawsOn, NEW m,
         \A n \in PictureIds :
             drawn'[n].status = "succeeded" /\ drawn[n].status # "succeeded" => drawn'[n].of = m
  PROVE  \A k : k # m => PaidPictures(k)' = PaidPictures(k)
<1>1. \A n \in PictureIds : drawn[n].status = "succeeded" =>
         drawn'[n].status = "succeeded" /\ drawn'[n].of = drawn[n].of
  <2>1. \A n \in PictureIds : drawn[n].status = "succeeded" => drawn[n] # NoPicture
    BY DEF NoPicture
  <2> QED  BY <2>1 DEF DrawsOn, AlbumRowsInv, RowsSound
<1> QED  BY <1>1 DEF PaidPictures

LEMMA StartedMoves ==
  ASSUME AlbumRowsInv, AlbumBegun, NEW q \in AlbumRequests, NEW b \in AnAsk, ask'[q] = b,
         \A p \in AlbumRequests \ {q} : ask'[p] = ask[p],
         NEW r \in PageRows, PageRows' = PageRows, pages'[r].number = pages[r].number,
         \A s \in PictureIds \ {r} : pages'[s] = pages[s],
         NEW m, m = drawn[r].of, DrawsOn,
         \A n \in PictureIds :
             drawn'[n].status = "succeeded" /\ drawn[n].status # "succeeded" => drawn'[n].of = m,
         \A p \in AlbumRequests \ {q} : r \notin RowsOwed(ask[p]),
         ask[q].at = "tell" => r = ask[q].todo[1][1],
         RowsOwed(b) \subseteq RowsOwed(ask[q]) \cup {r}, AskStarted(b),
         r \in RowsOwed(b) =>
             /\ pages'[r].status \in {"queued", "running"}
             /\ \A n \in PaidPictures(m)' : b.at = "tell" /\ r = b.todo[1][1] /\ n = b.todo[1][2],
         pages'[r].status = "failed" => PaidPictures(m)' = {},
         \A x, y \in PaidPictures(m)' : x = y
  PROVE  AlbumBegun'
<1>1. \A k : k # m => PaidPictures(k)' = PaidPictures(k)  BY OtherNumbers
<1>2. /\ \A s \in PageRows : s \in PictureIds /\ drawn'[s].of = drawn[s].of
      /\ \A s \in PageRows : s # r => drawn[s].of # m
  BY DEF AlbumRowsInv, RowsSound, PageRows, DrawsOn
<1>3. ASSUME NEW p \in AlbumRequests \ {q}, NEW s \in RowsOwed(ask[p])
      PROVE  /\ s \in PageRows' /\ pages'[s].status \in {"queued", "running"}
             /\ \A n \in PaidPictures(drawn[s].of)' :
                   ask[p].at = "tell" /\ s = ask[p].todo[1][1] /\ n = ask[p].todo[1][2]
  <2>1. /\ s \in PageRows /\ pages[s].status \in {"queued", "running"}
        /\ \A n \in PaidPictures(drawn[s].of) :
              ask[p].at = "tell" /\ s = ask[p].todo[1][1] /\ n = ask[p].todo[1][2]
    BY <1>3 DEF AlbumBegun, OwesSoundly
  <2>2. s # r  BY <1>3
  <2>3. PICK k : k = drawn[s].of  OBVIOUS
  <2>4. PaidPictures(k)' = PaidPictures(k) /\ drawn'[s].of = k  BY <1>1, <1>2, <2>1, <2>2, <2>3
  <2> QED  BY <1>2, <2>1, <2>2, <2>3, <2>4 DEF PaidPictures
<1>4. ASSUME NEW s \in RowsOwed(b)
      PROVE  /\ s \in PageRows' /\ pages'[s].status \in {"queued", "running"}
             /\ \A n \in PaidPictures(drawn[s].of)' :
                   b.at = "tell" /\ s = b.todo[1][1] /\ n = b.todo[1][2]
  <2>1. CASE s = r
    <3>1. drawn'[s].of = m  BY <1>2, <2>1
    <3> QED  BY <1>4, <2>1, <3>1 DEF PaidPictures
  <2>2. CASE s # r
    <3>1. s \in RowsOwed(ask[q])  BY <1>4, <2>2
    <3>2. /\ s \in PageRows /\ pages[s].status \in {"queued", "running"}
          /\ PaidPictures(drawn[s].of) = {}
      BY <2>2, <3>1 DEF AlbumBegun, OwesSoundly
    <3>3. PICK k : k = drawn[s].of  OBVIOUS
    <3>4. PaidPictures(k)' = {} /\ drawn'[s].of = k  BY <1>1, <1>2, <2>2, <3>2, <3>3
    <3> QED  BY <1>2, <2>2, <3>2, <3>4 DEF PaidPictures
  <2> QED  BY <2>1, <2>2
<1>5. ASSUME NEW p \in AlbumRequests  PROVE AskStarted(ask[p])' /\ OwesSoundly(ask[p])'
  <2>1. CASE p = q
    <3>1. \A s \in RowsOwed(ask'[p]) :
             /\ s \in PageRows' /\ pages'[s].status \in {"queued", "running"}
             /\ \A n \in PaidPictures(drawn[s].of)' :
                   ask'[p].at = "tell" /\ s = ask'[p].todo[1][1] /\ n = ask'[p].todo[1][2]
      BY <1>4, <2>1
    <3> QED  BY <2>1, <3>1 DEF AskStarted, OwesSoundly
  <2>2. CASE p # q
    <3>1. \A s \in RowsOwed(ask'[p]) :
             /\ s \in PageRows' /\ pages'[s].status \in {"queued", "running"}
             /\ \A n \in PaidPictures(drawn[s].of)' :
                   ask'[p].at = "tell" /\ s = ask'[p].todo[1][1] /\ n = ask'[p].todo[1][2]
      BY SMTT(40), <1>3, <2>2
    <3>2. AskStarted(ask[p])  BY DEF AlbumBegun
    <3> QED  BY <2>2, <3>1, <3>2 DEF AskStarted, OwesSoundly
  <2> QED  BY <2>1, <2>2
<1>6. ASSUME NEW p \in AlbumRequests, NEW o \in AlbumRequests, p # o
      PROVE  RowsOwed(ask'[p]) \cap RowsOwed(ask'[o]) = {}
  <2>1. \A x \in AlbumRequests \ {q} : RowsOwed(b) \cap RowsOwed(ask[x]) = {}
    BY DEF AlbumBegun
  <2>2. CASE p = q  BY <1>6, <2>1, <2>2
  <2>3. CASE o = q  BY <1>6, <2>1, <2>3
  <2>4. CASE p # q /\ o # q  BY <1>6, <2>4 DEF AlbumBegun
  <2> QED  BY <2>2, <2>3, <2>4
<1>7. \A k \in 1..AlbumPages : \E s \in PageRows' : pages'[s].number = k
  BY <1>2 DEF AlbumBegun
<1>8. ASSUME NEW s \in PageRows', pages'[s].status = "failed"
      PROVE  PaidPictures(drawn[s].of)' = {}
  <2>1. CASE s = r
    <3>1. drawn'[s].of = m  BY <1>2, <2>1
    <3> QED  BY <1>8, <2>1, <3>1 DEF PaidPictures
  <2>2. CASE s # r
    <3>1. s \in PageRows /\ PaidPictures(drawn[s].of) = {}  BY <1>2, <1>8, <2>2 DEF AlbumBegun
    <3>2. PICK k : k = drawn[s].of  OBVIOUS
    <3>3. PaidPictures(k)' = {} /\ drawn'[s].of = k  BY <1>1, <1>2, <2>2, <3>1, <3>2
    <3> QED  BY <3>3 DEF PaidPictures
  <2> QED  BY <2>1, <2>2
<1>9. ASSUME NEW k \in 1..AlbumPages, NEW x \in PaidPictures(k)', NEW y \in PaidPictures(k)'
      PROVE  x = y
  <2>1. CASE k = m  BY <1>9, <2>1 DEF PaidPictures
  <2>2. CASE k # m
    <3>1. x \in PaidPictures(k) /\ y \in PaidPictures(k)  BY <1>1, <1>9, <2>2
    <3> QED  BY <3>1 DEF AlbumBegun
  <2> QED  BY <2>1, <2>2
<1> QED  BY <1>5, <1>6, <1>7, <1>8, <1>9 DEF AlbumBegun

LEMMA StartedStays ==
  ASSUME AlbumRowsInv, AlbumBegun, NEW q \in AlbumRequests, NEW b \in AnAsk, ask'[q] = b,
         \A p \in AlbumRequests \ {q} : ask'[p] = ask[p], pages' = pages, DrawsOn,
         \A n \in PictureIds : drawn'[n].status = "succeeded" => drawn[n].status = "succeeded",
         RowsOwed(b) \subseteq RowsOwed(ask[q]), ask[q].at # "tell", AskStarted(b)
  PROVE  AlbumBegun'
<1>1. \A k : PaidPictures(k)' = PaidPictures(k)
  <2>1. \A n \in PictureIds : drawn[n].status = "succeeded" => drawn[n].of # 0
    BY DEF AlbumRowsInv, RowsSound, NoPicture
  <2> QED  BY <2>1 DEF PaidPictures, DrawsOn
<1>2. PageRows' = PageRows /\ \A s \in PageRows : s \in PictureIds /\ drawn'[s].of = drawn[s].of
  BY DEF PageRows, AlbumRowsInv, RowsSound, DrawsOn
<1>3. \A s \in PageRows : PaidPictures(drawn[s].of)' = PaidPictures(drawn[s].of)
  <2> SUFFICES ASSUME NEW s \in PageRows
               PROVE  PaidPictures(drawn[s].of)' = PaidPictures(drawn[s].of)
    OBVIOUS
  <2>1. PICK k : k = drawn[s].of /\ k = drawn'[s].of  BY <1>2
  <2>2. PaidPictures(k)' = PaidPictures(k)  BY <1>1
  <2> QED  BY <2>1, <2>2 DEF PaidPictures
<1>4. ASSUME NEW p \in AlbumRequests, NEW s \in RowsOwed(ask'[p])
      PROVE  /\ s \in PageRows' /\ pages'[s].status \in {"queued", "running"}
             /\ \A n \in PaidPictures(drawn[s].of)' :
                   ask'[p].at = "tell" /\ s = ask'[p].todo[1][1] /\ n = ask'[p].todo[1][2]
  <2>1. s \in RowsOwed(ask[p])  BY <1>4
  <2>2. /\ s \in PageRows /\ pages[s].status \in {"queued", "running"}
        /\ \A n \in PaidPictures(drawn[s].of) :
              ask[p].at = "tell" /\ s = ask[p].todo[1][1] /\ n = ask[p].todo[1][2]
    BY <2>1 DEF AlbumBegun, OwesSoundly
  <2> QED  BY <1>2, <1>3, <2>2
<1>5. ASSUME NEW p \in AlbumRequests  PROVE AskStarted(ask[p])'
  BY DEF AskStarted, AlbumBegun
<1>6. \A p, o \in AlbumRequests : p # o => RowsOwed(ask'[p]) \cap RowsOwed(ask'[o]) = {}
  <2>1. \A p \in AlbumRequests : RowsOwed(ask'[p]) \subseteq RowsOwed(ask[p])  OBVIOUS
  <2> QED  BY <2>1 DEF AlbumBegun
<1>7. \A p \in AlbumRequests : AskStarted(ask[p])' /\ OwesSoundly(ask[p])'
  BY <1>4, <1>5 DEF OwesSoundly
<1>8. \A s \in PageRows' : pages'[s].status = "failed" => PaidPictures(drawn[s].of)' = {}
  BY <1>2, <1>3 DEF AlbumBegun
<1>9. \A k \in 1..AlbumPages : \A x, y \in PaidPictures(k)' : x = y
  BY <1>1 DEF AlbumBegun
<1> QED  BY <1>2, <1>6, <1>7, <1>8, <1>9 DEF AlbumBegun

LEMMA FaultlessMoves ==
  ASSUME AlbumRowsInv, AlbumBegun, Faultless, NEW q \in AlbumRequests, NEW b \in AnAsk, ask'[q] = b,
         \A p \in AlbumRequests \ {q} : ask'[p] = ask[p],
         NEW r \in PageRows, PageRows' = PageRows,
         \A s \in PictureIds \ {r} : pages'[s] = pages[s],
         NEW m, m = drawn[r].of, DrawsOn,
         \A n \in PictureIds :
             drawn'[n].status = "succeeded" /\ drawn[n].status # "succeeded" => drawn'[n].of = m,
         ask[q].at = "tell" => r = ask[q].todo[1][1],
         RowsOwed(ask[q]) \subseteq RowsOwed(b) \cup {r}, b.at \in Working \ {"sum"},
         pages'[r].status \in {"queued", "running"} => r \in RowsOwed(b),
         \A n \in PaidPictures(m)' : \/ pages'[r].status = "succeeded" /\ pages'[r].work = n
                                     \/ b.at = "tell" /\ b.todo[1][2] = n
  PROVE  Faultless'
<1>1. \A k : k # m => PaidPictures(k)' = PaidPictures(k)  BY OtherNumbers
<1>2. ASSUME NEW s \in PageRows', pages'[s].status \in {"queued", "running"}
      PROVE  \E p \in AlbumRequests : s \in RowsOwed(ask'[p])
  <2>1. CASE s = r  BY <1>2, <2>1
  <2>2. CASE s # r
    <3>1. s \in PageRows /\ pages[s].status \in {"queued", "running"}
      BY <1>2, <2>2 DEF PageRows
    <3>2. PICK p \in AlbumRequests : s \in RowsOwed(ask[p])  BY <3>1 DEF Faultless
    <3>3. s \in RowsOwed(ask'[p])  BY <2>2, <3>2
    <3> QED  BY <3>3
  <2> QED  BY <2>1, <2>2
<1>3. ASSUME NEW n \in PictureIds, drawn'[n].status = "succeeded"
      PROVE  \/ \E s \in PageRows' : pages'[s].status = "succeeded" /\ pages'[s].work = n
             \/ \E p \in AlbumRequests : ask'[p].at = "tell" /\ ask'[p].todo[1][2] = n
  <2>1. PICK k : k = drawn'[n].of  OBVIOUS
  <2>2. n \in PaidPictures(k)'  BY <1>3, <2>1 DEF PaidPictures
  <2>3. CASE k = m
    <3>1. n \in PaidPictures(m)'  BY <2>2, <2>3 DEF PaidPictures
    <3> QED  BY <3>1
  <2>4. CASE k # m
    <3>1. n \in PaidPictures(k)  BY <1>1, <2>2, <2>4
    <3>2. drawn[n].status = "succeeded" /\ drawn[n].of = k  BY <3>1 DEF PaidPictures
    <3>3. CASE \E s \in PageRows : pages[s].status = "succeeded" /\ pages[s].work = n
      <4>1. PICK s \in PageRows : pages[s].status = "succeeded" /\ pages[s].work = n  BY <3>3
      <4>2. drawn[n].of = pages[s].number  BY <4>1 DEF AlbumRowsInv, PagesShowTheirOwn, Having
      <4>3. pages[s].number = drawn[s].of  BY <4>1 DEF AlbumRowsInv, RowsSound
      <4>4. s # r  BY <2>4, <3>2, <4>2, <4>3
      <4>5. pages'[s] = pages[s] /\ s \in PageRows'  BY <4>1, <4>4 DEF PageRows
      <4> QED  BY <4>1, <4>5
    <3>4. CASE \E p \in AlbumRequests : ask[p].at = "tell" /\ ask[p].todo[1][2] = n
      <4>1. PICK p \in AlbumRequests : ask[p].at = "tell" /\ ask[p].todo[1][2] = n  BY <3>4
      <4>2. p # q
        <5>1. SUFFICES ASSUME p = q  PROVE FALSE
          OBVIOUS
        <5>2. drawn[ask[q].todo[1][2]].of = drawn[ask[q].todo[1][1]].of
          BY <4>1, <5>1, AskHead DEF AlbumRowsInv, AsksSound, AsksTyped, Working
        <5> QED  BY <2>4, <3>2, <4>1, <5>1, <5>2
      <4> QED  BY <4>1, <4>2
    <3> QED  BY <3>2, <3>3, <3>4 DEF Faultless
  <2> QED  BY <2>3, <2>4
<1>4. \A p \in AlbumRequests : ask'[p].at = "sum" =>
         \E o \in AlbumRequests \ {p} : ask'[o].at \in Working
  OBVIOUS
<1>5. ~ \A p \in AlbumRequests : ask'[p].at \notin Working  OBVIOUS
<1> QED  BY <1>2, <1>3, <1>4, <1>5 DEF Faultless

\* The bounds of the numbers of pages, and who asks nothing of the pictures.
LEMMA IdleAsk ==
  ASSUME NEW b \in AnAsk, NEW d,
         b.at \in {"new", "clear", "write", "over"}, b.at \in {"clear", "write"} => b.todo = <<>>,
         b.at = "new" => b.todo = <<>>
  PROVE  AskSound(b, d) /\ PicsDue(b) = {} /\ RowsOwed(b) = {}
<1>1. PicsDue(b) = {} /\ RowsOwed(b) = {}
  <2>1. CASE b.todo = <<>>  BY <2>1 DEF PicsDue, RowsOwed
  <2>2. CASE b.at = "over"  BY <2>2 DEF PicsDue, RowsOwed
  <2> QED  BY <2>1, <2>2
<1>2. CASE b.at = "over"  BY <1>1, <1>2 DEF AskSound, Working
<1>3. CASE b.todo = <<>> /\ b.at \in {"new", "clear", "write"}
  BY <1>1, <1>3 DEF AskSound, Working
<1> QED  BY <1>1, <1>2, <1>3

\* A request goes to another place, and nothing else of it changes.
LEMMA AskGoes ==
  ASSUME AsksTyped, NEW q \in AlbumRequests, NEW s \in Askings
  PROVE  \E b \in AnAsk : /\ b = [ask[q] EXCEPT !.at = s] /\ b.at = s
                          /\ b.todo = ask[q].todo /\ b.saw = ask[q].saw /\ b.read = ask[q].read
<1>1. ask[q] \in AnAsk  BY DEF AsksTyped
<1>2. PICK x : x = [ask[q] EXCEPT !.at = s]  OBVIOUS
<1>3. x \in AnAsk /\ x.at = s
      /\ x.todo = ask[q].todo /\ x.saw = ask[q].saw /\ x.read = ask[q].read
  BY <1>1, <1>2 DEF AnAsk
<1> QED  BY <1>2, <1>3

\* Writing and clearing are for albums that were not started.
LEMMA WritingFirst ==
  ASSUME AlbumInv, ~overtaken, NEW q \in AlbumRequests, ask[q].at \in {"write", "clear"}
  PROVE  ~Launched /\ NotStarted
BY DEF AlbumInv, AlbumBegun, AskStarted

\* The rows stay, and so do the requests.
LEMMA SameAlbumRows ==
  ASSUME AlbumInv, UNCHANGED <<pages, drawn, wallet, ask, overtaken, errors>>,
         AlbumTypeOK', Launched' <=> Launched, Launched => album'.status = album.status
  PROVE  AlbumInv'
<1>1. AlbumRowsInv'
  <2>1. RowsSound' /\ AsksTyped' /\ PagesShowTheirOwn'
    BY DEF AlbumInv, AlbumRowsInv, AsksTyped, RowsSound, PagesShowTheirOwn, PageRows, Having
  <2>2. AsksSound'  BY DEF AlbumInv, AlbumRowsInv, AsksSound
  <2> QED  BY <2>1, <2>2 DEF AlbumRowsInv
<1>2. NotStarted => NotStarted'  BY DEF NotStarted, PageRows
<1>3. AlbumBegun => AlbumBegun'
  BY DEF AlbumBegun, OwesSoundly, AskStarted, PageRows, PaidPictures
<1>4. Faultless /\ Launched => Faultless'
  <2>1. AddsUpTo' = AddsUpTo  BY DEF AddsUpTo, PageRows, Having
  <2> QED  BY <2>1 DEF Faultless, PageRows
<1> QED  BY <1>1, <1>2, <1>3, <1>4 DEF AlbumInv

LEMMA CreateAlbumSound == ASSUME AlbumInv, CreateAlbum  PROVE AlbumInv'
<1>1. AlbumTypeOK' /\ album'.status = "draft" /\ album.status = "none"
  BY DEF AlbumInv, AlbumRowsInv, AlbumTypeOK, CreateAlbum
<1>2. Launched' <=> Launched  BY <1>1 DEF Launched
<1>3. ~Launched /\ UNCHANGED <<pages, drawn, wallet, ask, overtaken, errors>>
  BY <1>1 DEF Launched, CreateAlbum
<1> QED  BY <1>1, <1>2, <1>3, SameAlbumRows

LEMMA DropPhotosSound == ASSUME AlbumInv, DropPhotos  PROVE AlbumInv'
<1>1. AlbumTypeOK' /\ album'.status = album.status
  BY DEF AlbumInv, AlbumRowsInv, AlbumTypeOK, DropPhotos
<1>2. Launched' <=> Launched  BY <1>1 DEF Launched
<1>3. UNCHANGED <<pages, drawn, wallet, ask, overtaken, errors>>  BY DEF DropPhotos
<1> QED  BY <1>1, <1>2, <1>3, SameAlbumRows

\* The rows stay sound when one request moves and draws nothing.
LEMMA RowsInvMoves ==
  ASSUME AlbumRowsInv, NEW q \in AlbumRequests, NEW b \in AnAsk, ask' = [ask EXCEPT ![q] = b],
         AlbumTypeOK', pages' = pages, drawn' = drawn,
         AskSound(b, drawn), PicsDue(b) \subseteq PicsDue(ask[q])
  PROVE  /\ AlbumRowsInv' /\ PageRows' = PageRows /\ DrawsOn
         /\ ask'[q] = b /\ \A p \in AlbumRequests \ {q} : ask'[p] = ask[p]
<1>1. DrawsOn  BY NothingDrawn DEF AlbumRowsInv
<1>2. \A p \in AlbumRequests \ {q} : /\ \A n \in PicsDue(ask[p]) : drawn'[n].status = "queued"
                                     /\ PicsDue(b) \cap PicsDue(ask[p]) = {}
  BY DEF AlbumRowsInv, AsksSound, AskSound
<1>3. AskSound(b, drawn')  OBVIOUS
<1>4. /\ AsksTyped' /\ AsksSound'
      /\ ask'[q] = b /\ \A p \in AlbumRequests \ {q} : ask'[p] = ask[p]
  BY <1>1, <1>2, <1>3, AskMoves DEF AlbumRowsInv
<1>5. RowsSound' /\ PagesShowTheirOwn' /\ PageRows' = PageRows
  BY <1>1, PagesStay DEF AlbumRowsInv
<1> QED  BY <1>1, <1>4, <1>5 DEF AlbumRowsInv

\* An album that was not started and is not started by a step.
LEMMA StaysNotStarted ==
  ASSUME NotStarted, NEW q \in AlbumRequests, NEW b, ask'[q] = b,
         \A p \in AlbumRequests \ {q} : ask'[p] = ask[p] /\ (ask[p].at = "write" =>
             \A i \in DOMAIN ask[p].todo : ask[p].todo[i][1] \in PageRows'),
         b.at \in {"new", "clear", "write", "over"},
         b.at = "write" => \A i \in DOMAIN b.todo : b.todo[i][1] \in PageRows',
         \A r \in PageRows' : pages'[r].status = "queued",
         \A n \in PictureIds : drawn'[n].status # "succeeded"
  PROVE  NotStarted'
<1>1. ASSUME NEW p \in AlbumRequests
      PROVE  /\ ask'[p].at \in {"new", "clear", "write", "over"}
             /\ ask'[p].at = "write" => \A i \in DOMAIN ask'[p].todo : ask'[p].todo[i][1] \in PageRows'
  <2>1. CASE p = q  BY <2>1
  <2>2. CASE p # q  BY <2>2 DEF NotStarted
  <2> QED  BY <2>1, <2>2
<1> QED  BY <1>1 DEF NotStarted

LEMMA BeginGenerateSound ==
  ASSUME AlbumInv, NEW q \in AlbumRequests, BeginGenerate(q)  PROVE AlbumInv'
<1>1. PICK s \in {"write", "clear"} :
         ask' = [ask EXCEPT ![q].at = s, ![q].read = album.status]
  BY DEF BeginGenerate
<1>2. ask[q] \in AnAsk /\ ask[q].todo = <<>> /\ album.status \in AlbumStates
  BY RowTypes DEF AlbumInv, AlbumRowsInv, AsksTyped, AsksSound, AskSound, BeginGenerate, Turn
<1>3. PICK b : b = [ask[q] EXCEPT !.at = s, !.read = album.status]  OBVIOUS
<1>4. b \in AnAsk /\ b.at = s /\ b.todo = <<>>
  <2>1. s \in Askings  BY DEF Askings
  <2> QED  BY <1>2, <1>3, <2>1 DEF AnAsk
<1>5. ask' = [ask EXCEPT ![q] = b]  BY <1>1, <1>3
<1>6. AskSound(b, drawn) /\ PicsDue(b) = {}  BY <1>1, <1>4, IdleAsk
<1>7. AlbumTypeOK' /\ pages' = pages /\ drawn' = drawn
  BY DEF AlbumInv, AlbumRowsInv, AlbumTypeOK, BeginGenerate
<1>8. /\ AlbumRowsInv' /\ PageRows' = PageRows
      /\ ask'[q] = b /\ \A p \in AlbumRequests \ {q} : ask'[p] = ask[p]
  <2>1. AlbumRowsInv /\ PicsDue(b) \subseteq PicsDue(ask[q])  BY <1>6 DEF AlbumInv
  <2> QED  BY <1>4, <1>5, <1>6, <1>7, <2>1, RowsInvMoves
<1>9. ~overtaken => ~Launched
  <2>1. ASSUME AlbumBegun  PROVE PageRows # {}
    <3>1. 1 \in 1..AlbumPages  BY AlbumConstants
    <3> QED  BY <2>1, <3>1 DEF AlbumBegun
  <2> QED  BY <2>1 DEF AlbumInv, BeginGenerate, Launched
<1>10. NotStarted => NotStarted'
  <2> SUFFICES ASSUME NotStarted  PROVE NotStarted'
    OBVIOUS
  <2>1. b.at = "write" => \A i \in DOMAIN b.todo : b.todo[i][1] \in PageRows'  BY <1>4
  <2>2. \A p \in AlbumRequests \ {q} : ask[p].at = "write" =>
             \A i \in DOMAIN ask[p].todo : ask[p].todo[i][1] \in PageRows'
    BY <1>8 DEF NotStarted
  <2>3. /\ \A r \in PageRows' : pages'[r].status = "queued"
        /\ \A n \in PictureIds : drawn'[n].status # "succeeded"
    BY <1>7, <1>8 DEF NotStarted
  <2>4. b.at \in {"new", "clear", "write", "over"}  BY <1>4
  <2>5. \A p \in AlbumRequests \ {q} : ask'[p] = ask[p] /\ (ask[p].at = "write" =>
             \A i \in DOMAIN ask[p].todo : ask[p].todo[i][1] \in PageRows')
    BY <1>8, <2>2
  <2> QED  BY <1>8, <2>1, <2>3, <2>4, <2>5, StaysNotStarted
<1> QED  BY <1>8, <1>9, <1>10 DEF AlbumInv, BeginGenerate, Launched

\* A request of an album that was not started ends.
LEMMA RequestEnds ==
  ASSUME AlbumInv, NEW q \in AlbumRequests, ask[q].at \in {"clear", "write"}, To(q, "over"), AlbumTypeOK',
         UNCHANGED <<pages, album, overtaken>>, DrawsOn,
         \A p \in AlbumRequests : \A n \in PicsDue(ask[p]) : drawn'[n].status = "queued",
         \A n \in PictureIds : drawn'[n].status = "succeeded" => drawn[n].status = "succeeded"
  PROVE  AlbumInv'
<1>1. AlbumRowsInv  BY DEF AlbumInv
<1>2. PICK b \in AnAsk : b = [ask[q] EXCEPT !.at = "over"] /\ b.at = "over"
  BY <1>1, AskGoes DEF AlbumRowsInv, Askings
<1>3. ask' = [ask EXCEPT ![q] = b]  BY <1>2 DEF To
<1>4. \A d : AskSound(b, d) /\ PicsDue(b) = {}
  <2> SUFFICES ASSUME NEW d  PROVE AskSound(b, d) /\ PicsDue(b) = {}
    OBVIOUS
  <2>1. b.at = "over"  BY <1>2
  <2> QED  BY <2>1, IdleAsk
<1>5. /\ AsksTyped' /\ AsksSound'
      /\ ask'[q] = b /\ \A p \in AlbumRequests \ {q} : ask'[p] = ask[p]
  <2>1. \A p \in AlbumRequests \ {q} : /\ \A n \in PicsDue(ask[p]) : drawn'[n].status = "queued"
                                       /\ PicsDue(b) \cap PicsDue(ask[p]) = {}
    BY <1>4
  <2>2. AskSound(b, drawn')  BY <1>4
  <2> QED  BY <1>1, <1>3, <2>1, <2>2, AskMoves DEF AlbumRowsInv
<1>6. RowsSound' /\ PagesShowTheirOwn' /\ PageRows' = PageRows
  BY <1>1, PagesStay DEF AlbumRowsInv
<1>7. AlbumRowsInv'  BY <1>5, <1>6 DEF AlbumRowsInv
<1>8. ASSUME ~overtaken  PROVE ~Launched /\ NotStarted'
  <2>1. ~Launched /\ NotStarted  BY <1>8, WritingFirst
  <2>2. \A p \in AlbumRequests \ {q} : ask'[p] = ask[p] /\ (ask[p].at = "write" =>
             \A i \in DOMAIN ask[p].todo : ask[p].todo[i][1] \in PageRows')
    BY <1>5, <1>6, <2>1 DEF NotStarted
  <2>3. /\ \A r \in PageRows' : pages'[r].status = "queued"
        /\ \A n \in PictureIds : drawn'[n].status # "succeeded"
    BY <1>6, <2>1 DEF NotStarted
  <2>4. b.at \in {"new", "clear", "write", "over"}
        /\ (b.at = "write" => \A i \in DOMAIN b.todo : b.todo[i][1] \in PageRows')
    BY <1>2
  <2> QED  BY <1>5, <2>1, <2>2, <2>3, <2>4, StaysNotStarted
<1> QED  BY <1>7, <1>8 DEF AlbumInv, Launched

\* Who writes alone: the others are at rest.
LEMMA AloneWriting ==
  ASSUME NotStarted, NEW q \in AlbumRequests, Generating = {q}, NEW p \in AlbumRequests, p # q
  PROVE  ask[p].at \in {"new", "over"}
BY DEF NotStarted, Generating

LEMMA ClearPagesSound ==
  ASSUME AlbumInv, NEW q \in AlbumRequests, ClearPages(q)  PROVE AlbumInv'
<1>1. AlbumRowsInv /\ ask[q].at = "clear"  BY DEF AlbumInv, ClearPages
<1>2. album' = album /\ drawn' = drawn /\ wallet' = wallet /\ errors' = errors
  BY DEF ClearPages
<1>3. DrawsOn  BY <1>1, <1>2, NothingDrawn DEF AlbumRowsInv
<1>4. \A p \in AlbumRequests : \A n \in PicsDue(ask[p]) : drawn'[n].status = "queued"
  BY <1>1, <1>2 DEF AlbumRowsInv, AsksSound, AskSound
<1>5. CASE UNCHANGED <<pages, overtaken>> /\ To(q, "over")
  <2>1. AlbumTypeOK'  BY <1>1, <1>2, <1>5 DEF AlbumRowsInv, AlbumTypeOK
  <2> QED  BY <1>1, <1>2, <1>3, <1>4, <1>5, <2>1, RequestEnds
<1>6. CASE pages' = [r \in PictureIds |-> NoPage] /\ To(q, "write") /\ Meanwhile(q)
  <2>1. PageRows' = {}  BY <1>6 DEF PageRows
  <2>2. AlbumTypeOK'
    <3>1. NoPage \in APage  BY AlbumConstants DEF NoPage, APage
    <3>2. pages' \in [PictureIds -> APage]  BY <1>6, <3>1
    <3>3. overtaken' \in BOOLEAN  BY <1>1, <1>6 DEF Meanwhile, AlbumRowsInv, AlbumTypeOK
    <3> QED  BY <1>1, <1>2, <3>2, <3>3 DEF AlbumRowsInv, AlbumTypeOK, APage
  <2>3. PICK b \in AnAsk : b = [ask[q] EXCEPT !.at = "write"] /\ b.at = "write" /\ b.todo = ask[q].todo
    BY <1>1, AskGoes DEF AlbumRowsInv, Askings
  <2>4. b.todo = <<>> /\ ask' = [ask EXCEPT ![q] = b]
    BY <1>1, <1>6, <2>3 DEF AlbumRowsInv, AsksSound, AskSound, To
  <2>5. \A d : AskSound(b, d) /\ PicsDue(b) = {}
    <3> SUFFICES ASSUME NEW d  PROVE AskSound(b, d) /\ PicsDue(b) = {}
      OBVIOUS
    <3>1. b.at = "write" /\ b.todo = <<>>  BY <2>3, <2>4
    <3> QED  BY <3>1, IdleAsk
  <2>6. /\ AsksTyped' /\ AsksSound'
        /\ ask'[q] = b /\ \A p \in AlbumRequests \ {q} : ask'[p] = ask[p]
    <3>1. \A p \in AlbumRequests \ {q} : /\ \A n \in PicsDue(ask[p]) : drawn'[n].status = "queued"
                                         /\ PicsDue(b) \cap PicsDue(ask[p]) = {}
      BY <1>4, <2>5
    <3>2. AskSound(b, drawn')  BY <2>5
    <3> QED  BY <1>1, <1>3, <2>4, <3>1, <3>2, AskMoves DEF AlbumRowsInv
  <2>7. RowsSound' /\ PagesShowTheirOwn'
    BY <1>1, <1>2, <2>1 DEF AlbumRowsInv, RowsSound, PagesShowTheirOwn, Having
  <2>8. AlbumRowsInv'  BY <2>2, <2>6, <2>7 DEF AlbumRowsInv
  <2>9. ASSUME ~overtaken'  PROVE ~Launched' /\ NotStarted'
    <3>1. ~overtaken /\ Generating = {q}  BY <1>6, <2>9 DEF Meanwhile
    <3>2. ~Launched /\ NotStarted  BY <1>1, <3>1, WritingFirst
    <3>3. \A p \in AlbumRequests : /\ ask'[p].at \in {"new", "clear", "write", "over"}
                                   /\ ask'[p].at = "write" => ask'[p].todo = <<>>
      <4> SUFFICES ASSUME NEW p \in AlbumRequests
                   PROVE  /\ ask'[p].at \in {"new", "clear", "write", "over"}
                          /\ ask'[p].at = "write" => ask'[p].todo = <<>>
        OBVIOUS
      <4>1. CASE p = q  BY <2>3, <2>4, <2>6, <4>1
      <4>2. CASE p # q
        <5>1. ask[p].at \in {"new", "over"}  BY <3>1, <3>2, <4>2, AloneWriting
        <5> QED  BY <2>6, <4>2, <5>1
      <4> QED  BY <4>1, <4>2
    <3> QED  BY <1>2, <2>1, <3>2, <3>3 DEF NotStarted, Launched
  <2> QED  BY <2>8, <2>9 DEF AlbumInv
<1> QED  BY <1>5, <1>6 DEF ClearPages

\* A record is written for the next page, and its page if nobody wrote one of the number.
LEMMA WriteAlbumPageSound ==
  ASSUME AlbumInv, NEW q \in AlbumRequests, WriteAlbumPage(q)  PROVE AlbumInv'
<1>1. AlbumRowsInv /\ ask[q].at = "write"  BY DEF AlbumInv, WriteAlbumPage
<1>2. /\ album' = album /\ wallet' = wallet /\ errors' = errors /\ overtaken' = overtaken
  BY DEF WriteAlbumPage
<1>3. ask[q] \in AnAsk /\ AskSound(ask[q], drawn)
  BY <1>1 DEF AlbumRowsInv, AsksTyped, AsksSound
<1>4. PICK n : n = Len(ask[q].todo) + 1  OBVIOUS
<1>5. n \in 1..AlbumPages
  <2>1. n <= AlbumPages  BY <1>4 DEF WriteAlbumPage
  <2>2. Len(ask[q].todo) \in Nat  BY <1>3 DEF AnAsk
  <2> QED  BY <1>4, <2>1, <2>2, AlbumConstants
<1>6. CASE UNCHANGED <<drawn, pages>> /\ To(q, "over")
  <2>1. AlbumTypeOK'  BY <1>1, <1>2, <1>6 DEF AlbumRowsInv, AlbumTypeOK
  <2>2. DrawsOn  BY <1>1, <1>6, NothingDrawn DEF AlbumRowsInv
  <2>3. \A p \in AlbumRequests : \A k \in PicsDue(ask[p]) : drawn'[k].status = "queued"
    BY <1>1, <1>6 DEF AlbumRowsInv, AsksSound, AskSound
  <2> QED  BY <1>1, <1>2, <1>6, <2>1, <2>2, <2>3, RequestEnds
<1>7. ASSUME NewOnes # {}, Recorded(n)
      PROVE  /\ DrawsOn /\ NextOne \in PictureIds /\ drawn[NextOne] = NoPicture
             /\ drawn'[NextOne].of = n /\ drawn'[NextOne].status = "queued"
             /\ \A k \in PictureIds \ {NextOne} : drawn'[k] = drawn[k]
             /\ \A p \in AlbumRequests : \A k \in PicsDue(ask[p]) :
                  drawn'[k].status = "queued" /\ k # NextOne /\ k \in PictureIds
  <2>1. /\ DrawsOn /\ NextOne \in PictureIds /\ drawn[NextOne] = NoPicture
        /\ drawn'[NextOne].of = n /\ drawn'[NextOne].status = "queued"
        /\ \A k \in PictureIds \ {NextOne} : drawn'[k] = drawn[k]
    BY <1>1, <1>5, <1>7, RecordedDraws DEF AlbumRowsInv
  <2>2. ASSUME NEW p \in AlbumRequests, NEW k \in PicsDue(ask[p])
        PROVE  drawn'[k].status = "queued" /\ k # NextOne /\ k \in PictureIds
    <3>1. AskSound(ask[p], drawn) /\ ask[p] \in AnAsk
      BY <1>1 DEF AlbumRowsInv, AsksTyped, AsksSound
    <3>2. k \in PictureIds  BY <3>1, <2>2, DueTyped
    <3>3. drawn[k].status = "queued"  BY <3>1, <2>2 DEF AskSound
    <3> QED  BY <2>1, <3>2, <3>3 DEF NoPicture
  <2> QED  BY <2>1, <2>2
<1>8. ASSUME NewOnes # {}, Recorded(n)
      PROVE  \A k \in PictureIds : drawn'[k].status = "succeeded" => drawn[k].status = "succeeded"
  BY <1>7, <1>8
<1>9. CASE NewOnes # {} /\ Recorded(n) /\ UNCHANGED pages /\ To(q, "over")
  <2>1. AlbumTypeOK'  BY <1>1, <1>2, <1>7, <1>9 DEF AlbumRowsInv, AlbumTypeOK, DrawsOn, APicture
  <2> QED  BY <1>1, <1>2, <1>7, <1>8, <1>9, <2>1, RequestEnds
<1>10. CASE /\ NewOnes # {} /\ Recorded(n)
            /\ \A r \in PageRows : pages[r].number # n
            /\ pages' = [pages EXCEPT ![NextOne] =
                  [number |-> n, status |-> "queued", record |-> NextOne, work |-> 0]]
            /\ ask' = [ask EXCEPT ![q].todo = Append(@, <<NextOne, NextOne>>)]
  <2>1. PICK x : x = NextOne  OBVIOUS
  <2>2. /\ DrawsOn /\ x \in PictureIds /\ drawn[x] = NoPicture
        /\ drawn'[x].of = n /\ drawn'[x].status = "queued"
        /\ \A k \in PictureIds \ {x} : drawn'[k] = drawn[k]
        /\ \A p \in AlbumRequests : \A k \in PicsDue(ask[p]) :
             drawn'[k].status = "queued" /\ k # x /\ k \in PictureIds
    BY <1>7, <1>10, <2>1
  <2>3. PICK w : w = [number |-> n, status |-> "queued", record |-> x, work |-> 0]  OBVIOUS
  <2>4. w \in APage /\ w.number = n /\ w.status = "queued"
    BY <1>5, <2>2, <2>3, AlbumConstants DEF APage, PictureIds
  <2>5. pages' = [pages EXCEPT ![x] = w]  BY <1>10, <2>1, <2>3
  <2>6. /\ RowsSound' /\ PagesShowTheirOwn' /\ PageRows' = PageRows \cup {x}
        /\ pages' \in [PictureIds -> APage]
        /\ pages'[x] = w /\ \A s \in PictureIds \ {x} : pages'[s] = pages[s]
    <3>1. w.number = drawn'[x].of /\ w.number # 0 /\ w.status # "none"  BY <1>5, <2>2, <2>4
    <3>2. \A s \in PageRows \ {x} : pages[s].number # w.number  BY <1>10, <2>4
    <3>3. w.status # "succeeded"  BY <2>4
    <3> QED  BY <1>1, <2>2, <2>4, <2>5, <3>1, <3>2, <3>3, PageMoves DEF AlbumRowsInv
  <2>7. AlbumTypeOK'
    BY <1>1, <1>2, <2>2, <2>6 DEF AlbumRowsInv, AlbumTypeOK, DrawsOn, APicture, APage
  <2>8. PICK t : t = Append(ask[q].todo, <<x, x>>)  OBVIOUS
  <2>9. /\ t \in Seq(PictureIds \X (0..MaxPictures)) /\ t[n] = <<x, x>>
        /\ DOMAIN t = DOMAIN ask[q].todo \cup {n} /\ n \notin DOMAIN ask[q].todo
        /\ \A i \in DOMAIN ask[q].todo : t[i] = ask[q].todo[i]
    <3>1. ask[q].todo \in Seq(PictureIds \X (0..MaxPictures))  BY <1>3 DEF AnAsk
    <3>2. <<x, x>> \in PictureIds \X (0..MaxPictures)  BY <2>2, AlbumConstants DEF PictureIds
    <3> QED  BY SMTT(40), <1>4, <2>8, <3>1, <3>2
  <2>10. PICK b : b = [ask[q] EXCEPT !.todo = t]  OBVIOUS
  <2>11. b \in AnAsk /\ b.at = "write" /\ b.todo = t  BY <1>1, <1>3, <2>9, <2>10 DEF AnAsk
  <2>12. ask' = [ask EXCEPT ![q] = b]  BY <1>10, <2>1, <2>8, <2>10
  <2>13. PicsDue(ask[q]) = {ask[q].todo[i][2] : i \in DOMAIN ask[q].todo}
    BY <1>1 DEF PicsDue
  <2>14. PicsDue(b) = PicsDue(ask[q]) \cup {x}
    <3>1. PicsDue(b) = {t[i][2] : i \in DOMAIN t}  BY <2>11 DEF PicsDue
    <3>2. t[n][2] = x  BY <2>9
    <3> QED  BY <2>9, <2>13, <3>1, <3>2
  <2>15. AskSound(b, drawn')
    <3>1. \A i \in DOMAIN ask[q].todo :
             /\ ask[q].todo[i][1] = ask[q].todo[i][2] /\ ask[q].todo[i][1] # x
             /\ ask[q].todo[i][1] \in PictureIds
             /\ drawn'[ask[q].todo[i][1]].of = i
      BY <1>1, <1>3, <2>2, <2>13 DEF AskSound
    <3>2. ASSUME NEW i \in DOMAIN b.todo
          PROVE  /\ b.todo[i][1] = b.todo[i][2] /\ b.todo[i][1] \in PictureIds
                 /\ drawn'[b.todo[i][1]].of = i /\ i # 0
      <4>1. CASE i = n  BY <1>5, <2>2, <2>9, <2>11, <4>1
      <4>2. CASE i # n
        <5>1. i \in DOMAIN ask[q].todo /\ b.todo[i] = ask[q].todo[i]  BY <2>9, <2>11, <4>2
        <5>2. i # 0  BY <1>3, <5>1 DEF AnAsk
        <5> QED  BY <3>1, <5>1, <5>2
      <4> QED  BY <4>1, <4>2
    <3>3. \A i, k \in DOMAIN b.todo :
             i # k => b.todo[i][1] # b.todo[k][1] /\ b.todo[i][2] # b.todo[k][2]
      <4>1. \A i, k \in DOMAIN b.todo : b.todo[i][1] = b.todo[k][1] => i = k  BY <3>2
      <4> QED  BY <3>2, <4>1
    <3>4. \A k \in PicsDue(b) : drawn'[k].status = "queued"  BY <2>2, <2>14
    <3> QED  BY <2>11, <3>2, <3>3, <3>4 DEF AskSound, Working
  <2>16. /\ AsksTyped' /\ AsksSound'
         /\ ask'[q] = b /\ \A p \in AlbumRequests \ {q} : ask'[p] = ask[p]
    <3>1. \A p \in AlbumRequests \ {q} : /\ \A k \in PicsDue(ask[p]) : drawn'[k].status = "queued"
                                         /\ PicsDue(b) \cap PicsDue(ask[p]) = {}
      BY <1>1, <2>2, <2>14 DEF AlbumRowsInv, AsksSound
    <3> QED  BY <1>1, <2>2, <2>11, <2>12, <2>15, <3>1, AskMoves DEF AlbumRowsInv
  <2>17. AlbumRowsInv'  BY <2>6, <2>7, <2>16 DEF AlbumRowsInv
  <2>18. ASSUME ~overtaken  PROVE ~Launched /\ NotStarted'
    <3>1. ~Launched /\ NotStarted  BY <1>1, <2>18, WritingFirst
    <3>2. \A p \in AlbumRequests \ {q} : ask'[p] = ask[p] /\ (ask[p].at = "write" =>
             \A i \in DOMAIN ask[p].todo : ask[p].todo[i][1] \in PageRows')
      BY <2>6, <2>16, <3>1 DEF NotStarted
    <3>3. \A i \in DOMAIN b.todo : b.todo[i][1] \in PageRows'
      BY <1>1, <2>6, <2>9, <2>11, <3>1 DEF NotStarted
    <3>4. \A r \in PageRows' : pages'[r].status = "queued"
      BY <2>4, <2>6, <3>1 DEF NotStarted, PageRows
    <3>5. \A k \in PictureIds : drawn'[k].status # "succeeded"
      BY <1>8, <1>10, <3>1 DEF NotStarted
    <3>6. b.at \in {"new", "clear", "write", "over"}  BY <2>11
    <3> QED  BY <2>16, <3>1, <3>2, <3>3, <3>4, <3>5, <3>6, StaysNotStarted
  <2> QED  BY <1>2, <2>17, <2>18 DEF AlbumInv, Launched
<1> QED  BY <1>4, <1>6, <1>9, <1>10 DEF WriteAlbumPage

\* The album is under way, and its pages are owed by who wrote them.
LEMMA StartGenerateSound ==
  ASSUME AlbumInv, NEW q \in AlbumRequests, StartGenerate(q)  PROVE AlbumInv'
<1>1. AlbumRowsInv /\ ask[q].at = "write" /\ Len(ask[q].todo) = AlbumPages
  BY DEF AlbumInv, StartGenerate
<1>2. pages' = pages /\ drawn' = drawn /\ wallet' = wallet /\ errors' = errors
  BY DEF StartGenerate
<1>3. ask[q] \in AnAsk /\ AskSound(ask[q], drawn)
  BY <1>1 DEF AlbumRowsInv, AsksTyped, AsksSound
<1>4. CASE UNCHANGED <<album, overtaken>> /\ To(q, "over")
  <2>1. AlbumTypeOK'  BY <1>1, <1>2, <1>4 DEF AlbumRowsInv, AlbumTypeOK
  <2>2. DrawsOn  BY <1>1, <1>2, NothingDrawn DEF AlbumRowsInv
  <2>3. \A p \in AlbumRequests : \A k \in PicsDue(ask[p]) : drawn'[k].status = "queued"
    BY <1>1, <1>2 DEF AlbumRowsInv, AsksSound, AskSound
  <2> QED  BY <1>1, <1>2, <1>4, <2>1, <2>2, <2>3, RequestEnds
<1>5. CASE album' = [album EXCEPT !.status = "generating"] /\ To(q, "run") /\ Meanwhile(q)
  <2>1. AlbumTypeOK' /\ album'.status = "generating"
    <3>1. overtaken' \in BOOLEAN  BY <1>1, <1>5 DEF Meanwhile, AlbumRowsInv, AlbumTypeOK
    <3> QED  BY <1>1, <1>2, <1>5, <3>1 DEF AlbumRowsInv, AlbumTypeOK
  <2>2. PICK b \in AnAsk : b = [ask[q] EXCEPT !.at = "run"] /\ b.at = "run" /\ b.todo = ask[q].todo
    BY <1>1, AskGoes DEF AlbumRowsInv, Askings, Working
  <2>3. b.at = "run" /\ b.todo = ask[q].todo  BY <2>2
  <2>4. ask' = [ask EXCEPT ![q] = b]  BY <1>5, <2>2 DEF To
  <2>5. /\ PicsDue(b) = PicsDue(ask[q])
        /\ RowsOwed(b) = {ask[q].todo[i][1] : i \in DOMAIN ask[q].todo}
    BY <1>1, <2>3 DEF PicsDue, RowsOwed
  <2>6. DOMAIN ask[q].todo = 1..AlbumPages /\ ask[q].todo # <<>>
    BY <1>1, <1>3, AlbumConstants DEF AnAsk
  <2>7. AskSound(b, drawn)
    BY <1>1, <1>3, <2>3, <2>5, <2>6 DEF AskSound, Working
  <2>8. /\ AlbumRowsInv' /\ PageRows' = PageRows
        /\ ask'[q] = b /\ \A p \in AlbumRequests \ {q} : ask'[p] = ask[p]
    <3>1. PicsDue(b) \subseteq PicsDue(ask[q])  BY <2>5
    <3> QED  BY <1>1, <1>2, <2>1, <2>4, <2>7, <3>1, RowsInvMoves
  <2>9. ASSUME ~overtaken'  PROVE AlbumBegun' /\ Faultless'
    <3>1. ~overtaken /\ Generating = {q}  BY <1>5, <2>9 DEF Meanwhile
    <3>2. NotStarted  BY <1>1, <3>1, WritingFirst
    <3>3. \A p \in AlbumRequests \ {q} : ask'[p].at \in {"new", "over"} /\ RowsOwed(ask'[p]) = {}
      <4> SUFFICES ASSUME NEW p \in AlbumRequests \ {q}
                   PROVE  ask'[p].at \in {"new", "over"} /\ RowsOwed(ask'[p]) = {}
        OBVIOUS
      <4>1. ask[p].at \in {"new", "over"}  BY <3>1, <3>2, AloneWriting
      <4>2. RowsOwed(ask[p]) = {}  BY <4>1 DEF RowsOwed
      <4> QED  BY <2>8, <4>1, <4>2
    <3>4. \A r \in RowsOwed(b) : r \in PageRows /\ pages[r].status = "queued"
      BY <1>1, <2>5, <3>2 DEF NotStarted
    <3>5. \A m : PaidPictures(m)' = {}  BY <1>2, <3>2 DEF NotStarted, PaidPictures
    <3>6. \A m \in 1..AlbumPages :
             \E r \in PageRows : pages[r].number = m /\ r \in RowsOwed(b)
      <4> SUFFICES ASSUME NEW m \in 1..AlbumPages
                   PROVE  \E r \in PageRows : pages[r].number = m /\ r \in RowsOwed(b)
        OBVIOUS
      <4>1. ask[q].todo[m][1] \in RowsOwed(b) /\ drawn[ask[q].todo[m][1]].of = m
        BY <1>1, <1>3, <2>5, <2>6 DEF AskSound
      <4> QED  BY <1>1, <3>4, <4>1 DEF AlbumRowsInv, RowsSound
    <3>7. \A r \in PageRows : r \in RowsOwed(b)
      <4> SUFFICES ASSUME NEW r \in PageRows  PROVE r \in RowsOwed(b)
        OBVIOUS
      <4>1. pages[r].number # 0 /\ pages[r].number \in 0..AlbumPages
        <5>1. pages[r] \in APage  BY <1>1, RowTypes DEF AlbumRowsInv, PageRows
        <5>2. pages[r].number # 0  BY <1>1 DEF AlbumRowsInv, RowsSound
        <5> QED  BY <5>1, <5>2 DEF APage
      <4>2. pages[r].number \in 1..AlbumPages  BY <4>1, AlbumConstants
      <4>3. PICK s \in PageRows : pages[s].number = pages[r].number /\ s \in RowsOwed(b)
        BY <3>6, <4>2
      <4> QED  BY <1>1, <4>3 DEF AlbumRowsInv, RowsSound
    <3>8. \A p \in AlbumRequests : AskStarted(ask[p])' /\ OwesSoundly(ask[p])'
      <4> SUFFICES ASSUME NEW p \in AlbumRequests
                   PROVE  AskStarted(ask[p])' /\ OwesSoundly(ask[p])'
        OBVIOUS
      <4>1. ask'[p].at \notin {"write", "clear", "sum"}  BY <2>3, <2>8, <3>3
      <4>2. \A r \in RowsOwed(ask'[p]) : r \in PageRows /\ pages[r].status = "queued"
        BY <2>8, <3>3, <3>4
      <4> QED  BY <1>2, <2>8, <3>5, <4>1, <4>2 DEF AskStarted, OwesSoundly, PaidPictures
    <3>9. \A p, o \in AlbumRequests : p # o => RowsOwed(ask'[p]) \cap RowsOwed(ask'[o]) = {}
      BY <3>3
    <3>10. \A r \in PageRows : pages[r].status = "queued"  BY <3>2 DEF NotStarted
    <3>11. AlbumBegun'
      BY <1>2, <2>8, <3>5, <3>6, <3>8, <3>9, <3>10 DEF AlbumBegun
    <3>12. \A p \in AlbumRequests : ask'[p].at # "sum"  BY <2>3, <2>8, <3>3
    <3>13. \A r \in PageRows' : \E p \in AlbumRequests : r \in RowsOwed(ask'[p])
      BY <2>8, <3>7
    <3>14. \A n \in PictureIds : drawn'[n].status # "succeeded"  BY <1>2, <3>2 DEF NotStarted
    <3>15. \E p \in AlbumRequests : ask'[p].at \in Working  BY <2>3, <2>8 DEF Working
    <3>16. Faultless'  BY <3>12, <3>13, <3>14, <3>15 DEF Faultless
    <3> QED  BY <3>11, <3>16
  <2> QED  BY <2>1, <2>8, <2>9 DEF AlbumInv, Launched
<1> QED  BY <1>4, <1>5 DEF StartGenerate

\* The program stops: nobody is under way, and what was queued failed.
LEMMA AlbumStopsSound ==
  ASSUME AlbumInv, AlbumStops  PROVE AlbumInv'
<1>1. AlbumRowsInv  BY DEF AlbumInv
<1>2. /\ album' = album /\ pages' = pages /\ wallet' = wallet /\ overtaken' = overtaken
      /\ errors' = errors + 1 /\ errors < MaxErrors
  BY DEF AlbumStops, Slips
<1>3. errors' \in 0..MaxErrors /\ errors' # 0
  BY <1>1, <1>2, AlbumConstants DEF AlbumRowsInv, AlbumTypeOK
<1>4. ASSUME NEW n \in PictureIds
      PROVE  /\ drawn'[n] \in APicture /\ drawn'[n].of = drawn[n].of
             /\ drawn[n].status # "queued" => drawn'[n] = drawn[n]
             /\ drawn[n].status = "queued" => drawn'[n].status = "failed"
  <2>1. drawn[n] \in APicture  BY <1>1, RowTypes DEF AlbumRowsInv
  <2>2. drawn'[n] = IF drawn[n].status = "queued"
                      THEN [drawn[n] EXCEPT !.status = "failed"] ELSE drawn[n]
    BY DEF AlbumStops
  <2> QED  BY <2>1, <2>2 DEF APicture
<1>5. drawn' \in [PictureIds -> APicture]
  <2>1. drawn' = [r \in PictureIds |-> IF drawn[r].status = "queued"
                                       THEN [drawn[r] EXCEPT !.status = "failed"] ELSE drawn[r]]
    BY DEF AlbumStops
  <2>2. drawn' = [r \in PictureIds |-> drawn'[r]]  BY <2>1
  <2> QED  BY <1>4, <2>2
<1>6. DrawsOn
  <2>1. \A n \in PictureIds : drawn'[n] # NoPicture => drawn[n] # NoPicture
    BY <1>4 DEF NoPicture
  <2> QED  BY <1>1, <1>4, <1>5, <2>1 DEF DrawsOn, AlbumRowsInv, RowsSound
<1>7. ASSUME NEW p \in AlbumRequests
      PROVE  /\ ask'[p] \in AnAsk /\ ask'[p].at \in {"new", "over"}
             /\ ask'[p].at = "new" => ask'[p].todo = <<>>
  <2>1. ask[p] \in AnAsk /\ AskSound(ask[p], drawn)
    BY <1>1 DEF AlbumRowsInv, AsksTyped, AsksSound
  <2>2. PICK b \in AnAsk : b = [ask[p] EXCEPT !.at = "over"] /\ b.at = "over"
    BY <1>1, AskGoes DEF AlbumRowsInv, Askings
  <2>3. ask'[p] = IF ask[p].at = "new" THEN ask[p] ELSE [ask[p] EXCEPT !.at = "over"]
    BY DEF AlbumStops
  <2>4. CASE ask[p].at = "new"  BY <2>1, <2>3, <2>4 DEF AskSound
  <2>5. CASE ask[p].at # "new"
    <3>1. ask'[p] = b  BY <2>2, <2>3, <2>5
    <3>2. b.at = "over"  BY <2>2
    <3> QED  BY <3>1, <3>2
  <2> QED  BY <2>4, <2>5
<1>8. ASSUME NEW p \in AlbumRequests
      PROVE  AskSound(ask'[p], drawn') /\ PicsDue(ask'[p]) = {} /\ RowsOwed(ask'[p]) = {}
  <2>1. PICK b \in AnAsk : b = ask'[p]  BY <1>7
  <2>2. b.at \in {"new", "over"} /\ (b.at = "new" => b.todo = <<>>)  BY <1>7, <2>1
  <2>3. AskSound(b, drawn') /\ PicsDue(b) = {} /\ RowsOwed(b) = {}  BY <2>2, IdleAsk
  <2> QED  BY <2>1, <2>3
<1>9. AsksTyped' /\ AsksSound'
  <2>1. ask' = [p \in AlbumRequests |-> ask'[p]]  BY DEF AlbumStops
  <2>2. AsksTyped'  BY <1>7, <2>1 DEF AsksTyped
  <2> QED  BY <1>8, <2>2 DEF AsksSound
<1>10. RowsSound' /\ PagesShowTheirOwn' /\ PageRows' = PageRows
  BY <1>1, <1>2, <1>6, PagesStay DEF AlbumRowsInv
<1>11. AlbumTypeOK'
  BY <1>1, <1>2, <1>3, <1>5 DEF AlbumRowsInv, AlbumTypeOK, APicture
<1>12. \A m : PaidPictures(m)' = PaidPictures(m)
  BY <1>4 DEF PaidPictures
<1>13. NotStarted => NotStarted'
  <2>1. \A n \in PictureIds : drawn'[n].status = "succeeded" => drawn[n].status = "succeeded"
    BY <1>4
  <2>2. \A p \in AlbumRequests : ask'[p].at \in {"new", "clear", "write", "over"} /\ ask'[p].at # "write"
    BY <1>7
  <2> QED  BY <1>2, <1>10, <2>1, <2>2 DEF NotStarted
<1>14. AlbumBegun => AlbumBegun'
  <2>1. \A p \in AlbumRequests : AskStarted(ask[p])' /\ OwesSoundly(ask[p])'
    BY <1>7, <1>8 DEF AskStarted, OwesSoundly
  <2>2. \A p, o \in AlbumRequests : p # o => RowsOwed(ask'[p]) \cap RowsOwed(ask'[o]) = {}
    BY <1>8
  <2>3. \A r \in PageRows : r \in PictureIds /\ drawn'[r].of = drawn[r].of
    BY <1>4 DEF PageRows
  <2>4. ASSUME AlbumBegun, NEW r \in PageRows, pages[r].status = "failed"
        PROVE  PaidPictures(drawn[r].of)' = {}
    <3>1. PaidPictures(drawn[r].of) = {}  BY <2>4 DEF AlbumBegun
    <3>2. PICK m : m = drawn[r].of /\ m = drawn'[r].of  BY <2>3, <2>4
    <3>3. PaidPictures(m)' = {}  BY <1>12, <3>1, <3>2
    <3> QED  BY <3>2, <3>3 DEF PaidPictures
  <2>5. AlbumBegun => \A r \in PageRows' : pages'[r].status = "failed" => PaidPictures(drawn[r].of)' = {}
    BY <1>2, <1>10, <2>4
  <2>6. AlbumBegun => \A m \in 1..AlbumPages : \A a, b \in PaidPictures(m)' : a = b
    BY <1>12 DEF AlbumBegun
  <2>7. AlbumBegun => \A m \in 1..AlbumPages : \E r \in PageRows' : pages'[r].number = m
    BY <1>2, <1>10 DEF AlbumBegun
  <2> QED  BY <2>1, <2>2, <2>5, <2>6, <2>7 DEF AlbumBegun
<1> QED
  <2>1. AlbumRowsInv'  BY <1>9, <1>10, <1>11 DEF AlbumRowsInv
  <2> QED  BY <1>2, <1>3, <1>13, <1>14, <2>1 DEF AlbumInv, Launched

LEMMA FaultlessStays ==
  ASSUME Faultless, NEW q \in AlbumRequests, NEW b, ask'[q] = b,
         \A p \in AlbumRequests \ {q} : ask'[p] = ask[p], pages' = pages, album' = album,
         \A n \in PictureIds : drawn'[n].status = "succeeded" => drawn[n].status = "succeeded",
         ask[q].at \notin Working, b.at \notin Working
  PROVE  Faultless'
<1>1. PageRows' = PageRows /\ AddsUpTo' = AddsUpTo  BY DEF AddsUpTo, PageRows, Having
<1>2. RowsOwed(ask[q]) = {}  BY DEF RowsOwed, Working
<1>3. \A p \in AlbumRequests : ask'[p].at \in Working \/ ask[p].at \in Working => ask'[p] = ask[p]
  OBVIOUS
<1>4. \A r \in PageRows : pages[r].status \in {"queued", "running"} =>
         \E p \in AlbumRequests : r \in RowsOwed(ask'[p])
  BY <1>2 DEF Faultless
<1>5. \A n \in PictureIds : drawn'[n].status = "succeeded" =>
         \/ \E r \in PageRows : pages[r].status = "succeeded" /\ pages[r].work = n
         \/ \E p \in AlbumRequests : ask'[p].at = "tell" /\ ask'[p].todo[1][2] = n
  BY <1>3 DEF Faultless, Working
<1>6. \A p \in AlbumRequests : ask'[p].at = "sum" =>
         ask'[p].read = AddsUpTo \/ \E o \in AlbumRequests \ {p} : ask'[o].at \in Working
  BY <1>3 DEF Faultless, Working
<1>7. (\A p \in AlbumRequests : ask'[p].at \notin Working) => album.status = AddsUpTo
  BY <1>3 DEF Faultless
<1> QED  BY <1>1, <1>4, <1>5, <1>6, <1>7 DEF Faultless

\* Who works does so on an album that was started.
LEMMA WorkingStarted ==
  ASSUME AlbumInv, NEW q \in AlbumRequests, ask[q].at \in Working \cup {"retry"}, ~overtaken
  PROVE  Launched /\ AlbumBegun /\ (errors = 0 => Faultless)
BY DEF AlbumInv, NotStarted, Working

LEMMA BeginRetrySound ==
  ASSUME AlbumInv, NEW q \in AlbumRequests, BeginRetry(q)  PROVE AlbumInv'
<1>1. AlbumRowsInv /\ ask[q].at = "new"  BY DEF AlbumInv, BeginRetry, Turn
<1>2. /\ album' = album /\ pages' = pages /\ drawn' = drawn /\ wallet' = wallet
      /\ errors' = errors /\ overtaken' = overtaken
  BY DEF BeginRetry
<1>3. PICK r \in PageRows :
         /\ pages[r].status = "failed"
         /\ ask' = [ask EXCEPT ![q].at = "retry", ![q].saw = pages[r], ![q].todo = <<<<r, 0>>>>]
  BY DEF BeginRetry, MayRetry
<1>4. /\ r \in PictureIds /\ pages[r] \in APage /\ pages[r].number = drawn[r].of
      /\ drawn[r].of # 0 /\ ask[q] \in AnAsk
  BY <1>1, RowTypes DEF AlbumRowsInv, RowsSound, PageRows, AsksTyped
<1>5. PICK t : t = <<<<r, 0>>>>  OBVIOUS
<1>6. t \in Seq(PictureIds \X (0..MaxPictures)) /\ Len(t) = 1 /\ t[1][1] = r
  BY <1>4, <1>5, AlbumConstants
<1>7. PICK b : b = [ask[q] EXCEPT !.at = "retry", !.saw = pages[r], !.todo = t]  OBVIOUS
<1>8. b \in AnAsk /\ b.at = "retry" /\ b.saw = pages[r] /\ b.todo = t
  <2>1. "retry" \in Askings  BY DEF Askings
  <2> QED  BY <1>4, <1>6, <1>7, <2>1 DEF AnAsk
<1>9. ask' = [ask EXCEPT ![q] = b]  BY <1>3, <1>5, <1>7
<1>10. PicsDue(b) = {} /\ RowsOwed(b) = {}  BY <1>8 DEF PicsDue, RowsOwed
<1>11. AskSound(b, drawn)
  BY <1>3, <1>4, <1>6, <1>8, <1>10 DEF AskSound, Working
<1>12. AlbumTypeOK'  BY <1>1, <1>2 DEF AlbumRowsInv, AlbumTypeOK
<1>13. /\ AlbumRowsInv' /\ PageRows' = PageRows /\ DrawsOn
       /\ ask'[q] = b /\ \A p \in AlbumRequests \ {q} : ask'[p] = ask[p]
  <2>1. PicsDue(b) \subseteq PicsDue(ask[q])  BY <1>10
  <2> QED  BY <1>1, <1>2, <1>8, <1>9, <1>11, <1>12, <2>1, RowsInvMoves
<1>14. ~NotStarted  BY <1>3 DEF NotStarted
<1>15. AlbumBegun => AlbumBegun'
  <2>1. RowsOwed(b) \subseteq RowsOwed(ask[q]) /\ AskStarted(b)  BY <1>8, <1>10 DEF AskStarted
  <2>2. \A n \in PictureIds : drawn'[n].status = "succeeded" => drawn[n].status = "succeeded"
    BY <1>2
  <2>3. ask[q].at # "tell"  BY <1>1
  <2> QED  BY <1>1, <1>2, <1>8, <1>13, <2>1, <2>2, <2>3, StartedStays
<1>16. Faultless => Faultless'
  <2>1. ask[q].at \notin Working /\ b.at \notin Working  BY <1>1, <1>8 DEF Working
  <2>2. \A n \in PictureIds : drawn'[n].status = "succeeded" => drawn[n].status = "succeeded"
    BY <1>2
  <2> QED  BY <1>2, <1>13, <2>1, <2>2, FaultlessStays
<1> QED  BY <1>2, <1>13, <1>14, <1>15, <1>16 DEF AlbumInv, Launched

\* A retry that did not come to write its page.
LEMMA RetryEnds ==
  ASSUME AlbumInv, NEW q \in AlbumRequests, ask[q].at = "retry", To(q, "over"), AlbumTypeOK',
         UNCHANGED <<pages, album, overtaken, errors>>, DrawsOn,
         \A p \in AlbumRequests : \A n \in PicsDue(ask[p]) : drawn'[n].status = "queued",
         \A n \in PictureIds : drawn'[n].status = "succeeded" => drawn[n].status = "succeeded"
  PROVE  AlbumInv'
<1>1. AlbumRowsInv  BY DEF AlbumInv
<1>2. PICK b \in AnAsk : b = [ask[q] EXCEPT !.at = "over"] /\ b.at = "over"
  BY <1>1, AskGoes DEF AlbumRowsInv, Askings
<1>3. ask' = [ask EXCEPT ![q] = b] /\ b.at = "over"  BY <1>2 DEF To
<1>4. AskSound(b, drawn') /\ PicsDue(b) = {} /\ RowsOwed(b) = {}  BY <1>3, IdleAsk
<1>5. /\ AsksTyped' /\ AsksSound'
      /\ ask'[q] = b /\ \A p \in AlbumRequests \ {q} : ask'[p] = ask[p]
  <2>1. \A p \in AlbumRequests \ {q} : /\ \A n \in PicsDue(ask[p]) : drawn'[n].status = "queued"
                                       /\ PicsDue(b) \cap PicsDue(ask[p]) = {}
    BY <1>4
  <2> QED  BY <1>1, <1>3, <1>4, <2>1, AskMoves DEF AlbumRowsInv
<1>6. RowsSound' /\ PagesShowTheirOwn' /\ PageRows' = PageRows
  BY <1>1, PagesStay DEF AlbumRowsInv
<1>7. AlbumRowsInv'  BY <1>5, <1>6 DEF AlbumRowsInv
<1>8. ~overtaken => Launched /\ AlbumBegun /\ (errors = 0 => Faultless)  BY WorkingStarted
<1>9. AlbumBegun => AlbumBegun'
  <2>1. RowsOwed(b) \subseteq RowsOwed(ask[q]) /\ AskStarted(b)  BY <1>3, <1>4 DEF AskStarted
  <2> QED  BY <1>1, <1>5, <2>1, StartedStays
<1>10. Faultless => Faultless'
  <2>1. ask[q].at \notin Working /\ b.at \notin Working  BY <1>3 DEF Working
  <2> QED  BY <1>5, <2>1, FaultlessStays
<1> QED  BY <1>7, <1>8, <1>9, <1>10 DEF AlbumInv, Launched

\* A record, and then the page is queued for it, unless it went or was changed meanwhile.
LEMMA CommitRetrySound ==
  ASSUME AlbumInv, NEW q \in AlbumRequests, CommitRetry(q)  PROVE AlbumInv'
<1>1. AlbumRowsInv /\ ask[q].at = "retry" /\ wallet' = wallet /\ errors' = errors
  BY DEF AlbumInv, CommitRetry
<1>2. ask[q] \in AnAsk /\ AskSound(ask[q], drawn)
  BY <1>1 DEF AlbumRowsInv, AsksTyped, AsksSound
<1>3. PICK r : r = ask[q].todo[1][1]  OBVIOUS
<1>4. PICK k : k = ask[q].saw.number  OBVIOUS
<1>5. /\ r \in PictureIds /\ ask[q].saw.status = "failed" /\ ask[q].saw \in APage
      /\ drawn[r].of = k /\ k \in 1..AlbumPages
  <2>1. /\ Len(ask[q].todo) = 1 /\ ask[q].saw.status = "failed"
        /\ drawn[ask[q].todo[1][1]].of = ask[q].saw.number /\ ask[q].saw.number # 0
    BY <1>1, <1>2 DEF AskSound
  <2>2. r \in PictureIds /\ ask[q].saw \in APage  BY <1>2, <1>3, <2>1 DEF AnAsk
  <2>3. k \in 0..AlbumPages  BY <1>4, <2>2 DEF APage
  <2> QED  BY <1>3, <1>4, <2>1, <2>2, <2>3, AlbumConstants
<1>6. CASE To(q, "over") /\ UNCHANGED <<pages, album, drawn, overtaken>>
  <2>1. AlbumTypeOK'  BY <1>1, <1>6 DEF AlbumRowsInv, AlbumTypeOK
  <2>2. DrawsOn  BY <1>1, <1>6, NothingDrawn DEF AlbumRowsInv
  <2>3. \A p \in AlbumRequests : \A n \in PicsDue(ask[p]) : drawn'[n].status = "queued"
    BY SMTT(40), <1>1, <1>6 DEF AlbumRowsInv, AsksSound, AskSound
  <2> QED  BY <1>1, <1>6, <2>1, <2>2, <2>3, RetryEnds
<1>7. ASSUME NewOnes # {}, Recorded(k)
      PROVE  /\ DrawsOn /\ NextOne \in PictureIds /\ drawn[NextOne] = NoPicture
             /\ drawn'[NextOne].of = k /\ drawn'[NextOne].status = "queued"
             /\ \A n \in PictureIds \ {NextOne} : drawn'[n] = drawn[n]
             /\ \A p \in AlbumRequests : \A n \in PicsDue(ask[p]) :
                  drawn'[n].status = "queued" /\ n # NextOne
             /\ \A n \in PictureIds : drawn'[n].status = "succeeded" => drawn[n].status = "succeeded"
  <2>1. /\ DrawsOn /\ NextOne \in PictureIds /\ drawn[NextOne] = NoPicture
        /\ drawn'[NextOne].of = k /\ drawn'[NextOne].status = "queued"
        /\ \A n \in PictureIds \ {NextOne} : drawn'[n] = drawn[n]
    BY <1>1, <1>5, <1>7, RecordedDraws DEF AlbumRowsInv
  <2>2. ASSUME NEW p \in AlbumRequests, NEW n \in PicsDue(ask[p])
        PROVE  drawn'[n].status = "queued" /\ n # NextOne
    <3>1. AskSound(ask[p], drawn) /\ ask[p] \in AnAsk
      BY <1>1 DEF AlbumRowsInv, AsksTyped, AsksSound
    <3>2. n \in PictureIds  BY <3>1, <2>2, DueTyped
    <3>3. drawn[n].status = "queued"  BY <3>1, <2>2 DEF AskSound
    <3> QED  BY <2>1, <3>2, <3>3 DEF NoPicture
  <2>3. \A n \in PictureIds : drawn'[n].status = "succeeded" => drawn[n].status = "succeeded"
    BY <2>1
  <2> QED  BY <2>1, <2>2, <2>3
<1>8. CASE NewOnes # {} /\ Recorded(k) /\ To(q, "over") /\ UNCHANGED <<pages, album, overtaken>>
  <2>1. AlbumTypeOK'  BY <1>1, <1>7, <1>8 DEF AlbumRowsInv, AlbumTypeOK, DrawsOn, APicture
  <2> QED  BY <1>1, <1>7, <1>8, <2>1, RetryEnds
<1>9. CASE /\ NewOnes # {} /\ Recorded(k)
           /\ Written(r, [pages[r] EXCEPT !.status = "queued", !.record = NextOne, !.work = 0])
           /\ album' = [album EXCEPT !.status = "generating"]
           /\ ask' = [ask EXCEPT ![q].at = "run", ![q].todo = <<<<r, NextOne>>>>]
           /\ overtaken' = (overtaken \/ pages[r] # ask[q].saw)
  <2>1. PICK x : x = NextOne  OBVIOUS
  <2>2. /\ DrawsOn /\ x \in PictureIds /\ drawn[x] = NoPicture
        /\ drawn'[x].of = k /\ drawn'[x].status = "queued"
        /\ \A p \in AlbumRequests : \A n \in PicsDue(ask[p]) :
             drawn'[n].status = "queued" /\ n # x
        /\ \A n \in PictureIds : drawn'[n].status = "succeeded" => drawn[n].status = "succeeded"
    BY <1>7, <1>9, <2>1
  <2>3. drawn'[r].of = k /\ k # 0  BY <1>5, <2>2 DEF DrawsOn
  <2>4. PICK t : t = <<<<r, x>>>>  OBVIOUS
  <2>5. /\ t \in Seq(PictureIds \X (0..MaxPictures)) /\ DOMAIN t = {1} /\ t # <<>>
        /\ t[1][1] = r /\ t[1][2] = x
    <3>1. x \in 0..MaxPictures  BY <2>2, AlbumConstants DEF PictureIds
    <3> QED  BY <1>5, <2>4, <3>1
  <2>6. PICK b : b = [ask[q] EXCEPT !.at = "run", !.todo = t]  OBVIOUS
  <2>7. b \in AnAsk /\ b.at = "run" /\ b.todo = t
    <3>1. "run" \in Askings  BY DEF Askings, Working
    <3> QED  BY <1>2, <2>5, <2>6, <3>1 DEF AnAsk
  <2>8. ask' = [ask EXCEPT ![q] = b]  BY <1>9, <2>1, <2>4, <2>6
  <2>9. PicsDue(b) = {x} /\ RowsOwed(b) = {r}  BY <2>5, <2>7 DEF PicsDue, RowsOwed
  <2>10. AskSound(b, drawn')
    BY <2>2, <2>3, <2>5, <2>7, <2>9 DEF AskSound, Working
  <2>11. /\ AsksTyped' /\ AsksSound'
         /\ ask'[q] = b /\ \A p \in AlbumRequests \ {q} : ask'[p] = ask[p]
    <3>1. \A p \in AlbumRequests \ {q} : /\ \A n \in PicsDue(ask[p]) : drawn'[n].status = "queued"
                                         /\ PicsDue(b) \cap PicsDue(ask[p]) = {}
      BY <2>2, <2>9
    <3> QED  BY <1>1, <2>2, <2>7, <2>8, <2>10, <3>1, AskMoves DEF AlbumRowsInv
  <2>12. album'.status = "generating" /\ album' \in [status : AlbumStates, photos : BOOLEAN]
         /\ overtaken' \in BOOLEAN
    BY <1>1, <1>9 DEF AlbumRowsInv, AlbumTypeOK, AlbumStates
  <2>13. CASE r \notin PageRows
    <3>1. pages' = pages /\ pages \in [PictureIds -> APage]
      BY <1>1, <1>9, <2>13, RowTypes DEF Written, AlbumRowsInv
    <3>2. RowsSound' /\ PagesShowTheirOwn'  BY <1>1, <2>2, <3>1, PagesStay DEF AlbumRowsInv
    <3>3. AlbumTypeOK'
      BY <1>1, <2>2, <2>12, <3>1 DEF AlbumRowsInv, AlbumTypeOK, DrawsOn, APicture, AlbumStates
    <3>4. pages[r] # ask[q].saw  BY <1>5, <2>13 DEF PageRows, NoPage
    <3>5. overtaken'  BY <1>9, <3>4
    <3> QED  BY <2>11, <3>2, <3>3, <3>5 DEF AlbumInv, AlbumRowsInv
  <2>14. CASE r \in PageRows
    <3>1. PICK w : w = [pages[r] EXCEPT !.status = "queued", !.record = x, !.work = 0]  OBVIOUS
    <3>2. pages[r] \in APage /\ pages[r].number = k
      BY <1>1, <1>5, <2>14, RowTypes DEF AlbumRowsInv, RowsSound
    <3>3. w \in APage /\ w.status = "queued" /\ w.number = k
      <4>1. {0, x} \subseteq 0..MaxPictures  BY <2>2, AlbumConstants DEF PictureIds
      <4> QED  BY <3>1, <3>2, <4>1 DEF APage
    <3>4. pages' = [pages EXCEPT ![r] = w]  BY <1>9, <2>1, <2>14, <3>1 DEF Written
    <3>5. /\ RowsSound' /\ PagesShowTheirOwn' /\ PageRows' = PageRows \cup {r}
          /\ pages' \in [PictureIds -> APage]
          /\ pages'[r] = w /\ \A s \in PictureIds \ {r} : pages'[s] = pages[s]
      <4>1. w.number = drawn'[r].of /\ w.number # 0 /\ w.status \notin {"none", "succeeded"}
        BY <2>3, <3>3
      <4>2. \A s \in PageRows \ {r} : pages[s].number # w.number
        BY <1>1, <2>14, <3>2, <3>3 DEF AlbumRowsInv, RowsSound
      <4> QED  BY <1>1, <1>5, <2>2, <3>3, <3>4, <4>1, <4>2, PageMoves DEF AlbumRowsInv
    <3>6. AlbumTypeOK'
      BY <1>1, <2>2, <2>12, <3>5
      DEF AlbumRowsInv, AlbumTypeOK, DrawsOn, APicture, APage, AlbumStates
    <3>7. AlbumRowsInv'  BY <2>11, <3>5, <3>6 DEF AlbumRowsInv
    <3>8. ASSUME ~overtaken'  PROVE AlbumBegun' /\ (errors = 0 => Faultless')
      <4>1. ~overtaken /\ pages[r].status = "failed"  BY <1>5, <1>9, <3>8
      <4>2. AlbumBegun /\ (errors = 0 => Faultless)  BY <1>1, <4>1, WorkingStarted
      <4>3. PageRows' = PageRows /\ pages'[r].number = pages[r].number
        BY <2>14, <3>2, <3>3, <3>5
      <4>4. \A p \in AlbumRequests \ {q} : r \notin RowsOwed(ask[p])
        BY <4>1, <4>2 DEF AlbumBegun, OwesSoundly
      <4>5. PICK m : m = drawn[r].of  OBVIOUS
      <4>6. PaidPictures(m)' = {}
        <5>1. PaidPictures(m) = {}  BY <2>14, <4>1, <4>2, <4>5 DEF AlbumBegun
        <5>2. \A n \in PictureIds : drawn'[n].status = "succeeded" => drawn'[n].of = drawn[n].of
          BY <1>1, <2>2 DEF AlbumRowsInv, RowsSound, DrawsOn, NoPicture
        <5> QED  BY <2>2, <5>1, <5>2 DEF PaidPictures
      <4>7. \A n \in PictureIds :
               drawn'[n].status = "succeeded" /\ drawn[n].status # "succeeded" => drawn'[n].of = m
        BY <2>2
      <4>8. ask[q].at # "tell" /\ RowsOwed(b) \subseteq RowsOwed(ask[q]) \cup {r} /\ AskStarted(b)
            /\ b.at \in Working \ {"sum"} /\ r \in RowsOwed(b) /\ RowsOwed(ask[q]) = {}
        BY <1>1, <2>7, <2>9 DEF AskStarted, Working, RowsOwed
      <4>9. pages'[r].status = "queued"  BY <3>3, <3>5
      <4>10. AlbumBegun'
        BY <1>1, <2>2, <2>7, <2>11, <2>14, <3>5, <4>2, <4>3, <4>4, <4>5, <4>6, <4>7, <4>8, <4>9,
           StartedMoves
      <4>11. errors = 0 => Faultless'
        BY <1>1, <2>2, <2>7, <2>11, <2>14, <3>5, <4>2, <4>3, <4>5, <4>6, <4>7, <4>8, <4>9,
           FaultlessMoves
      <4> QED  BY <4>10, <4>11
    <3> QED  BY <1>1, <2>12, <3>7, <3>8 DEF AlbumInv, Launched
  <2> QED  BY <2>13, <2>14
<1> QED  BY <1>3, <1>4, <1>6, <1>8, <1>9 DEF CommitRetry

\* Writing a page that is there keeps it the page of its number.
LEMMA TellsPage ==
  ASSUME AlbumRowsInv, NEW r \in PictureIds, NEW w, DrawsOn, Written(r, w),
         r \in PageRows => /\ w \in APage /\ w.number = pages[r].number /\ w.status # "none"
                           /\ w.status = "succeeded" =>
                                /\ w.work \in PictureIds /\ drawn'[w.work].status = "succeeded"
                                /\ drawn'[w.work].of = w.number
  PROVE  /\ RowsSound' /\ PagesShowTheirOwn' /\ PageRows' = PageRows
         /\ pages' \in [PictureIds -> APage]
         /\ \A s \in PictureIds \ {r} : pages'[s] = pages[s]
         /\ r \in PageRows => pages'[r] = w
<1>1. pages \in [PictureIds -> APage]  BY RowTypes DEF AlbumRowsInv
<1>2. CASE r \notin PageRows
  <2>1. pages' = pages  BY <1>1, <1>2 DEF Written
  <2> QED  BY <1>1, <1>2, <2>1, PagesStay DEF AlbumRowsInv
<1>3. CASE r \in PageRows
  <2>1. pages' = [pages EXCEPT ![r] = w]  BY <1>3 DEF Written
  <2>2. /\ w.number = drawn'[r].of /\ w.number # 0
        /\ \A s \in PageRows \ {r} : pages[s].number # w.number
    BY <1>3 DEF AlbumRowsInv, RowsSound, DrawsOn
  <2>3. /\ RowsSound' /\ PagesShowTheirOwn' /\ PageRows' = PageRows \cup {r}
        /\ pages' \in [PictureIds -> APage]
        /\ pages'[r] = w /\ \A s \in PictureIds \ {r} : pages'[s] = pages[s]
    BY <1>3, <2>1, <2>2, PageMoves DEF AlbumRowsInv
  <2> QED  BY <1>3, <2>3
<1> QED  BY <1>2, <1>3

\* The goroutine of an album that was started: its first page, and what was paid for it.
LEMMA FirstPage ==
  ASSUME AlbumRowsInv, AlbumBegun, NEW q \in AlbumRequests, ask[q].at \in {"run", "paint", "tell"},
         NEW r, r = ask[q].todo[1][1], NEW m, m = drawn[r].of
  PROVE  /\ r \in PageRows /\ r \in RowsOwed(ask[q]) /\ pages[r].status \in {"queued", "running"}
         /\ \A p \in AlbumRequests \ {q} : r \notin RowsOwed(ask[p])
         /\ ask[q].at # "tell" => PaidPictures(m) = {}
         /\ \A n \in PaidPictures(m) : n = ask[q].todo[1][2]
<1>1. ask[q] \in AnAsk /\ AskSound(ask[q], drawn) /\ ask[q].at \in Working
  BY DEF AlbumRowsInv, AsksSound, AsksTyped, Working
<1>2. r \in RowsOwed(ask[q])  BY <1>1, AskHead DEF RowsOwed
<1>3. /\ r \in PageRows /\ pages[r].status \in {"queued", "running"}
      /\ \A n \in PaidPictures(m) : ask[q].at = "tell" /\ n = ask[q].todo[1][2]
  BY <1>2 DEF AlbumBegun, OwesSoundly
<1>4. \A p \in AlbumRequests \ {q} : r \notin RowsOwed(ask[p])  BY <1>2 DEF AlbumBegun
<1> QED  BY <1>2, <1>3, <1>4

LEMMA BeginPageSound ==
  ASSUME AlbumInv, NEW q \in AlbumRequests, BeginPage(q)  PROVE AlbumInv'
<1>1. /\ AlbumRowsInv /\ ask[q].at = "run"
      /\ album' = album /\ drawn' = drawn /\ wallet' = wallet /\ overtaken' = overtaken
  BY DEF AlbumInv, BeginPage
<1>2. ask[q] \in AnAsk /\ AskSound(ask[q], drawn) /\ ask[q].at \in Working
  BY <1>1 DEF AlbumRowsInv, AsksTyped, AsksSound, Working
<1>3. PICK r : r = ask[q].todo[1][1] /\ r \in PictureIds /\ Head(ask[q].todo)[1] = r
  BY <1>2, AskHead
<1>4. PICK w : w = [pages[r] EXCEPT !.status = "running"]  OBVIOUS
<1>5. Tells(r, w) /\ To(q, "paint")  BY <1>3, <1>4 DEF BeginPage
<1>6. PICK b \in AnAsk : b = [ask[q] EXCEPT !.at = "paint"] /\ b.at = "paint" /\ b.todo = ask[q].todo
  BY <1>1, AskGoes DEF AlbumRowsInv, Askings, Working
<1>7. b.at = "paint" /\ b.todo = ask[q].todo /\ ask' = [ask EXCEPT ![q] = b]
  BY <1>5, <1>6 DEF To
<1>8. RowsOwed(b) = RowsOwed(ask[q]) /\ PicsDue(b) = PicsDue(ask[q]) /\ AskSound(b, drawn)
  <2>1. "paint" \in Askings  BY DEF Askings, Working
  <2> QED  BY <1>1, <1>2, <1>7, <2>1, NextPlace
<1>9. DrawsOn  BY <1>1, NothingDrawn DEF AlbumRowsInv
<1>10. /\ AsksTyped' /\ AsksSound'
       /\ ask'[q] = b /\ \A p \in AlbumRequests \ {q} : ask'[p] = ask[p]
  <2>1. \A p \in AlbumRequests \ {q} : /\ \A n \in PicsDue(ask[p]) : drawn'[n].status = "queued"
                                       /\ PicsDue(b) \cap PicsDue(ask[p]) = {}
    BY <1>1, <1>8 DEF AlbumRowsInv, AsksSound, AskSound
  <2>2. AskSound(b, drawn')  BY <1>1, <1>8
  <2> QED  BY <1>1, <1>7, <1>9, <2>1, <2>2, AskMoves DEF AlbumRowsInv
<1>11. r \in PageRows => w \in APage /\ w.number = pages[r].number /\ w.status = "running"
  BY <1>1, <1>3, <1>4, RowTypes DEF AlbumRowsInv, APage
<1>12. ~overtaken => Launched /\ AlbumBegun /\ (errors = 0 => Faultless)  BY <1>2, WorkingStarted
<1>13. PICK m : m = drawn[r].of  OBVIOUS
<1>14. /\ \A n \in PictureIds : drawn'[n].status = "succeeded" => drawn[n].status = "succeeded"
       /\ PaidPictures(m)' = PaidPictures(m)
  BY <1>1 DEF PaidPictures
<1>15. AskStarted(b) /\ b.at \in Working \ {"sum"}  BY <1>7 DEF AskStarted, Working
<1>16. CASE Written(r, w) /\ UNCHANGED errors
  <2>1. /\ RowsSound' /\ PagesShowTheirOwn' /\ PageRows' = PageRows
        /\ pages' \in [PictureIds -> APage]
        /\ \A s \in PictureIds \ {r} : pages'[s] = pages[s]
        /\ r \in PageRows => pages'[r] = w
    BY <1>1, <1>3, <1>9, <1>11, <1>16, TellsPage
  <2>2. AlbumTypeOK'  BY <1>1, <1>16, <2>1 DEF AlbumRowsInv, AlbumTypeOK, APage
  <2>3. AlbumRowsInv'  BY <1>10, <2>1, <2>2 DEF AlbumRowsInv
  <2>4. ASSUME AlbumBegun  PROVE AlbumBegun' /\ (Faultless => Faultless')
    <3>1. /\ r \in PageRows /\ r \in RowsOwed(ask[q])
          /\ \A p \in AlbumRequests \ {q} : r \notin RowsOwed(ask[p])
          /\ PaidPictures(m) = {}
      BY <1>1, <1>3, <1>13, <2>4, FirstPage
    <3>2. pages'[r].number = pages[r].number /\ pages'[r].status = "running"
      BY <1>11, <2>1, <3>1
    <3>3. \A n \in PictureIds :
             drawn'[n].status = "succeeded" /\ drawn[n].status # "succeeded" => drawn'[n].of = m
      BY <1>14
    <3>4. ask[q].at # "tell" /\ RowsOwed(b) \subseteq RowsOwed(ask[q]) \cup {r}
          /\ RowsOwed(ask[q]) \subseteq RowsOwed(b) \cup {r} /\ r \in RowsOwed(b)
      BY <1>1, <1>8, <3>1
    <3>5. PaidPictures(m)' = {}  BY <1>14, <3>1
    <3>6. AlbumBegun'
      BY <1>1, <1>9, <1>10, <1>13, <1>15, <2>1, <2>4, <3>1, <3>2, <3>3, <3>4, <3>5, StartedMoves
    <3>7. Faultless => Faultless'
      BY <1>1, <1>9, <1>10, <1>13, <1>15, <2>1, <2>4, <3>1, <3>2, <3>3, <3>4, <3>5,
         FaultlessMoves
    <3> QED  BY <3>6, <3>7
  <2> QED  BY <1>1, <1>12, <1>16, <2>3, <2>4 DEF AlbumInv, Launched
<1>17. CASE Slips /\ UNCHANGED pages
  <2>1. errors' \in 0..MaxErrors /\ errors' # 0
    BY <1>1, <1>17, AlbumConstants DEF AlbumRowsInv, AlbumTypeOK, Slips
  <2>2. AlbumTypeOK'  BY <1>1, <1>17, <2>1 DEF AlbumRowsInv, AlbumTypeOK
  <2>3. RowsSound' /\ PagesShowTheirOwn'  BY <1>1, <1>9, <1>17, PagesStay DEF AlbumRowsInv
  <2>4. AlbumRowsInv'  BY <1>10, <2>2, <2>3 DEF AlbumRowsInv
  <2>5. AlbumBegun => AlbumBegun'
    <3>1. RowsOwed(b) \subseteq RowsOwed(ask[q]) /\ ask[q].at # "tell"  BY <1>1, <1>8
    <3> QED  BY <1>1, <1>9, <1>10, <1>14, <1>15, <1>17, <3>1, StartedStays
  <2> QED  BY <1>1, <1>12, <2>1, <2>4, <2>5 DEF AlbumInv, Launched
<1> QED  BY <1>5, <1>16, <1>17 DEF Tells

\* The picture is paid with its work, or failed; nobody else paints it.
LEMMA PaintPageSound ==
  ASSUME AlbumInv, NEW q \in AlbumRequests, PaintPage(q)  PROVE AlbumInv'
<1>1. /\ AlbumRowsInv /\ ask[q].at = "paint"
      /\ album' = album /\ pages' = pages /\ errors' = errors /\ overtaken' = overtaken
  BY DEF AlbumInv, PaintPage
<1>2. ask[q] \in AnAsk /\ AskSound(ask[q], drawn) /\ ask[q].at \in Working
  BY <1>1 DEF AlbumRowsInv, AsksTyped, AsksSound, Working
<1>3. PICK r : r = ask[q].todo[1][1]  OBVIOUS
<1>4. PICK n : n = ask[q].todo[1][2]  OBVIOUS
<1>5. PICK m : m = drawn[r].of  OBVIOUS
<1>6. /\ r \in PictureIds /\ n \in PictureIds /\ Head(ask[q].todo)[2] = n
      /\ drawn[n].of = m /\ m # 0
  BY <1>2, <1>3, <1>4, <1>5, AskHead
<1>7. PICK b \in AnAsk : b = [ask[q] EXCEPT !.at = "tell"] /\ b.at = "tell" /\ b.todo = ask[q].todo
  BY <1>1, AskGoes DEF AlbumRowsInv, Askings, Working
<1>8. b.at = "tell" /\ b.todo = ask[q].todo /\ ask' = [ask EXCEPT ![q] = b]
  BY <1>7 DEF PaintPage, To
<1>9. /\ RowsOwed(b) = RowsOwed(ask[q]) /\ PicsDue(b) = PicsDue(ask[q]) \ {n}
      /\ n \in PicsDue(ask[q])
  <2>1. "tell" \in Askings  BY DEF Askings, Working
  <2> QED  BY <1>1, <1>2, <1>4, <1>8, <2>1, NextPlace
<1>10. drawn[n].status = "queued"  BY <1>2, <1>9 DEF AskSound
<1>11. PICK s \in {"succeeded", "failed"} : drawn' = [drawn EXCEPT ![n].status = s]
  BY <1>6 DEF PaintPage
<1>12. /\ DrawsOn /\ drawn'[n].status = s /\ drawn'[n].of = m
       /\ \A k \in PictureIds \ {n} : drawn'[k] = drawn[k]
  BY <1>1, <1>6, <1>10, <1>11, EndDraws DEF AlbumRowsInv
<1>13. wallet' \in Nat
  <2>1. wallet \in Nat  BY <1>1 DEF AlbumRowsInv, AlbumTypeOK
  <2>2. (wallet > 0 /\ wallet' = wallet - 1) \/ wallet' = wallet  BY DEF PaintPage
  <2> QED  BY <2>1, <2>2
<1>14. ASSUME NEW p \in AlbumRequests, NEW k \in PicsDue(ask[p]), p # q \/ k # n
       PROVE  drawn'[k].status = "queued"
  <2>1. ask[p] \in AnAsk /\ AskSound(ask[p], drawn)
    BY <1>1 DEF AlbumRowsInv, AsksTyped, AsksSound
  <2>2. k \in PictureIds /\ drawn[k].status = "queued"
    <3>1. k \in PictureIds  BY <1>14, <2>1, DueTyped
    <3>2. drawn[k].status = "queued"  BY <1>14, <2>1 DEF AskSound
    <3> QED  BY <3>1, <3>2
  <2>3. k # n  BY <1>1, <1>9, <1>14 DEF AlbumRowsInv, AsksSound
  <2> QED  BY <1>12, <2>2, <2>3
<1>15. AskSound(b, drawn')
  <2>1. ask[q].todo # <<>>  BY <1>2 DEF AskSound
  <2>2. ASSUME NEW i \in DOMAIN ask[q].todo
        PROVE  /\ ask[q].todo[i][2] \in PictureIds /\ drawn'[ask[q].todo[i][1]].of # 0
               /\ drawn'[ask[q].todo[i][2]].of = drawn'[ask[q].todo[i][1]].of
    <3>1. ask[q].todo[i][1] \in PictureIds  BY <1>2 DEF AnAsk
    <3> QED  BY SMTT(40), <1>2, <1>12, <3>1 DEF AskSound, DrawsOn
  <2>3. \A i, k \in DOMAIN ask[q].todo :
           i # k => ask[q].todo[i][1] # ask[q].todo[k][1] /\ ask[q].todo[i][2] # ask[q].todo[k][2]
    BY <1>2 DEF AskSound
  <2>4. drawn'[b.todo[1][2]].status \in {"failed", "succeeded"}  BY <1>4, <1>8, <1>12
  <2>5. \A k \in PicsDue(b) : drawn'[k].status = "queued"  BY <1>9, <1>14
  <2> QED  BY <1>8, <2>1, <2>2, <2>3, <2>4, <2>5 DEF AskSound, Working
<1>16. /\ AsksTyped' /\ AsksSound'
       /\ ask'[q] = b /\ \A p \in AlbumRequests \ {q} : ask'[p] = ask[p]
  <2>1. \A p \in AlbumRequests \ {q} : /\ \A k \in PicsDue(ask[p]) : drawn'[k].status = "queued"
                                       /\ PicsDue(b) \cap PicsDue(ask[p]) = {}
    BY <1>1, <1>9, <1>14 DEF AlbumRowsInv, AsksSound
  <2> QED  BY <1>1, <1>8, <1>12, <1>15, <2>1, AskMoves DEF AlbumRowsInv
<1>17. RowsSound' /\ PagesShowTheirOwn' /\ PageRows' = PageRows
  BY <1>1, <1>12, PagesStay DEF AlbumRowsInv
<1>18. AlbumTypeOK'
  BY <1>1, <1>12, <1>13 DEF AlbumRowsInv, AlbumTypeOK, DrawsOn, APicture
<1>19. AlbumRowsInv'  BY <1>16, <1>17, <1>18 DEF AlbumRowsInv
<1>20. ASSUME AlbumBegun  PROVE AlbumBegun' /\ (Faultless => Faultless')
  <2>1. /\ r \in PageRows /\ r \in RowsOwed(ask[q]) /\ pages[r].status \in {"queued", "running"}
        /\ \A p \in AlbumRequests \ {q} : r \notin RowsOwed(ask[p])
        /\ PaidPictures(m) = {}
    BY <1>1, <1>3, <1>5, <1>20, FirstPage
  <2>2. \A k \in PaidPictures(m)' : k = n
    BY <1>12, <2>1 DEF PaidPictures
  <2>3. \A k \in PictureIds :
           drawn'[k].status = "succeeded" /\ drawn[k].status # "succeeded" => drawn'[k].of = m
    BY <1>12
  <2>4. ask[q].at # "tell" /\ RowsOwed(b) \subseteq RowsOwed(ask[q]) \cup {r}
        /\ RowsOwed(ask[q]) \subseteq RowsOwed(b) \cup {r} /\ r \in RowsOwed(b)
        /\ AskStarted(b) /\ b.at \in Working \ {"sum"}
    BY <1>1, <1>8, <1>9, <2>1 DEF AskStarted, Working
  <2>5. \A k \in PaidPictures(m)' : b.at = "tell" /\ r = b.todo[1][1] /\ k = b.todo[1][2]
    BY <1>3, <1>4, <1>8, <2>2
  <2>6. pages'[r].number = pages[r].number /\ pages'[r].status \in {"queued", "running"}
        /\ \A k \in PictureIds \ {r} : pages'[k] = pages[k]
    BY <1>1, <2>1
  <2>7. AlbumBegun'
    BY <1>1, <1>5, <1>12, <1>16, <1>17, <1>20, <2>1, <2>2, <2>3, <2>4, <2>5, <2>6, StartedMoves
  <2>8. Faultless => Faultless'
    BY <1>1, <1>5, <1>12, <1>16, <1>17, <1>20, <2>1, <2>3, <2>4, <2>5, <2>6, FaultlessMoves
  <2> QED  BY <2>7, <2>8
<1>21. ~overtaken => Launched /\ AlbumBegun /\ (errors = 0 => Faultless)  BY <1>2, WorkingStarted
<1> QED  BY <1>1, <1>19, <1>20, <1>21 DEF AlbumInv, Launched

\* The page is told what became of its picture; it shows what was painted for its number.
LEMMA TellPageSound ==
  ASSUME AlbumInv, NEW q \in AlbumRequests, TellPage(q)  PROVE AlbumInv'
<1>1. /\ AlbumRowsInv /\ ask[q].at = "tell"
      /\ album' = album /\ drawn' = drawn /\ wallet' = wallet /\ overtaken' = overtaken
  BY DEF AlbumInv, TellPage
<1>2. ask[q] \in AnAsk /\ AskSound(ask[q], drawn) /\ ask[q].at \in Working
  BY <1>1 DEF AlbumRowsInv, AsksTyped, AsksSound, Working
<1>3. PICK r : r = ask[q].todo[1][1]  OBVIOUS
<1>4. PICK n : n = ask[q].todo[1][2]  OBVIOUS
<1>5. PICK m : m = drawn[r].of  OBVIOUS
<1>6. /\ r \in PictureIds /\ n \in PictureIds /\ Head(ask[q].todo) = ask[q].todo[1]
      /\ drawn[n].of = m /\ drawn[n].status \in {"failed", "succeeded"}
  <2>1. drawn[n].status \in {"failed", "succeeded"}  BY <1>1, <1>2, <1>4 DEF AskSound
  <2> QED  BY <1>2, <1>3, <1>4, <1>5, <2>1, AskHead
<1>7. PICK v : v = IF drawn[n].status = "succeeded" THEN n ELSE 0  OBVIOUS
<1>8. PICK w : w = [pages[r] EXCEPT !.status = drawn[n].status, !.work = v]  OBVIOUS
<1>9. Tells(r, w) /\ To(q, "read")  BY <1>3, <1>4, <1>6, <1>7, <1>8 DEF TellPage
<1>10. PICK b \in AnAsk : b = [ask[q] EXCEPT !.at = "read"] /\ b.at = "read" /\ b.todo = ask[q].todo
  BY <1>1, AskGoes DEF AlbumRowsInv, Askings, Working
<1>11. b.at = "read" /\ b.todo = ask[q].todo /\ ask' = [ask EXCEPT ![q] = b]
  BY <1>9, <1>10 DEF To
<1>12. /\ RowsOwed(b) = RowsOwed(ask[q]) \ {r} /\ PicsDue(b) = PicsDue(ask[q])
       /\ AskSound(b, drawn)
  <2>1. "read" \in Askings  BY DEF Askings, Working
  <2> QED  BY <1>1, <1>2, <1>3, <1>11, <2>1, NextPlace
<1>13. DrawsOn  BY <1>1, NothingDrawn DEF AlbumRowsInv
<1>14. /\ AsksTyped' /\ AsksSound'
       /\ ask'[q] = b /\ \A p \in AlbumRequests \ {q} : ask'[p] = ask[p]
  <2>1. \A p \in AlbumRequests \ {q} : /\ \A k \in PicsDue(ask[p]) : drawn'[k].status = "queued"
                                       /\ PicsDue(b) \cap PicsDue(ask[p]) = {}
    BY SMTT(40), <1>1, <1>12 DEF AlbumRowsInv, AsksSound, AskSound
  <2>2. AskSound(b, drawn')  BY <1>1, <1>12
  <2> QED  BY <1>1, <1>11, <1>13, <2>1, <2>2, AskMoves DEF AlbumRowsInv
<1>15. r \in PageRows => /\ w \in APage /\ w.number = pages[r].number /\ w.number = m
                         /\ w.status = drawn[n].status /\ w.work = v
  <2>1. v \in 0..MaxPictures /\ (drawn[n].status = "succeeded" => v = n)
    BY <1>6, <1>7, AlbumConstants DEF PictureIds
  <2>2. pages[r] \in APage  BY <1>1, <1>6, RowTypes DEF AlbumRowsInv
  <2>3. r \in PageRows => pages[r].number = m  BY <1>1, <1>5 DEF AlbumRowsInv, RowsSound
  <2> QED  BY <1>6, <1>8, <2>1, <2>2, <2>3 DEF APage
<1>16. ~overtaken => Launched /\ AlbumBegun /\ (errors = 0 => Faultless)  BY <1>2, WorkingStarted
<1>17. /\ \A k \in PictureIds : drawn'[k].status = "succeeded" => drawn[k].status = "succeeded"
       /\ PaidPictures(m)' = PaidPictures(m)
  BY <1>1 DEF PaidPictures
<1>18. AskStarted(b) /\ b.at \in Working \ {"sum"}  BY <1>11 DEF AskStarted, Working
<1>19. r \notin RowsOwed(b) /\ RowsOwed(b) \subseteq RowsOwed(ask[q]) \cup {r}
       /\ RowsOwed(ask[q]) \subseteq RowsOwed(b) \cup {r}
  BY <1>12
<1>20. \A k \in PictureIds :
          drawn'[k].status = "succeeded" /\ drawn[k].status # "succeeded" => drawn'[k].of = m
  BY <1>17
<1>21. AlbumBegun => /\ r \in PageRows /\ pages[r].status \in {"queued", "running"}
                     /\ \A p \in AlbumRequests \ {q} : r \notin RowsOwed(ask[p])
                     /\ \A k \in PaidPictures(m)' : k = n
                     /\ \A x, y \in PaidPictures(m)' : x = y
  BY SMTT(40), <1>1, <1>3, <1>4, <1>5, <1>17, FirstPage
<1>22. CASE Written(r, w) /\ UNCHANGED errors
  <2>1. /\ RowsSound' /\ PagesShowTheirOwn' /\ PageRows' = PageRows
        /\ pages' \in [PictureIds -> APage]
        /\ \A s \in PictureIds \ {r} : pages'[s] = pages[s]
        /\ r \in PageRows => pages'[r] = w
    <3>1. w.status = "succeeded" /\ r \in PageRows =>
             w.work \in PictureIds /\ drawn'[w.work].status = "succeeded" /\ drawn'[w.work].of = w.number
      BY <1>1, <1>6, <1>7, <1>15
    <3>2. r \in PageRows => w.status # "none"  BY <1>6, <1>15
    <3> QED  BY <1>1, <1>6, <1>13, <1>15, <1>22, <3>1, <3>2, TellsPage
  <2>2. AlbumTypeOK'  BY <1>1, <1>22, <2>1 DEF AlbumRowsInv, AlbumTypeOK, APage
  <2>3. AlbumRowsInv'  BY <1>14, <2>1, <2>2 DEF AlbumRowsInv
  <2>4. ASSUME AlbumBegun  PROVE AlbumBegun' /\ (Faultless => Faultless')
    <3>1. /\ r \in PageRows /\ pages'[r] = w /\ pages'[r].number = pages[r].number
          /\ pages'[r].status = drawn[n].status /\ pages'[r].work = v
      BY <1>15, <1>21, <2>1, <2>4
    <3>2. \A k \in PaidPictures(m)' : drawn[n].status = "succeeded"
      BY <1>1, <1>21, <2>4 DEF PaidPictures
    <3>3. pages'[r].status = "failed" => PaidPictures(m)' = {}  BY <3>1, <3>2
    <3>4. \A k \in PaidPictures(m)' : pages'[r].status = "succeeded" /\ pages'[r].work = k
      BY <1>7, <1>21, <2>4, <3>1, <3>2
    <3>5. pages'[r].status \notin {"queued", "running"}  BY <1>6, <3>1
    <3>6. AlbumBegun'
      BY SMTT(40), <1>1, <1>3, <1>5, <1>13, <1>14, <1>18, <1>19, <1>20, <1>21, <2>1, <2>4, <3>1,
         <3>3,
         StartedMoves
    <3>7. Faultless => Faultless'
      BY SMTT(40), <1>1, <1>3, <1>5, <1>13, <1>14, <1>18, <1>19, <1>20, <2>1, <2>4, <3>1, <3>4,
         <3>5,
         FaultlessMoves
    <3> QED  BY <3>6, <3>7
  <2> QED  BY <1>1, <1>16, <1>22, <2>3, <2>4 DEF AlbumInv, Launched
<1>23. CASE Slips /\ UNCHANGED pages
  <2>1. errors' \in 0..MaxErrors /\ errors' # 0
    BY <1>1, <1>23, AlbumConstants DEF AlbumRowsInv, AlbumTypeOK, Slips
  <2>2. AlbumTypeOK'  BY <1>1, <1>23, <2>1 DEF AlbumRowsInv, AlbumTypeOK
  <2>3. RowsSound' /\ PagesShowTheirOwn' /\ PageRows' = PageRows
    BY <1>1, <1>13, <1>23, PagesStay DEF AlbumRowsInv
  <2>4. AlbumRowsInv'  BY <1>14, <2>2, <2>3 DEF AlbumRowsInv
  <2>5. ASSUME AlbumBegun  PROVE AlbumBegun'
    <3>1. r \in PageRows /\ pages'[r].number = pages[r].number
          /\ pages'[r].status # "failed" /\ \A s \in PictureIds \ {r} : pages'[s] = pages[s]
      BY <1>21, <1>23, <2>5
    <3> QED
      BY SMTT(40), <1>1, <1>3, <1>5, <1>13, <1>14, <1>18, <1>19, <1>20, <1>21, <2>3, <2>5, <3>1,
                StartedMoves
  <2> QED  BY <1>1, <1>16, <2>1, <2>4, <2>5 DEF AlbumInv, Launched
<1> QED  BY <1>9, <1>22, <1>23 DEF Tells

\* What the pages add up to is read; it is written a step later.
LEMMA ReadPagesSound ==
  ASSUME AlbumInv, NEW q \in AlbumRequests, ReadPages(q)  PROVE AlbumInv'
<1>1. /\ AlbumRowsInv /\ ask[q].at = "read" /\ album' = album /\ pages' = pages /\ drawn' = drawn
      /\ wallet' = wallet /\ overtaken' = overtaken /\ errors' = errors
  BY DEF AlbumInv, ReadPages
<1>2. ask[q] \in AnAsk /\ AskSound(ask[q], drawn) /\ ask[q].at \in Working
  BY <1>1 DEF AlbumRowsInv, AsksTyped, AsksSound, Working
<1>3. PICK v : v = AddsUpTo  OBVIOUS
<1>4. /\ v \in AlbumStates /\ v # "none" /\ (PageRows # {} => v # "draft")
      /\ AddsUpTo' = v /\ PageRows' = PageRows
  BY <1>1, <1>3 DEF AddsUpTo, AlbumStates, PageRows, Having
<1>5. PICK b : b = [ask[q] EXCEPT !.at = "sum", !.read = v]  OBVIOUS
<1>6. b \in AnAsk /\ b.at = "sum" /\ b.read = v /\ b.todo = ask[q].todo
  <2>1. "sum" \in Askings  BY DEF Askings, Working
  <2> QED  BY <1>2, <1>4, <1>5, <2>1 DEF AnAsk
<1>7. ask' = [ask EXCEPT ![q] = b]  BY <1>3, <1>5 DEF ReadPages
<1>8. RowsOwed(b) = RowsOwed(ask[q]) /\ PicsDue(b) = PicsDue(ask[q]) /\ AskSound(b, drawn)
  <2>1. "sum" \in Askings  BY DEF Askings, Working
  <2> QED  BY <1>1, <1>2, <1>6, <2>1, NextPlace
<1>9. AlbumTypeOK'  BY <1>1 DEF AlbumRowsInv, AlbumTypeOK
<1>10. /\ AlbumRowsInv' /\ DrawsOn
       /\ ask'[q] = b /\ \A p \in AlbumRequests \ {q} : ask'[p] = ask[p]
  <2>1. PicsDue(b) \subseteq PicsDue(ask[q])  BY <1>8
  <2> QED  BY <1>1, <1>6, <1>7, <1>8, <1>9, <2>1, RowsInvMoves
<1>11. ~overtaken => Launched /\ AlbumBegun /\ (errors = 0 => Faultless)  BY <1>2, WorkingStarted
<1>12. AlbumBegun => AlbumBegun'
  <2> SUFFICES ASSUME AlbumBegun  PROVE AlbumBegun'
    OBVIOUS
  <2>1. PageRows # {}
    <3>1. 1 \in 1..AlbumPages  BY AlbumConstants
    <3> QED  BY <3>1 DEF AlbumBegun
  <2>2. AskStarted(b) /\ RowsOwed(b) \subseteq RowsOwed(ask[q]) /\ ask[q].at # "tell"
    BY <1>1, <1>4, <1>6, <1>8, <2>1 DEF AskStarted
  <2>3. \A n \in PictureIds : drawn'[n].status = "succeeded" => drawn[n].status = "succeeded"
    BY <1>1
  <2> QED  BY <1>1, <1>6, <1>10, <2>2, <2>3, StartedStays
<1>13. Faultless => Faultless'
  <2> SUFFICES ASSUME Faultless  PROVE Faultless'
    OBVIOUS
  <2>1. \A p \in AlbumRequests : RowsOwed(ask'[p]) = RowsOwed(ask[p])
    BY <1>8, <1>10
  <2>2. \A r \in PageRows : pages[r].status \in {"queued", "running"} =>
           \E p \in AlbumRequests : r \in RowsOwed(ask'[p])
    BY <2>1 DEF Faultless
  <2>3. \A n \in PictureIds : drawn[n].status = "succeeded" =>
           \/ \E r \in PageRows : pages[r].status = "succeeded" /\ pages[r].work = n
           \/ \E p \in AlbumRequests : ask'[p].at = "tell" /\ ask'[p].todo[1][2] = n
    <3>1. \A p \in AlbumRequests : ask[p].at = "tell" => ask'[p] = ask[p]  BY <1>1, <1>10
    <3> QED  BY <3>1 DEF Faultless
  <2>4. ask'[q].at \in Working  BY <1>6, <1>10 DEF Working
  <2>5. \A p \in AlbumRequests : ask'[p].at = "sum" =>
           ask'[p].read = v \/ \E o \in AlbumRequests \ {p} : ask'[o].at \in Working
    BY <1>6, <1>10, <2>4
  <2> QED  BY <1>1, <1>4, <2>2, <2>3, <2>4, <2>5 DEF Faultless
<1> QED  BY <1>1, <1>10, <1>11, <1>12, <1>13 DEF AlbumInv, Launched

\* The goroutine is done with its first page: what it owes is unchanged.
LEMMA NextOwed ==
  ASSUME NEW a \in AnAsk, a.at = "sum", AskSound(a, drawn), NEW b \in AnAsk, b.todo = Tail(a.todo),
         b.at = IF Len(a.todo) = 1 THEN "over" ELSE "run"
  PROVE  RowsOwed(b) = RowsOwed(a) /\ PicsDue(b) = PicsDue(a) /\ AskSound(b, drawn)
<1>1. a.todo # <<>> /\ a.todo \in Seq(PictureIds \X (0..MaxPictures))
  BY DEF AskSound, Working, AnAsk
<1>2. PICK l \in Nat : l = Len(a.todo) /\ l > 0 /\ DOMAIN a.todo = 1..l  BY <1>1
<1>3. /\ RowsOwed(a) = {a.todo[i][1] : i \in (1..l) \ {1}}
      /\ PicsDue(a) = {a.todo[i][2] : i \in (1..l) \ {1}}
  <2>1. (1..l) \ {1} = {k \in DOMAIN a.todo : k # 1}  BY <1>2
  <2> QED  BY <2>1 DEF RowsOwed, PicsDue
<1>4. CASE l = 1
  <2>1. RowsOwed(a) = {} /\ PicsDue(a) = {}  BY <1>3, <1>4
  <2>2. b.at = "over"  BY <1>2, <1>4
  <2> QED  BY <2>1, <2>2, IdleAsk
<1>5. CASE l # 1
  <2>1. /\ b.at = "run" /\ DOMAIN b.todo = 1..(l - 1) /\ b.todo # <<>>
        /\ \A i \in 1..(l - 1) : b.todo[i] = a.todo[i + 1] /\ i + 1 \in (1..l) \ {1}
    <3>1. PICK t \in Seq(PictureIds \X (0..MaxPictures)) : t = a.todo  BY <1>1
    <3>2. b.at = "run"  BY <1>2, <1>5
    <3>3. Len(Tail(t)) = l - 1 /\ DOMAIN Tail(t) = 1..(l - 1)  BY <1>2, <3>1
    <3>4. \A i \in 1..(l - 1) : Tail(t)[i] = t[i + 1]  BY <1>2, <3>1
    <3>5. Tail(t) # <<>>
      <4>1. l - 1 # 0  BY <1>2, <1>5
      <4>2. Len(Tail(t)) # 0  BY <3>3, <4>1
      <4>3. Len(<<>>) = 0  OBVIOUS
      <4> QED  BY <4>2, <4>3
    <3>6. \A i \in 1..(l - 1) : i + 1 \in (1..l) \ {1}  BY <1>2
    <3> QED  BY <3>1, <3>2, <3>3, <3>4, <3>5, <3>6
  <2>2. /\ RowsOwed(b) = {b.todo[i][1] : i \in 1..(l - 1)}
        /\ PicsDue(b) = {b.todo[i][2] : i \in 1..(l - 1)}
    BY <2>1 DEF RowsOwed, PicsDue
  <2>3. \A k \in (1..l) \ {1} : k - 1 \in 1..(l - 1) /\ b.todo[k - 1] = a.todo[k]
    BY <1>2, <2>1
  <2>4. RowsOwed(b) = RowsOwed(a)
    <3>1. ASSUME NEW n \in RowsOwed(b)  PROVE n \in RowsOwed(a)
      <4>1. PICK i \in 1..(l - 1) : n = b.todo[i][1]  BY <2>2, <3>1
      <4> QED  BY <1>3, <2>1, <4>1
    <3>2. ASSUME NEW n \in RowsOwed(a)  PROVE n \in RowsOwed(b)
      <4>1. PICK k \in (1..l) \ {1} : n = a.todo[k][1]  BY <1>3, <3>2
      <4> QED  BY <2>2, <2>3, <4>1
    <3> QED  BY <3>1, <3>2
  <2>5. PicsDue(b) = PicsDue(a)
    <3>1. ASSUME NEW n \in PicsDue(b)  PROVE n \in PicsDue(a)
      <4>1. PICK i \in 1..(l - 1) : n = b.todo[i][2]  BY <2>2, <3>1
      <4> QED  BY <1>3, <2>1, <4>1
    <3>2. ASSUME NEW n \in PicsDue(a)  PROVE n \in PicsDue(b)
      <4>1. PICK k \in (1..l) \ {1} : n = a.todo[k][2]  BY <1>3, <3>2
      <4> QED  BY <2>2, <2>3, <4>1
    <3> QED  BY <3>1, <3>2
  <2>6. ASSUME NEW i \in DOMAIN b.todo
        PROVE  /\ b.todo[i][2] \in PictureIds /\ drawn[b.todo[i][1]].of # 0
               /\ drawn[b.todo[i][2]].of = drawn[b.todo[i][1]].of
    <3>1. i + 1 \in DOMAIN a.todo /\ b.todo[i] = a.todo[i + 1]  BY <1>2, <2>1
    <3> QED  BY <3>1 DEF AskSound, Working
  <2>7. ASSUME NEW i \in DOMAIN b.todo, NEW k \in DOMAIN b.todo, i # k
        PROVE  b.todo[i][1] # b.todo[k][1] /\ b.todo[i][2] # b.todo[k][2]
    <3>1. /\ i + 1 \in DOMAIN a.todo /\ b.todo[i] = a.todo[i + 1]
          /\ k + 1 \in DOMAIN a.todo /\ b.todo[k] = a.todo[k + 1] /\ i + 1 # k + 1
      BY <1>2, <2>1, <2>7
    <3> QED  BY <3>1 DEF AskSound, Working
  <2>8. \A n \in PicsDue(b) : drawn[n].status = "queued"  BY <2>5 DEF AskSound
  <2>9. AskSound(b, drawn)  BY <2>1, <2>6, <2>7, <2>8 DEF AskSound, Working
  <2> QED  BY <2>4, <2>5, <2>9
<1> QED  BY <1>4, <1>5

\* What was read is written into the album, the last to read being the last to write it.
LEMMA WriteAlbumSound ==
  ASSUME AlbumInv, NEW q \in AlbumRequests, WriteAlbum(q)  PROVE AlbumInv'
<1>1. /\ AlbumRowsInv /\ ask[q].at = "sum" /\ pages' = pages /\ drawn' = drawn /\ wallet' = wallet
  BY DEF AlbumInv, WriteAlbum
<1>2. ask[q] \in AnAsk /\ AskSound(ask[q], drawn) /\ ask[q].at \in Working
  BY <1>1 DEF AlbumRowsInv, AsksTyped, AsksSound, Working
<1>3. PICK t : t = Tail(ask[q].todo)  OBVIOUS
<1>4. PICK s : s = IF Len(ask[q].todo) = 1 THEN "over" ELSE "run"  OBVIOUS
<1>5. PICK b : b = [ask[q] EXCEPT !.todo = t, !.at = s]  OBVIOUS
<1>6. b \in AnAsk /\ b.at = s /\ b.todo = t /\ s \in {"over", "run"}
  <2>1. t \in Seq(PictureIds \X (0..MaxPictures))
    <3>1. ask[q].todo \in Seq(PictureIds \X (0..MaxPictures)) /\ ask[q].todo # <<>>
      BY <1>2 DEF AnAsk, AskSound
    <3> QED  BY <1>3, <3>1
  <2>2. s \in Askings /\ s \in {"over", "run"}  BY <1>4 DEF Askings, Working
  <2> QED  BY <1>2, <1>5, <2>1, <2>2 DEF AnAsk
<1>7. ask' = [ask EXCEPT ![q] = b]  BY <1>3, <1>4, <1>5 DEF WriteAlbum
<1>8. RowsOwed(b) = RowsOwed(ask[q]) /\ PicsDue(b) = PicsDue(ask[q]) /\ AskSound(b, drawn)
  BY <1>1, <1>2, <1>3, <1>4, <1>6, NextOwed
<1>9. ASSUME AlbumTypeOK'
      PROVE  /\ AlbumRowsInv' /\ PageRows' = PageRows /\ DrawsOn
             /\ ask'[q] = b /\ \A p \in AlbumRequests \ {q} : ask'[p] = ask[p]
  <2>1. PicsDue(b) \subseteq PicsDue(ask[q])  BY <1>8
  <2> QED  BY <1>1, <1>6, <1>7, <1>8, <1>9, <2>1, RowsInvMoves
<1>10. ~overtaken => Launched /\ AlbumBegun /\ (errors = 0 => Faultless)  BY <1>2, WorkingStarted
<1>11. ASSUME AlbumTypeOK', AlbumBegun  PROVE AlbumBegun'
  <2>1. AskStarted(b) /\ RowsOwed(b) \subseteq RowsOwed(ask[q]) /\ ask[q].at # "tell"
    BY <1>1, <1>6, <1>8 DEF AskStarted
  <2>2. \A n \in PictureIds : drawn'[n].status = "succeeded" => drawn[n].status = "succeeded"
    BY <1>1
  <2>3. DrawsOn /\ ask'[q] = b /\ \A p \in AlbumRequests \ {q} : ask'[p] = ask[p]
    BY <1>9, <1>11
  <2> QED  BY <1>1, <1>6, <1>11, <2>1, <2>2, <2>3, StartedStays
<1>12. CASE /\ album' = [album EXCEPT !.status = ask[q].read] /\ UNCHANGED errors
            /\ overtaken' = (overtaken \/ \E o \in AlbumRequests \ {q} : ask[o].at = "sum")
  <2>1. AlbumTypeOK' /\ album'.status = ask[q].read
    <3>1. ask[q].read \in AlbumStates  BY <1>2 DEF AnAsk
    <3>2. overtaken' \in BOOLEAN  BY <1>1, <1>12 DEF AlbumRowsInv, AlbumTypeOK
    <3> QED  BY <1>1, <1>12, <3>1, <3>2 DEF AlbumRowsInv, AlbumTypeOK, AlbumStates
  <2>2. ASSUME ~overtaken'  PROVE Launched' /\ AlbumBegun' /\ (errors = 0 => Faultless')
    <3>1. ~overtaken /\ \A o \in AlbumRequests \ {q} : ask[o].at # "sum"  BY <1>12, <2>2
    <3>2. AlbumBegun /\ (errors = 0 => Faultless)  BY <1>10, <3>1
    <3>3. Launched'  BY <1>1, <2>1, <3>2 DEF AlbumBegun, AskStarted, Launched
    <3>4. ASSUME Faultless  PROVE Faultless'
      <4>1. PageRows' = PageRows /\ ask'[q] = b /\ \A p \in AlbumRequests \ {q} : ask'[p] = ask[p]
        BY <1>9, <2>1
      <4>2. \A p \in AlbumRequests : RowsOwed(ask'[p]) = RowsOwed(ask[p])  BY <1>8, <4>1
      <4>3. \A r \in PageRows : pages[r].status \in {"queued", "running"} =>
               \E p \in AlbumRequests : r \in RowsOwed(ask'[p])
        BY <3>4, <4>2 DEF Faultless
      <4>4. \A n \in PictureIds : drawn[n].status = "succeeded" =>
               \/ \E r \in PageRows : pages[r].status = "succeeded" /\ pages[r].work = n
               \/ \E p \in AlbumRequests : ask'[p].at = "tell" /\ ask'[p].todo[1][2] = n
        <5>1. \A p \in AlbumRequests : ask[p].at = "tell" => ask'[p] = ask[p]  BY <1>1, <4>1
        <5> QED  BY <3>4, <5>1 DEF Faultless
      <4>5. \A p \in AlbumRequests : ask'[p].at # "sum"  BY <1>6, <3>1, <4>1
      <4>6. AddsUpTo' = AddsUpTo  BY <1>1, <4>1 DEF AddsUpTo, Having
      <4>7. ASSUME \A p \in AlbumRequests : ask'[p].at \notin Working
            PROVE  album'.status = AddsUpTo
        <5>1. \A o \in AlbumRequests \ {q} : ask[o].at \notin Working  BY <4>1, <4>7
        <5>2. ask[q].read = AddsUpTo  BY <1>1, <3>4, <5>1 DEF Faultless
        <5> QED  BY <2>1, <5>2
      <4> QED  BY <1>1, <4>1, <4>3, <4>4, <4>5, <4>6, <4>7 DEF Faultless
    <3> QED  BY <1>11, <2>1, <3>2, <3>3, <3>4
  <2> QED  BY <1>9, <1>12, <2>1, <2>2 DEF AlbumInv
<1>13. CASE Slips /\ UNCHANGED <<album, overtaken>>
  <2>1. errors' \in 0..MaxErrors /\ errors' # 0
    BY <1>1, <1>13, AlbumConstants DEF AlbumRowsInv, AlbumTypeOK, Slips
  <2>2. AlbumTypeOK'  BY <1>1, <1>13, <2>1 DEF AlbumRowsInv, AlbumTypeOK
  <2> QED  BY <1>9, <1>10, <1>11, <1>13, <2>1, <2>2 DEF AlbumInv, Launched
<1> QED  BY <1>12, <1>13 DEF WriteAlbum

LEMMA AlbumStarts == ASSUME AlbumInit  PROVE AlbumInv
<1>1. /\ NoPage \in APage /\ NoPicture \in APicture /\ Resting \in AnAsk
      /\ Resting.at = "new" /\ Resting.todo = <<>>
  <2>1. NoPage \in APage  BY AlbumConstants DEF NoPage, APage
  <2>2. <<>> \in Seq(PictureIds \X (0..MaxPictures))  OBVIOUS
  <2>3. Resting \in AnAsk  BY <2>1, <2>2 DEF Resting, AnAsk, Askings, AlbumStates
  <2> QED  BY <2>1, <2>3, AlbumConstants DEF NoPicture, APicture, Resting
<1>2. /\ pages = [r \in PictureIds |-> NoPage] /\ drawn = [r \in PictureIds |-> NoPicture]
      /\ ask = [q \in AlbumRequests |-> Resting] /\ wallet = AlbumCredits
      /\ overtaken = FALSE /\ errors = 0 /\ album = [status |-> "none", photos |-> TRUE]
  BY DEF AlbumInit
<1>3. AlbumTypeOK
  <2>1. pages \in [PictureIds -> APage] /\ drawn \in [PictureIds -> APicture]  BY <1>1, <1>2
  <2>2. album \in [status : AlbumStates, photos : BOOLEAN]  BY <1>2 DEF AlbumStates
  <2>3. wallet \in Nat /\ errors \in 0..MaxErrors  BY <1>2, AlbumConstants
  <2>4. overtaken \in BOOLEAN  BY <1>2
  <2> QED  BY <2>1, <2>2, <2>3, <2>4 DEF AlbumTypeOK, APage, APicture, AlbumStates
<1>4. PageRows = {}  BY <1>2 DEF PageRows
<1>5. AsksTyped  BY <1>1, <1>2 DEF AsksTyped
<1>6. RowsSound /\ PagesShowTheirOwn  BY <1>2, <1>4 DEF RowsSound, PagesShowTheirOwn, Having
<1>7. \A q \in AlbumRequests : AskSound(ask[q], drawn) /\ PicsDue(ask[q]) = {}
  <2>1. AskSound(Resting, drawn) /\ PicsDue(Resting) = {}  BY <1>1, IdleAsk
  <2> QED  BY <1>2, <2>1
<1>8. AsksSound  BY <1>7 DEF AsksSound
<1>9. NotStarted
  <2>1. \A q \in AlbumRequests : ask[q].at = "new"  BY <1>1, <1>2
  <2>2. \A n \in PictureIds : drawn[n].status # "succeeded"  BY <1>2 DEF NoPicture
  <2> QED  BY <1>4, <2>1, <2>2 DEF NotStarted
<1>10. ~Launched  BY <1>2 DEF Launched
<1> QED  BY <1>3, <1>5, <1>6, <1>8, <1>9, <1>10 DEF AlbumInv, AlbumRowsInv

LEMMA AlbumSteps == ASSUME AlbumInv, [AlbumNext]_coupleAlbums  PROVE AlbumInv'
<1>1. CASE UNCHANGED coupleAlbums
  <2>1. UNCHANGED <<pages, drawn, wallet, ask, overtaken, errors>> /\ album' = album
    BY <1>1 DEF coupleAlbums
  <2>2. AlbumTypeOK'  BY <2>1 DEF AlbumInv, AlbumRowsInv, AlbumTypeOK
  <2>3. Launched' <=> Launched  BY <2>1 DEF Launched
  <2> QED  BY <2>1, <2>2, <2>3, SameAlbumRows
<1>2. CASE CreateAlbum  BY <1>2, CreateAlbumSound
<1>3. CASE DropPhotos  BY <1>3, DropPhotosSound
<1>4. CASE AlbumStops  BY <1>4, AlbumStopsSound
<1>5. ASSUME NEW q \in AlbumRequests,
             \/ BeginGenerate(q) \/ ClearPages(q) \/ WriteAlbumPage(q) \/ StartGenerate(q)
             \/ BeginRetry(q) \/ CommitRetry(q)
             \/ BeginPage(q) \/ PaintPage(q) \/ TellPage(q) \/ ReadPages(q) \/ WriteAlbum(q)
      PROVE  AlbumInv'
  <2>1. CASE BeginGenerate(q)  BY <2>1, BeginGenerateSound
  <2>2. CASE ClearPages(q)  BY <2>2, ClearPagesSound
  <2>3. CASE WriteAlbumPage(q)  BY <2>3, WriteAlbumPageSound
  <2>4. CASE StartGenerate(q)  BY <2>4, StartGenerateSound
  <2>5. CASE BeginRetry(q)  BY <2>5, BeginRetrySound
  <2>6. CASE CommitRetry(q)  BY <2>6, CommitRetrySound
  <2>7. CASE BeginPage(q)  BY <2>7, BeginPageSound
  <2>8. CASE PaintPage(q)  BY <2>8, PaintPageSound
  <2>9. CASE TellPage(q)  BY <2>9, TellPageSound
  <2>10. CASE ReadPages(q)  BY <2>10, ReadPagesSound
  <2>11. CASE WriteAlbum(q)  BY <2>11, WriteAlbumSound
  <2> QED  BY <1>5, <2>1, <2>2, <2>3, <2>4, <2>5, <2>6, <2>7, <2>8, <2>9, <2>10, <2>11
<1> QED  BY <1>1, <1>2, <1>3, <1>4, <1>5 DEF AlbumNext

LEMMA AlbumInvSound == ASSUME AlbumInv  PROVE AlbumSound
<1>1. AlbumRowsInv  BY DEF AlbumInv
<1>2. PagesPaidOnce
  <2> SUFFICES ASSUME ~overtaken, NEW a \in PictureIds, NEW b \in PictureIds,
                      drawn[a].status = "succeeded", drawn[b] = drawn[a]
               PROVE  a = b
    BY DEF PagesPaidOnce
  <2>1. AlbumBegun  BY DEF AlbumInv, NotStarted
  <2>2. PICK m : m = drawn[a].of  OBVIOUS
  <2>3. m \in 1..AlbumPages
    <3>1. drawn[a] \in APicture  BY <1>1, RowTypes DEF AlbumRowsInv
    <3>2. m # 0  BY <1>1, <2>2 DEF AlbumRowsInv, RowsSound, NoPicture
    <3>3. m \in 0..AlbumPages  BY <2>2, <3>1 DEF APicture
    <3> QED  BY <3>2, <3>3, AlbumConstants
  <2>4. a \in PaidPictures(m) /\ b \in PaidPictures(m)  BY <2>2 DEF PaidPictures
  <2> QED  BY <2>1, <2>3, <2>4 DEF AlbumBegun
<1>3. AlbumSettles
  <2> SUFFICES ASSUME \A q \in AlbumRequests : ask[q].at \in {"new", "over"},
                      errors = 0, ~overtaken, album.status \notin {"none", "draft"}
               PROVE  /\ album.status = AddsUpTo /\ album.status # "generating"
                      /\ {r \in PictureIds : drawn[r].status = "succeeded"} = Visible
    BY DEF AlbumSettles
  <2>1. Faultless  BY DEF AlbumInv, Launched
  <2>2. \A q \in AlbumRequests : ask[q].at \notin Working /\ ask[q].at # "tell" /\ RowsOwed(ask[q]) = {}
    BY DEF Working, RowsOwed
  <2>3. album.status = AddsUpTo  BY <2>1, <2>2 DEF Faultless
  <2>4. \A r \in PageRows : pages[r].status \notin {"queued", "running"}
    BY <2>1, <2>2 DEF Faultless
  <2>5. AddsUpTo # "generating"
    <3>1. Having({"queued", "running"}) = {}  BY <2>4 DEF Having
    <3> QED  BY <3>1 DEF AddsUpTo
  <2>6. ASSUME NEW n \in PictureIds, drawn[n].status = "succeeded"  PROVE n \in Visible
    <3>1. PICK r \in PageRows : pages[r].status = "succeeded" /\ pages[r].work = n
      BY <2>1, <2>2, <2>6 DEF Faultless
    <3> QED  BY <3>1 DEF Visible, Having
  <2>7. ASSUME NEW n \in Visible  PROVE n \in PictureIds /\ drawn[n].status = "succeeded"
    <3>1. PICK r \in Having({"succeeded"}) : n = pages[r].work  BY DEF Visible
    <3>2. n # 0 /\ drawn[n].status = "succeeded"
      BY <1>1, <3>1 DEF AlbumRowsInv, PagesShowTheirOwn
    <3>3. n \in 0..MaxPictures
      <4>1. pages[r] \in APage  BY <1>1, <3>1, RowTypes DEF AlbumRowsInv, Having, PageRows
      <4> QED  BY <3>1, <4>1 DEF APage
    <3> QED  BY <3>2, <3>3, AlbumConstants DEF PictureIds
  <2> QED  BY <2>3, <2>5, <2>6, <2>7
<1> QED  BY <1>1, <1>2, <1>3 DEF AlbumSound, AlbumRowsInv

(* handleGenerateCoupleAlbum, handleRetryCoupleAlbumPage and their goroutines: however the   *)
(* requests overlap, fail and stop, a page that is done shows a paid work of its number;     *)
(* unless one wrote over what it had not read, a page is paid once, and what is left when    *)
(* all is over without errors is what the pages add up to, with every paid work in its page. *)
THEOREM AlbumAlwaysSound == AlbumSpec => []AlbumSound
<1>1. AlbumSpec => []AlbumInv
  <2>1. AlbumInit => AlbumInv  BY AlbumStarts
  <2>2. AlbumInv /\ [AlbumNext]_coupleAlbums => AlbumInv'  BY AlbumSteps
  <2> QED  BY <2>1, <2>2, PTL DEF AlbumSpec
<1>2. AlbumInv => AlbumSound  BY AlbumInvSound
<1> QED  BY <1>1, <1>2, PTL
-----------------------------------------------------------------------------
(***************************************************************************)
(* The four parts together: each keeps its invariant while another runs.   *)
(***************************************************************************)

\* The parts of a task's state that its credits do not depend on.
LimitsTyped == ready \in BOOLEAN /\ recent \in [Users -> 0..MaxRequests] /\ crashes \in 0..MaxCrashes

LEMMA LimitsStep ==
  ASSUME TaskInv, LimitsTyped, [Next]_vars
  PROVE  LimitsTyped'
<1>1. MaxRequests \in Nat /\ MaxCrashes \in Nat /\ OwnerOf \in [Jobs -> Users]  BY VideoConstants
<1>2. ASSUME ready' = ready, recent' = recent, crashes' = crashes  PROVE LimitsTyped'
  BY <1>2 DEF LimitsTyped
<1>3. ASSUME NEW j \in Jobs, Prepare(j) \/ Step(j) \/ DeleteWork(j)  PROVE LimitsTyped'
  <2>1. CASE Prepare(j)
    <3> DEFINE u == OwnerOf[j]
    <3>1. /\ ready' = ready /\ crashes' = crashes
          /\ recent' = recent \/ (recent[u] < MaxRequests /\ recent' = [recent EXCEPT ![u] = @ + 1])
      BY <2>1 DEF Prepare, Allowed
    <3>2. u \in Users /\ recent[u] \in 0..MaxRequests  BY <1>1 DEF LimitsTyped
    <3> HIDE DEF u
    <3>3. recent' \in [Users -> 0..MaxRequests]  BY <1>1, <3>1, <3>2 DEF LimitsTyped
    <3> QED  BY <3>1, <3>3 DEF LimitsTyped
  <2>2. CASE Submit(j) \/ Poll(j)
    <3>1. recent' = recent /\ crashes' = crashes /\ (ready' = ready \/ ready' = FALSE)
      BY <2>2 DEF Submit, Poll, Downgrade
    <3> QED  BY <3>1 DEF LimitsTyped
  <2>3. CASE TryAcquire(j) \/ Create(j) \/ Release(j)
    BY <1>2, <2>3 DEF TryAcquire, Create, Release
  <2>4. CASE Start(j) \/ Mark(j) \/ Note(j) \/ NoteAudit(j)
    BY <1>2, <2>4 DEF Start, Mark, Note, NoteAudit, SaveRow, SyncAudit, guards
  <2>5. CASE PersistWork(j) \/ Fail(j) \/ FailAudit(j) \/ DeleteWork(j)
    BY <1>2, <2>5 DEF PersistWork, Fail, FailAudit, DeleteWork, guards
  <2> QED  BY <1>3, <2>1, <2>2, <2>3, <2>4, <2>5 DEF Step
<1>4. ASSUME NEW t \in Tracks, PersistTrack(t) \/ \E j \in Jobs : AskTrack(t, j) \/ UploadTrack(t, j)
      PROVE  LimitsTyped'
  BY <1>2, <1>4 DEF PersistTrack, AskTrack, UploadTrack, guards
<1>5. ASSUME NEW u \in Users, WindowPasses(u)  PROVE LimitsTyped'
  <2>1. ready' = ready /\ crashes' = crashes /\ recent' = [recent EXCEPT ![u] = 0]
    BY <1>5 DEF WindowPasses
  <2>2. recent' \in [Users -> 0..MaxRequests]  BY <1>1, <2>1 DEF LimitsTyped
  <2> QED  BY <2>1, <2>2 DEF LimitsTyped
<1>6. CASE UpdateReadiness  BY <1>6 DEF UpdateReadiness, LimitsTyped
<1>7. CASE Crash
  <2>1. ready' = ready /\ crashes < MaxCrashes /\ crashes' = crashes + 1 /\ recent' = [u \in Users |-> 0]
    BY <1>7 DEF Crash
  <2>2. crashes' \in 0..MaxCrashes  BY <1>1, <2>1 DEF LimitsTyped
  <2>3. recent' \in [Users -> 0..MaxRequests]  BY <1>1, <2>1
  <2> QED  BY <2>1, <2>2, <2>3 DEF LimitsTyped
<1>8. CASE UNCHANGED vars  BY <1>2, <1>8 DEF vars
<1> QED  BY <1>3, <1>4, <1>5, <1>6, <1>7, <1>8 DEF Next

\* The addresses an order was told are those its provider tells, and contexts are of orders.
ToldTyped ==
    late \subseteq Orders /\ \A o \in Orders : order[o].told \in Told(o) \cup {<<Sound>>}

\* The addresses an order is told in a step: those it had, or those of its provider.
LEMMA ToldMoves ==
  ASSUME CallsInv, ToldTyped, NEW o \in Orders, protocol' = protocol, late' = late,
         \/ order' = order
         \/ \E s : order' = [order EXCEPT ![o].at = s]
         \/ \E list \in Told(o) \cup {<<Sound>>} : order' = [order EXCEPT ![o] = [at |-> "fetch", told |-> list]]
  PROVE  ToldTyped'
<1>1. order \in [Orders -> [at : CallStages, told : Seq(Addresses)]]  BY DEF CallsInv, CallsTyped
<1>2. \A i \in Orders : Told(i)' = Told(i)  BY DEF Told
<1>3. ASSUME NEW i \in Orders  PROVE order'[i].told \in Told(i) \cup {<<Sound>>}
  <2>1. CASE order' = order  BY <2>1 DEF ToldTyped
  <2>2. ASSUME NEW s, order' = [order EXCEPT ![o].at = s]
        PROVE  order'[i].told \in Told(i) \cup {<<Sound>>}
    <3>1. order'[i].told = order[i].told  BY <1>1, <2>2
    <3> QED  BY <3>1 DEF ToldTyped
  <2>3. ASSUME NEW list \in Told(o) \cup {<<Sound>>},
               order' = [order EXCEPT ![o] = [at |-> "fetch", told |-> list]]
        PROVE  order'[i].told \in Told(i) \cup {<<Sound>>}
    <3>1. CASE i = o
      <4>1. order'[i].told = list  BY <1>1, <2>3, <3>1
      <4> QED  BY <3>1, <4>1
    <3>2. CASE i # o
      <4>1. order'[i] = order[i]  BY <1>1, <2>3, <3>2
      <4> QED  BY <4>1 DEF ToldTyped
    <3> QED  BY <3>1, <3>2
  <2> QED  BY <2>1, <2>2, <2>3
<1> QED  BY <1>2, <1>3 DEF ToldTyped

LEMMA ToldStep ==
  ASSUME CallsInv, ToldTyped, [ProvidersNext]_videoProviders
  PROVE  ToldTyped'
<1>1. CASE UNCHANGED videoProviders  BY <1>1 DEF videoProviders, ToldTyped, Told
<1>2. ASSUME NEW o \in Orders, protocol' = protocol, AskProvider(o) \/ RemoteWorks(o)
      PROVE  ToldTyped'
  <2>1. ASSUME NEW s, Goes(o, s), late' = late  PROVE ToldTyped'
    BY <1>2, <2>1, ToldMoves DEF Goes
  <2>2. ASSUME NEW w, Ends(o, w), late' = late  PROVE ToldTyped'
    BY <1>2, <2>2, ToldMoves DEF Ends
  <2>3. ASSUME NEW list \in Told(o) \cup {<<Sound>>}, Fetches(o, list), late' = late  PROVE ToldTyped'
    BY <1>2, <2>3, ToldMoves DEF Fetches
  <2>4. ASSUME NEW without, ToldAddress(o, without), late' = late  PROVE ToldTyped'
    BY <2>2, <2>3, <2>4 DEF ToldAddress
  <2>5. CASE SubmitVideo(o)
    <3>1. late' = late /\ (Refuses(o) \/ Sends(o))
      BY <2>5 DEF SubmitVideo, SubmitPlain, SubmitArk, SubmitZZ, SubmitWuyin, Submits
    <3> QED  BY <2>1, <2>2, <3>1 DEF Refuses, Sends, RequestFails
  <2>6. CASE PollVideo(o)
    <3>1. ASSUME PollPlain(o)  PROVE ToldTyped'
      <4>1. late' = late  BY <3>1 DEF PollPlain, Polls
      <4> QED  BY <2>1, <2>2, <2>4, <3>1, <4>1 DEF PollPlain, Polls, RequestFails, OrEmpty
    <3>2. ASSUME PollArk(o)  PROVE ToldTyped'
      <4>1. late' = late  BY <3>2 DEF PollArk, Polls
      <4> QED  BY <2>1, <2>2, <2>4, <3>2, <4>1 DEF PollArk, Polls, RequestFails, OrError
    <3>3. ASSUME PollZZ(o)  PROVE ToldTyped'
      <4>1. late' = late  BY <3>3 DEF PollZZ, Polls
      <4> QED  BY <2>1, <2>2, <3>3, <4>1 DEF PollZZ, Polls, RequestFails, Content
    <3>4. ASSUME PollWuyin(o)  PROVE ToldTyped'
      <4>1. late' = late  BY <3>4 DEF PollWuyin, Polls
      <4> QED  BY <2>1, <2>2, <2>4, <3>4, <4>1 DEF PollWuyin, Polls, RequestFails, OrError
    <3> QED  BY <2>6, <3>1, <3>2, <3>3, <3>4 DEF PollVideo
  <2>7. CASE PollAgain(o) \/ FetchBinaryURL(o) \/ FetchContent(o)
    BY <2>1, <2>2, <2>7 DEF PollAgain, FetchBinaryURL, FetchContent, RequestFails
  <2>8. CASE GenerateMusic(o)
    BY <2>2, <2>3, <2>8 DEF GenerateMusic, RequestFails
  <2>9. CASE RemoteWorks(o)  BY <1>2, <2>9, ToldMoves DEF RemoteWorks
  <2> QED  BY <1>2, <2>5, <2>6, <2>7, <2>8, <2>9 DEF AskProvider
<1>3. ASSUME NEW o \in Orders, protocol' = protocol, ContextEnds(o)  PROVE ToldTyped'
  <2>1. late' \subseteq Orders /\ order' = order  BY <1>3 DEF ContextEnds, ToldTyped
  <2> QED  BY <1>3, <2>1 DEF ToldTyped, Told
<1> QED  BY <1>1, <1>2, <1>3 DEF ProvidersNext

VideoPartsInv ==
    /\ TaskInv /\ LimitsTyped /\ MessageInv
    /\ CallsInv /\ ToldTyped /\ CenterInv

LEMMA InitVideoParts == MCInit => VideoPartsInv
<1> SUFFICES ASSUME MCInit  PROVE VideoPartsInv
  OBVIOUS
<1>1. Init /\ ConversationInit /\ ProvidersInit /\ CenterInit  BY DEF MCInit
<1>2. LimitsTyped
  <2>1. ready = TRUE /\ recent = [u \in Users |-> 0] /\ crashes = 0  BY <1>1 DEF Init
  <2>2. MaxRequests \in Nat /\ MaxCrashes \in Nat  BY VideoConstants
  <2> QED  BY <2>1, <2>2 DEF LimitsTyped
<1>3. ToldTyped  BY <1>1 DEF ProvidersInit, ToldTyped, Told
<1> QED  BY <1>1, <1>2, <1>3, InitTasks, InitMessageInv, InitCalls, InitCenter DEF VideoPartsInv

LEMMA VideoPartsStep ==
  ASSUME VideoPartsInv, [MCNext]_<<which, vars, conversation, videoProviders, modelCenter>>
  PROVE  VideoPartsInv'
<1>1. /\ [Next]_vars /\ [ConversationNext]_conversation
      /\ [ProvidersNext]_videoProviders /\ [CenterNext]_modelCenter
  BY DEF MCNext
<1> QED
  BY <1>1, TaskStep, LimitsStep, MessageInvStep, CallsStep, ToldStep, CenterStep DEF VideoPartsInv

\* The tasks of videos, the messages to the assistant, the orders to providers and the
\* rows of the model centre keep their types, whichever of them runs: no balance is
\* negative, no window of requests overfull, no order told addresses its provider does
\* not tell, and no row of the centre refers to one that cannot exist.
THEOREM VideoTypesAlways == MCSpec => []VideoTypesOK
<1>1. VideoPartsInv => VideoTypesOK
  <2> SUFFICES ASSUME VideoPartsInv  PROVE VideoTypesOK
    OBVIOUS
  <2>1. VideoTypeOK
    BY DEF VideoPartsInv, TaskInv, TasksTyped, RowsTyped, Places_, LimitsTyped, VideoTypeOK
  <2>2. ProvidersTypeOK
    <3>1. \A o \in Orders : order[o].at \in CallStages
      BY DEF VideoPartsInv, CallsInv, CallsTyped
    <3>2. remote \in [Orders -> Remotes] /\ outcome \in [Orders -> Outcomes]
      BY DEF VideoPartsInv, CallsInv, CallsTyped
    <3> QED  BY <3>1, <3>2 DEF VideoPartsInv, ToldTyped, ProvidersTypeOK, CallStages, Remotes, Outcomes
  <2> QED  BY <2>1, <2>2, CenterInvTyped DEF VideoPartsInv, MessageInv, VideoTypesOK
<1> QED  BY <1>1, InitVideoParts, VideoPartsStep, PTL DEF MCSpec
=============================================================================
