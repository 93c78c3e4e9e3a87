---------------------------- MODULE ImageFailover ----------------------------
(***************************************************************************)
(* How a generation of an image calls the providers: the candidates are    *)
(* tried in their order, a channel up to twice, with a limit on the calls  *)
(* of all.  A call may not go out, be lost, time out, be refused, or be    *)
(* answered; the answer is read, its image fetched and spooled.  What kind *)
(* of failure it was decides whether the call is made again, elsewhere or  *)
(* not at all.  Failures of channels are counted, and one that fails too   *)
(* often is tried last for a while.                                        *)
(***************************************************************************)
EXTENDS Naturals, Sequences, FiniteSets

CONSTANTS
    Channels,       \* channels, as their ids
    Interfaces,     \* those the providers are called by, of the four below
    Keyed,          \* those whose provider takes an idempotency key
    Shots,          \* generations, numbered as they begin
    CallLimit,      \* imageQueueMaxExternalAttempts
    FetchLimit,     \* attempts to fetch an image by its address
    SpoolMax,       \* files of the spool at which no more is written
    FailLimit,      \* failures in a row after which a channel cools down
    MaxFails        \* bound: failures of a channel that are counted

ASSUME FailoverConstants ==
    /\ IsFiniteSet(Shots) /\ IsFiniteSet(Channels)
    /\ {CallLimit, FetchLimit, SpoolMax, FailLimit} \subseteq Nat \ {0} /\ MaxFails \in Nat

VARIABLES
    shot,       \* generations under way, with the calls they made
    health,     \* failures in a row of each channel, and whether it cools down
    spool       \* files in the spool

imageFailover == <<shot, health, spool>>

PerChannel == 2     \* maxModelCenterChannelProviderAttempts

(* The kinds of failure, as the program tells them apart:                  *)
(*   waiting  not sent, or 429        lost     sent, the connection failed *)
(*   timeout  sent, and no answer     gateway  502, 503 and 504            *)
(*   down     401, 403, 500, an unknown model, an answer that is garbled   *)
(*   refused  400, a policy, no asset at its address, too large, no space  *)
FailureKinds == {"waiting", "lost", "timeout", "gateway", "down", "refused"}
Unclear      == {"lost", "timeout"}
Again        == {"timeout", "gateway"}
Elsewhere    == FailureKinds \ {"refused"}

(* What an answer of each interface of a provider may hold the image as.   *)
ChatAnswers      == {"inline", "address"}
ImagesAnswers    == {"inline", "address"}
EditsAnswers     == {"inline", "address"}
ResponsesAnswers == {"inline"}

AnswersOf(api) ==
    CASE api = "chat" -> ChatAnswers [] api = "images" -> ImagesAnswers
      [] api = "edits" -> EditsAnswers [] api = "responses" -> ResponsesAnswers

NoShot == [at |-> "new", centre |-> TRUE, held |-> FALSE, api |-> "none", order |-> <<>>, n |-> 0, tries |-> 0, made |-> 0,
           fetches |-> 0, kind |-> "none", unclear |-> FALSE, dead |-> FALSE, result |-> "none"]

FailoverInit ==
    /\ shot = [s \in Shots |-> NoShot]
    /\ health = [ch \in Channels |-> [fails |-> 0, cooling |-> FALSE, late |-> FALSE]]
    /\ spool = 0

ShotStep(s, new)  == shot' = [shot EXCEPT ![s] = new]
ShotAt(s, at)     == shot[s].at = at
ChannelOfShot(s) == shot[s].order[shot[s].n]

(* Channels that cool down are tried last.                                 *)
CooledLast(seq) ==
    SelectSeq(seq, LAMBDA ch : ~health[ch].cooling) \o SelectSeq(seq, LAMBDA ch : health[ch].cooling)

ChannelOrders == {o \in [1..Cardinality(Channels) -> Channels] : \A m, n \in DOMAIN o : m # n => o[m] # o[n]}

(* A generation starts with its candidates: of the model centre, or        *)
(* configurations of the older form.  It may hold a reservation elsewhere. *)
BeginShot(s) == \E o \in ChannelOrders, centre \in BOOLEAN, held \in BOOLEAN :
    /\ ShotAt(s, "new") /\ \A t \in Shots : t < s => ~ShotAt(t, "new")
    /\ ShotStep(s, [NoShot EXCEPT !.at = "start", !.centre = centre, !.held = held, !.n = 1,
                              !.order = IF centre THEN CooledLast(o) ELSE o])
    /\ UNCHANGED <<health, spool>>

(* The time of the generation runs out.                                    *)
ShotExpires(s) ==
    /\ shot[s].at \notin {"new", "end"} /\ ~shot[s].dead
    /\ ShotStep(s, [shot[s] EXCEPT !.dead = TRUE])
    /\ UNCHANGED <<health, spool>>

(* Of a generation that is over, how it ended is remembered.               *)
EndShot(s, result) ==
    ShotStep(s, IF result = "failed"
                THEN [NoShot EXCEPT !.at = "end", !.result = result, !.kind = shot[s].kind,
                                    !.n = shot[s].n, !.made = shot[s].made]
                ELSE [NoShot EXCEPT !.at = "end", !.result = result])

(* An attempt is recorded before the call; then the call is made.          *)
StartAttempt(s) ==
    /\ ShotAt(s, "start")
    /\ IF shot[s].made >= CallLimit THEN EndShot(s, "failed")
       ELSE IF shot[s].dead THEN EndShot(s, "error")
       ELSE ShotStep(s, [shot[s] EXCEPT !.at = "call", !.tries = @ + 1, !.made = @ + 1])
    /\ UNCHANGED <<health, spool>>

(* A provider that takes a key does not do the same work twice.            *)
KeyHolds(s) == shot[s].centre /\ ChannelOfShot(s) \in Keyed

(* The end of a call, with its kind.                                       *)
CallEnds(s, kind) ==
    ShotStep(s, [shot[s] EXCEPT !.at = "settle", !.kind = kind, !.api = "none", !.fetches = 0,
                             !.unclear = @ \/ (shot[s].held /\ kind \in Unclear /\ ~KeyHolds(s))])

(* The request of an edit is written to the spool before it is sent, and   *)
(* removed when the call ends.                                             *)
Form(s)   == shot[s].api = "edits" /\ shot[s].at \in {"read", "fetch", "spool", "write"}
SpoolUsed == spool + Cardinality({s \in Shots : Form(s)})

(* The request is built for the interface of the channel and sent.         *)
SendRequest(s) ==
    /\ ShotAt(s, "call")
    /\ \/ ~shot[s].dead /\ \E kind \in {"down", "waiting", "lost"} : CallEnds(s, kind)
       \/ CallEnds(s, "timeout")
       \/ ~shot[s].dead /\ \E api \in Interfaces : ShotStep(s, [shot[s] EXCEPT !.at = "read", !.api = api])
    /\ UNCHANGED <<health, spool>>

(* The answer is an error or is read; a deadline that passes while it is   *)
(* read makes it garbled.  It holds the image, or the address of one.      *)
ReadAnswer(s) ==
    /\ ShotAt(s, "read")
    /\ \/ CallEnds(s, "down")
       \/ /\ ~shot[s].dead
          /\ \/ \E kind \in {"waiting", "gateway", "refused"} : CallEnds(s, kind)
             \/ "address" \in AnswersOf(shot[s].api) /\ ShotStep(s, [shot[s] EXCEPT !.at = "fetch"])
             \/ "inline" \in AnswersOf(shot[s].api) /\ ShotStep(s, [shot[s] EXCEPT !.at = "spool"])
    /\ UNCHANGED <<health, spool>>

(* The image is fetched, again after some failures.                        *)
FetchImage(s) ==
    /\ ShotAt(s, "fetch")
    /\ \/ ~shot[s].dead /\ ShotStep(s, [shot[s] EXCEPT !.at = "spool"])
       \/ ~shot[s].dead /\ shot[s].fetches + 1 < FetchLimit /\ ShotStep(s, [shot[s] EXCEPT !.fetches = @ + 1])
       \/ CallEnds(s, "refused")
    /\ UNCHANGED <<health, spool>>

(* The space of the spool is measured, and the file written after.         *)
MeasureSpool(s) ==
    /\ ShotAt(s, "spool")
    /\ \/ CallEnds(s, "refused")
       \/ SpoolUsed < SpoolMax /\ ShotStep(s, [shot[s] EXCEPT !.at = "write"])
    /\ UNCHANGED <<health, spool>>

WriteSpool(s) ==
    /\ ShotAt(s, "write")
    /\ \/ \E kind \in {"refused", "down"} : CallEnds(s, kind) /\ UNCHANGED spool
       \/ CallEnds(s, "ok") /\ spool' = spool + 1
    /\ UNCHANGED health

Collect(s) ==
    /\ ShotAt(s, "end") /\ shot[s].result = "done" /\ spool > 0
    /\ spool' = spool - 1 /\ ShotStep(s, [shot[s] EXCEPT !.result = "kept"])
    /\ UNCHANGED health
-----------------------------------------------------------------------------
(* After a call.                                                           *)

(* A mutant: any answer that did not come is asked for again.              *)
AlwaysAllows(s) == TRUE

(* commerceProviderFailureAllowsRetry                                      *)
AllowsRetry(s) == shot[s].held /\ ~KeyHolds(s) => shot[s].kind \notin Unclear

TryNext(s) ==
    IF shot[s].n = Cardinality(Channels) THEN EndShot(s, "failed")
    ELSE ShotStep(s, [shot[s] EXCEPT !.at = "start", !.n = @ + 1, !.tries = 0, !.kind = "none"])

(* A success makes the channel healthy again.                              *)
Succeed(s) ==
    /\ ShotAt(s, "settle") /\ shot[s].kind = "ok" /\ EndShot(s, "done")
    /\ health' = IF shot[s].centre
                 THEN [health EXCEPT ![ChannelOfShot(s)] = [fails |-> 0, cooling |-> FALSE, late |-> FALSE]]
                 ELSE health
    /\ UNCHANGED spool

SettleShot(s) ==
    LET kind == shot[s].kind
    IN  /\ ShotAt(s, "settle") /\ kind # "ok"
        /\ IF shot[s].held /\ kind = "waiting" THEN EndShot(s, "waits")
           ELSE IF ~AllowsRetry(s) THEN EndShot(s, "unknown")
           ELSE IF shot[s].centre /\ shot[s].tries < PerChannel /\ kind \in Again /\ ~shot[s].dead
           THEN ShotStep(s, [shot[s] EXCEPT !.at = "start", !.kind = "none"])
           ELSE IF kind \notin Elsewhere THEN EndShot(s, "failed")
           ELSE IF shot[s].centre THEN ShotStep(s, [shot[s] EXCEPT !.at = "mark", !.kind = "none"])
           ELSE TryNext(s)
        /\ UNCHANGED <<health, spool>>

(* The failure is counted, then the count is read back.                    *)
CountFailure(s) ==
    /\ ShotAt(s, "mark") /\ ShotStep(s, [shot[s] EXCEPT !.at = "weigh"])
    /\ health' = [health EXCEPT ![ChannelOfShot(s)].fails = IF @ < MaxFails THEN @ + 1 ELSE @]
    /\ UNCHANGED spool

WeighFailure(s) ==
    /\ ShotAt(s, "weigh")
    /\ IF health[ChannelOfShot(s)].fails >= FailLimit THEN ShotStep(s, [shot[s] EXCEPT !.at = "cool"]) ELSE TryNext(s)
    /\ UNCHANGED <<health, spool>>

CoolChannel(s) ==
    /\ ShotAt(s, "cool") /\ TryNext(s)
    /\ health' = [health EXCEPT ![ChannelOfShot(s)].cooling = TRUE, ![ChannelOfShot(s)].late = @ \/ health[ChannelOfShot(s)].fails < FailLimit]
    /\ UNCHANGED spool

(* The time a channel cools down for is over.                              *)
WarmUp(ch) ==
    /\ health[ch].cooling /\ health' = [health EXCEPT ![ch].cooling = FALSE, ![ch].late = FALSE]
    /\ UNCHANGED <<shot, spool>>

FailoverNext ==
    \/ \E s \in Shots :
        \/ BeginShot(s) \/ ShotExpires(s) \/ StartAttempt(s) \/ SendRequest(s) \/ ReadAnswer(s) \/ FetchImage(s)
        \/ MeasureSpool(s) \/ WriteSpool(s) \/ Collect(s) \/ Succeed(s) \/ SettleShot(s)
        \/ CountFailure(s) \/ WeighFailure(s) \/ CoolChannel(s)
    \/ \E ch \in Channels : WarmUp(ch)

FailoverSpec == FailoverInit /\ [][FailoverNext]_imageFailover
-----------------------------------------------------------------------------
FailoverTypeOK ==
    /\ \A s \in Shots : /\ shot[s].tries \in 0..PerChannel /\ shot[s].made \in 0..CallLimit
                        /\ shot[s].fetches \in 0..FetchLimit
                        /\ shot[s].kind \in FailureKinds \cup {"none", "ok"}
    /\ \A ch \in Channels : health[ch].fails \in 0..MaxFails
    /\ spool \in Nat

(* A generation that holds a reservation makes no call, on any channel,    *)
(* after one whose outcome is unknown, unless the key makes it safe.       *)
NoReplayAfterUnknown == \A s \in Shots :
    shot[s].unclear => shot[s].at = "settle" /\ shot[s].kind \in Unclear

(* A generation that gives up over a failure another channel might not     *)
(* have had has come to the last channel, or made all the calls it may.    *)
GivesUpLate == \A s \in Shots :
    shot[s].result = "failed" /\ shot[s].kind # "refused"
    => shot[s].made = CallLimit \/ shot[s].n = Cardinality(Channels)

(* A channel cools down after failures in a row, or because a success came *)
(* between the count of one and what was made of it.                       *)
CoolingIsEarned == \A ch \in Channels : health[ch].cooling /\ ~health[ch].late => health[ch].fails >= FailLimit

(* The spool goes over its size by no more than one file for each other    *)
(* generation.                                                             *)
SpoolIsBounded == spool <= SpoolMax + Cardinality(Shots) - 1

(* Calls are neither repeated nor given up wrongly.                        *)
FailoverSound == NoReplayAfterUnknown /\ GivesUpLate /\ CoolingIsEarned /\ SpoolIsBounded
=============================================================================
