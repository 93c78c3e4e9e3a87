--------------------------- MODULE VideoProviders ---------------------------
(***************************************************************************)
(* The video providers as the tasks of users reach them.  A provider takes *)
(* an order and answers with the number of a task of its own, which goes   *)
(* on whatever becomes of us; we ask for that task until it is over or     *)
(* RequestTimeoutSeconds are, and fetch the video.  Four protocols say the *)
(* same in different words; soundtracks come in a single answer.           *)
(***************************************************************************)
EXTENDS Naturals, Sequences

CONSTANT Orders     \* the videos and soundtracks that are asked for

VARIABLES
    protocol,   \* how the provider of each order speaks
    remote,     \* the task at the provider
    order,      \* where our call stands, and the addresses it was told
    late,       \* the orders whose context has ended
    outcome     \* what the caller is given

videoProviders == <<protocol, remote, order, late, outcome>>

(* The words of each protocol that end a task; all others, known or not,    *)
(* mean that it goes on.                                                    *)
PlainWords == [done |-> {"SUCCESS"}, failed |-> {"FAILURE"}]
ArkWords   == [done |-> {"succeeded", "success"},
               failed |-> {"failed", "expired", "cancelled", "canceled"}]
ZZWords    == [done |-> {"completed", "succeeded", "success"},
               failed |-> {"failed", "error", "cancelled", "canceled"}]
WuyinWords == [done |-> {"2"}, failed |-> {"3"}]

(* What providers say of a task in each state, by their own account.        *)
Says(o, state) ==
    LET of(waiting, making, made, failed, expired) ==
            CASE state = "waiting" -> waiting [] state = "making" -> making
              [] state = "made" -> made [] state = "failed" -> failed
              [] OTHER -> expired
    IN  CASE protocol[o] = "plain" -> of({"NOT_START", ""}, {"IN_PROGRESS"}, {"SUCCESS"}, {"FAILURE"}, {"FAILURE"})
          [] protocol[o] = "ark" -> of({"queued"}, {"running"}, {"succeeded"}, {"failed"}, {"expired", "cancelled"})
          [] protocol[o] = "zz" -> of({"pending", "queued"}, {"processing"}, {"completed"}, {"failed", "error"}, {"cancelled", "expired"})
          [] OTHER -> of({"0"}, {"1"}, {"2"}, {"3"}, {"3", "4"})

(* The addresses of an answer, in the order in which they are collected.    *)
(* In an answer of Wuyin a picture may come with the video, before or after *)
(* it, or alone.                                                            *)
Cover   == [of |-> "cover", likely |-> FALSE]
Video   == [of : {"video"}, likely : BOOLEAN]
Sound   == [of |-> "video", likely |-> FALSE]
Told(o) ==
    {<<>>} \cup {<<v>> : v \in Video} \cup
    (IF protocol[o] = "wuyin"
     THEN {<<Cover>>} \cup {<<v, Cover>> : v \in Video} \cup {<<Cover, v>> : v \in Video} ELSE {})

(* Mutant: the first address, whatever it looks like.                       *)
PickedFirst(list) == Head(list)

(* The first address that looks like a video, or else the first.            *)
Picked(list) ==
    LET likely == {i \in DOMAIN list : list[i].likely}
    IN  IF likely = {} THEN Head(list) ELSE list[CHOOSE i \in likely : \A k \in likely : i <= k]

ProvidersInit ==
    /\ protocol \in [Orders -> {"plain", "ark", "zz", "wuyin", "music"}]
    /\ remote = [o \in Orders |-> "none"]
    /\ order = [o \in Orders |-> [at |-> "new", told |-> <<>>]]
    /\ late = {}
    /\ outcome = [o \in Orders |-> "none"]

Goes(o, stage) == order' = [order EXCEPT ![o].at = stage] /\ UNCHANGED outcome
Ends(o, what)  ==
    order' = [order EXCEPT ![o].at = "over"] /\ outcome' = [outcome EXCEPT ![o] = what]

(* Any request may fail, and one whose context has ended does: no answer, a *)
(* status of 400 or more, or a body that is not what it should be.          *)
RequestFails(o) == Ends(o, "error")

-----------------------------------------------------------------------------
(* What a provider could not take is not sent: too many references or the   *)
(* wrong model for them (Ark), references without a public address (Wuyin), *)
(* no key (Ark, ZZ).  An order that failed for us may have been taken all   *)
(* the same.                                                                *)
Refuses(o) == Ends(o, "refused") /\ UNCHANGED remote
Sends(o) ==
    \/ RequestFails(o) /\ remote' \in {remote, [remote EXCEPT ![o] = "waiting"]}
    \/ o \notin late /\ remote' = [remote EXCEPT ![o] = "waiting"] /\ Goes(o, "poll")

Submits(o, p) == order[o].at = "new" /\ protocol[o] = p /\ UNCHANGED late
SubmitPlain(o) == Submits(o, "plain") /\ Sends(o)
SubmitArk(o)   == Submits(o, "ark") /\ (Refuses(o) \/ Sends(o))
SubmitZZ(o)    == Submits(o, "zz") /\ (Refuses(o) \/ Sends(o))
SubmitWuyin(o) == Submits(o, "wuyin") /\ (Refuses(o) \/ Sends(o))
SubmitVideo(o) == SubmitPlain(o) \/ SubmitArk(o) \/ SubmitZZ(o) \/ SubmitWuyin(o)

RemoteWorks(o) ==
    /\ remote[o] \in {"waiting", "making"}
    /\ \E s \in {"making", "made", "failed", "expired"} \ {remote[o]} :
         remote' = [remote EXCEPT ![o] = s]
    /\ UNCHANGED <<order, late, outcome>>

(* A poll.  A made video comes with addresses, or has one of its own that   *)
(* serves the content; without an address the poll failed, but the plain    *)
(* protocol answers with no video.                                          *)
Polls(o, p, words, Made(_)) ==
    /\ order[o].at = "poll" /\ protocol[o] = p
    /\ \/ RequestFails(o)
       \/ o \notin late /\ \E word \in Says(o, remote[o]) :
            CASE word \in words.failed -> Ends(o, "failed")
              [] word \in words.done   -> Made(o)
              [] OTHER                 -> Goes(o, "sleep")
    /\ UNCHANGED <<remote, late>>

Fetches(o, list) ==
    order' = [order EXCEPT ![o] = [at |-> "fetch", told |-> list]] /\ UNCHANGED outcome
ToldAddress(o, without) ==
    \E list \in Told(o) : IF list = <<>> THEN Ends(o, without) ELSE Fetches(o, list)
OrEmpty(o)  == ToldAddress(o, "empty")
OrError(o)  == ToldAddress(o, "error")
Content(o)  == Goes(o, "content")

PollPlain(o) == Polls(o, "plain", PlainWords, OrEmpty)
PollArk(o)   == Polls(o, "ark", ArkWords, OrError)
PollZZ(o)    == Polls(o, "zz", ZZWords, Content)
PollWuyin(o) == Polls(o, "wuyin", WuyinWords, OrError)
PollVideo(o) == PollPlain(o) \/ PollArk(o) \/ PollZZ(o) \/ PollWuyin(o)

(* Between two polls the context may end; when both are ready either wins.  *)
PollAgain(o) ==
    /\ order[o].at = "sleep"
    /\ Goes(o, "poll") \/ (o \in late /\ Ends(o, "timeout"))
    /\ UNCHANGED <<remote, late>>

(* The content: an empty body is an error of the fetch, except of the       *)
(* endpoint that serves the content itself.                                 *)
FetchBinaryURL(o) ==
    /\ order[o].at = "fetch"
    /\ \/ RequestFails(o)
       \/ o \notin late /\ Ends(o, Picked(order[o].told).of)
    /\ UNCHANGED <<remote, late>>

FetchContent(o) ==
    /\ order[o].at = "content"
    /\ \/ RequestFails(o)
       \/ o \notin late /\ \E body \in {"video", "empty"} : Ends(o, body)
    /\ UNCHANGED <<remote, late>>

(* A soundtrack comes with the answer, or its address does.                 *)
GenerateMusic(o) ==
    /\ order[o].at = "new" /\ protocol[o] = "music"
    /\ \/ RequestFails(o) /\ UNCHANGED remote
       \/ /\ o \notin late /\ remote' = [remote EXCEPT ![o] = "made"]
          /\ (\E body \in {"video", "error"} : Ends(o, body)) \/ Fetches(o, <<Sound>>)
    /\ UNCHANGED late

(* RequestTimeoutSeconds have passed.                                       *)
ContextEnds(o) ==
    /\ o \notin late /\ late' = late \cup {o}
    /\ UNCHANGED <<remote, order, outcome>>

AskProvider(o) ==
    \/ SubmitVideo(o) \/ PollVideo(o) \/ PollAgain(o)
    \/ FetchBinaryURL(o) \/ FetchContent(o) \/ GenerateMusic(o)

ProvidersNext ==
    /\ \E o \in Orders : AskProvider(o) \/ RemoteWorks(o) \/ ContextEnds(o)
    /\ UNCHANGED protocol

(* Contexts end, and a select whose context has ended does not take the     *)
(* timer every time.                                                        *)
ProvidersFairness ==
    \A o \in Orders :
        /\ WF_videoProviders(AskProvider(o) /\ UNCHANGED protocol)
        /\ WF_videoProviders(ContextEnds(o) /\ UNCHANGED protocol)

ProvidersSpec == ProvidersInit /\ [][ProvidersNext]_videoProviders /\ ProvidersFairness

-----------------------------------------------------------------------------
ProvidersTypeOK ==
    /\ remote \in [Orders -> {"none", "waiting", "making", "made", "failed", "expired"}]
    /\ \A o \in Orders :
         /\ order[o].at \in {"new", "poll", "sleep", "fetch", "content", "over"}
         /\ order[o].told \in Told(o) \cup {<<Sound>>}
    /\ late \subseteq Orders
    /\ outcome \in [Orders -> {"none", "video", "cover", "empty", "failed", "refused", "error", "timeout"}]

(* No address of the answer ends like one of a video.                       *)
NoneLikely(list) == \A i \in DOMAIN list : ~list[i].likely

(* Whatever the protocol calls it and whenever it is asked: what the caller *)
(* stores and charges for is of a task its provider has finished, and it is *)
(* the video itself, except that of an answer of Wuyin without any address  *)
(* that ends like one of a video the first is taken, which may be a cover;  *)
(* a task is called failed only when its provider gave it up; and nothing   *)
(* runs at a provider for an order that was never sent (PollVideo,          *)
(* SubmitVideo, extractWuyinVideoURL).                                      *)
ProvidersSound ==
    \A o \in Orders :
        /\ outcome[o] \in {"video", "cover"} => remote[o] = "made"
        /\ outcome[o] = "cover" => protocol[o] = "wuyin" /\ NoneLikely(order[o].told)
        /\ outcome[o] = "failed" => remote[o] \in {"failed", "expired"}
        /\ outcome[o] = "refused" => remote[o] = "none"
        /\ protocol[o] # "music" /\ order[o].at \notin {"new", "over"} => remote[o] # "none"

(* A call ends although the provider may never end its task, or end it with *)
(* a word that is not known here (pollVideoUntilDone): with its context.    *)
EveryOrderEnds == \A o \in Orders : order[o].at = "poll" ~> order[o].at = "over"
=============================================================================
