--------------------------- MODULE VideoConversation ---------------------------
(***************************************************************************)
(* The planning assistant of a video conversation.  A message carries an   *)
(* idempotency key; its handler looks the key up, counts the messages of   *)
(* the last minute, inserts the message as pending, asks the assistant and *)
(* stores the reply.  Handlers of the same conversation overlap, and each  *)
(* statement is a step of its own.  Messages of both roles are rows of one *)
(* table with a unique index on conversation and key, and a reply has the  *)
(* empty key.  With Failures, a statement may fail and a handler stop.     *)
(***************************************************************************)
EXTENDS Integers, FiniteSets

CONSTANTS
    Keys,       \* idempotency keys that clients use
    Contents,   \* contents of messages, as their fingerprints
    Calls,      \* calls of handleCreateVideoConversationMessage
    PerMinute,  \* videoAssistantRequestsPerMinute
    NoContent,
    Failures    \* whether statements fail and processes stop

ASSUME ConversationConstants ==
    PerMinute \in Nat /\ Keys # {} /\ NoContent \notin Contents /\ Failures \in BOOLEAN

VARIABLES
    message,    \* the user's messages, by key
    replies,    \* the messages of the assistant
    call,       \* the handlers
    asked,      \* how often the assistant was asked about each key
    minute,     \* messages of the last minute
    title       \* the title is still the one of a new conversation

conversation == <<message, replies, call, asked, minute, title>>

NoMessage == [status |-> "none", content |-> NoContent]
Idle      == [pc |-> "idle", key |-> CHOOSE k \in Keys : TRUE, content |-> NoContent]
Answers   == {"replayed", "conflict", "limited", "unavailable", "lost", "created"}

ConversationInit ==
    /\ message = [k \in Keys |-> NoMessage]
    /\ replies = {}
    /\ call = [c \in Calls |-> Idle]
    /\ asked = [k \in Keys |-> 0]
    /\ minute = 0
    /\ title = "new"

Becomes(c, s)  == call' = [call EXCEPT ![c].pc = s]
Status(k, s)   == message' = [message EXCEPT ![k].status = s]

(* The key is looked up and the minute counted, each in a statement; when   *)
(* one fails, the handler goes on as if it had found nothing.               *)
Found(k, text) ==
    CASE message[k].status = "none" -> "fresh"
      [] message[k].content # text  -> "conflict"
      [] OTHER                      -> "replayed"

Look(c, k, text) ==
    /\ call[c].pc = "idle"
    /\ \E s \in {Found(k, text)} \cup (IF Failures THEN {"fresh"} ELSE {}) :
         call' = [call EXCEPT ![c] = [pc |-> s, key |-> k, content |-> text]]
    /\ UNCHANGED <<message, replies, asked, minute, title>>

CountMinute(c) ==
    /\ call[c].pc = "fresh"
    /\ \/ Becomes(c, IF minute < PerMinute THEN "counted" ELSE "limited")
       \/ Failures /\ Becomes(c, "counted")
    /\ UNCHANGED <<message, replies, asked, minute, title>>

(* Mutant: the index does not cover the key.                                *)
VacantAlways(k) == k \in Keys

(* The unique index refuses the second of two messages with one key.        *)
Vacant(k) == message[k].status = "none"

Insert(c) ==
    LET k == call[c].key
    IN  /\ call[c].pc = "counted"
        /\ IF Vacant(k)
           THEN /\ message' = [message EXCEPT ![k] = [status |-> "pending", content |-> call[c].content]]
                /\ minute' = minute + 1 /\ asked' = [asked EXCEPT ![k] = @ + 1]
                /\ Becomes(c, "asking")
           ELSE Becomes(c, "lost") /\ UNCHANGED <<message, minute, asked>>
        /\ UNCHANGED <<replies, title>>

(* The assistant answers, or its failure is noted on the message.           *)
Ask(c) ==
    /\ call[c].pc = "asking"
    /\ \/ Becomes(c, "saving") /\ UNCHANGED message
       \/ Becomes(c, "unavailable") /\ Status(call[c].key, "failed")
    /\ UNCHANGED <<replies, asked, minute, title>>

(* Reply and title in one transaction; the empty key of a reply collides    *)
(* with that of an earlier one.                                             *)
ReplyFits == replies = {}

SaveReply(c) ==
    /\ call[c].pc = "saving"
    /\ IF ReplyFits
       THEN /\ replies' = replies \cup {call[c].key}
            /\ title' = "set" /\ Becomes(c, "marking")
       ELSE Becomes(c, "lost") /\ UNCHANGED <<replies, title>>
    /\ UNCHANGED <<message, asked, minute>>

MarkAnswered(c) ==
    /\ call[c].pc = "marking"
    /\ Status(call[c].key, "answered") /\ Becomes(c, "created")
    /\ UNCHANGED <<replies, asked, minute, title>>

(* Where a failing write takes a handler: the answer does not depend on the *)
(* status, whose errors are ignored.  A stop of the process ends it.        *)
WithoutWrite(s) ==
    CASE s = "asking" -> {"unavailable", "lost"} [] s = "marking" -> {"created", "lost"} [] OTHER -> {"lost"}

CallFails(c) ==
    /\ Failures /\ call[c].pc \in {"fresh", "counted", "asking", "saving", "marking"}
    /\ \E s \in WithoutWrite(call[c].pc) : Becomes(c, s)
    /\ UNCHANGED <<message, replies, asked, minute, title>>

(* The owner renames the conversation; the first reply renames a new one.   *)
Rename ==
    /\ title = "new" /\ title' = "set"
    /\ UNCHANGED <<message, replies, call, asked, minute>>

MinutePasses ==
    /\ minute > 0 /\ minute' = 0
    /\ UNCHANGED <<message, replies, call, asked, title>>

Call(c) ==
    \/ \E k \in Keys, text \in Contents : Look(c, k, text)
    \/ CountMinute(c) \/ Insert(c) \/ Ask(c) \/ SaveReply(c) \/ MarkAnswered(c) \/ CallFails(c)

ConversationNext == MinutePasses \/ Rename \/ \E c \in Calls : Call(c)

ConversationSpec == ConversationInit /\ [][ConversationNext]_conversation

-----------------------------------------------------------------------------
ConversationTypeOK ==
    /\ message \in [Keys -> [status : {"none", "pending", "failed", "answered"},
                             content : Contents \cup {NoContent}]]
    /\ replies \subseteq Keys /\ asked \in [Keys -> Nat] /\ minute \in Nat
    /\ call \in [Calls -> [pc : Answers \cup {"idle", "fresh", "counted", "asking", "saving", "marking"},
                           key : Keys, content : Contents \cup {NoContent}]]

(* However its calls are repeated and overlap, whatever fails of them, a    *)
(* message is put to the assistant at most once, and an answered message    *)
(* has its reply; a handler serves the content that was stored              *)
(* (handleCreateVideoConversationMessage).                                  *)
AskedOnce ==
    \A k \in Keys :
        /\ asked[k] <= 1
        /\ message[k].status = "answered" => k \in replies
        /\ \A c \in Calls :
             call[c].key = k /\ call[c].pc \in {"asking", "saving", "marking", "created"}
                 => call[c].content = message[k].content

(* A message whose handler is over is answered or failed: it does not stay  *)
(* pending, for the client would show it as being answered for ever.        *)
NothingLeftPending ==
    \A k \in Keys :
        message[k].status = "pending" =>
            \E c \in Calls : call[c].key = k /\ call[c].pc \in {"asking", "saving", "marking"}
=============================================================================
