---------------------------- MODULE MCVideoTasks ----------------------------
(***************************************************************************)
(* The video tasks, the planning assistant, the protocols of providers and *)
(* the centre of models share no state of their models: each behaviour     *)
(* runs one of them, and the others stay in their initial states.          *)
(***************************************************************************)
EXTENDS VideoTasks, VideoConversation, VideoProviders, ModelCenter, TLC

CONSTANTS u1, j1, j2, image1, image2, video1, seed1, seed2, key1, key2, key3

VARIABLE which

MCTypeOf      == (image1 :> "image") @@ (image2 :> "image") @@ (video1 :> "video")
MCSeedRuntime == (seed1 :> image1) @@ (seed2 :> video1)
MCRetold      == [own \in {key1, key2, key3} |-> (key1 :> key1) @@ (key2 :> key2) @@ (key3 :> key2)]
MCOwnerOf     == [j \in {j1, j2} |-> u1]

MCInit ==
    /\ which \in {"tasks", "assistant", "providers", "centre"}
    /\ Init /\ ConversationInit /\ ProvidersInit /\ CenterInit
    /\ which # "providers" => \A o \in Orders : protocol[o] = "plain"

MCNext ==
    /\ UNCHANGED which
    /\ \/ which = "tasks" /\ Next /\ UNCHANGED <<conversation, videoProviders, modelCenter>>
       \/ which = "assistant" /\ ConversationNext /\ UNCHANGED <<vars, videoProviders, modelCenter>>
       \/ which = "providers" /\ ProvidersNext /\ UNCHANGED <<vars, conversation, modelCenter>>
       \/ which = "centre" /\ CenterNext /\ UNCHANGED <<vars, conversation, videoProviders>>

(* Fairness of the part that runs.                                          *)
MCFairness ==
    /\ \A j \in Jobs : WF_vars(which = "tasks" /\ Step(j) /\ UNCHANGED <<conversation, videoProviders>>)
    /\ \A o \in Orders :
         /\ WF_videoProviders(which = "providers" /\ AskProvider(o) /\ UNCHANGED <<protocol, vars, conversation>>)
         /\ WF_videoProviders(which = "providers" /\ ContextEnds(o) /\ UNCHANGED <<protocol, vars, conversation>>)

MCSpec == MCInit /\ [][MCNext]_<<which, vars, conversation, videoProviders, modelCenter>> /\ MCFairness

(* The types of the four parts.                                             *)
VideoTypesOK == VideoTypeOK /\ ConversationTypeOK /\ ProvidersTypeOK /\ CenterTypeOK

(* Every task of ours ends its request, and every order to a provider ends  *)
(* its task (runVideoGenerationTask, pollVideoUntilDone).                    *)
EverythingEnds == EveryTaskEnds /\ EveryOrderEnds
=============================================================================
