----------------------------- MODULE MCPlatform -----------------------------
(***************************************************************************)
(* The accounts, the studio of commerce, and the three parts of a novel    *)
(* video project share no state of their models: each behaviour runs one   *)
(* of them, and the others stay in their initial states.                   *)
(***************************************************************************)
EXTENDS Accounts, CommerceStudio,
        NovelAssets, NovelRender, NovelImages

CONSTANTS c1, c2, c3, b1, b2

VARIABLE part

MCProductOf == [s \in Skus |-> 1]
MCSkuOf     == [a \in Pictures |-> 1]
MCRequests  == {[spec |-> 1, skus |-> {1}, pictures |-> {}],
                [spec |-> 1, skus |-> {1, 2}, pictures |-> Pictures]}
MCBatchOf   == [c \in {c1, c2, c3} |-> IF c = c3 THEN b2 ELSE b1]
MCShotOf    == [c \in {c1, c2, c3} |-> 1]

business == <<accounts, commerceStudio>>
creation == <<novelAssets, novelRender, novelImages>>

MCInit ==
    /\ part \in {"accounts", "studio", "assets", "render", "images"}
    /\ AccountsInit /\ StudioInit
    /\ AssetsInit /\ RenderInit /\ ImagesInit
    /\ part # "accounts" => LiveUsers = {}

MCNext ==
    /\ UNCHANGED part
    /\ \/ /\ UNCHANGED creation
          /\ \/ part = "accounts" /\ AccountsNext /\ UNCHANGED commerceStudio
             \/ part = "studio" /\ StudioNext /\ UNCHANGED accounts
       \/ /\ UNCHANGED business
          /\ \/ part = "assets" /\ AssetsNext /\ UNCHANGED <<novelRender, novelImages>>
             \/ part = "render" /\ RenderNext /\ UNCHANGED <<novelAssets, novelImages>>
             \/ part = "images" /\ ImagesNext /\ UNCHANGED <<novelAssets, novelRender>>

MCSpec == MCInit /\ [][MCNext]_<<part, business, creation>>

(* The types of the part that runs; of the others, that rest in their      *)
(* initial states, they were seen in the behaviours that run them.         *)
PlatformTypesOK ==
    /\ part = "accounts" => AccountsTypeOK
    /\ part = "studio"   => StudioTypeOK
    /\ part = "assets"   => AssetsTypeOK
    /\ part = "render"   => RenderTypeOK
    /\ part = "images"   => ImagesTypeOK
=============================================================================
