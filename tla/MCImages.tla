------------------------------ MODULE MCImages ------------------------------
(***************************************************************************)
(* The queue of image generations; one generation after another as the     *)
(* failover asks its channels for it; and the albums of couples, whose     *)
(* pictures are generations.  They share no state of their models: each    *)
(* behaviour runs one of them, and the others stay in their initial state. *)
(***************************************************************************)
EXTENDS MCImageQueue, ImageFailover, CoupleAlbums

VARIABLE layer

MCInit ==
    /\ layer \in {"queue", "failover", "albums"}
    /\ Init /\ FailoverInit /\ AlbumInit

MCNext ==
    /\ UNCHANGED layer
    /\ \/ layer = "queue" /\ Next /\ UNCHANGED <<imageFailover, coupleAlbums>>
       \/ layer = "failover" /\ FailoverNext /\ UNCHANGED <<vars, coupleAlbums>>
       \/ layer = "albums" /\ AlbumNext /\ UNCHANGED <<vars, imageFailover>>

MCSpec == MCInit /\ [][MCNext]_<<layer, vars, imageFailover, coupleAlbums>>
=============================================================================
