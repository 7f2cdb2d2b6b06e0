----------------------------- MODULE MCPipeline -----------------------------
(* Small instances of the pipeline for TLC.                                *)
EXTENDS PipelineProperties, TLC

(* KEY_FIELD=url: every media URL is an ad and a cache key of its own.     *)
OwnKey == [a \in Ads |-> a]

(* Ads whose keys collide, as with KEY_FIELD=resolution.                   *)
SharedKey == [a \in Ads |-> CHOOSE c \in Creatives : TRUE]

(* Three ads: one has a key of its own, the others share the other key;    *)
(* one has a media file of its own, and it is one of those that share.     *)
Lone == CHOOSE a \in Ads : TRUE
LoneFile == CHOOSE a \in Ads : a # Lone
PairedKey == LET c == CHOOSE c \in Creatives : TRUE
             IN  [a \in Ads |-> IF a = Lone THEN c ELSE CHOOSE d \in Creatives : d # c]
PairedUrl == LET u == CHOOSE u \in Urls : TRUE
             IN  [a \in Ads |-> IF a = LoneFile THEN u ELSE CHOOSE v \in Urls : v # u]

(* Requests differ only by their names.  Used without liveness only.       *)
Symmetry == Permutations(Requests)
=============================================================================
