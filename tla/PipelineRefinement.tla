------------------------- MODULE PipelineRefinement -------------------------
(* The pipeline implements AdCache.                                        *)
EXTENDS PipelineProperties

madeBar ==
    [c \in Creatives |-> {j \in Jobs : ExternalId(j) = c /\ Produced(j)}]

cacheBar == [c \in Creatives |-> Playlist(record[c])]

stateBar ==
    [r \in Requests |-> CASE phase[r] = "new" -> "new"
                          [] phase[r] = "scan" -> "open"
                          [] OTHER -> "closed"]

(* A request has seen what it decided to serve, and what it has read but   *)
(* not yet held against the blacklist.                                     *)
viewBar ==
    [r \in Requests |-> [c \in Creatives |->
        IF lookup[r] # NoLookup /\ CreativeId[lookup[r].ad] = c
        THEN Playlist(lookup[r].info) ELSE found[r][c]]]

Promise == INSTANCE AdCache WITH
    Playlists <- Jobs, NoPlaylist <- NoJob,
    made <- madeBar, cache <- cacheBar, state <- stateBar, view <- viewBar

(* Every answer lists only playlists that were made for the creative asked *)
(* for and were in the cache at some moment while the request was being    *)
(* processed, whatever fails meanwhile.                                    *)
ImplementsAdCache == Promise!Spec
=============================================================================
