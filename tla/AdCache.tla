------------------------------- MODULE AdCache -------------------------------
(***************************************************************************)
(* What the normalizer promises to those who request ads, without the      *)
(* goroutines, callbacks and services it takes.  Playlists get made; the   *)
(* cache holds at most one of a creative's playlists, and may lose it at   *)
(* any time; a request is answered with playlists that were in the cache   *)
(* at some moment while it was open.                                       *)
(***************************************************************************)
CONSTANTS Requests, Creatives, Playlists, NoPlaylist

VARIABLES
    made,    \* the playlists made for each creative
    cache,   \* the playlist cached for each creative, or NoPlaylist
    state,   \* per request: "new", "open" or "closed"
    view     \* per request: the playlist seen of each creative, or NoPlaylist

vars == <<made, cache, state, view>>

Init ==
    /\ made = [c \in Creatives |-> {}]
    /\ cache = [c \in Creatives |-> NoPlaylist]
    /\ state = [r \in Requests |-> "new"]
    /\ view = [r \in Requests |-> [c \in Creatives |-> NoPlaylist]]

Make(c, p) ==
    /\ made' = [made EXCEPT ![c] = @ \cup {p}]
    /\ UNCHANGED <<cache, state, view>>

Publish(c, p) ==
    /\ p \in made[c]
    /\ cache' = [cache EXCEPT ![c] = p]
    /\ UNCHANGED <<made, state, view>>

Withdraw(c) ==
    /\ cache' = [cache EXCEPT ![c] = NoPlaylist]
    /\ UNCHANGED <<made, state, view>>

Open(r) ==
    /\ state[r] = "new"
    /\ state' = [state EXCEPT ![r] = "open"]
    /\ UNCHANGED <<made, cache, view>>

(* What is seen is what is cached at this moment.                          *)
Look(r, c) ==
    /\ state[r] = "open"
    /\ view' = [view EXCEPT ![r][c] = cache[c]]
    /\ UNCHANGED <<made, cache, state>>

(* What was seen is left out of the answer.                                *)
Drop(r, c) ==
    /\ state[r] = "open"
    /\ view' = [view EXCEPT ![r][c] = NoPlaylist]
    /\ UNCHANGED <<made, cache, state>>

(* Open requests are answered, or abandoned together in a crash.           *)
Close(R) ==
    /\ \A r \in R : state[r] = "open"
    /\ state' = [r \in Requests |-> IF r \in R THEN "closed" ELSE state[r]]
    /\ UNCHANGED <<made, cache, view>>

Next ==
    \/ \E c \in Creatives : \/ Withdraw(c)
                            \/ \E p \in Playlists : Make(c, p) \/ Publish(c, p)
    \/ \E r \in Requests : \/ Open(r)
                           \/ \E c \in Creatives : Look(r, c) \/ Drop(r, c)
    \/ \E R \in SUBSET Requests : Close(R)

Spec == Init /\ [][Next]_vars
=============================================================================
