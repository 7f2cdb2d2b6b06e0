-------------------------- MODULE PipelineHistory ---------------------------
(***************************************************************************)
(* The pipeline watched by history variables, for the properties that      *)
(* relate an answer to everything that happened since its request arrived. *)
(***************************************************************************)
EXTENDS PipelineProperties

VARIABLES
    listed,    \* per request: blacklisted ever since the request arrived
    known      \* per request: with a record ever since the request arrived

historyVars == <<listed, known>>

Recorded == {c \in Creatives : record[c].status # "NONE"}

Watch(history, now) ==
    [r \in Requests |-> IF phase'[r] = "scan"
                        THEN IF phase[r] = "new" THEN now
                                                 ELSE history[r] \cap now
                        ELSE history[r]]

HistoryInit ==
    /\ Init
    /\ listed = [r \in Requests |-> {}]
    /\ known = [r \in Requests |-> {}]

HistoryNext ==
    /\ Next
    /\ listed' = Watch(listed, blacklist')
    /\ known' = Watch(known, Recorded')

HistorySpec == HistoryInit /\ [][HistoryNext]_<<vars, historyVars>>

-----------------------------------------------------------------------------
(* "Whenever a VAST or VMAP response is provided by the ad server, the     *)
(* normalizer will filter out ads with a media file present in the         *)
(* blacklist" (readme.md:113): an ad whose media file was blacklisted for  *)
(* as long as the request was being processed is not in the answer.        *)
BlacklistHonoured ==
    \A r \in Requests : phase[r] = "answered" =>
        \A a \in received[r] :
            MediaUrl[a] \in listed[r] => ReplaceMediaFiles(r)[a] = NoJob

(* What partitionCreatives and ReplaceMediaFiles do keep of it, however    *)
(* requests and the blacklist endpoint interleave: no job is dispatched    *)
(* for a media file blacklisted for as long as the request was being       *)
(* processed, and the ad is in the answer only if the document has another *)
(* ad of the same key, whose own file was not blacklisted all the time.    *)
BlacklistHonouredByKey ==
    \A r \in Requests : phase[r] = "answered" =>
        \A a \in received[r] : MediaUrl[a] \in listed[r] =>
            /\ a \notin missing[r]
            /\ ReplaceMediaFiles(r)[a] # NoJob =>
                  \E b \in received[r] : /\ CreativeId[b] = CreativeId[a]
                                         /\ MediaUrl[b] \notin listed[r]

(* A request dispatches no job for a creative that had a record for as     *)
(* long as the request was being processed: whatever else they do, two     *)
(* requests can duplicate a job only while the first is being dispatched   *)
(* (partitionCreatives against the Set in dispatchJobs).                   *)
NoDuplicateOnceRecorded ==
    \A r \in Requests : \A a \in missing[r] : CreativeId[a] \notin known[r]

=============================================================================
