------------------------- MODULE PipelineProperties -------------------------
(* What the creative pipeline must and must not do.                        *)
EXTENDS Pipeline

(* The playlist of job j can be played: just-in-time packaging needs the   *)
(* transcoded output only, otherwise the packager must have made it.       *)
Produced(j) == IF JitPackage THEN encore[j] = "playable" ELSE j \in packaged

(* c's record is owed to a job that has not come to an end.                *)
InProgress(c) == record[c].status \in {"QUEUED", "PACKAGING"}

-----------------------------------------------------------------------------
(* Safety.                                                                 *)

(* An answer lists only playlists that have been produced, and never one   *)
(* made for another key than the ad's, although the record was written and *)
(* read by unrelated handlers (partitionCreatives, ReplaceMediaFiles,      *)
(* HandlePackagingSuccess and handleTranscodeCompleted).                   *)
ServedOnlyProduced ==
    \A r \in Requests : \A a \in received[r] :
        LET p == ReplaceMediaFiles(r)[a] IN
        p # NoJob => ExternalId(p) = CreativeId[a] /\ Produced(p)

(* The packager is only given jobs it can package: finished, with audio    *)
(* and with video in the first output; and none at all under just-in-time  *)
(* packaging (handleTranscodeCompleted).                                   *)
PackagingJobsReady ==
    \A j \in queue : encore[j] = "playable" /\ ~JitPackage

(* Somebody may still write to c: a goroutine that has not recorded its    *)
(* job yet, a handler undoing its own failed Set, or the handler of a      *)
(* callback, other than the one that says again that c's playlist is there.*)
Straggler(c) ==
    \E j \in Jobs :
        /\ ExternalId(j) = c
        /\ \/ dispatch[j] = "record"
           \/ HandlerStep(j, "undo") \in handling
           \/ \E m \in callbacks :
                 /\ m.job = j
                 /\ j = record[c].url => m.status # "PACKAGED"

(* A playlist in the cache stays there unless such a straggler of the same *)
(* creative takes it away, one of another job or of a callback that came   *)
(* twice: no request, no blacklisting, no queue and no other creative ever *)
(* costs a creative its playlist.                                          *)
CompletedLostOnlyToStraggler ==
    [][\A c \in Creatives :
          record[c].status = "COMPLETED" /\ record'[c].status # "COMPLETED"
             => Straggler(c)]_vars

(* Nothing is at work on creative c any more.                              *)
Quiet(c) ==
    \A j \in Jobs : ExternalId(j) = c =>
        /\ dispatch[j] \in {"none", "over"}
        /\ encore[j] # "transcoding"
        /\ j \notin queue
        /\ \A m \in callbacks : m.job # j
        /\ \A h \in handling : h.job # j

(* "returns the master playlist URLs for the ad assets [...] if they       *)
(* exist" (readme.md:39): once all work on a creative is over, a creative  *)
(* whose only job was transcoded and packaged is in the cache.             *)
ListedIfItExists ==
    \A c \in Creatives :
        /\ Quiet(c)
        /\ \E j \in Jobs : ExternalId(j) = c /\ Produced(j)
        /\ \A j \in Jobs : ExternalId(j) = c /\ encore[j] # "none" => Produced(j)
        => record[c].status = "COMPLETED"

(* The same, however many jobs the creative had: a playlist that has been  *)
(* made is not lost because another job for the same creative failed       *)
(* (readme.md:39; handleTranscodeFailed and HandlePackagingFailure).       *)
ListedIfAnyExists ==
    \A c \in Creatives :
        Quiet(c) /\ (\E j \in Jobs : ExternalId(j) = c /\ Produced(j))
        => record[c].status = "COMPLETED"

(* "it creates a transcoding job in SVT Encore" (readme.md:39), and        *)
(* "failed to create encore job" ends the goroutine (api.go:467): a record *)
(* that says QUEUED belongs to a job Encore has accepted.                  *)
QueuedMeansSubmitted ==
    \A c \in Creatives : record[c].status = "QUEUED" =>
        \E j \in Jobs : ExternalId(j) = c /\ encore[j] # "none"

-----------------------------------------------------------------------------
(* Liveness, under FairSpec.                                               *)

(* A creative does not stay in progress for ever: its record becomes       *)
(* COMPLETED or goes away, so that a later request serves or retries it    *)
(* (HandleEncoreCallback, HandlePackagingSuccess, HandlePackagingFailure). *)
(* Not so after a cancelled job (encore.go:53), or one without video first *)
(* (structure.go:41): these leave it QUEUED, and its run has none.         *)
InProgressEnds == \A c \in Creatives : InProgress(c) ~> ~InProgress(c)

(* A job that ended well is not forgotten between the Encore callback, the *)
(* packaging queue and the packager callback: its playlist gets into the   *)
(* cache unless the packager gives up.                                     *)
TranscodedIsCached ==
    \A j \in Jobs :
        Callback(j, "SUCCESSFUL") \in callbacks /\ encore[j] = "playable" ~>
            \/ record[ExternalId(j)] = Completed(j)
            \/ Callback(j, "PACKAGING_FAILED") \in callbacks

=============================================================================
