------------------------------ MODULE Pipeline ------------------------------
(***************************************************************************)
(* The life of an ad creative in the ad normalizer.                        *)
(*                                                                         *)
(* A request (a VAST response, one ad break of a VMAP response, or a       *)
(* pre-ingest call) looks every creative up in Valkey, is answered with    *)
(* the playlists found, and leaves behind one goroutine per missing        *)
(* creative.  The goroutine asks Encore for a transcoding job and then     *)
(* records the creative as QUEUED.  Callbacks from Encore and from the     *)
(* packager move the record on to PACKAGING, to COMPLETED, or delete it.   *)
(* Nothing coordinates these actors: they meet only in Valkey.             *)
(***************************************************************************)

CONSTANTS
    Creatives,    \* creative ids, the keys of the cache
    Urls,         \* media URLs, the members of the blacklist
    Ads,          \* what a request may ask for: an ad, or a pre-ingest URL
    CreativeId,   \* the key made from each ad, see getKey and UrlToKey
    MediaUrl,     \* the URL of each ad's best media file
    Requests,     \* runs of findMissingAndDispatchJobs, each used once
    JitPackage,   \* JIT_PACKAGE: are playlists packaged just in time?
    JobResults,   \* how a transcoding job may end, a subset of AllResults
    Faults,       \* what may go wrong, a subset of AllFaults
    NoJob,        \* "no playlist"
    NoAd          \* "no ad is being looked up"

AllResults == {"playable",    \* video in the first output, audio in some
               "silent",      \* no output has audio
               "audioFirst",  \* audio, but the first output has no video
               "failed",
               "cancelled"}   \* by an operator of Encore

AllFaults == {"encore",   \* a call to Encore fails
              "valkey",   \* a command to Valkey fails, applied or not
              "lose",     \* a callback never arrives
              "resend",   \* a callback that was handled arrives again
              "lag",      \* Encore may overtake the dispatching goroutine
              "crash"}    \* the process dies and is restarted

(* The goroutine dispatched by request r for ad a creates at most one      *)
(* Encore job; the pair names the job.                                     *)
Jobs == Requests \X Ads

(* The externalId of an Encore job: the creative it was made for.          *)
ExternalId(j) == CreativeId[j[2]]

ASSUME ConstantsAssumption ==
    /\ JitPackage \in BOOLEAN
    /\ JobResults \subseteq AllResults
    /\ Faults \subseteq AllFaults
    /\ CreativeId \in [Ads -> Creatives]
    /\ MediaUrl \in [Ads -> Urls]
    /\ NoJob \notin Jobs
    /\ NoAd \notin Ads

-----------------------------------------------------------------------------
(* What Valkey holds under a creative's key.  Only the URL of a COMPLETED  *)
(* record is ever used; it is named by the job whose output it plays.      *)

TranscodeInfos ==
    [status : {"NONE", "QUEUED", "PACKAGING", "COMPLETED"},
     url    : Jobs \cup {NoJob}]

Absent       == [status |-> "NONE", url |-> NoJob]
Queued       == [status |-> "QUEUED", url |-> NoJob]
Packaging    == [status |-> "PACKAGING", url |-> NoJob]
Completed(j) == [status |-> "COMPLETED", url |-> j]

(* Mutation: the playlist is listed before the packager has made it.       *)
TranscodeInfoIgnoringJit(j) == Completed(j)

(* Mutation: the status Encore uses is stored as it is.                    *)
TranscodeInfoUnmapped(j) == [status |-> "SUCCESSFUL", url |-> j]

(* The record made from a job that ended well.                             *)
TranscodeInfoFromEncoreJob(j) == IF JitPackage THEN Completed(j) ELSE Packaging

(* A lookup in flight: the ad and the record read for its creative.        *)
Lookups == [ad : Ads, info : TranscodeInfos]
NoLookup == [ad |-> NoAd, info |-> Absent]

CallbackStatus == {"SUCCESSFUL", "FAILED", "PACKAGED", "PACKAGING_FAILED"}
Callback(j, s) == [job |-> j, status |-> s]
Callbacks == [job : Jobs, status : CallbackStatus]

(* What a goroutine handling a SUCCESSFUL callback still has to do.        *)
HandlerStep(j, s) == [job |-> j, step |-> s]
HandlerSteps == [job : Jobs, step : {"undo", "enqueue"}]

VARIABLES
    record,     \* Valkey: the TranscodeInfo of each creative
    queue,      \* Valkey: jobs on the packaging queue
    blacklist,  \* Valkey: the blacklisted media URLs
    phase,      \* per request: "new", "scan", "answered" or "aborted"
    received,   \* per request: the ads of its document
    todo,       \* per request: ads not yet looked up, one for each key
    lookup,     \* per request: the lookup between Get and InBlackList
    found,      \* per request: the playlist found under each key
    missing,    \* per request: ads to dispatch jobs for
    dispatch,   \* per job: where its goroutine is
    handling,   \* steps left to goroutines handling SUCCESSFUL callbacks
    encore,     \* Encore: the state of each job
    packaged,   \* asset store: jobs whose playlist the packager has made
    callbacks   \* callbacks on their way to the normalizer

valkeyVars  == <<record, queue, blacklist>>
requestVars == <<phase, received, todo, lookup, found, missing>>
externalVars == <<encore, packaged, callbacks>>
vars == <<valkeyVars, requestVars, dispatch, handling, externalVars>>

TypeOK ==
    /\ record \in [Creatives -> TranscodeInfos]
    /\ queue \in SUBSET Jobs
    /\ blacklist \in SUBSET Urls
    /\ phase \in [Requests -> {"new", "scan", "answered", "aborted"}]
    /\ received \in [Requests -> SUBSET Ads]
    /\ todo \in [Requests -> SUBSET Ads]
    /\ lookup \in [Requests -> Lookups \cup {NoLookup}]
    /\ found \in [Requests -> [Creatives -> Jobs \cup {NoJob}]]
    /\ missing \in [Requests -> SUBSET Ads]
    /\ dispatch \in [Jobs -> {"none", "create", "record", "over"}]
    /\ handling \in SUBSET HandlerSteps
    /\ encore \in [Jobs -> {"none", "transcoding"} \cup AllResults]
    /\ packaged \in SUBSET Jobs
    /\ callbacks \in SUBSET Callbacks

Init ==
    /\ record = [c \in Creatives |-> Absent]
    /\ queue = {}
    /\ blacklist \in SUBSET Urls
    /\ phase = [r \in Requests |-> "new"]
    /\ received = [r \in Requests |-> {}]
    /\ todo = [r \in Requests |-> {}]
    /\ lookup = [r \in Requests |-> NoLookup]
    /\ found = [r \in Requests |-> [c \in Creatives |-> NoJob]]
    /\ missing = [r \in Requests |-> {}]
    /\ dispatch = [j \in Jobs |-> "none"]
    /\ handling = {}
    /\ encore = [j \in Jobs |-> "none"]
    /\ packaged = {}
    /\ callbacks = {}

-----------------------------------------------------------------------------
(* The store operations.  A command that fails may have been applied: the  *)
(* reply, or a later command of the same operation, is what was lost.      *)

ValkeyMayFail == "valkey" \in Faults

(* A call to Encore (submitJob, GetEncoreJob) may end in an error at any   *)
(* of its steps, also after Encore has done what it was asked.             *)
EncoreMayFail == "encore" \in Faults

SetApplied(c, info) == record' = [record EXCEPT ![c] = info]

SetFails(c, info) ==
    /\ ValkeyMayFail
    /\ SetApplied(c, info) \/ UNCHANGED record

Set(c, info) == SetApplied(c, info) \/ SetFails(c, info)

(* Mutation: a failed job's record is left behind.                         *)
DeleteNothing(c) == UNCHANGED record

Delete(c) == Set(c, Absent)

-----------------------------------------------------------------------------
(* Requests.                                                               *)

(* The creatives of the ads A are kept in a map, so that of the ads with   *)
(* one key the last one is left.                                           *)
GetCreatives(A) ==
    {K \in SUBSET A :
        \A a \in A : \E b \in K :
            /\ CreativeId[b] = CreativeId[a]
            /\ \A d \in K : CreativeId[d] = CreativeId[a] => d = b}

(* The ad server's response, or the pre-ingest list, has been read; a      *)
(* request whose response cannot be had ends before it gets here.          *)
ReceiveRequest(r, A) ==
    /\ phase[r] = "new"
    /\ phase' = [phase EXCEPT ![r] = "scan"]
    /\ received' = [received EXCEPT ![r] = A]
    /\ \E K \in GetCreatives(A) : todo' = [todo EXCEPT ![r] = K]
    /\ UNCHANGED <<valkeyVars, lookup, found, missing, dispatch, handling,
                   externalVars>>

(* One turn of partitionCreatives, up to the answer to Get.  A creative    *)
(* that cannot be read is dropped.                                         *)
GetRecord(r, a) ==
    /\ phase[r] = "scan"
    /\ lookup[r] = NoLookup
    /\ a \in todo[r]
    /\ todo' = [todo EXCEPT ![r] = @ \ {a}]
    /\ \/ lookup' = [lookup EXCEPT ![r] =
                        [ad |-> a, info |-> record[CreativeId[a]]]]
       \/ /\ ValkeyMayFail
          /\ UNCHANGED lookup
    /\ UNCHANGED <<valkeyVars, phase, received, found, missing, dispatch,
                   handling, externalVars>>

(* Mutation: everything that cannot be served is transcoded again.         *)
IsMissingUnlessCompleted(info) == info.status # "COMPLETED"

IsMissing(info) == info.status = "NONE"

Playlist(info) == IF info.status = "COMPLETED" THEN info.url ELSE NoJob

(* Mutation: the blacklist is written but not consulted.                   *)
InBlackListIgnored(u) == FALSE

InBlackList(u) == u \in blacklist

(* The rest of the turn: the blacklist is consulted and the record read    *)
(* before is used.  A lookup that fails counts as "not blacklisted".       *)
CheckBlackList(r) ==
    LET a == lookup[r].ad
        info == lookup[r].info
    IN  /\ phase[r] = "scan"
        /\ lookup[r] # NoLookup
        /\ lookup' = [lookup EXCEPT ![r] = NoLookup]
        /\ \/ /\ InBlackList(MediaUrl[a])
              /\ UNCHANGED <<found, missing>>
           \/ /\ ~InBlackList(MediaUrl[a]) \/ ValkeyMayFail
              /\ found' = [found EXCEPT ![r][CreativeId[a]] = Playlist(info)]
              /\ missing' = [missing EXCEPT ![r] =
                                IF IsMissing(info) THEN @ \cup {a} ELSE @]
        /\ UNCHANGED <<valkeyVars, phase, received, todo, dispatch, handling,
                       externalVars>>

(* Every creative is partitioned: jobs are dispatched for the missing ones *)
(* and the request is answered, see ReplaceMediaFiles.                     *)
Answer(r) ==
    /\ phase[r] = "scan"
    /\ todo[r] = {}
    /\ lookup[r] = NoLookup
    /\ phase' = [phase EXCEPT ![r] = "answered"]
    /\ dispatch' = [j \in Jobs |-> IF j[1] = r /\ j[2] \in missing[r]
                                   THEN "create" ELSE dispatch[j]]
    /\ UNCHANGED <<valkeyVars, received, todo, lookup, found, missing,
                   handling, externalVars>>

(* What the answer lists: every ad whose key has a playlist, also the ads  *)
(* that the map left out.  NoJob means that the ad is taken out.           *)
ReplaceMediaFiles(r) == [a \in received[r] |-> found[r][CreativeId[a]]]

-----------------------------------------------------------------------------
(* The goroutine dispatchJobs starts for a missing creative.               *)

(* The call to Encore.  CreateJob swallows its error, so the goroutine     *)
(* goes on to record the job whether or not Encore has accepted it.        *)
CreateJob(j) ==
    /\ dispatch[j] = "create"
    /\ dispatch' = [dispatch EXCEPT ![j] = "record"]
    /\ \/ encore' = [encore EXCEPT ![j] = "transcoding"]
       \/ /\ EncoreMayFail
          /\ UNCHANGED encore
    /\ UNCHANGED <<valkeyVars, requestVars, handling, packaged, callbacks>>

(* The Set that follows, with no TTL and its error ignored.                *)
RecordQueued(j) ==
    /\ dispatch[j] = "record"
    /\ dispatch' = [dispatch EXCEPT ![j] = "over"]
    /\ Set(ExternalId(j), Queued)
    /\ UNCHANGED <<queue, blacklist, requestVars, handling, externalVars>>

-----------------------------------------------------------------------------
(* Callbacks.  Those that say IN_PROGRESS, CANCELLED or anything unknown   *)
(* change nothing and are left out.                                        *)

Receive(j, s) ==
    /\ Callback(j, s) \in callbacks
    /\ \/ callbacks' = callbacks \ {Callback(j, s)}
       \/ /\ "resend" \in Faults
          /\ UNCHANGED callbacks

HandleTranscodeFailed(j) ==
    /\ Receive(j, "FAILED")
    /\ Delete(ExternalId(j))
    /\ UNCHANGED <<queue, blacklist, requestVars, dispatch, handling, encore,
                   packaged>>

(* Mutation: a job without audio is treated like any other.                *)
HasAudioOutputUnchecked(j) == encore[j] # "audioFirst"

HasAudioOutput(j) == encore[j] # "silent"

(* What is left to do once the record is written.                          *)
AfterSet(j) == IF JitPackage THEN {} ELSE {HandlerStep(j, "enqueue")}

(* The job is fetched from Encore and turned into a record: a finished job *)
(* does not change, so the fetch and the Set that follows are one step.    *)
(* A job whose first output has no video stream makes the handler panic,   *)
(* which net/http recovers from.                                           *)
HandleTranscodeCompleted(j) ==
    LET c == ExternalId(j)
        info == TranscodeInfoFromEncoreJob(j)
    IN  /\ Receive(j, "SUCCESSFUL")
        /\ \/ /\ EncoreMayFail
              /\ UNCHANGED <<record, handling>>
           \/ /\ ~HasAudioOutput(j)
              /\ Delete(c)
              /\ UNCHANGED handling
           \/ /\ HasAudioOutput(j) /\ encore[j] = "audioFirst"
              /\ UNCHANGED <<record, handling>>
           \/ /\ HasAudioOutput(j) /\ encore[j] # "audioFirst"
              /\ \/ /\ SetApplied(c, info)
                    /\ handling' = handling \cup AfterSet(j)
                 \/ /\ SetFails(c, info)
                    /\ handling' = handling \cup {HandlerStep(j, "undo")}
        /\ UNCHANGED <<queue, blacklist, requestVars, dispatch, encore,
                       packaged>>

(* After a failed Set the record is deleted; the handler then carries on.  *)
UndoSet(j) ==
    /\ HandlerStep(j, "undo") \in handling
    /\ handling' = (handling \ {HandlerStep(j, "undo")}) \cup AfterSet(j)
    /\ Delete(ExternalId(j))
    /\ UNCHANGED <<queue, blacklist, requestVars, dispatch, externalVars>>

(* Mutation: the handler returns without queueing the job.                 *)
EnqueueNothing(j) ==
    /\ HandlerStep(j, "enqueue") \in handling
    /\ handling' = handling \ {HandlerStep(j, "enqueue")}
    /\ UNCHANGED <<valkeyVars, requestVars, dispatch, externalVars>>

EnqueuePackagingJob(j) ==
    /\ HandlerStep(j, "enqueue") \in handling
    /\ handling' = handling \ {HandlerStep(j, "enqueue")}
    /\ \/ queue' = queue \cup {j}
       \/ /\ ValkeyMayFail
          /\ UNCHANGED queue
    /\ UNCHANGED <<record, blacklist, requestVars, dispatch, externalVars>>

(* Mutation: the status of the record is left as it was.                   *)
PackagedInfoStatusKept(j) == TranscodeInfoFromEncoreJob(j)

PackagedInfo(j) == Completed(j)

HandlePackagingSuccess(j) ==
    /\ Receive(j, "PACKAGED")
    /\ \/ Set(ExternalId(j), PackagedInfo(j))
       \/ /\ EncoreMayFail
          /\ UNCHANGED record
    /\ UNCHANGED <<queue, blacklist, requestVars, dispatch, handling, encore,
                   packaged>>

HandlePackagingFailure(j) ==
    /\ Receive(j, "PACKAGING_FAILED")
    /\ \/ Delete(ExternalId(j))
       \/ /\ EncoreMayFail
          /\ UNCHANGED record
    /\ UNCHANGED <<queue, blacklist, requestVars, dispatch, handling, encore,
                   packaged>>

-----------------------------------------------------------------------------
(* The blacklist endpoint.  A failed command changes nothing or is applied.*)

(* Mutation: the cache forgets what is blacklisted.                        *)
BlackListAndForget(u) ==
    /\ u \notin blacklist
    /\ blacklist' = blacklist \cup {u}
    /\ record' = [c \in Creatives |->
                     IF \E a \in Ads : CreativeId[a] = c /\ MediaUrl[a] = u THEN Absent
                     ELSE record[c]]
    /\ UNCHANGED <<queue, requestVars, dispatch, handling, externalVars>>

BlackList(u) ==
    /\ u \notin blacklist
    /\ blacklist' = blacklist \cup {u}
    /\ UNCHANGED <<record, queue, requestVars, dispatch, handling,
                   externalVars>>

RemoveFromBlackList(u) ==
    /\ u \in blacklist
    /\ blacklist' = blacklist \ {u}
    /\ UNCHANGED <<record, queue, requestVars, dispatch, handling,
                   externalVars>>

-----------------------------------------------------------------------------
(* The services around the normalizer.                                     *)

(* The callbacks that matter, see HandleEncoreCallback.                    *)
CallbacksAbout(j, result) ==
    CASE result = "failed"    -> {Callback(j, "FAILED")}
      [] result = "cancelled" -> {}
      [] OTHER                -> {Callback(j, "SUCCESSFUL")}

(* Encore ends a job and calls back.  Unless it may overtake, the          *)
(* goroutine that created the job has recorded it long since.              *)
EncoreFinishes(j) ==
    /\ encore[j] = "transcoding"
    /\ "lag" \in Faults \/ dispatch[j] = "over"
    /\ \E result \in JobResults :
          /\ encore' = [encore EXCEPT ![j] = result]
          /\ callbacks' = callbacks \cup CallbacksAbout(j, result)
    /\ UNCHANGED <<valkeyVars, requestVars, dispatch, handling, packaged>>

(* The packager takes a job off the queue, makes its playlist or fails to, *)
(* and calls back.                                                         *)
PackagerFinishes(j) ==
    /\ j \in queue
    /\ queue' = queue \ {j}
    /\ \/ /\ packaged' = packaged \cup {j}
          /\ callbacks' = callbacks \cup {Callback(j, "PACKAGED")}
       \/ /\ callbacks' = callbacks \cup {Callback(j, "PACKAGING_FAILED")}
          /\ UNCHANGED packaged
    /\ UNCHANGED <<record, blacklist, requestVars, dispatch, handling, encore>>

LoseCallback(m) ==
    /\ "lose" \in Faults
    /\ m \in callbacks
    /\ callbacks' = callbacks \ {m}
    /\ UNCHANGED <<valkeyVars, requestVars, dispatch, handling, encore,
                   packaged>>

(* The process dies, taking every goroutine with it, and is restarted.     *)
(* What Valkey, Encore and the asset store hold survives.                  *)
Crash ==
    /\ "crash" \in Faults
    /\ \/ \E r \in Requests : phase[r] = "scan"
       \/ \E j \in Jobs : dispatch[j] \in {"create", "record"}
       \/ handling # {}
    /\ phase' = [r \in Requests |->
                    IF phase[r] = "scan" THEN "aborted" ELSE phase[r]]
    /\ dispatch' = [j \in Jobs |->
                      IF dispatch[j] = "none" THEN "none" ELSE "over"]
    /\ handling' = {}
    /\ UNCHANGED <<valkeyVars, received, todo, lookup, found, missing,
                   externalVars>>

-----------------------------------------------------------------------------
RequestStep(r) ==
    \/ \E a \in Ads : GetRecord(r, a)
    \/ CheckBlackList(r)
    \/ Answer(r)

DispatchStep(j) == CreateJob(j) \/ RecordQueued(j)

CallbackStep(j) ==
    \/ HandleTranscodeFailed(j)
    \/ HandleTranscodeCompleted(j)
    \/ HandlePackagingSuccess(j)
    \/ HandlePackagingFailure(j)

HandlerContinues(j) == UndoSet(j) \/ EnqueuePackagingJob(j)

Next ==
    \/ \E r \in Requests : \/ \E A \in SUBSET Ads : ReceiveRequest(r, A)
                           \/ RequestStep(r)
    \/ \E j \in Jobs : \/ DispatchStep(j)
                       \/ CallbackStep(j)
                       \/ HandlerContinues(j)
                       \/ EncoreFinishes(j)
                       \/ PackagerFinishes(j)
    \/ \E u \in Urls : BlackList(u) \/ RemoveFromBlackList(u)
    \/ \E m \in callbacks : LoseCallback(m)
    \/ Crash

Spec == Init /\ [][Next]_vars

(* Goroutines run, callbacks that are not lost arrive, and Encore and the  *)
(* packager finish what they were given.                                   *)
Fairness ==
    /\ \A r \in Requests : WF_vars(RequestStep(r))
    /\ \A j \in Jobs : /\ WF_vars(DispatchStep(j))
                       /\ WF_vars(HandleTranscodeFailed(j))
                       /\ WF_vars(HandleTranscodeCompleted(j))
                       /\ WF_vars(HandlePackagingSuccess(j))
                       /\ WF_vars(HandlePackagingFailure(j))
                       /\ WF_vars(HandlerContinues(j))
                       /\ WF_vars(EncoreFinishes(j))
                       /\ WF_vars(PackagerFinishes(j))

FairSpec == Spec /\ Fairness

=============================================================================
