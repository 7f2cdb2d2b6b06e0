---------------------------- MODULE AdDocuments -----------------------------
(***************************************************************************)
(* What becomes of the documents: from the ad server's response over the   *)
(* cache and the Encore job back to the response to the player.            *)
(*                                                                         *)
(* Module Pipeline follows goroutines command by command and knows an ad   *)
(* only by name.  Here a document has ads, creatives and media files, a    *)
(* job has outputs and a record has contents, and every handler is one     *)
(* step; what remains concurrent are requests, callbacks, the goroutines   *)
(* of dispatchJobs and the ad breaks of a VMAP document, one goroutine     *)
(* each.  Nothing is lost and no command fails.                            *)
(***************************************************************************)
EXTENDS VastTransform, JobData, TLC

CONSTANTS
    Requests,
    VastDocuments,  \* what the ad server may respond to a VAST request
    VmapDocuments,  \* and to a VMAP request: sequences of VAST documents,
                    \* the ad breaks; those without one are left out
    Fillers,      \* the filler query parameter, "" for none
    PreIngests,   \* lists of media URLs to pre-ingest
    Reports,      \* outputs Encore may report for a job that ended well
    Blacklisted,  \* media URLs that get blacklisted now and then
    Keys,         \* what keys can be made of all these
    KeyFields,    \* settings of KEY_FIELD
    JitPackages,  \* settings of JIT_PACKAGE
    MaxJobs       \* bound: how many jobs Encore accepts

(* The ad breaks of the documents received; a VAST document is one, with   *)
(* the filler appended if one is asked for.                                *)
WithFiller(ads, filler) == IF filler = "" THEN ads ELSE Append(ads, CreateFillerAd(filler))

AdBreaks ==
    {WithFiller(ads, filler) : ads \in VastDocuments, filler \in Fillers}
    \cup UNION {ToSet(breaks) : breaks \in VmapDocuments}

ASSUME DocumentsAssumption ==
    /\ \A ads \in AdBreaks : IsDocument(ads)
    /\ \A breaks \in VmapDocuments : IsSequence(breaks)
    /\ \A list \in PreIngests : IsSequence(list)
    /\ Reports \subseteq Outputs

(* There is a record, if an empty one, under each key that can be made.    *)
ASSUME KeysAssumption ==
    /\ \A f \in KeyFields : \A ads \in AdBreaks : \A i \in DOMAIN ads :
          CanKey(f, ads[i]) => GetKey(f, ads[i]) \in Keys
    /\ \A list \in PreIngests : \A url \in ToSet(list) : UrlToKey(url) \in Keys

VARIABLES
    keyField, jitPackage,  \* the settings, read once
    record,       \* Valkey: the TranscodeInfo of each key
    blacklist,    \* Valkey: the blacklisted media URLs
    jobs,         \* Encore: all jobs, in the order they were created
    dispatching,  \* goroutines of dispatchJobs that have not run yet
    request       \* per request: its document and how far it has got

config == <<keyField, jitPackage>>
vars == <<config, record, blacklist, jobs, dispatching, request>>

Absent == [status |-> "NONE", url |-> "", source |-> "",
           aspectRatio |-> <<>>, frameRates |-> <<>>]

Queued(url) == [Absent EXCEPT !.status = "QUEUED", !.url = url, !.source = url]

(* The playlist made from the n-th job.                                    *)
Playlist(n) == "playlist " \o ToString(n)

NoFigures == [ingested |-> 0, served |-> 0, broken |-> 0]

NewRequest == [phase |-> "new", kind |-> "vast", fetched |-> <<>>,
               breaks |-> <<>>, open |-> {}, figures |-> NoFigures]

TypeOK ==
    /\ keyField \in KeyFields /\ jitPackage \in JitPackages
    /\ \A k \in Keys :
          /\ record[k].status \in {"NONE", "QUEUED", "PACKAGING", "COMPLETED"}
          /\ record[k].frameRates \in Seq(Nat)
    /\ DOMAIN record = Keys
    /\ blacklist \subseteq Blacklisted
    /\ \A n \in DOMAIN jobs :
          /\ jobs[n].key \in Keys
          /\ jobs[n].outputs \in Reports \cup {<<>>}
          /\ jobs[n].state \in {"transcoding", "packaging", "packaged", "over"}
    /\ \A d \in dispatching : d.key \in Keys /\ d.request \in Requests
    /\ \A r \in Requests :
          /\ request[r].phase \in {"new", "rewriting", "answered", "failed", "lost"}
          /\ request[r].kind \in {"vast", "vmap", "preingest"}
          /\ request[r].open \subseteq DOMAIN request[r].breaks
          /\ DOMAIN request[r].fetched = DOMAIN request[r].breaks

Init ==
    /\ keyField \in KeyFields /\ jitPackage \in JitPackages
    /\ record = [k \in Keys |-> Absent]
    /\ blacklist = {}
    /\ jobs = <<>>
    /\ dispatching = {}
    /\ request = [r \in Requests |-> NewRequest]

-----------------------------------------------------------------------------
(* Requests.                                                               *)

(* Mutation: it is the key that is held against the blacklist.             *)
AllowedByKey(creatives) == DOMAIN creatives \ blacklist

(* partitionCreatives, for a map from keys to media URLs.                  *)
Allowed(creatives) == {k \in DOMAIN creatives : creatives[k] \notin blacklist}

Found(creatives) ==
    [k \in {c \in Allowed(creatives) : record[c].status = "COMPLETED"} |-> record[k].url]

MissingKeys(creatives) == {k \in Allowed(creatives) : record[k].status = "NONE"}

(* Mutation: creatives in progress are counted as served.                  *)
FiguresCountingAll(creatives) ==
    [ingested |-> Cardinality(MissingKeys(creatives)),
     served   |-> Cardinality(Allowed(creatives)) - Cardinality(MissingKeys(creatives)),
     broken   |-> Cardinality(DOMAIN creatives \ Allowed(creatives))]

(* The figures of the KPI report, which a VMAP document makes per ad break.*)
Figures(creatives) ==
    [ingested |-> Cardinality(MissingKeys(creatives)),
     served   |-> Cardinality(DOMAIN Found(creatives)),
     broken   |-> Cardinality(DOMAIN creatives \ Allowed(creatives))]

AddFigures(f, g) == [x \in DOMAIN f |-> f[x] + g[x]]

(* dispatchJobs: a goroutine for each missing creative.                    *)
DispatchJobs(r, b, creatives) ==
    dispatching' = dispatching \cup
        {[request |-> r, break |-> b, key |-> k, input |-> creatives[k]] :
            k \in MissingKeys(creatives)}

(* The ad server's response arrives; a VAST request may ask for a filler.  *)
Receive(r, kind, breaks) ==
    /\ request[r].phase = "new"
    /\ request' = [request EXCEPT ![r] =
          [NewRequest EXCEPT !.phase = "rewriting", !.kind = kind, !.fetched = breaks,
                             !.breaks = breaks, !.open = DOMAIN breaks]]
    /\ UNCHANGED <<config, record, blacklist, jobs, dispatching>>

HandleVast(r, ads, filler) == Receive(r, "vast", <<WithFiller(ads, filler)>>)

HandleVmap(r, breaks) == Receive(r, "vmap", breaks)

(* No response, one that is no 200 or one that cannot be decoded.          *)
AdServerFails(r) ==
    /\ request[r].phase = "new"
    /\ request' = [request EXCEPT ![r].phase = "failed"]
    /\ UNCHANGED <<config, record, blacklist, jobs, dispatching>>

(* No ad of the break makes its rewriting panic: before anything is        *)
(* dispatched, or when the playlists found are put in.                     *)
Keyable(ads) == \A i \in DOMAIN ads : CanKey(keyField, ads[i])
Rewritable(ads) ==
    Keyable(ads) /\ CanReplace(ads, Found(GetCreatives(ads, keyField)), keyField)

(* findMissingAndDispatchJobs for ad break b, by a goroutine of its own if *)
(* the document is a VMAP.                                                 *)
FindMissingAndDispatchJobs(r, b) ==
    LET ads == request[r].breaks[b]
        creatives == GetCreatives(ads, keyField)
    IN /\ request[r].phase = "rewriting" /\ b \in request[r].open
       /\ Rewritable(ads)
       /\ DispatchJobs(r, b, creatives)
       /\ request' = [request EXCEPT
             ![r].breaks[b] = ReplaceMediaFiles(ads, Found(creatives), keyField),
             ![r].open = @ \ {b},
             ![r].figures = AddFigures(@, Figures(creatives))]
       /\ UNCHANGED <<config, record, blacklist, jobs>>

(* A panic.  The recovery middleware turns that of a VAST request into a   *)
(* response; the goroutine of an ad break has no such protection, and with *)
(* the process all requests and goroutines are lost.                       *)
FindMissingPanics(r, b) ==
    LET ads == request[r].breaks[b]
    IN /\ request[r].phase = "rewriting" /\ b \in request[r].open
       /\ ~Rewritable(ads)
       /\ IF request[r].kind = "vmap"
          THEN /\ request' = [q \in Requests |->
                                IF request[q].phase = "rewriting"
                                THEN [request[q] EXCEPT !.phase = "lost"] ELSE request[q]]
               /\ dispatching' = {}
          ELSE /\ request' = [request EXCEPT ![r].phase = "failed"]
               /\ IF Keyable(ads) THEN DispatchJobs(r, b, GetCreatives(ads, keyField))
                                  ELSE UNCHANGED dispatching
       /\ UNCHANGED <<config, record, blacklist, jobs>>

(* Mutation: processVmap does not wait for its goroutines.                 *)
AllBreaksDoneUnchecked(r) == Cardinality(request[r].open) <= 1

(* The WaitGroup of processVmap.                                           *)
AllBreaksDone(r) == request[r].open = {}

Answer(r) ==
    /\ request[r].phase = "rewriting"
    /\ AllBreaksDone(r)
    /\ request' = [request EXCEPT ![r].phase = "answered"]
    /\ UNCHANGED <<config, record, blacklist, jobs, dispatching>>

(* HandlePreIngestCreatives, where keys are made of URLs in any case.  It  *)
(* makes no KPI report; the response says how many are missing.            *)
PreIngest(r, urls) ==
    /\ request[r].phase = "new"
    /\ request' = [request EXCEPT ![r] =
          [NewRequest EXCEPT !.phase = "answered", !.kind = "preingest",
                             !.figures.ingested = Cardinality(MissingKeys(MakeCreatives(urls)))]]
    /\ DispatchJobs(r, 1, MakeCreatives(urls))
    /\ UNCHANGED <<config, record, blacklist, jobs>>

(* A goroutine of dispatchJobs: CreateJob, then Set.                       *)
CreateJob(d) ==
    /\ d \in dispatching /\ Len(jobs) < MaxJobs
    /\ jobs' = Append(jobs, [key |-> d.key, input |-> d.input,
                             outputs |-> <<>>, state |-> "transcoding"])
    /\ record' = [record EXCEPT ![d.key] = Queued(d.input)]
    /\ dispatching' = dispatching \ {d}
    /\ UNCHANGED <<config, blacklist, request>>

-----------------------------------------------------------------------------
(* Callbacks.                                                              *)

(* Mutation: what cannot be written is taken for written.                  *)
SetAnything(k, info) == info

(* handleTranscodeCompleted's Set, and the Delete if it fails.             *)
SetOrDelete(k, info) == IF CanMarshal(info) THEN info ELSE Absent

HandleTranscodeCompleted(n, outputs) ==
    LET k == jobs[n].key
        job == [jobs[n] EXCEPT !.outputs = outputs]
        Goes(state, info) ==
            /\ jobs' = [jobs EXCEPT ![n] = [job EXCEPT !.state = state]]
            /\ record' = [record EXCEPT ![k] = info]
    IN /\ jobs[n].state = "transcoding"
       /\ CASE ~HasAudioOutput(outputs) -> Goes("over", Absent)
            [] HasAudioOutput(outputs) /\ FirstOutputUnreadable(outputs) ->
                   Goes("over", record[k])   \* a panic, which net/http recovers
            [] OTHER ->
                   Goes(IF jitPackage THEN "packaged" ELSE "packaging",
                        SetOrDelete(k, TranscodeInfoFromEncoreJob(job, jitPackage, Playlist(n))))
       /\ UNCHANGED <<config, blacklist, dispatching, request>>

HandleTranscodeFailed(n) ==
    /\ jobs[n].state = "transcoding"
    /\ jobs' = [jobs EXCEPT ![n].state = "over"]
    /\ record' = [record EXCEPT ![jobs[n].key] = Absent]
    /\ UNCHANGED <<config, blacklist, dispatching, request>>

(* Mutation: the status is left as transcoding left it.                    *)
PackagedInfoStatusKept(n) ==
    [TranscodeInfoFromEncoreJob(jobs[n], jitPackage, Playlist(n)) EXCEPT !.url = Playlist(n)]

(* The record is made anew from the job.                                   *)
PackagedInfo(n) ==
    [TranscodeInfoFromEncoreJob(jobs[n], jitPackage, Playlist(n)) EXCEPT
        !.url = Playlist(n), !.status = "COMPLETED"]

(* A Set that fails changes nothing.                                       *)
HandlePackagingSuccess(n) ==
    /\ jobs[n].state = "packaging"
    /\ jobs' = [jobs EXCEPT ![n].state = "packaged"]
    /\ record' = IF CanMarshal(PackagedInfo(n))
                 THEN [record EXCEPT ![jobs[n].key] = PackagedInfo(n)] ELSE record
    /\ UNCHANGED <<config, blacklist, dispatching, request>>

HandlePackagingFailure(n) ==
    /\ jobs[n].state = "packaging"
    /\ jobs' = [jobs EXCEPT ![n].state = "over"]
    /\ record' = [record EXCEPT ![jobs[n].key] = Absent]
    /\ UNCHANGED <<config, blacklist, dispatching, request>>

HandleBlackList(urls) ==
    /\ urls # blacklist
    /\ blacklist' = urls
    /\ UNCHANGED <<config, record, jobs, dispatching, request>>

-----------------------------------------------------------------------------
RequestStep(r) ==
    \/ \E ads \in VastDocuments, filler \in Fillers : HandleVast(r, ads, filler)
    \/ \E breaks \in VmapDocuments : HandleVmap(r, breaks)
    \/ AdServerFails(r)
    \/ \E b \in request[r].open :
          FindMissingAndDispatchJobs(r, b) \/ FindMissingPanics(r, b)
    \/ Answer(r)
    \/ \E urls \in PreIngests : PreIngest(r, urls)

CallbackStep(n) ==
    \/ \E outputs \in Reports : HandleTranscodeCompleted(n, outputs)
    \/ HandleTranscodeFailed(n)
    \/ HandlePackagingSuccess(n)
    \/ HandlePackagingFailure(n)

Next ==
    \/ \E r \in Requests : RequestStep(r)
    \/ \E d \in dispatching : CreateJob(d)
    \/ \E n \in DOMAIN jobs : CallbackStep(n)
    \/ \E urls \in SUBSET Blacklisted : HandleBlackList(urls)

Spec == Init /\ [][Next]_vars
=============================================================================
