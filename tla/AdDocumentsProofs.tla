-------------------------- MODULE AdDocumentsProofs --------------------------
(***************************************************************************)
(* Proofs about requests and what they leave in the cache: for any         *)
(* documents, any key expression, any blacklist and any jobs.              *)
(*                                                                         *)
(* Four inductive invariants, each on top of the ones before it:           *)
(*                                                                         *)
(*   DInv        The URL and the key of a creative travel together from    *)
(*               the document, or from the list to pre-ingest, over the    *)
(*               goroutine that creates the job to the job and the record, *)
(*               and everybody on the way could part them.  KeysOfUrls     *)
(*               says that nobody does.                                    *)
(*   RInv        Records are overwritten by callbacks of any job for their *)
(*               key, in any order.  What a record shows is nevertheless   *)
(*               some job for its key, as far as that has got              *)
(*               (RecordsOfJobs).                                          *)
(*   QInv        An ad of an answer was received with the document, has    *)
(*               the creative its key stands for, and plays the playlist   *)
(*               of a job for that key, which never goes away again        *)
(*               (RequestsOK, DispatchesOK, JobsKnown).                    *)
(*   FiguresInv  The figures add up ad break by ad break, as the           *)
(*               goroutines rewrite them in any order (FiguresOK).         *)
(***************************************************************************)
EXTENDS AdDocumentsProperties, DataProofs

(* The key belongs to the URL, if keys are made of URLs.                   *)
Matches(k, url) == keyField = "url" => k = Stripped[url]

KeysOfUrls ==
    /\ \A d \in dispatching : Matches(d.key, d.input)
    /\ \A n \in DOMAIN jobs : Matches(jobs[n].key, jobs[n].input)
    /\ \A k \in Keys : record[k].status # "NONE" => Matches(k, record[k].source)

(* What there is to be proved about.                                       *)
Shapes ==
    /\ record = [k \in Keys |-> record[k]]
    /\ IsSequence(jobs)
    /\ \A n \in DOMAIN jobs : DOMAIN jobs[n] = {"key", "input", "outputs", "state"}
    /\ DOMAIN request = Requests
    /\ \A r \in Requests : DOMAIN request[r] = DOMAIN NewRequest
    /\ \A r \in Requests : \A b \in request[r].open :
          b \in DOMAIN request[r].breaks /\ IsSequence(request[r].breaks[b])

DInv == KeysOfUrls /\ Shapes

-----------------------------------------------------------------------------
(* The maps made from documents, and from lists to pre-ingest, have the    *)
(* key of each URL.                                                        *)
LEMMA CreativesMatch ==
    ASSUME NEW ads, IsSequence(ads), NEW k \in DOMAIN GetCreatives(ads, keyField)
    PROVE  Matches(k, GetCreatives(ads, keyField)[k])
<1> DEFINE keys == [i \in DOMAIN ads |-> GetKey(keyField, ads[i])]
           urls == [i \in DOMAIN ads |-> GetBestMediaFileFromVastAd(ads[i]).text]
<1>1. IsSequence(keys)
  <2>1. keys = [i \in DOMAIN ads |-> keys[i]]
    OBVIOUS
  <2> QED
    BY <2>1, SequenceOf
<1>2. GetCreatives(ads, keyField) = MapOf(keys, urls)
  BY DEF GetCreatives
<1>3. PICK i \in DOMAIN keys :
         keys[i] = k /\ GetCreatives(ads, keyField)[k] = urls[i]
  BY <1>1, <1>2, MapProperties
<1>4. keyField = "url" => k = Stripped[urls[i]]
  BY <1>3 DEF GetKey
<1> QED
  BY <1>3, <1>4 DEF Matches

(* The same of a list to pre-ingest, whatever KEY_FIELD says.              *)
LEMMA IngestedMatch ==
    ASSUME NEW list, IsSequence(list), NEW k \in DOMAIN MakeCreatives(list)
    PROVE  Matches(k, MakeCreatives(list)[k])
<1> DEFINE keys == [i \in DOMAIN list |-> UrlToKey(list[i])]
<1>1. IsSequence(keys)
  <2>1. keys = [i \in DOMAIN list |-> keys[i]]
    OBVIOUS
  <2> QED
    BY <2>1, SequenceOf
<1>2. MakeCreatives(list) = MapOf(keys, list)
  BY DEF MakeCreatives
<1>3. PICK i \in DOMAIN keys : keys[i] = k /\ MakeCreatives(list)[k] = list[i]
  BY <1>1, <1>2, MapProperties
<1> QED
  BY <1>3 DEF Matches, UrlToKey

-----------------------------------------------------------------------------
(* Goroutines, jobs and records.                                           *)

(* Goroutines are started for creatives without a record.                  *)
LEMMA NewDispatches ==
    ASSUME Shapes, Next, NEW d \in dispatching' \ dispatching
    PROVE  record[d.key].status = "NONE" /\ Matches(d.key, d.input)
<1>1. ASSUME NEW r, NEW b, NEW creatives, DispatchJobs(r, b, creatives),
             \A k \in DOMAIN creatives : Matches(k, creatives[k])
      PROVE  record[d.key].status = "NONE" /\ Matches(d.key, d.input)
  <2>1. PICK k \in MissingKeys(creatives) :
           d = [request |-> r, break |-> b, key |-> k, input |-> creatives[k]]
    BY <1>1 DEF DispatchJobs
  <2>2. k \in DOMAIN creatives /\ record[k].status = "NONE"
    BY DEF MissingKeys, Allowed
  <2>3. d.key = k /\ d.input = creatives[k]
    BY <2>1
  <2> QED
    BY <1>1, <2>2, <2>3
<1>2. ASSUME NEW r \in Requests, NEW b \in request[r].open,
             \/ FindMissingAndDispatchJobs(r, b)
             \/ FindMissingPanics(r, b) /\ ~(dispatching' \subseteq dispatching)
      PROVE  DispatchJobs(r, b, GetCreatives(request[r].breaks[b], keyField))
  BY <1>2 DEF FindMissingAndDispatchJobs, FindMissingPanics
<1>3. ASSUME NEW r \in Requests, NEW b \in request[r].open,
             FindMissingAndDispatchJobs(r, b) \/ FindMissingPanics(r, b)
      PROVE  record[d.key].status = "NONE" /\ Matches(d.key, d.input)
  BY <1>1, <1>2, <1>3, CreativesMatch DEF Shapes
<1>4. ASSUME NEW r \in Requests, NEW list \in PreIngests, PreIngest(r, list)
      PROVE  record[d.key].status = "NONE" /\ Matches(d.key, d.input)
  BY <1>1, <1>4, IngestedMatch, DocumentsAssumption DEF PreIngest
<1> QED
  BY <1>3, <1>4 DEF Next, RequestStep, CallbackStep, HandleVast, HandleVmap, Receive,
     AdServerFails, Answer, CreateJob, HandleTranscodeCompleted, HandleTranscodeFailed,
     HandlePackagingSuccess, HandlePackagingFailure, HandleBlackList

(* The aspect ratio of the first video stream.                             *)
RatioOf(outputs) ==
    LET video == FirstVideoStream(outputs)
    IN AspectRatio(IF video.width # 0 THEN video.width ELSE 1920,
                   IF video.height # 0 THEN video.height ELSE 1080)

Info(status, url, job) ==
    [status |-> status, url |-> url, source |-> job.input,
     aspectRatio |-> RatioOf(job.outputs), frameRates |-> GetFrameRates(job.outputs)]

(* Records get what is in the job, and the URL along with the key.         *)
LEMMA JobInfo ==
    ASSUME NEW job, NEW jit, NEW playlist
    PROVE  TranscodeInfoFromEncoreJob(job, jit, playlist) =
              IF jit THEN Info("COMPLETED", playlist, job) ELSE Info("PACKAGING", "", job)
<1>1. CASE jit
  BY <1>1, Zenon DEF TranscodeInfoFromEncoreJob, Info, RatioOf
<1>2. CASE ~jit
  BY <1>2, Zenon DEF TranscodeInfoFromEncoreJob, Info, RatioOf
<1> QED
  BY <1>1, <1>2

InfoFields == {"status", "url", "source", "aspectRatio", "frameRates"}

Shows(info, job) ==
    /\ info = [x \in InfoFields |-> info[x]]
    /\ info.source = job.input
    /\ info.aspectRatio = RatioOf(job.outputs)
    /\ info.frameRates = GetFrameRates(job.outputs)

(* It is what its fields say.                                              *)
LEMMA InfoShows ==
    ASSUME NEW job, NEW status, NEW url
    PROVE  /\ Shows(Info(status, url, job), job)
           /\ Info(status, url, job).status = status
           /\ Info(status, url, job).url = url
           /\ \A info : Shows(info, job) /\ info.status = status /\ info.url = url =>
                           info = Info(status, url, job)
BY DEF Info, Shows, InfoFields

(* A record keeps its key and its URL together if what is written does.    *)
LEMMA WriteMatches ==
    ASSUME DInv, UNCHANGED config, NEW k, NEW info,
           record' = [record EXCEPT ![k] = info],
           k \in Keys /\ info.status # "NONE" => Matches(k, info.source)
    PROVE  /\ (record = [c \in Keys |-> record[c]])'
           /\ (\A c \in Keys : record[c].status # "NONE" => Matches(c, record[c].source))'
<1>1. /\ record' = [c \in Keys |-> record'[c]]
      /\ \A c \in Keys : record'[c] = IF c = k THEN info ELSE record[c]
  BY DEF DInv, Shapes
<1>2. keyField' = keyField
  BY DEF config
<1> QED
  BY <1>1, <1>2 DEF DInv, KeysOfUrls, Matches

(* So does a job that has moved on.                                        *)
LEMMA JobMoves ==
    ASSUME DInv, UNCHANGED config, NEW n \in DOMAIN jobs, NEW job,
           jobs' = [jobs EXCEPT ![n] = job],
           DOMAIN job = DOMAIN jobs[n], job.key = jobs[n].key, job.input = jobs[n].input
    PROVE  /\ IsSequence(jobs)'
           /\ (\A i \in DOMAIN jobs : DOMAIN jobs[i] = {"key", "input", "outputs", "state"})'
           /\ (\A i \in DOMAIN jobs : Matches(jobs[i].key, jobs[i].input))'
<1>1. /\ DOMAIN jobs' = DOMAIN jobs
      /\ \A i \in DOMAIN jobs : jobs'[i] = IF i = n THEN job ELSE jobs[i]
  OBVIOUS
<1>2. IsSequence(jobs')
  <2>1. jobs' = [i \in DOMAIN jobs |-> jobs'[i]]
    OBVIOUS
  <2> QED
    BY <2>1, SequenceOf DEF DInv, Shapes
<1>3. keyField' = keyField
  BY DEF config
<1> QED
  BY <1>1, <1>2, <1>3 DEF DInv, Shapes, KeysOfUrls, Matches, IsSequence

-----------------------------------------------------------------------------
(* Every step keeps keys and URLs together.                                *)

Made == {"packaging", "packaged"}

(* What a record says of job, the n-th.                                    *)
Shown(job, n) == TranscodeInfoFromEncoreJob(job, job.state = "packaged", Playlist(n))

(* What a record can be made from.                                         *)
Readable(outputs) == HasAudioOutput(outputs) /\ ~FirstOutputUnreadable(outputs)

(* A callback on the n-th job ends it and deletes the record, or leaves it *)
(* alone in a panic; or it moves the job on and has the record show it, if *)
(* it can be shown.                                                        *)
CallbackResult(n, job, info) ==
    LET before == jobs[n]
        old == record[before.key]
    IN /\ DOMAIN job = DOMAIN before
       /\ job.key = before.key /\ job.input = before.input
       /\ job.outputs \in Reports \cup {before.outputs}
       /\ \/ /\ before.state \in {"transcoding", "packaging"} /\ job.state = "over"
             /\ info = Absent
          \/ /\ before.state = "transcoding" /\ job.state = "over"
             /\ info = old
          \/ /\ before.state = "transcoding" /\ job.state \in Made
             /\ job.outputs \in Reports /\ Readable(job.outputs)
             /\ info = SetOrDelete(before.key, Shown(job, n))
          \/ /\ before.state = "packaging" /\ job.state = "packaged"
             /\ job.outputs = before.outputs
             /\ info = IF CanMarshal(Shown(job, n)) THEN Shown(job, n) ELSE old

(* Every callback has such a result.                                       *)
LEMMA CallbackEffect ==
    ASSUME DInv, NEW n \in DOMAIN jobs, CallbackStep(n)
    PROVE  \E job, info : /\ jobs' = [jobs EXCEPT ![n] = job]
                          /\ record' = [record EXCEPT ![jobs[n].key] = info]
                          /\ CallbackResult(n, job, info)
<1> DEFINE k == jobs[n].key
<1>1. DOMAIN jobs[n] = {"key", "input", "outputs", "state"}
  BY DEF DInv, Shapes
<1>2. record = [record EXCEPT ![k] = record[k]]
  BY DEF DInv, Shapes
<1>3. ASSUME NEW outputs \in Reports, HandleTranscodeCompleted(n, outputs)
      PROVE  \E job, info : /\ jobs' = [jobs EXCEPT ![n] = job]
                            /\ record' = [record EXCEPT ![k] = info]
                            /\ CallbackResult(n, job, info)
  <2> DEFINE reported == [jobs[n] EXCEPT !.outputs = outputs]
             new == TranscodeInfoFromEncoreJob(reported, jitPackage, Playlist(n))
             state == CASE ~HasAudioOutput(outputs) -> "over"
                        [] HasAudioOutput(outputs) /\ FirstOutputUnreadable(outputs) -> "over"
                        [] OTHER -> IF jitPackage THEN "packaged" ELSE "packaging"
             info == CASE ~HasAudioOutput(outputs) -> Absent
                       [] HasAudioOutput(outputs) /\ FirstOutputUnreadable(outputs) -> record[k]
                       [] OTHER -> SetOrDelete(k, new)
             job == [reported EXCEPT !.state = state]
  <2>1. /\ jobs' = [jobs EXCEPT ![n] = job]
        /\ record' = [record EXCEPT ![k] = info]
        /\ jobs[n].state = "transcoding"
    BY <1>3 DEF HandleTranscodeCompleted
  <2>2. /\ DOMAIN job = DOMAIN jobs[n] /\ job.key = k /\ job.input = jobs[n].input
        /\ job.outputs = outputs /\ job.state = state
        /\ reported.outputs = outputs /\ reported.input = jobs[n].input
    BY <1>1
  <2>3. CASE ~HasAudioOutput(outputs)
    <3>1. state = "over" /\ info = Absent
      BY <2>3
    <3> HIDE DEF job, info
    <3> QED
      BY <2>1, <2>2, <3>1 DEF CallbackResult
  <2>4. CASE HasAudioOutput(outputs) /\ FirstOutputUnreadable(outputs)
    <3>1. state = "over" /\ info = record[k]
      BY <2>4
    <3> HIDE DEF job, info
    <3> QED
      BY <2>1, <2>2, <3>1 DEF CallbackResult
  <2>5. CASE HasAudioOutput(outputs) /\ ~FirstOutputUnreadable(outputs)
    <3>1. state = (IF jitPackage THEN "packaged" ELSE "packaging") /\ info = SetOrDelete(k, new)
      BY <2>5
    <3>2. Shown(job, n) = new
      <4>1. jitPackage <=> job.state = "packaged"
        BY <2>2, <3>1
      <4>2. Info("COMPLETED", Playlist(n), reported) = Info("COMPLETED", Playlist(n), job)
        BY <2>2 DEF Info
      <4>3. Info("PACKAGING", "", reported) = Info("PACKAGING", "", job)
        BY <2>2 DEF Info
      <4> HIDE DEF job, reported
      <4> QED
        BY <4>1, <4>2, <4>3, JobInfo DEF Shown
    <3>3. state \in Made
      BY <3>1 DEF Made
    <3> HIDE DEF job, info, new, state
    <3> QED
      BY <2>1, <2>2, <2>5, <3>1, <3>2, <3>3 DEF CallbackResult, Readable
  <2> QED
    BY <2>3, <2>4, <2>5
<1>4. CASE HandleTranscodeFailed(n) \/ HandlePackagingFailure(n)
  <2> DEFINE job == [jobs[n] EXCEPT !.state = "over"]
  <2>1. /\ jobs' = [jobs EXCEPT ![n] = job]
        /\ record' = [record EXCEPT ![k] = Absent]
        /\ jobs[n].state \in {"transcoding", "packaging"}
    BY <1>4 DEF HandleTranscodeFailed, HandlePackagingFailure
  <2>2. /\ DOMAIN job = DOMAIN jobs[n] /\ job.key = k /\ job.input = jobs[n].input
        /\ job.outputs = jobs[n].outputs /\ job.state = "over"
    BY <1>1
  <2> HIDE DEF job
  <2> QED
    BY <2>1, <2>2 DEF CallbackResult
<1>5. CASE HandlePackagingSuccess(n)
  <2> DEFINE job == [jobs[n] EXCEPT !.state = "packaged"]
             info == IF CanMarshal(Shown(job, n)) THEN Shown(job, n) ELSE record[k]
  <2>1. /\ DOMAIN job = DOMAIN jobs[n] /\ job.key = k /\ job.input = jobs[n].input
        /\ job.outputs = jobs[n].outputs /\ job.state = "packaged"
    BY <1>1
  <2>2. PackagedInfo(n) = Shown(job, n)
    <3>1. Shown(job, n) = Info("COMPLETED", Playlist(n), job)
      BY <2>1, JobInfo DEF Shown
    <3>2. PackagedInfo(n) = Info("COMPLETED", Playlist(n), jobs[n])
      <4> DEFINE new == TranscodeInfoFromEncoreJob(jobs[n], jitPackage, Playlist(n))
      <4>1. \/ new = Info("COMPLETED", Playlist(n), jobs[n])
            \/ new = Info("PACKAGING", "", jobs[n])
        BY JobInfo
      <4>2. Shows(new, jobs[n])
        <5> HIDE DEF new
        <5>1. CASE new = Info("COMPLETED", Playlist(n), jobs[n])
          BY <5>1, InfoShows
        <5>2. CASE new = Info("PACKAGING", "", jobs[n])
          BY <5>2, InfoShows
        <5> QED
          BY <4>1, <5>1, <5>2
      <4>3. PackagedInfo(n) = [new EXCEPT !.url = Playlist(n), !.status = "COMPLETED"]
        BY DEF PackagedInfo
      <4>4. /\ Shows(PackagedInfo(n), jobs[n])
            /\ PackagedInfo(n).status = "COMPLETED" /\ PackagedInfo(n).url = Playlist(n)
        <5> HIDE DEF new
        <5> QED
          BY <4>2, <4>3 DEF Shows, InfoFields
      <4> QED
        BY <4>4, InfoShows
    <3> QED
      BY <2>1, <3>1, <3>2 DEF Info
  <2>3. jobs' = [jobs EXCEPT ![n] = job] /\ jobs[n].state = "packaging"
    BY <1>5 DEF HandlePackagingSuccess
  <2>4. record' = [record EXCEPT ![k] = info]
    BY <1>2, <1>5, <2>2 DEF HandlePackagingSuccess
  <2> HIDE DEF job
  <2> QED
    BY <2>1, <2>3, <2>4 DEF CallbackResult
<1> QED
  BY <1>3, <1>4, <1>5 DEF CallbackStep

(* Callbacks write what the job says, or nothing.                          *)
LEMMA CallbackInvariant ==
    ASSUME DInv, NEW n \in DOMAIN jobs, CallbackStep(n)
    PROVE  DInv'
<1> DEFINE k == jobs[n].key
<1>1. UNCHANGED <<config, dispatching, request>>
  BY DEF CallbackStep, HandleTranscodeCompleted, HandleTranscodeFailed,
         HandlePackagingSuccess, HandlePackagingFailure
<1>2. PICK job, info : /\ jobs' = [jobs EXCEPT ![n] = job]
                       /\ record' = [record EXCEPT ![k] = info]
                       /\ CallbackResult(n, job, info)
  BY CallbackEffect
<1>3. /\ DOMAIN job = DOMAIN jobs[n] /\ job.key = k /\ job.input = jobs[n].input
      /\ info \in {Absent, record[k], Shown(job, n)}
  BY <1>2 DEF CallbackResult, SetOrDelete
<1>4. Shown(job, n).source = job.input /\ Absent.status = "NONE"
  BY JobInfo DEF Shown, Info, Absent
<1>5. k \in Keys /\ info.status # "NONE" => Matches(k, info.source)
  BY <1>3, <1>4 DEF DInv, KeysOfUrls
<1>6. /\ IsSequence(jobs)'
      /\ (\A i \in DOMAIN jobs : DOMAIN jobs[i] = {"key", "input", "outputs", "state"})'
      /\ (\A i \in DOMAIN jobs : Matches(jobs[i].key, jobs[i].input))'
  BY <1>1, <1>2, <1>3, JobMoves
<1>7. /\ (record = [c \in Keys |-> record[c]])'
      /\ (\A c \in Keys : record[c].status # "NONE" => Matches(c, record[c].source))'
  BY <1>1, <1>2, <1>5, WriteMatches
<1> QED
  BY <1>1, <1>6, <1>7 DEF DInv, KeysOfUrls, Shapes, Matches, config

(* A goroutine takes the key and the URL it was started with to the job    *)
(* and to the record.                                                      *)
LEMMA CreateJobInvariant ==
    ASSUME DInv, NEW d \in dispatching, CreateJob(d)
    PROVE  DInv'
<1> DEFINE job == [key |-> d.key, input |-> d.input, outputs |-> <<>>, state |-> "transcoding"]
<1>1. /\ jobs' = Append(jobs, job)
      /\ record' = [record EXCEPT ![d.key] = Queued(d.input)]
      /\ dispatching' \subseteq dispatching
      /\ UNCHANGED <<config, blacklist, request>>
  BY DEF CreateJob
<1>2. Matches(d.key, d.input)
  BY DEF DInv, KeysOfUrls
<1>3. Queued(d.input).source = d.input
  BY DEF Queued, Absent
<1>4. /\ (record = [c \in Keys |-> record[c]])'
      /\ (\A c \in Keys : record[c].status # "NONE" => Matches(c, record[c].source))'
  BY <1>1, <1>2, <1>3, WriteMatches
<1>5. IsSequence(jobs)
  BY DEF DInv, Shapes
<1>6. /\ IsSequence(jobs')
      /\ \A i \in DOMAIN jobs' : jobs'[i] = IF i \in DOMAIN jobs THEN jobs[i] ELSE job
  BY <1>1, <1>5, Appended
<1>7. /\ (\A i \in DOMAIN jobs : DOMAIN jobs[i] = {"key", "input", "outputs", "state"})'
      /\ (\A i \in DOMAIN jobs : Matches(jobs[i].key, jobs[i].input))'
  BY <1>1, <1>2, <1>6 DEF DInv, Shapes, KeysOfUrls, Matches, config
<1>8. (\A e \in dispatching : Matches(e.key, e.input))'
  BY <1>1 DEF DInv, KeysOfUrls, Matches, config
<1>9. /\ (DOMAIN request = Requests)'
       /\ (\A r \in Requests : DOMAIN request[r] = DOMAIN NewRequest)'
       /\ (\A r \in Requests : \A b \in request[r].open :
              b \in DOMAIN request[r].breaks /\ IsSequence(request[r].breaks[b]))'
  BY <1>1 DEF DInv, Shapes
<1> QED
  BY <1>4, <1>6, <1>7, <1>8, <1>9 DEF DInv, KeysOfUrls, Shapes

(* What a request holds in one step can be written in the next.            *)
RequestShapes ==
    /\ DOMAIN request = Requests
    /\ \A r \in Requests : DOMAIN request[r] = DOMAIN NewRequest
    /\ \A r \in Requests : \A b \in request[r].open :
          b \in DOMAIN request[r].breaks /\ IsSequence(request[r].breaks[b])

(* An ad break is a document.                                              *)
LEMMA BreaksAreSequences ==
    ASSUME NEW ads \in AdBreaks
    PROVE  ads \in Seq(Ad) /\ IsSequence(ads)
<1>1. ads \in Seq(Ad)
  BY DocumentsAssumption DEF IsDocument
<1> QED
  BY <1>1, TypedSequence

(* A document received is open throughout, and can be rewritten.           *)
LEMMA ReceiveShapes ==
    ASSUME RequestShapes, NEW r \in Requests, NEW kind, NEW breaks,
           \A b \in DOMAIN breaks : IsSequence(breaks[b]), Receive(r, kind, breaks)
    PROVE  RequestShapes'
<1> DEFINE new == [NewRequest EXCEPT !.phase = "rewriting", !.kind = kind,
                      !.fetched = breaks, !.breaks = breaks, !.open = DOMAIN breaks]
<1>1. request' = [request EXCEPT ![r] = new]
  BY DEF Receive
<1>2. DOMAIN new = DOMAIN NewRequest /\ new.open = DOMAIN breaks /\ new.breaks = breaks
  BY DEF NewRequest
<1> QED
  BY <1>1, <1>2 DEF RequestShapes

(* No step of a request spoils what it, or another one, holds.             *)
LEMMA RequestStepShapes ==
    ASSUME RequestShapes, NEW r \in Requests, RequestStep(r)
    PROVE  RequestShapes'
<1>1. ASSUME NEW ads \in VastDocuments, NEW filler \in Fillers, HandleVast(r, ads, filler)
      PROVE  RequestShapes'
  <2> DEFINE whole == WithFiller(ads, filler)
  <2>1. IsSequence(whole)
    BY BreaksAreSequences DEF AdBreaks
  <2>2. \A b \in DOMAIN <<whole>> : IsSequence(<<whole>>[b])
    <3>1. DOMAIN <<whole>> = {1} /\ <<whole>>[1] = whole
      OBVIOUS
    <3> HIDE DEF whole
    <3> QED
      BY <2>1, <3>1
  <2>3. Receive(r, "vast", <<whole>>)
    BY <1>1 DEF HandleVast
  <2> HIDE DEF whole
  <2> QED
    BY <2>2, <2>3, ReceiveShapes
<1>2. ASSUME NEW breaks \in VmapDocuments, HandleVmap(r, breaks)
      PROVE  RequestShapes'
  <2>1. \A b \in DOMAIN breaks : breaks[b] \in AdBreaks
    BY DEF AdBreaks, ToSet
  <2>2. Receive(r, "vmap", breaks)
    BY <1>2 DEF HandleVmap
  <2> QED
    BY <2>1, <2>2, BreaksAreSequences, ReceiveShapes
<1>3. CASE AdServerFails(r) \/ Answer(r)
  BY <1>3 DEF AdServerFails, Answer, RequestShapes, NewRequest
<1>4. ASSUME NEW b \in request[r].open, FindMissingAndDispatchJobs(r, b)
      PROVE  RequestShapes'
  <2>1. \A q \in Requests \ {r} : request'[q] = request[q]
    BY <1>4 DEF FindMissingAndDispatchJobs, RequestShapes
  <2>2. /\ DOMAIN request' = Requests
        /\ DOMAIN request'[r] = DOMAIN request[r]
        /\ request'[r].open = request[r].open \ {b}
        /\ DOMAIN request'[r].breaks = DOMAIN request[r].breaks
        /\ \A c \in DOMAIN request[r].breaks \ {b} :
              request'[r].breaks[c] = request[r].breaks[c]
    BY <1>4 DEF FindMissingAndDispatchJobs, RequestShapes, NewRequest
  <2> QED
    BY <2>1, <2>2 DEF RequestShapes
<1>5. ASSUME NEW b \in request[r].open, FindMissingPanics(r, b)
      PROVE  RequestShapes'
  <2>1. CASE request[r].kind = "vmap"
    <3>1. request' = [q \in Requests |-> IF request[q].phase = "rewriting"
                                         THEN [request[q] EXCEPT !.phase = "lost"]
                                         ELSE request[q]]
      BY <1>5, <2>1 DEF FindMissingPanics
    <3>2. DOMAIN request' = Requests
      BY <3>1
    <3>3. \A q \in Requests : /\ DOMAIN request'[q] = DOMAIN request[q]
                              /\ request'[q].open = request[q].open
                              /\ request'[q].breaks = request[q].breaks
      BY <3>1 DEF RequestShapes, NewRequest
    <3> QED
      BY <3>2, <3>3 DEF RequestShapes
  <2>2. CASE request[r].kind # "vmap"
    <3>1. request' = [request EXCEPT ![r].phase = "failed"]
      BY <1>5, <2>2 DEF FindMissingPanics
    <3> QED
      BY <3>1 DEF RequestShapes, NewRequest
  <2> QED
    BY <2>1, <2>2
<1>6. ASSUME NEW urls \in PreIngests, PreIngest(r, urls)
      PROVE  RequestShapes'
  BY <1>6 DEF PreIngest, RequestShapes, NewRequest
<1> QED
  BY <1>1, <1>2, <1>3, <1>4, <1>5, <1>6 DEF RequestStep

(* A request writes no record.                                             *)
LEMMA RequestInvariant ==
    ASSUME DInv, Next, NEW r \in Requests, RequestStep(r)
    PROVE  DInv'
<1>1. UNCHANGED <<config, record, jobs>>
  BY DEF RequestStep, HandleVast, HandleVmap, Receive, AdServerFails, Answer,
         FindMissingAndDispatchJobs, FindMissingPanics, PreIngest
<1>2. RequestShapes'
  BY RequestStepShapes DEF DInv, Shapes, RequestShapes
<1>3. \A d \in dispatching' : Matches(d.key, d.input)
  BY NewDispatches DEF DInv, KeysOfUrls
<1> QED
  BY <1>1, <1>2, <1>3 DEF DInv, KeysOfUrls, Shapes, RequestShapes, Matches, config

-----------------------------------------------------------------------------
(* At the start there are no URLs.                                         *)
LEMMA DInvInit ==
    ASSUME Init
    PROVE  DInv
<1>1. KeysOfUrls
  <2>1. dispatching = {} /\ DOMAIN jobs = {}
    BY DEF Init
  <2>2. \A k \in Keys : record[k].status = "NONE"
    BY DEF Init, Absent
  <2> QED
    BY <2>1, <2>2 DEF KeysOfUrls
<1>2. IsSequence(jobs)
  BY DEF Init, IsSequence, ToSet
<1>3. RequestShapes
  BY DEF Init, RequestShapes, NewRequest
<1> QED
  BY <1>1, <1>2, <1>3 DEF Init, DInv, Shapes, RequestShapes

(* Every step keeps the URLs with their keys.                              *)
LEMMA DInvStep ==
    ASSUME DInv, [Next]_vars
    PROVE  DInv'
<1>1. CASE UNCHANGED vars
  BY <1>1 DEF vars, config, DInv, KeysOfUrls, Shapes, Matches
<1>2. ASSUME Next, NEW urls \in SUBSET Blacklisted, HandleBlackList(urls)
      PROVE  DInv'
  BY <1>2 DEF HandleBlackList, config, DInv, KeysOfUrls, Shapes, Matches
<1> QED
  BY <1>1, <1>2, RequestInvariant, CreateJobInvariant, CallbackInvariant DEF Next

(* A creative whose playlist is in the cache is not transcoded again, from *)
(* whatever document or list its URL comes, if keys are made of URLs       *)
(* (findMissingAndDispatchJobs, HandlePreIngestCreatives).                 *)
THEOREM CachedNotTranscoded == Spec => NoTranscodeOfCached
<1>1. ASSUME DInv, [Next]_vars, keyField = "url",
             NEW d \in dispatching' \ dispatching, NEW k \in Keys,
             record[k].status = "COMPLETED", record[k].source = d.input
      PROVE  FALSE
  <2>1. Next
    BY <1>1 DEF vars
  <2>2. record[d.key].status = "NONE" /\ d.key = Stripped[d.input]
    BY <1>1, <2>1, NewDispatches DEF DInv, Matches
  <2>3. k = Stripped[d.input]
    BY <1>1 DEF DInv, KeysOfUrls, Matches
  <2> QED
    BY <1>1, <2>2, <2>3
<1>2. DInv /\ [Next]_vars =>
         [keyField = "url" =>
             \A d \in dispatching' \ dispatching : \A k \in Keys :
                 ~(record[k].status = "COMPLETED" /\ record[k].source = d.input)]_vars
  BY <1>1
<1>3. Spec => []DInv
  BY DInvInit, DInvStep, PTL DEF Spec
<1> QED
  BY <1>2, <1>3, PTL DEF Spec, NoTranscodeOfCached

-----------------------------------------------------------------------------
(* Records and jobs.                                                       *)

JobsReported ==
    \A n \in DOMAIN jobs :
        /\ jobs[n].state \in {"transcoding", "over"} \cup Made
        /\ jobs[n].outputs \in Reports \cup {<<>>}
        /\ jobs[n].state \in Made =>
              jobs[n].outputs \in Reports /\ Readable(jobs[n].outputs)

(* A record shows one of the jobs for its key as far as that has got, or   *)
(* none yet.                                                               *)
RecordsOfJobs ==
    \A k \in Keys :
        \/ record[k] = Absent
        \/ record[k] = Queued(record[k].source)
        \/ CanMarshal(record[k]) /\ \E n \in JobsFor(k) :
              jobs[n].state \in Made /\ record[k] = Shown(jobs[n], n)

RInv == JobsReported /\ RecordsOfJobs /\ PackagedIsCachedIfNumeric

(* What is shown does not depend on how far the job has got, but for       *)
(* status and URL.                                                         *)
LEMMA ShownProperties ==
    ASSUME NEW job, NEW n
    PROVE  /\ Shows(Shown(job, n), job)
           /\ job.state = "packaged" => /\ Shown(job, n).status = "COMPLETED"
                                        /\ Shown(job, n).url = Playlist(n)
           /\ job.state # "packaged" => Shown(job, n).status = "PACKAGING"
<1>1. CASE job.state = "packaged"
  <2>1. Shown(job, n) = Info("COMPLETED", Playlist(n), job)
    BY <1>1, JobInfo DEF Shown
  <2> QED
    BY <1>1, <2>1, InfoShows
<1>2. CASE job.state # "packaged"
  <2>1. Shown(job, n) = Info("PACKAGING", "", job)
    BY <1>2, JobInfo DEF Shown
  <2>2. Shows(Info("PACKAGING", "", job), job)
    BY InfoShows
  <2>3. Info("PACKAGING", "", job).status = "PACKAGING"
    BY DEF Info
  <2>4. Shows(Shown(job, n), job) /\ Shown(job, n).status = "PACKAGING"
    BY <2>1, <2>2, <2>3
  <2> QED
    BY <1>2, <2>4
<1> QED
  BY <1>1, <1>2

(* Numbers can be marshalled.                                              *)
LEMMA NumericCanMarshal ==
    ASSUME NEW info, NEW job, Shows(info, job), NumericRates(job.outputs)
    PROVE  CanMarshal(info)
<1>1. \A i \in DOMAIN info.frameRates : info.frameRates[i] \in Nat \ {Infinite}
  BY DEF Shows, NumericRates, ToSet
<1>2. NaN \notin Nat
  BY DEF NaN
<1> QED
  BY <1>1, <1>2 DEF CanMarshal

(* A callback lets records show jobs.                                      *)
LEMMA CallbackRecords ==
    ASSUME DInv, RInv, NEW n \in DOMAIN jobs, CallbackStep(n)
    PROVE  RInv'
<1> DEFINE k0 == jobs[n].key
<1>1. PICK job, info : /\ jobs' = [jobs EXCEPT ![n] = job]
                       /\ record' = [record EXCEPT ![k0] = info]
                       /\ CallbackResult(n, job, info)
  BY CallbackEffect
<1>2. /\ DOMAIN jobs' = DOMAIN jobs /\ jobs'[n] = job /\ job.key = k0
      /\ \A m \in DOMAIN jobs \ {n} : jobs'[m] = jobs[m]
      /\ \A k \in Keys : record'[k] = IF k = k0 THEN info ELSE record[k]
  BY <1>1 DEF CallbackResult, DInv, Shapes
<1>3. JobsReported'
  <2>1. /\ job.state \in {"transcoding", "over"} \cup Made
        /\ job.outputs \in Reports \cup {<<>>}
        /\ job.state \in Made =>
              job.outputs \in Reports /\ Readable(job.outputs)
    BY <1>1 DEF CallbackResult, RInv, JobsReported, Made
  <2> QED
    BY <1>2, <2>1 DEF RInv, JobsReported
<1>4. ASSUME NEW k \in Keys, k # k0
      PROVE  /\ record'[k] = record[k] /\ JobsFor(k)' = JobsFor(k)
             /\ \A m \in JobsFor(k) : jobs'[m] = jobs[m]
  BY <1>2, <1>4 DEF JobsFor
<1>5. Shows(Shown(job, n), job)
  BY ShownProperties
<1>6. RecordsOfJobs'
  <2> SUFFICES ASSUME NEW k \in Keys
               PROVE  \/ record'[k] = Absent
                      \/ record'[k] = Queued(record'[k].source)
                      \/ CanMarshal(record'[k]) /\ \E m \in JobsFor(k)' :
                            jobs'[m].state \in Made /\ record'[k] = Shown(jobs'[m], m)
    BY DEF RecordsOfJobs
  <2>1. \/ record[k] = Absent
        \/ record[k] = Queued(record[k].source)
        \/ CanMarshal(record[k]) /\ \E m \in JobsFor(k) :
              jobs[m].state \in Made /\ record[k] = Shown(jobs[m], m)
    BY DEF RInv, RecordsOfJobs
  <2>2. CASE k # k0
    BY <1>4, <2>1, <2>2
  <2>3. CASE k = k0 /\ info = Absent
    BY <1>2, <2>3
  <2>4. CASE k = k0 /\ info = Shown(job, n) /\ CanMarshal(info) /\ job.state \in Made
    BY <1>2, <2>4 DEF JobsFor
  <2>5. ASSUME k = k0, info = record[k],
               \/ jobs[n].state \notin Made
               \/ jobs[n].outputs = job.outputs /\ ~CanMarshal(Shown(job, n))
        PROVE  \/ record'[k] = Absent
               \/ record'[k] = Queued(record'[k].source)
               \/ CanMarshal(record'[k]) /\ \E m \in JobsFor(k)' :
                     jobs'[m].state \in Made /\ record'[k] = Shown(jobs'[m], m)
    <3>1. ASSUME NEW m \in JobsFor(k), CanMarshal(record[k]),
                 jobs[m].state \in Made, record[k] = Shown(jobs[m], m)
          PROVE  m \in JobsFor(k)' /\ jobs'[m] = jobs[m]
      <4>1. m # n
        <5> SUFFICES ASSUME m = n PROVE FALSE
          OBVIOUS
        <5>1. jobs[n].outputs = job.outputs /\ ~CanMarshal(Shown(job, n))
          BY <2>5, <3>1
        <5>2. Shows(Shown(jobs[n], n), jobs[n])
          BY ShownProperties
        <5>3. Shown(jobs[n], n).frameRates = Shown(job, n).frameRates
          BY <1>5, <5>1, <5>2 DEF Shows
        <5> QED
          BY <3>1, <5>1, <5>3 DEF CanMarshal
      <4> QED
        BY <1>2, <4>1 DEF JobsFor
    <3>2. record'[k] = record[k]
      BY <1>2, <2>5
    <3> QED
      BY <2>1, <3>1, <3>2
  <2>6. k = k0 => \/ info = Absent
                  \/ info = Shown(job, n) /\ CanMarshal(info) /\ job.state \in Made
                  \/ /\ info = record[k]
                     /\ \/ jobs[n].state \notin Made
                        \/ jobs[n].outputs = job.outputs /\ ~CanMarshal(Shown(job, n))
    BY <1>1 DEF CallbackResult, SetOrDelete, Made
  <2> QED
    BY <2>2, <2>3, <2>4, <2>5, <2>6
<1>7. PackagedIsCachedIfNumeric'
  <2> SUFFICES ASSUME NEW k \in Keys, AllPackaged(k)',
                      \A m \in JobsFor(k)' : NumericRates(jobs'[m].outputs)
               PROVE  /\ record'[k].status = "COMPLETED"
                      /\ \E m \in JobsFor(k)' : record'[k].url = Playlist(m)
    BY DEF PackagedIsCachedIfNumeric
  <2>1. CASE k # k0
    <3>1. AllPackaged(k) /\ \A m \in JobsFor(k) : NumericRates(jobs[m].outputs)
      BY <1>4, <2>1 DEF AllPackaged
    <3>2. /\ record[k].status = "COMPLETED"
          /\ \E m \in JobsFor(k) : record[k].url = Playlist(m)
      BY <3>1 DEF RInv, PackagedIsCachedIfNumeric
    <3> QED
      BY <1>4, <2>1, <3>2
  <2>2. CASE k = k0
    <3>1. n \in JobsFor(k)'
      BY <1>2, <2>2 DEF JobsFor
    <3>2. job.state = "packaged" /\ NumericRates(job.outputs)
      BY <1>2, <3>1 DEF AllPackaged
    <3>3. CanMarshal(Shown(job, n))
      BY <1>5, <3>2, NumericCanMarshal
    <3>4. info = Shown(job, n)
      BY <1>1, <3>2, <3>3 DEF CallbackResult, SetOrDelete
    <3>5. record'[k].status = "COMPLETED" /\ record'[k].url = Playlist(n)
      BY <1>2, <2>2, <3>2, <3>4, ShownProperties
    <3> QED
      BY <3>1, <3>5
  <2> QED
    BY <2>1, <2>2
<1> QED
  BY <1>3, <1>6, <1>7 DEF RInv

(* A new job is shown by a queued record.                                  *)
LEMMA CreateJobRecords ==
    ASSUME DInv, RInv, NEW d \in dispatching, CreateJob(d)
    PROVE  RInv'
<1> DEFINE job == [key |-> d.key, input |-> d.input, outputs |-> <<>>, state |-> "transcoding"]
<1>1. jobs' = Append(jobs, job) /\ record' = [record EXCEPT ![d.key] = Queued(d.input)]
  BY DEF CreateJob
<1>2. /\ IsSequence(jobs')
      /\ \A m \in DOMAIN jobs' : jobs'[m] = IF m \in DOMAIN jobs THEN jobs[m] ELSE job
      /\ DOMAIN jobs' = DOMAIN jobs \cup {Len(jobs) + 1} /\ Len(jobs) + 1 \notin DOMAIN jobs
  <2>1. IsSequence(jobs)
    BY DEF DInv, Shapes
  <2>2. DOMAIN jobs = 1 .. Len(jobs) /\ Len(jobs) \in Nat /\ Len(jobs') = Len(jobs) + 1
        /\ DOMAIN jobs' = 1 .. Len(jobs')
    BY <1>1, <2>1 DEF IsSequence
  <2> QED
    BY <1>1, <2>1, <2>2, Appended
<1>3. \A k \in Keys : record'[k] = IF k = d.key THEN Queued(d.input) ELSE record[k]
  BY <1>1 DEF DInv, Shapes
<1>4. job.key = d.key /\ job.state = "transcoding" /\ job.outputs = <<>>
  OBVIOUS
<1> HIDE DEF job
<1>5. JobsReported'
  BY <1>2, <1>4 DEF RInv, JobsReported, Made
<1>6. ASSUME NEW k \in Keys, k # d.key
      PROVE  /\ record'[k] = record[k] /\ JobsFor(k)' = JobsFor(k)
             /\ \A m \in JobsFor(k) : jobs'[m] = jobs[m]
  BY <1>2, <1>3, <1>4, <1>6 DEF JobsFor
<1>7. RecordsOfJobs'
  <2> SUFFICES ASSUME NEW k \in Keys
               PROVE  \/ record'[k] = Absent
                      \/ record'[k] = Queued(record'[k].source)
                      \/ CanMarshal(record'[k]) /\ \E m \in JobsFor(k)' :
                            jobs'[m].state \in Made /\ record'[k] = Shown(jobs'[m], m)
    BY DEF RecordsOfJobs
  <2>1. CASE k = d.key
    BY <1>3, <2>1 DEF Queued, Absent
  <2>2. CASE k # d.key
    BY <1>6, <2>2 DEF RInv, RecordsOfJobs
  <2> QED
    BY <2>1, <2>2
<1>8. PackagedIsCachedIfNumeric'
  <2> SUFFICES ASSUME NEW k \in Keys, AllPackaged(k)',
                      \A m \in JobsFor(k)' : NumericRates(jobs'[m].outputs)
               PROVE  /\ record'[k].status = "COMPLETED"
                      /\ \E m \in JobsFor(k)' : record'[k].url = Playlist(m)
    BY DEF PackagedIsCachedIfNumeric
  <2>1. k # d.key
    <3> SUFFICES ASSUME k = d.key PROVE FALSE
      OBVIOUS
    <3>1. Len(jobs) + 1 \in JobsFor(k)' /\ jobs'[Len(jobs) + 1].state = "transcoding"
      BY <1>2, <1>4 DEF JobsFor
    <3> QED
      BY <3>1 DEF AllPackaged
  <2>2. AllPackaged(k) /\ \A m \in JobsFor(k) : NumericRates(jobs[m].outputs)
    BY <1>6, <2>1 DEF AllPackaged
  <2> QED
    BY <1>6, <2>1, <2>2 DEF RInv, PackagedIsCachedIfNumeric
<1> QED
  BY <1>5, <1>7, <1>8 DEF RInv

(* Records show jobs at all times.                                         *)
LEMMA RecordsInvariance == Spec => [](DInv /\ RInv)
<1>1. Init => RInv
  <2> SUFFICES ASSUME Init PROVE RInv
    OBVIOUS
  <2>1. DOMAIN jobs = {}
    BY DEF Init
  <2>2. \A k \in Keys : JobsFor(k) = {}
    BY <2>1 DEF JobsFor
  <2>3. \A k \in Keys : record[k] = Absent
    BY DEF Init
  <2> QED
    BY <2>1, <2>2, <2>3 DEF RInv, JobsReported, RecordsOfJobs,
       PackagedIsCachedIfNumeric, AllPackaged
<1>2. ASSUME DInv, RInv, [Next]_vars PROVE RInv'
  <2>1. ASSUME UNCHANGED <<record, jobs>> PROVE RInv'
    <3>1. \A k : JobsFor(k)' = JobsFor(k) /\ AllPackaged(k)' <=> AllPackaged(k)
      BY <2>1 DEF JobsFor, AllPackaged
    <3> QED
      BY <1>2, <2>1 DEF RInv, JobsReported, RecordsOfJobs, PackagedIsCachedIfNumeric,
         JobsFor, AllPackaged
  <2>2. ASSUME NEW r \in Requests, RequestStep(r) PROVE UNCHANGED <<record, jobs>>
    BY <2>2 DEF RequestStep, HandleVast, HandleVmap, Receive, AdServerFails, Answer,
       FindMissingAndDispatchJobs, FindMissingPanics, PreIngest
  <2>3. ASSUME NEW urls \in SUBSET Blacklisted, HandleBlackList(urls)
        PROVE UNCHANGED <<record, jobs>>
    BY <2>3 DEF HandleBlackList
  <2>4. UNCHANGED vars => UNCHANGED <<record, jobs>>
    BY DEF vars
  <2> QED
    BY <1>2, <2>1, <2>2, <2>3, <2>4, CallbackRecords, CreateJobRecords DEF Next
<1> QED
  BY <1>1, <1>2, DInvInit, DInvStep, PTL DEF Spec

(* Once all jobs for a creative have led to playlists, and their frame     *)
(* rates are numbers, its record says so and names one of them: for any    *)
(* number of jobs for one key, in any order of their callbacks             *)
(* (HandleTranscodeCompleted, HandlePackagingSuccess).                     *)
THEOREM PackagedCached == Spec => []PackagedIsCachedIfNumeric
<1>1. DInv /\ RInv => PackagedIsCachedIfNumeric
  BY DEF RInv
<1> QED
  BY <1>1, RecordsInvariance, PTL

-----------------------------------------------------------------------------
(* Documents.                                                              *)

(* Each ad of a document comes from one of the ad break received, now with *)
(* a playlist made for its key.                                            *)
ListsPlaylists(field, made, from, ads) ==
    /\ IsSequence(ads)
    /\ \A i \in DOMAIN ads : \E j \in DOMAIN from : \E n \in DOMAIN made :
          /\ CanKey(field, from[j]) /\ from[j].creatives # <<>>
          /\ made[n].state = "packaged" /\ made[n].key = GetKey(field, from[j])
          /\ ads[i] = PlaylistAd(from[j], Playlist(n))

(* An ad break is as it was received until it is rewritten, once.          *)
RequestOK(field, made, q) ==
    /\ DOMAIN q.fetched = DOMAIN q.breaks /\ q.open \subseteq DOMAIN q.breaks
    /\ q.phase \in {"new", "rewriting", "answered", "failed", "lost"}
    /\ q.kind \in {"vast", "vmap", "preingest"}
    /\ q.phase = "new" => DOMAIN q.breaks = {}
    /\ q.phase = "answered" => q.open = {}
    /\ q.kind = "vast" /\ q.phase \in {"rewriting", "answered"} => DOMAIN q.breaks = {1}
    /\ \A b \in DOMAIN q.fetched : q.fetched[b] \in AdBreaks
    /\ \A b \in q.open : q.breaks[b] = q.fetched[b]
    /\ \A b \in DOMAIN q.breaks \ q.open :
          ListsPlaylists(field, made, q.fetched[b], q.breaks[b])

RequestsOK == \A r \in Requests : RequestOK(keyField, jobs, request[r])

(* A goroutine was started for an ad break that is done, or never will be. *)
DispatchesOK ==
    \A d \in dispatching :
        /\ d.request \in Requests /\ d.key \in Keys /\ d.input \in UrlsOf(d.key)
        /\ request[d.request].phase # "new"
        /\ request[d.request].phase = "rewriting" => d.break \notin request[d.request].open

(* Jobs have URLs that are known under their keys.                         *)
JobsKnown ==
    \A n \in DOMAIN jobs : jobs[n].key \in Keys /\ jobs[n].input \in UrlsOf(jobs[n].key)

(* The settings are some of those there are.                               *)
SettingsOK == keyField \in KeyFields /\ jitPackage \in JitPackages

QInv == SettingsOK /\ RequestsOK /\ DispatchesOK /\ JobsKnown

(* The loop finds the URL that has been defined without one.               *)
LEMMA BestUrlFound ==
    ASSUME NEW ad \in Ad
    PROVE  GetBestMediaFileFromVastAd(ad).text = BestUrl(ad)
<1> DEFINE files == MediaFiles(ad)
           places == {i \in DOMAIN files :
                        /\ files[i].bitrate > 0
                        /\ \A j \in DOMAIN files :
                              \/ files[j].bitrate < files[i].bitrate
                              \/ files[j].bitrate = files[i].bitrate /\ i <= j}
<1>1. /\ files \in Seq(MediaFile) /\ HaveBitrates(MediaFile)
      /\ GetBestMediaFileFromVastAd(ad) = BestOf(files, DOMAIN files)
  BY BestOfAd
<1>2. BestUrl(ad) = IF places = {} THEN "" ELSE files[CHOOSE i \in places : TRUE].text
  BY DEF BestUrl
<1> HIDE DEF files
<1>3. \A i : i \in places <=> IsBest(files, DOMAIN files, i)
  BY DEF IsBest
<1> HIDE DEF places
<1>4. CASE places = {}
  <2>1. \A i \in DOMAIN files : ~(files[i].bitrate > 0)
    BY <1>1, <1>3, <1>4, BestExists
  <2>2. BestOf(files, DOMAIN files) = NoMediaFile
    BY <1>1, <2>1, BestIs
  <2>3. NoMediaFile.text = ""
    BY DEF NoMediaFile
  <2> QED
    BY <1>1, <1>2, <1>4, <2>2, <2>3
<1>5. CASE places # {}
  <2>1. (CHOOSE i \in places : TRUE) \in places
    BY <1>5
  <2>2. BestOf(files, DOMAIN files) = files[CHOOSE i \in places : TRUE]
    BY <1>1, <1>3, <2>1, BestIs
  <2> QED
    BY <1>1, <1>2, <1>5, <2>2
<1> QED
  BY <1>4, <1>5

(* The map of creatives has the keys of the ads, with their own URLs.      *)
LEMMA CreativesOfAds ==
    ASSUME NEW ads \in AdBreaks
    PROVE  /\ DOMAIN GetCreatives(ads, keyField) = {GetKey(keyField, ads[i]) : i \in DOMAIN ads}
           /\ \A k \in DOMAIN GetCreatives(ads, keyField) : \E i \in DOMAIN ads :
                 /\ GetKey(keyField, ads[i]) = k
                 /\ GetCreatives(ads, keyField)[k] = BestUrl(ads[i])
<1> DEFINE keys == [i \in DOMAIN ads |-> GetKey(keyField, ads[i])]
           urls == [i \in DOMAIN ads |-> GetBestMediaFileFromVastAd(ads[i]).text]
<1>1. IsSequence(ads) /\ \A i \in DOMAIN ads : ads[i] \in Ad
  BY BreaksAreSequences
<1>2. IsSequence(keys)
  <2>1. keys = [i \in DOMAIN ads |-> keys[i]]
    OBVIOUS
  <2> QED
    BY <1>1, <2>1, SequenceOf
<1>3. GetCreatives(ads, keyField) = MapOf(keys, urls)
  BY DEF GetCreatives
<1>4. DOMAIN MapOf(keys, urls) = {GetKey(keyField, ads[i]) : i \in DOMAIN ads}
  BY DEF MapOf, ToSet
<1>5. ASSUME NEW k \in DOMAIN GetCreatives(ads, keyField)
      PROVE  \E i \in DOMAIN ads : /\ GetKey(keyField, ads[i]) = k
                                   /\ GetCreatives(ads, keyField)[k] = BestUrl(ads[i])
  <2>1. PICK i \in DOMAIN keys :
           keys[i] = k /\ GetCreatives(ads, keyField)[k] = urls[i]
    BY <1>2, <1>3, MapProperties
  <2>2. urls[i] = BestUrl(ads[i])
    BY <1>1, BestUrlFound
  <2> QED
    BY <2>1, <2>2
<1> QED
  BY <1>3, <1>4, <1>5

(* A record that says COMPLETED names the playlist of a job for its key.   *)
LEMMA CompletedNamesPlaylist ==
    ASSUME RInv, NEW k \in Keys, record[k].status = "COMPLETED"
    PROVE  \E n \in DOMAIN jobs : /\ jobs[n].key = k /\ jobs[n].state = "packaged"
                                  /\ record[k].url = Playlist(n)
<1>1. record[k] # Absent /\ record[k] # Queued(record[k].source)
  <2>1. Absent.status = "NONE" /\ \A u : Queued(u).status = "QUEUED"
    BY DEF Absent, Queued
  <2> QED
    BY <2>1
<1>2. PICK n \in JobsFor(k) : record[k] = Shown(jobs[n], n)
  BY <1>1 DEF RInv, RecordsOfJobs
<1>3. jobs[n].state = "packaged" /\ record[k].url = Playlist(n)
  BY <1>2, ShownProperties
<1> QED
  BY <1>3 DEF JobsFor

(* What a rewritten ad break lists are playlists made for its ads.         *)
LEMMA RewritingLists ==
    ASSUME RInv, SettingsOK, NEW ads \in AdBreaks, Rewritable(ads)
    PROVE  ListsPlaylists(keyField, jobs, ads,
              ReplaceMediaFiles(ads, Found(GetCreatives(ads, keyField)), keyField))
<1> DEFINE found == Found(GetCreatives(ads, keyField))
           I == {i \in DOMAIN ads : GetKey(keyField, ads[i]) \in DOMAIN found}
           kept == Keep(ads, I)
           new == ReplaceMediaFiles(ads, found, keyField)
<1>1. /\ IsSequence(kept)
      /\ \A n \in DOMAIN kept : Nth(I, n) \in I /\ kept[n] = ads[Nth(I, n)]
  <2>1. I \in SUBSET DOMAIN ads
    OBVIOUS
  <2> HIDE DEF I
  <2> QED
    BY <2>1, BreaksAreSequences, KeepProperties
<1>2. new = [i \in DOMAIN kept |-> PlaylistAd(kept[i], found[GetKey(keyField, kept[i])])]
  BY DEF ReplaceMediaFiles
<1> HIDE DEF kept, new
<1>3. IsSequence(new)
  <2>1. new = [i \in DOMAIN kept |-> new[i]]
    BY <1>2
  <2> QED
    BY <1>1, <2>1, SequenceOf
<1>4. ASSUME NEW i \in DOMAIN new
      PROVE  \E j \in DOMAIN ads : \E n \in DOMAIN jobs :
                /\ CanKey(keyField, ads[j]) /\ ads[j].creatives # <<>>
                /\ jobs[n].state = "packaged" /\ jobs[n].key = GetKey(keyField, ads[j])
                /\ new[i] = PlaylistAd(ads[j], Playlist(n))
  <2> DEFINE j == Nth(I, i)
             k == GetKey(keyField, ads[j])
  <2>1. j \in DOMAIN ads /\ k \in DOMAIN found
    BY <1>1, <1>2
  <2>2. new[i] = PlaylistAd(ads[j], found[k])
    BY <1>1, <1>2
  <2>3. CanKey(keyField, ads[j]) /\ ads[j].creatives # <<>>
    BY <2>1 DEF Rewritable, Keyable, CanReplace
  <2>4. k \in Keys
    BY <2>1, <2>3, KeysAssumption DEF SettingsOK
  <2>5. record[k].status = "COMPLETED" /\ found[k] = record[k].url
    BY <2>1 DEF Found
  <2> HIDE DEF j, k, found, I
  <2>6. PICK n \in DOMAIN jobs : /\ jobs[n].key = k /\ jobs[n].state = "packaged"
                                 /\ record[k].url = Playlist(n)
    BY <2>4, <2>5, CompletedNamesPlaylist
  <2> QED
    BY <2>1, <2>2, <2>3, <2>5, <2>6 DEF k
<1> QED
  BY <1>3, <1>4 DEF ListsPlaylists, new

(* A job that has been created stays, and so does its playlist.            *)
JobsKept ==
    \A n \in DOMAIN jobs :
        /\ n \in DOMAIN jobs' /\ jobs'[n].key = jobs[n].key /\ jobs'[n].input = jobs[n].input
        /\ jobs[n].state = "packaged" => jobs'[n].state = "packaged"

(* No step takes a job away, or the playlist of one.                       *)
LEMMA JobsAreKept ==
    ASSUME DInv, [Next]_vars
    PROVE  JobsKept /\ UNCHANGED config
<1>1. ASSUME NEW n \in DOMAIN jobs, CallbackStep(n)
      PROVE  JobsKept /\ UNCHANGED config
  <2>1. PICK job, info : /\ jobs' = [jobs EXCEPT ![n] = job]
                         /\ CallbackResult(n, job, info)
    BY <1>1, CallbackEffect
  <2>2. job.key = jobs[n].key /\ job.input = jobs[n].input /\ jobs[n].state # "packaged"
    BY <2>1 DEF CallbackResult
  <2>3. \A m \in DOMAIN jobs : m \in DOMAIN jobs' /\ jobs'[m] = IF m = n THEN job ELSE jobs[m]
    BY <2>1
  <2>4. UNCHANGED config
    BY <1>1 DEF CallbackStep, HandleTranscodeCompleted, HandleTranscodeFailed,
       HandlePackagingSuccess, HandlePackagingFailure
  <2> QED
    BY <2>2, <2>3, <2>4 DEF JobsKept
<1>2. ASSUME NEW d \in dispatching, CreateJob(d)
      PROVE  JobsKept /\ UNCHANGED config
  <2>1. IsSequence(jobs)
    BY DEF DInv, Shapes
  <2>2. /\ \A m \in DOMAIN jobs' : m \in DOMAIN jobs => jobs'[m] = jobs[m]
        /\ DOMAIN jobs \subseteq DOMAIN jobs'
    <3> DEFINE job == [key |-> d.key, input |-> d.input, outputs |-> <<>>,
                       state |-> "transcoding"]
    <3>1. jobs' = Append(jobs, job)
      BY <1>2 DEF CreateJob
    <3>2. DOMAIN jobs = 1 .. Len(jobs) /\ Len(jobs) \in Nat /\ Len(jobs') = Len(jobs) + 1
          /\ DOMAIN jobs' = 1 .. Len(jobs')
      BY <2>1, <3>1 DEF IsSequence
    <3> QED
      BY <2>1, <3>1, <3>2, Appended
  <2>3. UNCHANGED config
    BY <1>2 DEF CreateJob
  <2> QED
    BY <2>2, <2>3 DEF JobsKept
<1>3. ASSUME NEW r \in Requests, RequestStep(r)
      PROVE  UNCHANGED <<config, jobs>>
  BY <1>3 DEF RequestStep, HandleVast, HandleVmap, Receive, AdServerFails, Answer,
     FindMissingAndDispatchJobs, FindMissingPanics, PreIngest
<1>4. ASSUME NEW urls \in SUBSET Blacklisted, HandleBlackList(urls)
      PROVE  UNCHANGED <<config, jobs>>
  BY <1>4 DEF HandleBlackList
<1>5. UNCHANGED vars => UNCHANGED <<config, jobs>>
  BY DEF vars
<1>6. UNCHANGED <<config, jobs>> => JobsKept /\ UNCHANGED config
  BY DEF JobsKept
<1> QED
  BY <1>1, <1>2, <1>3, <1>4, <1>5, <1>6 DEF Next

(* So a document that lists playlists goes on to.                          *)
LEMMA RequestKept ==
    ASSUME JobsKept, UNCHANGED config, NEW q, RequestOK(keyField, jobs, q)
    PROVE  RequestOK(keyField', jobs', q)
<1>1. keyField' = keyField
  BY DEF config
<1>2. ASSUME NEW b \in DOMAIN q.breaks \ q.open
      PROVE  ListsPlaylists(keyField', jobs', q.fetched[b], q.breaks[b])
  BY <1>1 DEF RequestOK, ListsPlaylists, JobsKept
<1> QED
  BY <1>1, <1>2 DEF RequestOK

(* Every step of a request leaves all requests in order.                   *)
LEMMA RequestStepOK ==
    ASSUME DInv, RInv, SettingsOK, RequestsOK, NEW r \in Requests, RequestStep(r),
           NEW q \in Requests
    PROVE  RequestOK(keyField, jobs, request'[q])
<1>1. /\ DOMAIN request = Requests
      /\ \A x \in Requests : DOMAIN request[x] = DOMAIN NewRequest
      /\ \A x \in Requests : RequestOK(keyField, jobs, request[x])
  BY DEF DInv, Shapes, RequestsOK
<1>2. ASSUME NEW kind \in {"vast", "vmap"}, NEW breaks,
             \A b \in DOMAIN breaks : breaks[b] \in AdBreaks,
             kind = "vast" => DOMAIN breaks = {1},
             Receive(r, kind, breaks)
      PROVE  RequestOK(keyField, jobs, request'[q])
  <2> DEFINE new == [NewRequest EXCEPT !.phase = "rewriting", !.kind = kind,
                        !.fetched = breaks, !.breaks = breaks, !.open = DOMAIN breaks]
  <2>1. request' = [request EXCEPT ![r] = new]
    BY <1>2 DEF Receive
  <2>2. /\ new.phase = "rewriting" /\ new.kind = kind /\ new.fetched = breaks
        /\ new.breaks = breaks /\ new.open = DOMAIN breaks
    BY DEF NewRequest
  <2> HIDE DEF new
  <2>3. RequestOK(keyField, jobs, new)
    BY <1>2, <2>2 DEF RequestOK
  <2> QED
    BY <1>1, <2>1, <2>3
<1>3. ASSUME NEW ads \in VastDocuments, NEW filler \in Fillers, HandleVast(r, ads, filler)
      PROVE  RequestOK(keyField, jobs, request'[q])
  <2> DEFINE whole == WithFiller(ads, filler)
  <2>1. whole \in AdBreaks
    BY DEF AdBreaks
  <2>2. Receive(r, "vast", <<whole>>)
    BY <1>3 DEF HandleVast
  <2> HIDE DEF whole
  <2>3. DOMAIN <<whole>> = {1} /\ \A b \in DOMAIN <<whole>> : <<whole>>[b] \in AdBreaks
    BY <2>1
  <2> QED
    BY <1>2, <2>2, <2>3
<1>4. ASSUME NEW breaks \in VmapDocuments, HandleVmap(r, breaks)
      PROVE  RequestOK(keyField, jobs, request'[q])
  <2>1. \A b \in DOMAIN breaks : breaks[b] \in AdBreaks
    BY DEF AdBreaks, ToSet
  <2>2. Receive(r, "vmap", breaks)
    BY <1>4 DEF HandleVmap
  <2> QED
    BY <1>2, <2>1, <2>2
<1>5. ASSUME NEW x \in Requests, NEW phase \in {"answered", "failed", "lost"},
             request'[x] = [request[x] EXCEPT !.phase = phase],
             request[x].phase # "answered",
             phase = "answered" => request[x].phase = "rewriting" /\ request[x].open = {}
      PROVE  RequestOK(keyField, jobs, request'[x])
  <2>1. /\ request'[x].phase = phase /\ request'[x].kind = request[x].kind
        /\ request'[x].fetched = request[x].fetched /\ request'[x].breaks = request[x].breaks
        /\ request'[x].open = request[x].open
    BY <1>1, <1>5 DEF NewRequest
  <2> QED
    BY <1>1, <1>5, <2>1 DEF RequestOK
<1>6. CASE AdServerFails(r) \/ Answer(r)
  <2>1. CASE AdServerFails(r)
    <3>1. request' = [request EXCEPT ![r].phase = "failed"] /\ request[r].phase = "new"
      BY <2>1 DEF AdServerFails
    <3> QED
      BY <1>1, <1>5, <3>1
  <2>2. CASE Answer(r)
    <3>1. /\ request' = [request EXCEPT ![r].phase = "answered"]
          /\ request[r].phase = "rewriting" /\ request[r].open = {}
      BY <2>2 DEF Answer, AllBreaksDone
    <3> QED
      BY <1>1, <1>5, <3>1
  <2> QED
    BY <1>6, <2>1, <2>2
<1>7. ASSUME NEW b \in request[r].open, FindMissingAndDispatchJobs(r, b)
      PROVE  RequestOK(keyField, jobs, request'[q])
  <2> DEFINE ads == request[r].breaks[b]
             new == ReplaceMediaFiles(ads, Found(GetCreatives(ads, keyField)), keyField)
  <2>1. /\ ads = request[r].fetched[b] /\ ads \in AdBreaks /\ b \in DOMAIN request[r].breaks
    BY <1>1 DEF RequestOK
  <2>2. Rewritable(ads)
    BY <1>7 DEF FindMissingAndDispatchJobs
  <2>3. ListsPlaylists(keyField, jobs, request[r].fetched[b], new)
    <3> HIDE DEF ads
    <3> QED
      BY <2>1, <2>2, RewritingLists
  <2>4. /\ request'[r].phase = request[r].phase /\ request'[r].kind = request[r].kind
        /\ request'[r].fetched = request[r].fetched
        /\ request'[r].breaks = [request[r].breaks EXCEPT ![b] = new]
        /\ request'[r].open = request[r].open \ {b}
        /\ request[r].phase = "rewriting"
        /\ \A x \in Requests \ {r} : request'[x] = request[x]
    BY <1>1, <1>7 DEF FindMissingAndDispatchJobs, NewRequest
  <2> HIDE DEF new, ads
  <2>5. /\ DOMAIN request'[r].breaks = DOMAIN request[r].breaks
        /\ request'[r].breaks[b] = new
        /\ \A c \in DOMAIN request[r].breaks \ {b} :
              request'[r].breaks[c] = request[r].breaks[c]
    BY <2>1, <2>4
  <2>6. RequestOK(keyField, jobs, request'[r])
    <3>1. \A c \in DOMAIN request[r].breaks \ (request[r].open \ {b}) :
             ListsPlaylists(keyField, jobs, request'[r].fetched[c], request'[r].breaks[c])
      BY <1>1, <2>3, <2>4, <2>5 DEF RequestOK
    <3>2. \A c \in request'[r].open : request'[r].breaks[c] = request'[r].fetched[c]
      BY <1>1, <2>4, <2>5 DEF RequestOK
    <3> QED
      BY <1>1, <2>4, <2>5, <3>1, <3>2 DEF RequestOK
  <2> QED
    BY <1>1, <2>4, <2>6
<1>8. ASSUME NEW b \in request[r].open, FindMissingPanics(r, b)
      PROVE  RequestOK(keyField, jobs, request'[q])
  <2>1. CASE request[r].kind = "vmap"
    <3>1. request' = [x \in Requests |-> IF request[x].phase = "rewriting"
                                         THEN [request[x] EXCEPT !.phase = "lost"]
                                         ELSE request[x]]
      BY <1>8, <2>1 DEF FindMissingPanics
    <3>2. CASE request[q].phase = "rewriting"
      BY <1>5, <3>1, <3>2
    <3>3. CASE request[q].phase # "rewriting"
      BY <1>1, <3>1, <3>3
    <3> QED
      BY <3>2, <3>3
  <2>2. CASE request[r].kind # "vmap"
    <3>1. /\ request' = [request EXCEPT ![r].phase = "failed"]
          /\ request[r].phase = "rewriting"
      BY <1>8, <2>2 DEF FindMissingPanics
    <3> QED
      BY <1>1, <1>5, <3>1
  <2> QED
    BY <2>1, <2>2
<1>9. ASSUME NEW urls \in PreIngests, PreIngest(r, urls)
      PROVE  RequestOK(keyField, jobs, request'[q])
  <2>1. /\ request'[r].phase = "answered" /\ request'[r].kind = "preingest"
        /\ request'[r].fetched = <<>> /\ request'[r].breaks = <<>> /\ request'[r].open = {}
        /\ \A x \in Requests \ {r} : request'[x] = request[x]
    BY <1>1, <1>9 DEF PreIngest, NewRequest
  <2>2. RequestOK(keyField, jobs, request'[r])
    BY <2>1 DEF RequestOK
  <2> QED
    BY <1>1, <2>1, <2>2
<1> QED
  BY <1>3, <1>4, <1>6, <1>7, <1>8, <1>9 DEF RequestStep

-----------------------------------------------------------------------------
(* URLs and their keys.                                                    *)

(* The URL of each ad received is known under its key.                     *)
LEMMA AdIsKnown ==
    ASSUME NEW r \in Requests, NEW b \in DOMAIN request[r].fetched,
           NEW i \in DOMAIN request[r].fetched[b],
           CanKey(keyField, request[r].fetched[b][i])
    PROVE  BestUrl(request[r].fetched[b][i])
              \in UrlsOf(GetKey(keyField, request[r].fetched[b][i]))
<1> DEFINE fetched == request[r].fetched
           ad == fetched[b][i]
           p == <<b, i>>
<1>1. p \in {b} \X DOMAIN fetched[b]
  OBVIOUS
<1>2. p \in Positions(fetched)
  BY <1>1 DEF Positions
<1>3. AdAt(fetched, p) = ad
  BY DEF AdAt
<1>4. ad \in UNION {{AdAt(request[q].fetched, x) : x \in Positions(request[q].fetched)} :
                    q \in Requests}
  BY <1>2, <1>3
<1> QED
  BY <1>4 DEF UrlsOf

(* What has been received is not received anew.                            *)
FetchedKept ==
    \A r \in Requests : \A b \in DOMAIN request[r].fetched :
        /\ b \in DOMAIN request'[r].fetched
        /\ request'[r].fetched[b] = request[r].fetched[b]

(* So what is known remains known.                                         *)
LEMMA UrlsKept ==
    ASSUME FetchedKept, UNCHANGED config, NEW k, NEW u \in UrlsOf(k)
    PROVE  u \in UrlsOf(k)'
<1>1. keyField' = keyField
  BY DEF config
<1>2. ASSUME NEW r \in Requests
      PROVE  {AdAt(request[r].fetched, x) : x \in Positions(request[r].fetched)}
                \subseteq {AdAt(request'[r].fetched, x) : x \in Positions(request'[r].fetched)}
  <2> DEFINE fetched == request[r].fetched
             now == request'[r].fetched
  <2>1. \A b \in DOMAIN fetched : b \in DOMAIN now /\ now[b] = fetched[b]
    BY DEF FetchedKept
  <2> HIDE DEF fetched, now
  <2>2. ASSUME NEW x \in Positions(fetched)
        PROVE  x \in Positions(now) /\ AdAt(now, x) = AdAt(fetched, x)
    <3>1. PICK b \in DOMAIN fetched : x \in {b} \X DOMAIN fetched[b]
      BY DEF Positions
    <3>2. b \in DOMAIN now /\ now[b] = fetched[b] /\ x[1] = b
      BY <2>1, <3>1
    <3>3. x \in {b} \X DOMAIN now[b]
      BY <3>1, <3>2
    <3> QED
      BY <3>2, <3>3 DEF Positions, AdAt
  <2>3. {AdAt(fetched, x) : x \in Positions(fetched)}
           \subseteq {AdAt(now, x) : x \in Positions(now)}
    BY <2>2
  <2> QED
    BY <2>3 DEF fetched, now
<1> DEFINE ads == UNION {{AdAt(request[r].fetched, x) : x \in Positions(request[r].fetched)} :
                         r \in Requests}
           now == UNION {{AdAt(request'[r].fetched, x) : x \in Positions(request'[r].fetched)} :
                         r \in Requests}
           ingested == {v \in UNION {ToSet(urls) : urls \in PreIngests} : UrlToKey(v) = k}
<1>3. ads \subseteq now
  BY <1>2
<1>4. /\ UrlsOf(k) = {BestUrl(ad) : ad \in {x \in ads :
                         CanKey(keyField, x) /\ GetKey(keyField, x) = k}} \cup ingested
      /\ UrlsOf(k)' = {BestUrl(ad) : ad \in {x \in now :
                         CanKey(keyField, x) /\ GetKey(keyField, x) = k}} \cup ingested
  BY <1>1 DEF UrlsOf
<1> HIDE DEF ads, now, ingested
<1> QED
  BY <1>3, <1>4

(* A new goroutine knows what it has been started with.                    *)
DispatchKnown(d) ==
    d.request \in Requests /\ d.key \in Keys /\ d.input \in UrlsOf(d.key)

(* Those for the creatives of an ad break.                                 *)
LEMMA CreativesKnown ==
    ASSUME SettingsOK, RequestsOK, NEW r \in Requests, NEW b \in request[r].open,
           Keyable(request[r].breaks[b]),
           NEW k \in DOMAIN GetCreatives(request[r].breaks[b], keyField)
    PROVE  k \in Keys /\ GetCreatives(request[r].breaks[b], keyField)[k] \in UrlsOf(k)
<1> DEFINE ads == request[r].breaks[b]
<1>1. b \in DOMAIN request[r].fetched /\ ads = request[r].fetched[b] /\ ads \in AdBreaks
  BY DEF RequestsOK, RequestOK
<1>2. PICK i \in DOMAIN ads : /\ GetKey(keyField, ads[i]) = k
                              /\ GetCreatives(ads, keyField)[k] = BestUrl(ads[i])
  <2> HIDE DEF ads
  <2> QED
    BY <1>1, CreativesOfAds DEF ads
<1>3. CanKey(keyField, ads[i])
  BY DEF Keyable
<1>4. k \in Keys
  BY <1>1, <1>2, <1>3, KeysAssumption DEF SettingsOK
<1>5. BestUrl(ads[i]) \in UrlsOf(GetKey(keyField, ads[i]))
  BY <1>1, <1>3, AdIsKnown
<1> QED
  BY <1>2, <1>4, <1>5

(* Those for a list to pre-ingest.                                         *)
LEMMA IngestedKnown ==
    ASSUME NEW list \in PreIngests, NEW k \in DOMAIN MakeCreatives(list)
    PROVE  k \in Keys /\ MakeCreatives(list)[k] \in UrlsOf(k)
<1> DEFINE keys == [i \in DOMAIN list |-> UrlToKey(list[i])]
<1>1. IsSequence(keys)
  <2>1. keys = [i \in DOMAIN list |-> keys[i]]
    OBVIOUS
  <2> QED
    BY <2>1, SequenceOf, DocumentsAssumption
<1>2. MakeCreatives(list) = MapOf(keys, list)
  BY DEF MakeCreatives
<1>3. PICK i \in DOMAIN keys : keys[i] = k /\ MakeCreatives(list)[k] = list[i]
  BY <1>1, <1>2, MapProperties
<1>4. list[i] \in ToSet(list) /\ UrlToKey(list[i]) = k
  BY <1>3 DEF ToSet
<1>5. k \in Keys
  BY <1>4, KeysAssumption
<1>6. list[i] \in UrlsOf(k)
  BY <1>4 DEF UrlsOf
<1> QED
  BY <1>3, <1>5, <1>6

(* A step of a request starts goroutines that know their URLs, and that    *)
(* belong to an ad break that is done or never will be.                    *)
LEMMA DispatchesStepOK ==
    ASSUME DInv, QInv, NEW r \in Requests, RequestStep(r)
    PROVE  FetchedKept /\ DispatchesOK'
<1>1. /\ DOMAIN request = Requests
      /\ \A x \in Requests : DOMAIN request[x] = DOMAIN NewRequest
      /\ \A x \in Requests : RequestOK(keyField, jobs, request[x])
      /\ SettingsOK /\ RequestsOK
  BY DEF DInv, Shapes, QInv, RequestsOK
<1>2. UNCHANGED config
  BY DEF RequestStep, HandleVast, HandleVmap, Receive, AdServerFails, Answer,
         FindMissingAndDispatchJobs, FindMissingPanics, PreIngest
<1>3. ASSUME FetchedKept, NEW d \in dispatching',
             \/ /\ d \in dispatching
                /\ request'[d.request].phase # "new"
                /\ request'[d.request].phase = "rewriting" =>
                      d.break \notin request'[d.request].open
             \/ /\ DispatchKnown(d)
                /\ request'[d.request].phase # "new"
                /\ request'[d.request].phase = "rewriting" =>
                      d.break \notin request'[d.request].open
      PROVE  /\ d.request \in Requests /\ d.key \in Keys /\ d.input \in UrlsOf(d.key)'
             /\ request'[d.request].phase # "new"
             /\ request'[d.request].phase = "rewriting" =>
                   d.break \notin request'[d.request].open
  <2>1. d.request \in Requests /\ d.key \in Keys /\ d.input \in UrlsOf(d.key)
    BY <1>3 DEF QInv, DispatchesOK, DispatchKnown
  <2>2. d.input \in UrlsOf(d.key)'
    BY <1>2, <1>3, <2>1, UrlsKept
  <2> QED
    BY <1>3, <2>1, <2>2
<1>4. ASSUME NEW b, NEW creatives, DispatchJobs(r, b, creatives),
             \A k \in DOMAIN creatives : k \in Keys /\ creatives[k] \in UrlsOf(k)
      PROVE  \A d \in dispatching' \ dispatching :
                DispatchKnown(d) /\ d.request = r /\ d.break = b
  <2> SUFFICES ASSUME NEW d \in dispatching' \ dispatching
               PROVE  DispatchKnown(d) /\ d.request = r /\ d.break = b
    OBVIOUS
  <2>1. PICK k \in MissingKeys(creatives) :
           d = [request |-> r, break |-> b, key |-> k, input |-> creatives[k]]
    BY <1>4 DEF DispatchJobs
  <2>2. k \in DOMAIN creatives
    BY DEF MissingKeys, Allowed
  <2>3. d.request = r /\ d.break = b /\ d.key = k /\ d.input = creatives[k]
    BY <2>1
  <2> QED
    BY <1>4, <2>2, <2>3 DEF DispatchKnown
<1>5. ASSUME NEW kind, NEW breaks, Receive(r, kind, breaks)
      PROVE  FetchedKept /\ DispatchesOK'
  <2>1. /\ dispatching' = dispatching /\ request[r].phase = "new"
        /\ \A x \in Requests \ {r} : request'[x] = request[x]
    BY <1>1, <1>5 DEF Receive
  <2>2. FetchedKept
    BY <1>1, <2>1 DEF FetchedKept, RequestOK
  <2>3. \A d \in dispatching : d.request \in Requests \ {r}
    BY <2>1 DEF QInv, DispatchesOK
  <2>4. \A d \in dispatching :
           /\ request'[d.request].phase # "new"
           /\ request'[d.request].phase = "rewriting" =>
                 d.break \notin request'[d.request].open
    BY <2>1, <2>3 DEF QInv, DispatchesOK
  <2> QED
    BY <1>3, <2>1, <2>2, <2>4 DEF DispatchesOK
<1>6. CASE AdServerFails(r) \/ Answer(r)
  <2>1. /\ dispatching' = dispatching
        /\ \A x \in Requests : /\ request'[x].fetched = request[x].fetched
                               /\ request'[x].open = request[x].open
                               /\ request'[x].phase \in {request[x].phase, "failed", "answered"}
    BY <1>1, <1>6 DEF AdServerFails, Answer, NewRequest
  <2>2. FetchedKept
    BY <2>1 DEF FetchedKept
  <2>3. \A d \in dispatching :
           /\ request'[d.request].phase # "new"
           /\ request'[d.request].phase = "rewriting" =>
                 d.break \notin request'[d.request].open
    BY <2>1 DEF QInv, DispatchesOK
  <2> QED
    BY <1>3, <2>1, <2>2, <2>3 DEF DispatchesOK
<1>7. ASSUME NEW b \in request[r].open, FindMissingAndDispatchJobs(r, b)
      PROVE  FetchedKept /\ DispatchesOK'
  <2>1. /\ \A x \in Requests : /\ request'[x].fetched = request[x].fetched
                               /\ request'[x].open \subseteq request[x].open
                               /\ request'[x].phase = request[x].phase
        /\ b \notin request'[r].open /\ request[r].phase = "rewriting"
    BY <1>1, <1>7 DEF FindMissingAndDispatchJobs, NewRequest
  <2>2. FetchedKept
    BY <2>1 DEF FetchedKept
  <2>3. Keyable(request[r].breaks[b])
    BY <1>7 DEF FindMissingAndDispatchJobs, Rewritable
  <2>4. DispatchJobs(r, b, GetCreatives(request[r].breaks[b], keyField))
    BY <1>7 DEF FindMissingAndDispatchJobs
  <2>5. \A d \in dispatching' \ dispatching : DispatchKnown(d) /\ d.request = r /\ d.break = b
    BY <1>1, <1>4, <2>3, <2>4, CreativesKnown
  <2>6. \A d \in dispatching' :
           /\ request'[d.request].phase # "new"
           /\ request'[d.request].phase = "rewriting" =>
                 d.break \notin request'[d.request].open
    BY <2>1, <2>5 DEF QInv, DispatchesOK
  <2> QED
    BY <1>3, <2>2, <2>5, <2>6 DEF DispatchesOK
<1>8. ASSUME NEW b \in request[r].open, FindMissingPanics(r, b)
      PROVE  FetchedKept /\ DispatchesOK'
  <2>1. CASE request[r].kind = "vmap"
    <3>1. /\ request' = [x \in Requests |-> IF request[x].phase = "rewriting"
                                            THEN [request[x] EXCEPT !.phase = "lost"]
                                            ELSE request[x]]
          /\ dispatching' = {}
      BY <1>8, <2>1 DEF FindMissingPanics
    <3>2. \A x \in Requests : request'[x].fetched = request[x].fetched
      BY <1>1, <3>1 DEF NewRequest
    <3> QED
      BY <3>1, <3>2 DEF FetchedKept, DispatchesOK
  <2>2. CASE request[r].kind # "vmap"
    <3>1. /\ request' = [request EXCEPT ![r].phase = "failed"]
          /\ IF Keyable(request[r].breaks[b])
             THEN DispatchJobs(r, b, GetCreatives(request[r].breaks[b], keyField))
             ELSE UNCHANGED dispatching
      BY <1>8, <2>2 DEF FindMissingPanics
    <3>2. /\ \A x \in Requests : /\ request'[x].fetched = request[x].fetched
                                 /\ request'[x].open = request[x].open
                                 /\ request'[x].phase \in {request[x].phase, "failed"}
          /\ request'[r].phase = "failed"
      BY <1>1, <3>1 DEF NewRequest
    <3>3. FetchedKept
      BY <3>2 DEF FetchedKept
    <3>4. \A d \in dispatching' \ dispatching : DispatchKnown(d) /\ d.request = r
      <4>1. CASE Keyable(request[r].breaks[b])
        BY <1>1, <1>4, <3>1, <4>1, CreativesKnown
      <4>2. CASE ~Keyable(request[r].breaks[b])
        BY <3>1, <4>2
      <4> QED
        BY <4>1, <4>2
    <3>5. \A d \in dispatching' :
             /\ request'[d.request].phase # "new"
             /\ request'[d.request].phase = "rewriting" =>
                   d.break \notin request'[d.request].open
      BY <3>2, <3>4 DEF QInv, DispatchesOK
    <3> QED
      BY <1>3, <3>3, <3>4, <3>5 DEF DispatchesOK
  <2> QED
    BY <2>1, <2>2
<1>9. ASSUME NEW list \in PreIngests, PreIngest(r, list)
      PROVE  FetchedKept /\ DispatchesOK'
  <2>1. /\ request[r].phase = "new" /\ request'[r].phase = "answered"
        /\ \A x \in Requests \ {r} : request'[x] = request[x]
    BY <1>1, <1>9 DEF PreIngest, NewRequest
  <2>2. FetchedKept
    BY <1>1, <2>1 DEF FetchedKept, RequestOK
  <2>3. DispatchJobs(r, 1, MakeCreatives(list))
    BY <1>9 DEF PreIngest
  <2>4. \A d \in dispatching' \ dispatching : DispatchKnown(d) /\ d.request = r
    BY <1>4, <2>3, IngestedKnown
  <2>5. \A d \in dispatching' :
           /\ request'[d.request].phase # "new"
           /\ request'[d.request].phase = "rewriting" =>
                 d.break \notin request'[d.request].open
    BY <2>1, <2>4 DEF QInv, DispatchesOK
  <2> QED
    BY <1>3, <2>2, <2>4, <2>5 DEF DispatchesOK
<1> QED
  BY <1>5, <1>6, <1>7, <1>8, <1>9 DEF RequestStep, HandleVast, HandleVmap

(* Requests, goroutines and jobs are in order at the start, when there is  *)
(* only the configuration.                                                 *)
LEMMA QInvInit ==
    ASSUME Init
    PROVE  QInv
<1>1. \A r \in Requests : request[r] = NewRequest
  BY DEF Init
<1>2. RequestOK(keyField, jobs, NewRequest)
  <2>1. /\ NewRequest.phase = "new" /\ NewRequest.kind = "vast" /\ NewRequest.open = {}
        /\ NewRequest.fetched = <<>> /\ NewRequest.breaks = <<>>
    BY DEF NewRequest
  <2> QED
    BY <2>1 DEF RequestOK
<1>3. dispatching = {} /\ DOMAIN jobs = {} /\ SettingsOK
  BY DEF Init, SettingsOK
<1> QED
  BY <1>1, <1>2, <1>3 DEF QInv, RequestsOK, DispatchesOK, JobsKnown

(* Every step keeps them in order.                                         *)
LEMMA QInvStep ==
    ASSUME DInv, RInv, QInv, [Next]_vars
    PROVE  QInv'
<1>1. JobsKept /\ UNCHANGED config
  BY JobsAreKept
<1>2. SettingsOK'
  BY <1>1 DEF config, QInv, SettingsOK
<1>3. ASSUME UNCHANGED <<request>>
      PROVE  RequestsOK' /\ FetchedKept
  <2>1. \A r \in Requests : RequestOK(keyField', jobs', request[r])
    BY <1>1, RequestKept DEF QInv, RequestsOK
  <2> QED
    BY <1>3, <2>1 DEF RequestsOK, FetchedKept
<1>4. ASSUME UNCHANGED <<request>>, dispatching' \subseteq dispatching
      PROVE  DispatchesOK'
  <2>1. FetchedKept
    BY <1>3, <1>4
  <2>2. \A d \in dispatching : d.input \in UrlsOf(d.key)'
    BY <1>1, <2>1, UrlsKept DEF QInv, DispatchesOK
  <2> QED
    BY <1>4, <2>2 DEF QInv, DispatchesOK
<1>5. ASSUME FetchedKept, \A n \in DOMAIN jobs' : n \in DOMAIN jobs
      PROVE  JobsKnown'
  <2>1. ASSUME NEW k
        PROVE  \A u \in UrlsOf(k) : u \in UrlsOf(k)'
    BY <1>1, <1>5, UrlsKept
  <2>2. ASSUME NEW n \in DOMAIN jobs'
        PROVE  jobs'[n].key \in Keys /\ jobs'[n].input \in UrlsOf(jobs[n].key)'
    <3>1. /\ jobs'[n].key = jobs[n].key /\ jobs'[n].input = jobs[n].input
          /\ jobs[n].key \in Keys /\ jobs[n].input \in UrlsOf(jobs[n].key)
      BY <1>1, <1>5, <2>2 DEF JobsKept, QInv, JobsKnown
    <3>2. PICK k : k = jobs[n].key
      OBVIOUS
    <3>3. jobs[n].input \in UrlsOf(k)'
      BY <2>1, <3>1, <3>2
    <3>4. jobs'[n].key = k
      BY <3>1, <3>2
    <3> QED
      BY <3>1, <3>3, <3>4
  <2> QED
    BY <2>2 DEF JobsKnown
<1>6. ASSUME NEW r \in Requests, RequestStep(r)
      PROVE  QInv'
  <2>1. \A q \in Requests : RequestOK(keyField, jobs, request'[q])
    BY <1>6, RequestStepOK DEF QInv
  <2>2. FetchedKept /\ DispatchesOK'
    BY <1>6, DispatchesStepOK
  <2>3. UNCHANGED <<config, jobs>>
    BY <1>6 DEF RequestStep, HandleVast, HandleVmap, Receive, AdServerFails, Answer,
       FindMissingAndDispatchJobs, FindMissingPanics, PreIngest
  <2>4. RequestsOK'
    BY <2>1, <2>3 DEF RequestsOK, config
  <2>5. JobsKnown'
    BY <1>5, <2>2, <2>3
  <2> QED
    BY <1>2, <2>2, <2>4, <2>5 DEF QInv
<1>7. ASSUME NEW n \in DOMAIN jobs, CallbackStep(n)
      PROVE  QInv'
  <2>1. UNCHANGED <<dispatching, request>>
    BY <1>7 DEF CallbackStep, HandleTranscodeCompleted, HandleTranscodeFailed,
       HandlePackagingSuccess, HandlePackagingFailure
  <2>2. PICK job : jobs' = [jobs EXCEPT ![n] = job]
    BY <1>7, CallbackEffect
  <2>3. \A m \in DOMAIN jobs' : m \in DOMAIN jobs
    BY <2>2
  <2> QED
    BY <1>2, <1>3, <1>4, <1>5, <2>1, <2>3 DEF QInv
<1>8. ASSUME NEW d \in dispatching, CreateJob(d)
      PROVE  QInv'
  <2> DEFINE job == [key |-> d.key, input |-> d.input, outputs |-> <<>>, state |-> "transcoding"]
  <2>1. /\ request' = request /\ dispatching' \subseteq dispatching
        /\ jobs' = Append(jobs, job)
    BY <1>8 DEF CreateJob
  <2>2. \A m \in DOMAIN jobs' : jobs'[m] = IF m \in DOMAIN jobs THEN jobs[m] ELSE job
    BY <2>1, Appended DEF DInv, Shapes
  <2>3. FetchedKept
    BY <1>3, <2>1
  <2>4. job.key = d.key /\ job.input = d.input
    OBVIOUS
  <2> HIDE DEF job
  <2>5. ASSUME NEW m \in DOMAIN jobs', m \in DOMAIN jobs
        PROVE  jobs'[m].key \in Keys /\ jobs'[m].input \in UrlsOf(jobs[m].key)'
    <3>1. /\ jobs'[m].key = jobs[m].key /\ jobs'[m].input = jobs[m].input
          /\ jobs[m].key \in Keys /\ jobs[m].input \in UrlsOf(jobs[m].key)
      BY <2>2, <2>5 DEF QInv, JobsKnown
    <3>2. PICK k : k = jobs[m].key
      OBVIOUS
    <3>3. jobs[m].input \in UrlsOf(k)'
      BY <1>1, <2>3, <3>1, <3>2, UrlsKept
    <3>4. jobs'[m].key = k
      BY <3>1, <3>2
    <3> QED
      BY <3>1, <3>3, <3>4
  <2>6. d.key \in Keys /\ d.input \in UrlsOf(d.key)'
    BY <1>1, <2>3, UrlsKept DEF QInv, DispatchesOK
  <2>7. ASSUME NEW m \in DOMAIN jobs', m \notin DOMAIN jobs
        PROVE  jobs'[m].key \in Keys /\ jobs'[m].input \in UrlsOf(jobs[m].key)'
    <3>1. jobs'[m] = job
      BY <2>2, <2>7
    <3> QED
      BY <2>4, <2>6, <3>1
  <2>8. JobsKnown'
    BY <2>5, <2>7 DEF JobsKnown
  <2> QED
    BY <1>2, <1>3, <1>4, <2>1, <2>8 DEF QInv
<1>9. ASSUME UNCHANGED <<jobs, dispatching, request>>
      PROVE  QInv'
  BY <1>2, <1>3, <1>4, <1>5, <1>9 DEF QInv
<1>10. ASSUME NEW urls \in SUBSET Blacklisted, HandleBlackList(urls)
       PROVE  QInv'
  BY <1>9, <1>10 DEF HandleBlackList
<1> QED
  BY <1>6, <1>7, <1>8, <1>9, <1>10 DEF Next, vars

(* All of it holds at all times.                                           *)
LEMMA DocumentsInvariance == Spec => [](DInv /\ RInv /\ QInv)
BY QInvInit, QInvStep, RecordsInvariance, PTL DEF Spec

(* An ad of an answer is one of those received, found by its id.           *)
LEMMA AnsweredAd ==
    ASSUME QInv, NEW r \in Answered, NEW p \in Positions(request[r].breaks)
    PROVE  LET ad == AdAt(request[r].breaks, p)
               from == Original(r, p[1], ad)
           IN /\ p[1] \in DOMAIN request[r].fetched
              /\ \E j \in DOMAIN request[r].fetched[p[1]] : from = request[r].fetched[p[1]][j]
              /\ from \in Ad /\ CanKey(keyField, from) /\ from.creatives # <<>>
              /\ \E n \in MakeablePlaylists :
                    /\ jobs[n].key = GetKey(keyField, from)
                    /\ ad = PlaylistAd(from, Playlist(n))
<1> DEFINE q == request[r]
           b == p[1]
           ad == AdAt(q.breaks, p)
           from == q.fetched[b]
<1>1. b \in DOMAIN q.breaks /\ p[2] \in DOMAIN q.breaks[b] /\ ad = q.breaks[b][p[2]]
  BY DEF Positions, AdAt
<1>2. /\ b \in DOMAIN q.fetched /\ from \in AdBreaks
      /\ ListsPlaylists(keyField, jobs, from, q.breaks[b])
  BY <1>1 DEF Answered, QInv, RequestsOK, RequestOK
<1>3. PICK j \in DOMAIN from : \E n \in DOMAIN jobs :
         /\ CanKey(keyField, from[j]) /\ from[j].creatives # <<>>
         /\ jobs[n].state = "packaged" /\ jobs[n].key = GetKey(keyField, from[j])
         /\ ad = PlaylistAd(from[j], Playlist(n))
  BY <1>1, <1>2 DEF ListsPlaylists
<1>4. PICK n \in DOMAIN jobs :
         /\ CanKey(keyField, from[j]) /\ from[j].creatives # <<>>
         /\ jobs[n].state = "packaged" /\ jobs[n].key = GetKey(keyField, from[j])
         /\ ad = PlaylistAd(from[j], Playlist(n))
  BY <1>3
<1>5. from[j] \in Ad /\ \A i \in DOMAIN from : from[i].id = from[j].id => i = j
  BY <1>2, BreaksAreSequences, DocumentsAssumption DEF IsDocument
<1>6. ad.id = from[j].id
  <2> HIDE DEF ad, from
  <2> QED
    BY <1>4, <1>5, PlaylistListed
<1>7. Original(r, b, ad) = from[j]
  <2>1. Original(r, b, ad) = from[CHOOSE i \in DOMAIN from : from[i].id = ad.id]
    BY DEF Original
  <2> HIDE DEF ad, from, b
  <2>2. (CHOOSE i \in DOMAIN from : from[i].id = ad.id) = j
    BY <1>5, <1>6
  <2> QED
    BY <2>1, <2>2
<1>8. n \in MakeablePlaylists
  BY <1>4 DEF MakeablePlaylists
<1> HIDE DEF ad
<1> QED
  BY <1>2, <1>4, <1>5, <1>7, <1>8 DEF ad

(* Each ad of a response plays a playlist that exists, made for its key:   *)
(* for all documents, through any number of requests and callbacks in      *)
(* between (processVmap, ReplaceMediaFiles).                               *)
THEOREM PlaylistsAnswered == Spec => []OnlyPlaylistsAnswered
<1>1. ASSUME QInv PROVE OnlyPlaylistsAnswered
  <2> SUFFICES ASSUME NEW r \in Answered, NEW p \in Positions(request[r].breaks)
               PROVE  \E n \in MakeablePlaylists :
                         /\ Len(Listed(AdAt(request[r].breaks, p))) = 1
                         /\ Listed(AdAt(request[r].breaks, p))[1].text = Playlist(n)
                         /\ jobs[n].key = GetKey(keyField,
                               Original(r, p[1], AdAt(request[r].breaks, p)))
    BY DEF OnlyPlaylistsAnswered
  <2> DEFINE ad == AdAt(request[r].breaks, p)
             from == Original(r, p[1], ad)
  <2>1. /\ from \in Ad /\ from.creatives # <<>>
        /\ \E n \in MakeablePlaylists : /\ jobs[n].key = GetKey(keyField, from)
                                        /\ ad = PlaylistAd(from, Playlist(n))
    BY <1>1, AnsweredAd
  <2> HIDE DEF ad, from
  <2>2. PICK n \in MakeablePlaylists : /\ jobs[n].key = GetKey(keyField, from)
                                       /\ ad = PlaylistAd(from, Playlist(n))
    BY <2>1
  <2>3. /\ Listed(ad) = <<NewMediaFile(from, Playlist(n))>>
        /\ NewMediaFile(from, Playlist(n)).text = Playlist(n)
    BY <2>1, <2>2, PlaylistListed DEF Listed
  <2>4. Len(Listed(ad)) = 1 /\ Listed(ad)[1].text = Playlist(n)
    BY <2>3
  <2> QED
    BY <2>2, <2>4 DEF from, ad
<1> QED
  BY <1>1, DocumentsInvariance, PTL

(* Where a key belongs to one media file only, an ad plays what was        *)
(* transcoded from its own: for any key expression and settings            *)
(* (GetBestMediaFileFromVastAd, getKey, partitionCreatives, CreateJob).    *)
THEOREM OwnPlaylistPlayed == Spec => []OwnPlaylistIfKeyed
<1>1. ASSUME QInv PROVE OwnPlaylistIfKeyed
  <2> SUFFICES ASSUME NEW r \in Answered, NEW p \in Positions(request[r].breaks),
                      \A u, v \in UrlsOf(GetKey(keyField,
                          Original(r, p[1], AdAt(request[r].breaks, p)))) : u = v
               PROVE  PlaysItself(r, p)
    BY DEF OwnPlaylistIfKeyed
  <2> DEFINE ad == AdAt(request[r].breaks, p)
             from == Original(r, p[1], ad)
  <2>1. /\ p[1] \in DOMAIN request[r].fetched
        /\ \E j \in DOMAIN request[r].fetched[p[1]] : from = request[r].fetched[p[1]][j]
        /\ from \in Ad /\ CanKey(keyField, from) /\ from.creatives # <<>>
        /\ \E n \in MakeablePlaylists : /\ jobs[n].key = GetKey(keyField, from)
                                        /\ ad = PlaylistAd(from, Playlist(n))
    BY <1>1, AnsweredAd
  <2>2. BestUrl(from) \in UrlsOf(GetKey(keyField, from))
    BY <2>1, AdIsKnown DEF Answered
  <2>3. \A u, v \in UrlsOf(GetKey(keyField, from)) : u = v
    OBVIOUS
  <2>4. PlaysItself(r, p) <=> \E n \in MakeablePlaylists :
           Listed(ad)[1].text = Playlist(n) /\ jobs[n].input = BestUrl(from)
    BY DEF PlaysItself
  <2> HIDE DEF ad, from
  <2>5. PICK n \in MakeablePlaylists : /\ jobs[n].key = GetKey(keyField, from)
                                       /\ ad = PlaylistAd(from, Playlist(n))
    BY <2>1
  <2>6. Listed(ad)[1].text = Playlist(n)
    <3>1. /\ Listed(ad) = <<NewMediaFile(from, Playlist(n))>>
          /\ NewMediaFile(from, Playlist(n)).text = Playlist(n)
      BY <2>1, <2>5, PlaylistListed DEF Listed
    <3> QED
      BY <3>1
  <2>7. jobs[n].input \in UrlsOf(GetKey(keyField, from))
    BY <1>1, <2>5 DEF QInv, JobsKnown, MakeablePlaylists
  <2> QED
    BY <2>2, <2>3, <2>4, <2>6, <2>7
<1> QED
  BY <1>1, DocumentsInvariance, PTL

(* The JSON response has the playlists of the XML one, whatever is left in *)
(* the other creatives of an ad (ConvertToAssetDescriptionSlice).          *)
THEOREM JsonHasPlaylists == Spec => []JsonListsPlaylists
<1>1. ASSUME QInv PROVE JsonListsPlaylists
  <2> SUFFICES ASSUME NEW r \in Answered, request[r].kind = "vast",
                      NEW i \in DOMAIN request[r].breaks[1],
                      BestUrl(Original(r, 1, request[r].breaks[1][i])) # ""
               PROVE  ConvertToAssetDescriptionSlice(request[r].breaks[1])[i].uri =
                         Listed(request[r].breaks[1][i])[1].text
    BY DEF JsonListsPlaylists
  <2> DEFINE ad == request[r].breaks[1][i]
             from == Original(r, 1, ad)
             p == <<1, i>>
  <2>1. ConvertToAssetDescriptionSlice(request[r].breaks[1])[i].uri =
           GetBestMediaFileFromVastAd(ad).text
    BY DEF ConvertToAssetDescriptionSlice
  <2>2. 1 \in DOMAIN request[r].breaks
    BY <1>1 DEF Answered, QInv, RequestsOK, RequestOK
  <2>3. p \in Positions(request[r].breaks) /\ p[1] = 1 /\ AdAt(request[r].breaks, p) = ad
    <3>1. p \in {1} \X DOMAIN request[r].breaks[1]
      OBVIOUS
    <3>2. p \in Positions(request[r].breaks)
      <4> HIDE DEF p
      <4> QED
        BY <2>2, <3>1 DEF Positions
    <3>3. p[1] = 1 /\ p[2] = i
      OBVIOUS
    <3> HIDE DEF p
    <3> QED
      BY <3>2, <3>3 DEF AdAt
  <2> HIDE DEF p, ad
  <2>4. /\ from \in Ad /\ from.creatives # <<>>
        /\ \E n \in MakeablePlaylists : /\ jobs[n].key = GetKey(keyField, from)
                                        /\ ad = PlaylistAd(from, Playlist(n))
    BY <1>1, <2>3, AnsweredAd
  <2>5. BestUrl(from) # ""
    BY DEF ad
  <2> HIDE DEF from
  <2>6. PICK n \in MakeablePlaylists : ad = PlaylistAd(from, Playlist(n))
    BY <2>4
  <2>7. GetBestMediaFileFromVastAd(from) # NoMediaFile
    <3>1. NoMediaFile.text = ""
      BY DEF NoMediaFile
    <3> QED
      BY <2>4, <2>5, <3>1, BestUrlFound
  <2>8. GetBestMediaFileFromVastAd(ad) = NewMediaFile(from, Playlist(n))
    BY <2>4, <2>6, <2>7, PlaylistBest
  <2>9. Listed(ad) = <<NewMediaFile(from, Playlist(n))>>
    BY <2>4, <2>6, PlaylistListed DEF Listed
  <2>10. Listed(ad)[1] = NewMediaFile(from, Playlist(n))
    <3>1. \A x : <<x>>[1] = x
      OBVIOUS
    <3> QED
      BY <2>9, <3>1
  <2> QED
    BY <2>1, <2>8, <2>10 DEF ad
<1> QED
  BY <1>1, DocumentsInvariance, PTL

-----------------------------------------------------------------------------
(* What a step may do.                                                     *)

(* Only rewriting an ad break ends it.                                     *)
LEMMA RewritingStep ==
    ASSUME DInv, QInv, Next, NEW r \in Requests, NEW b \in request[r].open, Rewritten(r, b)
    PROVE  FindMissingAndDispatchJobs(r, b)
<1>1. /\ DOMAIN request = Requests
      /\ \A x \in Requests : DOMAIN request[x] = DOMAIN NewRequest
      /\ \A x \in Requests : request[x].phase = "new" => request[x].open = {}
  BY DEF DInv, Shapes, QInv, RequestsOK, RequestOK
<1>2. b \notin request'[r].open
  BY DEF Rewritten
<1>3. ASSUME NEW q \in Requests, NEW new, request[q].phase = "new",
             request' = [request EXCEPT ![q] = new]
      PROVE  FALSE
  BY <1>1, <1>2, <1>3
<1>4. ASSUME NEW q \in Requests, NEW phase, request' = [request EXCEPT ![q].phase = phase]
      PROVE  FALSE
  <2>1. request'[r].open = request[r].open
    BY <1>1, <1>4 DEF NewRequest
  <2> QED
    BY <1>2, <2>1
<1>5. ASSUME NEW q \in Requests, NEW c \in request[q].open, FindMissingPanics(q, c)
      PROVE  FALSE
  <2>1. CASE request[q].kind = "vmap"
    <3>1. request'[r] = IF request[r].phase = "rewriting"
                        THEN [request[r] EXCEPT !.phase = "lost"] ELSE request[r]
      BY <1>5, <2>1 DEF FindMissingPanics
    <3>2. request'[r].open = request[r].open
      BY <1>1, <3>1 DEF NewRequest
    <3> QED
      BY <1>2, <3>2
  <2>2. CASE request[q].kind # "vmap"
    BY <1>4, <1>5, <2>2 DEF FindMissingPanics
  <2> QED
    BY <2>1, <2>2
<1>6. ASSUME NEW q \in Requests, NEW c \in request[q].open, FindMissingAndDispatchJobs(q, c)
      PROVE  FindMissingAndDispatchJobs(r, b)
  <2> DEFINE new == ReplaceMediaFiles(request[q].breaks[c],
                       Found(GetCreatives(request[q].breaks[c], keyField)), keyField)
             figures == Figures(GetCreatives(request[q].breaks[c], keyField))
  <2>1. request' = [request EXCEPT ![q].breaks[c] = new, ![q].open = @ \ {c},
                       ![q].figures = AddFigures(@, figures)]
    BY <1>6 DEF FindMissingAndDispatchJobs
  <2> HIDE DEF new, figures
  <2>2. q = r
    BY <1>1, <1>2, <2>1
  <2>3. request'[r].open = request[r].open \ {c}
    BY <1>1, <2>1, <2>2 DEF NewRequest
  <2>4. c = b
    BY <1>2, <2>3
  <2> QED
    BY <1>6, <2>2, <2>4
<1>7. ASSUME UNCHANGED request PROVE FALSE
  BY <1>2, <1>7
<1>8. ASSUME NEW q \in Requests, RequestStep(q)
      PROVE  FindMissingAndDispatchJobs(r, b)
  <2>1. ASSUME NEW kind, NEW breaks, Receive(q, kind, breaks)
        PROVE  FALSE
    BY <1>3, <2>1 DEF Receive
  <2>2. ASSUME AdServerFails(q) \/ Answer(q)
        PROVE  FALSE
    BY <1>4, <2>2 DEF AdServerFails, Answer
  <2>3. ASSUME NEW urls, PreIngest(q, urls)
        PROVE  FALSE
    BY <1>3, <2>3 DEF PreIngest
  <2> QED
    BY <1>5, <1>6, <1>8, <2>1, <2>2, <2>3 DEF RequestStep, HandleVast, HandleVmap
<1>9. ASSUME NEW n \in DOMAIN jobs, CallbackStep(n)
      PROVE  UNCHANGED request
  BY <1>9 DEF CallbackStep, HandleTranscodeCompleted, HandleTranscodeFailed,
     HandlePackagingSuccess, HandlePackagingFailure
<1> QED
  BY <1>7, <1>8, <1>9 DEF Next, CreateJob, HandleBlackList

(* An ad with a key of its own has its own URL in the map of creatives.    *)
LEMMA OwnCreative ==
    ASSUME NEW ads \in AdBreaks, NEW i \in DOMAIN ads, KeyUnshared(ads, i)
    PROVE  LET k == GetKey(keyField, ads[i])
               creatives == GetCreatives(ads, keyField)
           IN k \in DOMAIN creatives /\ creatives[k] = BestUrl(ads[i])
<1> DEFINE k == GetKey(keyField, ads[i])
           creatives == GetCreatives(ads, keyField)
<1>1. k \in DOMAIN creatives
  BY CreativesOfAds
<1>2. PICK j \in DOMAIN ads : /\ GetKey(keyField, ads[j]) = k
                              /\ creatives[k] = BestUrl(ads[j])
  BY <1>1, CreativesOfAds
<1>3. j = i
  BY <1>2 DEF KeyUnshared
<1> QED
  BY <1>1, <1>2, <1>3

(* The ads that stay are those whose key was found.                        *)
LEMMA StaysIfFound ==
    ASSUME NEW ads \in AdBreaks, NEW found, CanReplace(ads, found, keyField),
           NEW i \in DOMAIN ads
    PROVE  LET new == ReplaceMediaFiles(ads, found, keyField)
           IN (\E x \in DOMAIN new : new[x].id = ads[i].id)
                 <=> GetKey(keyField, ads[i]) \in DOMAIN found
<1> DEFINE I == {j \in DOMAIN ads : GetKey(keyField, ads[j]) \in DOMAIN found}
           kept == Keep(ads, I)
           new == ReplaceMediaFiles(ads, found, keyField)
<1>1. /\ \A n \in DOMAIN kept : Nth(I, n) \in I /\ kept[n] = ads[Nth(I, n)]
      /\ \A j \in I : \E n \in DOMAIN kept : Nth(I, n) = j
  <2>1. I \in SUBSET DOMAIN ads
    OBVIOUS
  <2> HIDE DEF I
  <2> QED
    BY <2>1, BreaksAreSequences, KeepProperties
<1>2. new = [n \in DOMAIN kept |-> PlaylistAd(kept[n], found[GetKey(keyField, kept[n])])]
  BY DEF ReplaceMediaFiles
<1>3. \A j \in I : ads[j] \in Ad /\ ads[j].creatives # <<>>
  BY BreaksAreSequences DEF CanReplace
<1>4. \A j \in DOMAIN ads : ads[j].id = ads[i].id => j = i
  BY DocumentsAssumption DEF IsDocument
<1>5. i \in I <=> GetKey(keyField, ads[i]) \in DOMAIN found
  OBVIOUS
<1> HIDE DEF I, kept, new
<1>6. ASSUME NEW x \in DOMAIN new
      PROVE  new[x].id = ads[Nth(I, x)].id
  <2>1. /\ x \in DOMAIN kept
        /\ new[x] = PlaylistAd(kept[x], found[GetKey(keyField, kept[x])])
    BY <1>2
  <2>2. kept[x] = ads[Nth(I, x)] /\ kept[x] \in Ad /\ kept[x].creatives # <<>>
    BY <1>1, <1>3, <2>1
  <2>3. \A ad \in Ad : ad.creatives # <<>> => \A url : PlaylistAd(ad, url).id = ad.id
    BY PlaylistListed
  <2> QED
    BY <2>1, <2>2, <2>3
<1>7. DOMAIN new = DOMAIN kept
  BY <1>2
<1>8. ASSUME NEW x \in DOMAIN new, new[x].id = ads[i].id
      PROVE  i \in I
  <2>1. Nth(I, x) \in I /\ Nth(I, x) \in DOMAIN ads
    BY <1>1, <1>7 DEF I
  <2> QED
    BY <1>4, <1>6, <1>8, <2>1
<1>9. ASSUME i \in I
      PROVE  \E x \in DOMAIN new : new[x].id = ads[i].id
  BY <1>1, <1>6, <1>7, <1>9
<1> QED
  BY <1>5, <1>8, <1>9 DEF new

(* An ad with a key of its own is listed, or transcoded, by what cache and *)
(* blacklist say of it when its ad break is rewritten: for all documents,  *)
(* whatever else has been dispatched (findMissingAndDispatchJobs).         *)
THEOREM CacheAndBlacklistDecide == Spec => ListedIfCachedAndAllowed
<1> DEFINE Decides(r, b) ==
              LET ads == request[r].breaks[b] IN
              \A i \in DOMAIN ads : KeyUnshared(ads, i) =>
                  LET status == record[GetKey(keyField, ads[i])].status
                      allowed == BestUrl(ads[i]) \notin blacklist
                  IN /\ (\E x \in DOMAIN request'[r].breaks[b] :
                            request'[r].breaks[b][x].id = ads[i].id)
                           <=> (allowed /\ status = "COMPLETED")
                     /\ (\E d \in dispatching' :
                            /\ d.request = r /\ d.break = b
                            /\ d.key = GetKey(keyField, ads[i]))
                           <=> (allowed /\ status = "NONE")
<1>1. ASSUME DInv, QInv, Next, NEW r \in Requests, NEW b \in request[r].open, Rewritten(r, b),
             NEW i \in DOMAIN request[r].breaks[b], KeyUnshared(request[r].breaks[b], i)
      PROVE  LET ads == request[r].breaks[b]
                 status == record[GetKey(keyField, ads[i])].status
                 allowed == BestUrl(ads[i]) \notin blacklist
             IN /\ (\E x \in DOMAIN request'[r].breaks[b] :
                       request'[r].breaks[b][x].id = ads[i].id)
                      <=> (allowed /\ status = "COMPLETED")
                /\ (\E d \in dispatching' :
                       /\ d.request = r /\ d.break = b
                       /\ d.key = GetKey(keyField, ads[i]))
                      <=> (allowed /\ status = "NONE")
  <2> DEFINE ads == request[r].breaks[b]
             k == GetKey(keyField, ads[i])
             creatives == GetCreatives(ads, keyField)
             found == Found(creatives)
             new == ReplaceMediaFiles(ads, found, keyField)
             figures == Figures(creatives)
  <2>1. /\ DOMAIN request = Requests /\ DOMAIN request[r] = DOMAIN NewRequest
        /\ b \in DOMAIN request[r].breaks /\ ads \in AdBreaks
    BY <1>1 DEF DInv, Shapes, QInv, RequestsOK, RequestOK
  <2>2. FindMissingAndDispatchJobs(r, b)
    BY <1>1, RewritingStep
  <2>3. /\ request[r].phase = "rewriting" /\ CanReplace(ads, found, keyField)
        /\ request' = [request EXCEPT ![r].breaks[b] = new, ![r].open = @ \ {b},
                          ![r].figures = AddFigures(@, figures)]
        /\ dispatching' = dispatching \cup
              {[request |-> r, break |-> b, key |-> c, input |-> creatives[c]] :
                  c \in MissingKeys(creatives)}
    BY <2>2 DEF FindMissingAndDispatchJobs, Rewritable, DispatchJobs
  <2>4. request'[r].breaks[b] = new
    <3> HIDE DEF new, figures
    <3> QED
      BY <2>1, <2>3 DEF NewRequest
  <2>5. i \in DOMAIN ads /\ KeyUnshared(ads, i)
    BY <1>1
  <2> HIDE DEF ads
  <2>6. k \in DOMAIN creatives /\ creatives[k] = BestUrl(ads[i])
    BY <2>1, <2>5, OwnCreative
  <2>7. (\E x \in DOMAIN new : new[x].id = ads[i].id) <=> k \in DOMAIN found
    BY <2>1, <2>3, <2>5, StaysIfFound
  <2>8. /\ k \in DOMAIN found <=> BestUrl(ads[i]) \notin blacklist /\ record[k].status = "COMPLETED"
        /\ k \in MissingKeys(creatives) <=>
              BestUrl(ads[i]) \notin blacklist /\ record[k].status = "NONE"
    BY <2>6 DEF Found, MissingKeys, Allowed
  <2> HIDE DEF creatives, found, new, figures, k
  <2>9. (\E d \in dispatching' : d.request = r /\ d.break = b /\ d.key = k)
           <=> k \in MissingKeys(creatives)
    <3>1. ASSUME NEW d \in dispatching
          PROVE  ~(d.request = r /\ d.break = b)
      BY <1>1, <2>3 DEF QInv, DispatchesOK
    <3>2. ASSUME NEW d \in dispatching', d.request = r, d.break = b, d.key = k
          PROVE  k \in MissingKeys(creatives)
      <4>1. PICK c \in MissingKeys(creatives) :
               d = [request |-> r, break |-> b, key |-> c, input |-> creatives[c]]
        BY <2>3, <3>1, <3>2
      <4> QED
        BY <3>2, <4>1
    <3>3. ASSUME k \in MissingKeys(creatives)
          PROVE  \E d \in dispatching' : d.request = r /\ d.break = b /\ d.key = k
      <4> DEFINE d == [request |-> r, break |-> b, key |-> k, input |-> creatives[k]]
      <4>1. d \in dispatching' /\ d.request = r /\ d.break = b /\ d.key = k
        BY <2>3, <3>3
      <4> QED
        BY <4>1
    <3> QED
      BY <3>2, <3>3
  <2> QED
    BY <2>4, <2>7, <2>8, <2>9 DEF ads, k
<1>2. DInv /\ QInv /\ [Next]_vars =>
         [\A r \in Requests : \A b \in request[r].open :
             Rewritten(r, b) => Decides(r, b)]_vars
  BY <1>1
<1> QED
  BY <1>2, DocumentsInvariance, PTL DEF Spec, ListedIfCachedAndAllowed

-----------------------------------------------------------------------------
(* Figures.                                                                *)

(* The ads of the ad breaks that have been rewritten.                      *)
Done(breaks, open) == {p \in Positions(breaks) : p[1] \notin open}

KeysUnshared(field, breaks) ==
    \A b \in DOMAIN breaks : \A i, j \in DOMAIN breaks[b] :
        GetKey(field, breaks[b][j]) = GetKey(field, breaks[b][i]) => j = i

(* The figures add up for the ad breaks that have been rewritten.          *)
FiguresOK(field, q) ==
    /\ DOMAIN q.figures = DOMAIN NoFigures
    /\ q.figures.served \in Nat /\ q.figures.ingested \in Nat /\ q.figures.broken \in Nat
    /\ IsFiniteSet(Done(q.breaks, q.open)) /\ IsFiniteSet(Done(q.fetched, q.open))
    /\ KeysUnshared(field, q.fetched) =>
          /\ q.figures.served = Cardinality(Done(q.breaks, q.open))
          /\ q.figures.served + q.figures.ingested + q.figures.broken
                <= Cardinality(Done(q.fetched, q.open))

FiguresInv == \A r \in Requests : request[r].kind # "preingest" => FiguresOK(keyField, request[r])

(* Rewriting an ad break adds the ads that it has afterwards.              *)
LEMMA DoneBreak ==
    ASSUME NEW breaks, NEW open, NEW b \in open \cap DOMAIN breaks,
           NEW now, DOMAIN now = DOMAIN breaks,
           \A c \in DOMAIN breaks \ {b} : now[c] = breaks[c],
           IsFiniteSet(DOMAIN now[b]), IsFiniteSet(Done(breaks, open))
    PROVE  /\ IsFiniteSet(Done(now, open \ {b}))
           /\ Cardinality(Done(now, open \ {b})) =
                 Cardinality(Done(breaks, open)) + Cardinality(DOMAIN now[b])
           /\ Cardinality(Done(breaks, open)) \in Nat /\ Cardinality(DOMAIN now[b]) \in Nat
<1> DEFINE column == {b} \X DOMAIN now[b]
           before == Done(breaks, open)
           after == Done(now, open \ {b})
<1>1. \A p : p \in before <=>
         \E c \in DOMAIN breaks : c \notin open /\ p \in {c} \X DOMAIN breaks[c]
  BY DEF Done, Positions
<1>2. \A p : p \in after <=>
         \E c \in DOMAIN now : c \notin open \ {b} /\ p \in {c} \X DOMAIN now[c]
  BY DEF Done, Positions
<1>3. \A p \in column : p[1] = b
  OBVIOUS
<1>4. \A p \in before : p[1] # b
  BY DEF Done
<1> HIDE DEF before, after
<1>5. after = before \cup column
  <2>1. ASSUME NEW p \in after PROVE p \in before \cup column
    <3>1. PICK c \in DOMAIN now : c \notin open \ {b} /\ p \in {c} \X DOMAIN now[c]
      BY <1>2
    <3>2. CASE c = b
      BY <3>1, <3>2
    <3>3. CASE c # b
      <4>1. c \in DOMAIN breaks /\ c \notin open /\ now[c] = breaks[c]
        BY <3>1, <3>3
      <4> QED
        BY <1>1, <3>1, <4>1
    <3> QED
      BY <3>2, <3>3
  <2>2. ASSUME NEW p \in before PROVE p \in after
    <3>1. PICK c \in DOMAIN breaks : c \notin open /\ p \in {c} \X DOMAIN breaks[c]
      BY <1>1
    <3>2. c \in DOMAIN now /\ c \notin open \ {b} /\ now[c] = breaks[c]
      BY <3>1
    <3> QED
      BY <1>2, <3>1, <3>2
  <2>3. ASSUME NEW p \in column PROVE p \in after
    <3>1. b \in DOMAIN now /\ b \notin open \ {b}
      OBVIOUS
    <3> QED
      BY <1>2, <2>3, <3>1
  <2> QED
    BY <2>1, <2>2, <2>3
<1>6. IsFiniteSet(column) /\ Cardinality(column) = Cardinality(DOMAIN now[b])
  BY CountedPairs
<1>7. before \cap column = {}
  BY <1>3, <1>4
<1>8. IsFiniteSet(before)
  BY DEF before
<1> HIDE DEF column
<1>9. /\ IsFiniteSet(after) /\ Cardinality(after) = Cardinality(before) + Cardinality(column)
      /\ Cardinality(before) \in Nat /\ Cardinality(column) \in Nat
  BY <1>5, <1>6, <1>7, <1>8, CountedTogether
<1> QED
  BY <1>6, <1>9 DEF before, after

(* The figures of an ad break: what is missing, served and broken are      *)
(* different creatives, and as many are served as ads are listed unless    *)
(* ads share keys.                                                         *)
LEMMA FiguresOfBreak ==
    ASSUME NEW ads \in AdBreaks
    PROVE  LET creatives == GetCreatives(ads, keyField)
               f == Figures(creatives)
               new == ReplaceMediaFiles(ads, Found(creatives), keyField)
           IN /\ DOMAIN f = DOMAIN NoFigures
              /\ f.served \in Nat /\ f.ingested \in Nat /\ f.broken \in Nat
              /\ IsFiniteSet(DOMAIN ads) /\ IsFiniteSet(DOMAIN new)
              /\ (\A i, j \in DOMAIN ads :
                     GetKey(keyField, ads[j]) = GetKey(keyField, ads[i]) => j = i) =>
                    /\ f.served = Cardinality(DOMAIN new)
                    /\ f.served + f.ingested + f.broken <= Cardinality(DOMAIN ads)
<1> DEFINE creatives == GetCreatives(ads, keyField)
           f == Figures(creatives)
           served == DOMAIN Found(creatives)
           missing == MissingKeys(creatives)
           broken == DOMAIN creatives \ Allowed(creatives)
           new == ReplaceMediaFiles(ads, Found(creatives), keyField)
           key == [i \in DOMAIN ads |-> GetKey(keyField, ads[i])]
           I == {i \in DOMAIN ads : GetKey(keyField, ads[i]) \in served}
<1>1. /\ Len(ads) \in Nat /\ DOMAIN ads = 1 .. Len(ads) /\ IsFiniteSet(DOMAIN ads)
      /\ IsSequence(ads)
  <2>1. ads \in Seq(Ad) /\ IsSequence(ads)
    BY BreaksAreSequences
  <2>2. Len(ads) \in Nat /\ DOMAIN ads = 1 .. Len(ads)
    BY <2>1
  <2>3. IsFiniteSet(1 .. Len(ads))
    BY <2>2, FS_Interval
  <2> QED
    BY <2>1, <2>2, <2>3
<1>2. DOMAIN creatives = {key[i] : i \in DOMAIN ads}
  BY CreativesOfAds
<1>3. /\ IsFiniteSet(DOMAIN creatives)
      /\ Cardinality(DOMAIN creatives) <= Cardinality(DOMAIN ads)
  <2>1. DOMAIN key = DOMAIN ads
    OBVIOUS
  <2> HIDE DEF key
  <2> QED
    BY <1>1, <1>2, <2>1, CountedValues
<1>4. /\ served \subseteq DOMAIN creatives /\ missing \subseteq DOMAIN creatives
      /\ broken \subseteq DOMAIN creatives
      /\ served \cap missing = {} /\ (served \cup missing) \cap broken = {}
  BY DEF Found, MissingKeys, Allowed
<1>5. /\ f.served = Cardinality(served) /\ f.ingested = Cardinality(missing)
      /\ f.broken = Cardinality(broken) /\ DOMAIN f = DOMAIN NoFigures
  BY DEF Figures, NoFigures
<1>6. /\ DOMAIN new = 1 .. Cardinality(I) /\ Cardinality(I) \in Nat
  <2>1. I \in SUBSET DOMAIN ads
    OBVIOUS
  <2>2. DOMAIN new = DOMAIN Keep(ads, I)
    BY DEF ReplaceMediaFiles
  <2> HIDE DEF I, new
  <2> QED
    BY <1>1, <2>1, <2>2, KeepProperties
<1>7. IsFiniteSet(DOMAIN new) /\ Cardinality(DOMAIN new) = Cardinality(I)
  <2> HIDE DEF new, I
  <2> QED
    BY <1>6, FS_Interval
<1>8. IsFiniteSet(I) /\ served = {key[i] : i \in I}
  <2>1. I \in SUBSET DOMAIN ads
    OBVIOUS
  <2>2. \A i : i \in I <=> i \in DOMAIN ads /\ key[i] \in served
    OBVIOUS
  <2>3. served \subseteq {key[i] : i \in DOMAIN ads}
    BY <1>2, <1>4
  <2> HIDE DEF I, key, served
  <2>4. served = {key[i] : i \in I}
    BY <2>1, <2>2, <2>3
  <2> QED
    BY <1>1, <2>1, <2>4, FS_Subset
<1> HIDE DEF served, missing, broken, creatives, f, new
<1>9. /\ IsFiniteSet(served) /\ IsFiniteSet(missing) /\ IsFiniteSet(broken)
      /\ Cardinality(served) \in Nat /\ Cardinality(missing) \in Nat
      /\ Cardinality(broken) \in Nat /\ Cardinality(DOMAIN creatives) \in Nat
      /\ Cardinality(DOMAIN ads) \in Nat
  BY <1>1, <1>3, <1>4, FS_Subset, FS_CardinalityType
<1>10. Cardinality(served) + Cardinality(missing) + Cardinality(broken)
          <= Cardinality(DOMAIN creatives)
  <2>1. /\ IsFiniteSet(served \cup missing)
        /\ Cardinality(served \cup missing) = Cardinality(served) + Cardinality(missing)
    BY <1>4, <1>9, CountedTogether
  <2>2. Cardinality((served \cup missing) \cup broken) =
           Cardinality(served \cup missing) + Cardinality(broken)
    BY <1>4, <1>9, <2>1, CountedTogether
  <2>3. (served \cup missing) \cup broken \in SUBSET DOMAIN creatives
    BY <1>4
  <2>4. Cardinality((served \cup missing) \cup broken) <= Cardinality(DOMAIN creatives)
    BY <1>3, <2>3, FS_Subset
  <2> QED
    BY <2>1, <2>2, <2>4
<1>11. ASSUME \A i, j \in DOMAIN ads :
                 GetKey(keyField, ads[j]) = GetKey(keyField, ads[i]) => j = i
       PROVE  Cardinality(served) = Cardinality(I)
  <2> DEFINE kept == [i \in I |-> key[i]]
  <2>1. \A x, y \in I : kept[x] = kept[y] => x = y
    BY <1>11
  <2>2. served = {kept[i] : i \in I} /\ DOMAIN kept = I
    BY <1>8
  <2> HIDE DEF kept, I
  <2> QED
    BY <1>8, <2>1, <2>2, CountedValues
<1>12. Cardinality(served) + Cardinality(missing) + Cardinality(broken)
          <= Cardinality(DOMAIN ads)
  BY <1>3, <1>9, <1>10
<1> HIDE DEF I
<1>13. /\ f.served \in Nat /\ f.ingested \in Nat /\ f.broken \in Nat
       /\ f.served + f.ingested + f.broken <= Cardinality(DOMAIN ads)
  BY <1>5, <1>9, <1>12
<1> QED
  BY <1>1, <1>5, <1>7, <1>11, <1>13 DEF f, new, creatives

(* Rewriting an ad break keeps the figures right.                          *)
LEMMA RewritingFigures ==
    ASSUME DInv, QInv, NEW r \in Requests, NEW b \in request[r].open,
           FindMissingAndDispatchJobs(r, b), FiguresOK(keyField, request[r])
    PROVE  FiguresOK(keyField, request'[r])
<1> DEFINE q == request[r]
           ads == q.breaks[b]
           creatives == GetCreatives(ads, keyField)
           new == ReplaceMediaFiles(ads, Found(creatives), keyField)
           f == Figures(creatives)
           now == request'[r]
<1>1. /\ DOMAIN request = Requests /\ DOMAIN q = DOMAIN NewRequest
      /\ DOMAIN q.fetched = DOMAIN q.breaks
      /\ b \in DOMAIN q.breaks /\ ads = q.fetched[b] /\ ads \in AdBreaks
  BY DEF DInv, Shapes, QInv, RequestsOK, RequestOK
<1>2. /\ DOMAIN f = DOMAIN NoFigures
      /\ f.served \in Nat /\ f.ingested \in Nat /\ f.broken \in Nat
      /\ IsFiniteSet(DOMAIN ads) /\ IsFiniteSet(DOMAIN new)
      /\ (\A i, j \in DOMAIN ads :
             GetKey(keyField, ads[j]) = GetKey(keyField, ads[i]) => j = i) =>
            /\ f.served = Cardinality(DOMAIN new)
            /\ f.served + f.ingested + f.broken <= Cardinality(DOMAIN ads)
  <2> HIDE DEF ads
  <2> QED
    BY <1>1, FiguresOfBreak
<1>3. /\ now.fetched = q.fetched /\ now.open = q.open \ {b}
      /\ now.breaks = [q.breaks EXCEPT ![b] = new]
      /\ now.figures = AddFigures(q.figures, f)
  <2>1. request' = [request EXCEPT ![r].breaks[b] = new, ![r].open = @ \ {b},
                       ![r].figures = AddFigures(@, f)]
    BY DEF FindMissingAndDispatchJobs
  <2> HIDE DEF new, f
  <2> QED
    BY <1>1, <2>1 DEF NewRequest
<1> HIDE DEF new, f, creatives, ads, now
<1>4. /\ DOMAIN now.breaks = DOMAIN q.breaks /\ now.breaks[b] = new
      /\ \A c \in DOMAIN q.breaks \ {b} : now.breaks[c] = q.breaks[c]
  BY <1>1, <1>3
<1>5. /\ IsFiniteSet(Done(q.breaks, q.open)) /\ IsFiniteSet(Done(q.fetched, q.open))
      /\ DOMAIN q.figures = DOMAIN NoFigures
      /\ q.figures.served \in Nat /\ q.figures.ingested \in Nat /\ q.figures.broken \in Nat
  BY DEF FiguresOK
<1>6. /\ DOMAIN now.figures = DOMAIN NoFigures
      /\ now.figures.served = q.figures.served + f.served
      /\ now.figures.ingested = q.figures.ingested + f.ingested
      /\ now.figures.broken = q.figures.broken + f.broken
  BY <1>3, <1>5 DEF AddFigures, NoFigures
<1>7. /\ IsFiniteSet(Done(now.breaks, now.open))
      /\ Cardinality(Done(now.breaks, now.open)) =
            Cardinality(Done(q.breaks, q.open)) + Cardinality(DOMAIN new)
      /\ Cardinality(Done(q.breaks, q.open)) \in Nat /\ Cardinality(DOMAIN new) \in Nat
  <2> HIDE DEF q
  <2>1. b \in q.open \cap DOMAIN q.breaks /\ IsFiniteSet(DOMAIN now.breaks[b])
    BY <1>1, <1>2, <1>4 DEF q
  <2>2. /\ IsFiniteSet(Done(now.breaks, q.open \ {b}))
        /\ Cardinality(Done(now.breaks, q.open \ {b})) =
              Cardinality(Done(q.breaks, q.open)) + Cardinality(DOMAIN now.breaks[b])
        /\ Cardinality(Done(q.breaks, q.open)) \in Nat
        /\ Cardinality(DOMAIN now.breaks[b]) \in Nat
    BY <1>4, <1>5, <2>1, DoneBreak
  <2> QED
    BY <1>3, <1>4, <2>2
<1>8. /\ IsFiniteSet(Done(now.fetched, now.open))
      /\ Cardinality(Done(now.fetched, now.open)) =
            Cardinality(Done(q.fetched, q.open)) + Cardinality(DOMAIN ads)
      /\ Cardinality(Done(q.fetched, q.open)) \in Nat /\ Cardinality(DOMAIN ads) \in Nat
  <2> HIDE DEF q
  <2>1. b \in q.open \cap DOMAIN q.fetched /\ IsFiniteSet(DOMAIN q.fetched[b])
    BY <1>1, <1>2 DEF q
  <2>2. /\ IsFiniteSet(Done(q.fetched, q.open \ {b}))
        /\ Cardinality(Done(q.fetched, q.open \ {b})) =
              Cardinality(Done(q.fetched, q.open)) + Cardinality(DOMAIN q.fetched[b])
        /\ Cardinality(Done(q.fetched, q.open)) \in Nat
        /\ Cardinality(DOMAIN q.fetched[b]) \in Nat
    BY <1>5, <2>1, DoneBreak
  <2> QED
    BY <1>1, <1>3, <2>2
<1>9. ASSUME KeysUnshared(keyField, now.fetched)
      PROVE  /\ now.figures.served = Cardinality(Done(now.breaks, now.open))
             /\ now.figures.served + now.figures.ingested + now.figures.broken
                   <= Cardinality(Done(now.fetched, now.open))
  <2>1. /\ f.served = Cardinality(DOMAIN new)
        /\ f.served + f.ingested + f.broken <= Cardinality(DOMAIN ads)
    BY <1>1, <1>2, <1>3, <1>9 DEF KeysUnshared
  <2>2. /\ q.figures.served = Cardinality(Done(q.breaks, q.open))
        /\ q.figures.served + q.figures.ingested + q.figures.broken
              <= Cardinality(Done(q.fetched, q.open))
    BY <1>3, <1>9 DEF FiguresOK
  <2> HIDE DEF q
  <2> QED
    BY <1>2, <1>5, <1>6, <1>7, <1>8, <2>1, <2>2
<1>10. now.figures.served \in Nat /\ now.figures.ingested \in Nat /\ now.figures.broken \in Nat
  BY <1>2, <1>5, <1>6
<1> QED
  BY <1>6, <1>7, <1>8, <1>9, <1>10 DEF FiguresOK, now

(* At the start of a request nothing is rewritten yet.                     *)
LEMMA NoFiguresYet ==
    ASSUME NEW q, q.figures = NoFigures, q.fetched = q.breaks,
           q.open = DOMAIN q.breaks
    PROVE  FiguresOK(keyField, q)
<1>1. Done(q.breaks, q.open) = {} /\ Done(q.fetched, q.open) = {}
  <2>1. \A p \in Positions(q.breaks) : p[1] \in DOMAIN q.breaks
    BY DEF Positions
  <2> QED
    BY <2>1 DEF Done
<1>2. IsFiniteSet({}) /\ Cardinality({}) = 0
  BY FS_EmptySet
<1>3. NoFigures.served = 0 /\ NoFigures.ingested = 0 /\ NoFigures.broken = 0
  BY DEF NoFigures
<1> QED
  BY <1>1, <1>2, <1>3 DEF FiguresOK

(* Every step of a request keeps the figures of all requests right.        *)
LEMMA FiguresStep ==
    ASSUME DInv, QInv, FiguresInv, NEW r \in Requests, RequestStep(r), NEW q \in Requests,
           request'[q].kind # "preingest"
    PROVE  FiguresOK(keyField, request'[q])
<1>1. /\ DOMAIN request = Requests
      /\ \A x \in Requests : DOMAIN request[x] = DOMAIN NewRequest
      /\ \A x \in Requests : request[x].kind # "preingest" => FiguresOK(keyField, request[x])
  BY DEF DInv, Shapes, FiguresInv
<1>2. ASSUME NEW kind, NEW breaks, Receive(r, kind, breaks)
      PROVE  FiguresOK(keyField, request'[q])
  <2> DEFINE new == [NewRequest EXCEPT !.phase = "rewriting", !.kind = kind,
                        !.fetched = breaks, !.breaks = breaks, !.open = DOMAIN breaks]
  <2>1. request' = [request EXCEPT ![r] = new]
    BY <1>2 DEF Receive
  <2>2. /\ new.fetched = breaks /\ new.breaks = breaks /\ new.open = DOMAIN breaks
        /\ new.figures = NoFigures
    BY DEF NewRequest
  <2> HIDE DEF new
  <2>3. FiguresOK(keyField, new)
    BY <2>2, NoFiguresYet
  <2> QED
    BY <1>1, <2>1, <2>3
<1>3. ASSUME NEW phase, request'[q] = [request[q] EXCEPT !.phase = phase]
      PROVE  FiguresOK(keyField, request'[q])
  <2>1. /\ request'[q].kind = request[q].kind /\ request'[q].figures = request[q].figures
        /\ request'[q].fetched = request[q].fetched /\ request'[q].breaks = request[q].breaks
        /\ request'[q].open = request[q].open
    BY <1>1, <1>3 DEF NewRequest
  <2> QED
    BY <1>1, <2>1 DEF FiguresOK
<1>4. ASSUME NEW phase, request' = [request EXCEPT ![r].phase = phase]
      PROVE  FiguresOK(keyField, request'[q])
  BY <1>1, <1>3, <1>4
<1>5. ASSUME NEW b \in request[r].open, FindMissingAndDispatchJobs(r, b)
      PROVE  FiguresOK(keyField, request'[q])
  <2>1. /\ request'[r].kind = request[r].kind
        /\ \A x \in Requests \ {r} : request'[x] = request[x]
    BY <1>1, <1>5 DEF FindMissingAndDispatchJobs, NewRequest
  <2>2. request[r].kind # "preingest" => FiguresOK(keyField, request'[r])
    BY <1>1, <1>5, RewritingFigures
  <2> QED
    BY <1>1, <2>1, <2>2
<1>6. ASSUME NEW b \in request[r].open, FindMissingPanics(r, b)
      PROVE  FiguresOK(keyField, request'[q])
  <2>1. CASE request[r].kind = "vmap"
    <3>1. request' = [x \in Requests |-> IF request[x].phase = "rewriting"
                                         THEN [request[x] EXCEPT !.phase = "lost"]
                                         ELSE request[x]]
      BY <1>6, <2>1 DEF FindMissingPanics
    <3>2. CASE request[q].phase = "rewriting"
      BY <1>3, <3>1, <3>2
    <3>3. CASE request[q].phase # "rewriting"
      BY <1>1, <3>1, <3>3
    <3> QED
      BY <3>2, <3>3
  <2>2. CASE request[r].kind # "vmap"
    BY <1>4, <1>6, <2>2 DEF FindMissingPanics
  <2> QED
    BY <2>1, <2>2
<1>7. ASSUME NEW urls, PreIngest(r, urls)
      PROVE  FiguresOK(keyField, request'[q])
  <2>1. /\ request'[r].kind = "preingest"
        /\ \A x \in Requests \ {r} : request'[x] = request[x]
    BY <1>1, <1>7 DEF PreIngest, NewRequest
  <2> QED
    BY <1>1, <2>1
<1>8. CASE AdServerFails(r) \/ Answer(r)
  BY <1>4, <1>8 DEF AdServerFails, Answer
<1> QED
  BY <1>2, <1>5, <1>6, <1>7, <1>8 DEF RequestStep, HandleVast, HandleVmap

(* The KPI figures of a request account for its ads: for any documents,    *)
(* with any number of ad breaks rewritten in any order, and whatever       *)
(* callbacks change in between (findMissingAndDispatchJobs, processVmap).  *)
THEOREM FiguresAddUp == Spec => []FiguresMatchAnswer
<1>1. Init => FiguresInv
  <2> SUFFICES ASSUME Init, NEW r \in Requests PROVE FiguresOK(keyField, request[r])
    BY DEF FiguresInv
  <2>1. request[r] = NewRequest
    BY DEF Init
  <2>2. /\ NewRequest.figures = NoFigures /\ NewRequest.fetched = NewRequest.breaks
        /\ NewRequest.open = DOMAIN NewRequest.breaks
    BY DEF NewRequest
  <2> QED
    BY <2>1, <2>2, NoFiguresYet
<1>2. ASSUME DInv, QInv, FiguresInv, [Next]_vars
      PROVE  FiguresInv'
  <2>1. keyField' = keyField
    BY <1>2, JobsAreKept DEF config
  <2>2. ASSUME UNCHANGED request PROVE FiguresInv'
    BY <1>2, <2>1, <2>2 DEF FiguresInv
  <2>3. ASSUME NEW r \in Requests, RequestStep(r) PROVE FiguresInv'
    BY <1>2, <2>1, <2>3, FiguresStep DEF FiguresInv
  <2>4. ASSUME NEW n \in DOMAIN jobs, CallbackStep(n)
        PROVE  UNCHANGED request
    BY <2>4 DEF CallbackStep, HandleTranscodeCompleted, HandleTranscodeFailed,
       HandlePackagingSuccess, HandlePackagingFailure
  <2> QED
    BY <1>2, <2>2, <2>3, <2>4 DEF Next, vars, CreateJob, HandleBlackList
<1>3. ASSUME QInv, FiguresInv PROVE FiguresMatchAnswer
  <2> SUFFICES ASSUME NEW r \in Answered,
                      \A p \in Positions(request[r].fetched) :
                          KeyUnshared(request[r].fetched[p[1]], p[2])
               PROVE  LET f == request[r].figures
                      IN /\ f.served = Cardinality(Positions(request[r].breaks))
                         /\ f.served + f.ingested + f.broken
                               <= Cardinality(Positions(request[r].fetched))
    BY DEF FiguresMatchAnswer
  <2>1. /\ r \in Requests /\ request[r].kind # "preingest" /\ request[r].open = {}
    BY <1>3 DEF Answered, QInv, RequestsOK, RequestOK
  <2>2. KeysUnshared(keyField, request[r].fetched)
    <3> SUFFICES ASSUME NEW b \in DOMAIN request[r].fetched,
                        NEW i \in DOMAIN request[r].fetched[b]
                 PROVE  KeyUnshared(request[r].fetched[b], i)
      BY DEF KeysUnshared, KeyUnshared
    <3> DEFINE p == <<b, i>>
    <3>1. p \in {b} \X DOMAIN request[r].fetched[b] /\ p[1] = b /\ p[2] = i
      OBVIOUS
    <3> HIDE DEF p
    <3>2. p \in Positions(request[r].fetched)
      BY <3>1 DEF Positions
    <3> QED
      BY <3>1, <3>2
  <2>3. \A breaks : Done(breaks, {}) = Positions(breaks)
    BY DEF Done
  <2> QED
    BY <1>3, <2>1, <2>2, <2>3 DEF FiguresInv, FiguresOK
<1> QED
  BY <1>1, <1>2, <1>3, DocumentsInvariance, PTL DEF Spec

-----------------------------------------------------------------------------
(* What records show.                                                      *)

(* The aspect ratio of a job whose outputs can be read.                    *)
LEMMA RatioShown ==
    ASSUME NEW outputs \in Outputs, Readable(outputs)
    PROVE  LET video == FirstVideoStream(outputs)
               ratio == RatioOf(outputs)
           IN /\ video.width * video.height > 0 =>
                    ratio[1] * video.height = ratio[2] * video.width
              /\ \A d \in 2 .. ratio[2] : ~(ratio[1] % d = 0 /\ ratio[2] % d = 0)
<1> DEFINE video == FirstVideoStream(outputs)
           w == IF video.width # 0 THEN video.width ELSE 1920
           h == IF video.height # 0 THEN video.height ELSE 1080
           Output == [videoStreams : Seq(VideoStream), audio : BOOLEAN]
<1>1. outputs[1].videoStreams \in Seq(VideoStream) /\ outputs[1].videoStreams # <<>>
  <2>1. outputs \in Seq(Output) /\ outputs # <<>>
    BY DEF Outputs, Readable, HasAudioOutput
  <2>2. \A output \in Output : output.videoStreams \in Seq(VideoStream)
    OBVIOUS
  <2> HIDE DEF Output
  <2>3. outputs[1] \in Output
    BY <2>1
  <2> QED
    BY <2>2, <2>3 DEF Readable, FirstOutputUnreadable
<1>2. video \in VideoStream
  <2> DEFINE streams == outputs[1].videoStreams
  <2>1. video = streams[1]
    BY DEF FirstVideoStream
  <2> HIDE DEF streams, video
  <2> QED
    BY <1>1, <2>1 DEF streams
<1>3. video.width \in Nat /\ video.height \in Nat
  <2> HIDE DEF video
  <2> QED
    BY <1>2 DEF VideoStream
<1>4. RatioOf(outputs) = AspectRatio(w, h)
  BY DEF RatioOf
<1> HIDE DEF video
<1>5. w \in Nat /\ h \in Nat /\ w # 0 /\ h # 0
  BY <1>3
<1>6. video.width * video.height > 0 => w = video.width /\ h = video.height
  BY <1>3
<1> HIDE DEF w, h
<1> DEFINE ratio == AspectRatio(w, h)
<1>7. /\ ratio[1] \in Nat /\ ratio[2] \in Nat
      /\ ratio[1] * h = ratio[2] * w
      /\ \A d \in Nat : d > 1 => ~(ratio[1] % d = 0 /\ ratio[2] % d = 0)
  BY <1>5, LowestTerms
<1> HIDE DEF ratio
<1>8. \A d \in 2 .. ratio[2] : d \in Nat /\ d > 1
  BY <1>7
<1> QED
  BY <1>4, <1>6, <1>7, <1>8 DEF ratio, video

(* The frame rates of what can be marshalled.                              *)
LEMMA RatesShown ==
    ASSUME NEW job, job.outputs \in Outputs, NEW info, Shows(info, job), CanMarshal(info)
    PROVE  LET rates == info.frameRates
               streams == VideoStreams(job.outputs)
           IN /\ rates \in Seq(Nat)
              /\ \A x, y \in DOMAIN rates : x < y => rates[x] < rates[y]
              /\ ToSet(rates) = {ParseFrameRate(streams[i].frameRate) :
                                    i \in {j \in DOMAIN streams : streams[j].frameRate # <<>>}}
<1> DEFINE rates == info.frameRates
<1>1. rates = GetFrameRates(job.outputs)
  BY DEF Shows
<1>2. NaN \notin ToSet(rates)
  BY DEF CanMarshal, ToSet
<1> HIDE DEF rates
<1>3. /\ IsSequence(rates)
      /\ ToSet(rates) \subseteq Nat \cup {NaN}
      /\ \A x, y \in DOMAIN rates : x < y => rates[x] < rates[y]
      /\ ToSet(rates) = {ParseFrameRate(VideoStreams(job.outputs)[i].frameRate) :
                            i \in {j \in DOMAIN VideoStreams(job.outputs) :
                                      VideoStreams(job.outputs)[j].frameRate # <<>>}}
  BY <1>1, <1>2, RatesFound
<1>4. rates \in Seq(Nat)
  <2>1. \A i \in DOMAIN rates : rates[i] \in Nat
    BY <1>2, <1>3 DEF ToSet
  <2>2. Len(rates) \in Nat /\ rates = [i \in 1 .. Len(rates) |-> rates[i]]
    BY <1>3 DEF IsSequence
  <2> QED
    BY <2>1, <2>2
<1> QED
  BY <1>3, <1>4 DEF rates

(* A record that is not queued or absent shows a job.                      *)
LEMMA RecordShows ==
    ASSUME RInv, NEW k \in Keys, record[k] # Absent, record[k] # Queued(record[k].source)
    PROVE  \E n \in DOMAIN jobs :
              /\ jobs[n].key = k /\ jobs[n].state \in Made
              /\ jobs[n].outputs \in Outputs /\ Readable(jobs[n].outputs)
              /\ Shows(record[k], jobs[n]) /\ CanMarshal(record[k])
              /\ record[k].status \in {"PACKAGING", "COMPLETED"}
<1>1. PICK n \in JobsFor(k) : jobs[n].state \in Made /\ record[k] = Shown(jobs[n], n)
  BY DEF RInv, RecordsOfJobs
<1>2. jobs[n].outputs \in Outputs /\ Readable(jobs[n].outputs)
  BY <1>1, DocumentsAssumption DEF RInv, JobsReported, JobsFor
<1>3. /\ Shows(record[k], jobs[n])
      /\ record[k].status \in {"PACKAGING", "COMPLETED"}
  BY <1>1, ShownProperties
<1>4. CanMarshal(record[k])
  BY DEF RInv, RecordsOfJobs
<1> QED
  BY <1>1, <1>2, <1>3, <1>4 DEF JobsFor

(* A record has the size and the rates of its job, the ratio in lowest     *)
(* terms and the rates once each, in ascending order: for jobs of any      *)
(* number of outputs and streams, of any size and rate                     *)
(* (calculateAspectRatio, GetFrameRates).                                  *)
THEOREM RecordsShow == Spec => []RecordsShowJobs
<1>1. ASSUME RInv PROVE RecordsShowJobs
  <2> SUFFICES ASSUME NEW k \in Keys, record[k].status \in {"PACKAGING", "COMPLETED"}
               PROVE  \E n \in DOMAIN jobs : /\ jobs[n].key = k
                                             /\ jobs[n].state \in {"packaging", "packaged"}
                                             /\ ShowsJob(record[k], jobs[n])
    BY DEF RecordsShowJobs
  <2>1. record[k] # Absent /\ record[k] # Queued(record[k].source)
    <3>1. Absent.status = "NONE" /\ \A u : Queued(u).status = "QUEUED"
      BY DEF Absent, Queued
    <3> QED
      BY <3>1
  <2>2. PICK n \in DOMAIN jobs :
              /\ jobs[n].key = k /\ jobs[n].state \in Made
              /\ jobs[n].outputs \in Outputs /\ Readable(jobs[n].outputs)
              /\ Shows(record[k], jobs[n]) /\ CanMarshal(record[k])
    BY <1>1, <2>1, RecordShows
  <2> DEFINE video == FirstVideoStream(jobs[n].outputs)
             streams == VideoStreams(jobs[n].outputs)
             ratio == record[k].aspectRatio
             rates == record[k].frameRates
  <2>3. record[k].source = jobs[n].input /\ ratio = RatioOf(jobs[n].outputs)
    BY <2>2 DEF Shows
  <2>4. /\ video.width * video.height > 0 =>
              ratio[1] * video.height = ratio[2] * video.width
        /\ \A d \in 2 .. ratio[2] : ~(ratio[1] % d = 0 /\ ratio[2] % d = 0)
    <3> DEFINE outputs == jobs[n].outputs
    <3>1. outputs \in Outputs /\ Readable(outputs) /\ ratio = RatioOf(outputs)
      BY <2>2, <2>3
    <3> HIDE DEF outputs, ratio
    <3>2. LET now == FirstVideoStream(outputs)
          IN /\ now.width * now.height > 0 =>
                   ratio[1] * now.height = ratio[2] * now.width
             /\ \A d \in 2 .. ratio[2] : ~(ratio[1] % d = 0 /\ ratio[2] % d = 0)
      BY <3>1, RatioShown
    <3> QED
      BY <3>2 DEF outputs
  <2>5. /\ \A x, y \in DOMAIN rates : x < y => rates[x] < rates[y]
        /\ ToSet(rates) = {ParseFrameRate(streams[i].frameRate) :
                              i \in {j \in DOMAIN streams : streams[j].frameRate # <<>>}}
    BY <2>2, RatesShown
  <2>6. ShowsJob(record[k], jobs[n])
    <3> HIDE DEF ratio, rates, video, streams
    <3> QED
      BY <2>3, <2>4, <2>5 DEF ShowsJob, ratio, rates, video, streams
  <2> QED
    BY <2>2, <2>6 DEF Made
<1> QED
  BY <1>1, DocumentsInvariance, PTL

(* Everything is of its kind at all times: also the frame rates stored,    *)
(* which are numbers whatever Encore reports, and the keys, which never    *)
(* leave those that documents and lists lead to.                           *)
THEOREM DocumentsTyped == Spec => []TypeOK
<1>1. Init => blacklist \subseteq Blacklisted
  BY DEF Init
<1>2. blacklist \subseteq Blacklisted /\ [Next]_vars => (blacklist \subseteq Blacklisted)'
  <2>1. ASSUME NEW r \in Requests, RequestStep(r) PROVE UNCHANGED blacklist
    BY <2>1 DEF RequestStep, HandleVast, HandleVmap, Receive, AdServerFails, Answer,
       FindMissingAndDispatchJobs, FindMissingPanics, PreIngest
  <2>2. ASSUME NEW d \in dispatching, CreateJob(d) PROVE UNCHANGED blacklist
    BY <2>2 DEF CreateJob
  <2>3. ASSUME NEW n \in DOMAIN jobs, CallbackStep(n) PROVE UNCHANGED blacklist
    BY <2>3 DEF CallbackStep, HandleTranscodeCompleted, HandleTranscodeFailed,
       HandlePackagingSuccess, HandlePackagingFailure
  <2>4. ASSUME NEW urls \in SUBSET Blacklisted, HandleBlackList(urls)
        PROVE  blacklist' = urls
    BY <2>4 DEF HandleBlackList
  <2>5. UNCHANGED vars => UNCHANGED blacklist
    BY DEF vars
  <2> QED
    BY <2>1, <2>2, <2>3, <2>4, <2>5 DEF Next
<1>3. ASSUME DInv, RInv, QInv, blacklist \subseteq Blacklisted
      PROVE  TypeOK
  <2>1. ASSUME NEW k \in Keys
        PROVE  /\ record[k].status \in {"NONE", "QUEUED", "PACKAGING", "COMPLETED"}
               /\ record[k].frameRates \in Seq(Nat)
    <3>1. /\ Absent.status = "NONE" /\ Absent.frameRates = <<>>
          /\ \A u : Queued(u).status = "QUEUED" /\ Queued(u).frameRates = <<>>
      BY DEF Absent, Queued
    <3>2. <<>> \in Seq(Nat)
      OBVIOUS
    <3>3. CASE record[k] = Absent
      BY <3>1, <3>2, <3>3
    <3>4. CASE record[k] = Queued(record[k].source)
      BY <3>1, <3>2, <3>4
    <3>5. CASE record[k] # Absent /\ record[k] # Queued(record[k].source)
      BY <1>3, <3>5, RecordShows, RatesShown
    <3> QED
      BY <3>3, <3>4, <3>5
  <2>2. DOMAIN record = Keys
    BY <1>3 DEF DInv, Shapes
  <2>3. ASSUME NEW n \in DOMAIN jobs
        PROVE  /\ jobs[n].key \in Keys
               /\ jobs[n].outputs \in Reports \cup {<<>>}
               /\ jobs[n].state \in {"transcoding", "packaging", "packaged", "over"}
    BY <1>3 DEF QInv, JobsKnown, RInv, JobsReported, Made
  <2>4. \A d \in dispatching : d.key \in Keys /\ d.request \in Requests
    BY <1>3 DEF QInv, DispatchesOK
  <2>5. \A r \in Requests :
           /\ request[r].phase \in {"new", "rewriting", "answered", "failed", "lost"}
           /\ request[r].kind \in {"vast", "vmap", "preingest"}
           /\ request[r].open \subseteq DOMAIN request[r].breaks
           /\ DOMAIN request[r].fetched = DOMAIN request[r].breaks
    BY <1>3 DEF QInv, RequestsOK, RequestOK
  <2> QED
    BY <1>3, <2>1, <2>2, <2>3, <2>4, <2>5 DEF TypeOK, QInv, SettingsOK
<1> QED
  BY <1>1, <1>2, <1>3, DocumentsInvariance, PTL DEF Spec
=============================================================================
