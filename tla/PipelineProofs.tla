--------------------------- MODULE PipelineProofs ---------------------------
(***************************************************************************)
(* Proofs of the pipeline's safety properties, for any ads, creatives,     *)
(* requests and job results, and, but for the last, any faults.            *)
(*                                                                         *)
(* ServedOnlyProduced is not inductive: the playlist in an answer comes    *)
(* from a lookup, the lookup from a record, the record from a callback,    *)
(* the callback from the queue, and the queue from another callback.       *)
(* Inv follows that chain back to the job in Encore, which must not be     *)
(* created twice for a playlist that was produced to remain produced.      *)
(* OrderlyInv is for the pipeline without faults: a job is in one place at *)
(* a time, so that none is left when nobody is at work.                    *)
(***************************************************************************)
EXTENDS PipelineProperties, TLAPS

(* A playlist that may be handed out for creative c.                       *)
Servable(p, c) == p \in Jobs /\ ExternalId(p) = c /\ Produced(p)

RecordSound ==
    \A c \in Creatives :
        record[c].status = "COMPLETED" => Servable(record[c].url, c)

LookupSound ==
    \A r \in Requests :
        lookup[r].info.status = "COMPLETED" =>
            Servable(lookup[r].info.url, CreativeId[lookup[r].ad])

FoundSound ==
    \A r \in Requests, c \in Creatives :
        found[r][c] # NoJob => Servable(found[r][c], c)

(* A SUCCESSFUL callback comes from a job that ended well, a PACKAGED one  *)
(* from a playlist.                                                        *)
CallbacksSound ==
    \A m \in callbacks :
        /\ m.status = "SUCCESSFUL" =>
              encore[m.job] \in {"playable", "silent", "audioFirst"}
        /\ m.status = "PACKAGED" => Produced(m.job)

HandlingSound ==
    \A h \in handling :
        /\ encore[h.job] = "playable"
        /\ h.step = "enqueue" => ~JitPackage

(* A job is created by the one goroutine its request starts for it.        *)
CreatedOnce ==
    \A j \in Jobs :
        /\ phase[j[1]] \in {"new", "scan"} => dispatch[j] = "none"
        /\ dispatch[j] \in {"none", "create"} => encore[j] = "none"

Inv ==
    /\ TypeOK
    /\ CreatedOnce
    /\ CallbacksSound
    /\ HandlingSound
    /\ PackagingJobsReady
    /\ RecordSound
    /\ LookupSound
    /\ FoundSound
-----------------------------------------------------------------------------
(* Records.                                                                *)

(* The records the handlers write are records.                             *)
LEMMA InfoTypes ==
    /\ Absent \in TranscodeInfos
    /\ Queued \in TranscodeInfos
    /\ Packaging \in TranscodeInfos
    /\ \A j \in Jobs : /\ Completed(j) \in TranscodeInfos
                       /\ TranscodeInfoFromEncoreJob(j) \in TranscodeInfos
                       /\ PackagedInfo(j) \in TranscodeInfos
    /\ NoLookup.info = Absent
BY DEF Absent, Queued, Packaging, Completed, TranscodeInfos, Lookups, NoLookup,
       TranscodeInfoFromEncoreJob, PackagedInfo

(* A job is made for a creative.                                           *)
LEMMA JobTypes ==
    \A j \in Jobs : ExternalId(j) \in Creatives /\ j[1] \in Requests /\ j[2] \in Ads
BY ConstantsAssumption DEF Jobs, ExternalId

(* Set, which may fail and may yet have been applied, keeps the cache a    *)
(* cache.                                                                  *)
LEMMA SetType ==
    ASSUME record \in [Creatives -> TranscodeInfos],
           NEW c \in Creatives, NEW info \in TranscodeInfos, Set(c, info)
    PROVE  record' \in [Creatives -> TranscodeInfos]
BY DEF Set, SetFails, SetApplied

-----------------------------------------------------------------------------
(* Type correctness.                                                       *)

(* The initial state is well typed.                                        *)
LEMMA InitType == Init => TypeOK
BY InfoTypes, ConstantsAssumption DEF Init, TypeOK, AllResults

(* A step of a request goroutine keeps the types.                          *)
LEMMA RequestStepType ==
    ASSUME TypeOK, NEW r \in Requests,
           \/ \E A \in SUBSET Ads : ReceiveRequest(r, A)
           \/ RequestStep(r)
    PROVE  TypeOK'
<1>1. ASSUME NEW A \in SUBSET Ads, ReceiveRequest(r, A) PROVE TypeOK'
  <2>1. todo' \in [Requests -> SUBSET Ads]
    BY <1>1 DEF TypeOK, ReceiveRequest, GetCreatives
  <2> QED
    BY <1>1, <2>1 DEF TypeOK, ReceiveRequest, valkeyVars, externalVars
<1>2. ASSUME NEW a \in Ads, GetRecord(r, a) PROVE TypeOK'
  <2>1. record[CreativeId[a]] \in TranscodeInfos
    BY ConstantsAssumption DEF TypeOK
  <2>2. [ad |-> a, info |-> record[CreativeId[a]]] \in Lookups
    BY <2>1 DEF Lookups
  <2> QED
    BY <1>2, <2>2 DEF TypeOK, GetRecord, valkeyVars, externalVars
<1>3. CASE CheckBlackList(r)
  <2>1. lookup[r] \in Lookups
    BY <1>3 DEF TypeOK, CheckBlackList
  <2>2. lookup[r].ad \in Ads /\ lookup[r].info \in TranscodeInfos
    BY <2>1 DEF Lookups
  <2>3. Playlist(lookup[r].info) \in Jobs \cup {NoJob}
    BY <2>2 DEF Playlist, TranscodeInfos
  <2>4. lookup' \in [Requests -> Lookups \cup {NoLookup}]
    BY <1>3 DEF TypeOK, CheckBlackList
  <2>5. found' \in [Requests -> [Creatives -> Jobs \cup {NoJob}]]
    <3> DEFINE c == CreativeId[lookup[r].ad]
               p == Playlist(lookup[r].info)
    <3>1. found' = found \/ found' = [found EXCEPT ![r][c] = p]
      BY <1>3 DEF CheckBlackList
    <3>2. c \in Creatives /\ p \in Jobs \cup {NoJob}
      BY <2>2, <2>3, ConstantsAssumption
    <3>3. found \in [Requests -> [Creatives -> Jobs \cup {NoJob}]]
      BY DEF TypeOK
    <3> HIDE DEF c, p
    <3> QED
      BY <3>1, <3>2, <3>3
  <2>6. missing' \in [Requests -> SUBSET Ads]
    <3> DEFINE a == lookup[r].ad
    <3>1. \/ missing' = missing
          \/ \E S \in {missing[r], missing[r] \cup {a}} :
                missing' = [missing EXCEPT ![r] = S]
      BY <1>3 DEF CheckBlackList
    <3>2. a \in Ads
      BY <2>2
    <3> HIDE DEF a
    <3> QED
      BY <3>1, <3>2 DEF TypeOK
  <2> QED
    BY <1>3, <2>4, <2>5, <2>6 DEF TypeOK, CheckBlackList, valkeyVars, externalVars
<1>4. CASE Answer(r)
  BY <1>4 DEF TypeOK, Answer, valkeyVars, externalVars
<1> QED
  BY <1>1, <1>2, <1>3, <1>4 DEF RequestStep

(* A step of a dispatching goroutine or of a callback handler does too.    *)
LEMMA JobStepType ==
    ASSUME TypeOK, NEW j \in Jobs,
           DispatchStep(j) \/ CallbackStep(j) \/ HandlerContinues(j)
    PROVE  TypeOK'
<1> DEFINE c == ExternalId(j)
<1>1. c \in Creatives
  BY JobTypes
<1>2. \A step \in {"undo", "enqueue"} : HandlerStep(j, step) \in HandlerSteps
  BY DEF HandlerStep, HandlerSteps
<1>3. AfterSet(j) \subseteq HandlerSteps
  BY <1>2 DEF AfterSet
<1>4. ASSUME NEW s, Receive(j, s) PROVE callbacks' \subseteq Callbacks
  BY <1>4 DEF Receive, TypeOK
<1>5. ASSUME NEW info \in TranscodeInfos, Set(c, info)
      PROVE  record' \in [Creatives -> TranscodeInfos]
  BY <1>5, <1>1, SetType DEF TypeOK
<1>6. Delete(c) => record' \in [Creatives -> TranscodeInfos]
  BY <1>5, InfoTypes DEF Delete
<1>7. UNCHANGED record => record' \in [Creatives -> TranscodeInfos]
  BY DEF TypeOK
<1> HIDE DEF c
<1>8. CASE CreateJob(j)
  BY <1>8 DEF TypeOK, CreateJob, valkeyVars, requestVars
<1>9. CASE RecordQueued(j)
  <2>1. record' \in [Creatives -> TranscodeInfos]
    BY <1>9, <1>5, InfoTypes DEF RecordQueued, c
  <2> QED
    BY <1>9, <2>1 DEF TypeOK, RecordQueued, requestVars, externalVars
<1>10. CASE HandleTranscodeFailed(j)
  <2>1. record' \in [Creatives -> TranscodeInfos] /\ callbacks' \subseteq Callbacks
    BY <1>10, <1>4, <1>6 DEF HandleTranscodeFailed, c
  <2> QED
    BY <1>10, <2>1 DEF TypeOK, HandleTranscodeFailed, requestVars
<1>11. CASE HandleTranscodeCompleted(j)
  <2>1. record' \in [Creatives -> TranscodeInfos]
    BY <1>11, <1>5, <1>6, <1>7, InfoTypes DEF HandleTranscodeCompleted, c, Set
  <2>2. callbacks' \subseteq Callbacks /\ handling' \subseteq HandlerSteps
    BY <1>11, <1>2, <1>3, <1>4 DEF HandleTranscodeCompleted, TypeOK
  <2> QED
    BY <1>11, <2>1, <2>2 DEF TypeOK, HandleTranscodeCompleted, requestVars
<1>12. CASE HandlePackagingSuccess(j)
  <2>1. record' \in [Creatives -> TranscodeInfos] /\ callbacks' \subseteq Callbacks
    BY <1>12, <1>4, <1>5, <1>7, InfoTypes DEF HandlePackagingSuccess, c
  <2> QED
    BY <1>12, <2>1 DEF TypeOK, HandlePackagingSuccess, requestVars
<1>13. CASE HandlePackagingFailure(j)
  <2>1. record' \in [Creatives -> TranscodeInfos] /\ callbacks' \subseteq Callbacks
    BY <1>13, <1>4, <1>6, <1>7 DEF HandlePackagingFailure, c
  <2> QED
    BY <1>13, <2>1 DEF TypeOK, HandlePackagingFailure, requestVars
<1>14. CASE UndoSet(j)
  <2>1. record' \in [Creatives -> TranscodeInfos] /\ handling' \subseteq HandlerSteps
    BY <1>14, <1>3, <1>6 DEF UndoSet, TypeOK, c
  <2> QED
    BY <1>14, <2>1 DEF TypeOK, UndoSet, requestVars, externalVars
<1>15. CASE EnqueuePackagingJob(j)
  BY <1>15 DEF TypeOK, EnqueuePackagingJob, requestVars, externalVars
<1> QED
  BY <1>8, <1>9, <1>10, <1>11, <1>12, <1>13, <1>14, <1>15
     DEF DispatchStep, CallbackStep, HandlerContinues

(* So does a step of Encore, the packager, the blacklist endpoint or a     *)
(* crash.                                                                  *)
LEMMA EnvironmentStepType ==
    ASSUME TypeOK,
           \/ \E j \in Jobs : EncoreFinishes(j) \/ PackagerFinishes(j)
           \/ \E u \in Urls : BlackList(u) \/ RemoveFromBlackList(u)
           \/ \E m \in callbacks : LoseCallback(m)
           \/ Crash
    PROVE  TypeOK'
<1>1. \A j \in Jobs, s \in CallbackStatus : Callback(j, s) \in Callbacks
  BY DEF Callback, Callbacks
<1>2. ASSUME NEW j \in Jobs, EncoreFinishes(j) PROVE TypeOK'
  <2>1. JobResults \subseteq AllResults
    BY ConstantsAssumption
  <2>2. {"SUCCESSFUL", "FAILED"} \subseteq CallbackStatus
    BY DEF CallbackStatus
  <2>3. callbacks' \subseteq Callbacks
    <3>1. \A result : CallbacksAbout(j, result) \subseteq Callbacks
      BY <1>1, <2>2 DEF CallbacksAbout
    <3> QED
      BY <1>2, <3>1 DEF EncoreFinishes, TypeOK
  <2>4. encore' \in [Jobs -> {"none", "transcoding"} \cup AllResults]
    BY <1>2, <2>1 DEF EncoreFinishes, TypeOK
  <2> QED
    BY <1>2, <2>3, <2>4 DEF TypeOK, EncoreFinishes, valkeyVars, requestVars
<1>3. ASSUME NEW j \in Jobs, PackagerFinishes(j) PROVE TypeOK'
  <2>1. {"PACKAGED", "PACKAGING_FAILED"} \subseteq CallbackStatus
    BY DEF CallbackStatus
  <2>2. callbacks' \subseteq Callbacks
    BY <1>1, <1>3, <2>1 DEF PackagerFinishes, TypeOK
  <2> QED
    BY <1>3, <2>2 DEF TypeOK, PackagerFinishes, requestVars
<1>4. ASSUME NEW u \in Urls, BlackList(u) \/ RemoveFromBlackList(u) PROVE TypeOK'
  BY <1>4 DEF TypeOK, BlackList, RemoveFromBlackList, requestVars, externalVars
<1>5. ASSUME NEW m \in callbacks, LoseCallback(m) PROVE TypeOK'
  BY <1>5 DEF TypeOK, LoseCallback, valkeyVars, requestVars
<1>6. CASE Crash
  BY <1>6 DEF TypeOK, Crash, valkeyVars, externalVars
<1> QED
  BY <1>2, <1>3, <1>4, <1>5, <1>6

(* And so does every step.                                                 *)
LEMMA StepType == TypeOK /\ [Next]_vars => TypeOK'
<1> SUFFICES ASSUME TypeOK, [Next]_vars PROVE TypeOK'
  OBVIOUS
<1>1. CASE UNCHANGED vars
  BY <1>1 DEF TypeOK, vars, valkeyVars, requestVars, externalVars
<1>2. CASE Next
  BY <1>2, RequestStepType, JobStepType, EnvironmentStepType DEF Next
<1> QED
  BY <1>1, <1>2

(* Every variable keeps its type, in every instance of the pipeline.       *)
THEOREM TypeCorrect == Spec => []TypeOK
<1>1. Init => TypeOK
  BY InitType
<1>2. TypeOK /\ [Next]_vars => TypeOK'
  BY StepType
<1> QED
  BY <1>1, <1>2, PTL DEF Spec
-----------------------------------------------------------------------------
(* What a step may do to each part of the state.                           *)

(* A job that has ended stays as it ended, and a playlist stays made.      *)
LEMMA EncoreChanges ==
    ASSUME TypeOK, CreatedOnce, Next
    PROVE  /\ \A p \in Jobs : encore[p] \in AllResults => encore'[p] = encore[p]
           /\ \A p \in Jobs : Produced(p) => Produced(p)'
<1>1. /\ \A p \in Jobs : encore[p] \in AllResults => encore'[p] = encore[p]
      /\ packaged \subseteq packaged'
  <2>1. CASE UNCHANGED <<encore, packaged>>
    BY <2>1
  <2>2. ASSUME NEW j \in Jobs, CreateJob(j) \/ EncoreFinishes(j)
        PROVE  /\ \A p \in Jobs : encore[p] \in AllResults => encore'[p] = encore[p]
               /\ packaged \subseteq packaged'
    BY <2>2 DEF TypeOK, CreatedOnce, CreateJob, EncoreFinishes, AllResults
  <2>3. ASSUME NEW j \in Jobs, PackagerFinishes(j)
        PROVE  packaged \subseteq packaged' /\ UNCHANGED encore
    BY <2>3 DEF PackagerFinishes
  <2>4. \/ UNCHANGED <<encore, packaged>>
        \/ \E j \in Jobs : \/ CreateJob(j) \/ EncoreFinishes(j)
                           \/ PackagerFinishes(j)
    BY DEF Next, RequestStep, ReceiveRequest, GetRecord, CheckBlackList, Answer,
           DispatchStep, RecordQueued, CallbackStep, HandleTranscodeFailed,
           HandleTranscodeCompleted, HandlePackagingSuccess, HandlePackagingFailure,
           HandlerContinues, UndoSet, EnqueuePackagingJob, BlackList,
           RemoveFromBlackList, LoseCallback, Crash, externalVars
  <2> QED
    BY <2>1, <2>2, <2>3, <2>4
<1> QED
  BY <1>1 DEF Produced, AllResults

(* A record becomes COMPLETED only with a playlist of its creative that is *)
(* made.                                                                   *)
LEMMA RecordChanges ==
    ASSUME TypeOK, CallbacksSound, Next, NEW c \in Creatives
    PROVE  \/ record'[c] = record[c]
           \/ record'[c].status \in {"NONE", "QUEUED", "PACKAGING"}
           \/ \E j \in Jobs : /\ ExternalId(j) = c
                              /\ record'[c] = Completed(j)
                              /\ Produced(j)
<1> DEFINE Fate(i) == \/ record'[c] = record[c]
                      \/ record'[c].status \in {"NONE", "QUEUED", "PACKAGING"}
                      \/ \E j \in Jobs : /\ ExternalId(j) = c
                                         /\ record'[c] = Completed(j)
                                         /\ Produced(j)
<1>1. ASSUME NEW j \in Jobs, NEW info, Set(ExternalId(j), info),
             \/ info.status \in {"NONE", "QUEUED", "PACKAGING"}
             \/ info = Completed(j) /\ Produced(j)
      PROVE  Fate(j)
  BY <1>1 DEF Set, SetFails, SetApplied, TypeOK
<1>2. ASSUME NEW j \in Jobs, Delete(ExternalId(j)) PROVE Fate(j)
  BY <1>1, <1>2 DEF Delete, Absent
<1>3. ASSUME NEW j \in Jobs, RecordQueued(j) PROVE Fate(j)
  BY <1>1, <1>3 DEF RecordQueued, Queued
<1>4. ASSUME NEW j \in Jobs,
             \/ HandleTranscodeFailed(j)
             \/ HandlePackagingFailure(j)
             \/ UndoSet(j)
      PROVE  Fate(j)
  BY <1>2, <1>4 DEF HandleTranscodeFailed, HandlePackagingFailure, UndoSet
<1>5. ASSUME NEW j \in Jobs, HandleTranscodeCompleted(j) PROVE Fate(j)
  <2>1. Callback(j, "SUCCESSFUL") \in callbacks
    BY <1>5 DEF HandleTranscodeCompleted, Receive
  <2>2. encore[j] \in {"playable", "silent", "audioFirst"}
    BY <2>1 DEF CallbacksSound, Callback
  <2>3. \/ UNCHANGED record
        \/ Delete(ExternalId(j))
        \/ encore[j] = "playable" /\ Set(ExternalId(j), TranscodeInfoFromEncoreJob(j))
    BY <1>5, <2>2 DEF HandleTranscodeCompleted, HasAudioOutput, Set
  <2>4. ASSUME encore[j] = "playable"
        PROVE  \/ TranscodeInfoFromEncoreJob(j).status = "PACKAGING"
               \/ TranscodeInfoFromEncoreJob(j) = Completed(j) /\ Produced(j)
    BY <2>4 DEF TranscodeInfoFromEncoreJob, Packaging, Produced
  <2> QED
    BY <1>1, <1>2, <2>3, <2>4
<1>6. ASSUME NEW j \in Jobs, HandlePackagingSuccess(j) PROVE Fate(j)
  <2>1. Callback(j, "PACKAGED") \in callbacks
    BY <1>6 DEF HandlePackagingSuccess, Receive
  <2>2. Produced(j)
    BY <2>1 DEF CallbacksSound, Callback
  <2> QED
    BY <1>1, <1>6, <2>2 DEF HandlePackagingSuccess, PackagedInfo
<1>7. \/ UNCHANGED record
      \/ \E j \in Jobs : \/ RecordQueued(j) \/ HandleTranscodeFailed(j)
                         \/ HandleTranscodeCompleted(j)
                         \/ HandlePackagingSuccess(j)
                         \/ HandlePackagingFailure(j)
                         \/ UndoSet(j)
  BY DEF Next, RequestStep, ReceiveRequest, GetRecord, CheckBlackList, Answer,
         DispatchStep, CreateJob, CallbackStep, HandlerContinues,
         EnqueuePackagingJob, EncoreFinishes, PackagerFinishes, BlackList,
         RemoveFromBlackList, LoseCallback, Crash, valkeyVars
<1> QED
  BY <1>3, <1>4, <1>5, <1>6, <1>7

(* A lookup comes from the record it names, an answer from a lookup.       *)
LEMMA RequestChanges ==
    ASSUME TypeOK, Next, NEW r \in Requests
    PROVE  /\ \/ lookup'[r] = lookup[r]
              \/ lookup'[r] = NoLookup
              \/ \E a \in Ads :
                    lookup'[r] = [ad |-> a, info |-> record[CreativeId[a]]]
           /\ \A c \in Creatives :
                 \/ found'[r][c] = found[r][c]
                 \/ /\ CreativeId[lookup[r].ad] = c
                    /\ found'[r][c] = Playlist(lookup[r].info)
<1>1. CASE UNCHANGED <<lookup, found>>
  BY <1>1
<1>2. ASSUME NEW q \in Requests, NEW b \in Ads, GetRecord(q, b)
      PROVE  /\ UNCHANGED found
             /\ \/ lookup'[r] = lookup[r]
                \/ \E a \in Ads :
                      lookup'[r] = [ad |-> a, info |-> record[CreativeId[a]]]
  BY <1>2 DEF GetRecord, TypeOK
<1>3. ASSUME NEW q \in Requests, CheckBlackList(q)
      PROVE  /\ lookup'[r] \in {lookup[r], NoLookup}
             /\ \A c \in Creatives :
                   \/ found'[r][c] = found[r][c]
                   \/ /\ CreativeId[lookup[r].ad] = c
                      /\ found'[r][c] = Playlist(lookup[r].info)
  <2> DEFINE d == CreativeId[lookup[q].ad]
             p == Playlist(lookup[q].info)
  <2>1. found' = found \/ found' = [found EXCEPT ![q][d] = p]
    BY <1>3 DEF CheckBlackList
  <2>2. ASSUME NEW c \in Creatives, found' = [found EXCEPT ![q][d] = p]
        PROVE  \/ found'[r][c] = found[r][c]
               \/ r = q /\ c = d /\ found'[r][c] = p
    <3> HIDE DEF d, p
    <3> QED
      BY <2>2 DEF TypeOK
  <2>3. lookup' = [lookup EXCEPT ![q] = NoLookup]
    BY <1>3 DEF CheckBlackList
  <2> QED
    BY <2>1, <2>2, <2>3 DEF TypeOK
<1>4. \/ UNCHANGED <<lookup, found>>
      \/ \E q \in Requests : CheckBlackList(q) \/ \E b \in Ads : GetRecord(q, b)
  BY DEF Next, RequestStep, ReceiveRequest, Answer, DispatchStep, CreateJob,
         RecordQueued, CallbackStep, HandleTranscodeFailed,
         HandleTranscodeCompleted, HandlePackagingSuccess, HandlePackagingFailure,
         HandlerContinues, UndoSet, EnqueuePackagingJob, EncoreFinishes,
         PackagerFinishes, BlackList, RemoveFromBlackList, LoseCallback, Crash,
         requestVars
<1> QED
  BY <1>1, <1>2, <1>3, <1>4

(* A callback reports what Encore or the packager has done.                *)
LEMMA CallbacksChange ==
    ASSUME TypeOK, PackagingJobsReady, Next, NEW m \in callbacks'
    PROVE  \/ m \in callbacks
           \/ m.status \in {"FAILED", "PACKAGING_FAILED"}
           \/ /\ m.status = "SUCCESSFUL"
              /\ encore'[m.job] \in {"playable", "silent", "audioFirst"}
           \/ m.status = "PACKAGED" /\ Produced(m.job)'
<1> DEFINE Sent == \/ m \in callbacks
                   \/ m.status \in {"FAILED", "PACKAGING_FAILED"}
                   \/ /\ m.status = "SUCCESSFUL"
                      /\ encore'[m.job] \in {"playable", "silent", "audioFirst"}
                   \/ m.status = "PACKAGED" /\ Produced(m.job)'
<1>1. CASE callbacks' \subseteq callbacks
  BY <1>1
<1>2. ASSUME NEW j \in Jobs, EncoreFinishes(j) PROVE Sent
  <2>1. PICK result \in JobResults :
          /\ encore' = [encore EXCEPT ![j] = result]
          /\ callbacks' = callbacks \cup CallbacksAbout(j, result)
    BY <1>2 DEF EncoreFinishes
  <2>2. result \in AllResults /\ encore'[j] = result
    BY <2>1, ConstantsAssumption DEF TypeOK
  <2>3. ASSUME NEW n \in CallbacksAbout(j, result)
        PROVE  \/ n.status = "FAILED"
               \/ /\ n.job = j
                  /\ n.status = "SUCCESSFUL"
                  /\ result \in {"playable", "silent", "audioFirst"}
    BY <2>2, <2>3 DEF CallbacksAbout, Callback, AllResults
  <2> QED
    BY <2>1, <2>2, <2>3
<1>3. ASSUME NEW j \in Jobs, PackagerFinishes(j) PROVE Sent
  <2>1. ~JitPackage
    BY <1>3 DEF PackagerFinishes, PackagingJobsReady
  <2> QED
    BY <1>3, <2>1 DEF PackagerFinishes, Produced, Callback
<1>4. \/ callbacks' \subseteq callbacks
      \/ \E j \in Jobs : EncoreFinishes(j) \/ PackagerFinishes(j)
  BY DEF Next, RequestStep, ReceiveRequest, GetRecord, CheckBlackList, Answer,
         DispatchStep, CreateJob, RecordQueued, CallbackStep, Receive,
         HandleTranscodeFailed, HandleTranscodeCompleted, HandlePackagingSuccess,
         HandlePackagingFailure, HandlerContinues, UndoSet, EnqueuePackagingJob,
         BlackList, RemoveFromBlackList, LoseCallback, Crash, externalVars
<1> QED
  BY <1>1, <1>2, <1>3, <1>4

(* Handlers go on, and queue jobs, only for jobs that are playable.        *)
LEMMA WorkChanges ==
    ASSUME TypeOK, CallbacksSound, HandlingSound, Next
    PROVE  /\ \A h \in handling' :
                 /\ encore[h.job] = "playable"
                 /\ h.step = "enqueue" => ~JitPackage
           /\ \A j \in queue' : j \in queue \/ (encore[j] = "playable" /\ ~JitPackage)
<1> DEFINE Fit(h) == /\ encore[h.job] = "playable"
                     /\ h.step = "enqueue" => ~JitPackage
<1>1. ASSUME NEW j \in Jobs, encore[j] = "playable", NEW h \in AfterSet(j)
      PROVE  Fit(h)
  BY <1>1 DEF AfterSet, HandlerStep
<1>2. ASSUME NEW j \in Jobs, HandleTranscodeCompleted(j)
      PROVE  (\A h \in handling' : Fit(h)) /\ UNCHANGED queue
  <2>1. encore[j] \in {"playable", "silent", "audioFirst"}
    BY <1>2 DEF HandleTranscodeCompleted, Receive, CallbacksSound, Callback
  <2>2. \/ UNCHANGED handling
        \/ /\ encore[j] = "playable"
           /\ handling' \subseteq
                 handling \cup AfterSet(j) \cup {HandlerStep(j, "undo")}
    BY <1>2, <2>1 DEF HandleTranscodeCompleted, HasAudioOutput
  <2>3. UNCHANGED queue
    BY <1>2 DEF HandleTranscodeCompleted
  <2> QED
    BY <1>1, <2>2, <2>3 DEF HandlingSound, HandlerStep
<1>3. ASSUME NEW j \in Jobs, UndoSet(j)
      PROVE  (\A h \in handling' : Fit(h)) /\ UNCHANGED queue
  <2>1. encore[j] = "playable"
    BY <1>3 DEF UndoSet, HandlingSound, HandlerStep
  <2> QED
    BY <1>1, <1>3, <2>1 DEF UndoSet, HandlingSound
<1>4. ASSUME NEW j \in Jobs, EnqueuePackagingJob(j)
      PROVE  /\ handling' \subseteq handling
             /\ queue' \subseteq queue \cup {j}
             /\ encore[j] = "playable" /\ ~JitPackage
  BY <1>4 DEF EnqueuePackagingJob, HandlingSound, HandlerStep
<1>5. \/ handling' \subseteq handling /\ queue' \subseteq queue
      \/ \E j \in Jobs : \/ HandleTranscodeCompleted(j) \/ UndoSet(j)
                         \/ EnqueuePackagingJob(j)
  BY DEF Next, RequestStep, ReceiveRequest, GetRecord, CheckBlackList, Answer,
         DispatchStep, CreateJob, RecordQueued, CallbackStep,
         HandleTranscodeFailed, HandlePackagingSuccess, HandlePackagingFailure,
         HandlerContinues, EncoreFinishes, PackagerFinishes, BlackList,
         RemoveFromBlackList, LoseCallback, Crash, valkeyVars
<1> QED
  BY <1>2, <1>3, <1>4, <1>5 DEF HandlingSound

(* No goroutine creates a job a second time, even across a crash.          *)
LEMMA CreatedOnceStep ==
    ASSUME TypeOK, CreatedOnce, Next
    PROVE  CreatedOnce'
<1>1. CASE UNCHANGED <<phase, dispatch, encore>>
  BY <1>1 DEF CreatedOnce
<1>2. ASSUME NEW r \in Requests, NEW A, ReceiveRequest(r, A) PROVE CreatedOnce'
  BY <1>2, JobTypes DEF ReceiveRequest, CreatedOnce, TypeOK, externalVars
<1>3. ASSUME NEW r \in Requests, Answer(r) PROVE CreatedOnce'
  BY <1>3, JobTypes DEF Answer, CreatedOnce, TypeOK, externalVars
<1>4. ASSUME NEW j \in Jobs, DispatchStep(j) PROVE CreatedOnce'
  BY <1>4, JobTypes
     DEF DispatchStep, CreateJob, RecordQueued, CreatedOnce, TypeOK, requestVars,
         externalVars
<1>5. ASSUME NEW j \in Jobs, EncoreFinishes(j) PROVE CreatedOnce'
  BY <1>5 DEF EncoreFinishes, CreatedOnce, TypeOK, requestVars
<1>6. CASE Crash
  BY <1>6, JobTypes DEF Crash, CreatedOnce, TypeOK, externalVars
<1>7. \/ UNCHANGED <<phase, dispatch, encore>>
      \/ \E r \in Requests : Answer(r) \/ \E A \in SUBSET Ads : ReceiveRequest(r, A)
      \/ \E j \in Jobs : DispatchStep(j) \/ EncoreFinishes(j)
      \/ Crash
  BY DEF Next, RequestStep, GetRecord, CheckBlackList, CallbackStep,
         HandleTranscodeFailed, HandleTranscodeCompleted, HandlePackagingSuccess,
         HandlePackagingFailure, HandlerContinues, UndoSet, EnqueuePackagingJob,
         PackagerFinishes, BlackList, RemoveFromBlackList, LoseCallback,
         requestVars, externalVars
<1> QED
  BY <1>1, <1>2, <1>3, <1>4, <1>5, <1>6, <1>7
-----------------------------------------------------------------------------
(* The inductive invariant.                                                *)

(* Inv holds initially.                                                    *)
LEMMA InvInit == Init => Inv
<1> SUFFICES ASSUME Init PROVE Inv
  OBVIOUS
<1>1. TypeOK
  BY InitType
<1>2. CreatedOnce /\ CallbacksSound /\ HandlingSound /\ PackagingJobsReady
  BY DEF Init, CreatedOnce, CallbacksSound, HandlingSound, PackagingJobsReady
<1>3. RecordSound /\ LookupSound /\ FoundSound
  BY DEF Init, RecordSound, LookupSound, FoundSound, Absent, NoLookup
<1> QED
  BY <1>1, <1>2, <1>3 DEF Inv

(* Every step preserves Inv.                                               *)
LEMMA InvStep == Inv /\ [Next]_vars => Inv'
<1> SUFFICES ASSUME Inv, [Next]_vars PROVE Inv'
  OBVIOUS
<1>1. CASE UNCHANGED vars
  BY <1>1
     DEF Inv, TypeOK, CreatedOnce, CallbacksSound, HandlingSound,
         PackagingJobsReady, RecordSound, LookupSound, FoundSound, Servable,
         Produced, vars, valkeyVars, requestVars, externalVars
<1>2. CASE Next
  <2> USE <1>2 DEF Inv
  <2>1. TypeOK' /\ CreatedOnce'
    BY StepType, CreatedOnceStep
  <2>2. ASSUME NEW j \in Jobs
        PROVE  /\ encore[j] \in AllResults => encore'[j] = encore[j]
               /\ Produced(j) => Produced(j)'
    BY EncoreChanges
  <2> DEFINE StillServable(p, c) ==
               /\ p \in Jobs
               /\ ExternalId(p) = c
               /\ IF JitPackage THEN encore'[p] = "playable" ELSE p \in packaged'
  <2>3. ASSUME NEW p, NEW c, Servable(p, c) PROVE StillServable(p, c)
    BY <2>2, <2>3 DEF Servable, Produced
  <2> HIDE DEF StillServable
  <2>4. CallbacksSound'
    <3> SUFFICES ASSUME NEW m \in callbacks'
                 PROVE  /\ m.status = "SUCCESSFUL" =>
                              encore'[m.job] \in {"playable", "silent", "audioFirst"}
                        /\ m.status = "PACKAGED" => Produced(m.job)'
      BY DEF CallbacksSound
    <3>1. m \in callbacks => m.job \in Jobs
      BY DEF TypeOK, Callbacks
    <3> QED
      BY <3>1, <2>2, CallbacksChange DEF CallbacksSound, AllResults
  <2>5. HandlingSound' /\ PackagingJobsReady'
    <3>1. \A h \in handling' : h.job \in Jobs
      BY <2>1 DEF TypeOK, HandlerSteps
    <3>2. \A j \in queue' : j \in Jobs
      BY <2>1 DEF TypeOK
    <3> QED
      BY <3>1, <3>2, <2>2, WorkChanges
         DEF HandlingSound, PackagingJobsReady, AllResults
  <2>6. RecordSound'
    <3> SUFFICES ASSUME NEW c \in Creatives, record'[c].status = "COMPLETED"
                 PROVE  StillServable(record'[c].url, c)
      BY DEF RecordSound, Servable, Produced, StillServable
    <3>1. \/ record'[c] = record[c]
          \/ \E j \in Jobs : /\ ExternalId(j) = c
                             /\ record'[c] = Completed(j)
                             /\ Produced(j)
      BY RecordChanges
    <3>2. CASE record'[c] = record[c]
      BY <3>2, <2>3 DEF RecordSound
    <3>3. ASSUME NEW j \in Jobs, ExternalId(j) = c, record'[c] = Completed(j),
                 Produced(j)
          PROVE  StillServable(record'[c].url, c)
      <4>1. record'[c].url = j
        BY <3>3 DEF Completed
      <4>2. StillServable(j, c)
        BY <3>3, <2>3 DEF Servable
      <4> QED
        BY <4>1, <4>2
    <3> QED
      BY <3>1, <3>2, <3>3
  <2>7. LookupSound'
    <3> SUFFICES ASSUME NEW r \in Requests,
                        lookup'[r].info.status = "COMPLETED"
                 PROVE  StillServable(lookup'[r].info.url, CreativeId[lookup'[r].ad])
      BY DEF LookupSound, Servable, Produced, StillServable
    <3>1. CASE lookup'[r] = NoLookup
      BY <3>1 DEF NoLookup, Absent
    <3>2. CASE lookup'[r] = lookup[r]
      <4>1. Servable(lookup[r].info.url, CreativeId[lookup[r].ad])
        BY <3>2 DEF LookupSound
      <4> QED
        BY <3>2, <4>1, <2>3
    <3>3. ASSUME NEW a \in Ads,
                 lookup'[r] = [ad |-> a, info |-> record[CreativeId[a]]]
          PROVE  StillServable(lookup'[r].info.url, CreativeId[lookup'[r].ad])
      <4>1. CreativeId[a] \in Creatives
        BY ConstantsAssumption
      <4>2. Servable(record[CreativeId[a]].url, CreativeId[a])
        BY <3>3, <4>1 DEF RecordSound
      <4> QED
        BY <3>3, <4>1, <4>2, <2>3
    <3> QED
      BY <3>1, <3>2, <3>3, RequestChanges
  <2>8. FoundSound'
    <3> SUFFICES ASSUME NEW r \in Requests, NEW c \in Creatives, found'[r][c] # NoJob
                 PROVE  StillServable(found'[r][c], c)
      BY DEF FoundSound, Servable, Produced, StillServable
    <3>1. CASE found'[r][c] = found[r][c]
      BY <3>1, <2>3 DEF FoundSound
    <3>2. CASE CreativeId[lookup[r].ad] = c /\ found'[r][c] = Playlist(lookup[r].info)
      BY <3>2, <2>3 DEF LookupSound, Playlist
    <3> QED
      BY <3>1, <3>2, RequestChanges
  <2> QED
    BY <2>1, <2>4, <2>5, <2>6, <2>7, <2>8
<1> QED
  BY <1>1, <1>2

(* The chain from job to answer holds in every instance of the pipeline.   *)
THEOREM Invariance == Spec => []Inv
  BY InvInit, InvStep, PTL DEF Spec

(* An answer lists only playlists that have been produced, for the         *)
(* creative asked for, whatever fails and whoever races.                   *)
THEOREM OnlyProducedServed == Spec => []ServedOnlyProduced
<1>1. Inv => ServedOnlyProduced
  <2> SUFFICES ASSUME Inv, NEW r \in Requests, NEW a \in received[r],
                      found[r][CreativeId[a]] # NoJob
               PROVE  /\ ExternalId(found[r][CreativeId[a]]) = CreativeId[a]
                      /\ Produced(found[r][CreativeId[a]])
    BY DEF ServedOnlyProduced, ReplaceMediaFiles
  <2>1. CreativeId[a] \in Creatives
    BY ConstantsAssumption DEF Inv, TypeOK
  <2> QED
    BY <2>1 DEF Inv, FoundSound, Servable
<1> QED
  BY <1>1, Invariance, PTL

(* The packager is only given finished, playable jobs, and none under      *)
(* just-in-time packaging.                                                 *)
THEOREM OnlyReadyJobsQueued == Spec => []PackagingJobsReady
<1>1. Inv => PackagingJobsReady
  BY DEF Inv
<1> QED
  BY <1>1, Invariance, PTL

-----------------------------------------------------------------------------
(* What is lost.                                                           *)

(* A Set, applied or not, concerns one creative.                           *)
LEMMA SetElsewhere ==
    ASSUME TypeOK, NEW c \in Creatives, NEW d \in Creatives, NEW info, Set(d, info)
    PROVE  record'[c] \in {record[c], info} /\ (record'[c] = record[c] \/ c = d)
BY DEF Set, SetApplied, SetFails, TypeOK

(* A playlist leaves the cache only by the hand of a straggler.            *)
LEMMA LossExplained ==
    ASSUME TypeOK, Next, NEW c \in Creatives,
           record[c].status = "COMPLETED", record'[c].status # "COMPLETED"
    PROVE  Straggler(c)
<1> DEFINE Writes(j) == \E info \in {Queued, Absent, TranscodeInfoFromEncoreJob(j)} :
                           Set(ExternalId(j), info)
<1>1. ASSUME NEW j \in Jobs, Writes(j)
      PROVE  ExternalId(j) = c
  BY <1>1, SetElsewhere, JobTypes
<1>2. ASSUME NEW j \in Jobs, RecordQueued(j) PROVE Straggler(c)
  BY <1>1, <1>2 DEF RecordQueued, Straggler
<1>3. ASSUME NEW j \in Jobs, NEW s \in CallbackStatus, Callback(j, s) \in callbacks,
             s # "PACKAGED", ExternalId(j) = c
      PROVE  Straggler(c)
  <2>1. Callback(j, s).job = j /\ Callback(j, s).status # "PACKAGED"
    BY <1>3 DEF Callback
  <2> QED
    BY <1>3, <2>1 DEF Straggler
<1>4. ASSUME NEW j \in Jobs, HandleTranscodeFailed(j) PROVE Straggler(c)
  BY <1>1, <1>3, <1>4 DEF HandleTranscodeFailed, Receive, Delete, CallbackStatus
<1>5. ASSUME NEW j \in Jobs, HandlePackagingFailure(j) PROVE Straggler(c)
  <2>1. Delete(ExternalId(j))
    BY <1>5 DEF HandlePackagingFailure
  <2> QED
    BY <1>1, <1>3, <1>5, <2>1 DEF HandlePackagingFailure, Receive, Delete, CallbackStatus
<1>6. ASSUME NEW j \in Jobs, HandleTranscodeCompleted(j) PROVE Straggler(c)
  <2>1. Set(ExternalId(j), TranscodeInfoFromEncoreJob(j)) \/ Delete(ExternalId(j))
    BY <1>6 DEF HandleTranscodeCompleted, Set
  <2> QED
    BY <1>1, <1>3, <1>6, <2>1 DEF HandleTranscodeCompleted, Receive, Delete, CallbackStatus
<1>7. ASSUME NEW j \in Jobs, UndoSet(j) PROVE Straggler(c)
  BY <1>1, <1>7 DEF UndoSet, Delete, Straggler
<1>8. ASSUME NEW j \in Jobs PROVE ~HandlePackagingSuccess(j)
  <2>1. Completed(j).status = "COMPLETED"
    BY DEF Completed
  <2>2. Set(ExternalId(j), Completed(j)) => record'[c] \in {record[c], Completed(j)}
    BY SetElsewhere, JobTypes
  <2> QED
    BY <2>1, <2>2 DEF HandlePackagingSuccess, PackagedInfo
<1>9. \E j \in Jobs : \/ RecordQueued(j) \/ HandleTranscodeFailed(j)
                      \/ HandleTranscodeCompleted(j)
                      \/ HandlePackagingSuccess(j) \/ HandlePackagingFailure(j)
                      \/ UndoSet(j)
  BY DEF Next, RequestStep, ReceiveRequest, GetRecord, CheckBlackList, Answer,
         DispatchStep, CreateJob, CallbackStep, HandlerContinues,
         EnqueuePackagingJob, EncoreFinishes, PackagerFinishes, BlackList,
         RemoveFromBlackList, LoseCallback, Crash, valkeyVars
<1> QED
  BY <1>2, <1>4, <1>5, <1>6, <1>7, <1>8, <1>9

(* A playlist in the cache is lost only to work on the same creative that  *)
(* comes late, by another job or a repeated callback (dispatchJobs,        *)
(* handleTranscodeFailed, handleTranscodeCompleted, HandlePackagingFailure).*)
THEOREM CompletedStays == Spec => CompletedLostOnlyToStraggler
<1>1. TypeOK /\ [Next]_vars =>
        [\A c \in Creatives :
            record[c].status = "COMPLETED" /\ record'[c].status # "COMPLETED"
               => Straggler(c)]_vars
  BY LossExplained
<1> QED
  BY <1>1, TypeCorrect, PTL DEF Spec, CompletedLostOnlyToStraggler

-----------------------------------------------------------------------------
(* What is listed in the end, if nothing fails but jobs.                   *)

Waiting(j, s) == Callback(j, s) \in callbacks
Enqueuing(j)  == HandlerStep(j, "enqueue") \in handling

(* A job is in one place at a time, and in none twice.                     *)
OnePlace(j) ==
    /\ dispatch[j] = "record" => encore[j] = "transcoding"
    /\ encore[j] \in {"none", "transcoding"} =>
          /\ \A s \in CallbackStatus : ~Waiting(j, s)
          /\ ~Enqueuing(j) /\ j \notin queue /\ j \notin packaged
    /\ Waiting(j, "FAILED") => encore[j] = "failed"
    /\ Waiting(j, "SUCCESSFUL") => ~Enqueuing(j) /\ j \notin queue
    /\ Enqueuing(j) => j \notin queue
    /\ Waiting(j, "SUCCESSFUL") \/ Enqueuing(j) \/ j \in queue =>
          j \notin packaged /\ ~Waiting(j, "PACKAGING_FAILED")
    /\ Waiting(j, "PACKAGING_FAILED") => j \notin packaged /\ ~JitPackage
    /\ j \in packaged => encore[j] = "playable" /\ ~JitPackage

AtWork(j) ==
    \/ dispatch[j] \in {"create", "record"}
    \/ encore[j] = "transcoding"
    \/ j \in queue
    \/ \E s \in CallbackStatus : Waiting(j, s)
    \/ Enqueuing(j)

(* Job j is under way, or has come to nothing.                             *)
Unsettled(j) == AtWork(j) \/ (encore[j] # "none" /\ ~Produced(j))

(* If all the jobs of a creative are settled the last of them has left its *)
(* playlist in the record.                                                 *)
Settled(c) ==
    \/ record[c].status = "COMPLETED"
    \/ \E j \in Jobs : ExternalId(j) = c /\ Unsettled(j)
    \/ \A j \in Jobs : ExternalId(j) = c => encore[j] = "none"

OrderlyInv ==
    /\ Inv
    /\ \A h \in handling : h.step = "enqueue"
    /\ \A j \in Jobs : OnePlace(j)
    /\ \A c \in Creatives : Settled(c)

(* What a job has to itself.                                               *)
SameJob(k) ==
    /\ dispatch'[k] = dispatch[k] /\ encore'[k] = encore[k]
    /\ k \in queue' <=> k \in queue
    /\ k \in packaged' <=> k \in packaged
    /\ \A s \in CallbackStatus : Waiting(k, s)' <=> Waiting(k, s)
    /\ Enqueuing(k)' <=> Enqueuing(k)

JobStep(j) ==
    \/ DispatchStep(j) \/ CallbackStep(j) \/ HandlerContinues(j)
    \/ EncoreFinishes(j) \/ PackagerFinishes(j)

(* Callbacks and steps of handlers are told apart by job and kind.         *)
LEMMA Distinct ==
    /\ \A j, k, s, t : Callback(j, s) = Callback(k, t) <=> j = k /\ s = t
    /\ \A j, k, s, t : HandlerStep(j, s) = HandlerStep(k, t) <=> j = k /\ s = t
<1>1. \A j, s : Callback(j, s).job = j /\ Callback(j, s).status = s
  BY DEF Callback
<1>2. \A j, s : HandlerStep(j, s).job = j /\ HandlerStep(j, s).step = s
  BY DEF HandlerStep
<1> QED
  BY <1>1, <1>2

(* What remains of a callback that has been received.                      *)
LEMMA Received ==
    ASSUME Faults = {}, NEW j, NEW s, Receive(j, s)
    PROVE  /\ Waiting(j, s) /\ ~Waiting(j, s)'
           /\ \A k, t : k # j \/ t # s => (Waiting(k, t)' <=> Waiting(k, t))
BY Distinct DEF Receive, Waiting

(* A job's steps, and those of its handlers, leave the other jobs alone.   *)
LEMMA OthersSame ==
    ASSUME TypeOK, Faults = {}, NEW j \in Jobs, JobStep(j), NEW k \in Jobs \ {j}
    PROVE  SameJob(k)
<1> USE DEF SameJob, TypeOK, valkeyVars, externalVars, Waiting, Enqueuing
<1>1. CASE DispatchStep(j)
  BY <1>1 DEF DispatchStep, CreateJob, RecordQueued
<1>2. CASE CallbackStep(j)
  <2>1. /\ UNCHANGED <<dispatch, encore, queue, packaged>>
        /\ \E s \in CallbackStatus : Receive(j, s)
    BY <1>2 DEF CallbackStep, HandleTranscodeFailed, HandleTranscodeCompleted,
                HandlePackagingSuccess, HandlePackagingFailure, CallbackStatus
  <2>2. \A s \in CallbackStatus : Waiting(k, s)' <=> Waiting(k, s)
    BY <2>1, Received
  <2>3. \/ handling' = handling
        \/ \E step : handling' = handling \cup {HandlerStep(j, step)}
    BY <1>2 DEF CallbackStep, HandleTranscodeFailed, HandleTranscodeCompleted,
                HandlePackagingSuccess, HandlePackagingFailure, AfterSet
  <2>4. Enqueuing(k)' <=> Enqueuing(k)
    BY <2>3, Distinct
  <2> QED
    BY <2>1, <2>2, <2>4
<1>3. CASE HandlerContinues(j)
  BY <1>3, Distinct DEF HandlerContinues, UndoSet, EnqueuePackagingJob, AfterSet
<1>4. CASE EncoreFinishes(j)
  <2>1. PICK result \in JobResults :
           /\ encore' = [encore EXCEPT ![j] = result]
           /\ callbacks' = callbacks \cup CallbacksAbout(j, result)
    BY <1>4 DEF EncoreFinishes
  <2>2. \A s : Callback(k, s) \notin CallbacksAbout(j, result)
    BY Distinct DEF CallbacksAbout
  <2> QED
    BY <1>4, <2>1, <2>2 DEF EncoreFinishes
<1>5. CASE PackagerFinishes(j)
  BY <1>5, Distinct DEF PackagerFinishes
<1> QED
  BY <1>1, <1>2, <1>3, <1>4, <1>5 DEF JobStep

(* A job's own steps take it from one place to the next.                   *)
LEMMA OnePlaceStep ==
    ASSUME OrderlyInv, Faults = {}, NEW j \in Jobs, JobStep(j)
    PROVE  OnePlace(j)' /\ (\A h \in handling : h.step = "enqueue")'
<1> USE DEF OnePlace, OrderlyInv
<1>0. TypeOK /\ ~ValkeyMayFail /\ ~EncoreMayFail
  BY DEF Inv, ValkeyMayFail, EncoreMayFail
<1>1. CASE CreateJob(j)
  BY <1>0, <1>1 DEF CreateJob, Inv, CreatedOnce, TypeOK, valkeyVars, Waiting, Enqueuing
<1>2. CASE RecordQueued(j)
  BY <1>0, <1>2 DEF RecordQueued, TypeOK, externalVars, Waiting, Enqueuing
<1>3. CASE HandleTranscodeFailed(j)
  BY <1>0, <1>3, Received DEF HandleTranscodeFailed, CallbackStatus, Enqueuing
<1>4. CASE HandleTranscodeCompleted(j)
  <2>1. /\ UNCHANGED <<dispatch, encore, queue, packaged>>
        /\ handling' \in {handling, handling \cup {HandlerStep(j, "enqueue")}}
        /\ Receive(j, "SUCCESSFUL")
    BY <1>0, <1>4 DEF HandleTranscodeCompleted, SetFails, AfterSet
  <2>2. encore[j] \notin {"none", "transcoding", "failed"}
    BY <2>1 DEF Inv, CallbacksSound, Receive, Callback
  <2>3. HandlerStep(j, "enqueue").step = "enqueue"
    BY DEF HandlerStep
  <2> QED
    BY <2>1, <2>2, <2>3, Received DEF CallbackStatus, Enqueuing
<1>5. CASE HandlePackagingSuccess(j) \/ HandlePackagingFailure(j)
  BY <1>0, <1>5, Received DEF HandlePackagingSuccess, HandlePackagingFailure, CallbackStatus,
     Enqueuing
<1>6. CASE HandlerContinues(j)
  <2>1. EnqueuePackagingJob(j)
    BY <1>6 DEF HandlerContinues, UndoSet, HandlerStep
  <2> QED
    BY <1>0, <2>1 DEF EnqueuePackagingJob, Enqueuing, externalVars, Waiting
<1>7. CASE EncoreFinishes(j)
  <2>1. PICK result \in JobResults :
           /\ encore' = [encore EXCEPT ![j] = result]
           /\ callbacks' = callbacks \cup CallbacksAbout(j, result)
    BY <1>7 DEF EncoreFinishes
  <2>2. /\ encore[j] = "transcoding" /\ encore'[j] = result /\ result \in AllResults
        /\ dispatch[j] = "over"
        /\ UNCHANGED <<dispatch, queue, packaged, handling>>
    BY <1>0, <1>7, <2>1, ConstantsAssumption DEF EncoreFinishes, TypeOK, valkeyVars
  <2>3. \A s \in CallbackStatus : Waiting(j, s)' =>
           \/ s = "FAILED" /\ result = "failed"
           \/ s = "SUCCESSFUL" /\ result \notin {"failed", "cancelled"}
    BY <2>1, <2>2, Distinct DEF CallbacksAbout, Waiting
  <2> QED
    BY <2>2, <2>3 DEF CallbackStatus, AllResults, Enqueuing
<1>8. CASE PackagerFinishes(j)
  <2>1. encore[j] = "playable" /\ ~JitPackage
    BY <1>8 DEF PackagerFinishes, Inv, PackagingJobsReady
  <2>2. /\ j \in queue /\ j \notin queue'
        /\ UNCHANGED <<dispatch, encore, handling>>
        /\ \/ packaged' = packaged \cup {j} /\ callbacks' = callbacks \cup {Callback(j, "PACKAGED")}
           \/ packaged' = packaged /\ callbacks' = callbacks \cup {Callback(j, "PACKAGING_FAILED")}
    BY <1>8 DEF PackagerFinishes
  <2>3. \A s \in {"SUCCESSFUL", "FAILED"} : Waiting(j, s)' <=> Waiting(j, s)
    BY <2>2, Distinct DEF Waiting
  <2>4. j \in packaged' => ~Waiting(j, "PACKAGING_FAILED")'
    BY <2>2, Distinct DEF Waiting
  <2> QED
    BY <2>1, <2>2, <2>3, <2>4 DEF Enqueuing
<1> QED
  BY <1>1, <1>2, <1>3, <1>4, <1>5, <1>6, <1>7, <1>8 DEF JobStep, DispatchStep, CallbackStep

(* A job's own steps leave it unsettled or its creative cached.            *)
LEMMA UnsettledOrCached ==
    ASSUME OrderlyInv, Faults = {}, NEW j \in Jobs, JobStep(j)
    PROVE  record'[ExternalId(j)].status = "COMPLETED" \/ Unsettled(j)'
<1> USE DEF OnePlace, OrderlyInv, Unsettled, AtWork
<1>0. TypeOK /\ ~ValkeyMayFail /\ ~EncoreMayFail /\ ExternalId(j) \in Creatives
  BY JobTypes DEF Inv, ValkeyMayFail, EncoreMayFail
<1>1. CASE CreateJob(j)
  BY <1>0, <1>1 DEF CreateJob, TypeOK
<1>2. CASE RecordQueued(j)
  BY <1>0, <1>2 DEF RecordQueued, externalVars
<1>3. CASE HandleTranscodeFailed(j)
  BY <1>0, <1>3, Received DEF HandleTranscodeFailed, Produced
<1>4. CASE HandleTranscodeCompleted(j)
  <2>1. /\ UNCHANGED <<dispatch, encore, queue, packaged>>
        /\ Receive(j, "SUCCESSFUL")
    BY <1>4 DEF HandleTranscodeCompleted
  <2>2. encore[j] \in {"playable", "silent", "audioFirst"}
    BY <2>1 DEF Inv, CallbacksSound, Receive, Callback
  <2>3. CASE encore[j] # "playable"
    BY <2>1, <2>2, <2>3 DEF Produced
  <2>4. CASE encore[j] = "playable"
    <3>1. /\ SetApplied(ExternalId(j), TranscodeInfoFromEncoreJob(j))
          /\ handling' = handling \cup AfterSet(j)
      BY <1>0, <1>4, <2>4 DEF HandleTranscodeCompleted, SetFails, HasAudioOutput
    <3>2. CASE JitPackage
      BY <1>0, <3>1, <3>2 DEF SetApplied, TranscodeInfoFromEncoreJob, Completed, TypeOK
    <3>3. CASE ~JitPackage
      BY <3>1, <3>3 DEF AfterSet, Enqueuing
    <3> QED
      BY <3>2, <3>3
  <2> QED
    BY <2>3, <2>4
<1>5. CASE HandlePackagingSuccess(j)
  <2>1. SetApplied(ExternalId(j), Completed(j))
    BY <1>0, <1>5 DEF HandlePackagingSuccess, Set, SetFails, PackagedInfo
  <2> QED
    BY <1>0, <2>1 DEF SetApplied, Completed, TypeOK
<1>6. CASE HandlePackagingFailure(j)
  <2>1. /\ Waiting(j, "PACKAGING_FAILED")
        /\ UNCHANGED <<encore, packaged>>
    BY <1>6, Received DEF HandlePackagingFailure
  <2>2. encore[j] # "none" /\ j \notin packaged
    BY <2>1 DEF CallbackStatus
  <2> QED
    BY <2>1, <2>2 DEF Produced
<1>7. CASE HandlerContinues(j)
  <2>1. EnqueuePackagingJob(j)
    BY <1>7 DEF HandlerContinues, UndoSet, HandlerStep
  <2> QED
    BY <1>0, <2>1 DEF EnqueuePackagingJob
<1>8. CASE EncoreFinishes(j)
  <2>1. PICK result \in JobResults :
           /\ encore' = [encore EXCEPT ![j] = result]
           /\ callbacks' = callbacks \cup CallbacksAbout(j, result)
    BY <1>8 DEF EncoreFinishes
  <2>2. CASE result = "cancelled"
    <3>1. encore'[j] = "cancelled" /\ packaged' = packaged /\ j \notin packaged
      BY <1>0, <1>8, <2>1, <2>2 DEF EncoreFinishes, TypeOK
    <3> QED
      BY <3>1 DEF Produced
  <2>3. CASE result # "cancelled"
    BY <2>1, <2>3 DEF CallbacksAbout, Waiting, CallbackStatus
  <2> QED
    BY <2>2, <2>3
<1>9. CASE PackagerFinishes(j)
  BY <1>9 DEF PackagerFinishes, Waiting, CallbackStatus
<1> QED
  BY <1>1, <1>2, <1>3, <1>4, <1>5, <1>6, <1>7, <1>8, <1>9
     DEF JobStep, DispatchStep, CallbackStep

(* What a request does is no job's business, until it dispatches some.     *)
LEMMA RequestSettles ==
    ASSUME OrderlyInv, [Next]_vars, Faults = {}, ~ \E j \in Jobs : JobStep(j)
    PROVE  /\ (\A j \in Jobs : OnePlace(j))' /\ (\A h \in handling : h.step = "enqueue")'
           /\ (\A c \in Creatives : Settled(c))'
<1>1. UNCHANGED <<record, queue, handling, encore, packaged, callbacks>>
  BY DEF Next, JobStep, RequestStep, ReceiveRequest, GetRecord, CheckBlackList, Answer, BlackList,
         RemoveFromBlackList, LoseCallback, Crash, vars, valkeyVars, externalVars
<1>2. \A j \in Jobs : dispatch'[j] = dispatch[j] \/ dispatch'[j] = "create"
  BY DEF Next, JobStep, RequestStep, ReceiveRequest, GetRecord, CheckBlackList, Answer, BlackList,
         RemoveFromBlackList, LoseCallback, Crash, vars
<1>3. \A j \in Jobs : OnePlace(j)'
  BY <1>1, <1>2 DEF OrderlyInv, OnePlace, Waiting, Enqueuing
<1>4. \A j \in Jobs : Unsettled(j) => Unsettled(j)'
  BY <1>1, <1>2 DEF Unsettled, AtWork, Produced, Waiting, Enqueuing
<1> QED
  BY <1>1, <1>3, <1>4 DEF OrderlyInv, Settled

(* A step of a job settles its own creative, and no other.                 *)
LEMMA JobSettles ==
    ASSUME OrderlyInv, Faults = {}, NEW j \in Jobs, JobStep(j), NEW c \in Creatives
    PROVE  Settled(c)'
<1>1. TypeOK
  BY DEF OrderlyInv, Inv
<1>2. CASE c = ExternalId(j)
  BY <1>2, UnsettledOrCached DEF Settled
<1>3. CASE c # ExternalId(j)
  <2>1. record'[c] = record[c]
    <3>1. record' = record \/ \E info : Set(ExternalId(j), info)
      BY DEF JobStep, DispatchStep, CreateJob, RecordQueued, CallbackStep, HandleTranscodeFailed,
             HandleTranscodeCompleted, HandlePackagingSuccess, HandlePackagingFailure,
             HandlerContinues, UndoSet, EnqueuePackagingJob, EncoreFinishes, PackagerFinishes,
             valkeyVars, Delete, Set
    <3> QED
      BY <1>1, <1>3, <3>1, SetElsewhere, JobTypes
  <2>2. \A k \in Jobs : ExternalId(k) = c => SameJob(k)
    BY <1>1, <1>3, OthersSame
  <2>3. \A k \in Jobs : SameJob(k) => (Unsettled(k)' <=> Unsettled(k)) /\ encore'[k] = encore[k]
    BY DEF SameJob, Unsettled, AtWork, Produced
  <2> QED
    BY <2>1, <2>2, <2>3 DEF OrderlyInv, Settled
<1> QED
  BY <1>2, <1>3

(* Each job finds its place, and no creative is forgotten.                 *)
LEMMA OrderlyStep ==
    ASSUME OrderlyInv, [Next]_vars, Faults = {}
    PROVE  OrderlyInv'
<1>1. Inv'
  BY InvStep DEF OrderlyInv
<1>2. CASE ~ \E j \in Jobs : JobStep(j)
  BY <1>1, <1>2, RequestSettles DEF OrderlyInv
<1>3. ASSUME NEW j \in Jobs, JobStep(j)
      PROVE  OrderlyInv'
  <2>1. OnePlace(j)' /\ (\A h \in handling : h.step = "enqueue")'
    BY <1>3, OnePlaceStep
  <2>2. ASSUME NEW k \in Jobs \ {j} PROVE OnePlace(k)'
    <3>1. SameJob(k)
      BY <1>3, OthersSame DEF OrderlyInv, Inv
    <3> QED
      BY <3>1 DEF OrderlyInv, OnePlace, SameJob, CallbackStatus
  <2>3. \A c \in Creatives : Settled(c)'
    BY <1>3, JobSettles
  <2> QED
    BY <1>1, <2>1, <2>2, <2>3 DEF OrderlyInv
<1> QED
  BY <1>2, <1>3

(* No job has begun.                                                       *)
LEMMA OrderlyInit == Init => OrderlyInv
<1> SUFFICES ASSUME Init PROVE OrderlyInv
  OBVIOUS
<1>1. Inv
  BY InvInit
<1> QED
  BY <1>1 DEF Init, OrderlyInv, OnePlace, Settled, Waiting, Enqueuing

(* As long as nothing fails but jobs, a creative whose jobs have all been  *)
(* transcoded and packaged is in the cache once the work on it is over,    *)
(* however many requests had it transcoded (dispatchJobs,                  *)
(* handleTranscodeCompleted, HandlePackagingSuccess).                      *)
THEOREM ListedInTheEnd ==
    ASSUME Faults = {}
    PROVE  Spec => []ListedIfItExists
<1>1. OrderlyInv => ListedIfItExists
  <2> SUFFICES ASSUME OrderlyInv, NEW c \in Creatives, Quiet(c),
                      NEW j \in Jobs, ExternalId(j) = c, Produced(j),
                      \A k \in Jobs : ExternalId(k) = c /\ encore[k] # "none" => Produced(k)
               PROVE  record[c].status = "COMPLETED"
    BY DEF ListedIfItExists
  <2>1. \A k \in Jobs : ExternalId(k) = c => ~AtWork(k)
    <3> SUFFICES ASSUME NEW k \in Jobs, ExternalId(k) = c PROVE ~AtWork(k)
      OBVIOUS
    <3>1. \A s : ~Waiting(k, s)
      BY DEF Quiet, Waiting, Callback
    <3>2. ~Enqueuing(k)
      BY DEF Quiet, Enqueuing, HandlerStep
    <3> QED
      BY <3>1, <3>2 DEF Quiet, AtWork
  <2>2. encore[j] # "none"
    BY DEF OrderlyInv, OnePlace, Produced
  <2> QED
    BY <2>1, <2>2 DEF OrderlyInv, Settled, Unsettled
<1>2. Spec => []OrderlyInv
  BY OrderlyInit, OrderlyStep, PTL DEF Spec
<1> QED
  BY <1>1, <1>2, PTL
=============================================================================
