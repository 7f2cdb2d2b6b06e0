----------------------- MODULE PipelineHistoryProofs -----------------------
(***************************************************************************)
(* Proofs of the properties that relate an answer to everything that       *)
(* happened since its request arrived, for any ads, creatives, requests    *)
(* and job results.                                                        *)
(*                                                                         *)
(* What a request looks up is as old as its last command, while the        *)
(* history goes back to its arrival.  HistorySound bridges the two: as     *)
(* long as a request is being processed its history holds now as well, so  *)
(* that one look at Valkey is enough to tell.                              *)
(***************************************************************************)
EXTENDS PipelineHistory, PipelineProofs

(* What a history says of all the time is true now.                        *)
HistorySound ==
    \A r \in Requests : phase[r] = "scan" =>
        listed[r] \subseteq blacklist /\ known[r] \subseteq Recorded

(* Requests that have not arrived have not looked anything up.             *)
NothingLookedUp ==
    \A r \in Requests : phase[r] = "new" =>
        /\ lookup[r] = NoLookup
        /\ missing[r] = {}
        /\ \A c \in Creatives : found[r][c] = NoJob

(* A creative found without a record did not have one all the time.        *)
MissingUnknown ==
    \A r \in Requests :
        /\ lookup[r] # NoLookup /\ IsMissing(lookup[r].info)
              => CreativeId[lookup[r].ad] \notin known[r]
        /\ \A a \in missing[r] : CreativeId[a] \notin known[r]

(* A request looks up ads of its document.                                 *)
FromDocument ==
    \A r \in Requests :
        /\ todo[r] \subseteq received[r]
        /\ lookup[r] # NoLookup => lookup[r].ad \in received[r]

(* The document of r has an ad with key c that was not blacklisted all the *)
(* time.                                                                   *)
Allowed(r, c) ==
    \E b \in received[r] : CreativeId[b] = c /\ MediaUrl[b] \notin listed[r]

(* What a request transcodes was not blacklisted all the time, and what it *)
(* serves has such an ad for its key.                                      *)
OthersAllowed ==
    \A r \in Requests :
        /\ \A a \in missing[r] : MediaUrl[a] \notin listed[r]
        /\ \A c \in Creatives : found[r][c] # NoJob => Allowed(r, c)

HistoryInv ==
    TypeOK /\ HistorySound /\ NothingLookedUp /\ MissingUnknown /\ FromDocument

-----------------------------------------------------------------------------
(* Steps of requests.                                                      *)

(* The part of a request's state that only its own steps change.           *)
Processing == <<phase, received, todo, lookup, found, missing>>

(* Only four steps of a request, and a crash, change it.                   *)
LEMMA WhoProcesses ==
    ASSUME [Next]_vars
    PROVE  \/ UNCHANGED Processing
           \/ \E r \in Requests : \/ \E A \in SUBSET Ads : ReceiveRequest(r, A)
                                  \/ \E a \in Ads : GetRecord(r, a)
                                  \/ CheckBlackList(r)
                                  \/ Answer(r)
           \/ Crash
BY DEF Processing, Next, RequestStep, DispatchStep, CreateJob, RecordQueued,
       CallbackStep, HandleTranscodeFailed, HandleTranscodeCompleted,
       HandlePackagingSuccess, HandlePackagingFailure, HandlerContinues, UndoSet,
       EnqueuePackagingJob, EncoreFinishes, PackagerFinishes, BlackList,
       RemoveFromBlackList, LoseCallback, requestVars, vars

(* Requests arrive once, with nothing looked up.                           *)
LEMMA PhaseChanges ==
    ASSUME TypeOK, [Next]_vars, NEW r \in Requests
    PROVE  /\ phase'[r] = "new" => phase[r] = "new"
           /\ phase'[r] = "scan" => phase[r] \in {"new", "scan"}
           /\ phase[r] = "new" => UNCHANGED <<lookup[r], found[r], missing[r]>>
<1>1. CASE UNCHANGED Processing
  BY <1>1 DEF Processing
<1>2. ASSUME NEW q \in Requests, NEW A \in SUBSET Ads, ReceiveRequest(q, A)
      PROVE  /\ phase[q] = "new" /\ phase' = [phase EXCEPT ![q] = "scan"]
             /\ UNCHANGED <<lookup, found, missing>>
  BY <1>2 DEF ReceiveRequest
<1>3. ASSUME NEW q \in Requests, NEW a \in Ads, GetRecord(q, a)
      PROVE  /\ phase[q] = "scan"
             /\ UNCHANGED <<phase, found, missing>>
             /\ \A p \in Requests \ {q} : lookup'[p] = lookup[p]
  BY <1>3 DEF GetRecord, TypeOK
<1>4. ASSUME NEW q \in Requests, CheckBlackList(q)
      PROVE  /\ phase[q] = "scan"
             /\ UNCHANGED phase
             /\ \A p \in Requests \ {q} : UNCHANGED <<lookup[p], found[p], missing[p]>>
  BY <1>4 DEF CheckBlackList, TypeOK
<1>5. ASSUME NEW q \in Requests, Answer(q)
      PROVE  /\ phase[q] = "scan" /\ phase' = [phase EXCEPT ![q] = "answered"]
             /\ UNCHANGED <<lookup, found, missing>>
  BY <1>5 DEF Answer
<1>6. ASSUME Crash
      PROVE  /\ phase' = [q \in Requests |-> IF phase[q] = "scan" THEN "aborted" ELSE phase[q]]
             /\ UNCHANGED <<lookup, found, missing>>
  BY <1>6 DEF Crash
<1> QED
  BY <1>1, <1>2, <1>3, <1>4, <1>5, <1>6, WhoProcesses DEF TypeOK

(* A request keeps to the document it arrived with.                        *)
LEMMA DocumentChanges ==
    ASSUME TypeOK, [Next]_vars
    PROVE  /\ \A r \in Requests : phase[r] # "new" => received'[r] = received[r]
           /\ NothingLookedUp /\ FromDocument => FromDocument'
<1> USE DEF FromDocument
<1>1. CASE UNCHANGED Processing
  BY <1>1 DEF Processing
<1>2. ASSUME NEW q \in Requests, NEW A \in SUBSET Ads, ReceiveRequest(q, A)
      PROVE  /\ \A r \in Requests : phase[r] # "new" => received'[r] = received[r]
             /\ NothingLookedUp /\ FromDocument => FromDocument'
  <2>1. PICK K \in GetCreatives(A) : todo' = [todo EXCEPT ![q] = K]
    BY <1>2 DEF ReceiveRequest
  <2>2. K \subseteq A
    BY <2>1 DEF GetCreatives
  <2>3. /\ phase[q] = "new" /\ UNCHANGED lookup
        /\ received' = [received EXCEPT ![q] = A]
    BY <1>2 DEF ReceiveRequest
  <2> QED
    BY <2>1, <2>2, <2>3 DEF TypeOK, NothingLookedUp
<1>3. ASSUME NEW q \in Requests, NEW a \in Ads, GetRecord(q, a)
      PROVE  UNCHANGED received /\ (FromDocument => FromDocument')
  <2>1. /\ a \in todo[q] /\ todo' = [todo EXCEPT ![q] = @ \ {a}]
        /\ UNCHANGED received
    BY <1>3 DEF GetRecord
  <2>2. \/ UNCHANGED lookup
        \/ lookup' = [lookup EXCEPT ![q] = [ad |-> a, info |-> record[CreativeId[a]]]]
    BY <1>3 DEF GetRecord
  <2>3. \A r \in Requests : lookup'[r] = lookup[r] \/ (r = q /\ lookup'[r].ad = a)
    BY <2>2 DEF TypeOK
  <2> QED
    BY <2>1, <2>3 DEF TypeOK
<1>4. ASSUME NEW q \in Requests, CheckBlackList(q)
      PROVE  UNCHANGED received /\ (FromDocument => FromDocument')
  BY <1>4 DEF CheckBlackList, TypeOK
<1>5. ASSUME \/ \E q \in Requests : Answer(q)
             \/ Crash
      PROVE  UNCHANGED <<received, todo, lookup>>
  BY <1>5 DEF Answer, Crash
<1> QED
  BY <1>1, <1>2, <1>3, <1>4, <1>5, WhoProcesses

(* A request under way looks up records as they are and lists as missing   *)
(* what it has looked up.                                                  *)
LEMMA MissingChanges ==
    ASSUME TypeOK, [Next]_vars, NEW r \in Requests
    PROVE  /\ \/ lookup'[r] \in {lookup[r], NoLookup}
              \/ /\ phase[r] = "scan"
                 /\ \E a \in Ads :
                       lookup'[r] = [ad |-> a, info |-> record[CreativeId[a]]]
           /\ \A a \in missing'[r] :
                 \/ a \in missing[r]
                 \/ lookup[r] # NoLookup /\ lookup[r].ad = a /\ IsMissing(lookup[r].info)
<1>1. CASE UNCHANGED Processing
  BY <1>1 DEF Processing
<1>2. ASSUME NEW q \in Requests, NEW A \in SUBSET Ads, ReceiveRequest(q, A)
      PROVE  UNCHANGED <<lookup, missing>>
  BY <1>2 DEF ReceiveRequest
<1>3. ASSUME NEW q \in Requests, NEW b \in Ads, GetRecord(q, b)
      PROVE  /\ UNCHANGED missing
             /\ \/ lookup'[r] = lookup[r]
                \/ /\ phase[r] = "scan"
                   /\ lookup'[r] = [ad |-> b, info |-> record[CreativeId[b]]]
  BY <1>3 DEF GetRecord, TypeOK
<1>4. ASSUME NEW q \in Requests, CheckBlackList(q)
      PROVE  /\ lookup'[r] \in {lookup[r], NoLookup}
             /\ \A a \in missing'[r] :
                   \/ a \in missing[r]
                   \/ lookup[r] # NoLookup /\ lookup[r].ad = a /\ IsMissing(lookup[r].info)
  <2>1. lookup[q] # NoLookup /\ lookup' = [lookup EXCEPT ![q] = NoLookup]
    BY <1>4 DEF CheckBlackList
  <2>2. \/ missing' = missing
        \/ missing' = [missing EXCEPT ![q] =
                          IF IsMissing(lookup[q].info) THEN @ \cup {lookup[q].ad} ELSE @]
    BY <1>4 DEF CheckBlackList
  <2> QED
    BY <2>1, <2>2 DEF TypeOK
<1>5. ASSUME \/ \E q \in Requests : Answer(q)
             \/ Crash
      PROVE  UNCHANGED <<lookup, missing>>
  BY <1>5 DEF Answer, Crash
<1> QED
  BY <1>1, <1>2, <1>3, <1>4, <1>5, WhoProcesses

-----------------------------------------------------------------------------
(* The histories.                                                          *)

(* While a request is being processed its histories shrink to what is      *)
(* still so; before and after they are left alone.                         *)
LEMMA HistoryChanges ==
    ASSUME HistoryNext, NEW r \in Requests
    PROVE  /\ phase'[r] = "scan" =>
                 /\ listed'[r] \subseteq blacklist' /\ known'[r] \subseteq Recorded'
                 /\ phase[r] # "new" => /\ listed'[r] \subseteq listed[r]
                                        /\ known'[r] \subseteq known[r]
           /\ phase'[r] # "scan" => UNCHANGED <<listed[r], known[r]>>
BY DEF HistoryNext, Watch

(* A request that has not started has found nothing.                       *)
LEMMA HistoryInvInit == HistoryInit => HistoryInv /\ OthersAllowed
<1> SUFFICES ASSUME HistoryInit PROVE HistoryInv /\ OthersAllowed
  OBVIOUS
<1>1. Init /\ TypeOK
  BY InitType DEF HistoryInit
<1>2. HistorySound /\ NothingLookedUp /\ MissingUnknown /\ FromDocument /\ OthersAllowed
  BY <1>1 DEF HistoryInit, Init, HistorySound, NothingLookedUp, MissingUnknown,
              FromDocument, OthersAllowed, NoLookup
<1> QED
  BY <1>1, <1>2 DEF HistoryInv

(* Each turn of the loop is remembered with what has been true since the   *)
(* request was opened.                                                     *)
LEMMA HistoryInvStep ==
    HistoryInv /\ [HistoryNext]_<<vars, historyVars>> => HistoryInv'
<1> SUFFICES ASSUME HistoryInv, [HistoryNext]_<<vars, historyVars>> PROVE HistoryInv'
  OBVIOUS
<1> USE DEF HistoryInv
<1>1. CASE UNCHANGED <<vars, historyVars>>
  BY <1>1 DEF vars, valkeyVars, requestVars, externalVars, historyVars, TypeOK,
              HistorySound, NothingLookedUp, MissingUnknown, FromDocument, Recorded
<1>2. CASE HistoryNext
  <2>1. [Next]_vars
    BY <1>2 DEF HistoryNext
  <2>2. TypeOK'
    BY <2>1, StepType
  <2>3. HistorySound'
    BY <1>2, HistoryChanges DEF HistorySound
  <2>4. NothingLookedUp'
    BY <2>1, PhaseChanges DEF NothingLookedUp
  <2>5. ASSUME NEW r \in Requests PROVE
           /\ lookup'[r] # NoLookup /\ IsMissing(lookup'[r].info)
                 => CreativeId[lookup'[r].ad] \notin known'[r]
           /\ \A a \in missing'[r] : CreativeId[a] \notin known'[r]
    <3>1. CASE phase[r] = "new"
      BY <2>1, <3>1, PhaseChanges DEF NothingLookedUp
    <3>2. CASE phase[r] # "new"
      <4>1. known'[r] \subseteq known[r]
        BY <1>2, <3>2, HistoryChanges
      <4>2. ASSUME phase[r] = "scan", NEW a \in Ads, IsMissing(record[CreativeId[a]])
            PROVE  CreativeId[a] \notin known[r]
        BY <4>2 DEF HistorySound, Recorded, IsMissing
      <4>3. \/ lookup'[r] \in {lookup[r], NoLookup}
            \/ \E a \in Ads : /\ lookup'[r] = [ad |-> a, info |-> record[CreativeId[a]]]
                              /\ phase[r] = "scan"
        BY <2>1, MissingChanges
      <4>4. ASSUME lookup'[r] # NoLookup, IsMissing(lookup'[r].info)
            PROVE  CreativeId[lookup'[r].ad] \notin known'[r]
        <5>1. CASE lookup'[r] = lookup[r]
          BY <4>1, <4>4, <5>1 DEF MissingUnknown
        <5>2. ASSUME NEW a \in Ads, phase[r] = "scan",
                     lookup'[r] = [ad |-> a, info |-> record[CreativeId[a]]]
              PROVE  CreativeId[lookup'[r].ad] \notin known'[r]
          <6>1. lookup'[r].ad = a /\ lookup'[r].info = record[CreativeId[a]]
            BY <5>2
          <6> QED
            BY <4>1, <4>2, <4>4, <5>2, <6>1
        <5> QED
          BY <4>3, <4>4, <5>1, <5>2
      <4>5. \A a \in missing'[r] : CreativeId[a] \notin known'[r]
        BY <2>1, <4>1, MissingChanges DEF MissingUnknown
      <4> QED
        BY <4>4, <4>5
    <3> QED
      BY <3>1, <3>2
  <2>6. MissingUnknown'
    BY <2>5 DEF MissingUnknown
  <2>7. FromDocument'
    BY <2>1, DocumentChanges
  <2> QED
    BY <2>2, <2>3, <2>4, <2>6, <2>7
<1> QED
  BY <1>1, <1>2

(* So it is remembered rightly for ever.                                   *)
LEMMA HistoryInvariance == HistorySpec => []HistoryInv
  BY HistoryInvInit, HistoryInvStep, PTL DEF HistorySpec

(* No request dispatches a job for a creative that had a record as long as *)
(* the request was being processed, whatever fails (partitionCreatives     *)
(* against the Set in dispatchJobs).                                       *)
THEOREM RecordedNotDuplicated == HistorySpec => []NoDuplicateOnceRecorded
<1>1. HistoryInv => NoDuplicateOnceRecorded
  BY DEF HistoryInv, MissingUnknown, NoDuplicateOnceRecorded
<1> QED
  BY <1>1, HistoryInvariance, PTL

-----------------------------------------------------------------------------
(* The blacklist.                                                          *)

(* While Valkey answers, what is transcoded is not blacklisted at the      *)
(* time, and what is served has an ad in the document that is not.         *)
LEMMA AllowedChanges ==
    ASSUME TypeOK, FromDocument, [Next]_vars, ~ValkeyMayFail, NEW r \in Requests
    PROVE  /\ \A a \in missing'[r] :
                 a \in missing[r] \/ (phase[r] = "scan" /\ MediaUrl[a] \notin blacklist)
           /\ \A c \in Creatives :
                 \/ found'[r][c] = found[r][c]
                 \/ /\ phase[r] = "scan"
                    /\ \E b \in received[r] :
                          CreativeId[b] = c /\ MediaUrl[b] \notin blacklist
<1>1. CASE UNCHANGED Processing
  BY <1>1 DEF Processing
<1>2. ASSUME NEW q \in Requests, CheckBlackList(q)
      PROVE  /\ phase[q] = "scan" /\ lookup[q].ad \in received[q]
             /\ \/ UNCHANGED <<found, missing>>
                \/ /\ MediaUrl[lookup[q].ad] \notin blacklist
                   /\ \A p \in Requests, c \in Creatives :
                         found'[p][c] # found[p][c] => p = q /\ c = CreativeId[lookup[q].ad]
                   /\ \A p \in Requests : \A a \in missing'[p] :
                         a \in missing[p] \/ (p = q /\ a = lookup[q].ad)
  <2> DEFINE b == lookup[q].ad
             d == CreativeId[b]
             p == Playlist(lookup[q].info)
  <2>1. phase[q] = "scan" /\ b \in received[q]
    BY <1>2 DEF CheckBlackList, FromDocument
  <2>2. CASE InBlackList(MediaUrl[b])
    BY <1>2, <2>1, <2>2 DEF CheckBlackList
  <2>3. CASE ~InBlackList(MediaUrl[b])
    <3>1. \/ UNCHANGED <<found, missing>>
          \/ /\ found' = [found EXCEPT ![q][d] = p]
             /\ \E S \in {missing[q], missing[q] \cup {b}} :
                   missing' = [missing EXCEPT ![q] = S]
      BY <1>2, <2>3 DEF CheckBlackList
    <3>2. MediaUrl[b] \notin blacklist
      BY <2>3 DEF InBlackList
    <3>3. /\ found \in [Requests -> [Creatives -> Jobs \cup {NoJob}]]
          /\ missing \in [Requests -> SUBSET Ads]
      BY DEF TypeOK
    <3> HIDE DEF b, d, p
    <3>4. found' = [found EXCEPT ![q][d] = p] =>
             \A o \in Requests, c \in Creatives : found'[o][c] # found[o][c] => o = q /\ c = d
      BY <3>3
    <3>5. \A S \in {missing[q], missing[q] \cup {b}} :
             missing' = [missing EXCEPT ![q] = S] =>
                \A o \in Requests : \A a \in missing'[o] :
                   a \in missing[o] \/ (o = q /\ a = b)
      BY <3>3
    <3> USE DEF b, d
    <3> QED
      BY <2>1, <3>1, <3>2, <3>4, <3>5
  <2> QED
    BY <2>2, <2>3
<1>3. ASSUME \/ \E q \in Requests : \/ \E A \in SUBSET Ads : ReceiveRequest(q, A)
                                    \/ \E b \in Ads : GetRecord(q, b)
                                    \/ Answer(q)
             \/ Crash
      PROVE  UNCHANGED <<found, missing>>
  BY <1>3 DEF ReceiveRequest, GetRecord, Answer, Crash
<1> QED
  BY <1>1, <1>2, <1>3, WhoProcesses

(* A lookup in the blacklist that succeeds keeps what is listed out.       *)
LEMMA AllowedStep ==
    ASSUME HistoryInv, OthersAllowed, ~ValkeyMayFail,
           [HistoryNext]_<<vars, historyVars>>
    PROVE  OthersAllowed'
<1> USE DEF HistoryInv
<1>1. CASE UNCHANGED <<vars, historyVars>>
  BY <1>1 DEF vars, requestVars, historyVars, OthersAllowed, Allowed
<1>2. CASE HistoryNext
  <2> SUFFICES ASSUME NEW r \in Requests
               PROVE  /\ \A a \in missing'[r] : MediaUrl[a] \notin listed'[r]
                      /\ \A c \in Creatives : found'[r][c] # NoJob => Allowed(r, c)'
    BY DEF OthersAllowed
  <2>1. [Next]_vars
    BY <1>2 DEF HistoryNext
  <2>2. CASE phase[r] = "new"
    BY <2>1, <2>2, PhaseChanges DEF NothingLookedUp
  <2>3. CASE phase[r] # "new"
    <3>1. listed'[r] \subseteq listed[r]
      BY <1>2, <2>3, HistoryChanges
    <3>2. phase[r] = "scan" => listed[r] \subseteq blacklist
      BY DEF HistorySound
    <3>3. received'[r] = received[r]
      BY <2>1, <2>3, DocumentChanges
    <3>4. \A a \in missing'[r] : MediaUrl[a] \notin listed'[r]
      BY <2>1, <3>1, <3>2, AllowedChanges DEF OthersAllowed
    <3>5. ASSUME NEW c \in Creatives, found'[r][c] # NoJob PROVE Allowed(r, c)'
      <4>1. Allowed(r, c)
        BY <2>1, <3>2, <3>5, AllowedChanges DEF OthersAllowed, Allowed
      <4> QED
        BY <3>1, <3>3, <4>1 DEF Allowed
    <3> QED
      BY <3>4, <3>5
  <2> QED
    BY <2>2, <2>3
<1> QED
  BY <1>1, <1>2

(* "Whenever a VAST or VMAP response is provided by the ad server, the     *)
(* normalizer will filter out ads with a media file present in the         *)
(* blacklist" (readme.md:113): what the code keeps of it, for any keys,    *)
(* as long as Valkey answers: an error of the lookup counts as "not        *)
(* blacklisted" (api.go:544).                                              *)
THEOREM BlacklistIsHonoured ==
    ASSUME "valkey" \notin Faults
    PROVE  HistorySpec => []BlacklistHonouredByKey
<1>1. HistoryInv /\ OthersAllowed /\ [HistoryNext]_<<vars, historyVars>> => OthersAllowed'
  BY AllowedStep DEF ValkeyMayFail
<1>2. HistoryInv /\ OthersAllowed => BlacklistHonouredByKey
  <2> SUFFICES ASSUME HistoryInv, OthersAllowed,
                      NEW r \in Requests, NEW a \in received[r], MediaUrl[a] \in listed[r]
               PROVE  /\ a \notin missing[r]
                      /\ found[r][CreativeId[a]] # NoJob => Allowed(r, CreativeId[a])
    BY DEF BlacklistHonouredByKey, ReplaceMediaFiles, Allowed
  <2>1. CreativeId[a] \in Creatives
    BY ConstantsAssumption DEF HistoryInv, TypeOK
  <2> QED
    BY <2>1 DEF OthersAllowed
<1> QED
  BY <1>1, <1>2, HistoryInvInit, HistoryInvariance, PTL DEF HistorySpec
=============================================================================
