---------------------- MODULE PipelineRefinementProofs -----------------------
(***************************************************************************)
(* Proof that the pipeline implements AdCache, for any ads, creatives,     *)
(* requests, job results and faults.                                       *)
(*                                                                         *)
(* Every step is one of AdCache's or leaves what AdCache sees alone.  The  *)
(* soundness of records (Inv) makes Publish possible; Drop takes an answer *)
(* to hold nothing for a creative before it has been looked up, and each   *)
(* creative to be looked up once (NothingFoundYet).                        *)
(***************************************************************************)
EXTENDS PipelineRefinement, PipelineProofs

(* Request r is at creative c, or will come to it.                         *)
LookingUp(r, c) == lookup[r] # NoLookup /\ CreativeId[lookup[r].ad] = c
ToLookUp(r, c) == \E a \in todo[r] : CreativeId[a] = c

NothingFoundYet ==
    \A r \in Requests :
        /\ phase[r] = "new" => lookup[r] = NoLookup
        /\ \A a, b \in todo[r] : CreativeId[a] = CreativeId[b] => a = b
        /\ \A c \in Creatives :
              /\ ~(LookingUp(r, c) /\ ToLookUp(r, c))
              /\ phase[r] = "new" \/ ToLookUp(r, c) \/ LookingUp(r, c)
                    => found[r][c] = NoJob

-----------------------------------------------------------------------------
(* Nothing is found in the beginning.                                      *)
LEMMA NothingFoundInit == Init => NothingFoundYet
BY DEF Init, NothingFoundYet, LookingUp, ToLookUp

(* What is found for a creative is found once, when its turn ends.         *)
LEMMA NothingFoundStep ==
    ASSUME TypeOK, NothingFoundYet, [Next]_vars
    PROVE  NothingFoundYet'
<1> USE DEF LookingUp, ToLookUp
<1>0. \A a \in Ads : CreativeId[a] \in Creatives
  BY ConstantsAssumption
<1>1. CASE UNCHANGED <<phase, todo, lookup, found>>
  BY <1>1 DEF NothingFoundYet
<1>2. ASSUME NEW r \in Requests, NEW A \in SUBSET Ads, ReceiveRequest(r, A)
      PROVE  NothingFoundYet'
  <2>1. PICK K \in GetCreatives(A) : todo' = [todo EXCEPT ![r] = K]
    BY <1>2 DEF ReceiveRequest
  <2>2. \A a, b \in K : CreativeId[a] = CreativeId[b] => a = b
    BY <2>1 DEF GetCreatives
  <2>3. /\ phase[r] = "new" /\ phase' = [phase EXCEPT ![r] = "scan"]
        /\ UNCHANGED <<lookup, found>>
    BY <1>2 DEF ReceiveRequest
  <2> QED
    BY <2>1, <2>2, <2>3 DEF NothingFoundYet, TypeOK
<1>3. ASSUME NEW r \in Requests, NEW a \in Ads, GetRecord(r, a)
      PROVE  NothingFoundYet'
  <2>1. /\ phase[r] = "scan" /\ lookup[r] = NoLookup /\ a \in todo[r]
        /\ todo' = [todo EXCEPT ![r] = @ \ {a}]
        /\ UNCHANGED <<phase, found>>
    BY <1>3 DEF GetRecord
  <2>2. CASE UNCHANGED lookup
    BY <2>1, <2>2 DEF NothingFoundYet, TypeOK
  <2>3. CASE lookup' = [lookup EXCEPT ![r] = [ad |-> a, info |-> record[CreativeId[a]]]]
    <3>1. /\ \A q \in Requests \ {r} : lookup'[q] = lookup[q]
          /\ lookup'[r].ad = a
      BY <2>3 DEF TypeOK
    <3>2. /\ \A q \in Requests \ {r} : todo'[q] = todo[q]
          /\ todo'[r] = todo[r] \ {a}
      BY <2>1 DEF TypeOK
    <3> QED
      BY <2>1, <3>1, <3>2 DEF NothingFoundYet
  <2> QED
    BY <1>3, <2>2, <2>3 DEF GetRecord
<1>4. ASSUME NEW r \in Requests, CheckBlackList(r) PROVE NothingFoundYet'
  <2> DEFINE d == CreativeId[lookup[r].ad]
             p == Playlist(lookup[r].info)
  <2>1. /\ found' = found \/ found' = [found EXCEPT ![r][d] = p]
        /\ lookup[r] # NoLookup /\ lookup' = [lookup EXCEPT ![r] = NoLookup]
        /\ phase[r] = "scan"
        /\ UNCHANGED <<phase, todo>>
    BY <1>4 DEF CheckBlackList
  <2>2. d \in Creatives /\ ~ToLookUp(r, d)
    BY <2>1, <1>0 DEF NothingFoundYet, TypeOK, Lookups
  <2>3. \A q \in Requests : lookup'[q] = IF q = r THEN NoLookup ELSE lookup[q]
    BY <2>1 DEF TypeOK
  <2>4. \A q \in Requests, c \in Creatives :
           found'[q][c] # found[q][c] => q = r /\ c = d
    <3>1. found \in [Requests -> [Creatives -> Jobs \cup {NoJob}]]
      BY DEF TypeOK
    <3> HIDE DEF d, p
    <3> QED
      BY <2>1, <3>1
  <2> HIDE DEF d, p
  <2> QED
    BY <2>1, <2>2, <2>3, <2>4 DEF NothingFoundYet
<1>5. ASSUME NEW r \in Requests, Answer(r) PROVE NothingFoundYet'
  BY <1>5 DEF Answer, NothingFoundYet, TypeOK
<1>6. CASE Crash
  BY <1>6 DEF Crash, NothingFoundYet, TypeOK
<1>7. \/ UNCHANGED <<phase, todo, lookup, found>>
      \/ \E r \in Requests : \/ \E A \in SUBSET Ads : ReceiveRequest(r, A)
                             \/ \E a \in Ads : GetRecord(r, a)
                             \/ CheckBlackList(r)
                             \/ Answer(r)
      \/ Crash
  BY DEF Next, RequestStep, DispatchStep, CreateJob, RecordQueued, CallbackStep,
         HandleTranscodeFailed, HandleTranscodeCompleted, HandlePackagingSuccess,
         HandlePackagingFailure, HandlerContinues, UndoSet, EnqueuePackagingJob,
         EncoreFinishes, PackagerFinishes, BlackList, RemoveFromBlackList,
         LoseCallback, requestVars, vars
<1> QED
  BY <1>1, <1>2, <1>3, <1>4, <1>5, <1>6, <1>7

-----------------------------------------------------------------------------
(* The pipeline starts as AdCache does.                                    *)
LEMMA InitRefines == Init => Promise!Init
<1> SUFFICES ASSUME Init PROVE Promise!Init
  OBVIOUS
<1>1. madeBar = [c \in Creatives |-> {}]
  BY DEF Init, madeBar, Produced
<1>2. cacheBar = [c \in Creatives |-> NoJob]
  BY DEF Init, cacheBar, Playlist, Absent
<1>3. stateBar = [r \in Requests |-> "new"]
  BY DEF Init, stateBar
<1>4. viewBar = [r \in Requests |-> [c \in Creatives |-> NoJob]]
  BY ConstantsAssumption DEF Init, viewBar, NoLookup
<1> QED
  BY <1>1, <1>2, <1>3, <1>4 DEF Promise!Init

(* A request's steps open it, look, drop and close it.                     *)
LEMMA RequestRefines ==
    ASSUME TypeOK, NothingFoundYet, NEW r \in Requests,
           \/ \E A \in SUBSET Ads : ReceiveRequest(r, A)
           \/ RequestStep(r)
    PROVE  Promise!Next \/ UNCHANGED <<madeBar, cacheBar, stateBar, viewBar>>
<1>1. UNCHANGED <<madeBar, cacheBar>>
  BY DEF RequestStep, ReceiveRequest, GetRecord, CheckBlackList, Answer, madeBar,
         cacheBar, Produced, valkeyVars, externalVars
<1>2. ASSUME NEW A \in SUBSET Ads, ReceiveRequest(r, A) PROVE Promise!Open(r)
  <2>1. UNCHANGED viewBar
    BY <1>2 DEF ReceiveRequest, viewBar
  <2>2. stateBar[r] = "new" /\ stateBar' = [stateBar EXCEPT ![r] = "open"]
    BY <1>2 DEF ReceiveRequest, stateBar, TypeOK
  <2> QED
    BY <1>1, <2>1, <2>2 DEF Promise!Open
<1>3. ASSUME NEW a \in Ads, GetRecord(r, a)
      PROVE  \/ Promise!Look(r, CreativeId[a])
             \/ UNCHANGED <<stateBar, viewBar>>
  <2>1. UNCHANGED stateBar /\ stateBar[r] = "open"
    BY <1>3 DEF GetRecord, stateBar
  <2>2. CASE UNCHANGED lookup
    BY <1>3, <2>1, <2>2 DEF GetRecord, viewBar
  <2>3. CASE lookup' = [lookup EXCEPT ![r] = [ad |-> a, info |-> record[CreativeId[a]]]]
    <3> DEFINE d == CreativeId[a]
               seen == Playlist(record[d])
    <3>1. lookup[r] = NoLookup /\ a # NoAd /\ UNCHANGED found /\ d \in Creatives
      BY <1>3, ConstantsAssumption DEF GetRecord
    <3>2. \A q \in Requests : lookup'[q] = IF q = r
                                           THEN [ad |-> a, info |-> record[CreativeId[a]]]
                                           ELSE lookup[q]
      BY <2>3 DEF TypeOK
    <3>3. viewBar' = [viewBar EXCEPT ![r][d] = seen]
      <4>1. viewBar' = [q \in Requests |-> [c \in Creatives |->
                           IF lookup'[q] # NoLookup /\ CreativeId[lookup'[q].ad] = c
                           THEN Playlist(lookup'[q].info) ELSE found[q][c]]]
        BY <3>1 DEF viewBar
      <4>2. /\ lookup'[r] # NoLookup /\ CreativeId[lookup'[r].ad] = d
            /\ Playlist(lookup'[r].info) = seen
        BY <3>1, <3>2 DEF NoLookup
      <4>3. \A c \in Creatives : viewBar[r][c] = found[r][c]
        BY <3>1 DEF viewBar
      <4>4. \A q \in Requests, c \in Creatives :
               viewBar'[q][c] = IF q = r /\ c = d THEN seen ELSE viewBar[q][c]
        <5>1. \A q \in Requests \ {r} : viewBar'[q] = viewBar[q]
          BY <3>1, <3>2 DEF viewBar
        <5>2. \A c \in Creatives : viewBar'[r][c] = IF c = d THEN seen ELSE viewBar[r][c]
          <6> HIDE DEF seen, d
          <6> QED
            BY <4>1, <4>2, <4>3
        <5> QED
          BY <5>1, <5>2
      <4>5. /\ viewBar = [q \in Requests |-> [c \in Creatives |-> viewBar[q][c]]]
            /\ viewBar' = [q \in Requests |-> [c \in Creatives |-> viewBar'[q][c]]]
        <5>1. viewBar = [q \in Requests |-> [c \in Creatives |-> viewBar[q][c]]]
          BY DEF viewBar
        <5> QED
          BY <4>1, <5>1
      <4> HIDE DEF seen, d
      <4> QED
        BY <4>4, <4>5
    <3>4. seen = cacheBar[d]
      BY <3>1 DEF cacheBar
    <3> QED
      BY <1>1, <2>1, <3>3, <3>4 DEF Promise!Look
  <2> QED
    BY <1>3, <2>2, <2>3 DEF GetRecord
<1>4. ASSUME CheckBlackList(r)
      PROVE  \E c \in Creatives : Promise!Drop(r, c) \/ UNCHANGED <<stateBar, viewBar>>
  <2> DEFINE d == CreativeId[lookup[r].ad]
             p == Playlist(lookup[r].info)
  <2>1. UNCHANGED stateBar /\ stateBar[r] = "open"
    BY <1>4 DEF CheckBlackList, stateBar
  <2>2. lookup[r] # NoLookup /\ d \in Creatives /\ found[r][d] = NoJob
    BY <1>4, ConstantsAssumption DEF CheckBlackList, TypeOK, Lookups, NothingFoundYet, LookingUp
  <2>3. \A q \in Requests : lookup'[q] = IF q = r THEN NoLookup ELSE lookup[q]
    BY <1>4 DEF CheckBlackList, TypeOK
  <2>4. CASE found' = found
    <3>1. viewBar' = [viewBar EXCEPT ![r][d] = NoJob]
      BY <2>2, <2>3, <2>4 DEF viewBar
    <3> QED
      BY <1>1, <2>1, <2>2, <3>1 DEF Promise!Drop
  <2>5. CASE found' = [found EXCEPT ![r][d] = p]
    <3>1. \A q \in Requests, c \in Creatives :
             found'[q][c] = IF q = r /\ c = d THEN p ELSE found[q][c]
      <4>1. found \in [Requests -> [Creatives -> Jobs \cup {NoJob}]]
        BY DEF TypeOK
      <4> HIDE DEF d, p
      <4> QED
        BY <2>5, <4>1
    <3>2. viewBar' = viewBar
      BY <2>2, <2>3, <3>1 DEF viewBar
    <3> QED
      BY <2>1, <2>2, <3>2
  <2> QED
    BY <1>4, <2>4, <2>5 DEF CheckBlackList
<1>5. ASSUME Answer(r) PROVE Promise!Close({r})
  <2>1. UNCHANGED viewBar
    BY <1>5 DEF Answer, viewBar
  <2>2. /\ stateBar[r] = "open"
        /\ stateBar' = [q \in Requests |-> IF q \in {r} THEN "closed" ELSE stateBar[q]]
    BY <1>5 DEF Answer, stateBar, TypeOK
  <2> QED
    BY <1>1, <2>1, <2>2 DEF Promise!Close
<1>6. \A a \in Ads : CreativeId[a] \in Creatives
  BY ConstantsAssumption
<1> QED
  BY <1>1, <1>2, <1>3, <1>4, <1>5, <1>6 DEF RequestStep, Promise!Next

(* The steps of goroutines that work on a creative publish its playlist or *)
(* withdraw it; Encore and the packager make playlists.                    *)
LEMMA RecordRefines ==
    ASSUME TypeOK, CallbacksSound, Next, UNCHANGED <<madeBar, stateBar, viewBar>>,
           NEW c \in Creatives, \A d \in Creatives \ {c} : record'[d] = record[d]
    PROVE  Promise!Next \/ UNCHANGED cacheBar
<1>1. /\ cacheBar = [d \in Creatives |-> Playlist(record[d])]
      /\ cacheBar' = [d \in Creatives |-> Playlist(record'[d])]
  BY DEF cacheBar
<1>2. \A p : Playlist(record'[c]) = p => cacheBar' = [cacheBar EXCEPT ![c] = p]
  BY <1>1
<1>3. CASE record'[c] = record[c]
  BY <1>1, <1>3
<1>4. CASE record'[c].status \in {"NONE", "QUEUED", "PACKAGING"}
  <2>1. Playlist(record'[c]) = NoJob
    BY <1>4 DEF Playlist
  <2> QED
    BY <1>2, <2>1 DEF Promise!Next, Promise!Withdraw
<1>5. ASSUME NEW j \in Jobs, ExternalId(j) = c, record'[c] = Completed(j), Produced(j)
      PROVE  Promise!Next
  <2>1. Playlist(record'[c]) = j
    BY <1>5 DEF Playlist, Completed
  <2>2. j \in madeBar[c]
    BY <1>5 DEF madeBar
  <2> QED
    BY <1>2, <2>1, <2>2 DEF Promise!Next, Promise!Publish
<1> QED
  BY <1>3, <1>4, <1>5, RecordChanges

(* A playlist is made for the creative its job was created for.            *)
LEMMA MakeRefines ==
    ASSUME NEW j \in Jobs,
           \A p \in Jobs : Produced(p)' <=> Produced(p) \/ p = j,
           UNCHANGED <<cacheBar, stateBar, viewBar>>
    PROVE  Promise!Next
<1>1. ExternalId(j) \in Creatives
  BY JobTypes
<1>2. madeBar' = [c \in Creatives |-> {p \in Jobs : ExternalId(p) = c /\ Produced(p)'}]
  BY DEF madeBar, Produced
<1>3. madeBar' = [madeBar EXCEPT ![ExternalId(j)] = @ \cup {j}]
  <2> DEFINE Was(p) == Produced(p)
             Is(p) == Produced(p)'
  <2>1. \A p \in Jobs : Is(p) <=> Was(p) \/ p = j
    OBVIOUS
  <2>2. madeBar = [c \in Creatives |-> {p \in Jobs : ExternalId(p) = c /\ Was(p)}]
    BY DEF madeBar
  <2>3. madeBar' = [c \in Creatives |-> {p \in Jobs : ExternalId(p) = c /\ Is(p)}]
    BY <1>2
  <2> HIDE DEF Was, Is
  <2> QED
    BY <1>1, <2>1, <2>2, <2>3
<1> QED
  BY <1>1, <1>3 DEF Promise!Next, Promise!Make

(* Steps that neither look at records nor change what is made or cached    *)
(* are hidden from AdCache.                                                *)
LEMMA HiddenSteps ==
    ASSUME TypeOK, UNCHANGED <<record, phase, lookup, found>>,
           \A p \in Jobs : Produced(p)' <=> Produced(p)
    PROVE  UNCHANGED <<madeBar, cacheBar, stateBar, viewBar>>
<1>1. madeBar' = madeBar
  <2> DEFINE Was(p) == Produced(p)
             Is(p) == Produced(p)'
  <2>1. \A p \in Jobs : Is(p) <=> Was(p)
    OBVIOUS
  <2>2. madeBar = [c \in Creatives |-> {p \in Jobs : ExternalId(p) = c /\ Was(p)}]
    BY DEF madeBar
  <2>3. madeBar' = [c \in Creatives |-> {p \in Jobs : ExternalId(p) = c /\ Is(p)}]
    BY DEF madeBar, Produced
  <2> HIDE DEF Was, Is
  <2> QED
    BY <2>1, <2>2, <2>3
<1> QED
  BY <1>1 DEF cacheBar, stateBar, viewBar

(* What a goroutine working on job j does to the records, it does to the   *)
(* one of the creative the job is for.                                     *)
LEMMA JobRefines ==
    ASSUME TypeOK, CallbacksSound, Next, NEW j \in Jobs,
           \/ RecordQueued(j) \/ UndoSet(j)
           \/ CallbackStep(j)
    PROVE  Promise!Next \/ UNCHANGED <<madeBar, cacheBar, stateBar, viewBar>>
<1> DEFINE c == ExternalId(j)
<1>1. UNCHANGED <<requestVars, encore, packaged>>
  BY DEF RecordQueued, UndoSet, CallbackStep, HandleTranscodeFailed,
         HandleTranscodeCompleted, HandlePackagingSuccess, HandlePackagingFailure,
         externalVars
<1>2. UNCHANGED <<madeBar, stateBar, viewBar>>
  BY <1>1 DEF requestVars, madeBar, stateBar, viewBar, Produced
<1>3. c \in Creatives
  BY JobTypes
<1>4. \A d \in Creatives \ {c} : record'[d] = record[d]
  <2>1. record' = record \/ \E i : record' = [record EXCEPT ![c] = i]
    BY DEF RecordQueued, UndoSet, CallbackStep, HandleTranscodeFailed,
           HandleTranscodeCompleted, HandlePackagingSuccess,
           HandlePackagingFailure, Delete, Set, SetFails, SetApplied
  <2> QED
    BY <2>1 DEF TypeOK
<1> HIDE DEF c
<1> QED
  BY <1>2, <1>3, <1>4, RecordRefines

(* Encore and the packager make playlists or nothing.                      *)
LEMMA ServiceRefines ==
    ASSUME TypeOK, CreatedOnce, NEW j \in Jobs,
           CreateJob(j) \/ EncoreFinishes(j) \/ PackagerFinishes(j)
    PROVE  Promise!Next \/ UNCHANGED <<madeBar, cacheBar, stateBar, viewBar>>
<1>1. UNCHANGED <<record, requestVars>>
  BY DEF CreateJob, EncoreFinishes, PackagerFinishes, valkeyVars
<1>2. UNCHANGED <<cacheBar, stateBar, viewBar>>
  BY <1>1 DEF requestVars, cacheBar, stateBar, viewBar
<1>3. \/ \A p \in Jobs : Produced(p)' <=> Produced(p)
      \/ \A p \in Jobs : Produced(p)' <=> Produced(p) \/ p = j
  <2>1. CASE CreateJob(j)
    BY <2>1 DEF CreateJob, CreatedOnce, Produced, TypeOK
  <2>2. CASE EncoreFinishes(j)
    BY <2>2 DEF EncoreFinishes, Produced, TypeOK
  <2>3. CASE PackagerFinishes(j)
    BY <2>3 DEF PackagerFinishes, Produced, TypeOK
  <2> QED
    BY <2>1, <2>2, <2>3
<1> QED
  BY <1>1, <1>2, <1>3, HiddenSteps, MakeRefines DEF requestVars

(* A crash abandons the open requests together.                            *)
LEMMA CrashRefines ==
    ASSUME TypeOK, Crash
    PROVE  Promise!Next
<1> DEFINE R == {r \in Requests : phase[r] = "scan"}
<1>1. UNCHANGED <<madeBar, cacheBar, viewBar>>
  BY DEF Crash, madeBar, cacheBar, viewBar, Produced, valkeyVars, externalVars
<1>2. /\ \A r \in R : stateBar[r] = "open"
      /\ stateBar' = [r \in Requests |-> IF r \in R THEN "closed" ELSE stateBar[r]]
  BY DEF Crash, stateBar, TypeOK
<1>3. Promise!Close(R) /\ R \in SUBSET Requests
  BY <1>1, <1>2 DEF Promise!Close
<1> QED
  BY <1>3 DEF Promise!Next

(* Every step of the pipeline is a step of AdCache or hidden from it.      *)
LEMMA StepRefines ==
    ASSUME Inv, NothingFoundYet, [Next]_vars
    PROVE  [Promise!Next]_Promise!vars
<1>0. TypeOK /\ CreatedOnce /\ CallbacksSound
  BY DEF Inv
<1> SUFFICES Promise!Next \/ UNCHANGED <<madeBar, cacheBar, stateBar, viewBar>>
  BY DEF Promise!vars
<1>1. CASE UNCHANGED <<record, phase, lookup, found, packaged, encore>>
  BY <1>0, <1>1, HiddenSteps DEF Produced
<1>2. ASSUME NEW r \in Requests,
             \/ \E A \in SUBSET Ads : ReceiveRequest(r, A)
             \/ RequestStep(r)
      PROVE  Promise!Next \/ UNCHANGED <<madeBar, cacheBar, stateBar, viewBar>>
  BY <1>0, <1>2, RequestRefines
<1>3. ASSUME Next, NEW j \in Jobs,
             RecordQueued(j) \/ UndoSet(j) \/ CallbackStep(j)
      PROVE  Promise!Next \/ UNCHANGED <<madeBar, cacheBar, stateBar, viewBar>>
  BY <1>0, <1>3, JobRefines
<1>4. ASSUME NEW j \in Jobs, CreateJob(j) \/ EncoreFinishes(j) \/ PackagerFinishes(j)
      PROVE  Promise!Next \/ UNCHANGED <<madeBar, cacheBar, stateBar, viewBar>>
  BY <1>0, <1>4, ServiceRefines
<1>5. CASE Crash
  BY <1>0, <1>5, CrashRefines
<1>6. CASE Next
  <2>1. \/ UNCHANGED <<record, phase, lookup, found, packaged, encore>>
        \/ \E r \in Requests : \/ \E A \in SUBSET Ads : ReceiveRequest(r, A)
                               \/ RequestStep(r)
        \/ \E j \in Jobs : \/ RecordQueued(j) \/ UndoSet(j) \/ CallbackStep(j)
                           \/ CreateJob(j) \/ EncoreFinishes(j)
                           \/ PackagerFinishes(j)
        \/ Crash
    <3> DEFINE Hidden == UNCHANGED <<record, phase, lookup, found, packaged, encore>>
    <3>1. ASSUME NEW j \in Jobs, EnqueuePackagingJob(j) PROVE Hidden
      BY <3>1 DEF EnqueuePackagingJob, requestVars, externalVars
    <3>2. ASSUME NEW u, BlackList(u) \/ RemoveFromBlackList(u) PROVE Hidden
      BY <3>2 DEF BlackList, RemoveFromBlackList, requestVars, externalVars
    <3>3. ASSUME NEW m, LoseCallback(m) PROVE Hidden
      BY <3>3 DEF LoseCallback, valkeyVars, requestVars
    <3> HIDE DEF Hidden
    <3>4. \/ Hidden
          \/ \E r \in Requests : \/ \E A \in SUBSET Ads : ReceiveRequest(r, A)
                                 \/ RequestStep(r)
          \/ \E j \in Jobs : \/ RecordQueued(j) \/ UndoSet(j) \/ CallbackStep(j)
                             \/ CreateJob(j) \/ EncoreFinishes(j)
                             \/ PackagerFinishes(j)
          \/ Crash
      BY <1>6, <3>1, <3>2, <3>3, Zenon DEF Next, DispatchStep, HandlerContinues
    <3> QED
      BY <3>4 DEF Hidden
  <2> QED
    BY <1>1, <1>2, <1>3, <1>4, <1>5, <1>6, <2>1
<1>7. CASE UNCHANGED vars
  BY <1>1, <1>7 DEF vars, valkeyVars, requestVars, externalVars
<1> QED
  BY <1>6, <1>7

-----------------------------------------------------------------------------
(* Whatever fails and whoever races, the pipeline keeps AdCache's promise: *)
(* the playlists in an answer were made for the creatives asked for and    *)
(* were cached at some moment while the request was open.                  *)
THEOREM PipelineImplementsAdCache == Spec => ImplementsAdCache
<1>1. Init => Promise!Init /\ Inv /\ NothingFoundYet
  BY InitRefines, InvInit, NothingFoundInit
<1>2. Inv /\ NothingFoundYet /\ [Next]_vars => Inv' /\ NothingFoundYet'
  BY InvStep, NothingFoundStep DEF Inv
<1>3. Inv /\ NothingFoundYet /\ [Next]_vars => [Promise!Next]_Promise!vars
  BY StepRefines
<1> QED
  BY <1>1, <1>2, <1>3, PTL DEF Spec, ImplementsAdCache, Promise!Spec
=============================================================================
