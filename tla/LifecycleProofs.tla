-------------------------- MODULE LifecycleProofs ---------------------------
(***************************************************************************)
(* Proofs about the life of the process, for any set of environments.      *)
(*                                                                         *)
(* Each property follows from what main has behind it at each stage: the   *)
(* environment has been found in order once main is past ReadConfig        *)
(* (Checked), what has been started is matched by the clean-ups still to   *)
(* come (Covered), and requests for the server are there only while it     *)
(* accepts them or is being shut down (Attended).                          *)
(***************************************************************************)
EXTENDS Lifecycle, TLAPS

(* From StartServers to the end of the shutdown.                           *)
Up == {"notify", "serving", "quitting", "shutdown"}

(* Nothing that would end ReadConfig was found.                            *)
Accepted == \A v \in Variables : ~Reported(v) /\ ~Dereferenced(v)

Checked ==
    /\ at \notin Ended \cup Unwinding \cup {"config"} \/ listener # "off" => Accepted
    /\ at \in {"api", "listen"} \cup Up \/ listener # "off" => env["REDIS_URL"] # "malformed"

(* The clean-ups that are still to be run.                                 *)
Left(calls) ==
    \/ calls = Deferred
    \/ calls = <<"collector">>
    \/ calls = <<>>

Covered ==
    /\ at \in {"config", "telemetry"} => started = {} /\ deferred = <<>>
    /\ at = "kpi" => started \subseteq {"telemetry"}
    /\ at \in {"store", "api", "listen", "notify", "serving", "quitting", "shutdown"} =>
          deferred = Deferred
    /\ "pprof" \in started => at \in {"notify", "serving", "killed"}
    /\ at \in Unwinding =>
          /\ Left(deferred)
          /\ deferred = <<"collector">> => "telemetry" \notin started
          /\ deferred = <<>> => started = {}
    /\ at \in {"exited", "returned", "crashed"} => started = {}

Attended ==
    /\ at \in Starting \ {"notify"} => listener = "off" /\ open = {}
    /\ at \in Up => listener # "off"
    /\ CleanUpAfterRequests

IInv == TypeOK /\ Checked /\ Covered /\ Attended

-----------------------------------------------------------------------------
(* The deferred calls are run from the first to the last.                  *)
LEMMA RunOrder ==
    /\ Deferred # <<>> /\ Head(Deferred) = "telemetry" /\ Tail(Deferred) = <<"collector">>
    /\ <<"collector">> # <<>> /\ Head(<<"collector">>) = "collector"
    /\ Tail(<<"collector">>) = <<>>
    /\ Deferred # <<"collector">>
    /\ {<<>>, <<"collector">>, Deferred} \subseteq Seq({"telemetry", "collector"})
BY DEF Deferred

(* Before main has done anything.                                          *)
LEMMA InitIInv == Init => IInv
BY RunOrder DEF Init, IInv, TypeOK, Checked, Covered, Attended, CleanUpAfterRequests, Running, Starting,
       Stopping, Unwinding, Ended, Up

(* What main does on its way to serving, and back.                         *)
LEMMA MainInvariant == IInv /\ MainStep => IInv'
<1> SUFFICES ASSUME IInv, MainStep PROVE IInv'
  OBVIOUS
<1> USE DEF IInv, Checked, Covered, Attended, CleanUpAfterRequests, Running, Starting, Stopping,
            Unwinding, Ended, Up, Left
<1>1. CASE ReadConfig
  BY <1>1, RunOrder DEF ReadConfig, TypeOK, Accepted, Reported, Dereferenced
<1>2. CASE SetupOtelSdk
  BY <1>2, RunOrder DEF SetupOtelSdk, TypeOK, Accepted, Reported, Dereferenced
<1>3. CASE SetupKpiReporting
  BY <1>3, RunOrder DEF SetupKpiReporting, TypeOK, Accepted, Reported, Dereferenced
<1>4. CASE NewValkeyStore
  BY <1>4, RunOrder DEF NewValkeyStore, TypeOK, Accepted, Reported, Dereferenced
<1>5. CASE SetupApi
  BY <1>5 DEF SetupApi, WithStore, TypeOK, Accepted, Reported, Dereferenced
<1>6. CASE StartServers \/ Notify \/ Quit
  BY <1>6 DEF StartServers, Notify, Quit, TypeOK, Accepted, Reported, Dereferenced
<1>7. CASE PprofShutDown
  BY <1>7 DEF PprofShutDown, TypeOK, Accepted, Reported, Dereferenced
<1>8. CASE ShutdownOver
  <2>1. TypeOK' /\ Checked'
    BY <1>8 DEF ShutdownOver, TypeOK, Accepted, Reported, Dereferenced
  <2>2. Covered'
    BY <1>8, RunOrder DEF ShutdownOver
  <2>3. Attended'
    BY <1>8 DEF ShutdownOver
  <2> QED
    BY <2>1, <2>2, <2>3
<1>9. CASE RunDeferred
  <2>1. /\ at \in Unwinding /\ Left(deferred)
        /\ UNCHANGED <<env, store, api, listener, signalled, overdue>>
    BY <1>9 DEF RunDeferred
  <2>2. CASE deferred = <<>>
    <3>1. /\ at' \in {"returned", "crashed"} /\ open' = {} /\ started = {}
          /\ UNCHANGED <<started, deferred>>
      BY <1>9, <2>2 DEF RunDeferred
    <3> QED
      BY <2>1, <3>1 DEF TypeOK, Accepted, Reported, Dereferenced
  <2>3. CASE deferred = <<"collector">>
    <3>1. /\ started' = started \ {"collector"} /\ deferred' = <<>>
          /\ UNCHANGED <<at, open>>
      BY <1>9, <2>3, RunOrder DEF RunDeferred
    <3>2. started \subseteq {"collector"}
      BY <2>1, <2>3 DEF TypeOK
    <3> QED
      BY <2>1, <3>1, <3>2, RunOrder DEF TypeOK, Accepted, Reported, Dereferenced
  <2>4. CASE deferred = Deferred
    <3>1. /\ started' = started \ {"telemetry"} /\ deferred' = <<"collector">>
          /\ UNCHANGED <<at, open>>
      BY <1>9, <2>4, RunOrder DEF RunDeferred
    <3> QED
      BY <2>1, <3>1, RunOrder DEF TypeOK, Accepted, Reported, Dereferenced
  <2> QED
    BY <2>1, <2>2, <2>3, <2>4
<1> QED
  BY <1>1, <1>2, <1>3, <1>4, <1>5, <1>6, <1>7, <1>8, <1>9 DEF MainStep

(* What happens to the process meanwhile.                                  *)
LEMMA OtherInvariant ==
    IInv /\ (ListenAndServe \/ Signal \/ AdBreakPanics
             \/ \E r \in Requests : RequestStep(r)) => IInv'
<1> USE DEF IInv, TypeOK, Checked, Covered, Attended, CleanUpAfterRequests, Running, Starting,
            Stopping, Unwinding, Ended, Up, Left, Die, Requests, Accepting
<1>1. ASSUME IInv, ListenAndServe PROVE IInv'
  BY <1>1 DEF ListenAndServe, Accepted, Reported, Dereferenced
<1>2. ASSUME IInv, Signal PROVE IInv'
  BY <1>2 DEF Signal, Accepted, Reported, Dereferenced
<1>3. ASSUME IInv, AdBreakPanics PROVE IInv'
  BY <1>3 DEF AdBreakPanics, Accepted, Reported, Dereferenced
<1>4. ASSUME IInv, NEW r \in Requests, RequestStep(r) PROVE IInv'
  <2>1. CASE Arrive(r)
    BY <1>4, <2>1 DEF Arrive, Accepted, Reported, Dereferenced
  <2>2. CASE RequestOver(r)
    BY <1>4, <2>2 DEF RequestOver, Accepted, Reported, Dereferenced
  <2> QED
    BY <1>4, <2>1, <2>2 DEF RequestStep
<1> QED
  BY <1>1, <1>2, <1>3, <1>4

(* Every step preserves IInv.                                              *)
LEMMA StepIInv == IInv /\ [Next]_vars => IInv'
<1>1. IInv /\ UNCHANGED vars => IInv'
  BY DEF IInv, TypeOK, Checked, Covered, Left, Attended, CleanUpAfterRequests, Accepted,
         Reported, Dereferenced, vars
<1> QED
  BY <1>1, MainInvariant, OtherInvariant DEF Next

(* Every variable of the process keeps its type.                           *)
THEOREM TypeCorrect == Spec => []TypeOK
<1>1. IInv => TypeOK
  BY DEF IInv
<1> QED
  BY <1>1, InitIInv, StepIInv, PTL DEF Spec

(* A process that accepts requests has been configured: every mandatory    *)
(* variable is there, and what it uses could be parsed.                    *)
THEOREM Configured == Spec => []ServingMeansConfigured
<1>1. IInv => ServingMeansConfigured
  BY DEF IInv, Checked, Accepted, Reported, Dereferenced, ServingMeansConfigured, Variables,
         Mandatory, Urls, Numbers
<1> QED
  BY <1>1, InitIInv, StepIInv, PTL DEF Spec

(* What main had started is shut down whenever main itself ends, by the    *)
(* clean-ups it had registered when it did.                                *)
THEOREM EndsClean == Spec => []EndedClean
<1>1. IInv => EndedClean
  BY DEF IInv, Covered, EndedClean
<1> QED
  BY <1>1, InitIInv, StepIInv, PTL DEF Spec

(* The collector and the telemetry outlast the requests that report to     *)
(* them, unless the shutdown ran out of time.                              *)
THEOREM CleansUpAfterRequests == Spec => []CleanUpAfterRequests
<1>1. IInv => CleanUpAfterRequests
  BY DEF IInv, Attended
<1> QED
  BY <1>1, InitIInv, StepIInv, PTL DEF Spec
=============================================================================
