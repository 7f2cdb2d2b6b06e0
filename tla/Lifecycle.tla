----------------------------- MODULE Lifecycle ------------------------------
(***************************************************************************)
(* The life of the process: configuration, telemetry, KPI reporting, the   *)
(* API with its store, the servers, and the shutdown (main.go).            *)
(*                                                                         *)
(* main goes from one to the next in the order of the values of "at".      *)
(* What matters here is what it does about an error on the way, and who is *)
(* still there to clean up when the process ends.  What a request does is  *)
(* left to the other modules, except that it may take its time and that    *)
(* the goroutine of an ad break may panic.                                 *)
(***************************************************************************)
EXTENDS Sequences

Urls      == {"ENCORE_URL", "AD_SERVER_URL", "OUTPUT_BUCKET_URL", "ASSET_SERVER_URL", "ROOT_URL"}
Numbers   == {"PORT", "IN_FLIGHT_TTL", "PPROF_PORT"}
Mandatory == Urls \cup {"REDIS_URL"}
Texts     == {"OSC_ACCESS_TOKEN", "KPI_POST_URL", "INSTANCEID"}
Endpoints == {"OTEL_EXPORTER_OTLP_ENDPOINT", "OTEL_EXPORTER_OTLP_METRICS_ENDPOINT",
              "OTEL_EXPORTER_OTLP_TRACES_ENDPOINT"}
Variables == Mandatory \cup Numbers \cup Texts \cup Endpoints

CONSTANT Environments   \* the environments the process may be started in

ASSUME LifecycleAssumption ==
    Environments \subseteq [Variables -> {"absent", "malformed", "good", "local"}]

Api      == {"ping", "vast", "vmap"}   \* requests to the server
Requests == Api \cup {"profile"}        \* and one to the server for pprof

Starting  == {"config", "telemetry", "kpi", "store", "api", "listen", "notify"}
Stopping  == {"quitting", "shutdown"}
Unwinding == {"returning", "crashing"}
Running   == Starting \cup {"serving"} \cup Stopping \cup Unwinding
Ended     == {"exited", "returned", "crashed", "killed"}

VARIABLES
    env,        \* the environment variables
    at,         \* where main is, or how the process ended: os.Exit, return,
                \* panic of the main goroutine, or death otherwise
    started,    \* what has to be shut down before the end
    deferred,   \* the deferred calls of main, the last one first
    store,      \* what NewValkeyStore gave: "nil" or "connected"
    api,        \* what setupApi gave: "nil", an API that is "storeless" or "whole"
    listener,   \* the server: "off", "starting", "listening" or "closed"
    signalled,  \* has a signal come through to main?
    overdue,    \* are the ten seconds for the shutdown over?
    open        \* requests being handled

vars == <<env, at, started, deferred, store, api, listener, signalled, overdue, open>>

TypeOK ==
    /\ env \in Environments
    /\ at \in Running \cup Ended
    /\ started \subseteq {"telemetry", "collector", "pprof"}
    /\ deferred \in Seq({"telemetry", "collector"})
    /\ store \in {"nil", "connected"}
    /\ api \in {"nil", "storeless", "whole"}
    /\ listener \in {"off", "starting", "listening", "closed"}
    /\ signalled \in BOOLEAN
    /\ overdue \in BOOLEAN
    /\ open \subseteq Requests

Init ==
    /\ env \in Environments
    /\ at = "config"
    /\ started = {}
    /\ deferred = <<>>
    /\ store = "nil"
    /\ api = "nil"
    /\ listener = "off"
    /\ signalled = FALSE
    /\ overdue = FALSE
    /\ open = {}

-----------------------------------------------------------------------------
(* How the process ends.                                                   *)

(* main has returned or panics: its deferred calls are run one by one,     *)
(* while other goroutines go on, and then the process ends.  The clean-up  *)
(* of what was never started does nothing.                                 *)
RunDeferred ==
    /\ at \in Unwinding
    /\ \/ /\ deferred # <<>>
          /\ started' = started \ {Head(deferred)}
          /\ deferred' = Tail(deferred)
          /\ UNCHANGED <<at, open>>
       \/ /\ deferred = <<>>
          /\ at' = IF at = "returning" THEN "returned" ELSE "crashed"
          /\ open' = {}
          /\ UNCHANGED <<started, deferred>>
    /\ UNCHANGED <<env, store, api, listener, signalled, overdue>>

(* A signal nobody listens to, or a panic of another goroutine: nothing    *)
(* that is deferred is run.                                                *)
Die ==
    /\ at' = "killed"
    /\ open' = {}
    /\ UNCHANGED <<env, started, deferred, store, api, listener, signalled, overdue>>

-----------------------------------------------------------------------------
(* ReadConfig.                                                             *)

(* Mutation: what cannot be parsed is not reported.                        *)
ReportedIfAbsent(v) == v \in Mandatory /\ env[v] = "absent"

(* What is reported: a missing mandatory variable, and some malformed ones *)
(* (the errors of ENCORE_URL and OUTPUT_BUCKET_URL are joined to an err of *)
(* their own block).                                                       *)
Reported(v) ==
    \/ v \in Mandatory /\ env[v] = "absent"
    \/ v \in {"AD_SERVER_URL", "ASSET_SERVER_URL", "ROOT_URL", "PORT", "IN_FLIGHT_TTL"}
       /\ env[v] = "malformed"

(* url.Parse returns no URL with an error, and these are dereferenced.     *)
Dereferenced(v) ==
    v \in {"ENCORE_URL", "AD_SERVER_URL", "ASSET_SERVER_URL"} /\ env[v] = "malformed"

(* What is wrong makes ReadConfig panic or main call os.Exit, which runs   *)
(* no deferred call; at this point there is none.                          *)
ReadConfig ==
    /\ at = "config"
    /\ at' = IF \E v \in Variables : Dereferenced(v) THEN "crashing"
             ELSE IF \E v \in Variables : Reported(v) THEN "exited"
             ELSE "telemetry"
    /\ UNCHANGED <<env, started, deferred, store, api, listener, signalled, overdue, open>>

-----------------------------------------------------------------------------
(* From the configuration to the servers.                                  *)

IsOtelEnabled ==
    \/ env["INSTANCEID"] = "local"
    \/ env["OTEL_EXPORTER_OTLP_ENDPOINT"] # "absent"
    \/ /\ env["OTEL_EXPORTER_OTLP_METRICS_ENDPOINT"] # "absent"
       /\ env["OTEL_EXPORTER_OTLP_TRACES_ENDPOINT"] # "absent"

(* Making an exporter or the resource may fail, before a provider has been *)
(* started; then main returns.                                             *)
SetupOtelSdk ==
    /\ at = "telemetry"
    /\ \/ /\ at' = "kpi"
          /\ started' = IF IsOtelEnabled THEN started \cup {"telemetry"} ELSE started
       \/ /\ IsOtelEnabled
          /\ at' = "returning"
          /\ UNCHANGED started
    /\ UNCHANGED <<env, deferred, store, api, listener, signalled, overdue, open>>

(* Mutation: the shutdown of the telemetry is not deferred.                *)
DeferredWithoutTelemetry == <<"collector">>

(* cancelKpi is deferred first, and so runs last.                          *)
Deferred == <<"telemetry", "collector">>

SetupKpiReporting ==
    /\ at = "kpi"
    /\ at' = "store"
    /\ started' = IF env["KPI_POST_URL"] # "absent" THEN started \cup {"collector"} ELSE started
    /\ deferred' = Deferred
    /\ UNCHANGED <<env, store, api, listener, signalled, overdue, open>>

(* MustParseURL panics; connecting to Valkey may fail, with an error.      *)
NewValkeyStore ==
    /\ at = "store"
    /\ \/ /\ env["REDIS_URL"] = "malformed"
          /\ at' = "crashing"
          /\ UNCHANGED store
       \/ /\ env["REDIS_URL"] # "malformed"
          /\ at' = "api"
          /\ store' \in {"nil", "connected"}
    /\ UNCHANGED <<env, started, deferred, api, listener, signalled, overdue, open>>

(* Mutation: the API is what the store is.                                 *)
WithStoreUnchecked == store

WithStore == IF store = "connected" THEN "whole" ELSE "storeless"

(* The error of the store is the one returned, unless there is an OSC      *)
(* token: then it is that of SetupOsc, or none.  main goes on in any case. *)
SetupApi ==
    /\ at = "api"
    /\ at' = "listen"
    /\ IF env["OSC_ACCESS_TOKEN"] # "absent"
       THEN api' \in {"nil", WithStore}
       ELSE api' = IF store = "connected" THEN "whole" ELSE "nil"
    /\ UNCHANGED <<env, started, deferred, store, listener, signalled, overdue, open>>

(* The goroutines of the servers; the failure of the one for pprof goes to *)
(* the log.                                                                *)
StartServers ==
    /\ at = "listen"
    /\ at' = "notify"
    /\ listener' = "starting"
    /\ started' = IF env["PPROF_PORT"] # "absent" THEN started \cup {"pprof"} ELSE started
    /\ UNCHANGED <<env, deferred, store, api, signalled, overdue, open>>

(* The server accepts requests until its own shutdown begins.              *)
Accepting == at \in {"notify", "serving", "quitting"}

ListenAndServe ==
    /\ listener = "starting" /\ Accepting
    /\ \/ /\ listener' = "listening"
          /\ UNCHANGED <<env, at, started, deferred, store, api, signalled, overdue, open>>
       \/ Die

Notify ==
    /\ at = "notify"
    /\ at' = "serving"
    /\ UNCHANGED <<env, started, deferred, store, api, listener, signalled, overdue, open>>

-----------------------------------------------------------------------------
(* Signals and the shutdown.                                               *)

(* Until main subscribes, SIGTERM ends the process; so does SIGINT before  *)
(* NotifyContext, which makes it go unnoticed from then on.  The first     *)
(* signal after that is the one main waits for, and any other is ignored.  *)
Signal ==
    \/ /\ at \in Starting \/ (at \in Unwinding /\ ~signalled)
       /\ Die
    \/ /\ at = "serving" /\ ~signalled
       /\ signalled' = TRUE
       /\ UNCHANGED <<env, at, started, deferred, store, api, listener, overdue, open>>

(* The shutdown of the server for pprof begins with its listener.          *)
Quit ==
    /\ at = "serving" /\ signalled
    /\ at' = "quitting"
    /\ started' = started \ {"pprof"}
    /\ UNCHANGED <<env, deferred, store, api, listener, signalled, overdue, open>>

(* It takes until its requests are over, or the ten seconds it has in      *)
(* common with the shutdown that follows; its error goes to the log.       *)
PprofShutDown ==
    /\ at = "quitting"
    /\ at' = "shutdown"
    /\ overdue' = ("profile" \in open)
    /\ listener' = "closed"
    /\ UNCHANGED <<env, started, deferred, store, api, signalled, open>>

(* Mutation: the shutdown waits for as long as requests take.              *)
ShutdownOverPatiently ==
    /\ at = "shutdown" /\ open \cap Api = {}
    /\ at' = "returning"
    /\ UNCHANGED <<env, started, deferred, store, api, listener, signalled, overdue, open>>

(* Mutation: the shutdown does not wait for requests.                      *)
ShutdownOverAtOnce ==
    /\ at = "shutdown"
    /\ at' = "returning"
    /\ UNCHANGED <<env, started, deferred, store, api, listener, signalled, overdue, open>>

(* The requests are over, or the ten seconds are and main panics.          *)
ShutdownOver ==
    /\ at = "shutdown"
    /\ \/ /\ open \cap Api = {}
          /\ at' = "returning"
          /\ UNCHANGED overdue
       \/ /\ open \cap Api # {}
          /\ at' = "crashing"
          /\ overdue' = TRUE
    /\ UNCHANGED <<env, started, deferred, store, api, listener, signalled, open>>

-----------------------------------------------------------------------------
(* Requests.                                                               *)

Arrive(r) ==
    /\ IF r \in Api THEN listener = "listening" /\ Accepting
       ELSE "pprof" \in started /\ at \in {"notify", "serving"}
    /\ r \notin open
    /\ open' = open \cup {r}
    /\ UNCHANGED <<env, at, started, deferred, store, api, listener, signalled, overdue>>

(* Answered well or not, or after a panic, which the recovery middleware   *)
(* or net/http catches.                                                    *)
RequestOver(r) ==
    /\ r \in open
    /\ open' = open \ {r}
    /\ UNCHANGED <<env, at, started, deferred, store, api, listener, signalled, overdue>>

(* Nobody catches the panic of an ad break's goroutine, for want of a      *)
(* store or of a key expression, or over an ad without creatives (see      *)
(* AdDocuments).  Without an API it does not come to ad breaks.            *)
AdBreakPanics ==
    /\ "vmap" \in open /\ api # "nil"
    /\ Die

-----------------------------------------------------------------------------
MainStep ==
    \/ ReadConfig \/ SetupOtelSdk \/ SetupKpiReporting \/ NewValkeyStore \/ SetupApi
    \/ StartServers \/ Notify \/ Quit \/ PprofShutDown \/ ShutdownOver \/ RunDeferred

RequestStep(r) == Arrive(r) \/ RequestOver(r)

Next ==
    \/ MainStep \/ ListenAndServe \/ Signal \/ AdBreakPanics
    \/ \E r \in Requests : RequestStep(r)

Spec == Init /\ [][Next]_vars

(* main is scheduled, its timer runs and the clean-ups end; requests may   *)
(* hang.                                                                   *)
FairSpec == Spec /\ WF_vars(MainStep)

-----------------------------------------------------------------------------
(* A process that accepts requests has every mandatory variable (the table *)
(* of readme.md:145, and ASSET_SERVER_URL), and all it uses has been       *)
(* parsed, although the errors are collected, lost or turned into panics   *)
(* one by one; but for OUTPUT_BUCKET_URL, whose error is lost              *)
(* (config.go:103).                                                        *)
ServingMeansConfigured ==
    listener = "listening" =>
        /\ \A v \in Mandatory : env[v] # "absent"
        /\ \A v \in (Urls \ {"OUTPUT_BUCKET_URL"}) \cup {"REDIS_URL", "PORT", "IN_FLIGHT_TTL"} :
              env[v] # "malformed"

(* Whatever main had started is shut down when main ends, at whichever     *)
(* stage and also by a panic, although the clean-ups are registered one by *)
(* one on the way, and pprof's is not among them (main.go:49, 55, 57, 128, *)
(* 136).                                                                   *)
EndedClean == at \in {"exited", "returned", "crashed"} => started = {}

(* The KPI collector and the telemetry are not taken away from requests    *)
(* that report to them: the deferred calls run when no request is being    *)
(* handled, unless the ten seconds for the shutdown were over, those that  *)
(* pprof's shutdown takes from it included (main.go:126-139).              *)
CleanUpAfterRequests == at \in Unwinding /\ ~overdue => open \cap Api = {}

(* A signal that comes through ends the process, however long requests to  *)
(* either server take: together the shutdowns have ten seconds             *)
(* (main.go:126).                                                          *)
StopsWhenAsked == signalled ~> at \in Ended
=============================================================================
