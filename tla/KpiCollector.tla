---------------------------- MODULE KpiCollector ----------------------------
(***************************************************************************)
(* KPI reporting: request handlers hand their figures to a collector over  *)
(* a bounded channel; the collector adds them up per subdomain and posts   *)
(* the sums at every tick, each in a goroutine of its own; main stops it   *)
(* after it has shut the HTTP server down.                                 *)
(*                                                                         *)
(* A report counts one ad.  The three figures of the code (broken,         *)
(* ingested, served) are added up alike.                                   *)
(***************************************************************************)
EXTENDS Naturals, Sequences, FiniteSetsExt

CONSTANTS
    Handlers,     \* request handlers, each making one report
    Subdomains,
    SubdomainOf,  \* the subdomain of each handler's request
    Capacity,     \* of the channel: 1000 in the code
    MaxExports    \* bound on the ticks

ASSUME CollectorAssumption ==
    /\ SubdomainOf \in [Handlers -> Subdomains]
    /\ Capacity \in Nat \ {0}
    /\ MaxExports \in Nat

(* Every tick, and the end of the collector, starts one post.              *)
Posts == 1 .. MaxExports + 1

Nothing == [s \in Subdomains |-> 0]
Plus(m, n) == [s \in Subdomains |-> m[s] + n[s]]

VARIABLES
    handler,    \* per handler: "new", "sending", "sent" or "panicked"
    ch,         \* the channel: the subdomains of the reports in it
    closed,     \* is the channel closed?
    collector,  \* "running" or "stopped"
    kpiMap,     \* per subdomain: the sum since the last export
    exports,    \* how many posts have been started
    post,       \* per post: "none", "sending", "stillborn" or "over"
    data,       \* per post: the sums it carries
    main,       \* "serving", "draining", "cancelled" or "exited"
    forced,     \* has the HTTP server been shut down by the time limit?
    received,   \* per subdomain: what has arrived at the KPI service
    lost        \* history, per subdomain: what never will

channelVars == <<ch, closed>>
postVars    == <<exports, post, data>>
mainVars    == <<main, forced>>
vars == <<handler, channelVars, collector, kpiMap, postVars, mainVars,
          received, lost>>

TypeOK ==
    /\ handler \in [Handlers -> {"new", "sending", "sent", "panicked"}]
    /\ ch \in Seq(Subdomains) /\ Len(ch) <= Capacity
    /\ closed \in BOOLEAN
    /\ collector \in {"running", "stopped"}
    /\ kpiMap \in [Subdomains -> Nat]
    /\ exports \in 0 .. MaxExports + 1
    /\ post \in [Posts -> {"none", "sending", "stillborn", "over"}]
    /\ data \in [Posts -> [Subdomains -> Nat]]
    /\ main \in {"serving", "draining", "cancelled", "exited"}
    /\ forced \in BOOLEAN
    /\ received \in [Subdomains -> Nat]
    /\ lost \in [Subdomains -> Nat]

Init ==
    /\ handler = [h \in Handlers |-> "new"]
    /\ ch = <<>>
    /\ closed = FALSE
    /\ collector = "running"
    /\ kpiMap = Nothing
    /\ exports = 0
    /\ post = [i \in Posts |-> "none"]
    /\ data = [i \in Posts |-> Nothing]
    /\ main = "serving"
    /\ forced = FALSE
    /\ received = Nothing
    /\ lost = Nothing

Alive == main # "exited"

-----------------------------------------------------------------------------
(* Request handlers.                                                       *)

StartReport(h) ==
    /\ main = "serving"
    /\ handler[h] = "new"
    /\ handler' = [handler EXCEPT ![h] = "sending"]
    /\ UNCHANGED <<channelVars, collector, kpiMap, postVars, mainVars,
                   received, lost>>

(* Mutation: one slot too many.                                            *)
HasRoomOffByOne == Len(ch) <= Capacity

HasRoom == Len(ch) < Capacity

(* The send waits while the channel is full and panics once it is closed.  *)
AdsHandled(h) ==
    /\ Alive
    /\ handler[h] = "sending"
    /\ \/ /\ ~closed /\ HasRoom
          /\ ch' = Append(ch, SubdomainOf[h])
          /\ handler' = [handler EXCEPT ![h] = "sent"]
       \/ /\ closed
          /\ handler' = [handler EXCEPT ![h] = "panicked"]
          /\ UNCHANGED ch
    /\ UNCHANGED <<closed, collector, kpiMap, postVars, mainVars, received,
                   lost>>

-----------------------------------------------------------------------------
(* The collector: any case of its select that is ready may be taken.       *)

RecordMetrics ==
    /\ Alive
    /\ collector = "running"
    /\ ch # <<>>
    /\ ch' = Tail(ch)
    /\ kpiMap' = [kpiMap EXCEPT ![Head(ch)] = @ + 1]
    /\ UNCHANGED <<handler, closed, collector, postVars, mainVars, received,
                   lost>>

(* Mutation: the sums are not cleared once they are exported.              *)
ExportMetricsUncleared ==
    /\ exports' = exports + 1
    /\ post' = [post EXCEPT ![exports + 1] =
                  IF main = "cancelled" THEN "stillborn" ELSE "sending"]
    /\ data' = [data EXCEPT ![exports + 1] = kpiMap]
    /\ UNCHANGED kpiMap

(* The sums are handed to a goroutine that posts them, and cleared.  The   *)
(* context of the request derives from the collector's own, so that a post *)
(* started after the cancellation is never sent.                           *)
ExportMetrics ==
    /\ exports' = exports + 1
    /\ post' = [post EXCEPT ![exports + 1] =
                  IF main = "cancelled" THEN "stillborn" ELSE "sending"]
    /\ data' = [data EXCEPT ![exports + 1] = kpiMap]
    /\ kpiMap' = Nothing

Tick ==
    /\ Alive
    /\ collector = "running"
    /\ exports < MaxExports
    /\ ExportMetrics
    /\ UNCHANGED <<handler, channelVars, collector, mainVars, received, lost>>

(* Mutation: the collector returns with the channel open.                  *)
CloseNothing == UNCHANGED closed

CloseChannel == closed' = TRUE

StopCollector ==
    /\ main = "cancelled"
    /\ collector = "running"
    /\ collector' = "stopped"
    /\ CloseChannel
    /\ ExportMetrics
    /\ UNCHANGED <<handler, ch, mainVars, received, lost>>

-----------------------------------------------------------------------------
(* The goroutines that post.  A post fails if the service cannot be        *)
(* reached, answers badly, or takes longer than five seconds, and is not   *)
(* tried again.                                                            *)
PostMetrics(i) ==
    /\ Alive
    /\ post[i] \in {"sending", "stillborn"}
    /\ post' = [post EXCEPT ![i] = "over"]
    /\ \/ /\ post[i] = "sending"
          /\ received' = Plus(received, data[i])
          /\ UNCHANGED lost
       \/ /\ lost' = Plus(lost, data[i])
          /\ UNCHANGED received
    /\ UNCHANGED <<handler, channelVars, collector, kpiMap, exports, data,
                   mainVars>>

-----------------------------------------------------------------------------
(* main: a signal starts the shutdown of the HTTP server, which waits for  *)
(* the handlers, though not for ever; the deferred cancelKpi follows, and  *)
(* the process ends, whatever the collector has done by then.              *)

Signal ==
    /\ main = "serving"
    /\ main' = "draining"
    /\ UNCHANGED <<handler, channelVars, collector, kpiMap, postVars, forced,
                   received, lost>>

(* Mutation: the collector is stopped without waiting for the handlers.    *)
HandlersDoneUnchecked == TRUE

HandlersDone == \A h \in Handlers : handler[h] # "sending"

CancelKpi ==
    /\ main = "draining"
    /\ main' = "cancelled"
    /\ \/ HandlersDone /\ UNCHANGED forced
       \/ ~HandlersDone /\ forced' = TRUE
    /\ UNCHANGED <<handler, channelVars, collector, kpiMap, postVars, received,
                   lost>>

Exit ==
    /\ main = "cancelled"
    /\ main' = "exited"
    /\ UNCHANGED <<handler, channelVars, collector, kpiMap, postVars, forced,
                   received, lost>>

Next ==
    \/ \E h \in Handlers : StartReport(h) \/ AdsHandled(h)
    \/ RecordMetrics \/ Tick \/ StopCollector
    \/ \E i \in Posts : PostMetrics(i)
    \/ Signal \/ CancelKpi \/ Exit

Spec == Init /\ [][Next]_vars

(* The goroutines run; nothing is assumed of the KPI service, so a post    *)
(* may never end.                                                          *)
Fairness ==
    /\ \A h \in Handlers : WF_vars(AdsHandled(h))
    /\ WF_vars(RecordMetrics)
    /\ WF_vars(StopCollector)

FairSpec == Spec /\ Fairness

-----------------------------------------------------------------------------
InChannel(s) == Cardinality({i \in DOMAIN ch : ch[i] = s})
InPosts(s) == MapThenSumSet(LAMBDA i : data[i][s],
                            {i \in Posts : post[i] \in {"sending", "stillborn"}})
Handed(s) == Cardinality({h \in Handlers : handler[h] = "sent" /\ SubdomainOf[h] = s})

(* Every report handed over is in exactly one place: waiting, in the sums, *)
(* in one post, at the KPI service, or lost with a post.  Nothing is       *)
(* counted twice and nothing leaves the books of its subdomain.            *)
EveryReportAccounted ==
    \A s \in Subdomains :
        Handed(s) = InChannel(s) + kpiMap[s] + InPosts(s) + received[s] + lost[s]

(* A send on the closed channel panics in a request handler.  It takes a   *)
(* shutdown that did not wait for the handlers (server.Shutdown before     *)
(* cancelKpi in main).                                                     *)
PanicOnlyWhenForced ==
    (\E h \in Handlers : handler[h] = "panicked") => forced

(* A handler is never held up for good by a full channel, although the KPI *)
(* service may hang: the collector does not wait for its posts, and a      *)
(* collector that stops lets the waiting senders go.                       *)
SendersNotStuck ==
    \A h \in Handlers :
        handler[h] = "sending" ~> handler[h] # "sending" \/ main = "exited"
=============================================================================
