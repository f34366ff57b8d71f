---------------------------- MODULE ControlPlane ----------------------------
(***************************************************************************)
(* The life of the control-plane process (run in cmd/control-plane): the   *)
(* wait for Kubernetes discovery, the collector's cycles (Run, ScrapeAll,  *)
(* scrapeOne in internal/collector), readiness, the TimescaleDB sink       *)
(* (internal/storage/timescale) and the order of shutdown.                 *)
(*                                                                         *)
(* Goroutines: main, the collector, one per scrape in flight, the one that *)
(* flips readiness, the HTTP server and the sink's writer.  What the       *)
(* scrapes measure and what the rules make of it is Diagnosis; the alert   *)
(* sender's own goroutine is AlertSender, here it is only open or closed.  *)
(* Alerting and the database are enabled; log messages and self-metrics    *)
(* are left out.                                                           *)
(***************************************************************************)
EXTENDS Integers, FiniteSets

CONSTANTS
    NTargets,      \* configured scrape targets, visited in this order
    Concurrency,   \* collector.concurrency
    SinkQueue,     \* database.queue_size
    Kubernetes,    \* kubernetes.enabled, with a usable kubeconfig
    MaxCycles      \* bound: collection cycles

\* collector.New: the keys of the targets are distinct, and a concurrency that is
\* not positive becomes the default.
ValidCollector ==
    /\ NTargets \in Nat
    /\ Concurrency \in Nat \ {0}

ASSUME ControlPlaneAssumption ==
    /\ ValidCollector
    /\ SinkQueue \in Nat \ {0}
    /\ Kubernetes \in BOOLEAN
    /\ MaxCycles \in Nat \ {0}

Targets == 1 .. NTargets

VARIABLES
    mpc,        \* main: "discovering", "starting", "serving", "httpShutdown",
                \* "awaitCollector", "closeSink", "exited"
    signalled,  \* the context of signal.NotifyContext is done
    k8sUp,      \* the Kubernetes API answers, so the informers can sync
    server,     \* the HTTP server: "off", "up", "failed" (error in serverErr), "down"
    cpc,        \* collector: "off", "launch", "wait", "select", "done"
    next,       \* ScrapeAll's loop: the target to launch next
    flight,     \* targets whose scrape goroutine holds the semaphore
    cut,        \* those of them launched with the context already done
    cycles,     \* completed cycles
    ready,      \* "no", "announced" (collectorReady closed), "yes", "never"
    senderClosed,   \* alertSender.Close has been called
    sinkStop,       \* the sink's stop channel is closed
    wpc,        \* writer: "select", "insert", "drain", "drainInsert", "done"
    queued,     \* snapshots in the sink's channel
    stats,      \* the sink's counters: written, failed, dropped
    \* history
    attempted,  \* targets scraped at least once, successfully or not
    added       \* snapshots handed to the store, and by it to the sink

collectorVars == <<cpc, next, cycles>>
scrapeVars == <<attempted, added>>
sinkVars == <<sinkStop, wpc, queued, stats>>
mainVars == <<mpc, signalled, k8sUp, server, senderClosed>>
vars == <<mpc, signalled, k8sUp, server, cpc, next, flight, cut, cycles, ready,
          senderClosed, sinkStop, wpc, queued, stats, attempted, added>>

alive == mpc # "exited"

-----------------------------------------------------------------------------
(* main *)

\* Slip: the wait for the caches ignores the context.
DiscoveryIgnoresSignal ==
    /\ mpc = "discovering"
    /\ k8sUp
    /\ mpc' = "starting"
    /\ UNCHANGED <<signalled, k8sUp, server, flight, cut, ready, senderClosed>>
    /\ UNCHANGED collectorVars /\ UNCHANGED scrapeVars /\ UNCHANGED sinkVars

\* watcher.Start returns: the caches have synced, or the context is done.
\* Startup goes on either way, with or without scaling rules.
DiscoveryReturns ==
    /\ mpc = "discovering"
    /\ k8sUp \/ signalled
    /\ mpc' = "starting"
    /\ UNCHANGED <<signalled, k8sUp, server, flight, cut, ready, senderClosed>>
    /\ UNCHANGED collectorVars /\ UNCHANGED scrapeVars /\ UNCHANGED sinkVars

\* The HTTP server, the collector and the readiness goroutine start.
Start ==
    /\ mpc = "starting"
    /\ mpc' = "serving"
    /\ server' = "up"
    /\ cpc' = "launch"
    /\ UNCHANGED <<signalled, k8sUp, next, flight, cut, cycles, ready, senderClosed>>
    /\ UNCHANGED scrapeVars /\ UNCHANGED sinkVars

\* `case err := <-serverErr': run returns at once, and the deferred sink.Close
\* runs while the collector is still going.
ServerErrReturns ==
    /\ mpc = "serving" /\ server = "failed"
    /\ mpc' = "closeSink"
    /\ sinkStop' = TRUE
    /\ UNCHANGED <<signalled, k8sUp, server, flight, cut, ready, senderClosed,
                   wpc, queued, stats>>
    /\ UNCHANGED collectorVars /\ UNCHANGED scrapeVars

\* `case <-ctx.Done()'
ShutdownBegins ==
    /\ mpc = "serving" /\ signalled
    /\ mpc' = "httpShutdown"
    /\ UNCHANGED <<signalled, k8sUp, server, flight, cut, ready, senderClosed>>
    /\ UNCHANGED collectorVars /\ UNCHANGED scrapeVars /\ UNCHANGED sinkVars

\* httpSrv.Shutdown, cleanly or by its timeout.
HttpStops ==
    /\ mpc = "httpShutdown"
    /\ mpc' = "awaitCollector"
    /\ server' = "down"
    /\ UNCHANGED <<signalled, k8sUp, flight, cut, ready, senderClosed>>
    /\ UNCHANGED collectorVars /\ UNCHANGED scrapeVars /\ UNCHANGED sinkVars

\* Slip: main does not wait for the collector.
CollectorNotAwaited ==
    /\ mpc = "awaitCollector"
    /\ mpc' = "closeSink"
    /\ senderClosed' = TRUE
    /\ sinkStop' = TRUE
    /\ UNCHANGED <<signalled, k8sUp, server, flight, cut, ready, wpc, queued, stats>>
    /\ UNCHANGED collectorVars /\ UNCHANGED scrapeVars

\* `<-collectorDone', then alertSender.Close, then the deferred sink.Close up to
\* its wait for the writer.
CollectorDone ==
    /\ mpc = "awaitCollector" /\ cpc = "done"
    /\ mpc' = "closeSink"
    /\ senderClosed' = TRUE
    /\ sinkStop' = TRUE
    /\ UNCHANGED <<signalled, k8sUp, server, flight, cut, ready, wpc, queued, stats>>
    /\ UNCHANGED collectorVars /\ UNCHANGED scrapeVars

\* The writer has returned; the process ends, and every goroutine with it.
Exit ==
    /\ mpc = "closeSink" /\ wpc = "done"
    /\ mpc' = "exited"
    /\ UNCHANGED <<signalled, k8sUp, server, flight, cut, ready, senderClosed>>
    /\ UNCHANGED collectorVars /\ UNCHANGED scrapeVars /\ UNCHANGED sinkVars

-----------------------------------------------------------------------------
(* The collector *)

\* ScrapeAll's loop: a free slot of the semaphore starts the next scrape ...
Launch ==
    /\ alive /\ cpc = "launch" /\ next <= NTargets
    /\ Cardinality(flight) < Concurrency
    /\ flight' = flight \cup {next}
    /\ cut' = IF signalled THEN cut \cup {next} ELSE cut
    /\ next' = next + 1
    /\ UNCHANGED <<cpc, cycles, ready>>
    /\ UNCHANGED mainVars /\ UNCHANGED scrapeVars /\ UNCHANGED sinkVars

\* Slip: a full semaphore ends the loop instead of delaying it.
LaunchGivesUp ==
    /\ alive /\ cpc = "launch"
    /\ next > NTargets \/ signalled \/ Cardinality(flight) >= Concurrency
    /\ cpc' = "wait"
    /\ UNCHANGED <<next, cycles, flight, cut, ready>>
    /\ UNCHANGED mainVars /\ UNCHANGED scrapeVars /\ UNCHANGED sinkVars

\* ... and it ends after the last target, or early once the context is done.
LaunchEnds ==
    /\ alive /\ cpc = "launch"
    /\ next > NTargets \/ signalled
    /\ cpc' = "wait"
    /\ UNCHANGED <<next, cycles, flight, cut, ready>>
    /\ UNCHANGED mainVars /\ UNCHANGED scrapeVars /\ UNCHANGED sinkVars

\* Slip: the capacity is off by one.
WriteOneTooMany ==
    IF queued <= SinkQueue
    THEN queued' = queued + 1 /\ UNCHANGED <<sinkStop, wpc, stats>>
    ELSE /\ stats' = [stats EXCEPT !.dropped = @ + 1]
         /\ UNCHANGED <<sinkStop, wpc, queued>>

\* Sink.Write: never blocks, drops and counts when the queue is full.
Write ==
    IF queued < SinkQueue
    THEN queued' = queued + 1 /\ UNCHANGED <<sinkStop, wpc, stats>>
    ELSE /\ stats' = [stats EXCEPT !.dropped = @ + 1]
         /\ UNCHANGED <<sinkStop, wpc, queued>>

\* scrapeOne, when Scrape returns an error: no snapshot.
ScrapeFails(t) ==
    /\ alive /\ t \in flight
    /\ flight' = flight \ {t}
    /\ cut' = cut \ {t}
    /\ attempted' = attempted \cup {t}
    /\ UNCHANGED <<added, ready>>
    /\ UNCHANGED collectorVars /\ UNCHANGED mainVars /\ UNCHANGED sinkVars

\* scrapeOne, when it returns a snapshot (a request made with a context already
\* done cannot), which Add stores and forwards.
ScrapeSucceeds(t) ==
    /\ alive /\ t \in flight /\ t \notin cut
    /\ flight' = flight \ {t}
    /\ attempted' = attempted \cup {t}
    /\ added' = added + 1
    /\ Write
    /\ UNCHANGED <<cut, ready>>
    /\ UNCHANGED collectorVars /\ UNCHANGED mainVars

\* Slip: ScrapeAll returns without wg.Wait.
CycleEndsUnawaited ==
    /\ alive /\ cpc = "wait"
    /\ cpc' = "select"
    /\ cycles' = cycles + 1
    /\ ready' = IF ready = "no" THEN "announced" ELSE ready
    /\ UNCHANGED <<next, flight, cut>>
    /\ UNCHANGED mainVars /\ UNCHANGED scrapeVars /\ UNCHANGED sinkVars

\* Slip: readiness waits for a snapshot.
CycleEndsReadyOnData ==
    /\ alive /\ cpc = "wait" /\ flight = {}
    /\ cpc' = "select"
    /\ cycles' = cycles + 1
    /\ ready' = IF ready = "no" /\ added > 0 THEN "announced" ELSE ready
    /\ UNCHANGED <<next, flight, cut>>
    /\ UNCHANGED mainVars /\ UNCHANGED scrapeVars /\ UNCHANGED sinkVars

\* wg.Wait returns.  The callbacks run on the collector's goroutine: the first
\* cycle closes collectorReady, every cycle evaluates and notifies.
CycleEnds ==
    /\ alive /\ cpc = "wait" /\ flight = {}
    /\ cpc' = "select"
    /\ cycles' = cycles + 1
    /\ ready' = IF ready = "no" THEN "announced" ELSE ready
    /\ UNCHANGED <<next, flight, cut>>
    /\ UNCHANGED mainVars /\ UNCHANGED scrapeVars /\ UNCHANGED sinkVars

Tick ==
    /\ alive /\ cpc = "select" /\ cycles < MaxCycles
    /\ cpc' = "launch"
    /\ next' = 1
    /\ UNCHANGED <<cycles, flight, cut, ready>>
    /\ UNCHANGED mainVars /\ UNCHANGED scrapeVars /\ UNCHANGED sinkVars

CollectorStops ==
    /\ alive /\ cpc = "select" /\ signalled
    /\ cpc' = "done"
    /\ UNCHANGED <<next, cycles, flight, cut, ready>>
    /\ UNCHANGED mainVars /\ UNCHANGED scrapeVars /\ UNCHANGED sinkVars

\* The readiness goroutine's select.
SetReady ==
    /\ alive /\ cpc # "off"
    /\ \/ ready = "announced" /\ ready' = "yes"
       \/ ready \in {"no", "announced"} /\ signalled /\ ready' = "never"
    /\ UNCHANGED <<flight, cut>>
    /\ UNCHANGED collectorVars /\ UNCHANGED mainVars
    /\ UNCHANGED scrapeVars /\ UNCHANGED sinkVars

-----------------------------------------------------------------------------
(* The sink's writer *)

SinkTake ==
    /\ alive /\ wpc \in {"select", "drain"} /\ queued > 0
    /\ queued' = queued - 1
    /\ wpc' = IF wpc = "select" THEN "insert" ELSE "drainInsert"
    /\ UNCHANGED <<sinkStop, stats, flight, cut, ready>>
    /\ UNCHANGED collectorVars /\ UNCHANGED mainVars /\ UNCHANGED scrapeVars

\* insert, within its timeout.
SinkInsert(outcome) ==
    /\ alive /\ wpc \in {"insert", "drainInsert"}
    /\ stats' = [stats EXCEPT ![outcome] = @ + 1]
    /\ wpc' = IF wpc = "insert" THEN "select" ELSE "drain"
    /\ UNCHANGED <<sinkStop, queued, flight, cut, ready>>
    /\ UNCHANGED collectorVars /\ UNCHANGED mainVars /\ UNCHANGED scrapeVars

\* Slip: the writer returns on stop without draining.
SinkStopsUndrained ==
    /\ alive
    /\ \/ wpc = "select" /\ sinkStop /\ wpc' = "drain"
       \/ wpc = "drain" /\ wpc' = "done"
    /\ UNCHANGED <<sinkStop, queued, stats, flight, cut, ready>>
    /\ UNCHANGED collectorVars /\ UNCHANGED mainVars /\ UNCHANGED scrapeVars

SinkStops ==
    /\ alive
    /\ \/ wpc = "select" /\ sinkStop /\ wpc' = "drain"
       \/ wpc = "drain" /\ queued = 0 /\ wpc' = "done"
    /\ UNCHANGED <<sinkStop, queued, stats, flight, cut, ready>>
    /\ UNCHANGED collectorVars /\ UNCHANGED mainVars /\ UNCHANGED scrapeVars

-----------------------------------------------------------------------------
(* The environment: signals, the Kubernetes API, the listening socket *)

Signal ==
    /\ alive /\ ~signalled
    /\ signalled' = TRUE
    /\ UNCHANGED <<mpc, k8sUp, server, flight, cut, ready, senderClosed>>
    /\ UNCHANGED collectorVars /\ UNCHANGED scrapeVars /\ UNCHANGED sinkVars

KubernetesAnswers ==
    /\ mpc = "discovering" /\ ~k8sUp
    /\ k8sUp' = TRUE
    /\ UNCHANGED <<mpc, signalled, server, flight, cut, ready, senderClosed>>
    /\ UNCHANGED collectorVars /\ UNCHANGED scrapeVars /\ UNCHANGED sinkVars

ServerFails ==
    /\ alive /\ server = "up"
    /\ server' = "failed"
    /\ UNCHANGED <<mpc, signalled, k8sUp, flight, cut, ready, senderClosed>>
    /\ UNCHANGED collectorVars /\ UNCHANGED scrapeVars /\ UNCHANGED sinkVars

-----------------------------------------------------------------------------
Init ==
    /\ mpc = IF Kubernetes THEN "discovering" ELSE "starting"
    /\ signalled = FALSE
    /\ k8sUp = FALSE
    /\ server = "off"
    /\ cpc = "off" /\ next = 1 /\ flight = {} /\ cut = {} /\ cycles = 0
    /\ ready = "no"
    /\ senderClosed = FALSE
    /\ sinkStop = FALSE /\ wpc = "select" /\ queued = 0
    /\ stats = [written |-> 0, failed |-> 0, dropped |-> 0]
    /\ attempted = {}
    /\ added = 0

Main == DiscoveryReturns \/ Start \/ ServerErrReturns \/ ShutdownBegins
            \/ HttpStops \/ CollectorDone \/ Exit
Scrape(t) == ScrapeFails(t) \/ ScrapeSucceeds(t)
Collector == Launch \/ LaunchEnds \/ CycleEnds \/ Tick \/ CollectorStops
Writer == \/ SinkTake
          \/ \E outcome \in {"written", "failed"} : SinkInsert(outcome)
          \/ SinkStops
Environment == Signal \/ KubernetesAnswers \/ ServerFails
Exited == ~alive /\ UNCHANGED vars

Next == Main \/ Collector \/ (\E t \in Targets : Scrape(t)) \/ SetReady \/ Writer
            \/ Environment \/ Exited

Spec == Init /\ [][Next]_vars

(***************************************************************************)
(* Fairness.  Go schedules every runnable goroutine; a scrape, an insert   *)
(* and the HTTP drain have timeouts, tickers keep firing.  A collector     *)
(* that has been told to stop stops: the select is random between a tick   *)
(* and the cancelled context, so the cancellation is taken eventually.     *)
(* Nothing is assumed of the environment.                                  *)
(***************************************************************************)
FairSpec == /\ Spec
            /\ WF_vars(Main)
            /\ WF_vars(Collector) /\ SF_vars(CollectorStops)
            /\ \A t \in Targets : WF_vars(Scrape(t))
            /\ WF_vars(SetReady)
            /\ WF_vars(Writer)

-----------------------------------------------------------------------------
(* Properties *)

\* Type invariant; the sink's queue and the scrapes in flight respect their bounds.
TypeOK ==
    /\ mpc \in {"discovering", "starting", "serving", "httpShutdown",
                "awaitCollector", "closeSink", "exited"}
    /\ signalled \in BOOLEAN /\ k8sUp \in BOOLEAN /\ senderClosed \in BOOLEAN
    /\ server \in {"off", "up", "failed", "down"}
    /\ cpc \in {"off", "launch", "wait", "select", "done"}
    /\ next \in 1 .. NTargets + 1
    /\ flight \in SUBSET Targets /\ cut \in SUBSET flight
    /\ cycles \in Nat
    /\ ready \in {"no", "announced", "yes", "never"}
    /\ sinkStop \in BOOLEAN
    /\ wpc \in {"select", "insert", "drain", "drainInsert", "done"}
    /\ queued \in 0 .. SinkQueue
    /\ stats \in [written : Nat, failed : Nat, dropped : Nat]
    /\ attempted \in SUBSET Targets
    /\ added \in Nat

\* A target is never scraped twice at once, and at most Concurrency are at a time:
\* what is in flight belongs to the current cycle, and cycles do not overlap
\* (the semaphore and wg.Wait of ScrapeAll, also on its cancelled path).
CyclesDoNotOverlap ==
    /\ Cardinality(flight) <= Concurrency
    /\ \A t \in flight : cpc \in {"launch", "wait"} /\ t < next

\* Readiness waits for a first cycle that reached every target, whether or not
\* the scrapes succeeded; only a process already told to stop may skip some.
ReadyMeansScraped ==
    ready \in {"announced", "yes"} => attempted = Targets \/ signalled

\* The alert sender and the sink outlive the collector on a signalled shutdown, so
\* neither is used after it was closed (the environment AlertSender assumes).
ClosedAfterCollector ==
    /\ senderClosed => cpc = "done" /\ flight = {}
    /\ sinkStop => cpc = "done" \/ server = "failed"

\* Nothing is lost without a count: every snapshot the store took in is written,
\* failed, dropped, or still in the sink; and when the process exits on a signal
\* none is still in the sink.
InSink == queued + (IF wpc \in {"insert", "drainInsert"} THEN 1 ELSE 0)
SnapshotsAccountedFor ==
    /\ added = stats.written + stats.failed + stats.dropped + InSink
    /\ ~alive /\ senderClosed => InSink = 0

\* A process told to stop does: whatever is in flight, queued or still starting.
ShutdownCompletes == signalled ~> ~alive

\* Readiness comes without any scrape having to succeed.
BecomesReady == cpc # "off" ~> ready = "yes" \/ signalled \/ ~alive

-----------------------------------------------------------------------------
(* A statement of the documentation that the code does not keep. *)

\* docs/ARCHITECTURE.md, Kubernetes API unavailable: "Discovery is skipped with a
\* warning; scraping and diagnosis continue".
ScrapesWithoutKubernetes == <>(cpc # "off" \/ signalled)
=============================================================================
