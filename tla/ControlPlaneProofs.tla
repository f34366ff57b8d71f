------------------------- MODULE ControlPlaneProofs -------------------------
(***************************************************************************)
(* Proofs about the process as a whole, for any number of targets, any     *)
(* scrape concurrency and any length of the sink's queue: the scrapes of   *)
(* different cycles do not overlap, readiness waits for every target, the  *)
(* shutdown closes what the collector uses only after the collector, and   *)
(* no snapshot disappears uncounted.                                       *)
(***************************************************************************)
EXTENDS ControlPlane, FiniteSetTheorems, TLAPS

-----------------------------------------------------------------------------
(* The inductive strengthening *)

\* Nothing is closed before main reaches the deferred calls; the writer drains
\* only when told to stop, and the process exits only after it.
ShutdownOrder ==
    /\ mpc \notin {"closeSink", "exited"} => ~senderClosed /\ ~sinkStop
    /\ wpc \in {"drain", "drainInsert", "done"} => sinkStop
    /\ ~alive => wpc = "done"

\* Once the writer has gone on a signalled shutdown, nothing is left behind: the
\* collector had stopped before it was told to drain.
DrainedAtLast == wpc = "done" /\ senderClosed => queued = 0

\* What ScrapeAll has walked past is being scraped or has been, and its loop ends
\* early only on a done context.
WalkedPast ==
    /\ \A t \in Targets : t < next => t \in flight \cup attempted
    /\ cpc = "wait" /\ ~signalled => next > NTargets

\* The books of the sink balance.
Balanced == added = stats.written + stats.failed + stats.dropped + InSink

-----------------------------------------------------------------------------
\* A step that main, the readiness goroutine or the environment takes concerns
\* neither the scrapes in flight nor the snapshots.
LEMMA MainLeavesScrapes ==
    ASSUME Main \/ SetReady \/ Environment \/ Exited \/ UNCHANGED vars
    PROVE  UNCHANGED <<flight, cut, next, cycles, attempted, added, wpc, queued, stats>>
BY DEF Main, DiscoveryReturns, Start, ServerErrReturns, ShutdownBegins, HttpStops,
       CollectorDone, Exit, SetReady, Environment, Signal, KubernetesAnswers,
       ServerFails, Exited, vars, collectorVars, scrapeVars, sinkVars, mainVars

\* A step of the writer concerns the sink alone, and never its stop channel.
LEMMA WriterLeavesRest ==
    ASSUME Writer
    PROVE  UNCHANGED <<mpc, signalled, k8sUp, server, cpc, next, flight, cut, cycles,
                       ready, senderClosed, sinkStop, attempted, added>>
BY DEF Writer, SinkTake, SinkInsert, SinkStops, collectorVars, scrapeVars, mainVars

\* A step of the collector's own goroutine concerns neither main nor the sink.
LEMMA CollectorLeavesRest ==
    ASSUME Collector
    PROVE  UNCHANGED <<mpc, signalled, k8sUp, server, senderClosed, sinkStop, wpc,
                       queued, stats, attempted, added>>
BY DEF Collector, Launch, LaunchEnds, CycleEnds, Tick, CollectorStops, mainVars,
       scrapeVars, sinkVars

\* A scrape that ends concerns neither main nor the collector's loop.
LEMMA ScrapeLeavesRest ==
    ASSUME NEW t \in Targets, Scrape(t)
    PROVE  /\ t \in flight /\ alive
           /\ flight' = flight \ {t} /\ attempted' = attempted \cup {t}
           /\ UNCHANGED <<mpc, signalled, k8sUp, server, cpc, next, cycles, ready,
                          senderClosed, sinkStop, wpc>>
BY DEF Scrape, ScrapeFails, ScrapeSucceeds, Write, mainVars, collectorVars, sinkVars

-----------------------------------------------------------------------------
(* Types *)

\* Every step keeps the types; the semaphore and the queue are what needs arithmetic.
LEMMA TypeStep == TypeOK /\ [Next]_vars => TypeOK'
<1> SUFFICES ASSUME TypeOK, [Next]_vars
             PROVE  TypeOK'
  OBVIOUS
<1> USE ControlPlaneAssumption DEF ValidCollector
<1>1. CASE Main
  <2>1. /\ signalled' \in BOOLEAN /\ k8sUp' \in BOOLEAN /\ senderClosed' \in BOOLEAN
        /\ sinkStop' \in BOOLEAN
    BY <1>1, Zenon
       DEF TypeOK, Main, DiscoveryReturns, Start, ServerErrReturns, ShutdownBegins,
           HttpStops, CollectorDone, Exit, sinkVars
  <2>2. /\ mpc' \in {"discovering", "starting", "serving", "httpShutdown",
                      "awaitCollector", "closeSink", "exited"}
        /\ server' \in {"off", "up", "failed", "down"}
        /\ cpc' \in {"off", "launch", "wait", "select", "done"}
        /\ ready' \in {"no", "announced", "yes", "never"}
    BY <1>1 DEF TypeOK, Main, DiscoveryReturns, Start, ServerErrReturns, ShutdownBegins,
                HttpStops, CollectorDone, Exit, collectorVars
  <2> QED
    BY <1>1, <2>1, <2>2, MainLeavesScrapes DEF TypeOK
<1>2. CASE Launch
  <2>1. next \in Targets /\ next' \in 1 .. NTargets + 1
    BY <1>2 DEF TypeOK, Launch, Targets
  <2>2. flight' \in SUBSET Targets /\ cut' \in SUBSET flight'
    BY <1>2, <2>1 DEF TypeOK, Launch
  <2> QED
    BY <1>2, <2>1, <2>2 DEF TypeOK, Launch, mainVars, scrapeVars, sinkVars
<1>3. CASE LaunchEnds \/ CycleEnds \/ Tick \/ CollectorStops
  BY <1>3 DEF TypeOK, LaunchEnds, CycleEnds, Tick, CollectorStops, mainVars,
              scrapeVars, sinkVars
<1>4. ASSUME NEW t \in Targets, Scrape(t)
      PROVE  TypeOK'
  <2>1. flight' \in SUBSET Targets /\ attempted' \in SUBSET Targets
    BY <1>4, ScrapeLeavesRest DEF TypeOK
  <2>2. cut' \in SUBSET flight'
    BY <1>4 DEF TypeOK, Scrape, ScrapeFails, ScrapeSucceeds
  <2>3. /\ added' \in Nat /\ queued' \in 0 .. SinkQueue
        /\ stats' \in [written : Nat, failed : Nat, dropped : Nat]
    BY <1>4 DEF TypeOK, Scrape, ScrapeFails, ScrapeSucceeds, Write, sinkVars
  <2> QED
    BY <1>4, <2>1, <2>2, <2>3, ScrapeLeavesRest DEF TypeOK
<1>5. CASE Writer
  <2>1. /\ wpc' \in {"select", "insert", "drain", "drainInsert", "done"}
        /\ queued' \in 0 .. SinkQueue
        /\ stats' \in [written : Nat, failed : Nat, dropped : Nat]
    BY <1>5 DEF TypeOK, Writer, SinkTake, SinkInsert, SinkStops
  <2> QED
    BY <1>5, <2>1, WriterLeavesRest DEF TypeOK
<1>6. CASE SetReady
  BY <1>6 DEF TypeOK, SetReady, collectorVars, mainVars, scrapeVars, sinkVars
<1>7. CASE Environment
  <2>1. /\ signalled' \in BOOLEAN /\ k8sUp' \in BOOLEAN /\ senderClosed' \in BOOLEAN
        /\ sinkStop' \in BOOLEAN
    BY <1>7, Zenon DEF TypeOK, Environment, Signal, KubernetesAnswers, ServerFails, sinkVars
  <2>2. /\ server' \in {"off", "up", "failed", "down"}
        /\ UNCHANGED <<mpc, cpc, ready>>
    BY <1>7 DEF TypeOK, Environment, Signal, KubernetesAnswers, ServerFails, collectorVars
  <2> QED
    BY <1>7, <2>1, <2>2, MainLeavesScrapes DEF TypeOK
<1>8. CASE Exited \/ UNCHANGED vars
  BY <1>8 DEF TypeOK, Exited, vars
<1> QED
  BY <1>1, <1>2, <1>3, <1>4, <1>5, <1>6, <1>7, <1>8 DEF Next, Collector

\* The type invariant, with the bounds of the sink's queue and of the scrapes.
THEOREM ControlPlaneTyped == Spec => []TypeOK
<1>1. Init => TypeOK
  <2> SUFFICES ASSUME Init
               PROVE  TypeOK
    OBVIOUS
  <2>1. /\ signalled \in BOOLEAN /\ k8sUp \in BOOLEAN /\ senderClosed \in BOOLEAN
        /\ sinkStop \in BOOLEAN
    BY Zenon DEF Init
  <2>2. next \in 1 .. NTargets + 1 /\ queued \in 0 .. SinkQueue
    BY ControlPlaneAssumption DEF ValidCollector, Init
  <2>3. mpc \in {"discovering", "starting"}
    BY DEF Init
  <2> QED
    BY <2>1, <2>2, <2>3 DEF Init, TypeOK
<1> QED
  BY <1>1, TypeStep, PTL DEF Spec

-----------------------------------------------------------------------------
(* Cycles *)

\* Only Launch adds to what is in flight, and it adds a target not yet walked past.
LEMMA OverlapStep == TypeOK /\ CyclesDoNotOverlap /\ [Next]_vars => CyclesDoNotOverlap'
<1> SUFFICES ASSUME TypeOK, CyclesDoNotOverlap, [Next]_vars
             PROVE  CyclesDoNotOverlap'
  OBVIOUS
<1> USE ControlPlaneAssumption DEF ValidCollector
<1>0. IsFiniteSet(flight) /\ Cardinality(flight) \in Nat
  <2>1. IsFiniteSet(Targets)
    BY FS_Interval DEF Targets
  <2> QED
    BY <2>1, FS_Subset, FS_CardinalityType DEF TypeOK
<1>1. CASE Launch
  <2>1. /\ flight' = flight \cup {next} /\ next' = next + 1 /\ cpc' = "launch"
        /\ next \in Nat /\ flight \subseteq Nat
    BY <1>1 DEF Launch, TypeOK, Targets
  <2>2. next \notin flight
    BY <2>1 DEF CyclesDoNotOverlap
  <2>3. Cardinality(flight') = Cardinality(flight) + 1
    BY <1>0, <2>1, <2>2, FS_AddElement
  <2>4. Cardinality(flight') <= Concurrency
    BY <1>0, <1>1, <2>3 DEF Launch
  <2> QED
    BY <2>1, <2>4 DEF CyclesDoNotOverlap
<1>2. ASSUME NEW t \in Targets, Scrape(t)
      PROVE  CyclesDoNotOverlap'
  <2>1. t \in flight /\ flight' = flight \ {t} /\ UNCHANGED <<cpc, next>>
    BY <1>2, ScrapeLeavesRest
  <2>2. Cardinality(flight') = Cardinality(flight) - 1
    BY <1>0, <2>1, FS_RemoveElement
  <2>3. Cardinality(flight') <= Concurrency
    BY <1>0, <2>2 DEF CyclesDoNotOverlap
  <2> QED
    BY <2>1, <2>3 DEF CyclesDoNotOverlap
<1>3. CASE LaunchEnds \/ CycleEnds \/ Tick \/ CollectorStops
  BY <1>3 DEF CyclesDoNotOverlap, LaunchEnds, CycleEnds, Tick, CollectorStops
<1>4. CASE Start
  BY <1>4 DEF CyclesDoNotOverlap, Start
<1>5. CASE UNCHANGED <<flight, cpc, next>>
  BY <1>5 DEF CyclesDoNotOverlap
<1>6. Main => Start \/ UNCHANGED <<flight, cpc, next>>
  BY DEF Main, DiscoveryReturns, ServerErrReturns, ShutdownBegins, HttpStops,
         CollectorDone, Exit, collectorVars
<1>7. SetReady \/ Environment \/ Exited \/ UNCHANGED vars => UNCHANGED <<flight, cpc, next>>
  BY DEF SetReady, Environment, Signal, KubernetesAnswers, ServerFails, Exited, vars,
         collectorVars
<1> QED
  BY <1>1, <1>2, <1>3, <1>4, <1>5, <1>6, <1>7, WriterLeavesRest DEF Next, Collector

\* No target is ever scraped twice at once and the semaphore's bound is kept,
\* cancelled cycles included (ScrapeAll).
THEOREM CyclesSeparate == Spec => []CyclesDoNotOverlap
<1>1. Init => CyclesDoNotOverlap
  BY ControlPlaneAssumption, FS_EmptySet DEF ValidCollector, Init, CyclesDoNotOverlap
<1> QED
  BY <1>1, ControlPlaneTyped, OverlapStep, PTL DEF Spec

-----------------------------------------------------------------------------
(* Readiness *)

\* A scrape that ends moves its target from `flight' to `attempted'.
LEMMA WalkedPastStep == TypeOK /\ WalkedPast /\ [Next]_vars => WalkedPast'
<1> SUFFICES ASSUME TypeOK, WalkedPast, [Next]_vars
             PROVE  WalkedPast'
  OBVIOUS
<1> USE ControlPlaneAssumption DEF ValidCollector
<1>1. CASE Launch
  <2>1. /\ next \in Nat /\ next' = next + 1 /\ flight' = flight \cup {next}
        /\ cpc' = "launch" /\ attempted' = attempted
    BY <1>1 DEF Launch, TypeOK, scrapeVars
  <2>2. \A t \in Targets : t < next + 1 => t < next \/ t = next
    BY <2>1 DEF Targets
  <2> QED
    BY <2>1, <2>2 DEF WalkedPast
<1>2. ASSUME NEW t \in Targets, Scrape(t)
      PROVE  WalkedPast'
  BY <1>2, ScrapeLeavesRest DEF WalkedPast
<1>3. CASE LaunchEnds \/ CycleEnds \/ CollectorStops
  BY <1>3 DEF WalkedPast, LaunchEnds, CycleEnds, CollectorStops, mainVars, scrapeVars
<1>4. CASE Tick
  BY <1>4 DEF WalkedPast, Tick, Targets
<1>5. CASE Main \/ SetReady \/ Environment \/ Exited \/ UNCHANGED vars
  <2>1. cpc' = cpc \/ cpc' = "launch"
    BY <1>5 DEF Main, DiscoveryReturns, Start, ServerErrReturns, ShutdownBegins,
         HttpStops, CollectorDone, Exit, SetReady, Environment, Signal,
         KubernetesAnswers, ServerFails, Exited, vars, collectorVars
  <2>2. signalled' = signalled \/ signalled'
    BY <1>5 DEF Main, DiscoveryReturns, Start, ServerErrReturns, ShutdownBegins,
         HttpStops, CollectorDone, Exit, SetReady, Environment, Signal,
         KubernetesAnswers, ServerFails, Exited, vars, mainVars
  <2> QED
    BY <1>5, <2>1, <2>2, MainLeavesScrapes DEF WalkedPast
<1>6. CASE Writer
  BY <1>6, WriterLeavesRest DEF WalkedPast
<1> QED
  BY <1>1, <1>2, <1>3, <1>4, <1>5, <1>6 DEF Next, Collector

\* Readiness is announced where wg.Wait returns, with nothing left in flight.
LEMMA ReadyStep ==
    TypeOK /\ WalkedPast /\ ReadyMeansScraped /\ [Next]_vars => ReadyMeansScraped'
<1> SUFFICES ASSUME TypeOK, WalkedPast, ReadyMeansScraped, [Next]_vars
             PROVE  ReadyMeansScraped'
  OBVIOUS
<1>1. CASE CycleEnds
  <2>1. CASE signalled
    BY <1>1, <2>1 DEF CycleEnds, ReadyMeansScraped, mainVars
  <2>2. CASE ~signalled
    <3>1. next > NTargets /\ flight = {} /\ next \in Int
      BY <1>1, <2>2 DEF CycleEnds, WalkedPast, TypeOK
    <3>2. \A t \in Targets : t < next
      BY <3>1, ControlPlaneAssumption DEF Targets, ValidCollector
    <3>3. attempted = Targets
      BY <3>1, <3>2 DEF WalkedPast, TypeOK
    <3> QED
      BY <1>1, <3>3 DEF CycleEnds, ReadyMeansScraped, scrapeVars
  <2> QED
    BY <2>1, <2>2
<1>2. CASE SetReady
  BY <1>2 DEF SetReady, ReadyMeansScraped, scrapeVars, mainVars
<1>3. ASSUME NEW t \in Targets, Scrape(t)
      PROVE  ReadyMeansScraped'
  BY <1>3, ScrapeLeavesRest DEF ReadyMeansScraped
<1>4. CASE Signal
  BY <1>4 DEF Signal, ReadyMeansScraped
<1>5. CASE UNCHANGED <<ready, attempted, signalled>>
  BY <1>5 DEF ReadyMeansScraped
<1>6. Launch \/ LaunchEnds \/ Tick \/ CollectorStops => UNCHANGED <<ready, attempted, signalled>>
  BY DEF Launch, LaunchEnds, Tick, CollectorStops, scrapeVars, mainVars
<1>7. Main \/ KubernetesAnswers \/ ServerFails \/ Exited \/ UNCHANGED vars
          => UNCHANGED <<ready, attempted, signalled>>
  BY DEF Main, DiscoveryReturns, Start, ServerErrReturns, ShutdownBegins, HttpStops,
         CollectorDone, Exit, KubernetesAnswers, ServerFails, Exited, vars, scrapeVars
<1> QED
  BY <1>1, <1>2, <1>3, <1>4, <1>5, <1>6, <1>7, WriterLeavesRest
     DEF Next, Collector, Environment

\* A ready process has tried every target, or has been told to stop (Run's first
\* cycle and the readiness goroutine of main).
THEOREM ReadyAfterScrapes == Spec => []ReadyMeansScraped
<1>1. Init => WalkedPast /\ ReadyMeansScraped
  BY DEF Init, WalkedPast, ReadyMeansScraped, Targets
<1> QED
  BY <1>1, ControlPlaneTyped, WalkedPastStep, ReadyStep, PTL DEF Spec

-----------------------------------------------------------------------------
(* Shutdown *)

\* The order of main's last steps and of the writer's.
LEMMA ShutdownOrderStep == ShutdownOrder /\ [Next]_vars => ShutdownOrder'
<1> SUFFICES ASSUME ShutdownOrder, [Next]_vars
             PROVE  ShutdownOrder'
  OBVIOUS
<1>1. CASE Main
  BY <1>1 DEF ShutdownOrder, alive, Main, DiscoveryReturns, Start, ServerErrReturns,
         ShutdownBegins, HttpStops, CollectorDone, Exit, sinkVars
<1>2. CASE Collector
  BY <1>2, CollectorLeavesRest DEF ShutdownOrder, alive
<1>3. ASSUME NEW t \in Targets, Scrape(t)
      PROVE  ShutdownOrder'
  BY <1>3, ScrapeLeavesRest DEF ShutdownOrder, alive
<1>4. CASE Writer
  BY <1>4 DEF ShutdownOrder, alive, Writer, SinkTake, SinkInsert, SinkStops, mainVars
<1>5. CASE SetReady \/ Environment \/ Exited \/ UNCHANGED vars
  BY <1>5 DEF ShutdownOrder, alive, SetReady, Environment, Signal, KubernetesAnswers,
         ServerFails, Exited, vars, mainVars, sinkVars
<1> QED
  BY <1>1, <1>2, <1>3, <1>4, <1>5 DEF Next

\* A collector that has returned starts nothing again.
LEMMA ClosedStep ==
    /\ ShutdownOrder /\ CyclesDoNotOverlap /\ ClosedAfterCollector /\ [Next]_vars
    => ClosedAfterCollector'
<1> SUFFICES ASSUME ShutdownOrder, CyclesDoNotOverlap, ClosedAfterCollector, [Next]_vars
             PROVE  ClosedAfterCollector'
  OBVIOUS
<1>1. CASE CollectorDone
  BY <1>1 DEF CollectorDone, ClosedAfterCollector, CyclesDoNotOverlap, collectorVars
<1>2. CASE Start \/ HttpStops
  BY <1>2 DEF Start, HttpStops, ShutdownOrder, ClosedAfterCollector, sinkVars
<1>3. CASE DiscoveryReturns \/ ServerErrReturns \/ ShutdownBegins \/ Exit
  BY <1>3 DEF DiscoveryReturns, ServerErrReturns, ShutdownBegins, Exit,
         ClosedAfterCollector, collectorVars, sinkVars
<1>4. CASE Collector
  BY <1>4, CollectorLeavesRest DEF Collector, Launch, LaunchEnds, CycleEnds, Tick,
         CollectorStops, ClosedAfterCollector
<1>5. ASSUME NEW t \in Targets, Scrape(t)
      PROVE  ClosedAfterCollector'
  BY <1>5, ScrapeLeavesRest DEF ClosedAfterCollector
<1>6. CASE Writer
  BY <1>6, WriterLeavesRest DEF ClosedAfterCollector
<1>7. CASE SetReady \/ Environment \/ Exited \/ UNCHANGED vars
  BY <1>7 DEF SetReady, Environment, Signal, KubernetesAnswers, ServerFails, Exited,
         vars, ClosedAfterCollector, collectorVars, mainVars, sinkVars
<1> QED
  BY <1>1, <1>2, <1>3, <1>4, <1>5, <1>6, <1>7 DEF Next, Main

\* The alert sender is closed only after the collector has returned, with no scrape in
\* flight; the sink is stopped under a running collector only when the HTTP server
\* failed (the order of run's waits and deferred calls).
THEOREM ClosedInOrder == Spec => []ClosedAfterCollector
<1>1. Init => ShutdownOrder /\ ClosedAfterCollector
  BY DEF Init, ShutdownOrder, ClosedAfterCollector, alive
<1> QED
  BY <1>1, CyclesSeparate, ShutdownOrderStep, ClosedStep, PTL DEF Spec

-----------------------------------------------------------------------------
(* The sink's books *)

\* After its last look at the queue the writer leaves nothing, as nobody adds.
LEMMA DrainedStep ==
    /\ ShutdownOrder /\ ClosedAfterCollector /\ DrainedAtLast /\ [Next]_vars
    => DrainedAtLast'
<1> SUFFICES ASSUME ShutdownOrder, ClosedAfterCollector, DrainedAtLast, [Next]_vars
             PROVE  DrainedAtLast'
  OBVIOUS
<1>1. CASE CollectorDone
  BY <1>1 DEF CollectorDone, ShutdownOrder, DrainedAtLast
<1>2. ASSUME NEW t \in Targets, Scrape(t)
      PROVE  DrainedAtLast'
  BY <1>2, ScrapeLeavesRest DEF ClosedAfterCollector, DrainedAtLast
<1>3. CASE Writer
  BY <1>3 DEF Writer, SinkTake, SinkInsert, SinkStops, DrainedAtLast, mainVars
<1>4. CASE UNCHANGED <<wpc, senderClosed, queued>>
  BY <1>4 DEF DrainedAtLast
<1>5. Main => CollectorDone \/ UNCHANGED <<wpc, senderClosed, queued>>
  BY DEF Main, DiscoveryReturns, Start, ServerErrReturns, ShutdownBegins, HttpStops,
         Exit, sinkVars
<1>6. SetReady \/ Environment \/ Exited \/ UNCHANGED vars
          => UNCHANGED <<wpc, senderClosed, queued>>
  BY DEF SetReady, Environment, Signal, KubernetesAnswers, ServerFails, Exited, vars,
         mainVars, sinkVars
<1> QED
  BY <1>1, <1>2, <1>3, <1>4, <1>5, <1>6, CollectorLeavesRest DEF Next

\* Every step that moves a snapshot moves it from one count to another.
LEMMA BalancedStep == TypeOK /\ Balanced /\ [Next]_vars => Balanced'
<1> SUFFICES ASSUME TypeOK, Balanced, [Next]_vars
             PROVE  Balanced'
  OBVIOUS
<1>1. CASE UNCHANGED <<added, stats, queued, wpc>>
  BY <1>1 DEF Balanced, InSink
<1>2. ASSUME NEW t \in Targets, Scrape(t)
      PROVE  Balanced'
  <2>1. CASE ScrapeFails(t)
    BY <1>1, <2>1 DEF ScrapeFails, sinkVars
  <2>2. CASE ScrapeSucceeds(t) /\ queued < SinkQueue
    BY <2>2 DEF ScrapeSucceeds, Write, Balanced, InSink, TypeOK
  <2>3. CASE ScrapeSucceeds(t) /\ ~(queued < SinkQueue)
    BY <2>3 DEF ScrapeSucceeds, Write, Balanced, InSink, TypeOK
  <2> QED
    BY <1>2, <2>1, <2>2, <2>3 DEF Scrape
<1>3. CASE SinkTake
  BY <1>3 DEF SinkTake, Balanced, InSink, TypeOK, scrapeVars
<1>4. ASSUME NEW outcome \in {"written", "failed"}, SinkInsert(outcome)
      PROVE  Balanced'
  BY <1>4 DEF SinkInsert, Balanced, InSink, TypeOK, scrapeVars
<1>5. CASE SinkStops
  BY <1>5 DEF SinkStops, Balanced, InSink, scrapeVars
<1> QED
  BY <1>1, <1>2, <1>3, <1>4, <1>5, MainLeavesScrapes, CollectorLeavesRest DEF Next, Writer

\* Every snapshot the store took in is written, counted as failed or dropped, or in the
\* sink, at any time; and none is in the sink when the process ends on a signal
\* (Sink.Write, run and Close, and the order of main's shutdown).
THEOREM NothingLostUncounted == Spec => []SnapshotsAccountedFor
<1>1. Init => ShutdownOrder /\ DrainedAtLast /\ Balanced
  BY DEF Init, ShutdownOrder, DrainedAtLast, Balanced, InSink, alive
<1>2. ShutdownOrder /\ DrainedAtLast /\ Balanced => SnapshotsAccountedFor
  BY DEF ShutdownOrder, DrainedAtLast, Balanced, SnapshotsAccountedFor, InSink
<1> QED
  BY <1>1, <1>2, ControlPlaneTyped, ClosedInOrder, ShutdownOrderStep, DrainedStep,
     BalancedStep, PTL DEF Spec
=============================================================================
