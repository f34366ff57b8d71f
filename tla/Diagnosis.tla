----------------------------- MODULE Diagnosis -----------------------------
(***************************************************************************)
(* From scrapes to alerts, for one workload: the collector's loop (Run in  *)
(* internal/collector), the retention of the telemetry store (Add, Prune   *)
(* in internal/telemetry), the rule engine, and the OnCycle callback of    *)
(* cmd/control-plane that hands each evaluation to the alert sender.       *)
(*                                                                         *)
(* Workloads share nothing but the clock, so one stands for all.  The      *)
(* sender appears by what it decides: which findings are announced.  Its   *)
(* queue and its threads are AlertSender's subject.                        *)
(*                                                                         *)
(* Times are wall-clock times: Scrape strips the monotonic reading from a  *)
(* snapshot's timestamp, so every comparison with one uses the wall clock, *)
(* which may be set back between any two steps.                            *)
(***************************************************************************)
EXTENDS Recommender

CONSTANTS
    Environments,      \* the surroundings a run looks at, by name: see Environment
    RetentionPeriod,   \* telemetry.retention_period, the store's maxAge
    RetentionSamples,  \* telemetry.retention_samples, the store's maxPerWorkload
    MinRank            \* rank of alerting.min_severity

\* What the collector stores of a successful scrape, but for the times.
Sample == [m : Measurements, missing : BOOLEAN, runtime : {"vllm", "triton"}]

\* An environment bounds what may happen to the workload:
\*   samples      what a successful scrape may measure
\*   gaps         time from one cycle to the next (interval +- scrape time)
\*   failureGaps  the same up to a failed cycle, or the last of several in a row
\*   setbacks     by how much the wall clock may be set back at once
\*   maxCycles, maxFailures, maxSetbacks   bounds: how often each happens
Environment(e) ==
    /\ e.samples \subseteq Sample
    /\ e.gaps \subseteq Nat \ {0} /\ e.failureGaps \subseteq Nat \ {0}
    /\ e.setbacks \subseteq Nat \ {0}
    /\ e.maxCycles \in Nat /\ e.maxFailures \in Nat /\ e.maxSetbacks \in Nat

\* Config.Validate: retention outlasts the window the rules look at.
ValidRetention ==
    /\ RetentionSamples \in Nat /\ RetentionSamples > 1
    /\ RetentionPeriod \in Nat /\ RetentionPeriod > 0
    /\ RetentionPeriod >= T.SustainFor * TrendWindow

ASSUME RetentionAssumption ==
    /\ ValidRetention
    /\ \A name \in DOMAIN Environments : Environment(Environments[name])
    /\ MinRank \in 0 .. 2

VARIABLES
    env,        \* the name of the environment, chosen once
    now,        \* the wall clock
    pc,         \* "tick": waiting for a ticker; "cycle": ScrapeAll has returned
    series,     \* the store's retained snapshots of the workload
    findings,   \* result of the latest OnCycle evaluation
    announced,  \* codes the sender has open
    cycles, failures, setbacks,     \* counted against their bounds
    \* history
    behind,     \* by how much the wall clock has been set back in all
    log,        \* every snapshot ever added
    explained   \* the evaluation context behind `findings', or <<>>

clockVars == <<env, setbacks, behind>>
vars == <<env, now, pc, series, findings, announced, cycles, failures, setbacks,
          behind, log, explained>>

here == Environments[env]

-----------------------------------------------------------------------------
(* The store *)

\* Number of leading samples older than the cutoff.
leading(s, cutoff) == Cardinality({n \in DOMAIN s : \A i \in 1 .. n : s[i].ts < cutoff})

\* Slip: the bound on the number of samples is not applied.
AddUncapped(s, snap, time) ==
    LET appended == Append(s, snap)
    IN  SubSeq(appended, leading(appended, time - RetentionPeriod) + 1, Len(appended))

\* Slip: a sample exactly as old as the retention period is dropped.
AddDropsBoundary(s, snap, time) ==
    LET appended == Append(s, snap)
        young    == SubSeq(appended, leading(appended, time - RetentionPeriod + 1) + 1,
                           Len(appended))
    IN  IF Len(young) > RetentionSamples
        THEN SubSeq(young, Len(young) - RetentionSamples + 1, Len(young))
        ELSE young

\* Add: append, drop what is too old, keep at most RetentionSamples.
Add(s, snap, time) ==
    LET appended == Append(s, snap)
        young    == SubSeq(appended, leading(appended, time - RetentionPeriod) + 1,
                           Len(appended))
    IN  IF Len(young) > RetentionSamples
        THEN SubSeq(young, Len(young) - RetentionSamples + 1, Len(young))
        ELSE young

\* Prune forgets a workload whose newest sample is too old.
Expired(s, time) == s # <<>> /\ s[Len(s)].ts < time - RetentionPeriod

\* Analyze: with no history for the key the latest snapshot stands alone.
Context(latest, history, time) ==
    [latest |-> latest, window |-> IF history = <<>> THEN <<latest>> ELSE history,
     now |-> time]

-----------------------------------------------------------------------------
(* The collector's loop *)

\* ScrapeAll, when the workload answers: its snapshot goes to the store.
\* (`at' is history: the time that has really passed.)
ScrapeSucceeds(sample, gap) ==
    /\ pc = "tick" /\ cycles < here.maxCycles
    /\ now' = now + gap
    /\ LET snap == [ts |-> now', at |-> now' + behind, m |-> sample.m,
                    missing |-> sample.missing, runtime |-> sample.runtime]
       IN  /\ series' = Add(series, snap, now')
           /\ log' = Append(log, snap)
    /\ pc' = "cycle"
    /\ cycles' = cycles + 1
    /\ UNCHANGED <<findings, announced, failures, explained>>
    /\ UNCHANGED clockVars

\* Slip: a failed scrape leaves a snapshot with nothing measured.
ScrapeFailsBlank(gap) ==
    /\ pc = "tick" /\ cycles < here.maxCycles /\ failures < here.maxFailures
    /\ now' = now + gap
    /\ series' = Add(series, [ts |-> now', at |-> now' + behind,
                             m |-> [metric \in Metrics |-> Absent],
                             missing |-> TRUE, runtime |-> "vllm"], now')
    /\ pc' = "cycle"
    /\ cycles' = cycles + 1
    /\ failures' = failures + 1
    /\ UNCHANGED <<findings, announced, log, explained>>
    /\ UNCHANGED clockVars

\* ScrapeAll, when it does not: no snapshot is written.
ScrapeFails(gap) ==
    /\ pc = "tick" /\ cycles < here.maxCycles /\ failures < here.maxFailures
    /\ now' = now + gap
    /\ pc' = "cycle"
    /\ cycles' = cycles + 1
    /\ failures' = failures + 1
    /\ UNCHANGED <<series, findings, announced, log, explained>>
    /\ UNCHANGED clockVars

\* OnCycle: Analyze over Latest and History, then Notify with the full result.
OnCycle ==
    /\ pc = "cycle"
    /\ pc' = "tick"
    /\ IF series = <<>>
       THEN explained' = <<>> /\ findings' = {}
       ELSE LET e == Context(series[Len(series)], series, now)
            IN  explained' = <<e>> /\ findings' = analyzeWorkload(e)
    /\ announced' = {c \in findings' : Rank(c) <= MinRank}
    /\ UNCHANGED <<now, series, cycles, failures, log>>
    /\ UNCHANGED clockVars

\* The prune ticker.
Prune ==
    /\ pc = "tick"
    /\ Expired(series, now)
    /\ series' = <<>>
    /\ UNCHANGED <<now, pc, findings, announced, cycles, failures, log, explained>>
    /\ UNCHANGED clockVars

\* Someone sets the wall clock back.
SetBack(d) ==
    /\ setbacks < here.maxSetbacks
    /\ setbacks' = setbacks + 1
    /\ now' = now - d
    /\ behind' = behind + d
    /\ UNCHANGED <<env, pc, series, findings, announced, cycles, failures, log, explained>>

Init ==
    /\ env \in DOMAIN Environments
    /\ now = 0
    /\ pc = "tick"
    /\ series = <<>>
    /\ findings = {} /\ announced = {}
    /\ cycles = 0 /\ failures = 0 /\ setbacks = 0
    /\ behind = 0
    /\ log = <<>>
    /\ explained = <<>>

Next ==
    \/ \E sample \in here.samples, gap \in here.gaps : ScrapeSucceeds(sample, gap)
    \/ \E gap \in here.failureGaps : ScrapeFails(gap)
    \/ OnCycle
    \/ Prune
    \/ \E d \in here.setbacks : SetBack(d)

Spec == Init /\ [][Next]_vars

-----------------------------------------------------------------------------
(* Properties *)

Snapshot(s) ==
    /\ s.ts \in Int /\ s.at \in Nat
    /\ [m |-> s.m, missing |-> s.missing, runtime |-> s.runtime] \in here.samples

\* Type invariant: the store never keeps more than its bound, and what it keeps
\* is the most recent part of what was added.
TypeOK ==
    /\ env \in DOMAIN Environments
    /\ now \in Int /\ behind \in Nat /\ pc \in {"tick", "cycle"}
    /\ Len(series) <= RetentionSamples
    /\ series = SubSeq(log, Len(log) - Len(series) + 1, Len(log))
    /\ \A i \in DOMAIN log : Snapshot(log[i])
    /\ findings \subseteq Codes /\ announced \subseteq findings
    /\ cycles \in 0 .. here.maxCycles /\ failures \in 0 .. here.maxFailures
    /\ setbacks \in 0 .. here.maxSetbacks

\* Rules evaluated over the retained samples see what the whole record would have
\* shown since the workload last fell silent for longer than RetentionPeriod:
\* retention never hides a condition a rule should report, nor makes one up (the
\* trimming of Add and the forgetting of Prune against recent's window;
\* Config.Validate).
SinceSilence ==
    LET after == {i \in DOMAIN log : i > 1 /\ log[i].ts - log[i - 1].ts > RetentionPeriod}
        first == CHOOSE i \in after \cup {1} : \A j \in after : j <= i
    IN  SubSeq(log, first, Len(log))
RetentionSuffices ==
    pc = "tick" =>
        \A i \in DOMAIN explained :
            fired(explained[i]) = fired([explained[i] EXCEPT !.window = SinceSilence])

\* With samples in time order, sustained means: the condition held at a sample from
\* before the last SustainFor began and at every sample since; a workload's first
\* retained sample may also lie exactly on that boundary (recent's bisection and
\* bracketing, span's test).  With SustainFor zero the latest sample decides alone.
InOrder(w) == \A i \in DOMAIN w : i > 1 => w[i - 1].ts < w[i].ts
HeldForSustain(w, pred(_)) ==
    LET cutoff == w[Len(w)].ts - T.SustainFor
    IN  \E i \in DOMAIN w : /\ w[i].ts < cutoff \/ (i = 1 /\ w[i].ts = cutoff)
                            /\ \A j \in i .. Len(w) : pred(w[j])
SustainedIsPersistence ==
    T.SustainFor > 0 => \A i \in DOMAIN explained : InOrder(explained[i].window) =>
        LET e == explained[i]
        IN  /\ Sustained(e, Deep) <=> HeldForSustain(e.window, Deep)
            /\ Sustained(e, latencyHigh) <=> HeldForSustain(e.window, latencyHigh)
            /\ Sustained(e, queueSaturated) <=> HeldForSustain(e.window, queueSaturated)

\* Setting the clock back never makes a condition look sustained that was not: when a
\* rule says sustained, the condition held at every sample over at least SustainFor
\* of the time that really passed (span over recent, with samples out of order).
ReallyHeld(w, pred(_)) ==
    \E i \in DOMAIN w : /\ w[Len(w)].at - w[i].at >= T.SustainFor
                        /\ \A j \in i .. Len(w) : pred(w[j])
SustainedIsReal ==
    \A i \in DOMAIN explained :
        LET e == explained[i]
        IN  /\ Sustained(e, Deep) => ReallyHeld(e.window, Deep)
            /\ Sustained(e, latencyHigh) => ReallyHeld(e.window, latencyHigh)

\* The two queue diagnoses and the two TTFT diagnoses have opposite fixes and are
\* never given together (package comment of recommender; Thresholds.Validate).
Opposites == {{"CAP-001", "CAP-002"}, {"LAT-001", "LAT-002"}}
NoOppositeDiagnoses == \A pair \in Opposites : ~(pair \subseteq findings)

\* Silencing never loses a problem: every rule that fired is reported, or is
\* silenced by a chain that ends in a reported finding at least as severe, so no
\* min_severity that would have let it through hides its explanation.
Explains(d, c) == \/ c \in Supersedes(d)
                  \/ \E b \in Codes : b \in Supersedes(d) /\ c \in Supersedes(b)
NothingSilencedInVain ==
    \A i \in DOMAIN explained :
        \A c \in fired(explained[i]) :
            c \in findings \/ \E d \in findings : Explains(d, c) /\ Rank(d) <= Rank(c)

\* A finding's evidence is true of the snapshot it quotes: the numbers shown are
\* measured and on the side of the threshold the finding says (Evidence built
\* from e.Latest while the decision was made over e.Window).
EvidenceHolds(c, s) ==
    LET m == s.m
    IN  /\ c \in {"CAP-001", "CAP-002", "CAP-003", "SCL-001", "SCL-002"}
              => Above(m["RequestsWaiting"], T.QueueWaitingRequests)
        /\ c \in {"CAP-001", "EFF-002"} => Above(m["GPUUtilizationPct"], T.GPUUtilHighPct)
        /\ c = "CAP-002" => Below(m["GPUUtilizationPct"], T.GPUUtilLowPct)
        /\ c = "KV-002"  => Above(m["KVCacheUsagePct"], T.KVCacheHighPct)
        /\ c = "LAT-003" => Above(m["P95LatencyMs"], T.E2EP95Ms)
        /\ c = "EFF-003" => Above(m["GPUMemoryUsedPct"], T.GPUMemoryHighPct)
        /\ c = "ERR-001" => Above(m["ErrorRatePct"], T.ErrorRatePct)
        /\ c = "ERR-002" => Above(m["AbortRatePct"], T.AbortRatePct)
EvidenceIsTrue ==
    \A i \in DOMAIN explained :
        \A c \in findings : EvidenceHolds(c, explained[i].latest)

\* The store has nothing newer of the workload than the last evaluation saw.
Blind == explained # <<>> /\ log # <<>> /\ explained[1].latest = log[Len(log)]

\* A workload that stops answering does not look healthier for it as long as it is
\* retained: up to RetentionPeriod after the last successful scrape, whatever else is
\* pruned, failing or set back in between, an evaluation with nothing newer to go on,
\* and no earlier clock, withdraws no finding (scrapeOne writes no snapshot; Analyze
\* keeps using what the store retains; Prune spares it).  The evaluation after Prune
\* forgets the workload withdraws all of them: StaleIsReported.
BlindnessWithdrawsNothing ==
    [][pc = "cycle" /\ pc' = "tick" /\ Blind
       /\ explained[1].now <= now
       /\ now + behind - log[Len(log)].at <= RetentionPeriod => findings \subseteq findings']_vars

-----------------------------------------------------------------------------
(* Statements of the documentation that the code does not keep. *)

\* docs/RECOMMENDATIONS.md: IFA-OBS-002 "Fires when the newest successful scrape is
\* older than `stale_after'".
StaleIsReported ==
    \/ pc = "cycle"
    \/ log = <<>>
    \/ now - log[Len(log)].ts > T.StaleAfter => "OBS-002" \in findings

\* docs/OPERATIONS.md: "a resolved alert when it clears. A condition that holds for
\* an hour sends exactly one alert".  An alert is resolved when an evaluation of the
\* workload says that the condition is over.
ResolvedMeansCleared ==
    [][\A c \in announced \ announced' :
          explained' # <<>> /\ c \notin fired(explained'[1])]_vars

\* config.go: "Retention has to outlast the window the rules evaluate over, or a
\* sustained condition can never accumulate enough history to fire."
RetentionOutlastsSustain ==
    pc = "tick" =>
        \A i \in DOMAIN explained :
            HeldForSustain(log, latencyHigh) => "LAT-003" \in fired(explained[i])
=============================================================================
