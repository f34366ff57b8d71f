# IFA in TLA+

IFA (`src/`) watches inference servers: it scrapes their metrics, keeps a short
history, evaluates nineteen fixed rules over it, serves the findings over HTTP and
sends their transitions to a webhook.  This directory models the parts of it that
are hard to test, checks them with TLC on small instances, and proves most of the
safety properties checked, among them those of the alert sender, the rule engine, the
process's shutdown, the rate tracker and startup, for every size with TLAPS.

## 1. The system

| Part | Source | State it keeps | Operations | Hard behaviour |
|---|---|---|---|---|
| Collector | `internal/collector/collector.go` | the tickers; scrapes in flight; conditions warned about | `Run`, `ScrapeAll`, `scrapeOne`, `Scrape` | bounded parallelism, cancellation in mid-cycle, targets that do not answer, device metrics that come and go |
| Rate tracker | `internal/collector/rate.go` | last value and time per counter | `rate` | process restarts, counters that come and go, a clock that steps |
| Runtime adapters, parser | `internal/runtime/*`, `internal/promtext` | none | `Parse`, `Sum`, `Max`, `Quantile` | torn histograms, absent and renamed metrics, several models and devices, bucket boundaries |
| Telemetry store | `internal/telemetry/store.go` | bounded history per workload | `Add`, `Latest`, `History`, `Prune` | two retention limits; reads under separate locks |
| Rule engine | `internal/recommender` | none | `Analyze` | windows off by one sample, supersession |
| Alert sender | `internal/alerting` | open alerts, a bounded queue, counters | `Notify`, `run`, `deliver`, `Close` | full queue, retries, lost answers, shutdown |
| Database sink | `internal/storage/timescale` | a bounded queue, counters | `Write`, `run`, `Close` | full queue, failing inserts, shutdown |
| Control plane | `cmd/control-plane/main.go` | the goroutines, readiness | `run` | order of startup and shutdown, a failing listener |
| Kubernetes watcher | `internal/k8s` | informer caches | `Start`, `Replicas`, `All` | caches that never sync, or lag independently of each other |
| HTTP API | `internal/api` | the ready flag | handlers | reads racing the collector, and requests each other; which routes need the token |
| Configuration | `internal/config` | none after startup | `Load`, `Validate` | limits that depend on each other, checks made twice and differently, values changed after validation, overflow |
| Self-metrics | `internal/metrics` | counters and gauges | `RecordScrape`, `RecordAnalysis` | written from scrapes and from requests |
| CLI, demo, test server | `cmd/ifa`, `internal/demo`, `test/integration` | none of the system's | | |

How they interact.  `run` opens the sink, waits for the watcher, builds the engine,
the sender and the collector, and starts three goroutines: the HTTP server, the
collector and one that flips readiness.  A cycle of the collector scrapes every
target through an adapter, turns counters into rates, and `Add`s a snapshot per
target to the store, which passes it on to the sink without blocking.  After each
cycle the `OnCycle` callback, on the collector's goroutine, analyses the store and
hands the complete result to `Notify`; that puts transitions on the sender's queue,
from which one goroutine delivers them.  API handlers analyse the same store on
their own goroutines.  On a signal, `run` stops the HTTP server, waits for the
collector, closes the sender and then the sink.

What makes each part correct:

- sender: a receiver's picture follows the findings, in order, or the failure is
  counted; nothing committed is lost at shutdown; shutdown ends;
- store and rules: what is retained decides as the whole record would; "sustained"
  means what it says; findings do not contradict each other, hide each other for
  nothing, or quote evidence that speaks against them; losing sight of a workload
  does not make it look healthy as long as it is retained;
- scrapes: a number shown is a number measured, of this workload, of its busiest
  device, and where none is shown the report says why; an outage is warned about once;
- rates and ratios: a rate is what happened, a ratio a share of it;
- configuration and API: what the parts rely on is what they are given, in a
  demonstration too, and what is validated can be started; with authentication on, data
  leaves only for the token;
- process: cycles do not overlap, nothing is used after it is closed, every
  snapshot is accounted for, readiness and shutdown come about.

## 2. Modules

| Module | Models | Kind |
|---|---|---|
| `AlertLifecycle` | what the sender promises a receiver | abstract specification |
| `AlertSender` | `Sender` with its three threads, and the receiver | component, implements `AlertLifecycle` |
| `Recommender` | the rule engine, as operators on an evaluation context | pure algorithm |
| `Diagnosis` | collector cycles, the store, `OnCycle`, for one workload | composes `Recommender` with the store |
| `ApiAnalysis` | API requests beside the collector | composes `Diagnosis` with the handlers |
| `Rates` | rate tracker and `applyRates` beside a serving process | component |
| `Exposition` | `promtext` over parsed samples | pure algorithm |
| `Adapters` | the vLLM and Triton adapters and the DCGM reader | pure algorithm, on `Exposition` |
| `Watcher` | informer caches, replica and ceiling lookups | component |
| `Scrape` | `scrapeOne` and `Scrape` of one target, with its warnings and statistics | composes `Adapters` and `Watcher` |
| `ControlPlane` | `run`, the collection loop, the sink | component |
| `Config` | defaults, file, environment, `Validate` | pure algorithm, uses `Recommender` |
| `Startup` | `run` up to serving, and the answers to requests | composes `Config` with the constructors, the API's routes and the CLI |
| `AlertSenderProofs`, `ControlPlaneProofs`, `RatesProofs`, `ScrapeProofs`, `StartupProofs` | theorems about the module of that name | proofs |
| `RecommenderProofs`, `DiagnosisProofs`, `ApiAnalysisProofs` | lemmas about the rule engine; theorems about it in the collector's loop, and beside requests | proofs |
| `MCAlertSender`, `MCDiagnosis`, `MCApiAnalysis`, `MCRates`, `MCScrape`, `MCStartup` | instances for TLC | |

An operator preceded by "Slip:" is a faulty variant of the definition after it.
Nothing uses these operators; each is put in the place of its original to see that
the property meant to catch the slip does.

### AlertSender

`open`, `queue`, `stop`, `counters` are the fields of `Sender`.  `Notify` holds the
mutex but the queue is a channel, so the delivery goroutine takes from it between
any two enqueues: `NotifyBegin`, `NotifyFinding`, `NotifyResolutions`,
`NotifyResolve`, `NotifyReturn` are its iterations.  `run` is `WorkerTake`,
`WorkerStop` and `WorkerReturn`, `deliver` is `Post` and `BackoffEnds`.  A POST ends
in one of five outcomes; `answerLost` is a receiver that took the payload in while
the client saw a transport error, which makes `deliver` send it again.  The main
goroutine is `CollectorReturns`, `CloseBegin`, `CloseReturns`.  The receiver is
`view`: what the accepted payloads have told it.  `lost` and `full` remember that a
payload was counted as failed and that an enqueue met a full queue.  Titles,
evidence, times, the cluster name, URLs and headers are left out.

`AlertLifecycle` has three variables: what each finding was last announced as, the
payloads committed and not yet settled, and whether the sender has ended.
`ImplementsLifecycle` maps `open`, `current \o queue` and `wpc = "done"` to them.

### Recommender, Diagnosis, ApiAnalysis

A measurement is a natural number or `Absent`.  A snapshot is its time, its
measurements, whether expected metrics were missing, and its runtime.  `recent`,
`Sustained`, `TrendExceeds`, the rules, `Supersedes` and `analyzeWorkload` follow the
functions of the same names.
`Trend`'s means over equally many samples are compared through their sums.

`Diagnosis` has one step per half of a cycle: `ScrapeSucceeds` or `ScrapeFails`, then
`OnCycle`; and `Prune` between cycles.  Time advances by the gap between two cycles, and
`SetBack` sets the wall clock back: samples are then stored out of order, and the
bisection of `recent`, which assumes an order, finds what Go's `sort.Search` would.
Which samples, gaps and setbacks occur is an environment, chosen at the start.
`log` and `explained` are history: everything ever added, and the context of the
last evaluation.  One workload is enough because workloads share only the clock.
`announced` is what the sender would have open with an unbounded queue.

`ApiAnalysis` serves the requests of `Requests` at once.  Each goes through
`filteredRecommendations` in four steps, split where the locks of store and registry are
released: `ReadLatest`, `ReadClock`, `ReadHistory`, and `RecordAnalysis`, which sets the
gauge, applies the request's filter and answers.  `request` is what each handler holds.
`answer` and `evaluated` are history.  Requests share nothing that they write but the
gauge, which an older analysis may set after a newer one.

### Rates

`Rates` has the tracker's `entries` and the rates given by the last scrape, against a
process that finishes requests (`Finish`) and restarts (`Restart`).  A request adds to a
set of counters at once, an aborted one to two.  A scrape may miss a counter
(`Exposed`), and the elapsed wall time may be zero or negative.  `since` and `truth` are
history.  A rate is kept as its numerator and denominator, a ratio of two as products.

### Exposition, Adapters, Watcher, Scrape

A payload is the sequence of its samples, each with a name, labels and a number or NaN;
what is read is a fraction or `Absent`.  `Sum`, `Largest` (`Max`), `SummaryQuantile`,
`buckets` and `Quantile` are those of `promtext`; `vllmParse`, `tritonParse` and
`dcgmParse` the three readers, with the constants of the source as metric names.

`Watcher` keeps every version of the Deployment and of the autoscalers so far, and each
cache as the number of the version it holds; events and relists advance it.

`Scrape` is the target's goroutine, cycle after cycle: `ScrapeFails` or `ScrapeSucceeds`
with one of the payloads its endpoint may answer, and one of DCGM's.  The snapshot is
what the adapter read, with device metrics laid over it and replica counts joined on.
`warned` is the collector's map, `lines` counts what was logged about each condition,
`exposed`, `devices` and `outcomes` are history.  A payload with a histogram carries the
latencies each engine observed, so that estimates can be compared with the true
percentile.  In a torn one some buckets lack the latest observation; `Whole` says when
each bucket's line agrees with what was observed.  A selection is the set of positions
whose samples match, and `Total` the loop of `Sum` over one.

### ControlPlane

`mpc` is `run`, `cpc` the collector, `flight` the scrape goroutines holding the
semaphore, `wpc` the sink's writer.  A scrape launched with the context already done
(`cut`) cannot succeed.  Alerting and the database are enabled.  Whether scrapes and
inserts succeed, when the signal comes, when Kubernetes answers and whether the
listener fails are free choices.

### Config, Startup

Strings are abstracted to what the checks tell apart; a name is the sequence of its
parts between slashes, because `Validate` and `collector.New` join names in different
ways.  Durations wrap at `DurationRange`.  `Startup` goes through `run`: `Load`, `Demo`,
`OpenSink`, `NewSender`, `NewCollector`; any of them may end in "refused".  Then it
answers requests of any client (`Request`) and of the `ifa` command (`Ifa`), the
first cycle completing at some time.  `status` is the mux, `getOnly`, `requireAuth` and
the handler, in that order.

## 3. Runs

Properties that hold:

| Run | Bounds | Shows |
|---|---|---|
| `alert_sender` | two findings (symmetric), three severities, queue 2, two attempts | safety of the sender and its refinement of `AlertLifecycle` |
| `alert_liveness` | two findings, one severity, queue 1, two attempts, counters modulo 2 | payloads settle, `Close` returns, the receiver converges, counters add up |
| `diagnosis` | two queue depths, gaps 1 and 2, seven cycles, one of them a failure after which the workload is forgotten; every rule's metrics at and beyond the threshold, in three groups, two cycles; and five cycles at gap 2 with the clock set back once by 3 | retention never changes a verdict, and the verdicts are consistent |
| `api_beside_collector` | three samples, gaps 1 and 3, three cycles, two of them failing; two samples, four cycles, one failing; two samples, three cycles with one setback of the clock; one request at a time, one filter | windows, blindness up to the retention period, answers read in pieces |
| `rates` | three counters, values to 2, three scrapes, one restart, clock steps -1 to 2 | rates and ratios are true |
| `scrape` | parts of a pool of ten lines for vLLM and for Triton, seven for DCGM; histograms of two engines, two boundaries, up to four latencies, torn or not; five scrapes for outages; three changes of Kubernetes objects | what is shown was measured, and outages are reported |
| `startup` | every one or two of 48 deviations from a file with everything on; three environments; with and without demonstration | assumptions of the other modules, agreement of `Validate` with the constructors, authentication |
| `control_plane` | three targets, two slots, sink queue 1, two cycles | the life of the process, safety and liveness |

Why these bounds are enough.  Two findings and a queue of two (or one) reach every
combination of full and free queue within one `Notify`; a third finding adds only
more of the same interleavings.  Two attempts have a first and a last.  Seven
samples are the fewest that fill the trend window (six) and overflow it.  Three
targets on two slots make the launch loop wait; a queue of one fills at once.  Three
scrapes give a rate before and one after a counter was missing.  Five scrapes hold two
outages of one endpoint with one of the other between them.  Two changed settings at a
time are as many as any one check of `Validate` relates.  One request beside the collector
is enough for its answer, because requests only read the store and share nothing but the
gauge, of which nothing is claimed; the theorems hold for any number.  The
thresholds keep their defaults; only the time scale is shortened, and each sample
set takes values on both sides of every threshold it touches.

`diagnosis` runs with a retention period of the trend window plus the
longest gap short of an outage.  With the least period `Config.Validate` accepts, the trend window
alone, it fails: `Add` drops the sample that brackets the window.

`BlindnessWithdrawsNothing` is about evaluations with nothing newer to go on than the one
before, up to `RetentionPeriod` after the last successful scrape, and says nothing of a
clock set back between the two.  What comes after that period, when the workload is
forgotten, is in `diagnosis_stale`: its findings are all withdrawn and their alerts
resolved, on nothing that was measured.

Statements of the documentation that the code does not keep (one run each):

| Run | Statement | What happens |
|---|---|---|
| `diagnosis_stale` | IFA-OBS-002 fires when the newest scrape is older than `stale_after` | `Prune` forgets the workload; the next evaluation withdraws the finding, with any other, and resolves its alert |
| `diagnosis_resolved` | a resolved alert is sent when a condition clears; one alert for as long as it holds | a superseding finding removes it from the result, so it is resolved and later fires again |
| `diagnosis_retention_samples` | retention outlasts the window the rules need | Validate checks the period, not `retention_samples` |
| `control_plane_discovery` | with the Kubernetes API unavailable, scraping continues | `Start` blocks until the caches sync or the process is told to stop |

Other divergences met while modelling, without a run of their own.

Alerts and rules: `deliver` may deliver a transition more than once (`sender.go:57` says
at most once); a finding whose delivery failed stays in the gauge of delivered findings
(`registry.go:306`); sustained rules do fire with an interval longer than `sustain_for`
(`CONFIGURATION.md:143`); IFA-LAT-003 says no throughput or cache rule fired beside it,
which supersession does not ensure (`rules.go:470`); `window_seconds` is set by rules
that look at one sample (`API.md:198`); percentiles called current are of the process's
lifetime (`rules.go:470`); an API answer's window need not end in its latest snapshot
(`recommender.go:70`).

Scrapes: after the clock was set back, samples dated in the future delay sustained rules
and keep `Add` from dropping older ones by age; a restart is not noticed when a counter
has passed its old value by the next scrape (`ARCHITECTURE.md:106`); the two rates of a
ratio need not cover "the same interval" (`collector.go:424`) when a counter was missing
from a scrape, and the abort rate can then exceed 100% (`types.go:76`); the warning
about unparseable lines has no recovery message (`collector.go:175`); a Triton server's
memory share divides the largest amount used by the largest amount there is, which on
unequal devices is no device's (`triton.go:155`); when DCGM answers, what it does not
measure replaces what Triton did, without being reported missing; requests finished
"successfully or otherwise" (`adapter.go`) are, for Triton, the successful ones; a label
selector hides autoscalers that lack the labels, though a ceiling of zero is said to
mean that there is none (`watcher.go`); a histogram without observations counts as
missing.

Configuration and API: a demonstration keeps the default alert timeout of five seconds
with an interval of one, which `validateAlerting` says must not be
(`config.go:468`); a token that is set is required even with `api_auth.enabled` off
(`main.go:207`); `API.md:268` says of authentication that "there is none", the API's
"significant limitation", against `requireAuth` and `SECURITY_MODEL.md:92`; log levels are
compared in lower case by `Validate` and as written by `newLogger`; an empty file is
refused; `stale_after` is not compared with the interval;
the gauge of active recommendations need not be "from the most recent analysis"
(`API.md:263`): it follows API requests only, not the collector's own evaluations, and of
two requests served at once the one that analysed first may record last
(`server.go:315`); three times a `sustain_for` of more than 97 years wraps to a negative
duration and passes the check against the retention period (`config.go:404`); the
store-size gauge may be set out of order and is not updated by `Prune`.

### Fairness

`AlertSender`: `Notify` and the delivery goroutine are weakly fair, because their
loops are bounded and every POST has a timeout; so is `Close` once called.  Nothing
is assumed of the receiver, and nothing forces the process to stop.
`ControlPlane`: the goroutines are weakly fair (scrapes, inserts and the HTTP drain
have timeouts, the tickers keep firing); the collector's return on a done context is
strongly fair, because Go's select chooses at random between a tick and the
cancellation.  Nothing is assumed of signals, Kubernetes, targets or the database.

## 4. Proofs

The theorems hold for every set of findings, queue size, number of targets, thresholds,
environment, file, and so on; they assume only the named assumptions on the constants:

- `ThresholdsAssumption`, `RetentionAssumption`: what `Thresholds.Validate` and
  `Config.Validate` accept, which `PartsGetWhatTheyAssume` proves a serving process has;
- `ControlPlaneAssumption`, `RatesAssumption`, `SenderAssumption`: sizes are positive,
  sets finite;
- `VersionsAssumption`: Kubernetes has no negative replica counts;
- `TargetsAssumption`: a payload's samples are natural numbers or NaN, the boundaries of
  its buckets and the latencies observed lie between zero and the open bucket's;
- `FiltersAssumption`: a request's filters are ones `parseFilter` lets through;
- `FilesAssumption`, `DurationAssumption`: a file that decodes gives every number a
  number and every target its fields, and a duration's range is a positive number.

| Property | Theorem | Strengthened by |
|---|---|---|
| `TypeOK`, `ClosedMeansDrained`, `OpenTracksFindings`, `CountersAddUp`, `ReceiverAgrees`, `ImplementsLifecycle` | `AlertSenderProofs` | `ShutdownInv`, `NotifyInv`, `ReceiverInv` |
| `TypeOK`, `CyclesDoNotOverlap`, `ReadyMeansScraped`, `ClosedAfterCollector`, `SnapshotsAccountedFor` | `ControlPlaneProofs` | `WalkedPast`, `ShutdownOrder`, `DrainedAtLast`, `Balanced` |
| `TypeOK`, `RatesAreTrue`, `RatiosAreShares` | `RatesProofs` | `BaselineIsLastSeen`, `SeenTogether`, `SameInterval` |
| `TypeOK`, `NoOppositeDiagnoses`, `NothingSilencedInVain`, `EvidenceIsTrue`, `SustainedIsReal`, `SustainedIsPersistence` | `DiagnosisProofs` | `Inv` |
| `BlindnessWithdrawsNothing` | `DiagnosisProofs` | `Inv`, `Spared` |
| `RetentionSuffices`, under the hypotheses below | `DiagnosisProofs` | `Inv`, `RetentionInv`, `Spaced` |
| `AnswerNotContradictory`, `AnswerEvidenceIsTrue` | `ApiAnalysisProofs` | `Inv`, `ApiInv` |
| `AssumptionsHold`, `TokenDecides` | `StartupProofs` | `Inv` |
| `ValidatedStarts` | `StartupProofs` | `Inv`, `StartsInv` |
| `WarnedOncePerOutage`, `ContextWasReal` | `ScrapeProofs` | `OutageInv`, `ContextInv` |
| `EstimateInBucket`, `PercentilesOrdered`, `MissingIsTrue`, `OwnModelOnly`, `SaturatedDeviceShows` | `ScrapeProofs` | `ReadInv` |

**AlertSenderProofs.**  `TypeCorrect` is inductive as it stands.  `Drained` needs
`ShutdownInv`: Close is called when Notify can no longer be running, `run` drains only
after stop, and returns only on an empty queue.  `OpenTracks` needs `NotifyInv`, which
says how far the two loops have come.  `Accounted` is inductive modulo the width of the
counters: `MultiplesStep` says when a difference remains a multiple of the modulus, and
`WrapAddsOne` that a counter which wraps has still gone up by one, modulo it; each step
that settles a payload adds one to one counter and takes one from what is pending.
`ReceiverNotLeftBehind` needs `ReceiverInv`: the
last pending payload about a finding tells what the sender tracks; the lemmas
`LastAppend` and `LastTail` say how appending to and taking from the queue preserve
that.  `Refinement` shows that each step is a step of `AlertLifecycle` or leaves its
variables alone; it uses the type invariant and `ShutdownInv` (no enqueue after the
end).

**ControlPlaneProofs.**  `ControlPlaneTyped` is inductive as it stands.  So, given types,
is `CyclesDoNotOverlap` (`CyclesSeparate`): what is in flight lies before `next`, so the
target `Launch` adds is a new one and the cardinality grows by one below the semaphore's
bound.  `ReadyAfterScrapes` needs `WalkedPast`: every target before `next` is in flight or
attempted, and the loop ends early only on a done context; with nothing in flight at
`CycleEnds`, all were attempted.  `ClosedInOrder` needs `ShutdownOrder` (nothing is closed
before main's deferred calls, the writer drains only when stopped, the process exits only
after it) and `CyclesSeparate`.  `NothingLostUncounted` needs the balance of the sink's
counters (`Balanced`) and `DrainedAtLast`: a writer that has returned after the sender was
closed leaves an empty queue, because by `ClosedInOrder` nobody could add to it.

**RatesProofs.**  `RatesTyped` is inductive with `RateIsIncrease`, which says what `rate`
returns.  `RatesTrue` needs `BaselineIsLastSeen`: value and baseline differ by the events
since the counter was last seen, and after a restart the value is at most those events.
The proof assumes nothing about time: the clock may stand still or step back.
`RatiosShares` adds `SeenTogether`, that counters seen by the same last scrape have
baselines of the same time, from which `SameInterval` follows: two rates given without
a gap cover the same interval, so it cancels from their ratio.  The bound of 100% on the
error rate needs no more than types.

**RecommenderProofs** holds no theorem about a specification but what the rules and
`recent` return, for any window.  `InductionOverNat` is derived from the well-foundedness
of the naturals, for a predicate given as a set.  With it `SearchFinds` shows that the
bisection ends and returns a position, whatever the order of the samples; `RecentIsTail`
that `recent` is a tail of the window; `SustainedOverTail` that "sustained" speaks of every
sample of a tail that spans the time asked for.  `OppositesExclude` is arithmetic over
the thresholds `Validate` accepts.  `SilencedIsExplained` goes through the supersession
table, which is not transitive: two steps always reach a finding that is shown.

**DiagnosisProofs.**  The inductive invariant `Inv` says that types are right (`TypesOK`);
that the record is in order of the time that really passed, though perhaps not of the
wall clock (`LogOK`); that the store holds the end of that record (`SeriesOK`, by the
lemmas about what `leading` and the cap of `Add` cut off); and that the findings are those
of the context they were derived from, whose window is an end of the record as it was
then (`FindingsOK`).  Each property is then a lemma about one context.
`SustainedPersists` needs that on ordered samples the bisection finds the last sample
before the window (`SustainedWhenInOrder`); it says nothing for a `sustain_for` of zero,
which `Validate` accepts and where the latest sample alone decides, contrary to the
definition.  `BlindnessHarmless` compares two evaluations of one series at a later time
(`LaterWithdrawsNothing`), and needs that there still is one: `Spared` says that a
workload is in the store until `RetentionPeriod` after its newest sample, because the
clock is only ever set back and a sample is then at least as old as its stamp says
(`PruneSpares`).

`RetentionIsEnough` says when the store hides nothing from the rules.  `RetentionInv` adds
to `Inv`, for a clock that was never set back, that the record is ordered and that the
store has dropped only what was too old, seen from the newest sample, or beyond the last
`RetentionSamples`, and keeps nothing too old (`Kept`).
`KeptIsEnough` then shows that `recent` returns the same of what was kept as of the record
since the last silence.  Its hypotheses are needed:

- `behind = 0`: on a record out of order the bisection may end elsewhere in the shorter
  window;
- `SustainFor > 0`: with zero, a trend is taken over all that is retained;
- `Covers`: nothing that brackets the trend window was cut off.  A gap that straddles the
  edge of the retention period drops the bracketing sample, as does a small
  `retention_samples`; `Config.Validate` excludes neither, and the runs `diagnosis`
  (see its bounds) and `diagnosis_retention_samples` show what follows.

`SpacedRetentionIsEnough` replaces `Covers` by a condition on settings and on the gaps
between successful scrapes, one by one (`Spaced`): each is at least `least`, so that the
samples kept span the trend window, and it either leaves the trend window within the
retention period or is an outage longer than that period, which forgets what went before.
How many scrapes fail, and how long the process runs, does not matter.  With the defaults
(a trend window of 135 s, a retention of 900 s in 120 samples) and a `least` of 10 s about
the interval of 15 s, it holds for gaps up to 765 s and outages over 900 s.

**ApiAnalysisProofs.**  The requests' steps leave the store alone (`RequestsChangeNothing`),
so `Inv` holds beside them.  `ApiInv` says of each request how far it has come
(`Handling`): its latest snapshot is one of the record, its window an end of the record
as it was later; and of the last answer, that it came from such a window (`Answered`).
`RecordGrows` keeps that while the collector, or another request, moves on.  So the two
rules that would contradict each other are decided over one window, whatever came in
between; and with at most one newer sample in it the snapshot quoted is the window's last
or last but one, or the window has a single sample, on which no sustained rule fires
(`OneNewer`).

**StartupProofs.**  `Inv` says, per stage, what has been checked or defaulted so far
(`ConfigOK`, `SinkOK`, `SenderOK`, `CollectorOK`) and how the answer relates to the token
(`AnswerOK`).  `ValidIsEnough` derives what the parts lean on from `Validate`, with
`FitsUnwrapped` for a window below the range of a duration; `DemoIsEnough` shows that the
rewiring for a demonstration, which is not validated, keeps all of it but the relation of
an alert's timeout to the interval.
`ValidatedStartsHold` compares `Validate` with the checks the constructors make again.
`ValidIsStartable` shows that of these only that on keys can still fail: `Validate` and
`collector.New` join namespace and name differently, and two targets told apart by the
one and not by the other are one without a namespace and one with (`SharesSeries`).
`DemoTargetsStart` shows that the demonstration's fleet passes, and `StartsInv` carries
this from `Load` to the last constructor.

**ScrapeProofs.**  `OutageInv` ties the map of conditions warned about to the last outcome
of each, and the lines logged to the beginnings and ends in the sequence of outcomes;
`FailureAppended` and `SuccessAppended` say how these change with one more outcome.
`ContextInv` adds that the caches hold versions there were; `AdaptersLeaveContext` and
`DevicesLeaveContext` that nothing but the join writes the fields shown.

The other five properties are about one payload, once `ReadInv` says that everything
stored was read from what was answered last; they hold for payloads of any length.  What
the loops compute is proved by induction on the lines read: `LoopExists` and
`TotalIsLoop` show that the recursive functions are defined and satisfy their equations,
with `InductionOverNat` for a predicate given as a set.

- `PercentilesHold`: `BucketsDistribution` shows that `buckets` yields boundaries in order and
  counts that never fall, torn or not; `IndexIs` and `IndexMonotone` that a higher
  percentile lies in no lower a bucket; `InterpolateInside` and `InterpolateOrdered`
  compare within one.
- `EstimatesHold`: `BucketCount` shows, by the disjoint union of what each engine saw,
  that a bucket of a `Whole` histogram counts the observations up to its boundary;
  `TrueInBucket` that the true percentile lies in the bucket `Quantile` finds, and
  `QuantileInBucket` that the estimate does.  Without `Whole` nothing of the kind holds.
- `OwnModelRead`: every reading of a payload is the same as of the lines of the model
  configured (`SameSum`, `SameLargest`, `SameSummary`, `SameQuantile`), and the aborted are
  a part of the finished (`AbortedAreFinished`, by `TotalMonotone`).
- `MostLoadedIsShown`: `OverDevicesIs` and `MostLoadedOver` show that the loop over
  devices keeps a device's own figure that no other's exceeds; for Triton, where the
  property supposes devices of equal memory, `FractionsOrdered` orders shares by what is used.
- `MissingReportTrue`: a case split over the names each adapter may report.

Left to TLC is everything about liveness, which is out of the prover's reach:
`ImplementsFairLifecycle`, `CloseTerminates`, `Converges`, `ShutdownCompletes`,
`BecomesReady`; and the violations, which are counterexamples.  Every invariant and
every action property of the passing runs is stated by a theorem, and so is the safety
part of the refinement.

## 5. Not modelled

Not modelled: the demo simulator and the test server (they play the inference runtime),
deployment files, the CLI's tables and its `check` command (one payload read, nothing
kept), pods and the workload listing built from them (read only, no rule uses them),
the grammar of an exposition line and of YAML (functions over strings, without state),
JSON and text layout, SQL, the wording of log lines, and of the self-metrics the times,
the totals by severity and the store-size gauge.  Percentiles over a runtime's lifetime
rather than over recent requests are what the adapter intends; there is nothing to
check them against.
