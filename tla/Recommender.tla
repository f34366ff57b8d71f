---------------------------- MODULE Recommender ----------------------------
(***************************************************************************)
(* The rule engine of internal/recommender: the evaluation window          *)
(* (recent, Sustained, Trend), the nineteen built-in rules, supersession   *)
(* and analyzeWorkload.  It is a pure function of an evaluation context    *)
(*     e = [latest, window, now]                                           *)
(* (type Eval): the latest snapshot, the retained history oldest first,    *)
(* and the evaluation time.                                                *)
(*                                                                         *)
(* A measurement is a natural number or Absent (telemetry.Metric with OK   *)
(* false).  Fractional units are scaled: preemptions are per 1000 seconds. *)
(* Explanations, actions and the order of the output are left out; what a  *)
(* finding offers as evidence is EvidenceHolds (Diagnosis).                *)
(***************************************************************************)
EXTENDS Integers, Sequences, FiniteSets

CONSTANT T   \* the configured Thresholds

DefaultThresholds ==
    [SustainFor |-> 45, StaleAfter |-> 120, QueueWaitingRequests |-> 8,
     GPUUtilHighPct |-> 85, GPUUtilLowPct |-> 35, GPUMemoryHighPct |-> 90,
     KVCacheHighPct |-> 90, PreemptionsPerSec |-> 10, TTFTP95Ms |-> 1000,
     E2EP95Ms |-> 10000, QueueShareOfTTFTPct |-> 50, TailRatioP99P95 |-> 3,
     TokensPerSecondLow |-> 200, PrefixCacheHitLowPct |-> 10, ErrorRatePct |-> 2,
     AbortRatePct |-> 5]

\* Thresholds.Validate: what startup insists on.
Validate(t) ==
    /\ t.SustainFor >= 0
    /\ t.StaleAfter > 0
    /\ t.GPUUtilLowPct < t.GPUUtilHighPct
    /\ \A pct \in {t.GPUUtilHighPct, t.GPUUtilLowPct, t.GPUMemoryHighPct,
                   t.KVCacheHighPct, t.QueueShareOfTTFTPct, t.PrefixCacheHitLowPct,
                   t.ErrorRatePct, t.AbortRatePct} : pct \in 0 .. 100
    /\ \A n \in {t.QueueWaitingRequests, t.PreemptionsPerSec, t.TTFTP95Ms,
                 t.E2EP95Ms, t.TokensPerSecondLow} : n >= 0
    /\ t.TailRatioP99P95 >= 1

ASSUME ThresholdsAssumption ==
    /\ T \in [DOMAIN DefaultThresholds -> Int]
    /\ Validate(T)

-----------------------------------------------------------------------------
(* Measurements *)

Absent == -1
Measured(m) == m # Absent
Above(m, threshold) == Measured(m) /\ m > threshold
Below(m, threshold) == Measured(m) /\ m < threshold

Metrics == {"RequestsWaiting", "WaitingDeferred", "WaitingForCapacity",
            "GPUUtilizationPct", "GPUMemoryUsedPct", "KVCacheUsagePct",
            "PreemptionsPerSec", "TTFTP95Ms", "QueueTimeP95Ms", "P95LatencyMs",
            "P99LatencyMs", "PrefixCacheHitRatePct", "PromptTokensPerSec",
            "TokensPerSecond", "ErrorRatePct", "AbortRatePct",
            "Replicas", "ReadyReplicas", "MaxReplicas"}
Measurements == [Metrics -> Nat \cup {Absent}]

-----------------------------------------------------------------------------
(* The evaluation window *)

\* sort.Search: bisection for the number of samples that precede `cutoff'.  It finds
\* that number when the samples are in time order; when the clock was set back
\* between them it still returns a position, found by the same halving.
searchBefore(w, cutoff) ==
    LET middle(r) == (r[1] + r[2]) \div 2
        search[r \in (0 .. Len(w)) \X (0 .. Len(w))] ==
            IF r[1] >= r[2] THEN r[1]
            ELSE IF w[middle(r) + 1].ts < cutoff THEN search[<<middle(r) + 1, r[2]>>]
                 ELSE search[<<r[1], middle(r)>>]
    IN  search[<<0, Len(w)>>]

\* Slip: the sample before the cutoff is not included.
recentUnbracketed(w, d) ==
    IF w = <<>> \/ d <= 0 THEN w
    ELSE SubSeq(w, searchBefore(w, w[Len(w)].ts - d) + 1, Len(w))

\* The tail covering the last d, with the sample before it when there is one.
recent(w, d) ==
    IF w = <<>> \/ d <= 0 THEN w
    ELSE LET start == searchBefore(w, w[Len(w)].ts - d)
         IN  SubSeq(w, IF start > 0 THEN start ELSE 1, Len(w))

\* Slip: the span is taken between the extreme times, whatever their order.
spanExtremes(w) ==
    IF Len(w) < 2 THEN 0
    ELSE CHOOSE d \in {w[i].ts - w[j].ts : i, j \in DOMAIN w} :
             \A i, j \in DOMAIN w : w[i].ts - w[j].ts <= d

span(w) == IF Len(w) < 2 THEN 0 ELSE w[Len(w)].ts - w[1].ts

\* Slip: only the oldest sample of the tail is looked at.
sustainSamplesOldest(tail) == {tail[1]}

\* Sustained's loop: the samples that must all satisfy the predicate.
sustainSamples(tail) == {tail[i] : i \in DOMAIN tail}

Sustained(e, pred(_)) ==
    IF T.SustainFor <= 0
    THEN e.window # <<>> /\ pred(e.latest)
    ELSE LET tail == recent(e.window, T.SustainFor)
         IN  /\ span(tail) >= T.SustainFor
             /\ \A s \in sustainSamples(tail) : pred(s)

TrendWindow == 3
minSamples == 6

\* Sum of a metric over a window every sample of which measured it.
sumOf(w, metric) ==
    LET sum[i \in 0 .. Len(w)] == IF i = 0 THEN 0 ELSE sum[i - 1] + w[i].m[metric]
    IN  sum[Len(w)]
measuredThroughout(w, metric) == \A i \in DOMAIN w : Measured(w[i].m[metric])

\* Trend reports a difference of means over equally many samples; "more than n"
\* is asked of the sums.
TrendExceeds(e, metric, n) ==
    LET w     == recent(e.window, T.SustainFor * TrendWindow)
        third == Len(w) \div 3
        early == SubSeq(w, 1, third)
        late  == SubSeq(w, Len(w) - third + 1, Len(w))
    IN  /\ Len(w) >= minSamples
        /\ measuredThroughout(early, metric) /\ measuredThroughout(late, metric)
        /\ sumOf(late, metric) - sumOf(early, metric) > n * third

-----------------------------------------------------------------------------
(* The rules *)

Deep(s) == Above(s.m["RequestsWaiting"], T.QueueWaitingRequests)

queueSaturated(s) == Deep(s) /\ Above(s.m["GPUUtilizationPct"], T.GPUUtilHighPct)
queueWithSaturatedGPU(e) == Sustained(e, queueSaturated)

\* Slip: any queue counts as one with an idle GPU.
queueIdleAnyGPU(s) == Deep(s)
queueIdle(s) == Deep(s) /\ Below(s.m["GPUUtilizationPct"], T.GPUUtilLowPct)
queueWithIdleGPU(e) == Sustained(e, queueIdle)

queueGrowing(e) == Deep(e.latest) /\ TrendExceeds(e, "RequestsWaiting", 1)

queueDeferred(e) ==
    LET m == e.latest.m
    IN  /\ Measured(m["WaitingDeferred"]) /\ Measured(m["WaitingForCapacity"])
        /\ m["WaitingDeferred"] + m["WaitingForCapacity"] > T.QueueWaitingRequests
        /\ m["WaitingDeferred"] > m["WaitingForCapacity"]

kvPreemption(e) == Above(e.latest.m["PreemptionsPerSec"], T.PreemptionsPerSec)

kvHigh(s) == Above(s.m["KVCacheUsagePct"], T.KVCacheHighPct)
kvNearCapacity(e) == Sustained(e, kvHigh)

\* queueShareOfTTFT is defined on a positive TTFT; the clamp at 100% changes no
\* comparison with a threshold of at most 100%.
shareDefined(m) ==
    Measured(m["TTFTP95Ms"]) /\ Measured(m["QueueTimeP95Ms"]) /\ m["TTFTP95Ms"] > 0
shareAtLeast(m, pct) == m["QueueTimeP95Ms"] * 100 >= pct * m["TTFTP95Ms"]

ttftAdmissionBound(e) ==
    LET m == e.latest.m
    IN  /\ shareDefined(m) /\ Above(m["TTFTP95Ms"], T.TTFTP95Ms)
        /\ shareAtLeast(m, T.QueueShareOfTTFTPct)

\* Slip: a prefill diagnosis without a look at the queue's share.
ttftPrefillAnyShare(e) ==
    LET m == e.latest.m
    IN  shareDefined(m) /\ Above(m["TTFTP95Ms"], T.TTFTP95Ms)

ttftPrefillBound(e) ==
    LET m == e.latest.m
    IN  /\ shareDefined(m) /\ Above(m["TTFTP95Ms"], T.TTFTP95Ms)
        /\ ~shareAtLeast(m, T.QueueShareOfTTFTPct)

latencyHigh(s) == Above(s.m["P95LatencyMs"], T.E2EP95Ms)
e2eLatencyHigh(e) == Sustained(e, latencyHigh)

tailLatencyGap(e) ==
    LET m == e.latest.m
    IN  /\ Measured(m["P95LatencyMs"]) /\ Measured(m["P99LatencyMs"])
        /\ m["P95LatencyMs"] > 0
        /\ m["P99LatencyMs"] > T.TailRatioP99P95 * m["P95LatencyMs"]

prefixCacheIneffective(e) ==
    LET m == e.latest.m
    IN  /\ Measured(m["PrefixCacheHitRatePct"]) /\ Measured(m["PromptTokensPerSec"])
        /\ m["PromptTokensPerSec"] >= 50
        /\ m["PrefixCacheHitRatePct"] < T.PrefixCacheHitLowPct

lowTokenThroughput(e) ==
    LET m == e.latest.m
    IN  /\ Above(m["GPUUtilizationPct"], T.GPUUtilHighPct)
        /\ Below(m["TokensPerSecond"], T.TokensPerSecondLow)

gpuMemoryHigh(s) == Above(s.m["GPUMemoryUsedPct"], T.GPUMemoryHighPct)
gpuMemoryPressure(e) == Sustained(e, gpuMemoryHigh)

errorsHigh(s) == Above(s.m["ErrorRatePct"], T.ErrorRatePct)
errorRateHigh(e) == Sustained(e, errorsHigh)

abortsHigh(s) == Above(s.m["AbortRatePct"], T.AbortRatePct)
clientAborts(e) == Sustained(e, abortsHigh)

atReplicaCeiling(e) ==
    LET m == e.latest.m
    IN  /\ Measured(m["Replicas"]) /\ Measured(m["MaxReplicas"]) /\ m["MaxReplicas"] > 0
        /\ m["Replicas"] >= m["MaxReplicas"]
        /\ Sustained(e, Deep)

replicasNotReady(e) ==
    LET m == e.latest.m
    IN  /\ Measured(m["Replicas"]) /\ Measured(m["ReadyReplicas"])
        /\ m["Replicas"] - m["ReadyReplicas"] >= 1
        /\ Deep(e.latest)

telemetryIncomplete(e) == e.latest.missing

telemetryStale(e) == e.now - e.latest.ts > T.StaleAfter

-----------------------------------------------------------------------------
(* The rule set *)

Codes == {"CAP-001", "CAP-002", "CAP-003", "CAP-004", "KV-001", "KV-002",
          "LAT-001", "LAT-002", "LAT-003", "LAT-004", "EFF-001", "EFF-002",
          "EFF-003", "ERR-001", "ERR-002", "SCL-001", "SCL-002", "OBS-001", "OBS-002"}

Critical == {"CAP-003", "KV-001", "ERR-001", "SCL-001", "SCL-002"}
Info == {"LAT-004", "EFF-001", "EFF-002", "OBS-001"}
Rank(c) == IF c \in Critical THEN 0 ELSE IF c \in Info THEN 2 ELSE 1

\* Slip: two rules supersede each other.
SupersedesBothWays(c) ==
    CASE c \in {"CAP-001", "CAP-002", "LAT-001", "LAT-002"} -> {"LAT-003"}
      [] c = "LAT-003" -> {"CAP-001"}
      [] c = "CAP-004" -> {"CAP-001", "CAP-002"}
      [] c = "KV-001"  -> {"KV-002"}
      [] c = "SCL-001" -> {"CAP-001"}
      [] OTHER         -> {}

Supersedes(c) ==
    CASE c \in {"CAP-001", "CAP-002", "LAT-001", "LAT-002"} -> {"LAT-003"}
      [] c = "CAP-004" -> {"CAP-001", "CAP-002"}
      [] c = "KV-001"  -> {"KV-002"}
      [] c = "SCL-001" -> {"CAP-001"}
      [] OTHER         -> {}

VllmOnly == {"CAP-004", "EFF-001"}
appliesTo(c, runtime) == c \in VllmOnly => runtime = "vllm"

Eval(c, e) ==
    CASE c = "CAP-001" -> queueWithSaturatedGPU(e)
      [] c = "CAP-002" -> queueWithIdleGPU(e)
      [] c = "CAP-003" -> queueGrowing(e)
      [] c = "CAP-004" -> queueDeferred(e)
      [] c = "KV-001"  -> kvPreemption(e)
      [] c = "KV-002"  -> kvNearCapacity(e)
      [] c = "LAT-001" -> ttftAdmissionBound(e)
      [] c = "LAT-002" -> ttftPrefillBound(e)
      [] c = "LAT-003" -> e2eLatencyHigh(e)
      [] c = "LAT-004" -> tailLatencyGap(e)
      [] c = "EFF-001" -> prefixCacheIneffective(e)
      [] c = "EFF-002" -> lowTokenThroughput(e)
      [] c = "EFF-003" -> gpuMemoryPressure(e)
      [] c = "ERR-001" -> errorRateHigh(e)
      [] c = "ERR-002" -> clientAborts(e)
      [] c = "SCL-001" -> atReplicaCeiling(e)
      [] c = "SCL-002" -> replicasNotReady(e)
      [] c = "OBS-001" -> telemetryIncomplete(e)
      [] c = "OBS-002" -> telemetryStale(e)

\* analyzeWorkload: every rule that fires silences what it supersedes, whether
\* or not it is itself silenced.
fired(e) == {c \in Codes : appliesTo(c, e.latest.runtime) /\ Eval(c, e)}
superseded(codes) == UNION {Supersedes(c) : c \in codes}
analyzeWorkload(e) == fired(e) \ superseded(fired(e))
=============================================================================
