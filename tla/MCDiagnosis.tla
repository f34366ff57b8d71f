---------------------------- MODULE MCDiagnosis ----------------------------
(* Model-checking instances of Diagnosis: sample sets that vary a few        *)
(* measurements around each threshold and leave the others unmeasured.       *)
EXTENDS Diagnosis, TLC

Nothing == [metric \in Metrics |-> Absent]
Vllm(m) == [m |-> m @@ Nothing, missing |-> FALSE, runtime |-> "vllm"]

\* Thresholds with a short time scale.
SmallT == [DefaultThresholds EXCEPT !.SustainFor = 3, !.StaleAfter = 4]

BriefT == [SmallT EXCEPT !.SustainFor = 2]

\* Latency and queue: enough to start, hold and end a condition.
QueueLatency ==
    {Vllm("RequestsWaiting" :> q @@ "P95LatencyMs" :> p @@ "GPUUtilizationPct" :> 86) :
        q \in {8, 9}, p \in {Absent, 10001}}

QueueOnly == {Vllm("RequestsWaiting" :> q) : q \in {8, 12}}

\* Every rule at and beyond its threshold, a few metrics at a time.
Capacity ==
    {Vllm("RequestsWaiting" :> q @@ "GPUUtilizationPct" :> g @@ "WaitingDeferred" :> d
          @@ "WaitingForCapacity" :> 4 @@ "Replicas" :> 2 @@ "ReadyReplicas" :> r
          @@ "MaxReplicas" :> x @@ "P95LatencyMs" :> p) :
        q \in {8, 9}, g \in {Absent, 34, 86}, d \in {Absent, 5}, r \in {1, 2},
        x \in {Absent, 2}, p \in {10000, 10001}}

Latency ==
    {[Vllm("TTFTP95Ms" :> t @@ "QueueTimeP95Ms" :> w @@ "P95LatencyMs" :> p
           @@ "P99LatencyMs" :> 30004 @@ "KVCacheUsagePct" :> k
           @@ "PreemptionsPerSec" :> x @@ "GPUUtilizationPct" :> 86 @@ "TokensPerSecond" :> n)
      EXCEPT !.missing = z] :
        t \in {0, 1001}, w \in {Absent, 500, 501}, p \in {0, 10001}, k \in {90, 91},
        x \in {Absent, 11}, n \in {199, 200}, z \in {TRUE, FALSE}}

Efficiency ==
    {[Vllm("PrefixCacheHitRatePct" :> h @@ "PromptTokensPerSec" :> t @@ "GPUMemoryUsedPct" :> g
           @@ "ErrorRatePct" :> e @@ "AbortRatePct" :> a) EXCEPT !.runtime = r] :
        h \in {Absent, 9, 10}, t \in {49, 50}, g \in {90, 91}, e \in {Absent, 3},
        a \in {5, 6}, r \in {"vllm", "triton"}}

-----------------------------------------------------------------------------
(* Environments *)

Steady(samples, gap, n, lost) ==
    [samples |-> samples, gaps |-> {gap}, failureGaps |-> {gap}, setbacks |-> {},
     maxCycles |-> n, maxFailures |-> lost, maxSetbacks |-> 0]

\* A long record with one outage, every rule over two samples, and a clock set back
\* by more than a cycle.
LongAndBroad ==
    "long" :> [samples |-> QueueOnly, gaps |-> {1, 2}, failureGaps |-> {9}, setbacks |-> {},
               maxCycles |-> 7, maxFailures |-> 1, maxSetbacks |-> 0]
    @@ "capacity" :> Steady(Capacity, 4, 2, 1)
    @@ "latency" :> Steady(Latency, 4, 2, 1)
    @@ "efficiency" :> Steady(Efficiency, 4, 2, 1)
    @@ "setback" :> [Steady(QueueOnly, 2, 5, 0) EXCEPT !.setbacks = {3}, !.maxSetbacks = 1]

\* Gaps longer than StaleAfter, with failures up to pruning.
Silent == "silent" :> Steady(QueueLatency, 5, 5, 4)
\* No failures, slow and quick.
Slow  == "slow" :> Steady(QueueLatency, 2, 5, 0)
Quick == "quick" :> Steady(QueueLatency, 1, 5, 0)
=============================================================================
