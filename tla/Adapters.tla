----------------------------- MODULE Adapters -----------------------------
(***************************************************************************)
(* internal/runtime: the vLLM and Triton adapters and the DCGM reader,     *)
(* functions from a payload to a reading                                   *)
(*     [snap, counters, missing]                                           *)
(* of measurements by field, raw counters by name, and the names expected  *)
(* but not seen.  Gauges that are fractions of one are carried in          *)
(* thousandths.  Metric names are the source's constants.                  *)
(***************************************************************************)
EXTENDS Exposition

Fields == {"RequestsRunning", "RequestsWaiting", "WaitingForCapacity", "WaitingDeferred",
           "KVCacheUsagePct", "TTFTP50Ms", "TTFTP95Ms", "TTFTP99Ms",
           "P50LatencyMs", "P95LatencyMs", "P99LatencyMs", "QueueTimeP95Ms",
           "GPUUtilizationPct", "GPUMemoryUsedPct",
           "Replicas", "ReadyReplicas", "MaxReplicas"}
Unmeasured == [field \in Fields |-> Absent]

\* A snapshot of the measurements given, a record; the others are absent.
Measured(given) ==
    [field \in Fields |-> IF field \in DOMAIN given THEN given[field] ELSE Absent]

\* A reading's counters, likewise.
Counters == {"GenerationTokensTotal", "PromptTokensTotal", "PreemptionsTotal",
             "PrefixCacheQueriesTotal", "PrefixCacheHitsTotal", "finished", "aborted", "failed"}
Counted(given) ==
    [name \in Counters |-> IF name \in DOMAIN given THEN given[name] ELSE Absent]

\* The selector for the configured model, if one is.
modelSelector(label, model) == IF model = "" THEN Everything ELSE [l \in {label} |-> model]

\* Slip: the extra constraint replaces the others.
cloneWithAlone(sel, label, v) == [l \in {label} |-> v]

cloneWith(sel, label, v) ==
    [l \in DOMAIN sel \cup {label} |-> IF l = label THEN v ELSE sel[l]]

-----------------------------------------------------------------------------
(* vLLM *)

\* ExpectedMetrics without the optional ones.
vllmRequired == {"NumRequestsRunning", "NumRequestsWaiting", "KVCacheUsage",
                 "TimeToFirstToken", "E2ELatency", "GenerationTokensTotal",
                 "PromptTokensTotal", "RequestSuccessTotal"}

\* KV-cache usage, by its V1 name or else by the V0 one.
kvUsage(payload, sel) ==
    LET v1 == Largest(payload, "KVCacheUsage", sel)
    IN  IF Given(v1) THEN v1 ELSE Largest(payload, "GPUCacheUsageLegacy", sel)

\* Slip: the old name is read, and still reported missing.
vllmSeenByNewName(payload, sel) ==
    {name \in vllmRequired :
        IF name \in {"TimeToFirstToken", "E2ELatency"}
        THEN Given(Quantile(payload, name, 50, sel))
        ELSE Given(Sum(payload, name, sel))}

\* The required names that were seen.
vllmSeen(payload, sel) ==
    {name \in vllmRequired :
        IF name \in {"TimeToFirstToken", "E2ELatency"}
        THEN Given(Quantile(payload, name, 50, sel))
        ELSE IF name = "KVCacheUsage" THEN Given(kvUsage(payload, sel))
        ELSE Given(Sum(payload, name, sel))}

vllmParse(payload, model) ==
    LET sel == modelSelector("model_name", model)
        sum(name) == Sum(payload, name, sel)
        ms(family, p) == Times(Quantile(payload, family, p, sel), 1000, 1)
        waitingFor(reason) ==
            Sum(payload, "NumRequestsWaitingByReason", cloneWith(sel, "reason", reason))
    IN  [snap |-> Measured(
              [RequestsRunning |-> sum("NumRequestsRunning"),
               RequestsWaiting |-> sum("NumRequestsWaiting"),
               WaitingForCapacity |-> waitingFor("capacity"),
               WaitingDeferred |-> waitingFor("deferred"),
               KVCacheUsagePct |-> Times(kvUsage(payload, sel), 100, 1000),
               TTFTP50Ms |-> ms("TimeToFirstToken", 50),
               TTFTP95Ms |-> ms("TimeToFirstToken", 95),
               TTFTP99Ms |-> ms("TimeToFirstToken", 99),
               P50LatencyMs |-> ms("E2ELatency", 50),
               P95LatencyMs |-> ms("E2ELatency", 95),
               P99LatencyMs |-> ms("E2ELatency", 99),
               QueueTimeP95Ms |-> ms("QueueTime", 95)]),
         counters |-> Counted(
              [GenerationTokensTotal |-> sum("GenerationTokensTotal"),
               PromptTokensTotal |-> sum("PromptTokensTotal"),
               PreemptionsTotal |-> sum("PreemptionsTotal"),
               PrefixCacheQueriesTotal |-> sum("PrefixCacheQueriesTotal"),
               PrefixCacheHitsTotal |-> sum("PrefixCacheHitsTotal"),
               finished |-> sum("RequestSuccessTotal"),
               aborted |-> Sum(payload, "RequestSuccessTotal",
                               cloneWith(sel, "finished_reason", "abort"))]),
         missing |-> vllmRequired \ vllmSeen(payload, sel)]

-----------------------------------------------------------------------------
(* Triton *)

deviceMetrics == {"GPUUtilization", "GPUMemoryUsed", "GPUMemoryTotal"}
tritonRequired == {"RequestSuccess", "RequestFailure", "PendingCount", "RequestDurationUs",
                   "QueueDurationUs"} \cup deviceMetrics

\* Per-device metrics, which carry no model: the largest value over the devices.
gpuMax(payload, name) == Largest(payload, name, Everything)

\* A rate in 0 .. 1, made a percentage.
gpuUtil(payload) == Times(gpuMax(payload, "GPUUtilization"), 100, 1000)

\* The largest amount used over the largest amount there is.
gpuMemory(payload) ==
    LET used  == gpuMax(payload, "GPUMemoryUsed")
        total == gpuMax(payload, "GPUMemoryTotal")
    IN  IF Given(used) /\ Given(total) /\ total.num > 0
        THEN Fraction(used.num * 100, total.num) ELSE Absent

tritonSeen(payload, sel) ==
    {name \in tritonRequired :
        IF name \in deviceMetrics
        THEN Given(gpuMax(payload, name))
        ELSE Given(Sum(payload, name, sel))}

tritonParse(payload, model) ==
    LET sel == modelSelector("model", model)
        ms(family, p) == Times(SummaryQuantile(payload, family, p, sel), 1, 1000)
    IN  [snap |-> Measured(
              [RequestsWaiting |-> Sum(payload, "PendingCount", sel),
               P50LatencyMs |-> ms("RequestSummaryUs", 50),
               P95LatencyMs |-> ms("RequestSummaryUs", 95),
               P99LatencyMs |-> ms("RequestSummaryUs", 99),
               QueueTimeP95Ms |-> ms("QueueSummaryUs", 95),
               GPUUtilizationPct |-> gpuUtil(payload),
               GPUMemoryUsedPct |-> gpuMemory(payload)]),
         counters |-> Counted([finished |-> Sum(payload, "RequestSuccess", sel),
                               failed |-> Sum(payload, "RequestFailure", sel)]),
         missing |-> tritonRequired \ tritonSeen(payload, sel)]

-----------------------------------------------------------------------------
(* DCGM Exporter *)

dcgmNames == {"GPUUtil", "FBUsed", "FBFree", "GPUTemp", "SMClock", "MemCopyUtil"}

\* dcgm.Parse: by device index, utilisation and the share of memory used; a device
\* that reports only one of used and free has none.
dcgmParse(payload) ==
    LET lines   == {i \in DOMAIN payload :
                       payload[i].name \in dcgmNames /\ "gpu" \in DOMAIN payload[i].labels}
        one(device, name) == Largest(payload, name, [gpu |-> device])
        memory(used, free) ==
            IF Given(used) /\ Given(free) /\ used.num + free.num > 0
            THEN Fraction(used.num * 100, used.num + free.num) ELSE Absent
    IN  [gpu \in {payload[i].labels["gpu"] : i \in lines} |->
            [util   |-> one(gpu, "GPUUtil"),
             memory |-> memory(one(gpu, "FBUsed"), one(gpu, "FBFree"))]]
=============================================================================
