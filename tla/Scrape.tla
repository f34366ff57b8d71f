------------------------------- MODULE Scrape -------------------------------
(***************************************************************************)
(* One target's scrapes, one after the other: scrapeOne and Scrape of      *)
(* internal/collector.  The runtime's payload is fetched and read by its   *)
(* adapter, device metrics from DCGM Exporter are laid over it, replica    *)
(* counts from Kubernetes are joined on, and the snapshot goes to the      *)
(* store.  What goes wrong is logged once per outage (warned), and the     *)
(* self-metrics count it.                                                  *)
(*                                                                         *)
(* Rates are Rates' subject and the store is Diagnosis'; here the last     *)
(* snapshot stands for the store.                                          *)
(***************************************************************************)
EXTENDS Adapters, Watcher

CONSTANT Targets
\* The targets a run looks at, by name:
\*   runtime, model     as configured
\*   bodies             payloads its endpoint may answer: [lines, skipped] and,
\*                      where a histogram's are told, the latencies observed by engine
\*   dcgm               whether dcgm_url is set
\*   dcgmBodies         payloads that endpoint may answer
\*   watched            whether Kubernetes discovery is on
\*   maxScrapes         bound

\* What an endpoint may answer: samples of a natural number or NaN, with boundaries of
\* buckets up to the open one's.
Payload(p) ==
    /\ Len(p) \in Nat /\ DOMAIN p = 1 .. Len(p)
    /\ \A i \in DOMAIN p : /\ DOMAIN p[i] = {"name", "labels", "value"}
                           /\ p[i].value \in Nat \cup {NaN}
                           /\ "le" \in DOMAIN p[i].labels => p[i].labels["le"] \in 0 .. Inf

ASSUME TargetsAssumption ==
    \A name \in DOMAIN Targets :
        \A body \in Targets[name].bodies \cup Targets[name].dcgmBodies :
            /\ Payload(body.lines)
            /\ "observed" \in DOMAIN body =>
                   \A e \in DOMAIN body.observed : body.observed[e] \in Seq(0 .. Inf)

VARIABLES
    target,     \* the target, chosen once
    snap,       \* the last snapshot stored, or Unmeasured
    counters,   \* the last reading's counters, for applyRates
    missing,    \* the snapshot's MetricsMissing
    warned,     \* conditions reported and not recovered from
    stats,      \* the registry's targetStats, without the times
    \* history
    lines,      \* lines[k]: [warnings, recoveries] logged about condition k
    outcomes,   \* outcomes[k]: whether k held, each time it was looked at
    exposed,    \* the body behind `snap', and the device metrics' one
    devices

scrapeVars == <<target, snap, counters, missing, warned, stats, lines, outcomes, exposed,
                devices>>
vars == <<scrapeVars, watcherVars>>

Conditions == {"scrape", "parse", "dcgm"}
Failed == [lines |-> <<>>, skipped |-> -1]      \* no answer, or not a usable one
here == Targets[target]

-----------------------------------------------------------------------------
(* One scrape *)

Parse(t, body) == IF t.runtime = "vllm" THEN vllmParse(body.lines, t.model)
                  ELSE tritonParse(body.lines, t.model)

\* Slip: the first device stands for all.
overDevicesFirst(gpus, field) == gpus[Min(DOMAIN gpus)][field]

\* The largest value over the devices that have one.
overDevices(gpus, field) ==
    LET given == {gpu \in DOMAIN gpus : Given(gpus[gpu][field])}
    IN  IF given = {} THEN Absent
        ELSE gpus[CHOOSE gpu \in given :
                     \A other \in given : AtMost(gpus[other][field], gpus[gpu][field])][field]

\* DCGM answered with at least one device.
DevicesSeen(body) == body # Failed /\ DOMAIN dcgmParse(body.lines) # {}

\* applyGPU: device metrics replace the runtime's, measured or not.
applyGPU(s, body) ==
    IF ~DevicesSeen(body) THEN s
    ELSE LET gpus == dcgmParse(body.lines)
         IN  [s EXCEPT !["GPUUtilizationPct"] = overDevices(gpus, "util"),
                       !["GPUMemoryUsedPct"] = overDevices(gpus, "memory")]

\* applyWorkloadContext, with one of the ceilings the lookup may return.
applyWorkloadContext(s, max) ==
    IF ~here.watched \/ ~Discovered THEN s
    ELSE [s EXCEPT !["Replicas"] = Point(desired(deployments[dcache])),
                   !["ReadyReplicas"] = Point(deployments[dcache].ready),
                   !["MaxReplicas"] = IF max > 0 THEN Point(max) ELSE Absent]

\* Slip: a condition that is over is not forgotten.
ReportKept(found, over) ==
    /\ warned' = warned \cup found
    /\ lines' = [k \in Conditions |->
                   [warnings   |-> lines[k].warnings + (IF k \in found \ warned THEN 1 ELSE 0),
                    recoveries |-> lines[k].recoveries + (IF k \in over \cap warned THEN 1 ELSE 0)]]

\* warnOnce for the conditions found, clearWarn for those that are over.
Report(found, over) ==
    /\ warned' = (warned \cup found) \ over
    /\ lines' = [k \in Conditions |->
                   [warnings   |-> lines[k].warnings + (IF k \in found \ warned THEN 1 ELSE 0),
                    recoveries |-> lines[k].recoveries + (IF k \in over \cap warned THEN 1 ELSE 0)]]

\* History: which conditions were looked at, and held or not.
Looked(found, over) ==
    outcomes' = [k \in Conditions |->
                   IF k \in found \cup over THEN Append(outcomes[k], k \in found)
                                           ELSE outcomes[k]]

Attempts == stats.scrapes + stats.errors

RecordScrape(absent) == stats' = [stats EXCEPT !.scrapes = @ + 1, !.missingMetrics = absent]
RecordScrapeError == stats' = [stats EXCEPT !.errors = @ + 1]

\* The fetch fails, is cut off or too long, or its body cannot be read: no snapshot.
ScrapeFails ==
    /\ Report({"scrape"}, {})
    /\ Looked({"scrape"}, {})
    /\ RecordScrapeError
    /\ UNCHANGED <<target, snap, counters, missing, exposed, devices>>
    /\ UNCHANGED watcherVars

\* Unparseable lines are warned about, and never found to be over.
ScrapeSucceeds(body, gpuBody, max) ==
    /\ LET reading == Parse(here, body)
           blind   == here.dcgm /\ ~DevicesSeen(gpuBody)
           found   == (IF body.skipped > 0 THEN {"parse"} ELSE {})
                      \cup (IF blind THEN {"dcgm"} ELSE {})
           over    == {"scrape"} \cup (IF here.dcgm /\ ~blind THEN {"dcgm"} ELSE {})
       IN  /\ snap' = applyWorkloadContext(applyGPU(reading.snap, gpuBody), max)
           /\ counters' = reading.counters
           /\ missing' = reading.missing
           /\ Report(found, over)
           /\ Looked(found, over)
           /\ RecordScrape(Cardinality(reading.missing))
    /\ exposed' = body
    /\ devices' = gpuBody
    /\ UNCHANGED target
    /\ UNCHANGED watcherVars

Init ==
    /\ target \in DOMAIN Targets
    /\ snap = Unmeasured /\ counters = <<>> /\ missing = {}
    /\ warned = {}
    /\ stats = [scrapes |-> 0, errors |-> 0, missingMetrics |-> 0]
    /\ lines = [k \in Conditions |-> [warnings |-> 0, recoveries |-> 0]]
    /\ outcomes = [k \in Conditions |-> <<>>]
    /\ exposed = Failed /\ devices = Failed
    /\ IF here.watched THEN WatcherInit
       ELSE deployments = <<Gone>> /\ autoscalers = <<{}>> /\ dcache = 1 /\ hcache = 1

scrapeOne ==
    /\ Attempts < here.maxScrapes
    /\ \/ ScrapeFails
       \/ \E body \in here.bodies, gpuBody \in here.dcgmBodies, max \in maxReplicasFor :
              ScrapeSucceeds(body, gpuBody, max)

Next ==
    \/ scrapeOne
    \/ here.watched /\ WatcherNext /\ UNCHANGED scrapeVars

Spec == Init /\ [][Next]_vars

-----------------------------------------------------------------------------
(* Properties *)

\* The observations behind the last snapshot's histogram, and those of at most v.
Histogram == here.runtime = "vllm" /\ "observed" \in DOMAIN exposed
Observations == UNION {{e} \X DOMAIN exposed.observed[e] : e \in DOMAIN exposed.observed}
Latency(o) == exposed.observed[o[1]][o[2]]
UpTo(v) == {o \in Observations : Latency(o) <= v}
\* A percentile by its definition: the least latency that p percent do not exceed.
TrueQuantile(p) ==
    Min({v \in {Latency(o) : o \in Observations} :
            100 * Cardinality(UpTo(v)) >= p * Cardinality(UpTo(Inf))})

Selector == modelSelector("model_name", here.model)
Edges == DOMAIN buckets(exposed.lines, "E2ELatency", Selector)
BucketLines == {i \in Numbers(exposed.lines, "E2ELatency", Selector) :
                   "le" \in DOMAIN exposed.lines[i].labels}
SameBucket(i, j) == exposed.lines[i].labels["le"] = exposed.lines[j].labels["le"]

\* The histogram is whole, not torn: every engine has one line in each bucket, which
\* counts its observations; the open bucket is among them.
Whole ==
    /\ Inf \in Edges
    /\ \A i \in BucketLines :
           LET labels == exposed.lines[i].labels
           IN  /\ "engine" \in DOMAIN labels /\ labels["engine"] \in DOMAIN exposed.observed
               /\ exposed.lines[i].value
                    = Cardinality({o \in UpTo(labels["le"]) : o[1] = labels["engine"]})
    /\ \A i \in BucketLines, e \in DOMAIN exposed.observed :
           \E j \in BucketLines : SameBucket(i, j) /\ exposed.lines[j].labels["engine"] = e
    /\ \A i, j \in BucketLines :
           SameBucket(i, j) /\ exposed.lines[i].labels["engine"] = exposed.lines[j].labels["engine"]
               => i = j

Percentile == [P50LatencyMs |-> 50, P95LatencyMs |-> 95, P99LatencyMs |-> 99]

\* A percentile shown lies in the bucket of the true one, or is the largest finite
\* boundary below it (Quantile: "only as precise as the bucket boundaries"; quantileMs).
EstimateInBucket ==
    Histogram /\ Whole =>
        \A field \in DOMAIN Percentile : Given(snap[field]) =>
            LET v     == TrueQuantile(Percentile[field])
                upper == Min({le \in Edges : v <= le})
                below == {0} \cup {le \in Edges : le < upper}
            IN  IF upper = Inf THEN AtMost(snap[field], Point(1000 * Max(below)))
                                    /\ AtMost(Point(1000 * Max(below)), snap[field])
                ELSE /\ AtMost(Point(1000 * Max(below)), snap[field])
                     /\ AtMost(snap[field], Point(1000 * upper))

\* Torn or not, and whatever series share its buckets, a scrape never puts a lower
\* percentile above a higher one, nor any of them outside the finite buckets (Quantile's
\* interpolation over clamped counts).
PercentilesOrdered ==
    exposed # Failed /\ here.runtime = "vllm" =>
        /\ \A field \in DOMAIN Percentile : Given(snap[field]) =>
              /\ AtMost(Point(0), snap[field])
              /\ \E le \in Edges \ {Inf} : AtMost(snap[field], Point(1000 * le))
        /\ \A f, g \in DOMAIN Percentile : Percentile[f] <= Percentile[g] /\ Given(snap[f]) =>
               Given(snap[g]) /\ AtMost(snap[f], snap[g])

\* The missing-metric report is true: a metric with a field or counter of its own is
\* reported missing exactly when that is unmeasured, so a dormant rule is always
\* explained and a working server never accused (missingFrom and `seen' in both
\* adapters).  Device metrics from DCGM may stand in for the runtime's.
Feeds == IF here.runtime = "vllm"
         THEN [NumRequestsRunning |-> "RequestsRunning", NumRequestsWaiting |-> "RequestsWaiting",
               KVCacheUsage |-> "KVCacheUsagePct", TimeToFirstToken |-> "TTFTP95Ms",
               E2ELatency |-> "P95LatencyMs"]
         ELSE IF DevicesSeen(devices) THEN [PendingCount |-> "RequestsWaiting"]
         ELSE [PendingCount |-> "RequestsWaiting", GPUUtilization |-> "GPUUtilizationPct"]
CountedAs == IF here.runtime = "vllm"
             THEN [GenerationTokensTotal |-> "GenerationTokensTotal",
                   PromptTokensTotal |-> "PromptTokensTotal", RequestSuccessTotal |-> "finished"]
             ELSE [RequestSuccess |-> "finished", RequestFailure |-> "failed"]
MissingIsTrue ==
    exposed # Failed =>
        /\ \A name \in DOMAIN Feeds : name \in missing <=> ~Given(snap[Feeds[name]])
        /\ \A name \in DOMAIN CountedAs : name \in missing <=> ~Given(counters[CountedAs[name]])

\* On a server with several models nothing but the devices is read from series of a
\* model other than the configured one: all is as if they carried no number.  So no more
\* requests are counted as aborted than as finished (the selectors of Parse, cloneWith).
modelLabel == IF here.runtime = "vllm" THEN "model_name" ELSE "model"
FromOtherModel(s) == modelLabel \in DOMAIN s.labels /\ s.labels[modelLabel] # here.model
OwnLines == [i \in DOMAIN exposed.lines |->
                IF FromOtherModel(exposed.lines[i]) THEN [exposed.lines[i] EXCEPT !.value = NaN]
                ELSE exposed.lines[i]]
Overlaid == {"GPUUtilizationPct", "GPUMemoryUsedPct", "Replicas", "ReadyReplicas", "MaxReplicas"}
OwnModelOnly ==
    exposed # Failed =>
        /\ here.model # "" =>
               LET own == Parse(here, [lines |-> OwnLines])
               IN  /\ \A field \in Fields \ Overlaid : snap[field] = own.snap[field]
                   /\ counters = own.counters
                   /\ missing \ deviceMetrics = own.missing \ deviceMetrics
        /\ Given(counters["aborted"]) =>
               Given(counters["finished"]) /\ AtMost(counters["aborted"], counters["finished"])

\* What is shown of the GPUs is the most loaded device: no device is above it, and it is
\* some device's own; without DCGM nothing is shown for vLLM (applyGPU, gpuMax).  Of
\* memory this is said where a device's two figures belong together: from DCGM with one
\* of each for a device, from Triton with devices of one size that is stated with the use.
Reads(payload, name) ==
    {i \in DOMAIN payload : payload[i].name = name /\ payload[i].value # NaN}
ReadsOfDevice(payload, name) ==
    {i \in Reads(payload, name) : "gpu" \in DOMAIN payload[i].labels}
SameDevice(payload, i, j) == payload[i].labels["gpu"] = payload[j].labels["gpu"]

OnePerDevice(payload) ==
    \A name \in {"FBUsed", "FBFree"} : \A i, j \in ReadsOfDevice(payload, name) :
        SameDevice(payload, i, j) => i = j
EqualMemory(payload) ==
    /\ \A i, j \in Reads(payload, "GPUMemoryTotal") :
           payload[i].value = payload[j].value /\ payload[i].value > 0
    /\ \A i \in Reads(payload, "GPUMemoryUsed") :
           \E j \in Reads(payload, "GPUMemoryTotal") : payload[i].labels = payload[j].labels

DcgmMemory(payload) ==
    {Fraction(payload[ij[1]].value * 100, payload[ij[1]].value + payload[ij[2]].value) :
        ij \in {ij \in ReadsOfDevice(payload, "FBUsed") \X ReadsOfDevice(payload, "FBFree") :
                   /\ SameDevice(payload, ij[1], ij[2])
                   /\ payload[ij[1]].value + payload[ij[2]].value > 0}}
TritonMemory(payload) ==
    {Fraction(payload[ij[1]].value * 100, payload[ij[2]].value) :
        ij \in {ij \in Reads(payload, "GPUMemoryUsed") \X Reads(payload, "GPUMemoryTotal") :
                   payload[ij[1]].labels = payload[ij[2]].labels}}

MostLoaded(shown, readings) ==
    IF readings = {} THEN shown = Absent
    ELSE /\ Given(shown)
         /\ \A r \in readings : AtMost(r, shown)
         /\ \E r \in readings : AtMost(shown, r)
SaturatedDeviceShows ==
    exposed # Failed =>
        LET dcgm    == devices.lines
            payload == exposed.lines
        IN  IF DevicesSeen(devices)
            THEN /\ MostLoaded(snap["GPUUtilizationPct"],
                               {Point(dcgm[i].value) : i \in ReadsOfDevice(dcgm, "GPUUtil")})
                 /\ OnePerDevice(dcgm) => MostLoaded(snap["GPUMemoryUsedPct"], DcgmMemory(dcgm))
            ELSE IF here.runtime = "vllm"
            THEN snap["GPUUtilizationPct"] = Absent /\ snap["GPUMemoryUsedPct"] = Absent
            ELSE /\ MostLoaded(snap["GPUUtilizationPct"],
                               {Fraction(payload[i].value * 100, 1000) :
                                   i \in Reads(payload, "GPUUtilization")})
                 /\ EqualMemory(payload) =>
                        MostLoaded(snap["GPUMemoryUsedPct"], TritonMemory(payload))

\* An outage of the runtime's or of DCGM's endpoint is warned about once, when it
\* begins, and its recovery reported once, so the next one is warned about again;
\* a failed scrape in between, which does not get as far as asking DCGM, changes
\* nothing (warnOnce, clearWarn).
WarnedOncePerOutage ==
    \A k \in {"scrape", "dcgm"} :
        LET o == outcomes[k]
        IN  lines[k] =
              [warnings   |-> Cardinality({i \in DOMAIN o : o[i] /\ (i = 1 \/ ~o[i - 1])}),
               recoveries |-> Cardinality({i \in DOMAIN o : i > 1 /\ ~o[i] /\ o[i - 1]})]

\* Replica counts shown are of one version of this Deployment, and a ceiling is that of
\* an autoscaler that was this Deployment's, however the two caches lag; nothing is
\* shown of a Deployment that never existed (workloadFor, maxReplicasFor).
ContextWasReal ==
    /\ Given(snap["Replicas"]) =>
           \E i \in DOMAIN deployments :
               /\ deployments[i] # Gone
               /\ snap["Replicas"] = Point(desired(deployments[i]))
               /\ snap["ReadyReplicas"] = Point(deployments[i].ready)
    /\ Given(snap["MaxReplicas"]) =>
           /\ Given(snap["Replicas"])
           /\ \E i \in DOMAIN autoscalers : \E h \in autoscalers[i] :
                  h.kind = "Deployment" /\ h.name = Name /\ snap["MaxReplicas"] = Point(h.max)
=============================================================================
