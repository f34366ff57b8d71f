------------------------------ MODULE MCScrape ------------------------------
(* Model-checking instance of Scrape: payloads as parts of a pool of lines, and *)
(* histograms, whole or torn, of the latencies two engines observed.            *)
EXTENDS Scrape

Line(name, labels, v) == [name |-> name, labels |-> labels, value |-> v]
Body(payload, skipped) == [lines |-> payload, skipped |-> skipped]

\* Every payload made of some lines of the pool, in their order.
SomeOf(pool, skipped) ==
    {Body(SelectSeq(pool, LAMBDA s : s \in chosen), skipped) :
        chosen \in SUBSET {pool[i] : i \in DOMAIN pool}}

-----------------------------------------------------------------------------
(* vLLM, serving two models *)

Of(model) == "model_name" :> model
VllmPool ==
    <<Line("NumRequestsWaiting", Of("own"), 3), Line("NumRequestsWaiting", Of("other"), 5),
      Line("NumRequestsWaitingByReason", Of("own") @@ "reason" :> "deferred", 2),
      Line("NumRequestsWaitingByReason", Of("other") @@ "reason" :> "deferred", 4),
      Line("KVCacheUsage", Of("own") @@ "engine" :> "0", 400),
      Line("KVCacheUsage", Of("own") @@ "engine" :> "1", NaN),
      Line("GPUCacheUsageLegacy", Of("own"), 700),
      Line("RequestSuccessTotal", Of("own") @@ "finished_reason" :> "stop", 4),
      Line("RequestSuccessTotal", Of("own") @@ "finished_reason" :> "abort", 1),
      Line("RequestSuccessTotal", Of("other") @@ "finished_reason" :> "abort", 9)>>

VllmBodies == SomeOf(VllmPool, 0)

\* Latencies of two engines.  A torn scrape lacks, in some buckets, the latest one.
Engines == {"0", "1"}
Bounds == {2, 4, Inf}
Observed ==
    {o \in [Engines -> UNION {[1 .. n -> {1, 3, 5}] : n \in 0 .. 3}] :
        Len(o["0"]) + Len(o["1"]) <= 4}
CountAfter(o, n, le) == Cardinality({i \in 1 .. n : o[i] <= le})
Buckets(o, lacks) ==
    LET line(e, le) == Line("E2ELatency", "engine" :> e @@ "le" :> le,
                            CountAfter(o[e], Len(o[e]) - lacks[e][le], le))
    IN  <<line("0", 2), line("0", 4), line("0", Inf), line("1", 2), line("1", 4), line("1", Inf)>>
Histograms ==
    {[lines |-> Buckets(p[1], p[2]), skipped |-> 0, observed |-> p[1]] :
        p \in {p \in Observed \X [Engines -> [Bounds -> {0, 1}]] :
                 \A e \in Engines, le \in Bounds : p[2][e][le] <= Len(p[1][e])}}

-----------------------------------------------------------------------------
(* Triton with two devices, and DCGM Exporter beside it *)

OnDevice(uuid) == "gpu_uuid" :> uuid
TritonPool ==
    <<Line("PendingCount", "model" :> "own", 3), Line("RequestFailure", "model" :> "other", 2),
      Line("RequestSummaryUs", "model" :> "own" @@ "quantile" :> 95, 1500),
      Line("RequestSummaryUs", "model" :> "other" @@ "quantile" :> 95, 9000),
      Line("GPUUtilization", OnDevice("a"), 900), Line("GPUUtilization", OnDevice("b"), 300),
      Line("GPUMemoryUsed", OnDevice("a"), 30), Line("GPUMemoryUsed", OnDevice("b"), 60),
      Line("GPUMemoryTotal", OnDevice("a"), 80), Line("GPUMemoryTotal", OnDevice("b"), 80)>>

TritonBodies == SomeOf(TritonPool, 0)

Gpu(n) == "gpu" :> n
DcgmPool ==
    <<Line("GPUUtil", Gpu(0), 20), Line("GPUUtil", Gpu(1), 95),
      Line("FBUsed", Gpu(0), 50), Line("FBFree", Gpu(0), 10),
      Line("FBUsed", Gpu(1), 60), Line("FBFree", Gpu(1), 60), Line("GPUTemp", Gpu(2), 40)>>
DcgmBodies == SomeOf(DcgmPool, 0) \cup {Failed}

-----------------------------------------------------------------------------
(* Kubernetes *)

Versions == {Gone, [spec |-> 2, status |-> 1, ready |-> 1], [spec |-> 3, status |-> 3, ready |-> 2],
             [spec |-> Unset, status |-> 1, ready |-> 0]}
Own  == [kind |-> "Deployment", name |-> Name, max |-> 3, selected |-> TRUE]
Twin == [kind |-> "StatefulSet", name |-> Name, max |-> 9, selected |-> TRUE]
Autoscalers == {{}, {Twin}, {Own, Twin}, {[Own EXCEPT !.max = 2], [Own EXCEPT !.selected = FALSE]}}

-----------------------------------------------------------------------------
Simple == {Body(<<Line("NumRequestsWaiting", Of("own"), 3)>>, 0)}

Target(runtime, model, bodies, n) ==
    [runtime |-> runtime, model |-> model, bodies |-> bodies, dcgm |-> FALSE,
     dcgmBodies |-> {Failed}, watched |-> FALSE, maxScrapes |-> n]

EachKind ==
    "two models" :> Target("vllm", "own", VllmBodies, 1)
    @@ "any model" :> Target("vllm", "", VllmBodies, 1)
    @@ "histogram" :> Target("vllm", "", Histograms, 1)
    @@ "triton" :> Target("triton", "own", TritonBodies, 1)
    @@ "devices" :> [Target("triton", "own", {Body(TritonPool, 0)}, 1)
                        EXCEPT !.dcgm = TRUE, !.dcgmBodies = DcgmBodies]
    @@ "outages" :> [Target("vllm", "own", Simple \cup {Body(<<>>, 2)}, 5)
                        EXCEPT !.dcgm = TRUE,
                               !.dcgmBodies = {Failed, Body(<<>>, 0), Body(DcgmPool, 0)}]
    @@ "watched" :> [Target("vllm", "own", Simple, 2) EXCEPT !.watched = TRUE]
=============================================================================
