--------------------------- MODULE MCApiAnalysis ---------------------------
(* Model-checking instances of ApiAnalysis, with MCDiagnosis's samples. *)
EXTENDS ApiAnalysis, MCDiagnosis

\* The queue's two diagnoses, which differ by the GPU alone, and slow answers and
\* errors without a queue.
Queued == {Vllm("RequestsWaiting" :> 9 @@ "GPUUtilizationPct" :> u) : u \in {34, 86}}
Failing == Vllm("RequestsWaiting" :> 8 @@ "P95LatencyMs" :> 10001 @@ "ErrorRatePct" :> 3)
Slowed == {Vllm("P95LatencyMs" :> p) : p \in {10000, 10001}}

\* Irregular cycles and failures: with every sample, and long enough to fill the store;
\* and a clock that is set back by more than a cycle.
Irregular ==
    LET varied == [samples |-> Queued \cup {Failing}, gaps |-> {1, 3}, failureGaps |-> {3},
                   setbacks |-> {}, maxCycles |-> 3, maxFailures |-> 2, maxSetbacks |-> 0]
    IN  "varied" :> varied
        @@ "filling" :> [varied EXCEPT !.samples = Queued, !.maxCycles = 4, !.maxFailures = 1]
        @@ "setback" :> [varied EXCEPT !.samples = Slowed, !.maxFailures = 0,
                                       !.setbacks = {4}, !.maxSetbacks = 1]

\* A client that asks for warnings only: every queue diagnosis and the slow answers.
Asked == {[severity |-> 1, code |-> AnyCode]}
=============================================================================
