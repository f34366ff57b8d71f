---------------------------- MODULE ApiAnalysis ----------------------------
(***************************************************************************)
(* GET /api/v1/recommendations beside the collector: the handler           *)
(* (filteredRecommendations in internal/api) calls Analyze with the result *)
(* of Store.Latest, and Analyze asks Store.History for each workload in    *)
(* turn; then it records the analysis in the registry and answers.  Store  *)
(* and registry are locked for each call and not between them, so the      *)
(* collector's goroutines may add to the store, or prune it, and another   *)
(* request may be served, between any two of them.                         *)
(* A request that is refused (wrong method, no token, an unknown severity) *)
(* reads and changes nothing, and is left out.                             *)
(***************************************************************************)
EXTENDS Diagnosis

CONSTANTS
    Requests,  \* the requests served at the same time, each with a goroutine
    Filters    \* what clients ask for: [severity (its rank), code]

\* A parameter that is not given.
AnySeverity == -1
AnyCode == ""

ASSUME FiltersAssumption ==
    \A f \in Filters : f.severity \in AnySeverity .. 2 /\ f.code \in {AnyCode} \cup Codes

VARIABLES
    request,    \* what each handler is at: see Handling
    activeRecs, \* the registry's gauge of recommendations
    \* history
    answer,     \* the findings of the last answer
    evaluated   \* the context it was computed from, or <<>>

apiVars == <<request, activeRecs, answer, evaluated>>
allVars == <<env, now, pc, series, findings, announced, cycles, failures, setbacks,
             behind, log, explained, request, activeRecs, answer, evaluated>>

\* A handler's state:
\*   at       "idle", "latest" once Latest has returned, "asking" once Analyze has read
\*            the clock, "analyzed" once it has returned
\*   filter   the request's filter
\*   latest   what Latest returned for the workload, as a sequence
\*   asked    Analyze's `now'
\*   context  what was evaluated, as a sequence
Idle == [at |-> "idle", filter |-> [severity |-> AnySeverity, code |-> AnyCode],
         latest |-> <<>>, asked |-> 0, context |-> <<>>]

matchesRecommendation(f, c) ==
    /\ f.severity \in {AnySeverity, Rank(c)}
    /\ f.code \in {AnyCode, c}

\* What Analyze returns: with no snapshot there is no workload to say anything about.
recs(context) == UNION {analyzeWorkload(context[i]) : i \in DOMAIN context}

\* parseFilter, then Store.Latest, Analyze's argument.
ReadLatest(r, f) ==
    /\ request[r].at = "idle"
    /\ request' = [request EXCEPT ![r].at = "latest", ![r].filter = f,
                      ![r].latest = IF series = <<>> THEN <<>> ELSE <<series[Len(series)]>>]
    /\ UNCHANGED vars /\ UNCHANGED <<activeRecs, answer, evaluated>>

ReadClock(r) ==
    /\ request[r].at = "latest"
    /\ request' = [request EXCEPT ![r].at = "asking", ![r].asked = now]
    /\ UNCHANGED vars /\ UNCHANGED <<activeRecs, answer, evaluated>>

\* Store.History and analyzeWorkload: with no history the latest snapshot stands alone.
ReadHistory(r) ==
    /\ request[r].at = "asking"
    /\ LET latest  == request[r].latest
           context == IF latest = <<>> THEN <<>>
                      ELSE <<Context(latest[1], series, request[r].asked)>>
       IN  request' = [request EXCEPT ![r].at = "analyzed", ![r].context = context]
    /\ UNCHANGED vars /\ UNCHANGED <<activeRecs, answer, evaluated>>

\* RecordAnalysis, with the whole analysis (its totals by severity only grow), then the
\* filter, and the answer.  Another request may have analysed later and recorded before.
RecordAnalysis(r) ==
    /\ request[r].at = "analyzed"
    /\ LET found == recs(request[r].context)
       IN  /\ activeRecs' = Cardinality(found)
           /\ answer' = {c \in found : matchesRecommendation(request[r].filter, c)}
    /\ evaluated' = request[r].context
    /\ request' = [request EXCEPT ![r] = Idle]
    /\ UNCHANGED vars

ApiInit ==
    /\ Init
    /\ request = [r \in Requests |-> Idle]
    /\ activeRecs = 0
    /\ answer = {} /\ evaluated = <<>>

ApiNext ==
    \/ Next /\ UNCHANGED apiVars
    \/ \E r \in Requests :
          \/ \E f \in Filters : ReadLatest(r, f)
          \/ ReadClock(r)
          \/ ReadHistory(r)
          \/ RecordAnalysis(r)

ApiSpec == ApiInit /\ [][ApiNext]_allVars

-----------------------------------------------------------------------------
(* Properties *)

\* Whatever the collector does in between, an answer never gives two diagnoses
\* with opposite fixes.
AnswerNotContradictory == \A pair \in Opposites : ~(pair \subseteq answer)

\* ... and when no more than one scrape came in between, the snapshot a finding
\* quotes satisfies its thresholds, though the window was read later: the window
\* a sustained rule looks at always reaches back past the newest sample.
Newer(e) == {i \in DOMAIN e.window : e.window[i].at > e.latest.at}
AnswerEvidenceIsTrue ==
    \A i \in DOMAIN evaluated :
        Cardinality(Newer(evaluated[i])) <= 1 =>
            \A c \in answer : EvidenceHolds(c, evaluated[i].latest)

=============================================================================
