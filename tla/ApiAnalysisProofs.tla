------------------------- MODULE ApiAnalysisProofs -------------------------
(***************************************************************************)
(* Proofs about ApiAnalysis: the handler of GET /api/v1/recommendations    *)
(* beside the collector, for every interleaving of their calls on the      *)
(* store.                                                                  *)
(***************************************************************************)
EXTENDS ApiAnalysis, DiagnosisProofs

-----------------------------------------------------------------------------
(* The collector beside the handler *)

\* The handlers' steps are stuttering steps of Diagnosis.
LEMMA RequestsChangeNothing == ApiSpec => Spec
<1>1. ApiInit => Init
  BY DEF ApiInit
<1>2. [ApiNext]_allVars => [Next]_vars
  <2>1. SUFFICES ASSUME [ApiNext]_allVars PROVE [Next]_vars
    OBVIOUS
  <2>2. CASE Next /\ UNCHANGED apiVars
    BY <2>2
  <2>3. ASSUME NEW r \in Requests, NEW f \in Filters, ReadLatest(r, f) PROVE UNCHANGED vars
    BY <2>3 DEF ReadLatest
  <2>4. ASSUME NEW r \in Requests, ReadClock(r) \/ ReadHistory(r) \/ RecordAnalysis(r)
        PROVE  UNCHANGED vars
    BY <2>4 DEF ReadClock, ReadHistory, RecordAnalysis
  <2>5. CASE UNCHANGED allVars
    BY <2>5 DEF allVars, vars
  <2> QED
    BY <2>1, <2>2, <2>3, <2>4, <2>5 DEF ApiNext
<1> QED
  BY <1>1, <1>2, PTL DEF ApiSpec, Spec

LEMMA CollectorInv == ApiSpec => []Inv
BY RequestsChangeNothing, InvHolds, PTL

-----------------------------------------------------------------------------
(* What an answer is computed from *)

\* A window read after the latest snapshot: it holds that snapshot and what came later,
\* or only what came later.
ReadAfter(e) ==
    /\ Recorded(e.window) /\ e.window # <<>> /\ e.latest \in Snap
    /\ \E j \in 0 .. Len(e.window) :
          /\ j > 0 => e.latest = e.window[j]
          /\ \A i \in j + 1 .. Len(e.window) : e.latest.at < e.window[i].at

\* What a handler holds: its latest snapshot was recorded, and what it analyzed is such a
\* window.
Contexts == [latest : Snap, window : Seq(Snap), now : Int]
Handler == [at : {"idle", "latest", "asking", "analyzed"}, filter : Filters \cup {Idle.filter},
            latest : Seq(Snap), asked : Int, context : Seq(Contexts)]
Handling(q) ==
    /\ q.latest # <<>> => /\ q.latest = <<q.latest[1]>>
                          /\ \E p \in 1 .. Len(log) : q.latest[1] = log[p]
    /\ q.context # <<>> => q.context = <<q.context[1]>> /\ ReadAfter(q.context[1])

\* An answer comes from such a window.
Answered ==
    /\ evaluated # <<>> => evaluated = <<evaluated[1]>> /\ ReadAfter(evaluated[1])
    /\ answer \subseteq recs(evaluated)

ApiInv ==
    /\ request \in [Requests -> Handler]
    /\ \A r \in Requests : Handling(request[r])
    /\ Answered

\* What is on record stays there.
LEMMA RecordGrows ==
    ASSUME Inv, [Next]_vars
    PROVE  /\ Len(log) \in Nat /\ Len(log') \in Nat /\ Len(log) <= Len(log')
           /\ \A i \in 1 .. Len(log) : log'[i] = log[i]
<1>1. Len(log) \in Nat /\ log \in Seq(Snap)
  BY LenProperties DEF Inv, LogOK, Recorded
<1>2. ASSUME NEW sample \in here.samples, NEW gap \in here.gaps, ScrapeSucceeds(sample, gap)
      PROVE  Len(log') = Len(log) + 1 /\ \A i \in 1 .. Len(log) : log'[i] = log[i]
  <2> DEFINE snap == [ts |-> now', at |-> now' + behind, m |-> sample.m,
                      missing |-> sample.missing, runtime |-> sample.runtime]
  <2>1. log' = Append(log, snap)
    BY <1>2 DEF ScrapeSucceeds
  <2>2. env \in DOMAIN Environments
    BY DEF Inv, TypesOK
  <2>3. /\ sample \in Sample /\ now' \in Int /\ now' + behind \in Nat
    <3>1. sample \in Sample /\ gap \in Nat
      BY <2>2, EnvironmentValid
    <3>2. now \in Int /\ behind \in Nat /\ now + behind \in Nat /\ now' = now + gap
      BY <1>2 DEF Inv, TypesOK, ScrapeSucceeds
    <3> QED
      BY <3>1, <3>2
  <2>4. snap \in Snap
    BY <2>3, SnapOfSample, Zenon
  <2> HIDE DEF snap
  <2> QED
    BY <1>1, <2>1, <2>4, AppendProperties
<1>3. CASE log' = log
  BY <1>1, <1>3
<1>4. log' = log \/ \E sample \in here.samples, gap \in here.gaps : ScrapeSucceeds(sample, gap)
  BY DEF Next, ScrapeFails, OnCycle, Prune, SetBack, vars
<1> QED
  BY <1>1, <1>2, <1>3, <1>4

\* Whatever was recorded or trimmed in between, the history is read after the snapshot.
LEMMA HistoryReadAfter ==
    ASSUME NEW l, NEW s, Recorded(l), EndsWith(l, s), s # <<>>, NEW p \in 1 .. Len(l),
           NEW e, e.window = s, e.latest = l[p]
    PROVE  ReadAfter(e)
<1>1. /\ Len(l) \in Nat /\ Len(s) \in Nat /\ Len(s) <= Len(l)
      /\ \A i \in 1 .. Len(s) : s[i] = l[Len(l) - Len(s) + i]
  BY LenProperties DEF Recorded, EndsWith
<1>2. Recorded(s) /\ l[p] \in Snap
  BY EndIsRecorded, ElementOfSeq DEF Recorded
<1> DEFINE skipped == Len(l) - Len(s)
<1>3. CASE p > skipped
  <2> DEFINE j == p - skipped
  <2>1. j \in 0 .. Len(s) /\ j > 0
    BY <1>1, <1>3
  <2>2. s[j] = l[p]
    BY <1>1, <2>1
  <2>3. ASSUME NEW i \in j + 1 .. Len(s) PROVE l[p].at < s[i].at
    <3>1. i \in 1 .. Len(s) /\ skipped + i \in 1 .. Len(l) /\ p < skipped + i
      BY <1>1, <1>3
    <3>2. s[i] = l[skipped + i]
      BY <1>1, <3>1
    <3> HIDE DEF skipped
    <3> QED
      BY <3>1, <3>2 DEF Recorded
  <2> HIDE DEF j
  <2> QED
    BY <1>2, <2>1, <2>2, <2>3 DEF ReadAfter
<1>4. CASE p <= skipped
  <2>1. ASSUME NEW i \in 1 .. Len(s) PROVE l[p].at < s[i].at
    <3>1. skipped + i \in 1 .. Len(l) /\ p < skipped + i
      BY <1>1, <1>4
    <3>2. s[i] = l[skipped + i]
      BY <1>1
    <3> HIDE DEF skipped
    <3> QED
      BY <3>1, <3>2 DEF Recorded
  <2>2. 0 \in 0 .. Len(s) /\ ~(0 > 0) /\ \A i \in 0 + 1 .. Len(s) : i \in 1 .. Len(s)
    BY <1>1
  <2> QED
    BY <1>2, <2>1, <2>2 DEF ReadAfter
<1>5. p > skipped \/ p <= skipped
  BY <1>1
<1> QED
  BY <1>3, <1>4, <1>5

\* ... and without a history the snapshot stands alone.
LEMMA AloneReadAfter ==
    ASSUME NEW snap \in Snap, NEW e, e.window = <<snap>>, e.latest = snap
    PROVE  ReadAfter(e)
<1>1. Len(<<snap>>) = 1 /\ <<snap>>[1] = snap /\ <<snap>> # <<>> /\ <<snap>> \in Seq(Snap)
  OBVIOUS
<1>2. Recorded(<<snap>>)
  BY <1>1 DEF Recorded
<1>3. 1 \in 0 .. 1 /\ 1 + 1 .. 1 = {}
  OBVIOUS
<1> QED
  BY <1>1, <1>2, <1>3 DEF ReadAfter

\* The findings of an analysis of one workload.
LEMMA FindingsOfOne ==
    /\ recs(<<>>) = {}
    /\ \A e : recs(<<e>>) = analyzeWorkload(e)
<1>1. ASSUME NEW e PROVE DOMAIN <<e>> = {1} /\ <<e>>[1] = e
  OBVIOUS
<1>2. DOMAIN <<>> = {}
  OBVIOUS
<1> QED
  BY <1>1, <1>2 DEF recs

\* An idle handler holds nothing.
LEMMA IdleHandles == Idle \in Handler /\ Handling(Idle)
<1> DEFINE f == Idle.filter
<1>1. /\ Idle = [at |-> "idle", filter |-> f, latest |-> <<>>, asked |-> 0, context |-> <<>>]
      /\ Idle.latest = <<>> /\ Idle.context = <<>>
  BY DEF Idle
<1>2. Handling(Idle)
  BY <1>1 DEF Handling
<1>3. Handler = [at : {"idle", "latest", "asking", "analyzed"}, filter : Filters \cup {f},
                 latest : Seq(Snap), asked : Int, context : Seq(Contexts)]
  BY DEF Handler
<1> HIDE DEF f
<1>4. /\ f \in Filters \cup {f} /\ 0 \in Int /\ "idle" \in {"idle", "latest", "asking", "analyzed"}
      /\ <<>> \in Seq(Snap) /\ <<>> \in Seq(Contexts)
  OBVIOUS
<1>5. Idle \in Handler
  BY <1>1, <1>3, <1>4
<1> QED
  BY <1>2, <1>5

\* A step of one handler leaves the others as they are.
LEMMA OneHandles ==
    ASSUME ApiInv, NEW r \in Requests, NEW q \in Handler, log' = log,
           request' = [request EXCEPT ![r] = q], Handling(q)
    PROVE  request' \in [Requests -> Handler] /\ \A x \in Requests : Handling(request[x])'
<1>1. \A x \in Requests : request'[x] = IF x = r THEN q ELSE request[x]
  BY DEF ApiInv
<1>2. request' \in [Requests -> Handler]
  BY DEF ApiInv
<1>3. ASSUME NEW x \in Requests PROVE Handling(request[x])'
  <2>1. Handling(request'[x])
    BY <1>1 DEF ApiInv
  <2> QED
    BY <2>1 DEF Handling
<1> QED
  BY <1>2, <1>3

LEMMA ReadLatestInv ==
    ASSUME Inv, ApiInv, NEW r \in Requests, NEW f \in Filters, ReadLatest(r, f)
    PROVE  ApiInv'
<1> DEFINE read == IF series = <<>> THEN <<>> ELSE <<series[Len(series)]>>
           q == [request[r] EXCEPT !.at = "latest", !.filter = f, !.latest = read]
<1>1. /\ request' = [request EXCEPT ![r] = q] /\ log' = log
      /\ evaluated' = evaluated /\ answer' = answer
  BY DEF ReadLatest, vars
<1>2. request[r] \in Handler /\ Handling(request[r])
  BY DEF ApiInv
<1>3. series # <<>> => \E p \in 1 .. Len(log) : series[Len(series)] = log[p]
                       /\ series[Len(series)] \in Snap
  <2> SUFFICES ASSUME series # <<>>
               PROVE  \E p \in 1 .. Len(log) : series[Len(series)] = log[p]
                      /\ series[Len(series)] \in Snap
    OBVIOUS
  <2>1. /\ Len(series) \in Nat /\ Len(series) > 0
        /\ Len(series) <= Len(log) /\ Len(log) \in Nat
    BY EmptySeq, LenProperties DEF Inv, LogOK, SeriesOK, Recorded, EndsWith
  <2>2. /\ Len(series) \in 1 .. Len(series) /\ Len(log) \in 1 .. Len(log)
        /\ Len(log) - Len(series) + Len(series) = Len(log)
    BY <2>1
  <2>3. series[Len(series)] = log[Len(log)] /\ log[Len(log)] \in Snap
    BY <2>2, ElementOfSeq DEF Inv, SeriesOK, EndsWith, LogOK, Recorded
  <2> QED
    BY <2>2, <2>3
<1>4. /\ read \in Seq(Snap)
      /\ read # <<>> => read = <<read[1]>> /\ \E p \in 1 .. Len(log) : read[1] = log[p]
  <2>1. CASE series = <<>>
    BY <2>1
  <2>2. CASE series # <<>>
    <3> DEFINE snap == series[Len(series)]
    <3>1. snap \in Snap /\ \E p \in 1 .. Len(log) : snap = log[p]
      BY <1>3, <2>2
    <3>2. read = <<snap>>
      BY <2>2
    <3> HIDE DEF snap, read
    <3> QED
      BY <3>1, <3>2
  <2> QED
    BY <2>1, <2>2
<1> HIDE DEF read
<1>5. q \in Handler /\ q.latest = read /\ q.context = request[r].context
  BY <1>2, <1>4 DEF Handler
<1> HIDE DEF q
<1>6. Handling(q)
  BY <1>2, <1>4, <1>5 DEF Handling
<1>7. Answered'
  BY <1>1 DEF ApiInv, Answered, recs
<1> QED
  BY <1>1, <1>5, <1>6, <1>7, OneHandles DEF ApiInv

LEMMA ReadClockInv ==
    ASSUME Inv, ApiInv, NEW r \in Requests, ReadClock(r)
    PROVE  ApiInv'
<1> DEFINE q == [request[r] EXCEPT !.at = "asking", !.asked = now]
<1>1. /\ request' = [request EXCEPT ![r] = q] /\ log' = log
      /\ evaluated' = evaluated /\ answer' = answer
  BY DEF ReadClock, vars
<1>2. request[r] \in Handler /\ Handling(request[r]) /\ now \in Int
  BY DEF ApiInv, Inv, TypesOK
<1>3. q \in Handler /\ q.latest = request[r].latest /\ q.context = request[r].context
  BY <1>2 DEF Handler
<1> HIDE DEF q
<1>4. Handling(q)
  BY <1>2, <1>3 DEF Handling
<1>5. Answered'
  BY <1>1 DEF ApiInv, Answered, recs
<1> QED
  BY <1>1, <1>3, <1>4, <1>5, OneHandles DEF ApiInv

LEMMA ReadHistoryInv ==
    ASSUME Inv, ApiInv, NEW r \in Requests, ReadHistory(r)
    PROVE  ApiInv'
<1> DEFINE latest == request[r].latest
           e == Context(latest[1], series, request[r].asked)
           context == IF latest = <<>> THEN <<>> ELSE <<e>>
           q == [request[r] EXCEPT !.at = "analyzed", !.context = context]
<1>1. /\ request' = [request EXCEPT ![r] = q] /\ log' = log
      /\ evaluated' = evaluated /\ answer' = answer
  BY DEF ReadHistory, vars
<1>2. request[r] \in Handler /\ Handling(request[r]) /\ request[r].asked \in Int
  BY DEF ApiInv, Handler
<1>3. ASSUME latest # <<>> PROVE e \in Contexts /\ ReadAfter(e)
  <2>1. PICK p \in 1 .. Len(log) : latest[1] = log[p]
    BY <1>2, <1>3 DEF Handling
  <2>2. Recorded(log) /\ EndsWith(log, series) /\ log[p] \in Snap /\ series \in Seq(Snap)
    BY ElementOfSeq DEF Inv, LogOK, SeriesOK, Recorded, EndsWith
  <2>3. e.latest = latest[1] /\ e.window = IF series = <<>> THEN <<latest[1]>> ELSE series
    BY DEF Context
  <2>4. e \in Contexts
    BY <1>2, <2>1, <2>2 DEF Context, Contexts
  <2> HIDE DEF e, latest
  <2>5. CASE series = <<>>
    BY <2>1, <2>2, <2>3, <2>4, <2>5, AloneReadAfter
  <2>6. CASE series # <<>>
    BY <2>1, <2>2, <2>3, <2>4, <2>6, HistoryReadAfter
  <2> QED
    BY <2>4, <2>5, <2>6
<1> HIDE DEF e
<1>4. /\ context \in Seq(Contexts)
      /\ context # <<>> => context = <<context[1]>> /\ ReadAfter(context[1])
  BY <1>3
<1> HIDE DEF context, latest
<1>5. q \in Handler /\ q.latest = request[r].latest /\ q.context = context
  BY <1>2, <1>4 DEF Handler
<1> HIDE DEF q
<1>6. Handling(q)
  BY <1>2, <1>4, <1>5 DEF Handling
<1>7. Answered'
  BY <1>1 DEF ApiInv, Answered, recs
<1> QED
  BY <1>1, <1>5, <1>6, <1>7, OneHandles DEF ApiInv

LEMMA RecordAnalysisInv ==
    ASSUME Inv, ApiInv, NEW r \in Requests, RecordAnalysis(r)
    PROVE  ApiInv'
<1> DEFINE context == request[r].context
<1>1. /\ request' = [request EXCEPT ![r] = Idle] /\ log' = log
      /\ evaluated' = context
      /\ answer' = {c \in recs(context) : matchesRecommendation(request[r].filter, c)}
  BY DEF RecordAnalysis, vars
<1>2. context # <<>> => context = <<context[1]>> /\ ReadAfter(context[1])
  BY DEF ApiInv, Handling
<1> HIDE DEF context
<1>3. Answered'
  BY <1>1, <1>2 DEF Answered, recs
<1> QED
  BY <1>1, <1>3, IdleHandles, OneHandles DEF ApiInv

LEMMA ApiInvHolds == ApiSpec => []ApiInv
<1>1. ApiInit => ApiInv
  <2> SUFFICES ASSUME ApiInit PROVE ApiInv
    OBVIOUS
  <2>1. /\ request = [r \in Requests |-> Idle] /\ evaluated = <<>> /\ answer = {}
    BY DEF ApiInit
  <2>2. request \in [Requests -> Handler] /\ \A r \in Requests : request[r] = Idle
    BY <2>1, IdleHandles
  <2> QED
    BY <2>1, <2>2, IdleHandles DEF ApiInv, Answered
<1>2. ASSUME Inv, ApiInv, [ApiNext]_allVars PROVE ApiInv'
  <2>1. CASE Next /\ UNCHANGED apiVars
    <3>1. request' = request /\ answer' = answer /\ evaluated' = evaluated
      BY <2>1 DEF apiVars
    <3>2. ASSUME NEW r \in Requests PROVE Handling(request[r])'
      <4> DEFINE q == request[r]
      <4>1. Handling(q)
        BY <1>2 DEF ApiInv
      <4>2. /\ Len(log) \in Nat /\ Len(log') \in Nat /\ Len(log) <= Len(log')
            /\ \A i \in 1 .. Len(log) : log'[i] = log[i]
        BY <1>2, <2>1, RecordGrows
      <4>3. ASSUME q.latest # <<>> PROVE \E p \in 1 .. Len(log') : q.latest[1] = log'[p]
        <5>1. PICK p \in 1 .. Len(log) : q.latest[1] = log[p]
          BY <4>1, <4>3 DEF Handling
        <5>2. p \in 1 .. Len(log') /\ log'[p] = log[p]
          BY <4>2
        <5> QED
          BY <5>1, <5>2
      <4>4. request'[r] = q
        BY <3>1
      <4> HIDE DEF q
      <4> QED
        BY <4>1, <4>3, <4>4 DEF Handling
    <3>3. Answered'
      BY <1>2, <3>1 DEF ApiInv, Answered, recs
    <3> QED
      BY <1>2, <3>1, <3>2, <3>3 DEF ApiInv
  <2>2. ASSUME NEW r \in Requests, NEW f \in Filters, ReadLatest(r, f) PROVE ApiInv'
    BY <1>2, <2>2, ReadLatestInv
  <2>3. ASSUME NEW r \in Requests, ReadClock(r) PROVE ApiInv'
    BY <1>2, <2>3, ReadClockInv
  <2>4. ASSUME NEW r \in Requests, ReadHistory(r) PROVE ApiInv'
    BY <1>2, <2>4, ReadHistoryInv
  <2>5. ASSUME NEW r \in Requests, RecordAnalysis(r) PROVE ApiInv'
    BY <1>2, <2>5, RecordAnalysisInv
  <2>6. CASE UNCHANGED allVars
    BY <1>2, <2>6 DEF allVars, ApiInv, Handling, Answered, recs
  <2> QED
    BY <1>2, <2>1, <2>2, <2>3, <2>4, <2>5, <2>6 DEF ApiNext
<1> QED
  BY <1>1, <1>2, CollectorInv, PTL DEF ApiSpec

-----------------------------------------------------------------------------
(* What the invariants give *)

\* However the handler's reads fall between the collector's steps, an answer never holds
\* two diagnoses with opposite fixes.
THEOREM AnswersNeverContradict == ApiSpec => []AnswerNotContradictory
<1>1. ApiInv => AnswerNotContradictory
  <2> SUFFICES ASSUME ApiInv PROVE AnswerNotContradictory
    OBVIOUS
  <2>1. CASE evaluated = <<>>
    <3>1. answer = {}
      BY <2>1, FindingsOfOne DEF ApiInv, Answered
    <3> QED
      BY <3>1 DEF AnswerNotContradictory, Opposites
  <2>2. CASE evaluated # <<>>
    <3> DEFINE e == evaluated[1]
    <3>1. ReadAfter(e) /\ answer \subseteq analyzeWorkload(e)
      BY <2>2, FindingsOfOne DEF ApiInv, Answered
    <3> HIDE DEF e
    <3>2. IsWindow(e.window) /\ e.latest.m \in Measurements
      BY <3>1, RecordedIsWindow, FieldsOfSnap DEF ReadAfter
    <3>3. \A c \in answer : Eval(c, e)
      BY <3>1, FindingFired
    <3> QED
      BY <3>2, <3>3, OppositesExclude DEF AnswerNotContradictory, Opposites
  <2> QED
    BY <2>1, <2>2
<1> QED
  BY <1>1, ApiInvHolds, PTL

\* With no more than one sample newer than it, a window read later still ends with the
\* snapshot, or has it last but one, or is too short for a sustained rule.
LEMMA OneNewer ==
    ASSUME NEW e, ReadAfter(e), Cardinality(Newer(e)) <= 1
    PROVE  NearlyLatest(e)
<1> DEFINE n == Len(e.window)
<1>1. n \in Nat /\ n > 0 /\ DOMAIN e.window = 1 .. n
  BY EmptySeq, LenProperties DEF ReadAfter, Recorded
<1>2. PICK j \in 0 .. n : /\ j > 0 => e.latest = e.window[j]
                          /\ \A i \in j + 1 .. n : e.latest.at < e.window[i].at
  BY DEF ReadAfter
<1> HIDE DEF n
<1>3. j + 1 .. n \subseteq Newer(e)
  <2>1. e.latest.at \in Nat /\ \A i \in 1 .. n : e.window[i].at \in Nat
    BY ElementOfSeq, FieldsOfSnap DEF ReadAfter, Recorded, n
  <2>2. \A i \in j + 1 .. n : i \in 1 .. n /\ e.window[i].at > e.latest.at
    BY <1>1, <1>2, <2>1
  <2> QED
    BY <1>1, <2>2 DEF Newer
<1>4. Newer(e) \subseteq 1 .. n
  BY <1>1 DEF Newer
<1>5. n - j <= 1
  <2> DEFINE a == j + 1
  <2>1. a \in Int /\ n \in Int /\ 1 \in Int
    BY <1>1
  <2> HIDE DEF a
  <2>2. IsFiniteSet(1 .. n) /\ Cardinality(a .. n) = IF a > n THEN 0 ELSE n - a + 1
    BY <2>1, FS_Interval, Zenon
  <2>3. IsFiniteSet(Newer(e))
    BY <1>4, <2>2, FS_Subset
  <2>4. Cardinality(a .. n) <= Cardinality(Newer(e))
    BY <1>3, <2>3, FS_Subset DEF a
  <2>5. Cardinality(Newer(e)) \in Nat
    BY <2>3, FS_CardinalityType
  <2>6. CASE a > n
    BY <1>1, <2>6 DEF a
  <2>7. CASE ~(a > n)
    <3>1. Cardinality(a .. n) = n - a + 1
      BY <2>2, <2>7
    <3> QED
      BY <1>1, <2>1, <2>4, <2>5, <3>1 DEF a
  <2> QED
    BY <2>6, <2>7
<1>6. CASE j > 0
  BY <1>1, <1>2, <1>5, <1>6 DEF NearlyLatest, n
<1>7. CASE j = 0
  <2>1. n - 0 <= 1
    BY <1>5, <1>7
  <2>2. n = 1
    BY <1>1, <2>1
  <2> QED
    BY <2>2 DEF NearlyLatest, n
<1> QED
  BY <1>6, <1>7

\* An answer's evidence is true of the snapshot quoted, if no more than one scrape came
\* between the handler's reads.
THEOREM AnswersEvidenceTrue == ApiSpec => []AnswerEvidenceIsTrue
<1>1. ApiInv => AnswerEvidenceIsTrue
  <2> SUFFICES ASSUME ApiInv, NEW i \in DOMAIN evaluated,
                      Cardinality(Newer(evaluated[i])) <= 1, NEW c \in answer
               PROVE  EvidenceHolds(c, evaluated[i].latest)
    BY DEF AnswerEvidenceIsTrue
  <2>1. evaluated # <<>>
    OBVIOUS
  <2>2. /\ evaluated = <<evaluated[1]>> /\ ReadAfter(evaluated[1])
        /\ answer \subseteq analyzeWorkload(evaluated[1])
    BY <2>1, FindingsOfOne DEF ApiInv, Answered
  <2>3. i = 1
    <3>1. DOMAIN evaluated = {1}
      BY <2>2
    <3> QED
      BY <3>1
  <2> DEFINE e == evaluated[1]
  <2>4. ReadAfter(e) /\ c \in analyzeWorkload(e) /\ Cardinality(Newer(e)) <= 1
    BY <2>2, <2>3
  <2> HIDE DEF e
  <2>5. IsWindow(e.window) /\ NearlyLatest(e)
    BY <2>4, OneNewer, RecordedIsWindow DEF ReadAfter
  <2>6. EvidenceHolds(c, e.latest)
    BY <2>4, <2>5, EvidenceOfFinding
  <2> QED
    BY <2>3, <2>6 DEF e
<1> QED
  BY <1>1, ApiInvHolds, PTL
=============================================================================
