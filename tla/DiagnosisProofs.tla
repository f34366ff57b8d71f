-------------------------- MODULE DiagnosisProofs --------------------------
(***************************************************************************)
(* Proofs about Diagnosis, for every thresholds, retention and environment *)
(* that the assumptions allow: a workload of any history.                  *)
(***************************************************************************)
EXTENDS Diagnosis, RecommenderProofs

-----------------------------------------------------------------------------
(* Evidence *)

\* The snapshot a finding quotes is the window's last sample or the one before, or the
\* window has a single sample.
NearlyLatest(e) ==
    LET n == Len(e.window)
    IN  n = 1 \/ \E j \in 1 .. n : j >= n - 1 /\ e.window[j] = e.latest

\* What is sustained is true of the snapshot quoted: a long enough tail has two samples
\* at least, so it contains that snapshot.
LEMMA SustainedAtLatest ==
    ASSUME NEW e, IsWindow(e.window), NearlyLatest(e)
    PROVE  /\ Sustained(e, Deep) => Deep(e.latest)
           /\ Sustained(e, queueSaturated) => queueSaturated(e.latest)
           /\ Sustained(e, queueIdle) => queueIdle(e.latest)
           /\ Sustained(e, kvHigh) => kvHigh(e.latest)
           /\ Sustained(e, latencyHigh) => latencyHigh(e.latest)
           /\ Sustained(e, gpuMemoryHigh) => gpuMemoryHigh(e.latest)
           /\ Sustained(e, errorsHigh) => errorsHigh(e.latest)
           /\ Sustained(e, abortsHigh) => abortsHigh(e.latest)
<1>1. CASE T.SustainFor = 0
  BY <1>1, SustainedAtOnce
<1>2. CASE T.SustainFor > 0
  <2> DEFINE w == e.window
             k == tailStart(w, T.SustainFor)
  <2>1. Len(w) \in Nat /\ k \in 1 .. Len(w) /\ w[k].ts \in Int /\ w[Len(w)].ts \in Int
    <3>1. IsWindow(w) /\ T.SustainFor \in Int
      BY ThresholdsValid
    <3>2. k \in 1 .. Len(w)
      <4> HIDE DEF w
      <4> QED
        BY <3>1, RecentIsTail
    <3> HIDE DEF w, k
    <3> QED
      BY <3>1, <3>2 DEF IsWindow
  <2>2. LongEnough(w, k) => \E j \in k .. Len(w) : w[j] = e.latest
    <3> SUFFICES ASSUME LongEnough(w, k) PROVE \E j \in k .. Len(w) : w[j] = e.latest
      OBVIOUS
    <3> HIDE DEF k, w
    <3>1. k # Len(w)
      BY <1>2, <2>1, ThresholdsValid DEF LongEnough
    <3>2. Len(w) # 1
      BY <2>1, <3>1
    <3>3. PICK j \in 1 .. Len(w) : j >= Len(w) - 1 /\ w[j] = e.latest
      BY <3>2 DEF NearlyLatest, w
    <3> QED
      BY <2>1, <3>1, <3>3
  <2>3. Sustained(e, Deep) => Deep(e.latest)
    BY <1>2, <2>2, SustainedOverTail
  <2>4. Sustained(e, queueSaturated) => queueSaturated(e.latest)
    BY <1>2, <2>2, SustainedOverTail
  <2>5. Sustained(e, queueIdle) => queueIdle(e.latest)
    BY <1>2, <2>2, SustainedOverTail
  <2>6. Sustained(e, kvHigh) => kvHigh(e.latest)
    BY <1>2, <2>2, SustainedOverTail
  <2>7. Sustained(e, latencyHigh) => latencyHigh(e.latest)
    BY <1>2, <2>2, SustainedOverTail
  <2>8. Sustained(e, gpuMemoryHigh) => gpuMemoryHigh(e.latest)
    BY <1>2, <2>2, SustainedOverTail
  <2>9. Sustained(e, errorsHigh) => errorsHigh(e.latest)
    BY <1>2, <2>2, SustainedOverTail
  <2>10. Sustained(e, abortsHigh) => abortsHigh(e.latest)
    BY <1>2, <2>2, SustainedOverTail
  <2> QED
    BY <2>3, <2>4, <2>5, <2>6, <2>7, <2>8, <2>9, <2>10
<1>3. T.SustainFor = 0 \/ T.SustainFor > 0
  BY ThresholdsValid
<1> QED
  BY <1>1, <1>2, <1>3

\* The numbers a finding shows are on the side of the threshold it says they are.
LEMMA EvidenceOfFinding ==
    ASSUME NEW e, IsWindow(e.window), NearlyLatest(e), NEW c \in analyzeWorkload(e)
    PROVE  EvidenceHolds(c, e.latest)
<1>1. Eval(c, e)
  BY FindingFired
<1> USE DEF EvidenceHolds
<1>2. CASE c = "CAP-001"
  BY <1>1, <1>2, RuleOfCode, SustainedAtLatest DEF queueSaturated, Deep
<1>3. CASE c = "CAP-002"
  BY <1>1, <1>3, RuleOfCode, SustainedAtLatest DEF queueIdle, Deep
<1>4. CASE c = "CAP-003"
  BY <1>1, <1>4, RuleOfCode DEF queueGrowing, Deep
<1>5. CASE c = "SCL-001"
  BY <1>1, <1>5, RuleOfCode, SustainedAtLatest DEF atReplicaCeiling, Deep
<1>6. CASE c = "SCL-002"
  BY <1>1, <1>6, RuleOfCode DEF replicasNotReady, Deep
<1>7. CASE c = "KV-002"
  BY <1>1, <1>7, RuleOfCode, SustainedAtLatest DEF kvHigh
<1>8. CASE c = "LAT-003"
  BY <1>1, <1>8, RuleOfCode, SustainedAtLatest DEF latencyHigh
<1>9. CASE c = "EFF-002"
  BY <1>1, <1>9, RuleOfCode DEF lowTokenThroughput
<1>10. CASE c = "EFF-003"
  BY <1>1, <1>10, RuleOfCode, SustainedAtLatest DEF gpuMemoryHigh
<1>11. CASE c = "ERR-001"
  BY <1>1, <1>11, RuleOfCode, SustainedAtLatest DEF errorsHigh
<1>12. CASE c = "ERR-002"
  BY <1>1, <1>12, RuleOfCode, SustainedAtLatest DEF abortsHigh
<1> QED
  BY <1>2, <1>3, <1>4, <1>5, <1>6, <1>7, <1>8, <1>9, <1>10, <1>11, <1>12
-----------------------------------------------------------------------------
(* Persistence *)

\* From sample i on, the window covers SustainFor.
Reaches(w, i) ==
    LET cutoff == w[Len(w)].ts - T.SustainFor
    IN  w[i].ts < cutoff \/ (i = 1 /\ w[i].ts = cutoff)

\* Each sample is later than the one before, so later than all before.
LEMMA InOrderThroughout ==
    ASSUME NEW w, IsWindow(w), InOrder(w)
    PROVE  \A i, j \in 1 .. Len(w) : i < j => w[i].ts < w[j].ts
<1> DEFINE P(n) == \A i, j \in 1 .. Len(w) : i < j /\ j <= n => w[i].ts < w[j].ts
           S == {n \in Nat : P(n)}
<1>0. Len(w) \in Nat /\ DOMAIN w = 1 .. Len(w) /\ \A i \in 1 .. Len(w) : w[i].ts \in Int
  BY DEF IsWindow
<1>1. 0 \in S
  BY <1>0
<1>2. ASSUME NEW n \in S PROVE n + 1 \in S
  <2>1. ASSUME NEW i \in 1 .. Len(w), NEW j \in 1 .. Len(w), i < j, j <= n + 1
        PROVE  w[i].ts < w[j].ts
    <3>1. w[j - 1].ts < w[j].ts /\ j - 1 \in 1 .. Len(w)
      <4>1. j > 1 /\ j - 1 \in 1 .. Len(w)
        BY <1>0, <2>1
      <4>2. j \in DOMAIN w
        BY <1>0
      <4> QED
        BY <4>1, <4>2 DEF InOrder
    <3>2. i = j - 1 \/ w[i].ts < w[j - 1].ts
      BY <1>0, <2>1, <3>1
    <3> QED
      BY <1>0, <3>1, <3>2
  <2>2. P(n + 1)
    BY <2>1
  <2> HIDE DEF P
  <2> QED
    BY <2>2
<1>3. S = Nat
  <2> HIDE DEF P
  <2>1. S \in SUBSET Nat
    OBVIOUS
  <2> HIDE DEF S
  <2> QED
    BY <1>1, <1>2, <2>1, InductionOverNat
<1>4. P(Len(w))
  <2> HIDE DEF P
  <2> QED
    BY <1>0, <1>3
<1> QED
  BY <1>0, <1>4

\* With samples in order, the tail is the longest a sustained rule could need: it is
\* long enough exactly when some sample reaches back far enough, and that sample
\* belongs to what precedes it.
LEMMA TailOfOrdered ==
    ASSUME NEW w, IsWindow(w), InOrder(w), T.SustainFor > 0
    PROVE  LET k == tailStart(w, T.SustainFor)
           IN  /\ k \in 1 .. Len(w)
               /\ LongEnough(w, k) => Reaches(w, k)
               /\ \A i \in 1 .. Len(w) : Reaches(w, i) => LongEnough(w, k) /\ i <= k
<1> DEFINE cutoff == w[Len(w)].ts - T.SustainFor
           k == tailStart(w, T.SustainFor)
           late == {i \in 1 .. Len(w) : ~(w[i].ts < cutoff)}
<1>1. /\ Len(w) \in Nat \ {0} /\ T.SustainFor \in Int
      /\ \A i \in 1 .. Len(w) : w[i].ts \in Int
  BY ThresholdsValid DEF IsWindow
<1>2. cutoff \in Int /\ Len(w) \in late
  BY <1>1
<1>3. PICK n \in late : \A m \in late : n <= m
  <2>1. late \in SUBSET Nat /\ late # {}
    BY <1>1, <1>2
  <2> HIDE DEF late
  <2> QED
    BY <2>1, SmallestNumber
<1>4. n - 1 \in 0 .. Len(w) /\ Precede(w, cutoff, n - 1)
  <2>1. \A i \in 1 .. Len(w) : i < n => w[i].ts < cutoff
    BY <1>1, <1>3
  <2>2. \A i \in 1 .. Len(w) : w[i].ts < cutoff => i < n
    BY <1>1, <1>2, <1>3, InOrderThroughout
  <2> QED
    BY <1>1, <2>1, <2>2 DEF Precede
<1>5. searchBefore(w, cutoff) = n - 1
  <2> HIDE DEF cutoff
  <2> QED
    BY <1>1, <1>4, SearchFinds
<1>6. k = IF n > 1 THEN n - 1 ELSE 1
  BY <1>1, <1>5 DEF tailStart
<1>7. k \in 1 .. Len(w)
  BY <1>1, <1>4, <1>6
<1>8. LongEnough(w, k) => Reaches(w, k)
  <2> HIDE DEF k
  <2> QED
    BY <1>1, <1>3, <1>4, <1>6, <1>7 DEF LongEnough, Reaches, Precede
<1>9. ASSUME NEW i \in 1 .. Len(w), Reaches(w, i) PROVE LongEnough(w, k) /\ i <= k
  <2> HIDE DEF k
  <2>1. CASE w[i].ts < cutoff
    <3>1. i <= n - 1 /\ k = n - 1
      BY <1>1, <1>3, <1>4, <1>6, <2>1 DEF Precede
    <3>2. w[k].ts < cutoff
      BY <1>1, <1>4, <1>7, <3>1 DEF Precede
    <3> QED
      BY <1>1, <1>7, <3>1, <3>2 DEF LongEnough
  <2>2. CASE i = 1 /\ w[i].ts = cutoff
    <3>1. n = 1
      BY <1>1, <1>2, <1>3, <2>2
    <3> QED
      BY <1>1, <1>6, <2>2, <3>1 DEF LongEnough
  <2> QED
    BY <1>9, <2>1, <2>2 DEF Reaches
<1> QED
  BY <1>7, <1>8, <1>9 DEF k

\* So sustained means that the condition held throughout.
LEMMA SustainedWhenInOrder ==
    ASSUME NEW e, IsWindow(e.window), InOrder(e.window), T.SustainFor > 0
    PROVE  /\ Sustained(e, Deep) <=> HeldForSustain(e.window, Deep)
           /\ Sustained(e, latencyHigh) <=> HeldForSustain(e.window, latencyHigh)
           /\ Sustained(e, queueSaturated) <=> HeldForSustain(e.window, queueSaturated)
<1> DEFINE w == e.window
           k == tailStart(w, T.SustainFor)
<1>1. /\ Len(w) \in Nat /\ DOMAIN w = 1 .. Len(w)
      /\ k \in 1 .. Len(w)
      /\ LongEnough(w, k) => Reaches(w, k)
      /\ \A i \in 1 .. Len(w) : Reaches(w, i) => LongEnough(w, k) /\ i <= k
  <2>1. IsWindow(w) /\ InOrder(w)
    OBVIOUS
  <2> HIDE DEF w
  <2> QED
    BY <2>1, TailOfOrdered DEF IsWindow
<1> HIDE DEF k
<1>2. (LongEnough(w, k) /\ \A i \in k .. Len(w) : Deep(w[i])) <=> HeldForSustain(w, Deep)
  BY <1>1 DEF HeldForSustain, Reaches
<1>3. (LongEnough(w, k) /\ \A i \in k .. Len(w) : latencyHigh(w[i]))
         <=> HeldForSustain(w, latencyHigh)
  BY <1>1 DEF HeldForSustain, Reaches
<1>4. (LongEnough(w, k) /\ \A i \in k .. Len(w) : queueSaturated(w[i]))
         <=> HeldForSustain(w, queueSaturated)
  BY <1>1 DEF HeldForSustain, Reaches
<1> QED
  BY <1>2, <1>3, <1>4, SustainedOverTail DEF k
-----------------------------------------------------------------------------
(* The inductive invariant *)

Snap == [ts : Int, at : Nat, m : Measurements, missing : BOOLEAN, runtime : {"vllm", "triton"}]

\* Snapshots in the order the collector took them: each later than the one before by
\* the time that really passed, and none stamped with a clock set back less often.
Recorded(w) ==
    /\ w \in Seq(Snap)
    /\ \A i, j \in 1 .. Len(w) : i < j => /\ w[i].at < w[j].at
                                          /\ w[i].at - w[i].ts <= w[j].at - w[j].ts

\* The most recent part of a sequence.
EndsWith(l, s) ==
    /\ s \in Seq(Snap) /\ Len(s) <= Len(l)
    /\ \A i \in 1 .. Len(s) : s[i] = l[Len(l) - Len(s) + i]

TypesOK ==
    /\ env \in DOMAIN Environments
    /\ now \in Int /\ behind \in Nat /\ now + behind \in Nat
    /\ pc \in {"tick", "cycle"}
    /\ announced \subseteq findings
    /\ cycles \in 0 .. here.maxCycles /\ failures \in 0 .. here.maxFailures
    /\ setbacks \in 0 .. here.maxSetbacks

\* What was recorded was recorded before now, by clocks set back at most as far.
LogOK ==
    /\ Recorded(log)
    /\ \A i \in 1 .. Len(log) :
          /\ log[i].at <= now + behind /\ log[i].at - log[i].ts <= behind
          /\ [m |-> log[i].m, missing |-> log[i].missing, runtime |-> log[i].runtime]
                \in here.samples

SeriesOK == EndsWith(log, series) /\ Len(series) <= RetentionSamples

\* An evaluation that Analyze may have made: of a recorded history and its last sample.
Evaluated(e) ==
    /\ Recorded(e.window) /\ e.window # <<>>
    /\ e.latest = e.window[Len(e.window)]

\* The findings are those of the evaluation remembered; while nothing newer has been
\* recorded, the store still holds what that evaluation saw, or has forgotten it all.
FindingsOK ==
    /\ explained = <<>> => findings = {}
    /\ explained # <<>> =>
          /\ explained = <<explained[1]>>
          /\ Evaluated(explained[1]) /\ explained[1].latest.at <= now + behind
          /\ explained[1].now \in Int
          /\ findings = analyzeWorkload(explained[1])
          /\ log # <<>> /\ explained[1].latest = log[Len(log)]
                => series = <<>> \/ series = explained[1].window

Inv == TypesOK /\ LogOK /\ SeriesOK /\ FindingsOK
-----------------------------------------------------------------------------
(* The store *)

LEMMA RetentionValid ==
    /\ RetentionSamples \in Nat /\ RetentionSamples > 1
    /\ RetentionPeriod \in Nat /\ RetentionPeriod > 0
BY RetentionAssumption DEF ValidRetention

\* The newest sample is never among the leading ones to drop.
LEMMA LeadingSparesLast ==
    ASSUME NEW s \in Seq(Snap), s # <<>>, NEW cutoff \in Int, cutoff <= s[Len(s)].ts
    PROVE  leading(s, cutoff) \in 0 .. Len(s) - 1
<1> DEFINE old == {n \in DOMAIN s : \A i \in 1 .. n : s[i].ts < cutoff}
<1>1. Len(s) \in Nat /\ Len(s) > 0 /\ DOMAIN s = 1 .. Len(s) /\ s[Len(s)] \in Snap
  BY EmptySeq, LenProperties, ElementOfSeq
<1>2. Len(s) \notin old
  <2>1. ~(s[Len(s)].ts < cutoff)
    BY <1>1 DEF Snap
  <2> QED
    BY <1>1, <2>1
<1>3. old \in SUBSET (1 .. Len(s) - 1)
  BY <1>1, <1>2
<1>4. /\ IsFiniteSet(1 .. Len(s) - 1)
      /\ Cardinality(1 .. Len(s) - 1) = Len(s) - 1
  <2> DEFINE b == Len(s) - 1
  <2>1. b \in Int /\ b >= 0 /\ 1 \in Int
    BY <1>1
  <2> HIDE DEF b
  <2>2. IsFiniteSet(1 .. b) /\ Cardinality(1 .. b) = IF 1 > b THEN 0 ELSE b - 1 + 1
    BY <2>1, FS_Interval, Zenon
  <2>3. (IF 1 > b THEN 0 ELSE b - 1 + 1) = b
    BY <2>1
  <2>4. Cardinality(1 .. b) = b
    BY <2>2, <2>3
  <2> QED
    BY <2>2, <2>4 DEF b
<1> HIDE DEF old
<1>5. IsFiniteSet(old) /\ Cardinality(old) <= Len(s) - 1
  BY <1>3, <1>4, FS_Subset
<1>6. Cardinality(old) \in Nat
  BY <1>5, FS_CardinalityType
<1> QED
  BY <1>1, <1>5, <1>6 DEF leading, old

\* A part that ends where the sequence ends, cut to its last n samples.
LEMMA CutEndsWith ==
    ASSUME NEW l \in Seq(Snap), NEW n \in 0 .. Len(l)
    PROVE  LET s == SubSeq(l, Len(l) - n + 1, Len(l))
           IN  EndsWith(l, s) /\ Len(s) = n
<1> DEFINE m == Len(l) - n + 1
           s == SubSeq(l, m, Len(l))
<1>1. Len(l) \in Nat /\ m \in 1 .. Len(l) + 1
  BY LenProperties
<1>2. \A i \in m .. Len(l) : l[i] \in Snap
  BY <1>1, ElementOfSeq
<1> HIDE DEF m
<1>3. /\ s \in Seq(Snap)
      /\ Len(s) = IF m <= Len(l) THEN Len(l) - m + 1 ELSE 0
      /\ \A i \in 1 .. Len(l) - m + 1 : s[i] = l[m + i - 1]
  BY <1>1, <1>2, SubSeqProperties
<1>4. Len(s) = n /\ Len(l) - m + 1 = n
  BY <1>1, <1>3 DEF m
<1>5. \A i \in 1 .. n : m + i - 1 = Len(l) - n + i
  BY <1>1 DEF m
<1> QED
  BY <1>1, <1>3, <1>4, <1>5 DEF EndsWith, m

LEMMA EndsWithTransitive ==
    ASSUME NEW l, Len(l) \in Nat, NEW s, NEW r, EndsWith(l, s), EndsWith(s, r)
    PROVE  EndsWith(l, r)
<1>1. Len(s) \in Nat /\ Len(r) \in Nat
  BY LenProperties DEF EndsWith
<1>2. Len(r) <= Len(s) /\ Len(s) <= Len(l)
  BY DEF EndsWith
<1>3. ASSUME NEW i \in 1 .. Len(r) PROVE r[i] = l[Len(l) - Len(r) + i]
  <2>1. r[i] = s[Len(s) - Len(r) + i]
    BY DEF EndsWith
  <2>2. Len(s) - Len(r) + i \in 1 .. Len(s)
    BY <1>1, <1>2
  <2>3. s[Len(s) - Len(r) + i] = l[Len(l) - Len(s) + (Len(s) - Len(r) + i)]
    BY <2>2 DEF EndsWith
  <2>4. Len(l) - Len(s) + (Len(s) - Len(r) + i) = Len(l) - Len(r) + i
    BY <1>1
  <2> QED
    BY <2>1, <2>3, <2>4
<1> QED
  BY <1>1, <1>2, <1>3 DEF EndsWith

LEMMA AppendEndsWith ==
    ASSUME NEW l \in Seq(Snap), NEW s \in Seq(Snap), NEW snap \in Snap, EndsWith(l, s)
    PROVE  EndsWith(Append(l, snap), Append(s, snap))
<1> DEFINE l2 == Append(l, snap)
           s2 == Append(s, snap)
<1>1. Len(l) \in Nat /\ Len(s) \in Nat /\ Len(s) <= Len(l)
  BY LenProperties DEF EndsWith
<1>2. /\ l2 \in Seq(Snap) /\ Len(l2) = Len(l) + 1
      /\ \A i \in 1 .. Len(l) : l2[i] = l[i]
      /\ l2[Len(l) + 1] = snap
      /\ s2 \in Seq(Snap) /\ Len(s2) = Len(s) + 1
      /\ \A i \in 1 .. Len(s) : s2[i] = s[i]
      /\ s2[Len(s) + 1] = snap
  BY AppendProperties
<1> HIDE DEF l2, s2
<1>3. ASSUME NEW i \in 1 .. Len(s) + 1 PROVE s2[i] = l2[Len(l2) - Len(s2) + i]
  <2>1. Len(l2) - Len(s2) + i = Len(l) - Len(s) + i
    BY <1>1, <1>2
  <2>2. CASE i = Len(s) + 1
    <3>1. Len(l) - Len(s) + i = Len(l) + 1
      BY <1>1, <2>2
    <3> QED
      BY <1>2, <2>1, <2>2, <3>1
  <2>3. CASE i # Len(s) + 1
    <3>1. i \in 1 .. Len(s) /\ Len(l) - Len(s) + i \in 1 .. Len(l)
      BY <1>1, <2>3
    <3>2. s[i] = l[Len(l) - Len(s) + i]
      BY <3>1 DEF EndsWith
    <3> QED
      BY <1>2, <2>1, <3>1, <3>2
  <2> QED
    BY <2>2, <2>3
<1>4. EndsWith(l2, s2)
  BY <1>1, <1>2, <1>3 DEF EndsWith
<1> QED
  BY <1>4 DEF l2, s2

\* Add keeps the most recent part of what was there with the new sample at its end,
\* never more than RetentionSamples and never nothing.
LEMMA AddKeepsEnd ==
    ASSUME NEW s \in Seq(Snap), NEW snap \in Snap
    PROVE  LET r == Add(s, snap, snap.ts)
           IN  /\ EndsWith(Append(s, snap), r)
               /\ r # <<>> /\ Len(r) <= RetentionSamples
<1> DEFINE appended == Append(s, snap)
           drop == leading(appended, snap.ts - RetentionPeriod)
           young == SubSeq(appended, drop + 1, Len(appended))
           capped == SubSeq(young, Len(young) - RetentionSamples + 1, Len(young))
<1>1. /\ appended \in Seq(Snap) /\ appended # <<>>
      /\ Len(appended) \in Nat /\ appended[Len(appended)] = snap
  BY AppendProperties, LenProperties
<1> HIDE DEF appended
<1>2. drop \in 0 .. Len(appended) - 1
  <2>1. snap.ts \in Int
    BY DEF Snap
  <2>2. /\ snap.ts - RetentionPeriod \in Int
        /\ snap.ts - RetentionPeriod <= appended[Len(appended)].ts
    BY <1>1, <2>1, RetentionValid
  <2> QED
    BY <1>1, <2>2, LeadingSparesLast
<1> HIDE DEF drop
<1>3. EndsWith(appended, young) /\ Len(young) \in Nat /\ Len(young) > 0
  <2>1. Len(appended) - drop \in 0 .. Len(appended)
        /\ drop + 1 = Len(appended) - (Len(appended) - drop) + 1
    BY <1>1, <1>2
  <2>2. EndsWith(appended, young) /\ Len(young) = Len(appended) - drop
    BY <1>1, <2>1, CutEndsWith
  <2> QED
    BY <1>1, <1>2, <2>2
<1> HIDE DEF young
<1>4. CASE Len(young) > RetentionSamples
  <2>1. young \in Seq(Snap) /\ RetentionSamples \in 0 .. Len(young)
    BY <1>3, <1>4, RetentionValid DEF EndsWith
  <2>2. EndsWith(young, capped) /\ Len(capped) = RetentionSamples
    BY <2>1, CutEndsWith
  <2> HIDE DEF capped
  <2>3. EndsWith(appended, capped)
    BY <1>1, <1>3, <2>2, EndsWithTransitive
  <2>4. capped # <<>>
    BY <2>2, RetentionValid
  <2>5. Add(s, snap, snap.ts) = capped
    BY <1>4 DEF Add, capped, young, drop, appended
  <2> QED
    BY <2>2, <2>3, <2>4, <2>5, RetentionValid DEF appended
<1>5. CASE ~(Len(young) > RetentionSamples)
  <2>1. Add(s, snap, snap.ts) = young
    BY <1>5 DEF Add, young, drop, appended
  <2> QED
    BY <1>3, <1>5, <2>1, RetentionValid DEF appended
<1> QED
  BY <1>4, <1>5

LEMMA EndIsRecorded ==
    ASSUME NEW l, NEW s, Recorded(l), EndsWith(l, s)
    PROVE  Recorded(s)
<1>1. /\ Len(l) \in Nat /\ s \in Seq(Snap) /\ Len(s) \in Nat /\ Len(s) <= Len(l)
      /\ \A i \in 1 .. Len(s) : s[i] = l[Len(l) - Len(s) + i]
  BY LenProperties DEF Recorded, EndsWith
<1>2. \A i \in 1 .. Len(s) : Len(l) - Len(s) + i \in 1 .. Len(l)
  BY <1>1
<1>3. ASSUME NEW i \in 1 .. Len(s), NEW j \in 1 .. Len(s), i < j
      PROVE  s[i].at < s[j].at /\ s[i].at - s[i].ts <= s[j].at - s[j].ts
  <2> DEFINE p == Len(l) - Len(s) + i
             q == Len(l) - Len(s) + j
  <2>1. p \in 1 .. Len(l) /\ q \in 1 .. Len(l) /\ p < q /\ s[i] = l[p] /\ s[j] = l[q]
    BY <1>1, <1>2, <1>3
  <2> HIDE DEF p, q
  <2> QED
    BY <2>1 DEF Recorded
<1> QED
  BY <1>1, <1>3 DEF Recorded

\* A history that Analyze evaluates is a window of the rule engine.
LEMMA RecordedIsWindow ==
    ASSUME NEW w, Recorded(w), w # <<>>
    PROVE  /\ IsWindow(w)
           /\ w[Len(w)] \in Snap
<1>1. w \in Seq(Snap) /\ Len(w) \in Nat /\ Len(w) > 0 /\ w \in [1 .. Len(w) -> Snap]
  BY EmptySeq, LenProperties DEF Recorded
<1>2. \A i \in 1 .. Len(w) : w[i] \in Snap
  BY <1>1
<1>3. w = [i \in 1 .. Len(w) |-> w[i]]
  BY <1>1
<1> QED
  BY <1>1, <1>2, <1>3 DEF IsWindow, Snap

-----------------------------------------------------------------------------
(* Induction *)

LEMMA FieldsOfSnap ==
    ASSUME NEW s \in Snap
    PROVE  /\ s.ts \in Int /\ s.at \in Nat /\ s.m \in Measurements
           /\ [m |-> s.m, missing |-> s.missing, runtime |-> s.runtime] \in Sample
BY DEF Snap, Sample

LEMMA SnapOfSample ==
    ASSUME NEW sample \in Sample, NEW ts \in Int, NEW at \in Nat
    PROVE  LET snap == [ts |-> ts, at |-> at, m |-> sample.m, missing |-> sample.missing,
                        runtime |-> sample.runtime]
           IN  /\ snap \in Snap /\ snap.ts = ts /\ snap.at = at
               /\ [m |-> snap.m, missing |-> snap.missing, runtime |-> snap.runtime] = sample
<1>1. sample = [m |-> sample.m, missing |-> sample.missing, runtime |-> sample.runtime]
  BY DEF Sample
<1>2. sample.m \in Measurements /\ sample.missing \in BOOLEAN /\ sample.runtime \in {"vllm", "triton"}
  BY DEF Sample
<1> QED
  BY <1>1, <1>2 DEF Snap

LEMMA EnvironmentValid ==
    ASSUME env \in DOMAIN Environments
    PROVE  /\ here.samples \subseteq Sample
           /\ here.gaps \subseteq Nat \ {0} /\ here.failureGaps \subseteq Nat \ {0}
           /\ here.setbacks \subseteq Nat \ {0}
           /\ here.maxCycles \in Nat /\ here.maxFailures \in Nat /\ here.maxSetbacks \in Nat
BY RetentionAssumption DEF here, Environment

LEMMA InitInv == Init => Inv
<1> SUFFICES ASSUME Init PROVE Inv
  OBVIOUS
<1> USE DEF Init
<1>1. env \in DOMAIN Environments
  OBVIOUS
<1>2. TypesOK
  BY <1>1, EnvironmentValid DEF TypesOK
<1>3. LogOK
  <2>1. log \in Seq(Snap) /\ Len(log) = 0
    BY EmptySeq
  <2> QED
    BY <2>1 DEF LogOK, Recorded
<1>4. SeriesOK
  <2>1. series \in Seq(Snap) /\ Len(series) = 0 /\ Len(log) = 0
    BY EmptySeq
  <2> QED
    BY <2>1, RetentionValid DEF SeriesOK, EndsWith
<1>5. FindingsOK
  BY DEF FindingsOK
<1> QED
  BY <1>2, <1>3, <1>4, <1>5 DEF Inv

\* A new snapshot is later than every one on record, and than the one last evaluated.
LEMMA ScrapeSucceedsInv ==
    ASSUME Inv, NEW sample \in here.samples, NEW gap \in here.gaps, ScrapeSucceeds(sample, gap)
    PROVE  Inv'
<1> DEFINE snap == [ts |-> now', at |-> now' + behind, m |-> sample.m,
                    missing |-> sample.missing, runtime |-> sample.runtime]
<1>1. /\ env \in DOMAIN Environments /\ now \in Int /\ behind \in Nat /\ now + behind \in Nat
      /\ cycles \in 0 .. here.maxCycles /\ failures \in 0 .. here.maxFailures
      /\ setbacks \in 0 .. here.maxSetbacks
  BY DEF Inv, TypesOK
<1>2. /\ sample \in Sample /\ gap \in Nat /\ gap > 0
      /\ here.maxCycles \in Nat /\ here.maxFailures \in Nat /\ here.maxSetbacks \in Nat
  BY <1>1, EnvironmentValid
<1>3. /\ pc' = "cycle" /\ now' = now + gap /\ cycles < here.maxCycles /\ cycles' = cycles + 1
      /\ series' = Add(series, snap, snap.ts) /\ log' = Append(log, snap)
      /\ findings' = findings /\ announced' = announced /\ explained' = explained
      /\ env' = env /\ failures' = failures /\ setbacks' = setbacks /\ behind' = behind
  BY DEF ScrapeSucceeds, clockVars
<1>4. now' \in Int /\ now' > now /\ now' + behind \in Nat /\ now' + behind > now + behind
  BY <1>1, <1>2, <1>3
<1>5. /\ snap \in Snap /\ snap.at = now' + behind /\ snap.at - snap.ts = behind
      /\ [m |-> snap.m, missing |-> snap.missing, runtime |-> snap.runtime] = sample
  <2>1. now' \in Int /\ now' + behind \in Nat /\ sample \in Sample
    BY <1>1, <1>2, <1>3, <1>4
  <2>2. /\ snap \in Snap /\ snap.ts = now' /\ snap.at = now' + behind
        /\ [m |-> snap.m, missing |-> snap.missing, runtime |-> snap.runtime] = sample
    BY <2>1, SnapOfSample, Zenon
  <2> HIDE DEF snap
  <2>3. snap.at - snap.ts = behind
    <3>0. now' \in Int /\ behind \in Int /\ \A a, b \in Int : (a + b) - a = b
      BY <1>1, <2>1
    <3>1. (now' + behind) - now' = behind
      BY <3>0
    <3>2. snap.at = now' + behind /\ snap.ts = now'
      BY <2>2
    <3> QED
      BY <3>1, <3>2, Zenon
  <2> QED
    BY <2>2, <2>3
<1> HIDE DEF snap
<1>6. here' = here
  BY <1>3 DEF here
<1>7. TypesOK'
  <2>1. announced \subseteq findings
    BY DEF Inv, TypesOK
  <2>2. cycles' \in 0 .. here'.maxCycles
    BY <1>1, <1>2, <1>3, <1>6
  <2> QED
    BY <1>1, <1>3, <1>4, <1>6, <2>1, <2>2 DEF TypesOK
<1>8. log \in Seq(Snap) /\ Len(log) \in Nat
  BY LenProperties DEF Inv, LogOK, Recorded
<1>9. /\ log' \in Seq(Snap) /\ Len(log') = Len(log) + 1
      /\ \A i \in 1 .. Len(log) : log'[i] = log[i]
      /\ log'[Len(log) + 1] = snap
  BY <1>3, <1>5, <1>8, AppendProperties
<1>10. LogOK'
  <2>1. ASSUME NEW i \in 1 .. Len(log'), NEW j \in 1 .. Len(log'), i < j
        PROVE  log'[i].at < log'[j].at /\ log'[i].at - log'[i].ts <= log'[j].at - log'[j].ts
    <3>1. i \in 1 .. Len(log) /\ log'[i] = log[i] /\ log[i] \in Snap
      BY <1>8, <1>9, <2>1, ElementOfSeq
    <3>2. CASE j \in 1 .. Len(log)
      BY <1>9, <2>1, <3>1, <3>2 DEF Inv, LogOK, Recorded
    <3>3. CASE j = Len(log) + 1
      <4>1. /\ log[i].at <= now + behind /\ log[i].at - log[i].ts <= behind
            /\ log[i].at \in Nat /\ log[i].ts \in Int
        BY <3>1, FieldsOfSnap DEF Inv, LogOK
      <4>2. log'[j] = snap
        BY <1>9, <3>3
      <4> QED
        BY <1>1, <1>4, <1>5, <3>1, <4>1, <4>2
    <3> QED
      BY <1>8, <1>9, <3>2, <3>3
  <2>2. ASSUME NEW i \in 1 .. Len(log')
        PROVE  /\ log'[i].at <= now' + behind' /\ log'[i].at - log'[i].ts <= behind'
               /\ [m |-> log'[i].m, missing |-> log'[i].missing, runtime |-> log'[i].runtime]
                     \in here'.samples
    <3>1. CASE i \in 1 .. Len(log)
      <4>1. /\ log[i].at <= now + behind /\ log[i].at - log[i].ts <= behind
            /\ [m |-> log[i].m, missing |-> log[i].missing, runtime |-> log[i].runtime]
                  \in here.samples
        BY <3>1 DEF Inv, LogOK
      <4>2. log'[i] = log[i] /\ log[i].at \in Nat
        <5>1. log[i] \in Snap
          BY <1>8, <3>1, ElementOfSeq
        <5> QED
          BY <1>9, <3>1, <5>1, FieldsOfSnap
      <4> QED
        BY <1>1, <1>3, <1>4, <1>6, <4>1, <4>2
    <3>2. CASE i = Len(log) + 1
      <4>1. log'[i] = snap
        BY <1>9, <3>2
      <4> QED
        BY <1>1, <1>3, <1>4, <1>5, <1>6, <4>1
    <3> QED
      BY <1>8, <1>9, <3>1, <3>2
  <2> QED
    BY <1>9, <2>1, <2>2 DEF LogOK, Recorded
<1>11. SeriesOK' /\ series' # <<>>
  <2>1. series \in Seq(Snap) /\ EndsWith(log, series)
    BY DEF Inv, SeriesOK, EndsWith
  <2>2. /\ EndsWith(Append(series, snap), series')
        /\ series' # <<>> /\ Len(series') <= RetentionSamples
    BY <1>3, <1>5, <2>1, AddKeepsEnd
  <2>3. EndsWith(log', Append(series, snap))
    BY <1>3, <1>5, <1>8, <2>1, AppendEndsWith
  <2>4. Len(log') \in Nat
    BY <1>8, <1>9
  <2> QED
    BY <2>2, <2>3, <2>4, EndsWithTransitive DEF SeriesOK
<1>12. FindingsOK'
  <2>1. CASE explained = <<>>
    BY <1>3, <2>1 DEF Inv, FindingsOK
  <2>2. CASE explained # <<>>
    <3>1. /\ explained = <<explained[1]>> /\ explained[1].now \in Int
          /\ Evaluated(explained[1]) /\ explained[1].latest.at <= now + behind
          /\ findings = analyzeWorkload(explained[1])
      BY <2>2 DEF Inv, FindingsOK
    <3>2. explained[1].latest \in Snap
      BY <3>1, RecordedIsWindow DEF Evaluated
    <3>3. explained[1].latest.at \in Nat
      BY <3>2, FieldsOfSnap
    <3>4. explained[1].latest.at < snap.at
      BY <1>1, <1>4, <1>5, <3>1, <3>3
    <3>5. explained[1].latest # log'[Len(log')]
      <4>1. log'[Len(log')] = snap
        BY <1>9
      <4> QED
        BY <3>3, <3>4, <4>1
    <3>6. explained[1].latest.at <= now' + behind'
      BY <1>1, <1>3, <1>4, <3>1, <3>3
    <3>7. Evaluated(explained'[1])
      BY <1>3, <3>1
    <3> QED
      BY <1>3, <2>2, <3>1, <3>5, <3>6, <3>7 DEF FindingsOK
  <2> QED
    BY <2>1, <2>2
<1> QED
  BY <1>7, <1>10, <1>11, <1>12 DEF Inv

\* As time passes, or the clock is set back, the record and what follows from it stand.
LEMMA TimePasses ==
    ASSUME Inv, TypesOK', now' + behind' >= now + behind, behind' >= behind,
           log' = log, series' = series, findings' = findings, explained' = explained, here' = here
    PROVE  Inv'
<1>1. now + behind \in Nat /\ behind \in Nat /\ now' + behind' \in Nat /\ behind' \in Nat
  BY DEF Inv, TypesOK
<1>2. LogOK'
  <2>1. ASSUME NEW i \in 1 .. Len(log)
        PROVE  log[i].at <= now' + behind' /\ log[i].at - log[i].ts <= behind'
    <3>1. log[i].at \in Nat /\ log[i].ts \in Int
      BY ElementOfSeq, FieldsOfSnap DEF Inv, LogOK, Recorded
    <3>2. log[i].at <= now + behind /\ log[i].at - log[i].ts <= behind
      BY DEF Inv, LogOK
    <3> QED
      BY <1>1, <3>1, <3>2
  <2> QED
    BY <2>1 DEF Inv, LogOK
<1>3. SeriesOK'
  BY DEF Inv, SeriesOK
<1>4. FindingsOK'
  <2>1. CASE explained = <<>>
    BY <2>1 DEF Inv, FindingsOK
  <2>2. CASE explained # <<>>
    <3>1. explained[1].latest.at <= now + behind /\ explained[1].latest.at \in Nat
      BY <2>2, RecordedIsWindow, FieldsOfSnap DEF Inv, FindingsOK, Evaluated
    <3>2. explained[1].latest.at <= now' + behind'
      BY <1>1, <3>1
    <3> QED
      BY <2>2, <3>2 DEF Inv, FindingsOK
  <2> QED
    BY <2>1, <2>2
<1> QED
  BY <1>2, <1>3, <1>4 DEF Inv

LEMMA ScrapeFailsInv ==
    ASSUME Inv, NEW gap \in here.failureGaps, ScrapeFails(gap)
    PROVE  Inv'
<1>1. /\ env \in DOMAIN Environments /\ now \in Int /\ behind \in Nat /\ now + behind \in Nat
      /\ cycles \in 0 .. here.maxCycles /\ failures \in 0 .. here.maxFailures
      /\ setbacks \in 0 .. here.maxSetbacks /\ announced \subseteq findings
  BY DEF Inv, TypesOK
<1>2. /\ gap \in Nat /\ gap > 0
      /\ here.maxCycles \in Nat /\ here.maxFailures \in Nat /\ here.maxSetbacks \in Nat
  BY <1>1, EnvironmentValid
<1>3. /\ pc' = "cycle" /\ now' = now + gap
      /\ cycles < here.maxCycles /\ cycles' = cycles + 1
      /\ failures < here.maxFailures /\ failures' = failures + 1
      /\ series' = series /\ log' = log
      /\ findings' = findings /\ announced' = announced /\ explained' = explained
      /\ env' = env /\ setbacks' = setbacks /\ behind' = behind
  BY DEF ScrapeFails, clockVars
<1>4. now' \in Int /\ now' + behind \in Nat /\ now' + behind >= now + behind
  BY <1>1, <1>2, <1>3
<1>5. here' = here
  BY <1>3 DEF here
<1>6. TypesOK'
  <2>1. cycles' \in 0 .. here'.maxCycles /\ failures' \in 0 .. here'.maxFailures
    BY <1>1, <1>2, <1>3, <1>5
  <2> QED
    BY <1>1, <1>3, <1>4, <1>5, <2>1 DEF TypesOK
<1> QED
  BY <1>1, <1>3, <1>4, <1>5, <1>6, TimePasses

LEMMA SetBackInv ==
    ASSUME Inv, NEW d \in here.setbacks, SetBack(d)
    PROVE  Inv'
<1>1. /\ env \in DOMAIN Environments /\ now \in Int /\ behind \in Nat /\ now + behind \in Nat
      /\ cycles \in 0 .. here.maxCycles /\ failures \in 0 .. here.maxFailures
      /\ setbacks \in 0 .. here.maxSetbacks /\ announced \subseteq findings
      /\ pc \in {"tick", "cycle"}
  BY DEF Inv, TypesOK
<1>2. d \in Nat /\ here.maxSetbacks \in Nat
  BY <1>1, EnvironmentValid
<1>3. /\ setbacks < here.maxSetbacks /\ setbacks' = setbacks + 1
      /\ now' = now - d /\ behind' = behind + d
      /\ env' = env /\ pc' = pc /\ cycles' = cycles /\ failures' = failures
      /\ series' = series /\ log' = log
      /\ findings' = findings /\ announced' = announced /\ explained' = explained
  BY DEF SetBack
<1>4. /\ now' \in Int /\ behind' \in Nat /\ now' + behind' = now + behind
      /\ behind' >= behind
  BY <1>1, <1>2, <1>3
<1>5. here' = here
  BY <1>3 DEF here
<1>6. TypesOK'
  <2>1. setbacks' \in 0 .. here'.maxSetbacks
    BY <1>1, <1>2, <1>3, <1>5
  <2> QED
    BY <1>1, <1>3, <1>4, <1>5, <2>1 DEF TypesOK
<1> QED
  BY <1>1, <1>3, <1>4, <1>5, <1>6, TimePasses

LEMMA PruneInv ==
    ASSUME Inv, Prune
    PROVE  Inv'
<1>1. /\ series' = <<>> /\ log' = log
      /\ now' = now /\ pc' = pc /\ findings' = findings /\ announced' = announced
      /\ cycles' = cycles /\ failures' = failures /\ explained' = explained
      /\ env' = env /\ setbacks' = setbacks /\ behind' = behind
  BY DEF Prune, clockVars
<1>2. here' = here
  BY <1>1 DEF here
<1>3. TypesOK' /\ LogOK'
  BY <1>1, <1>2 DEF Inv, TypesOK, LogOK
<1>4. SeriesOK'
  <2>1. Len(log) \in Nat /\ series' \in Seq(Snap) /\ Len(series') = 0
    BY <1>1, EmptySeq, LenProperties DEF Inv, LogOK, Recorded
  <2> QED
    BY <1>1, <2>1, RetentionValid DEF SeriesOK, EndsWith
<1>5. FindingsOK'
  BY <1>1 DEF Inv, FindingsOK
<1> QED
  BY <1>3, <1>4, <1>5 DEF Inv

LEMMA OnCycleInv ==
    ASSUME Inv, OnCycle
    PROVE  Inv'
<1>1. /\ pc' = "tick" /\ announced' = {c \in findings' : Rank(c) <= MinRank}
      /\ now' = now /\ series' = series /\ cycles' = cycles /\ failures' = failures
      /\ log' = log /\ env' = env /\ setbacks' = setbacks /\ behind' = behind
  BY DEF OnCycle, clockVars
<1>2. here' = here
  BY <1>1 DEF here
<1>3. TypesOK'
  BY <1>1, <1>2 DEF Inv, TypesOK
<1>4. LogOK' /\ SeriesOK'
  BY <1>1, <1>2 DEF Inv, LogOK, SeriesOK
<1>5. FindingsOK'
  <2>1. CASE series = <<>>
    BY <2>1 DEF OnCycle, FindingsOK
  <2>2. CASE series # <<>>
    <3> DEFINE e == Context(series[Len(series)], series, now)
    <3>1. explained' = <<e>> /\ findings' = analyzeWorkload(e)
      BY <2>2 DEF OnCycle
    <3>2. e.window = series /\ e.latest = series[Len(series)] /\ e.now \in Int
      BY <2>2 DEF Context, Inv, TypesOK
    <3> HIDE DEF e
    <3>3. Recorded(series)
      BY EndIsRecorded DEF Inv, LogOK, SeriesOK
    <3>4. series[Len(series)].at <= now + behind
      <4>1. Len(series) \in Nat /\ Len(series) > 0 /\ Len(series) <= Len(log) /\ Len(log) \in Nat
        BY <2>2, EmptySeq, LenProperties DEF Inv, LogOK, Recorded, SeriesOK, EndsWith
      <4>2. Len(series) \in 1 .. Len(series) /\ Len(log) \in 1 .. Len(log)
            /\ Len(log) - Len(series) + Len(series) = Len(log)
        BY <4>1
      <4>3. series[Len(series)] = log[Len(log)]
        BY <4>2 DEF Inv, SeriesOK, EndsWith
      <4> QED
        BY <4>2, <4>3 DEF Inv, LogOK
    <3>5. explained' # <<>> /\ explained'[1] = e
      BY <3>1
    <3>6. Evaluated(e)
      BY <2>2, <3>2, <3>3 DEF Evaluated
    <3> QED
      BY <1>1, <3>1, <3>2, <3>4, <3>5, <3>6 DEF FindingsOK
  <2> QED
    BY <2>1, <2>2
<1> QED
  BY <1>3, <1>4, <1>5 DEF Inv

THEOREM InvHolds == Spec => []Inv
<1>1. ASSUME Inv, [Next]_vars PROVE Inv'
  <2>1. ASSUME NEW sample \in here.samples, NEW gap \in here.gaps, ScrapeSucceeds(sample, gap)
        PROVE  Inv'
    BY <1>1, <2>1, ScrapeSucceedsInv
  <2>2. ASSUME NEW gap \in here.failureGaps, ScrapeFails(gap) PROVE Inv'
    BY <1>1, <2>2, ScrapeFailsInv
  <2>3. CASE OnCycle
    BY <1>1, <2>3, OnCycleInv
  <2>4. CASE Prune
    BY <1>1, <2>4, PruneInv
  <2>5. ASSUME NEW d \in here.setbacks, SetBack(d) PROVE Inv'
    BY <1>1, <2>5, SetBackInv
  <2>6. CASE UNCHANGED vars
    BY <1>1, <2>6 DEF vars, Inv, TypesOK, LogOK, SeriesOK, FindingsOK, here
  <2> QED
    BY <1>1, <2>1, <2>2, <2>3, <2>4, <2>5, <2>6 DEF Next
<1> QED
  BY <1>1, InitInv, PTL DEF Spec

-----------------------------------------------------------------------------
(* What the invariant gives *)

\* What the store keeps is a suffix of the record.
LEMMA EndIsSubSeq ==
    ASSUME NEW l \in Seq(Snap), NEW s, EndsWith(l, s)
    PROVE  s = SubSeq(l, Len(l) - Len(s) + 1, Len(l))
<1> DEFINE n == Len(s)
           r == SubSeq(l, Len(l) - n + 1, Len(l))
<1>1. n \in 0 .. Len(l) /\ s \in Seq(Snap)
  BY LenProperties DEF EndsWith
<1> HIDE DEF n
<1>2. EndsWith(l, r) /\ Len(r) = n
  BY <1>1, CutEndsWith
<1> HIDE DEF r
<1>3. r \in Seq(Snap) /\ Len(s) = Len(r) /\ \A i \in 1 .. Len(s) : s[i] = r[i]
  BY <1>2 DEF EndsWith, n
<1>4. s = r
  BY <1>1, <1>3, SeqEqual
<1> QED
  BY <1>4 DEF n, r

LEMMA FiredAreCodes ==
    ASSUME NEW e
    PROVE  analyzeWorkload(e) \subseteq fired(e) /\ fired(e) \subseteq Codes
BY DEF analyzeWorkload, fired

\* The type invariant: the store keeps at most RetentionSamples snapshots, the last that
\* were recorded.
THEOREM TypeCorrect == Spec => []TypeOK
<1>1. Inv => TypeOK
  <2> SUFFICES ASSUME Inv PROVE TypeOK
    OBVIOUS
  <2>1. log \in Seq(Snap) /\ DOMAIN log = 1 .. Len(log)
    BY LenProperties DEF Inv, LogOK, Recorded
  <2>2. series = SubSeq(log, Len(log) - Len(series) + 1, Len(log))
    BY <2>1, EndIsSubSeq DEF Inv, SeriesOK
  <2>3. ASSUME NEW i \in DOMAIN log PROVE Snapshot(log[i])
    <3>1. log[i].ts \in Int /\ log[i].at \in Nat
      BY <2>1, ElementOfSeq, FieldsOfSnap
    <3> QED
      BY <2>1, <3>1 DEF Inv, LogOK, Snapshot
  <2>4. findings \subseteq Codes
    BY FiredAreCodes DEF Inv, FindingsOK
  <2> QED
    BY <2>2, <2>3, <2>4 DEF Inv, TypesOK, SeriesOK, TypeOK
<1> QED
  BY <1>1, InvHolds, PTL

\* What is remembered of the latest evaluation.
LEMMA ExplainedIsEvaluated ==
    ASSUME Inv, NEW i \in DOMAIN explained
    PROVE  /\ i = 1 /\ Evaluated(explained[i]) /\ findings = analyzeWorkload(explained[i])
           /\ IsWindow(explained[i].window) /\ explained[i].latest \in Snap
<1>1. explained # <<>>
  OBVIOUS
<1>2. explained = <<explained[1]>> /\ Evaluated(explained[1]) /\ findings = analyzeWorkload(explained[1])
  BY <1>1 DEF Inv, FindingsOK
<1>3. DOMAIN explained = {1}
  BY <1>2
<1> QED
  BY <1>2, <1>3, RecordedIsWindow DEF Evaluated

\* No workload is given both of two opposite diagnoses.
THEOREM OppositesNeverTogether == Spec => []NoOppositeDiagnoses
<1>1. Inv => NoOppositeDiagnoses
  <2> SUFFICES ASSUME Inv PROVE NoOppositeDiagnoses
    OBVIOUS
  <2>1. CASE explained = <<>>
    BY <2>1 DEF Inv, FindingsOK, NoOppositeDiagnoses, Opposites
  <2>2. CASE explained # <<>>
    <3>1. 1 \in DOMAIN explained
      BY <2>2 DEF Inv, FindingsOK
    <3> DEFINE e == explained[1]
    <3>2. IsWindow(e.window) /\ e.latest.m \in Measurements /\ findings = analyzeWorkload(e)
      BY <3>1, ExplainedIsEvaluated, FieldsOfSnap
    <3> HIDE DEF e
    <3>3. \A c \in findings : Eval(c, e)
      BY <3>2, FindingFired
    <3> QED
      BY <3>2, <3>3, OppositesExclude DEF NoOppositeDiagnoses, Opposites
  <2> QED
    BY <2>1, <2>2
<1> QED
  BY <1>1, InvHolds, PTL

\* Whatever fired and is not reported is explained by something at least as severe.
THEOREM SilencingExplains == Spec => []NothingSilencedInVain
<1>1. Inv => NothingSilencedInVain
  <2> SUFFICES ASSUME Inv, NEW i \in DOMAIN explained, NEW c \in fired(explained[i])
               PROVE  c \in findings \/ \E d \in findings : Explains(d, c) /\ Rank(d) <= Rank(c)
    BY DEF NothingSilencedInVain
  <2>1. findings = analyzeWorkload(explained[i])
    BY ExplainedIsEvaluated
  <2> QED
    BY <2>1, SilencedIsExplained DEF Explains
<1> QED
  BY <1>1, InvHolds, PTL

\* The numbers shown with a finding are on the side of the threshold it names.
THEOREM EvidenceTrue == Spec => []EvidenceIsTrue
<1>1. Inv => EvidenceIsTrue
  <2> SUFFICES ASSUME Inv, NEW i \in DOMAIN explained, NEW c \in findings
               PROVE  EvidenceHolds(c, explained[i].latest)
    BY DEF EvidenceIsTrue
  <2> DEFINE e == explained[i]
  <2>1. IsWindow(e.window) /\ e.latest = e.window[Len(e.window)] /\ findings = analyzeWorkload(e)
    BY ExplainedIsEvaluated DEF Evaluated
  <2> HIDE DEF e
  <2>2. Len(e.window) \in 1 .. Len(e.window) /\ Len(e.window) >= Len(e.window) - 1
    BY <2>1 DEF IsWindow
  <2>3. NearlyLatest(e)
    BY <2>1, <2>2 DEF NearlyLatest
  <2>4. EvidenceHolds(c, e.latest)
    BY <2>1, <2>3, EvidenceOfFinding
  <2> QED
    BY <2>4 DEF e
<1> QED
  BY <1>1, InvHolds, PTL

\* What a rule calls sustained held for SustainFor of the time that really passed: between
\* two samples at least as much time passed as their stamps say, since the clock is only
\* ever set back.
THEOREM SustainedReal == Spec => []SustainedIsReal
<1>1. Inv => SustainedIsReal
  <2> SUFFICES ASSUME Inv, NEW i \in DOMAIN explained
               PROVE  LET e == explained[i]
                      IN  /\ Sustained(e, Deep) => ReallyHeld(e.window, Deep)
                          /\ Sustained(e, latencyHigh) => ReallyHeld(e.window, latencyHigh)
    BY DEF SustainedIsReal
  <2> DEFINE e == explained[i]
             w == e.window
             k == tailStart(w, T.SustainFor)
  <2>1. IsWindow(w) /\ Recorded(w) /\ e.latest = w[Len(w)]
    BY ExplainedIsEvaluated DEF Evaluated
  <2> HIDE DEF e
  <2>2. /\ Len(w) \in Nat /\ DOMAIN w = 1 .. Len(w) /\ Len(w) \in 1 .. Len(w)
        /\ k \in 1 .. Len(w) /\ T.SustainFor \in Nat
    <3> HIDE DEF w
    <3> QED
      BY <2>1, ThresholdsValid, RecentIsTail DEF IsWindow
  <2>3. LongEnough(w, k) => w[Len(w)].at - w[k].at >= T.SustainFor
    <3> HIDE DEF k, w
    <3>1. /\ w[Len(w)].ts \in Int /\ w[Len(w)].at \in Nat
          /\ w[k].ts \in Int /\ w[k].at \in Nat
      BY <2>1, <2>2, ElementOfSeq, FieldsOfSnap DEF Recorded
    <3>2. CASE k = Len(w)
      BY <2>2, <3>1, <3>2 DEF LongEnough
    <3>3. CASE k < Len(w)
      <4>1. w[k].at - w[k].ts <= w[Len(w)].at - w[Len(w)].ts
        BY <2>1, <2>2, <3>3 DEF Recorded
      <4> QED
        BY <2>2, <3>1, <4>1 DEF LongEnough
    <3>4. k = Len(w) \/ k < Len(w)
      <4>1. k \in Int /\ Len(w) \in Int /\ k <= Len(w)
        BY <2>2
      <4> QED
        BY <4>1
    <3> QED
      BY <3>2, <3>3, <3>4, Zenon
  <2>4. CASE T.SustainFor = 0
    <3>1. w[Len(w)].at - w[Len(w)].at >= T.SustainFor
      <4>1. w[Len(w)].at \in Nat
        BY <2>1, <2>2, ElementOfSeq, FieldsOfSnap DEF Recorded
      <4> QED
        BY <2>4, <4>1
    <3>2. \A j \in Len(w) .. Len(w) : j = Len(w)
      BY <2>2
    <3>3. /\ Sustained(e, Deep) => Deep(w[Len(w)])
          /\ Sustained(e, latencyHigh) => latencyHigh(w[Len(w)])
      BY <2>1, <2>4, SustainedAtOnce
    <3> HIDE DEF w
    <3>4. Sustained(e, Deep) => ReallyHeld(w, Deep)
      BY <2>2, <3>1, <3>2, <3>3 DEF ReallyHeld
    <3>5. Sustained(e, latencyHigh) => ReallyHeld(w, latencyHigh)
      BY <2>2, <3>1, <3>2, <3>3 DEF ReallyHeld
    <3> QED
      BY <3>4, <3>5 DEF w, e
  <2>5. CASE T.SustainFor > 0
    <3>1. /\ Sustained(e, Deep) => LongEnough(w, k) /\ \A j \in k .. Len(w) : Deep(w[j])
          /\ Sustained(e, latencyHigh) => LongEnough(w, k) /\ \A j \in k .. Len(w) : latencyHigh(w[j])
      BY <2>1, <2>5, SustainedOverTail
    <3> HIDE DEF w, k
    <3>2. Sustained(e, Deep) => ReallyHeld(w, Deep)
      BY <2>2, <2>3, <3>1 DEF ReallyHeld
    <3>3. Sustained(e, latencyHigh) => ReallyHeld(w, latencyHigh)
      BY <2>2, <2>3, <3>1 DEF ReallyHeld
    <3> QED
      BY <3>2, <3>3 DEF w, e
  <2>6. T.SustainFor = 0 \/ T.SustainFor > 0
    BY <2>2
  <2> QED
    BY <2>4, <2>5, <2>6
<1> QED
  BY <1>1, InvHolds, PTL

\* With samples in time order, sustained means that the condition held since before the
\* last SustainFor began.
THEOREM SustainedPersists == Spec => []SustainedIsPersistence
<1>1. Inv => SustainedIsPersistence
  <2> SUFFICES ASSUME Inv, T.SustainFor > 0, NEW i \in DOMAIN explained,
                      InOrder(explained[i].window)
               PROVE  LET e == explained[i]
                      IN  /\ Sustained(e, Deep) <=> HeldForSustain(e.window, Deep)
                          /\ Sustained(e, latencyHigh) <=> HeldForSustain(e.window, latencyHigh)
                          /\ Sustained(e, queueSaturated) <=> HeldForSustain(e.window, queueSaturated)
    BY DEF SustainedIsPersistence
  <2>1. IsWindow(explained[i].window)
    BY ExplainedIsEvaluated
  <2> QED
    BY <2>1, SustainedWhenInOrder
<1> QED
  BY <1>1, InvHolds, PTL

-----------------------------------------------------------------------------
(* Blindness *)

\* Only IFA-OBS-002 looks at the time of the evaluation: over the same history, a later
\* evaluation fires every rule an earlier one did, and no other but that one.
LEMMA EvalAgrees ==
    ASSUME NEW e, NEW f, e.latest = f.latest, e.window = f.window, NEW c \in Codes \ {"OBS-002"}
    PROVE  Eval(c, e) <=> Eval(c, f)
<1>1. /\ Sustained(e, Deep) <=> Sustained(f, Deep)
      /\ Sustained(e, queueSaturated) <=> Sustained(f, queueSaturated)
      /\ Sustained(e, queueIdle) <=> Sustained(f, queueIdle)
      /\ Sustained(e, kvHigh) <=> Sustained(f, kvHigh)
      /\ Sustained(e, latencyHigh) <=> Sustained(f, latencyHigh)
      /\ Sustained(e, gpuMemoryHigh) <=> Sustained(f, gpuMemoryHigh)
      /\ Sustained(e, errorsHigh) <=> Sustained(f, errorsHigh)
      /\ Sustained(e, abortsHigh) <=> Sustained(f, abortsHigh)
  BY DEF Sustained
<1>2. TrendExceeds(e, "RequestsWaiting", 1) <=> TrendExceeds(f, "RequestsWaiting", 1)
  BY DEF TrendExceeds
<1>3. CASE c \in {"CAP-001", "CAP-002", "CAP-003", "CAP-004", "KV-001", "KV-002"}
  BY <1>1, <1>2, <1>3 DEF Eval, queueWithSaturatedGPU, queueWithIdleGPU, queueGrowing,
     queueDeferred, kvPreemption, kvNearCapacity
<1>4. CASE c \in {"LAT-001", "LAT-002", "LAT-003", "LAT-004", "EFF-001", "EFF-002", "EFF-003"}
  BY <1>1, <1>4 DEF Eval, ttftAdmissionBound, ttftPrefillBound, e2eLatencyHigh, tailLatencyGap,
     prefixCacheIneffective, lowTokenThroughput, gpuMemoryPressure
<1>5. CASE c \in {"ERR-001", "ERR-002", "SCL-001", "SCL-002", "OBS-001"}
  BY <1>1, <1>5 DEF Eval, errorRateHigh, clientAborts, atReplicaCeiling, replicasNotReady,
     telemetryIncomplete
<1> QED
  BY <1>3, <1>4, <1>5 DEF Codes

LEMMA LaterWithdrawsNothing ==
    ASSUME NEW e, NEW f, e.latest = f.latest, e.window = f.window,
           e.now \in Int, f.now \in Int, e.latest.ts \in Int, e.now <= f.now
    PROVE  analyzeWorkload(e) \subseteq analyzeWorkload(f)
<1>1. fired(f) \ {"OBS-002"} \subseteq fired(e)
  BY EvalAgrees DEF fired
<1>2. fired(e) \subseteq fired(f)
  <2>1. "OBS-002" \in fired(e) => "OBS-002" \in fired(f)
    <3>1. telemetryStale(e) => telemetryStale(f)
      BY ThresholdsValid DEF telemetryStale
    <3> QED
      BY <3>1, RuleOfCode DEF fired
  <2> QED
    BY <2>1, EvalAgrees DEF fired
<1>3. Supersedes("OBS-002") = {}
  BY DEF Supersedes
<1> QED
  BY <1>1, <1>2, <1>3 DEF analyzeWorkload, superseded

LEMMA NewestOfLog ==
    ASSUME Inv, log # <<>>
    PROVE  Len(log) \in 1 .. Len(log) /\ log[Len(log)].at \in Nat /\ log[Len(log)].ts \in Int
<1>1. Len(log) \in 1 .. Len(log)
  BY EmptySeq, LenProperties DEF Inv, LogOK, Recorded
<1>2. log[Len(log)] \in Snap
  BY <1>1, ElementOfSeq DEF Inv, LogOK, Recorded
<1> QED
  BY <1>1, <1>2, FieldsOfSnap

\* As long as its newest sample is no older than RetentionPeriod, a workload is retained.
Spared ==
    log # <<>> /\ now + behind - log[Len(log)].at <= RetentionPeriod => series # <<>>

\* A sample is at least as old as its stamp says, the clock being only ever set back.
LEMMA PruneSpares ==
    ASSUME Inv, log # <<>>, Prune
    PROVE  now + behind - log[Len(log)].at > RetentionPeriod
<1> DEFINE s == series[Len(series)]
<1>1. s.ts < now - RetentionPeriod /\ series # <<>>
  BY DEF Prune, Expired
<1>2. /\ Len(series) \in Nat /\ Len(series) > 0 /\ Len(series) <= Len(log) /\ Len(log) \in Nat
  BY <1>1, EmptySeq, LenProperties DEF Inv, LogOK, Recorded, SeriesOK, EndsWith
<1>3. Len(series) \in 1 .. Len(series) /\ Len(log) \in 1 .. Len(log)
      /\ Len(log) - Len(series) + Len(series) = Len(log)
  BY <1>2
<1>4. s = log[Len(log)]
  BY <1>3 DEF Inv, SeriesOK, EndsWith
<1>5. s.at - s.ts <= behind /\ s \in Snap
  BY <1>3, <1>4, ElementOfSeq DEF Inv, LogOK, Recorded
<1> HIDE DEF s
<1>6. s.ts \in Int /\ s.at \in Nat /\ now \in Int /\ behind \in Nat
  BY <1>5, FieldsOfSnap DEF Inv, TypesOK
<1>7. now + behind - s.at > RetentionPeriod
  BY <1>1, <1>5, <1>6, RetentionValid
<1> QED
  BY <1>4, <1>7

LEMMA SparedHolds == Spec => []Spared
<1>1. Init => Spared
  BY DEF Init, Spared
<1>2. ASSUME Inv, Spared, [Next]_vars PROVE Spared'
  <2>1. ASSUME NEW sample \in here.samples, NEW gap \in here.gaps, ScrapeSucceeds(sample, gap)
        PROVE  Spared'
    <3> DEFINE snap == [ts |-> now', at |-> now' + behind, m |-> sample.m,
                        missing |-> sample.missing, runtime |-> sample.runtime]
    <3>1. series' = Add(series, snap, now') /\ now' = now + gap
      BY <2>1 DEF ScrapeSucceeds
    <3>2. gap \in Nat /\ sample \in Sample /\ now \in Int /\ now + behind \in Nat /\ behind \in Nat
      BY <1>2, EnvironmentValid DEF Inv, TypesOK
    <3>3. now' \in Int /\ now' + behind \in Nat
      BY <3>1, <3>2
    <3>4. snap \in Snap /\ snap.ts = now'
      BY <3>2, <3>3, SnapOfSample, Zenon
    <3> HIDE DEF snap
    <3>5. series \in Seq(Snap)
      BY <1>2 DEF Inv, SeriesOK, EndsWith
    <3>6. series' # <<>>
      BY <3>1, <3>4, <3>5, AddKeepsEnd
    <3> QED
      BY <3>6 DEF Spared
  <2>2. ASSUME NEW gap \in here.failureGaps, ScrapeFails(gap) PROVE Spared'
    <3>1. now' = now + gap /\ behind' = behind /\ log' = log /\ series' = series
      BY <2>2 DEF ScrapeFails, clockVars
    <3>2. gap \in Nat /\ now \in Int /\ behind \in Nat
      BY <1>2, EnvironmentValid DEF Inv, TypesOK
    <3>3. log # <<>> => log[Len(log)].at \in Nat
      BY <1>2, NewestOfLog
    <3> QED
      BY <1>2, <3>1, <3>2, <3>3, RetentionValid DEF Spared
  <2>3. CASE Prune
    <3>1. now' = now /\ behind' = behind /\ log' = log
      BY <2>3 DEF Prune, clockVars
    <3>2. log # <<>> => now + behind - log[Len(log)].at > RetentionPeriod
      BY <1>2, <2>3, PruneSpares
    <3>3. log # <<>> => log[Len(log)].at \in Nat
      BY <1>2, NewestOfLog
    <3> QED
      BY <1>2, <3>1, <3>2, <3>3, RetentionValid DEF Spared, Inv, TypesOK
  <2>4. ASSUME NEW d \in here.setbacks, SetBack(d) PROVE Spared'
    <3>1. now' = now - d /\ behind' = behind + d /\ log' = log /\ series' = series
      BY <2>4 DEF SetBack
    <3>2. d \in Nat /\ now \in Int /\ behind \in Nat
      BY <1>2, EnvironmentValid DEF Inv, TypesOK
    <3>3. log # <<>> => log[Len(log)].at \in Nat
      BY <1>2, NewestOfLog
    <3> QED
      BY <1>2, <3>1, <3>2, <3>3, RetentionValid DEF Spared
  <2>5. CASE OnCycle \/ UNCHANGED vars
    <3>1. now' = now /\ behind' = behind /\ log' = log /\ series' = series
      BY <2>5 DEF OnCycle, vars, clockVars
    <3> QED
      BY <1>2, <3>1 DEF Spared
  <2> QED
    BY <1>2, <2>1, <2>2, <2>3, <2>4, <2>5 DEF Next
<1> QED
  BY <1>1, <1>2, InvHolds, PTL DEF Spec

\* A workload that stops answering loses no finding while its newest sample is retained,
\* which is for RetentionPeriod whatever its clock does: an evaluation with nothing newer
\* on record looks at the history the one before saw.
THEOREM BlindnessHarmless == Spec => BlindnessWithdrawsNothing
<1>1. ASSUME Inv, Spared, [Next]_vars, pc = "cycle", pc' = "tick", Blind,
             explained[1].now <= now, now + behind - log[Len(log)].at <= RetentionPeriod
      PROVE  findings \subseteq findings'
  <2>1. OnCycle
    BY <1>1 DEF Next, ScrapeSucceeds, ScrapeFails, Prune, SetBack, vars
  <2> DEFINE e == explained[1]
             f == Context(series[Len(series)], series, now)
  <2>2. series # <<>>
    BY <1>1 DEF Spared, Blind
  <2>3. explained' = <<f>> /\ findings' = analyzeWorkload(f)
    BY <2>1, <2>2 DEF OnCycle
  <2>4. f.latest = series[Len(series)] /\ f.window = series /\ f.now = now
    BY <2>2 DEF Context
  <2>5. e.window = series /\ findings = analyzeWorkload(e) /\ e.latest = series[Len(series)]
        /\ e.latest \in Snap
    BY <1>1, <2>2, RecordedIsWindow DEF Blind, Inv, FindingsOK, Evaluated
  <2>6. e.now \in Int /\ now \in Int /\ e.now <= now
    BY <1>1 DEF Blind, Inv, TypesOK, FindingsOK
  <2> HIDE DEF e, f
  <2>7. e.latest = f.latest /\ e.window = f.window /\ e.latest.ts \in Int
    BY <2>4, <2>5, FieldsOfSnap
  <2> QED
    BY <2>3, <2>4, <2>5, <2>6, <2>7, LaterWithdrawsNothing
<1>2. Inv /\ Spared /\ [Next]_vars =>
        [pc = "cycle" /\ pc' = "tick" /\ Blind
         /\ explained[1].now <= now
         /\ now + behind - log[Len(log)].at <= RetentionPeriod => findings \subseteq findings']_vars
  BY <1>1
<1> QED
  BY <1>2, InvHolds, SparedHolds, PTL DEF Spec, BlindnessWithdrawsNothing

-----------------------------------------------------------------------------
(* Retention *)

\* With a clock that is never set back, each snapshot has a later stamp than those before.
Ordered(l) == \A i, j \in 1 .. Len(l) : i < j => l[i].ts < l[j].ts

\* What the store may have dropped of the record l when w is left: what is older than the
\* retention period, seen from the newest sample, or beyond the number of samples kept.
\* It keeps nothing that is too old.
Kept(l, w) ==
    /\ \A i \in 1 .. Len(l) - Len(w) :
          l[i].ts < l[Len(l)].ts - RetentionPeriod \/ i <= Len(l) - RetentionSamples
    /\ w[1].ts >= l[Len(l)].ts - RetentionPeriod

\* The leading samples are all of those before the first that is young enough.
LEMMA LeadingIsPrefix ==
    ASSUME NEW s \in Seq(Snap), NEW cutoff \in Int
    PROVE  LET n == leading(s, cutoff)
           IN  /\ n \in 0 .. Len(s)
               /\ \A i \in 1 .. n : s[i].ts < cutoff
               /\ n < Len(s) => s[n + 1].ts >= cutoff
<1> DEFINE young == {i \in 1 .. Len(s) : ~(s[i].ts < cutoff)} \cup {Len(s) + 1}
           old == {n \in DOMAIN s : \A i \in 1 .. n : s[i].ts < cutoff}
<1>1. Len(s) \in Nat /\ DOMAIN s = 1 .. Len(s) /\ \A i \in 1 .. Len(s) : s[i].ts \in Int
  BY LenProperties, ElementOfSeq, FieldsOfSnap
<1>2. PICK n \in young : \A m \in young : n <= m
  <2>1. young \in SUBSET Nat /\ young # {}
    BY <1>1
  <2> HIDE DEF young
  <2> QED
    BY <2>1, SmallestNumber
<1>3. n \in 1 .. Len(s) + 1 /\ \A i \in 1 .. n - 1 : s[i].ts < cutoff
  BY <1>1, <1>2
<1>4. n <= Len(s) => s[n].ts >= cutoff /\ ~(s[n].ts < cutoff)
  BY <1>1, <1>2
<1>5. old = 1 .. n - 1
  <2>1. \A i \in old : i < n
    <3> SUFFICES ASSUME NEW i \in old, n <= i PROVE FALSE
      BY <1>1, <1>3
    <3>1. n \in 1 .. i /\ n <= Len(s)
      BY <1>1, <1>3
    <3> QED
      BY <1>4, <3>1
  <2>2. \A i \in 1 .. n - 1 : i \in old
    BY <1>1, <1>3
  <2> QED
    BY <1>1, <2>1, <2>2
<1>6. Cardinality(1 .. n - 1) = n - 1
  <2> DEFINE b == n - 1
  <2>1. b \in Int /\ b >= 0 /\ 1 \in Int
    BY <1>3
  <2> HIDE DEF b
  <2>2. Cardinality(1 .. b) = IF 1 > b THEN 0 ELSE b - 1 + 1
    BY <2>1, FS_Interval, Zenon
  <2>3. Cardinality(1 .. b) = b
    BY <2>1, <2>2
  <2> QED
    BY <2>3 DEF b
<1>7. leading(s, cutoff) = n - 1
  <2> HIDE DEF young
  <2> QED
    BY <1>5, <1>6 DEF leading
<1> HIDE DEF young, old
<1>8. n - 1 \in 0 .. Len(s) /\ (n - 1 < Len(s) => n <= Len(s) /\ n - 1 + 1 = n)
  BY <1>1, <1>3
<1> QED
  BY <1>3, <1>4, <1>7, <1>8

\* Add drops nothing else from a history in order.
LEMMA AddKept ==
    ASSUME NEW s \in Seq(Snap), NEW snap \in Snap, Ordered(Append(s, snap))
    PROVE  Kept(Append(s, snap), Add(s, snap, snap.ts))
<1> DEFINE p == Append(s, snap)
           cutoff == snap.ts - RetentionPeriod
           drop == leading(p, cutoff)
           young == SubSeq(p, drop + 1, Len(p))
           capped == SubSeq(young, Len(young) - RetentionSamples + 1, Len(young))
<1>1. /\ p \in Seq(Snap) /\ Len(p) \in Nat \ {0} /\ p[Len(p)] = snap
      /\ \A i \in 1 .. Len(p) : p[i].ts \in Int
      /\ snap.ts \in Int
  <2>1. p \in Seq(Snap) /\ Len(p) = Len(s) + 1 /\ p[Len(p)] = snap /\ Len(s) \in Nat
    BY AppendProperties, LenProperties
  <2> HIDE DEF p
  <2>2. \A i \in 1 .. Len(p) : p[i] \in Snap
    BY <2>1, ElementOfSeq
  <2>3. \A i \in 1 .. Len(p) : p[i].ts \in Int
    BY <2>2, FieldsOfSnap
  <2>4. Len(p) \in Nat \ {0}
    BY <2>1
  <2>5. snap.ts \in Int
    BY FieldsOfSnap
  <2> QED
    BY <2>1, <2>3, <2>4, <2>5
<1>2. cutoff \in Int /\ cutoff <= snap.ts
  BY <1>1, RetentionValid
<1>3. Ordered(p)
  OBVIOUS
<1> HIDE DEF p
<1>4. /\ drop \in 0 .. Len(p)
      /\ \A i \in 1 .. drop : p[i].ts < cutoff
      /\ drop < Len(p) => p[drop + 1].ts >= cutoff
  <2> HIDE DEF cutoff
  <2> QED
    BY <1>1, <1>2, LeadingIsPrefix
<1>5. drop # Len(p)
  <2> SUFFICES ASSUME drop = Len(p) PROVE FALSE
    OBVIOUS
  <2> HIDE DEF cutoff, drop
  <2>1. Len(p) \in 1 .. drop
    BY <1>1
  <2> QED
    BY <1>1, <1>2, <1>4, <2>1
<1> HIDE DEF drop
<1>6. EndsWith(p, young) /\ Len(young) = Len(p) - drop /\ Len(young) \in Nat \ {0}
  <2>1. /\ Len(p) - drop \in 0 .. Len(p) /\ Len(p) - drop \in Nat \ {0}
        /\ drop + 1 = Len(p) - (Len(p) - drop) + 1
    BY <1>1, <1>4, <1>5
  <2> QED
    BY <1>1, <2>1, CutEndsWith
<1> HIDE DEF young
<1>7. CASE Len(young) > RetentionSamples
  <2>1. young \in Seq(Snap) /\ RetentionSamples \in 0 .. Len(young)
    BY <1>6, <1>7, RetentionValid DEF EndsWith
  <2>2. EndsWith(young, capped) /\ Len(capped) = RetentionSamples
    BY <2>1, CutEndsWith
  <2> HIDE DEF capped
  <2>3. EndsWith(p, capped)
    BY <1>1, <1>6, <2>2, EndsWithTransitive
  <2> DEFINE a == Len(p) - RetentionSamples + 1
  <2>4. capped[1] = p[a] /\ a \in drop + 2 .. Len(p)
    <3>1. 1 \in 1 .. Len(capped) /\ Len(p) - Len(capped) + 1 = a
      BY <2>2, RetentionValid
    <3>2. capped[1] = p[Len(p) - Len(capped) + 1]
      BY <2>3, <3>1 DEF EndsWith
    <3>3. a \in drop + 2 .. Len(p)
      BY <1>1, <1>4, <1>6, <1>7, RetentionValid
    <3> QED
      BY <3>1, <3>2, <3>3
  <2>5. capped[1].ts >= cutoff
    <3>1. drop + 1 \in 1 .. Len(p) /\ a \in 1 .. Len(p) /\ drop + 1 < a
      BY <1>1, <1>4, <2>4
    <3>2. p[drop + 1].ts < p[a].ts
      BY <1>3, <3>1 DEF Ordered
    <3> HIDE DEF a, cutoff
    <3> QED
      BY <1>1, <1>2, <1>4, <1>5, <2>4, <3>1, <3>2
  <2>6. Kept(p, capped)
    BY <1>1, <2>2, <2>5 DEF Kept
  <2>7. Add(s, snap, snap.ts) = capped
    BY <1>7 DEF Add, capped, young, drop, p
  <2> QED
    BY <2>6, <2>7 DEF p
<1>8. CASE ~(Len(young) > RetentionSamples)
  <2>1. young[1] = p[drop + 1]
    <3>1. 1 \in 1 .. Len(young) /\ Len(p) - Len(young) + 1 = drop + 1
      BY <1>1, <1>4, <1>6
    <3> QED
      BY <1>6, <3>1 DEF EndsWith
  <2>2. Len(p) - Len(young) = drop
    BY <1>1, <1>4, <1>6
  <2>3. Kept(p, young)
    <3>1. young[1].ts >= p[Len(p)].ts - RetentionPeriod
      BY <1>1, <1>4, <1>5, <2>1
    <3> QED
      BY <1>1, <1>4, <2>2, <3>1 DEF Kept
  <2>4. Add(s, snap, snap.ts) = young
    BY <1>8 DEF Add, young, drop, p
  <2> QED
    BY <2>3, <2>4 DEF p
<1> QED
  BY <1>7, <1>8

\* The samples of an ordered record that precede a time are its first ones.
LEMMA OrderedPrecede ==
    ASSUME NEW l \in Seq(Snap), l # <<>>, Ordered(l), NEW cutoff \in Int, cutoff < l[Len(l)].ts
    PROVE  \E b \in 0 .. Len(l) - 1 : Precede(l, cutoff, b)
<1> DEFINE late == {i \in 1 .. Len(l) : ~(l[i].ts < cutoff)}
<1>1. Len(l) \in Nat \ {0} /\ \A i \in 1 .. Len(l) : l[i].ts \in Int
  <2>1. Len(l) \in Nat \ {0} /\ \A i \in 1 .. Len(l) : l[i] \in Snap
    BY EmptySeq, LenProperties, ElementOfSeq
  <2> QED
    BY <2>1, FieldsOfSnap
<1>2. Len(l) \in late
  BY <1>1
<1>3. PICK n \in late : \A m \in late : n <= m
  <2>1. late \in SUBSET Nat /\ late # {}
    BY <1>1, <1>2
  <2> HIDE DEF late
  <2> QED
    BY <2>1, SmallestNumber
<1>4. n \in 1 .. Len(l) /\ ~(l[n].ts < cutoff) /\ \A i \in 1 .. Len(l) : i < n => l[i].ts < cutoff
  BY <1>1, <1>3
<1>5. \A i \in 1 .. Len(l) : n < i => ~(l[i].ts < cutoff)
  <2> SUFFICES ASSUME NEW i \in 1 .. Len(l), n < i PROVE ~(l[i].ts < cutoff)
    OBVIOUS
  <2>1. l[n].ts < l[i].ts
    BY <1>4 DEF Ordered
  <2>2. l[n].ts \in Int /\ l[i].ts \in Int
    BY <1>1, <1>4
  <2> QED
    BY <1>4, <2>1, <2>2
<1> HIDE DEF late
<1>6. n - 1 \in 0 .. Len(l) - 1 /\ Precede(l, cutoff, n - 1)
  BY <1>1, <1>4, <1>5 DEF Precede
<1> QED
  BY <1>6

\* Positions of a record of m samples, of which the last n are a window and the first b
\* are old: c of the window are, and k is where what recent returns begins.
LEMMA PositionsAgree ==
    ASSUME NEW m \in Nat, NEW n \in Nat \ {0}, n <= m, NEW b \in 0 .. m
    PROVE  LET a == m - n + 1
               c == IF a <= b THEN b - a + 1 ELSE 0
               k == IF c > 0 THEN c ELSE 1
           IN  c \in 0 .. n /\ k \in 1 .. n /\ a - 1 + k = IF a < b THEN b ELSE a
<1>1. CASE m - n + 1 <= b
  <2>1. b - (m - n + 1) + 1 \in 1 .. n
    BY <1>1
  <2> QED
    BY <1>1, <2>1
<1>2. CASE ~(m - n + 1 <= b)
  BY <1>2
<1> QED
  BY <1>1, <1>2

\* What recent returns of a window, told by positions of the record it ends: from the
\* last sample before the cutoff, or from the window's first.
LEMMA TailInRecord ==
    ASSUME NEW l \in Seq(Snap), NEW w, EndsWith(l, w), w # <<>>, NEW d \in Nat \ {0},
           NEW b \in 0 .. Len(l), Precede(l, l[Len(l)].ts - d, b)
    PROVE  LET a == Len(l) - Len(w) + 1
           IN  recent(w, d) = SubSeq(l, IF a < b THEN b ELSE a, Len(l))
<1> DEFINE a == Len(l) - Len(w) + 1
           cutoff == l[Len(l)].ts - d
           c == IF a <= b THEN b - a + 1 ELSE 0
           k == IF c > 0 THEN c ELSE 1
<1>1. /\ Len(l) \in Nat /\ Len(w) \in Nat \ {0} /\ Len(w) <= Len(l) /\ w \in Seq(Snap)
      /\ \A i \in 1 .. Len(w) : w[i] = l[Len(l) - Len(w) + i]
  BY EmptySeq, LenProperties DEF EndsWith
<1>2. \A i \in 1 .. Len(w) : w[i] \in Snap
  BY <1>1, ElementOfSeq
<1>3. IsWindow(w)
  <2>1. w = [i \in 1 .. Len(w) |-> w[i]]
    BY <1>1
  <2> QED
    BY <1>1, <1>2, <2>1, FieldsOfSnap DEF IsWindow
<1>4. w[Len(w)] = l[Len(l)]
  <2>1. Len(w) \in 1 .. Len(w) /\ Len(l) - Len(w) + Len(w) = Len(l)
    BY <1>1
  <2> QED
    BY <1>1, <2>1
<1>5. c \in 0 .. Len(w) /\ k \in 1 .. Len(w) /\ a - 1 + k = IF a < b THEN b ELSE a
  BY <1>1, PositionsAgree
<1>6. Precede(w, cutoff, c)
  <2> SUFFICES ASSUME NEW i \in 1 .. Len(w) PROVE w[i].ts < cutoff <=> i <= c
    BY DEF Precede
  <2>1. Len(l) - Len(w) + i \in 1 .. Len(l) /\ w[i] = l[Len(l) - Len(w) + i]
    BY <1>1
  <2>2. w[i].ts < cutoff <=> Len(l) - Len(w) + i <= b
    BY <2>1 DEF Precede
  <2>3. Len(l) - Len(w) + i <= b <=> i <= c
    BY <1>1
  <2> QED
    BY <2>2, <2>3
<1> HIDE DEF c
<1>7. tailStart(w, d) = k
  <2>1. searchBefore(w, w[Len(w)].ts - d) = c
    BY <1>1, <1>4, <1>5, <1>6, SearchFinds
  <2>2. d > 0
    OBVIOUS
  <2> QED
    BY <2>1, <2>2, Zenon DEF tailStart
<1> HIDE DEF k
<1>8. recent(w, d) = SubSeq(w, k, Len(w))
  <2>1. d \in Int
    OBVIOUS
  <2> QED
    BY <1>3, <1>7, <2>1, RecentIsTail
<1> DEFINE n == Len(w) - k + 1
           r == SubSeq(w, k, Len(w))
<1>9. n \in 0 .. Len(w) /\ k = Len(w) - n + 1 /\ Len(l) - n + 1 = a - 1 + k
  BY <1>1, <1>5
<1> HIDE DEF n, a
<1>10. EndsWith(w, r) /\ Len(r) = n
  BY <1>1, <1>9, CutEndsWith
<1> HIDE DEF r
<1>11. EndsWith(l, r)
  BY <1>1, <1>10, EndsWithTransitive
<1>12. r = SubSeq(l, Len(l) - n + 1, Len(l))
  BY <1>10, <1>11, EndIsSubSeq
<1>13. recent(w, d) = SubSeq(l, IF a < b THEN b ELSE a, Len(l))
  BY <1>5, <1>8, <1>9, <1>12 DEF r
<1> QED
  BY <1>13 DEF a

\* Where the record reaches the age at which the store forgets, it has done so before a
\* window of d begins, or was silent for longer than that; and more samples than the
\* store keeps span more than d.
Covers(l, d) ==
    LET newest == l[Len(l)].ts
    IN  /\ \A i \in 2 .. Len(l) :
              l[i - 1].ts < newest - RetentionPeriod /\ newest - RetentionPeriod <= l[i].ts
                 => l[i].ts < newest - d \/ l[i].ts - l[i - 1].ts > RetentionPeriod
        /\ Len(l) > RetentionSamples => l[Len(l) - RetentionSamples + 1].ts < newest - d

\* Where the record begins anew after a silence.
Silences(l) == {i \in DOMAIN l : i > 1 /\ l[i].ts - l[i - 1].ts > RetentionPeriod}
LastSilence(l, f) == f \in Silences(l) \cup {1} /\ \A j \in Silences(l) : j <= f

\* Then recent returns the same of what the store kept and of the record since then.
LEMMA KeptIsEnough ==
    ASSUME NEW l \in Seq(Snap), l # <<>>, Ordered(l), NEW w, EndsWith(l, w), w # <<>>, Kept(l, w),
           NEW d \in Nat \ {0}, Covers(l, d), NEW f, LastSilence(l, f)
    PROVE  recent(w, d) = recent(SubSeq(l, f, Len(l)), d)
<1> DEFINE a == Len(l) - Len(w) + 1
           newest == l[Len(l)].ts
           r == SubSeq(l, f, Len(l))
           n == Len(l) - f + 1
<1>1. /\ Len(l) \in Nat \ {0} /\ DOMAIN l = 1 .. Len(l)
      /\ \A i \in 1 .. Len(l) : l[i].ts \in Int
  <2>1. /\ Len(l) \in Nat \ {0} /\ DOMAIN l = 1 .. Len(l)
        /\ \A i \in 1 .. Len(l) : l[i] \in Snap
    BY EmptySeq, LenProperties, ElementOfSeq
  <2>2. \A i \in 1 .. Len(l) : l[i].ts \in Int
    BY <2>1, FieldsOfSnap
  <2> QED
    BY <2>1, <2>2
<1>2. Len(w) \in Nat \ {0} /\ Len(w) <= Len(l)
  BY EmptySeq, LenProperties DEF EndsWith
<1>3. newest \in Int /\ newest - d \in Int /\ newest - d < newest
  BY <1>1
<1>4. PICK b \in 0 .. Len(l) - 1 : Precede(l, newest - d, b)
  <2> HIDE DEF newest
  <2> QED
    BY <1>3, OrderedPrecede DEF newest
<1>5. f \in 1 .. Len(l) /\ f \in Int /\ f <= Len(l)
  BY <1>1 DEF LastSilence, Silences
<1>6. a \in 1 .. Len(l) /\ w[1] = l[a]
  <2>1. 1 \in 1 .. Len(w) /\ Len(l) - Len(w) + 1 \in 1 .. Len(l)
    BY <1>1, <1>2
  <2> QED
    BY <2>1 DEF EndsWith
<1>7. l[a].ts >= newest - RetentionPeriod
  BY <1>6 DEF Kept
<1>8. ~(a < f)
  <2> SUFFICES ASSUME a < f PROVE FALSE
    OBVIOUS
  <2>1. f \in Silences(l) /\ f - 1 \in 1 .. Len(l)
    BY <1>1, <1>5, <1>6 DEF LastSilence
  <2>2. l[f].ts - l[f - 1].ts > RetentionPeriod
    BY <2>1 DEF Silences
  <2>3. l[a].ts <= l[f - 1].ts
    <3>1. a = f - 1 \/ a < f - 1
      BY <1>5, <1>6
    <3> QED
      BY <1>1, <1>6, <2>1, <3>1 DEF Ordered
  <2>4. l[f].ts <= newest
    <3> HIDE DEF a, r, n
    <3>0. \A x, y \in Int : x <= y => x = y \/ x < y
      OBVIOUS
    <3>1. f = Len(l) \/ f < Len(l)
      <4>1. f \in Int /\ Len(l) \in Int /\ f <= Len(l)
        BY <1>1, <1>5
      <4> QED
        BY <3>0, <4>1
    <3>2. f < Len(l) => l[f].ts < l[Len(l)].ts
      BY <1>1, <1>5 DEF Ordered
    <3>3. l[f].ts \in Int
      BY <1>1, <1>5
    <3> QED
      BY <1>3, <3>1, <3>2, <3>3
  <2> HIDE DEF a, newest
  <2>5. l[f].ts \in Int /\ l[f - 1].ts \in Int /\ l[a].ts \in Int
    BY <1>1, <1>5, <1>6, <2>1
  <2> QED
    BY <1>3, <1>7, <2>2, <2>3, <2>4, <2>5, RetentionValid
<1>9. f < a => a <= b
  <2> SUFFICES ASSUME f < a PROVE l[a].ts < newest - d
    BY <1>4, <1>6 DEF Precede
  <2>1. a - 1 \in 1 .. Len(l) - Len(w) /\ a - 1 \in 1 .. Len(l) /\ a \in 2 .. Len(l)
    BY <1>1, <1>2, <1>5, <1>6
  <2>2. CASE a - 1 <= Len(l) - RetentionSamples
    <3> DEFINE m == Len(l) - RetentionSamples + 1
    <3>1. Len(l) > RetentionSamples /\ m \in 1 .. Len(l) /\ a <= m
      BY <1>1, <1>6, <2>1, <2>2, RetentionValid
    <3>2. l[m].ts < newest - d
      BY <3>1 DEF Covers
    <3> HIDE DEF m, a, newest
    <3>3. l[a].ts <= l[m].ts
      <4>1. a = m \/ a < m
        BY <1>6, <3>1
      <4> QED
        BY <1>1, <1>6, <3>1, <4>1 DEF Ordered
    <3> QED
      BY <1>1, <1>3, <1>6, <3>1, <3>2, <3>3
  <2>3. CASE ~(a - 1 <= Len(l) - RetentionSamples)
    <3>1. l[a - 1].ts < newest - RetentionPeriod
      BY <2>1, <2>3 DEF Kept
    <3>2. l[a].ts < newest - d \/ l[a].ts - l[a - 1].ts > RetentionPeriod
      <4> HIDE DEF a
      <4>0. newest - RetentionPeriod <= l[a].ts
        BY <1>1, <1>3, <1>6, <1>7, RetentionValid
      <4> QED
        BY <2>1, <3>1, <4>0 DEF Covers
    <3>3. ~(l[a].ts - l[a - 1].ts > RetentionPeriod)
      <4> HIDE DEF a
      <4> SUFFICES ASSUME l[a].ts - l[a - 1].ts > RetentionPeriod PROVE FALSE
        OBVIOUS
      <4>1. a \in Silences(l)
        BY <1>1, <1>6, <2>1 DEF Silences
      <4>2. a <= f
        BY <4>1 DEF LastSilence
      <4> QED
        BY <1>5, <1>6, <4>2
    <3> QED
      BY <3>2, <3>3
  <2> QED
    BY <2>2, <2>3
<1> DEFINE x == IF a < b THEN b ELSE a
           y == IF f < b THEN b ELSE f
<1>10. x = y
  <2> HIDE DEF a, r, n
  <2>1. a \in Int /\ f \in Int /\ b \in Int
    BY <1>4, <1>5, <1>6
  <2>2. CASE a = f
    BY <2>2
  <2>3. CASE f < a
    <3>1. a <= b /\ f < b
      BY <1>9, <2>1, <2>3
    <3> QED
      BY <2>1, <3>1
  <2> QED
    BY <1>8, <2>1, <2>2, <2>3
<1>11. EndsWith(l, r) /\ Len(r) = n /\ r # <<>> /\ Len(l) - Len(r) + 1 = f
  <2>1. n \in 0 .. Len(l) /\ Len(l) - n + 1 = f /\ n # 0
    BY <1>1, <1>5
  <2> HIDE DEF n
  <2>2. EndsWith(l, r) /\ Len(r) = n
    BY <2>1, CutEndsWith
  <2> HIDE DEF r
  <2>3. r # <<>>
    BY <2>1, <2>2, EmptySeq
  <2> QED
    BY <2>1, <2>2, <2>3
<1> HIDE DEF r
<1>12. b \in 0 .. Len(l) /\ Precede(l, l[Len(l)].ts - d, b)
  BY <1>1, <1>4
<1>13. recent(w, d) = SubSeq(l, x, Len(l))
  BY <1>12, TailInRecord
<1>14. recent(r, d) = SubSeq(l, y, Len(l))
  BY <1>11, <1>12, TailInRecord
<1>15. recent(w, d) = recent(r, d)
  <2> HIDE DEF x, y
  <2> QED
    BY <1>10, <1>13, <1>14
<1> QED
  BY <1>15 DEF r

\* The rules depend on no more of a history than recent gives them.
LEMMA RulesSeeRecent ==
    ASSUME NEW e, NEW f, e.latest = f.latest, e.now = f.now, T.SustainFor > 0,
           recent(e.window, T.SustainFor) = recent(f.window, T.SustainFor),
           recent(e.window, T.SustainFor * TrendWindow) = recent(f.window, T.SustainFor * TrendWindow)
    PROVE  fired(e) = fired(f)
<1>0. ~(T.SustainFor <= 0)
  BY ThresholdsValid
<1>1. /\ Sustained(e, Deep) <=> Sustained(f, Deep)
      /\ Sustained(e, queueSaturated) <=> Sustained(f, queueSaturated)
      /\ Sustained(e, queueIdle) <=> Sustained(f, queueIdle)
      /\ Sustained(e, kvHigh) <=> Sustained(f, kvHigh)
      /\ Sustained(e, latencyHigh) <=> Sustained(f, latencyHigh)
      /\ Sustained(e, gpuMemoryHigh) <=> Sustained(f, gpuMemoryHigh)
      /\ Sustained(e, errorsHigh) <=> Sustained(f, errorsHigh)
      /\ Sustained(e, abortsHigh) <=> Sustained(f, abortsHigh)
  BY <1>0 DEF Sustained
<1>2. TrendExceeds(e, "RequestsWaiting", 1) <=> TrendExceeds(f, "RequestsWaiting", 1)
  BY DEF TrendExceeds
<1>3. ASSUME NEW c \in Codes PROVE Eval(c, e) <=> Eval(c, f)
  <2>1. CASE c \in {"CAP-001", "CAP-002", "CAP-003", "CAP-004", "KV-001", "KV-002"}
    BY <1>1, <1>2, <2>1 DEF Eval, queueWithSaturatedGPU, queueWithIdleGPU, queueGrowing,
       queueDeferred, kvPreemption, kvNearCapacity
  <2>2. CASE c \in {"LAT-001", "LAT-002", "LAT-003", "LAT-004", "EFF-001", "EFF-002", "EFF-003"}
    BY <1>1, <2>2 DEF Eval, ttftAdmissionBound, ttftPrefillBound, e2eLatencyHigh, tailLatencyGap,
       prefixCacheIneffective, lowTokenThroughput, gpuMemoryPressure
  <2>3. CASE c \in {"ERR-001", "ERR-002", "SCL-001", "SCL-002", "OBS-001", "OBS-002"}
    BY <1>1, <2>3 DEF Eval, errorRateHigh, clientAborts, atReplicaCeiling, replicasNotReady,
       telemetryIncomplete, telemetryStale
  <2> QED
    BY <2>1, <2>2, <2>3 DEF Codes
<1> QED
  BY <1>3 DEF fired

\* What was dropped of the end of a record was dropped of the record.
LEMMA KeptOfEnd ==
    ASSUME NEW l \in Seq(Snap), NEW p, EndsWith(l, p), p # <<>>, NEW w, EndsWith(p, w), Kept(p, w),
           \A i \in 1 .. Len(l) - Len(p) :
              l[i].ts < l[Len(l)].ts - RetentionPeriod \/ i <= Len(l) - RetentionSamples
    PROVE  Kept(l, w)
<1>1. /\ Len(l) \in Nat /\ Len(p) \in Nat \ {0} /\ Len(w) \in Nat
      /\ Len(w) <= Len(p) /\ Len(p) <= Len(l)
      /\ \A i \in 1 .. Len(p) : p[i] = l[Len(l) - Len(p) + i]
  BY EmptySeq, LenProperties DEF EndsWith
<1>2. p[Len(p)] = l[Len(l)]
  <2>1. Len(p) \in 1 .. Len(p) /\ Len(l) - Len(p) + Len(p) = Len(l)
    BY <1>1
  <2> QED
    BY <1>1, <2>1
<1>3. ASSUME NEW i \in 1 .. Len(l) - Len(w)
      PROVE  l[i].ts < l[Len(l)].ts - RetentionPeriod \/ i <= Len(l) - RetentionSamples
  <2>1. CASE i <= Len(l) - Len(p)
    <3>1. i \in 1 .. Len(l) - Len(p)
      BY <1>1, <2>1
    <3> QED
      BY <3>1
  <2>2. CASE ~(i <= Len(l) - Len(p))
    <3> DEFINE j == i - (Len(l) - Len(p))
    <3>1. j \in 1 .. Len(p) - Len(w) /\ j \in 1 .. Len(p) /\ Len(l) - Len(p) + j = i
      BY <1>1, <2>2
    <3>2. j <= Len(p) - RetentionSamples => i <= Len(l) - RetentionSamples
      BY <1>1, RetentionValid
    <3> HIDE DEF j
    <3>3. p[j] = l[i]
      BY <1>1, <3>1
    <3>4. p[j].ts < p[Len(p)].ts - RetentionPeriod \/ j <= Len(p) - RetentionSamples
      BY <3>1 DEF Kept
    <3> QED
      BY <1>2, <3>2, <3>3, <3>4
  <2> QED
    BY <2>1, <2>2
<1>4. w[1].ts >= l[Len(l)].ts - RetentionPeriod
  BY <1>2 DEF Kept
<1> QED
  BY <1>3, <1>4 DEF Kept

\* While the clock has never been set back: the record is in order and lies in the past;
\* the store, and the window last evaluated, lack only what Kept allows; and a store that
\* was pruned has forgotten nothing young.
RetentionInv ==
    behind = 0 =>
        /\ Ordered(log) /\ \A i \in 1 .. Len(log) : log[i].ts <= now
        /\ series = <<>> => \A i \in 1 .. Len(log) : log[i].ts < now - RetentionPeriod
        /\ series # <<>> => Kept(log, series)
        /\ pc = "tick" /\ explained # <<>> =>
              /\ explained[1] \in [latest : Snap, window : Seq(Snap), now : Int]
              /\ explained[1].window # <<>>
              /\ EndsWith(log, explained[1].window) /\ Kept(log, explained[1].window)

LEMMA ScrapeSucceedsRetention ==
    ASSUME Inv, RetentionInv, NEW sample \in here.samples, NEW gap \in here.gaps,
           ScrapeSucceeds(sample, gap)
    PROVE  RetentionInv'
<1> SUFFICES ASSUME behind = 0
             PROVE  /\ Ordered(log)' /\ (\A i \in 1 .. Len(log) : log[i].ts <= now)'
                    /\ series' # <<>> /\ Kept(log, series)' /\ pc' = "cycle"
  BY DEF RetentionInv, ScrapeSucceeds, clockVars
<1> DEFINE snap == [ts |-> now', at |-> now' + behind, m |-> sample.m,
                    missing |-> sample.missing, runtime |-> sample.runtime]
           p == Append(series, snap)
<1>1. /\ now \in Int /\ gap \in Nat /\ gap > 0 /\ sample \in Sample
      /\ log \in Seq(Snap) /\ EndsWith(log, series) /\ series \in Seq(Snap)
      /\ now + behind \in Nat
  BY EnvironmentValid DEF Inv, TypesOK, LogOK, Recorded, SeriesOK, EndsWith
<1>2. /\ now' = now + gap /\ series' = Add(series, snap, snap.ts) /\ log' = Append(log, snap)
      /\ pc' = "cycle"
  BY DEF ScrapeSucceeds
<1>3. now' \in Int /\ now' > now /\ now' + behind \in Nat
  BY <1>1, <1>2
<1>4. snap \in Snap /\ snap.ts = now'
  BY <1>1, <1>3, SnapOfSample, Zenon
<1> HIDE DEF snap
<1>5. /\ log' \in Seq(Snap) /\ Len(log) \in Nat /\ Len(log') = Len(log) + 1
      /\ \A i \in 1 .. Len(log) : log'[i] = log[i]
      /\ log'[Len(log')] = snap
  BY <1>1, <1>2, <1>4, AppendProperties, LenProperties
<1>6. \A i \in 1 .. Len(log) : log[i].ts \in Int /\ log[i].ts <= now /\ log'[i].ts < now'
  <2> SUFFICES ASSUME NEW i \in 1 .. Len(log)
               PROVE  log[i].ts \in Int /\ log[i].ts <= now /\ log'[i].ts < now'
    OBVIOUS
  <2>1. log[i].ts \in Int
    BY <1>1, ElementOfSeq, FieldsOfSnap
  <2>2. log[i].ts <= now
    BY DEF RetentionInv
  <2>3. log'[i].ts = log[i].ts
    BY <1>5
  <2> QED
    BY <1>1, <1>3, <2>1, <2>2, <2>3
<1>7. Ordered(log)'
  <2> SUFFICES ASSUME NEW i \in 1 .. Len(log'), NEW j \in 1 .. Len(log'), i < j
               PROVE  log'[i].ts < log'[j].ts
    BY DEF Ordered
  <2>1. i \in 1 .. Len(log)
    BY <1>5
  <2>2. CASE j \in 1 .. Len(log)
    <3>1. log[i].ts < log[j].ts
      BY <2>1, <2>2 DEF RetentionInv, Ordered
    <3> QED
      BY <1>5, <2>1, <2>2, <3>1
  <2>3. CASE j = Len(log')
    BY <1>4, <1>5, <1>6, <2>1, <2>3
  <2> QED
    BY <1>5, <2>2, <2>3
<1>8. ASSUME NEW i \in 1 .. Len(log') PROVE log'[i].ts <= now'
  <2>1. CASE i \in 1 .. Len(log)
    <3>1. log'[i].ts \in Int /\ log'[i].ts < now'
      BY <1>5, <1>6, <2>1
    <3> QED
      BY <1>3, <3>1
  <2>2. CASE i = Len(log')
    BY <1>3, <1>4, <1>5, <2>2
  <2> QED
    BY <1>5, <2>1, <2>2
<1>9. /\ p \in Seq(Snap) /\ Len(p) = Len(series) + 1 /\ Len(series) \in Nat /\ p # <<>>
      /\ EndsWith(log', p)
  <2>1. p \in Seq(Snap) /\ Len(p) = Len(series) + 1 /\ Len(series) \in Nat
    BY <1>1, <1>4, AppendProperties, LenProperties
  <2>2. EndsWith(log', p)
    BY <1>1, <1>2, <1>4, AppendEndsWith
  <2> HIDE DEF p
  <2>3. p # <<>>
    BY <2>1, EmptySeq
  <2> QED
    BY <2>1, <2>2, <2>3
<1>10. EndsWith(p, series') /\ series' # <<>>
  BY <1>1, <1>2, <1>4, AddKeepsEnd
<1>11. Ordered(p)
  <2> HIDE DEF p
  <2> SUFFICES ASSUME NEW i \in 1 .. Len(p), NEW j \in 1 .. Len(p), i < j
               PROVE  p[i].ts < p[j].ts
    BY DEF Ordered
  <2> DEFINE m == Len(log') - Len(p)
  <2>1. /\ m \in Nat /\ m + i \in 1 .. Len(log') /\ m + j \in 1 .. Len(log') /\ m + i < m + j
    BY <1>5, <1>9 DEF EndsWith
  <2>2. p[i] = log'[m + i] /\ p[j] = log'[m + j]
    BY <1>9 DEF EndsWith
  <2> HIDE DEF m
  <2> QED
    BY <1>7, <2>1, <2>2 DEF Ordered
<1>12. Kept(p, series')
  BY <1>1, <1>2, <1>4, <1>11, AddKept
<1>13. ASSUME NEW i \in 1 .. Len(log') - Len(p)
       PROVE  log'[i].ts < log'[Len(log')].ts - RetentionPeriod \/ i <= Len(log') - RetentionSamples
  <2> HIDE DEF p
  <2>1. i \in 1 .. Len(log) - Len(series) /\ i \in 1 .. Len(log) /\ Len(log) \in 1 .. Len(log)
    BY <1>5, <1>9
  <2>2. log'[i] = log[i] /\ log[i].ts \in Int /\ log[Len(log)].ts \in Int /\ log[Len(log)].ts <= now
    BY <1>5, <1>6, <2>1
  <2>3. snap.ts - RetentionPeriod \in Int /\ snap.ts > now /\ log'[Len(log')] = snap
    BY <1>3, <1>4, <1>5, RetentionValid
  <2>4. CASE series = <<>>
    <3>1. log[i].ts < now - RetentionPeriod
      BY <2>1, <2>4 DEF RetentionInv
    <3>2. log'[i].ts < snap.ts - RetentionPeriod
      BY <1>1, <1>3, <1>4, <2>2, <3>1, RetentionValid
    <3> QED
      BY <2>3, <3>2
  <2>5. CASE series # <<>>
    <3>1. log[i].ts < log[Len(log)].ts - RetentionPeriod \/ i <= Len(log) - RetentionSamples
      BY <2>1, <2>5 DEF RetentionInv, Kept
    <3>2. CASE log[i].ts < log[Len(log)].ts - RetentionPeriod
      <4>1. log'[i].ts < snap.ts - RetentionPeriod
        BY <1>1, <1>3, <1>4, <2>2, <3>2, RetentionValid
      <4> QED
        BY <2>3, <4>1
    <3>3. CASE i <= Len(log) - RetentionSamples
      <4>1. i <= Len(log') - RetentionSamples
        BY <1>5, <3>3, RetentionValid
      <4> QED
        BY <4>1
    <3> QED
      BY <3>1, <3>2, <3>3
  <2> QED
    BY <2>4, <2>5
<1>14. Kept(log', series')
  <2> HIDE DEF p
  <2> QED
    BY <1>5, <1>9, <1>10, <1>12, <1>13, KeptOfEnd
<1> QED
  BY <1>2, <1>7, <1>8, <1>10, <1>14

LEMMA OnCycleRetention ==
    ASSUME Inv, RetentionInv, OnCycle
    PROVE  RetentionInv'
<1> SUFFICES ASSUME behind = 0 PROVE RetentionInv'
  BY DEF RetentionInv, OnCycle, clockVars
<1>1. /\ now' = now /\ series' = series /\ log' = log /\ behind' = behind
      /\ log \in Seq(Snap) /\ EndsWith(log, series) /\ now \in Int
  BY DEF OnCycle, clockVars, Inv, TypesOK, LogOK, Recorded, SeriesOK
<1>2. CASE series = <<>>
  BY <1>1, <1>2 DEF OnCycle, RetentionInv
<1>3. CASE series # <<>>
  <2> DEFINE e == Context(series[Len(series)], series, now)
  <2>1. explained' = <<e>> /\ explained'[1] = e
    BY <1>3 DEF OnCycle
  <2>2. e.window = series
    BY <1>3 DEF Context
  <2>3. e \in [latest : Snap, window : Seq(Snap), now : Int]
    <3>1. series \in Seq(Snap) /\ Len(series) \in 1 .. Len(series)
      BY <1>1, <1>3, EmptySeq, LenProperties DEF EndsWith
    <3>2. series[Len(series)] \in Snap
      BY <3>1, ElementOfSeq
    <3> QED
      BY <1>1, <1>3, <3>1, <3>2 DEF Context
  <2> HIDE DEF e
  <2> QED
    BY <1>1, <1>3, <2>1, <2>2, <2>3 DEF RetentionInv
<1> QED
  BY <1>2, <1>3

\* The store is pruned of a workload whose newest sample is too old, so all are.
LEMMA PruneRetention ==
    ASSUME Inv, RetentionInv, Prune
    PROVE  RetentionInv'
<1> SUFFICES ASSUME behind = 0 PROVE RetentionInv'
  BY DEF RetentionInv, Prune, clockVars
<1>1. /\ now' = now /\ series' = <<>> /\ log' = log /\ behind' = behind /\ pc' = pc
      /\ explained' = explained
      /\ log \in Seq(Snap) /\ EndsWith(log, series) /\ now \in Int
  BY DEF Prune, clockVars, Inv, TypesOK, LogOK, Recorded, SeriesOK
<1>2. series # <<>> /\ series[Len(series)].ts < now - RetentionPeriod
  BY DEF Prune, Expired
<1>3. /\ Len(log) \in Nat /\ Len(series) \in Nat \ {0} /\ Len(series) <= Len(log)
      /\ series[Len(series)] = log[Len(log)]
  <2>1. Len(log) \in Nat /\ Len(series) \in Nat \ {0} /\ Len(series) <= Len(log)
    BY <1>1, <1>2, EmptySeq, LenProperties DEF EndsWith
  <2>2. Len(series) \in 1 .. Len(series) /\ Len(log) - Len(series) + Len(series) = Len(log)
    BY <2>1
  <2> QED
    BY <1>1, <2>1, <2>2 DEF EndsWith
<1>4. ASSUME NEW i \in 1 .. Len(log) PROVE log[i].ts < now - RetentionPeriod
  <2>1. i = Len(log) \/ log[i].ts < log[Len(log)].ts
    <3>1. i = Len(log) \/ i < Len(log)
      BY <1>3
    <3> QED
      BY <1>3, <3>1 DEF RetentionInv, Ordered
  <2>2. log[i].ts \in Int /\ log[Len(log)].ts \in Int
    <3>1. Len(log) \in 1 .. Len(log)
      BY <1>3
    <3> QED
      BY <1>1, <3>1, ElementOfSeq, FieldsOfSnap
  <2> QED
    BY <1>1, <1>2, <1>3, <2>1, <2>2, RetentionValid
<1> QED
  BY <1>1, <1>4 DEF RetentionInv

LEMMA RetentionInvHolds == Spec => []RetentionInv
<1>1. Init => RetentionInv
  <2> SUFFICES ASSUME Init PROVE RetentionInv
    OBVIOUS
  <2>1. log = <<>> /\ Len(log) = 0 /\ series = <<>> /\ explained = <<>>
    BY EmptySeq DEF Init
  <2> QED
    BY <2>1 DEF RetentionInv, Ordered
<1>2. ASSUME Inv, RetentionInv, [Next]_vars PROVE RetentionInv'
  <2>1. ASSUME NEW sample \in here.samples, NEW gap \in here.gaps, ScrapeSucceeds(sample, gap)
        PROVE  RetentionInv'
    BY <1>2, <2>1, ScrapeSucceedsRetention
  <2>2. ASSUME NEW gap \in here.failureGaps, ScrapeFails(gap) PROVE RetentionInv'
    <3> SUFFICES ASSUME behind = 0 PROVE RetentionInv'
      BY <2>2 DEF RetentionInv, ScrapeFails, clockVars
    <3>1. now' = now + gap /\ now \in Int /\ gap \in Nat /\ log \in Seq(Snap)
      BY <1>2, <2>2, EnvironmentValid DEF ScrapeFails, Inv, TypesOK, LogOK, Recorded
    <3>2. /\ series' = series /\ log' = log /\ explained' = explained /\ behind' = behind
          /\ pc' = "cycle"
      BY <2>2 DEF ScrapeFails, clockVars
    <3>3. \A i \in 1 .. Len(log) : log[i].ts \in Int
      BY <3>1, ElementOfSeq, FieldsOfSnap
    <3>4. \A i \in 1 .. Len(log) : log[i].ts <= now => log[i].ts <= now'
      BY <3>1, <3>3
    <3>5. \A i \in 1 .. Len(log) :
             log[i].ts < now - RetentionPeriod => log[i].ts < now' - RetentionPeriod
      BY <3>1, <3>3, RetentionValid
    <3> QED
      BY <1>2, <3>2, <3>4, <3>5 DEF RetentionInv
  <2>3. CASE OnCycle
    BY <1>2, <2>3, OnCycleRetention
  <2>4. CASE Prune
    BY <1>2, <2>4, PruneRetention
  <2>5. ASSUME NEW d \in here.setbacks, SetBack(d) PROVE RetentionInv'
    <3>1. behind' = behind + d /\ behind \in Nat /\ d \in Nat \ {0}
      BY <1>2, <2>5, EnvironmentValid DEF SetBack, Inv, TypesOK
    <3>2. behind' # 0
      BY <3>1
    <3> QED
      BY <3>2 DEF RetentionInv
  <2>6. CASE UNCHANGED vars
    BY <1>2, <2>6 DEF vars, RetentionInv, Ordered, Kept
  <2> QED
    BY <1>2, <2>1, <2>2, <2>3, <2>4, <2>5, <2>6 DEF Next
<1> QED
  BY <1>1, <1>2, InvHolds, PTL DEF Spec

\* The record since the last silence, as SinceSilence has it.
LEMMA SinceLastSilence ==
    ASSUME log \in Seq(Snap), log # <<>>
    PROVE  \E f : LastSilence(log, f) /\ SinceSilence = SubSeq(log, f, Len(log))
<1> DEFINE after == {i \in DOMAIN log : i > 1 /\ log[i].ts - log[i - 1].ts > RetentionPeriod}
           first == CHOOSE i \in after \cup {1} : \A j \in after : j <= i
           back == {Len(log) - i : i \in after \cup {1}}
<1>1. Len(log) \in Nat \ {0} /\ DOMAIN log = 1 .. Len(log)
  BY EmptySeq, LenProperties
<1>2. \A i \in after \cup {1} : i \in 1 .. Len(log)
  BY <1>1
<1>3. PICK n \in back : \A m \in back : n <= m
  <2>1. back \in SUBSET Nat /\ back # {}
    BY <1>1, <1>2
  <2> HIDE DEF back
  <2> QED
    BY <2>1, SmallestNumber
<1>4. \E i \in after \cup {1} : \A j \in after : j <= i
  <2>1. PICK i \in after \cup {1} : n = Len(log) - i
    OBVIOUS
  <2> HIDE DEF after
  <2>2. ASSUME NEW j \in after PROVE j <= i
    <3>1. Len(log) - i <= Len(log) - j
      BY <1>3, <2>1
    <3>2. i \in Int /\ j \in Int
      BY <1>2
    <3> QED
      BY <1>1, <3>1, <3>2
  <2> QED
    BY <2>2
<1>5. first \in after \cup {1} /\ \A j \in after : j <= first
  <2> HIDE DEF after
  <2> QED
    BY <1>4
<1>6. LastSilence(log, first)
  <2> HIDE DEF first
  <2> QED
    BY <1>5 DEF LastSilence, Silences
<1>7. SinceSilence = SubSeq(log, first, Len(log))
  BY DEF SinceSilence
<1> HIDE DEF first
<1> QED
  BY <1>6, <1>7

\* A record that covers the trend window covers the shorter time asked of a sustained
\* condition.
LEMMA CoversSustain ==
    ASSUME NEW l \in Seq(Snap), l # <<>>, T.SustainFor > 0, Covers(l, T.SustainFor * TrendWindow)
    PROVE  /\ T.SustainFor \in Nat \ {0} /\ T.SustainFor * TrendWindow \in Nat \ {0}
           /\ Covers(l, T.SustainFor)
<1> DEFINE d == T.SustainFor * TrendWindow
           newest == l[Len(l)].ts
<1>1. T.SustainFor \in Nat \ {0} /\ d \in Nat \ {0} /\ T.SustainFor <= d
  BY ThresholdsValid DEF TrendWindow
<1>2. Len(l) \in Nat \ {0} /\ \A i \in 1 .. Len(l) : l[i].ts \in Int
  <2>1. Len(l) \in Nat \ {0} /\ \A i \in 1 .. Len(l) : l[i] \in Snap
    BY EmptySeq, LenProperties, ElementOfSeq
  <2>2. \A i \in 1 .. Len(l) : l[i].ts \in Int
    BY <2>1, FieldsOfSnap
  <2> QED
    BY <2>1, <2>2
<1> HIDE DEF d
<1>3. ASSUME NEW i \in 1 .. Len(l), l[i].ts < newest - d PROVE l[i].ts < newest - T.SustainFor
  <2>1. l[i].ts \in Int /\ newest \in Int
    BY <1>2
  <2> HIDE DEF newest
  <2> QED
    BY <1>1, <1>3, <2>1
<1>4. \A i \in 2 .. Len(l) : i \in 1 .. Len(l)
  BY <1>2
<1>5. Len(l) > RetentionSamples => Len(l) - RetentionSamples + 1 \in 1 .. Len(l)
  BY <1>2, RetentionValid
<1>6. Covers(l, d)
  BY DEF d
<1>7. Covers(l, T.SustainFor)
  BY <1>3, <1>4, <1>5, <1>6 DEF Covers
<1> QED
  BY <1>1, <1>7 DEF d

\* Retention hides nothing from the rules and makes nothing up, as long as the clock has
\* never been set back and the record covers the trend window.  (With SustainFor zero a
\* trend is taken over all that is retained.)
THEOREM RetentionIsEnough ==
    Spec => [](behind = 0 /\ T.SustainFor > 0 /\ Covers(log, T.SustainFor * TrendWindow)
                  => RetentionSuffices)
<1>1. Inv /\ RetentionInv =>
        (behind = 0 /\ T.SustainFor > 0 /\ Covers(log, T.SustainFor * TrendWindow)
            => RetentionSuffices)
  <2> SUFFICES ASSUME Inv, RetentionInv, behind = 0, T.SustainFor > 0,
                      Covers(log, T.SustainFor * TrendWindow), pc = "tick",
                      NEW i \in DOMAIN explained
               PROVE  fired(explained[i]) = fired([explained[i] EXCEPT !.window = SinceSilence])
    BY DEF RetentionSuffices
  <2>1. i = 1 /\ explained # <<>>
    BY ExplainedIsEvaluated
  <2> DEFINE e == explained[1]
             w == e.window
             long == T.SustainFor * TrendWindow
  <2>2. /\ e \in [latest : Snap, window : Seq(Snap), now : Int]
        /\ w # <<>> /\ EndsWith(log, w) /\ Kept(log, w) /\ Ordered(log)
    BY <2>1 DEF RetentionInv
  <2>3. log \in Seq(Snap) /\ log # <<>>
    <3>1. log \in Seq(Snap)
      BY DEF Inv, LogOK, Recorded
    <3>2. Len(w) \in Nat \ {0} /\ Len(w) <= Len(log)
      BY <2>2, EmptySeq, LenProperties DEF EndsWith
    <3>3. Len(log) # 0
      BY <3>1, <3>2, LenProperties
    <3> QED
      BY <3>1, <3>3, EmptySeq
  <2>4. PICK f : LastSilence(log, f) /\ SinceSilence = SubSeq(log, f, Len(log))
    BY <2>3, SinceLastSilence
  <2> DEFINE g == [e EXCEPT !.window = SinceSilence]
  <2>5. g.latest = e.latest /\ g.now = e.now /\ g.window = SinceSilence
    BY <2>2
  <2>6. T.SustainFor \in Nat \ {0} /\ long \in Nat \ {0} /\ Covers(log, T.SustainFor)
    BY <2>3, CoversSustain
  <2> HIDE DEF g, e
  <2>7. recent(w, T.SustainFor) = recent(SinceSilence, T.SustainFor)
    BY <2>2, <2>3, <2>4, <2>6, KeptIsEnough
  <2>8. Covers(log, long)
    OBVIOUS
  <2> HIDE DEF long
  <2>9. recent(w, long) = recent(SinceSilence, long)
    BY <2>2, <2>3, <2>4, <2>6, <2>8, KeptIsEnough
  <2>10. fired(e) = fired(g)
    BY <2>5, <2>7, <2>9, RulesSeeRecent DEF long
  <2> QED
    BY <2>1, <2>10 DEF e, g
<1> QED
  BY <1>1, InvHolds, RetentionInvHolds, PTL

\* Samples at least so far apart span their number times as much.
LEMMA SpacedSpan ==
    ASSUME NEW l \in Seq(Snap), NEW least \in Nat,
           \A i \in 2 .. Len(l) : l[i].ts - l[i - 1].ts >= least
    PROVE  \A n \in Nat : \A i \in 1 .. Len(l) :
              i + n <= Len(l) => l[i + n].ts - l[i].ts >= n * least
<1> DEFINE P(n) == \A i \in 1 .. Len(l) : i + n <= Len(l) => l[i + n].ts - l[i].ts >= n * least
           S == {n \in Nat : P(n)}
<1>1. Len(l) \in Nat /\ \A i \in 1 .. Len(l) : l[i].ts \in Int
  <2>1. Len(l) \in Nat /\ \A i \in 1 .. Len(l) : l[i] \in Snap
    BY LenProperties, ElementOfSeq
  <2>2. \A i \in 1 .. Len(l) : l[i].ts \in Int
    BY <2>1, FieldsOfSnap
  <2> QED
    BY <2>1, <2>2
<1>2. 0 \in S
  <2>1. 0 * least = 0 /\ \A i \in 1 .. Len(l) : i + 0 = i /\ l[i].ts - l[i].ts >= 0
    BY <1>1
  <2> QED
    BY <2>1
<1>3. ASSUME NEW n \in S PROVE n + 1 \in S
  <2> SUFFICES ASSUME NEW i \in 1 .. Len(l), i + (n + 1) <= Len(l)
               PROVE  l[i + (n + 1)].ts - l[i].ts >= (n + 1) * least
    OBVIOUS
  <2> DEFINE j == i + (n + 1)
             p == n * least
  <2>1. n \in Nat /\ j \in 2 .. Len(l) /\ j \in 1 .. Len(l) /\ j - 1 = i + n
        /\ j - 1 \in 1 .. Len(l) /\ i + n <= Len(l)
    BY <1>1
  <2>2. l[j - 1].ts - l[i].ts >= p
    BY <1>3, <2>1
  <2>3. l[j].ts - l[j - 1].ts >= least
    BY <2>1
  <2>4. (n + 1) * least = p + least /\ p \in Nat
    BY <2>1
  <2> HIDE DEF j, p
  <2>5. l[j].ts \in Int /\ l[j - 1].ts \in Int /\ l[i].ts \in Int
    BY <1>1, <2>1
  <2>6. l[j].ts - l[i].ts >= p + least
    BY <2>2, <2>3, <2>4, <2>5
  <2> QED
    BY <2>4, <2>6 DEF j
<1>4. S = Nat
  <2> HIDE DEF P
  <2>1. S \in SUBSET Nat
    OBVIOUS
  <2> HIDE DEF S
  <2> QED
    BY <1>2, <1>3, <2>1, InductionOverNat
<1>5. \A n \in Nat : P(n)
  <2> HIDE DEF P
  <2> QED
    BY <1>4
<1> QED
  BY <1>5

\* Successful scrapes come no faster than `least', and so that a gap leaves the trend
\* window retained or forgets all that went before.
Spaced(l, least) ==
    \A i \in 2 .. Len(l) :
        LET gap == l[i].ts - l[i - 1].ts
        IN  /\ gap >= least
            /\ \/ gap <= RetentionPeriod - T.SustainFor * TrendWindow
               \/ gap > RetentionPeriod

LEMMA SpacedCovers ==
    ASSUME NEW l \in Seq(Snap), l # <<>>, NEW least \in Nat, Spaced(l, least),
           (RetentionSamples - 1) * least > T.SustainFor * TrendWindow
    PROVE  Covers(l, T.SustainFor * TrendWindow)
<1> DEFINE d == T.SustainFor * TrendWindow
           newest == l[Len(l)].ts
<1>1. d \in Nat
  BY ThresholdsValid DEF TrendWindow
<1>2. Len(l) \in Nat \ {0} /\ Len(l) \in 1 .. Len(l) /\ \A i \in 1 .. Len(l) : l[i].ts \in Int
  <2>1. Len(l) \in Nat \ {0} /\ \A i \in 1 .. Len(l) : l[i] \in Snap
    BY EmptySeq, LenProperties, ElementOfSeq
  <2>2. \A i \in 1 .. Len(l) : l[i].ts \in Int
    BY <2>1, FieldsOfSnap
  <2> QED
    BY <2>1, <2>2
<1>3. newest \in Int
  BY <1>2
<1>4. \A i \in 2 .. Len(l) :
         /\ l[i].ts - l[i - 1].ts >= least
         /\ l[i].ts - l[i - 1].ts <= RetentionPeriod - d \/ l[i].ts - l[i - 1].ts > RetentionPeriod
  BY DEF Spaced
<1>5. (RetentionSamples - 1) * least > d
  OBVIOUS
<1> HIDE DEF d, newest
<1>6. ASSUME NEW i \in 2 .. Len(l), l[i - 1].ts < newest - RetentionPeriod
      PROVE  l[i].ts < newest - d \/ l[i].ts - l[i - 1].ts > RetentionPeriod
  <2>1. l[i].ts \in Int /\ l[i - 1].ts \in Int
    BY <1>2
  <2> QED
    BY <1>1, <1>3, <1>4, <1>6, <2>1, RetentionValid
<1>7. ASSUME Len(l) > RetentionSamples
      PROVE  l[Len(l) - RetentionSamples + 1].ts < newest - d
  <2> DEFINE i == Len(l) - RetentionSamples + 1
             n == RetentionSamples - 1
  <2>1. n \in Nat /\ i \in 1 .. Len(l) /\ i + n = Len(l)
    BY <1>2, <1>7, RetentionValid
  <2>2. i + n <= Len(l) /\ l[i + n].ts = newest
    BY <1>2, <2>1 DEF newest
  <2>3. n * least > d
    BY <1>5
  <2> HIDE DEF i, n
  <2>4. l[i + n].ts - l[i].ts >= n * least
    BY <1>4, <2>1, <2>2, SpacedSpan
  <2> DEFINE p == n * least
  <2>5. p \in Int /\ p > d /\ newest - l[i].ts >= p /\ l[i].ts \in Int
    BY <1>2, <2>1, <2>2, <2>3, <2>4
  <2> HIDE DEF p
  <2>6. l[i].ts < newest - d
    BY <1>1, <1>3, <2>5
  <2> QED
    BY <2>6 DEF i
<1> QED
  BY <1>6, <1>7 DEF Covers, newest, d

\* So retention hides nothing and makes nothing up while the clock has not been set back,
\* however often and however long the workload failed to answer, provided that each time
\* it was silent short enough to keep the trend window, or long enough to be forgotten,
\* and that as many samples as the store keeps span the trend window.
THEOREM SpacedRetentionIsEnough ==
    ASSUME NEW least \in Nat, (RetentionSamples - 1) * least > T.SustainFor * TrendWindow
    PROVE  Spec => [](T.SustainFor > 0 /\ behind = 0 /\ Spaced(log, least) => RetentionSuffices)
<1> DEFINE Enough == behind = 0 /\ T.SustainFor > 0 /\ Covers(log, T.SustainFor * TrendWindow)
                       => RetentionSuffices
           Always == T.SustainFor > 0 /\ behind = 0 /\ Spaced(log, least) => RetentionSuffices
<1>1. Inv /\ log # <<>> /\ Spaced(log, least) => Covers(log, T.SustainFor * TrendWindow)
  BY SpacedCovers DEF Inv, LogOK, Recorded
<1>2. RetentionInv /\ Inv /\ behind = 0 /\ log = <<>> => RetentionSuffices
  <2> SUFFICES ASSUME RetentionInv, Inv, behind = 0, log = <<>>, pc = "tick",
                      NEW i \in DOMAIN explained
               PROVE  FALSE
    BY DEF RetentionSuffices
  <2>1. explained # <<>>
    BY ExplainedIsEvaluated
  <2> DEFINE w == explained[1].window
  <2>2. w \in Seq(Snap) /\ w # <<>> /\ EndsWith(log, w)
    BY <2>1 DEF RetentionInv
  <2>3. Len(w) \in Nat \ {0} /\ Len(w) <= Len(log) /\ Len(log) = 0
    BY <2>2, EmptySeq, LenProperties DEF EndsWith
  <2> QED
    BY <2>3
<1>3. Inv /\ RetentionInv /\ Enough => Always
  BY <1>1, <1>2
<1>4. Spec => []Enough
  BY RetentionIsEnough
<1>5. Spec => []Always
  <2> HIDE DEF Enough, Always
  <2> QED
    BY <1>3, <1>4, InvHolds, RetentionInvHolds, PTL
<1> QED
  BY <1>5
=============================================================================
