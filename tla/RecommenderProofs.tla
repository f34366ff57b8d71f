------------------------- MODULE RecommenderProofs -------------------------
(***************************************************************************)
(* Proofs about the rule engine, for every thresholds that                 *)
(* Thresholds.Validate accepts and every evaluation context.               *)
(***************************************************************************)
EXTENDS Recommender, SequenceTheorems, FiniteSetTheorems, WellFoundedInduction, TLAPS

-----------------------------------------------------------------------------
(* Induction.  The library's theorem takes an operator; with a set for the *)
(* numbers that have the property it follows from their well-foundedness.  *)

LEMMA SmallestNumber ==
    ASSUME NEW S \in SUBSET Nat, S # {}
    PROVE  \E n \in S : \A m \in S : n <= m
<1>1. PICK n \in S : \A m \in S : ~(<<m, n>> \in OpToRel(<, Nat))
  BY NatLessThanWellFounded, WFMin
<1>2. \A m \in S : ~(m < n)
  BY <1>1 DEF OpToRel
<1> QED
  BY <1>2

LEMMA InductionOverNat ==
    ASSUME NEW S \in SUBSET Nat, 0 \in S, \A n \in S : n + 1 \in S
    PROVE  S = Nat
<1> SUFFICES ASSUME Nat \ S # {} PROVE FALSE
  OBVIOUS
<1>1. PICK n \in Nat \ S : \A m \in Nat \ S : n <= m
  <2>1. Nat \ S \subseteq Nat
    OBVIOUS
  <2> QED
    BY <2>1, SmallestNumber
<1>2. n # 0 /\ n - 1 \in Nat /\ n - 1 < n
  OBVIOUS
<1>3. n - 1 \in S
  BY <1>1, <1>2
<1> QED
  BY <1>3

-----------------------------------------------------------------------------
(* The bisection                                                           *)

Ranges(w) == (0 .. Len(w)) \X (0 .. Len(w))
Midpoint(r) == (r[1] + r[2]) \div 2

\* What the bisection does with a range, given what it does with smaller ones.
Halve(f, w, cutoff, r) ==
    IF r[1] >= r[2] THEN r[1]
    ELSE IF w[Midpoint(r) + 1].ts < cutoff THEN f[<<Midpoint(r) + 1, r[2]>>]
         ELSE f[<<r[1], Midpoint(r)>>]

\* A range is left for a shorter one inside it.
LEMMA HalvesAreSmaller ==
    ASSUME NEW w, Len(w) \in Nat, NEW r \in Ranges(w), r[1] < r[2]
    PROVE  /\ Midpoint(r) \in Int /\ r[1] <= Midpoint(r) /\ Midpoint(r) < r[2]
           /\ <<Midpoint(r) + 1, r[2]>> \in Ranges(w)
           /\ <<r[1], Midpoint(r)>> \in Ranges(w)
<1>1. r[1] \in Nat /\ r[2] \in Nat /\ r[1] <= Len(w) /\ r[2] <= Len(w)
  BY DEF Ranges
<1>2. Midpoint(r) \in Int /\ r[1] <= Midpoint(r) /\ Midpoint(r) < r[2]
  BY <1>1 DEF Midpoint
<1> QED
  BY <1>1, <1>2 DEF Ranges

\* The recursion is well founded: there is a function that does what it says.
LEMMA BisectionExists ==
    ASSUME NEW w, Len(w) \in Nat, NEW cutoff
    PROVE  \E f : f = [r \in Ranges(w) |-> Halve(f, w, cutoff, r)]
<1> DEFINE D(n) == {r \in Ranges(w) : r[2] - r[1] <= n}
           E(n) == \E f : f = [r \in D(n) |-> Halve(f, w, cutoff, r)]
           S == {n \in Nat : E(n)}
<1>1. 0 \in S
  <2> DEFINE g == [r \in D(0) |-> r[1]]
  <2>1. \A r \in D(0) : r[1] >= r[2]
    BY DEF Ranges
  <2>2. g = [r \in D(0) |-> Halve(g, w, cutoff, r)]
    BY <2>1 DEF Halve
  <2> QED
    BY <2>2
<1>2. ASSUME NEW n \in S PROVE n + 1 \in S
  <2>1. PICK f : f = [r \in D(n) |-> Halve(f, w, cutoff, r)]
    OBVIOUS
  <2> DEFINE g == [r \in D(n + 1) |-> Halve(f, w, cutoff, r)]
  <2>2. D(n) \subseteq D(n + 1)
    BY DEF Ranges
  <2>3. \A r \in D(n) : g[r] = f[r]
    <3> TAKE r \in D(n)
    <3>1. f[r] = Halve(f, w, cutoff, r)
      BY <2>1
    <3>2. g[r] = Halve(f, w, cutoff, r)
      BY <2>2
    <3> QED
      BY <3>1, <3>2
  <2>4. ASSUME NEW r \in D(n + 1) PROVE Halve(f, w, cutoff, r) = Halve(g, w, cutoff, r)
    <3>1. CASE r[1] >= r[2]
      BY <3>1 DEF Halve
    <3>2. CASE ~(r[1] >= r[2])
      <4>0. r \in Ranges(w) /\ r[1] < r[2] /\ r[1] \in Int /\ r[2] \in Int /\ r[2] - r[1] <= n + 1
        BY <3>2 DEF Ranges
      <4>1. /\ Midpoint(r) \in Int /\ r[1] <= Midpoint(r) /\ Midpoint(r) < r[2]
            /\ <<Midpoint(r) + 1, r[2]>> \in Ranges(w)
            /\ <<r[1], Midpoint(r)>> \in Ranges(w)
        BY <4>0, HalvesAreSmaller
      <4>2. <<Midpoint(r) + 1, r[2]>> \in D(n)
        <5>1. r[2] - (Midpoint(r) + 1) <= n
          BY <4>0, <4>1
        <5> QED
          BY <4>1, <5>1
      <4>3. <<r[1], Midpoint(r)>> \in D(n)
        <5>1. Midpoint(r) - r[1] <= n
          BY <4>0, <4>1
        <5> QED
          BY <4>1, <5>1
      <4>4. /\ g[<<Midpoint(r) + 1, r[2]>>] = f[<<Midpoint(r) + 1, r[2]>>]
            /\ g[<<r[1], Midpoint(r)>>] = f[<<r[1], Midpoint(r)>>]
        <5> HIDE DEF g, D
        <5> QED
          BY <4>2, <4>3, <2>3
      <4> HIDE DEF g
      <4> QED
        BY <3>2, <4>4 DEF Halve
    <3> QED
      BY <3>1, <3>2
  <2>5. g = [r \in D(n + 1) |-> Halve(g, w, cutoff, r)]
    <3> HIDE DEF D
    <3> QED
      BY <2>4
  <2>6. E(n + 1)
    <3> HIDE DEF g, D
    <3> QED
      BY <2>5
  <2> HIDE DEF E
  <2> QED
    BY <2>6
<1>3. S = Nat
  <2> HIDE DEF E
  <2>1. S \in SUBSET Nat
    OBVIOUS
  <2> HIDE DEF S
  <2> QED
    BY <1>1, <1>2, <2>1, InductionOverNat
<1>4. E(Len(w))
  <2> HIDE DEF E
  <2> QED
    BY <1>3
<1>5. D(Len(w)) = Ranges(w)
  BY DEF Ranges
<1> QED
  BY <1>4, <1>5

\* searchBefore is that bisection, started on the whole window.
LEMMA SearchIsBisection ==
    ASSUME NEW w, Len(w) \in Nat, NEW cutoff
    PROVE  \E f : /\ f = [r \in Ranges(w) |-> Halve(f, w, cutoff, r)]
                  /\ searchBefore(w, cutoff) = f[<<0, Len(w)>>]
<1> DEFINE search == CHOOSE f : f = [r \in Ranges(w) |-> Halve(f, w, cutoff, r)]
<1>1. search = [r \in Ranges(w) |-> Halve(search, w, cutoff, r)]
  <2>1. \E f : f = [r \in Ranges(w) |-> Halve(f, w, cutoff, r)]
    BY BisectionExists
  <2> QED
    BY <2>1, Zenon
<1>2. searchBefore(w, cutoff) = search[<<0, Len(w)>>]
  BY Zenon DEF searchBefore, Halve, Midpoint, Ranges
<1> QED
  <2> HIDE DEF search
  <2> QED
    BY <1>1, <1>2

\* The samples before the cutoff are the first b.
Precede(w, cutoff, b) == \A i \in 1 .. Len(w) : w[i].ts < cutoff <=> i <= b

\* The bisection returns a position of the window, whatever the order of the samples;
\* when the samples before the cutoff come first, it returns how many they are.
LEMMA SearchFinds ==
    ASSUME NEW w, Len(w) \in Nat, NEW cutoff
    PROVE  /\ searchBefore(w, cutoff) \in 0 .. Len(w)
           /\ \A b \in 0 .. Len(w) : Precede(w, cutoff, b) => searchBefore(w, cutoff) = b
<1> PICK f : /\ f = [r \in Ranges(w) |-> Halve(f, w, cutoff, r)]
             /\ searchBefore(w, cutoff) = f[<<0, Len(w)>>]
  BY SearchIsBisection
<1> DEFINE Found(r) == /\ f[r] \in r[1] .. r[2]
                       /\ \A b \in r[1] .. r[2] : Precede(w, cutoff, b) => f[r] = b
           P(n) == \A r \in Ranges(w) : r[1] <= r[2] /\ r[2] - r[1] <= n => Found(r)
           S == {n \in Nat : P(n)}
<1>0. \A r \in Ranges(w) : f[r] = Halve(f, w, cutoff, r)
  OBVIOUS
<1>1. 0 \in S
  <2> SUFFICES ASSUME NEW r \in Ranges(w), r[1] <= r[2], r[2] - r[1] <= 0 PROVE Found(r)
    OBVIOUS
  <2>1. r[1] = r[2] /\ r[1] \in Int
    BY DEF Ranges
  <2>2. f[r] = r[1]
    BY <1>0, <2>1 DEF Halve
  <2> QED
    BY <2>1, <2>2
<1>2. ASSUME NEW n \in S PROVE n + 1 \in S
  <2>0. n \in Nat /\ P(n)
    OBVIOUS
  <2> SUFFICES ASSUME NEW r \in Ranges(w), r[1] <= r[2], r[2] - r[1] <= n + 1 PROVE Found(r)
    <3> HIDE DEF Found
    <3> QED
      BY <2>0
  <2>1. CASE r[1] >= r[2]
    <3>1. r[1] = r[2] /\ r[1] \in Int
      BY <2>1 DEF Ranges
    <3>2. f[r] = r[1]
      BY <1>0, <3>1 DEF Halve
    <3> QED
      BY <3>1, <3>2
  <2>2. CASE ~(r[1] >= r[2])
    <3> DEFINE m == Midpoint(r)
               upper == <<m + 1, r[2]>>
               lower == <<r[1], m>>
    <3>0. r[1] < r[2] /\ r[1] \in Nat /\ r[2] \in Nat /\ r[2] <= Len(w)
      BY <2>2 DEF Ranges
    <3>1. /\ m \in Int /\ r[1] <= m /\ m < r[2]
          /\ upper \in Ranges(w) /\ lower \in Ranges(w)
      BY <3>0, HalvesAreSmaller
    <3> HIDE DEF m
    <3>2. Found(upper) /\ Found(lower)
      <4>1. /\ upper[1] <= upper[2] /\ upper[2] - upper[1] <= n
            /\ lower[1] <= lower[2] /\ lower[2] - lower[1] <= n
        BY <3>0, <3>1
      <4> HIDE DEF Found, upper, lower
      <4> QED
        BY <2>0, <3>1, <4>1
    <3>3. m + 1 \in 1 .. Len(w)
      BY <3>0, <3>1
    <3>4. CASE w[m + 1].ts < cutoff
      <4>1. f[r] = f[upper]
        BY <1>0, <2>2, <3>4 DEF Halve, m
      <4>2. \A b \in r[1] .. r[2] : Precede(w, cutoff, b) => b \in m + 1 .. r[2]
        BY <3>0, <3>1, <3>3, <3>4 DEF Precede
      <4>3. f[upper] \in m + 1 .. r[2] /\ \A b \in m + 1 .. r[2] : Precede(w, cutoff, b) => f[upper] = b
        BY <3>2
      <4>4. f[r] \in r[1] .. r[2]
        <5> HIDE DEF upper
        <5> QED
          BY <3>0, <3>1, <4>1, <4>3
      <4> HIDE DEF upper
      <4> QED
        BY <4>1, <4>2, <4>3, <4>4
    <3>5. CASE ~(w[m + 1].ts < cutoff)
      <4>1. f[r] = f[lower]
        BY <1>0, <2>2, <3>5 DEF Halve, m
      <4>2. \A b \in r[1] .. r[2] : Precede(w, cutoff, b) => b \in r[1] .. m
        BY <3>0, <3>1, <3>3, <3>5 DEF Precede
      <4>3. f[lower] \in r[1] .. m /\ \A b \in r[1] .. m : Precede(w, cutoff, b) => f[lower] = b
        BY <3>2
      <4>4. f[r] \in r[1] .. r[2]
        <5> HIDE DEF lower
        <5> QED
          BY <3>0, <3>1, <4>1, <4>3
      <4> HIDE DEF lower
      <4> QED
        BY <4>1, <4>2, <4>3, <4>4
    <3> QED
      BY <3>4, <3>5
  <2> QED
    BY <2>1, <2>2
<1>3. S = Nat
  <2> HIDE DEF P
  <2>1. S \in SUBSET Nat
    OBVIOUS
  <2> HIDE DEF S
  <2> QED
    BY <1>1, <1>2, <2>1, InductionOverNat
<1>4. P(Len(w))
  <2> HIDE DEF P
  <2> QED
    BY <1>3
<1>5. <<0, Len(w)>> \in Ranges(w)
  BY DEF Ranges
<1> QED
  BY <1>4, <1>5

-----------------------------------------------------------------------------
(* The tail that sustained rules look at                                   *)

\* A history Analyze may evaluate: at least one sample, each with its time and
\* measurements.
IsWindow(w) ==
    /\ Len(w) \in Nat \ {0}
    /\ w = [i \in 1 .. Len(w) |-> w[i]]
    /\ \A i \in 1 .. Len(w) : w[i].ts \in Int /\ w[i].m \in Measurements

\* What Validate gives: whole numbers, in the relations the rules rely on.
LEMMA ThresholdsValid ==
    /\ T.SustainFor \in Nat /\ T.StaleAfter \in Int
    /\ T.GPUUtilLowPct \in Int /\ T.GPUUtilHighPct \in Int
    /\ T.GPUUtilLowPct < T.GPUUtilHighPct
BY ThresholdsAssumption DEF Validate, DefaultThresholds

\* Where the tail begins.
tailStart(w, d) ==
    LET before == searchBefore(w, w[Len(w)].ts - d)
    IN  IF d > 0 /\ before > 0 THEN before ELSE 1

\* recent returns a tail of the window, and its span is the time between the tail's
\* first sample and the window's last.
LEMMA RecentIsTail ==
    ASSUME NEW w, IsWindow(w), NEW d \in Int
    PROVE  /\ tailStart(w, d) \in 1 .. Len(w)
           /\ recent(w, d) = SubSeq(w, tailStart(w, d), Len(w))
           /\ span(recent(w, d)) = w[Len(w)].ts - w[tailStart(w, d)].ts
           /\ sustainSamples(recent(w, d)) = {w[i] : i \in tailStart(w, d) .. Len(w)}
<1> DEFINE k == tailStart(w, d)
           S == {w[i] : i \in 1 .. Len(w)}
           tail == SubSeq(w, k, Len(w))
<1>1. Len(w) \in Nat /\ Len(w) > 0 /\ w # <<>> /\ w \in Seq(S)
  <2>1. Len(w) \in Nat /\ Len(w) > 0 /\ w # <<>>
    BY EmptySeq DEF IsWindow
  <2>2. w \in [1 .. Len(w) -> S]
    BY DEF IsWindow
  <2> QED
    BY <2>1, <2>2
<1>2. k \in 1 .. Len(w)
  <2>1. searchBefore(w, w[Len(w)].ts - d) \in 0 .. Len(w)
    BY <1>1, SearchFinds
  <2> QED
    BY <1>1, <2>1 DEF tailStart
<1>3. recent(w, d) = tail
  <2>1. CASE d <= 0
    <3>1. tail = w
      BY <1>1, <2>1, SubSeqFull DEF tailStart
    <3> QED
      BY <2>1, <3>1 DEF recent
  <2>2. CASE ~(d <= 0)
    <3>1. d > 0
      BY <2>2
    <3> QED
      BY <1>1, <2>2, <3>1, Zenon DEF recent, tailStart
  <2> QED
    BY <2>1, <2>2
<1> HIDE DEF k
<1>4. /\ Len(tail) = Len(w) - k + 1
      /\ tail \in Seq(S)
      /\ \A i \in 1 .. Len(w) - k + 1 : tail[i] = w[k + i - 1]
  <2>1. \A i \in k .. Len(w) : w[i] \in S
    BY <1>2
  <2> HIDE DEF S
  <2> QED
    BY <1>1, <1>2, <2>1, SubSeqProperties
<1> HIDE DEF tail, S
<1>5. span(tail) = w[Len(w)].ts - w[k].ts
  <2>1. CASE k = Len(w)
    BY <1>1, <1>2, <1>4, <2>1 DEF span, IsWindow
  <2>2. CASE k < Len(w)
    <3>1. tail[1] = w[k] /\ tail[Len(tail)] = w[Len(w)]
      BY <1>1, <1>2, <1>4
    <3> QED
      BY <1>1, <1>2, <1>4, <2>2, <3>1 DEF span
  <2> QED
    BY <1>2, <2>1, <2>2
<1>6. sustainSamples(tail) = {w[i] : i \in k .. Len(w)}
  <2>1. DOMAIN tail = 1 .. Len(w) - k + 1
    BY <1>4, LenProperties
  <2>2. \A i \in 1 .. Len(w) - k + 1 : k + i - 1 \in k .. Len(w)
    BY <1>1, <1>2
  <2>3. \A i \in k .. Len(w) : i - k + 1 \in 1 .. Len(w) - k + 1 /\ k + (i - k + 1) - 1 = i
    BY <1>1, <1>2
  <2>4. \A i \in k .. Len(w) : w[i] = tail[i - k + 1]
    BY <1>4, <2>3
  <2> QED
    BY <1>4, <2>1, <2>2, <2>3, <2>4 DEF sustainSamples
<1> QED
  BY <1>2, <1>3, <1>5, <1>6 DEF k, tail

\* A tail is long enough for a sustained rule.
LongEnough(w, k) == w[Len(w)].ts - w[k].ts >= T.SustainFor

\* What Sustained says of the predicates the rules pass to it: with SustainFor zero the
\* latest snapshot decides, otherwise every sample of a long enough tail.
LEMMA SustainedAtOnce ==
    ASSUME NEW e, T.SustainFor = 0
    PROVE  /\ Sustained(e, Deep) => Deep(e.latest)
           /\ Sustained(e, queueSaturated) => queueSaturated(e.latest)
           /\ Sustained(e, queueIdle) => queueIdle(e.latest)
           /\ Sustained(e, kvHigh) => kvHigh(e.latest)
           /\ Sustained(e, latencyHigh) => latencyHigh(e.latest)
           /\ Sustained(e, gpuMemoryHigh) => gpuMemoryHigh(e.latest)
           /\ Sustained(e, errorsHigh) => errorsHigh(e.latest)
           /\ Sustained(e, abortsHigh) => abortsHigh(e.latest)
BY DEF Sustained

LEMMA SustainedOverTail ==
    ASSUME NEW e, IsWindow(e.window), T.SustainFor > 0
    PROVE  LET w == e.window
               k == tailStart(w, T.SustainFor)
           IN  /\ Sustained(e, Deep) <=>
                      LongEnough(w, k) /\ \A i \in k .. Len(w) : Deep(w[i])
               /\ Sustained(e, queueSaturated) <=>
                      LongEnough(w, k) /\ \A i \in k .. Len(w) : queueSaturated(w[i])
               /\ Sustained(e, queueIdle) <=>
                      LongEnough(w, k) /\ \A i \in k .. Len(w) : queueIdle(w[i])
               /\ Sustained(e, kvHigh) <=>
                      LongEnough(w, k) /\ \A i \in k .. Len(w) : kvHigh(w[i])
               /\ Sustained(e, latencyHigh) <=>
                      LongEnough(w, k) /\ \A i \in k .. Len(w) : latencyHigh(w[i])
               /\ Sustained(e, gpuMemoryHigh) <=>
                      LongEnough(w, k) /\ \A i \in k .. Len(w) : gpuMemoryHigh(w[i])
               /\ Sustained(e, errorsHigh) <=>
                      LongEnough(w, k) /\ \A i \in k .. Len(w) : errorsHigh(w[i])
               /\ Sustained(e, abortsHigh) <=>
                      LongEnough(w, k) /\ \A i \in k .. Len(w) : abortsHigh(w[i])
<1> DEFINE w == e.window
           k == tailStart(w, T.SustainFor)
           tail == recent(w, T.SustainFor)
<1>1. /\ k \in 1 .. Len(w)
      /\ span(tail) >= T.SustainFor <=> LongEnough(w, k)
      /\ sustainSamples(tail) = {w[i] : i \in k .. Len(w)}
  <2>1. T.SustainFor \in Int /\ IsWindow(w)
    BY ThresholdsValid
  <2>2. /\ k \in 1 .. Len(w)
        /\ span(tail) = w[Len(w)].ts - w[k].ts
        /\ sustainSamples(tail) = {w[i] : i \in k .. Len(w)}
    <3> HIDE DEF w
    <3> QED
      BY <2>1, RecentIsTail
  <2> HIDE DEF w, k, tail
  <2> QED
    BY <2>2 DEF LongEnough
<1>2. ~(T.SustainFor <= 0)
  BY ThresholdsValid
<1> HIDE DEF k
<1>3. Sustained(e, Deep) <=> LongEnough(w, k) /\ \A i \in k .. Len(w) : Deep(w[i])
  BY <1>1, <1>2, Zenon DEF Sustained
<1>4. Sustained(e, queueSaturated) <=> LongEnough(w, k) /\ \A i \in k .. Len(w) : queueSaturated(w[i])
  BY <1>1, <1>2, Zenon DEF Sustained
<1>5. Sustained(e, queueIdle) <=> LongEnough(w, k) /\ \A i \in k .. Len(w) : queueIdle(w[i])
  BY <1>1, <1>2, Zenon DEF Sustained
<1>6. Sustained(e, kvHigh) <=> LongEnough(w, k) /\ \A i \in k .. Len(w) : kvHigh(w[i])
  BY <1>1, <1>2, Zenon DEF Sustained
<1>7. Sustained(e, latencyHigh) <=> LongEnough(w, k) /\ \A i \in k .. Len(w) : latencyHigh(w[i])
  BY <1>1, <1>2, Zenon DEF Sustained
<1>8. Sustained(e, gpuMemoryHigh) <=> LongEnough(w, k) /\ \A i \in k .. Len(w) : gpuMemoryHigh(w[i])
  BY <1>1, <1>2, Zenon DEF Sustained
<1>9. Sustained(e, errorsHigh) <=> LongEnough(w, k) /\ \A i \in k .. Len(w) : errorsHigh(w[i])
  BY <1>1, <1>2, Zenon DEF Sustained
<1>10. Sustained(e, abortsHigh) <=> LongEnough(w, k) /\ \A i \in k .. Len(w) : abortsHigh(w[i])
  BY <1>1, <1>2, Zenon DEF Sustained
<1> QED
  BY <1>3, <1>4, <1>5, <1>6, <1>7, <1>8, <1>9, <1>10 DEF k

-----------------------------------------------------------------------------
(* The rule set                                                            *)

\* Which rule stands behind which code, for the codes the proofs look into.
LEMMA RuleOfCode ==
    ASSUME NEW e
    PROVE  /\ Eval("CAP-001", e) <=> Sustained(e, queueSaturated)
           /\ Eval("CAP-002", e) <=> Sustained(e, queueIdle)
           /\ Eval("CAP-003", e) <=> queueGrowing(e)
           /\ Eval("KV-002", e)  <=> Sustained(e, kvHigh)
           /\ Eval("LAT-001", e) <=> ttftAdmissionBound(e)
           /\ Eval("LAT-002", e) <=> ttftPrefillBound(e)
           /\ Eval("LAT-003", e) <=> Sustained(e, latencyHigh)
           /\ Eval("EFF-002", e) <=> lowTokenThroughput(e)
           /\ Eval("EFF-003", e) <=> Sustained(e, gpuMemoryHigh)
           /\ Eval("ERR-001", e) <=> Sustained(e, errorsHigh)
           /\ Eval("ERR-002", e) <=> Sustained(e, abortsHigh)
           /\ Eval("SCL-001", e) <=> atReplicaCeiling(e)
           /\ Eval("SCL-002", e) <=> replicasNotReady(e)
           /\ Eval("OBS-002", e) <=> telemetryStale(e)
BY DEF Eval, queueWithSaturatedGPU, queueWithIdleGPU, kvNearCapacity, e2eLatencyHigh,
       gpuMemoryPressure, errorRateHigh, clientAborts

\* A finding is a rule that fired.
LEMMA FindingFired ==
    ASSUME NEW e, NEW c \in analyzeWorkload(e)
    PROVE  c \in Codes /\ c \in fired(e) /\ Eval(c, e)
BY DEF analyzeWorkload, fired

\* A GPU is not above the high threshold and below the low one at the same sample, so
\* the two queue diagnoses never fire on the same history; and a queue's share of the
\* time to the first token is not on both sides of its threshold.
LEMMA OppositesExclude ==
    ASSUME NEW e, IsWindow(e.window), e.latest.m \in Measurements
    PROVE  /\ ~(Eval("CAP-001", e) /\ Eval("CAP-002", e))
           /\ ~(Eval("LAT-001", e) /\ Eval("LAT-002", e))
<1>1. \A s : s.m \in Measurements => ~(queueSaturated(s) /\ queueIdle(s))
  <2> SUFFICES ASSUME NEW s, s.m \in Measurements, queueSaturated(s), queueIdle(s) PROVE FALSE
    OBVIOUS
  <2>1. s.m["GPUUtilizationPct"] \in Int
    BY DEF Measurements, Metrics, Absent
  <2> QED
    BY <2>1, ThresholdsValid DEF queueSaturated, queueIdle, Above, Below
<1>2. ~(Sustained(e, queueSaturated) /\ Sustained(e, queueIdle))
  <2>1. CASE T.SustainFor = 0
    BY <1>1, <2>1, SustainedAtOnce
  <2>2. CASE T.SustainFor > 0
    <3> DEFINE w == e.window
               k == tailStart(w, T.SustainFor)
    <3>1. Len(w) \in Nat /\ k \in 1 .. Len(w)
      BY ThresholdsValid, RecentIsTail DEF IsWindow
    <3>2. w[k].m \in Measurements
      BY <3>1 DEF IsWindow
    <3>3. ~(queueSaturated(w[k]) /\ queueIdle(w[k]))
      BY <1>1, <3>2
    <3>4. k \in k .. Len(w)
      BY <3>1
    <3> QED
      BY <2>2, <3>3, <3>4, SustainedOverTail
  <2> QED
    BY <2>1, <2>2, ThresholdsValid
<1> QED
  BY <1>2, RuleOfCode DEF ttftAdmissionBound, ttftPrefillBound

\* What supersedes what, and how severe it is.
LEMMA SupersedesByCases ==
    ASSUME NEW d \in Codes, NEW c \in Supersedes(d)
    PROVE  /\ c \in {"LAT-003", "CAP-001", "CAP-002", "KV-002"}
           /\ c = "LAT-003" => d \in {"CAP-001", "CAP-002", "LAT-001", "LAT-002"}
           /\ c = "CAP-001" => d \in {"CAP-004", "SCL-001"}
           /\ c = "CAP-002" => d = "CAP-004"
           /\ c = "KV-002"  => d = "KV-001"
           /\ Rank(d) <= Rank(c)
BY DEF Codes, Supersedes, Rank, Critical, Info

\* A rule that fired is a finding, or is superseded by one that is at least as severe,
\* or by a rule that such a finding supersedes in turn.
LEMMA SilencedIsExplained ==
    ASSUME NEW e, NEW c \in fired(e)
    PROVE  \/ c \in analyzeWorkload(e)
           \/ \E d \in analyzeWorkload(e) :
                 /\ Rank(d) <= Rank(c)
                 /\ \/ c \in Supersedes(d)
                    \/ \E b \in Codes : b \in Supersedes(d) /\ c \in Supersedes(b)
<1> SUFFICES ASSUME c \notin analyzeWorkload(e)
             PROVE  \E d \in analyzeWorkload(e) :
                 /\ Rank(d) <= Rank(c)
                 /\ \/ c \in Supersedes(d)
                    \/ \E b \in Codes : b \in Supersedes(d) /\ c \in Supersedes(b)
  OBVIOUS
<1>1. PICK b \in fired(e) : c \in Supersedes(b)
  BY DEF analyzeWorkload, superseded
<1>2. b \in Codes /\ Rank(b) <= Rank(c)
  BY <1>1, SupersedesByCases DEF fired
<1>3. CASE b \in analyzeWorkload(e)
  BY <1>1, <1>2, <1>3
<1>4. CASE b \notin analyzeWorkload(e)
  <2>1. PICK d \in fired(e) : b \in Supersedes(d)
    BY <1>4 DEF analyzeWorkload, superseded
  <2>2. d \in Codes /\ Rank(d) <= Rank(b)
    BY <2>1, SupersedesByCases DEF fired
  <2>3. d \in {"CAP-004", "SCL-001"}
    BY <1>1, <1>2, <2>1, <2>2, SupersedesByCases
  <2>4. d \in analyzeWorkload(e)
    <3> SUFFICES ASSUME NEW a \in fired(e), d \in Supersedes(a) PROVE FALSE
      BY DEF analyzeWorkload, superseded
    <3>1. a \in Codes
      BY DEF fired
    <3> QED
      BY <2>3, <3>1, SupersedesByCases
  <2>5. Rank(d) <= Rank(c)
    BY <1>2, <2>2 DEF Rank
  <2> QED
    BY <1>1, <1>2, <2>1, <2>4, <2>5
<1> QED
  BY <1>3, <1>4
=============================================================================
