---------------------------- MODULE Exposition ----------------------------
(***************************************************************************)
(* internal/promtext: what is read from one exposition payload.            *)
(*                                                                         *)
(* A payload is the sequence of its samples [name, labels, value] in the   *)
(* order of its lines; lines that cannot be parsed are only counted, by    *)
(* whoever holds the payload.  Splitting a line into name, labels and      *)
(* value is left out.  A sample's value is a natural number, or NaN.       *)
(* What is read is a measurement: a fraction [num, den], or Absent.        *)
(***************************************************************************)
EXTENDS Integers, Sequences, FiniteSets, FiniteSetsExt, TLC

NaN == -1
Inf == 1000000          \* the boundary of the open bucket

Absent == [num |-> -1, den |-> 1]
Given(m) == m # Absent
Fraction(n, d) == [num |-> n, den |-> d]
Point(n) == Fraction(n, 1)
AtMost(a, b) == a.num * b.den <= b.num * a.den
Times(m, n, d) == IF Given(m) THEN Fraction(m.num * n, m.den * d) ELSE Absent

-----------------------------------------------------------------------------
(* Series *)

\* A selector constrains some labels; the empty one matches every series.
Everything == [label \in {} |-> ""]
Matches(labels, want) ==
    \A label \in DOMAIN want : label \in DOMAIN labels /\ labels[label] = want[label]

\* Select gives the places of the matching samples, in the order of the lines.
Select(payload, name, want) ==
    {i \in DOMAIN payload : payload[i].name = name /\ Matches(payload[i].labels, want)}

\* Those that carry a number.
Numbers(payload, name, want) ==
    {i \in Select(payload, name, want) : payload[i].value # NaN}

\* The loop of Sum over the lines, of which some are chosen.
Total(payload, chosen) ==
    LET upTo[n \in 0 .. Len(payload)] ==
            IF n = 0 THEN 0
            ELSE upTo[n - 1] + (IF n \in chosen THEN payload[n].value ELSE 0)
    IN  upTo[Len(payload)]

Sum(payload, name, want) ==
    LET s == Numbers(payload, name, want)
    IN  IF s = {} THEN Absent ELSE Point(Total(payload, s))

\* Max of promtext (FiniteSetsExt has the name).
Largest(payload, name, want) ==
    LET s == Numbers(payload, name, want)
    IN  IF s = {} THEN Absent ELSE Point(Max({payload[i].value : i \in s}))

\* A quantile a summary states itself: the first matching line that has a number.
\* The quantile label is matched as a number, given here in percent.
SummaryQuantile(payload, family, percent, want) ==
    LET s == {i \in Numbers(payload, family, want) :
                 Matches(payload[i].labels, [quantile |-> percent])}
    IN  IF s = {} THEN Absent ELSE Point(payload[Min(s)].value)

-----------------------------------------------------------------------------
(* Histograms *)

\* buckets: counts of equal boundary are added up; a count below its predecessor's
\* is raised to it.
buckets(payload, name, want) ==
    LET s     == {i \in Numbers(payload, name, want) : "le" \in DOMAIN payload[i].labels}
        edges == {payload[i].labels["le"] : i \in s}
        byLE  == [le \in edges |-> Total(payload, {i \in s : payload[i].labels["le"] = le})]
    IN  [le \in edges |-> Max({byLE[b] : b \in {b \in edges : b <= le}})]

\* Slip: the rank must be passed, not reached.
indexPast(counts, p) ==
    LET last    == Max(DOMAIN counts)
        reached == {le \in DOMAIN counts : 100 * counts[le] > p * counts[last]}
    IN  IF reached = {} THEN last ELSE Min(reached)

\* The first bucket whose count reaches the rank q * total (sort.Search), or the last.
index(counts, p) ==
    LET last    == Max(DOMAIN counts)
        reached == {le \in DOMAIN counts : 100 * counts[le] >= p * counts[last]}
    IN  IF reached = {} THEN last ELSE Min(reached)

\* Slip: the interpolation counts from the start, not from the bucket's edge.
interpolateFromStart(counts, p) ==
    LET upper      == index(counts, p)
        preceding  == {le \in DOMAIN counts : le < upper}
        lower      == IF preceding = {} THEN 0 ELSE Max(preceding)
        countBelow == IF preceding = {} THEN 0 ELSE counts[lower]
        span       == counts[upper] - countBelow
        total      == counts[Max(DOMAIN counts)]
    IN  IF span <= 0 THEN Point(upper)
        ELSE Fraction(lower * 100 * span + (upper - lower) * p * total, 100 * span)

\* Linear interpolation inside that bucket.
interpolate(counts, p) ==
    LET upper      == index(counts, p)
        preceding  == {le \in DOMAIN counts : le < upper}
        lower      == IF preceding = {} THEN 0 ELSE Max(preceding)
        countBelow == IF preceding = {} THEN 0 ELSE counts[lower]
        span       == counts[upper] - countBelow
        total      == counts[Max(DOMAIN counts)]
    IN  IF span <= 0 THEN Point(upper)
        ELSE Fraction(lower * 100 * span + (upper - lower) * (p * total - 100 * countBelow),
                      100 * span)

\* Quantile: in the open bucket it is the largest finite boundary, if there is one;
\* without observations there is none.
Quantile(payload, name, p, want) ==
    LET counts == buckets(payload, name, want)
        finite == DOMAIN counts \ {Inf}
    IN  IF DOMAIN counts = {} THEN Absent
        ELSE IF counts[Max(DOMAIN counts)] <= 0 THEN Absent
        ELSE IF index(counts, p) # Inf THEN interpolate(counts, p)
        ELSE IF finite = {} THEN Absent ELSE Point(Max(finite))
=============================================================================
