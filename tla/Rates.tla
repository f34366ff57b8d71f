------------------------------- MODULE Rates -------------------------------
(***************************************************************************)
(* From counters to rates: the rate tracker (rate.go) and applyRates       *)
(* (collector.go) of internal/collector, against the one serving process   *)
(* whose counters they difference.                                         *)
(*                                                                         *)
(* The process counts events and restarts now and then; a scrape sees the  *)
(* counters' values, or some of them (a labelled counter is not exposed    *)
(* until it is first used).  A rate is kept as its numerator and its       *)
(* denominator, so that no division is needed to compare two.              *)
(***************************************************************************)
EXTENDS Integers

CONSTANTS
    Exposed,       \* the sets of counters one scrape may see
    Requests,      \* the sets of counters one finished request adds to
    MaxValue,      \* bound: a counter's value
    Elapses,       \* time between two scrapes, by the collector's clock
    MaxScrapes,    \* bound: scrapes
    MaxRestarts    \* bound: restarts of the serving process

\* The names of runtime.Counter that ratios are formed from stand for all; prefix-cache
\* queries and hits are related as finished and aborted requests are.
Counters == {"finished", "failed", "aborted"}

ASSUME RatesAssumption ==
    /\ MaxValue \in Nat /\ MaxScrapes \in Nat /\ MaxRestarts \in Nat
    /\ Elapses \subseteq Int
    /\ Exposed \subseteq SUBSET Counters /\ Requests \subseteq SUBSET Counters

VARIABLES
    now,        \* the collector's clock
    value,      \* value[c]: the process's counter, since it started
    entries,    \* the tracker: entries[c] is the last [value, at], or Unseen
    rates,      \* rates[c]: what the last scrape reported, [delta, elapsed] or Absent
    scrapes, restarts,      \* counted against their bounds
    \* history
    since,      \* since[c]: events, restarts and scrapes since a scrape last saw c
    truth       \* truth[c]: `since' as it was at the last scrape that saw c

vars == <<now, value, entries, rates, scrapes, restarts, since, truth>>

Unseen == [value |-> -1, at |-> 0]
Absent == [delta |-> -1, elapsed |-> 0]
Given(r) == r # Absent

-----------------------------------------------------------------------------
(* The collector *)

\* Slip: the baseline is kept when no rate can be given.
newEntryKept(prev, current, time) ==
    IF prev # Unseen /\ current < prev.value THEN prev
    ELSE [value |-> current, at |-> time]

\* rate, first half: the baseline always moves.
newEntry(prev, current, time) == [value |-> current, at |-> time]

\* Slip: a decrease is reported as well.
rateUnchecked(prev, current, time) ==
    IF prev = Unseen \/ time <= prev.at
    THEN Absent
    ELSE [delta |-> current - prev.value, elapsed |-> time - prev.at]

\* rate, second half: nothing on first sight, when no time has passed, or when
\* the counter went down.
rate(prev, current, time) ==
    IF prev = Unseen \/ time <= prev.at \/ current < prev.value
    THEN Absent
    ELSE [delta |-> current - prev.value, elapsed |-> time - prev.at]

\* applyRates asks the tracker about every counter the scrape saw.
applyRates(present, time) ==
    /\ rates' = [c \in Counters |->
                    IF c \in present THEN rate(entries[c], value[c], time) ELSE Absent]
    /\ entries' = [c \in Counters |->
                    IF c \in present THEN newEntry(entries[c], value[c], time)
                                     ELSE entries[c]]

\* applyRates' ratios, as [num, den] of products that clear the denominators; where it
\* sets none there is no number here either.
NoRatio == [num |-> 0, den |-> 0]
ratio(n, d) == IF d > 0 THEN [num |-> n, den |-> d] ELSE NoRatio

\* Slip: failed requests are taken to be among the finished ones.
ErrorRateOfFinished(r) ==
    IF Given(r["failed"]) /\ Given(r["finished"])
    THEN ratio(r["failed"].delta * r["finished"].elapsed,
               r["finished"].delta * r["failed"].elapsed)
    ELSE NoRatio

\* ErrorRatePct: failed / (finished + failed).
ErrorRate(r) ==
    IF Given(r["failed"]) /\ Given(r["finished"])
    THEN ratio(r["failed"].delta * r["finished"].elapsed,
               r["finished"].delta * r["failed"].elapsed
               + r["failed"].delta * r["finished"].elapsed)
    ELSE NoRatio

\* AbortRatePct: aborted / finished.  PrefixCacheHitRatePct is hits / queries alike.
AbortRate(r) ==
    IF Given(r["aborted"]) /\ Given(r["finished"])
    THEN ratio(r["aborted"].delta * r["finished"].elapsed,
               r["finished"].delta * r["aborted"].elapsed)
    ELSE NoRatio

-----------------------------------------------------------------------------
(* Steps *)

Quiet == [events |-> 0, restarted |-> FALSE, missed |-> FALSE]

Scrape(present, elapse) ==
    /\ scrapes < MaxScrapes
    /\ scrapes' = scrapes + 1
    /\ now' = now + elapse
    /\ applyRates(present, now')
    /\ truth' = [c \in Counters |-> IF c \in present THEN since[c] ELSE truth[c]]
    /\ since' = [c \in Counters |-> IF c \in present THEN Quiet
                                    ELSE [since[c] EXCEPT !.missed = TRUE]]
    /\ UNCHANGED <<value, restarts>>

\* The serving process is done with a request; an aborted one counts as finished too,
\* a failed one does not.
Finish(counted) ==
    /\ \A c \in counted : value[c] < MaxValue
    /\ value' = [c \in Counters |-> IF c \in counted THEN value[c] + 1 ELSE value[c]]
    /\ since' = [c \in Counters |-> IF c \in counted
                                    THEN [since[c] EXCEPT !.events = @ + 1] ELSE since[c]]
    /\ UNCHANGED <<now, entries, rates, scrapes, restarts, truth>>

\* The serving process restarts, and counts from zero again.
Restart ==
    /\ restarts < MaxRestarts
    /\ restarts' = restarts + 1
    /\ value' = [c \in Counters |-> 0]
    /\ since' = [c \in Counters |-> [since[c] EXCEPT !.restarted = TRUE]]
    /\ UNCHANGED <<now, entries, rates, scrapes, truth>>

Init ==
    /\ now = 0
    /\ value = [c \in Counters |-> 0]
    /\ entries = [c \in Counters |-> Unseen]
    /\ rates = [c \in Counters |-> Absent]
    /\ scrapes = 0 /\ restarts = 0
    /\ since = [c \in Counters |-> Quiet]
    /\ truth = [c \in Counters |-> Quiet]

Next ==
    \/ \E present \in Exposed, elapse \in Elapses : Scrape(present, elapse)
    \/ \E counted \in Requests : Finish(counted)
    \/ Restart

Spec == Init /\ [][Next]_vars

-----------------------------------------------------------------------------
(* Properties *)

Entry == [value : Nat, at : Int] \cup {Unseen}
History == [events : Nat, restarted : BOOLEAN, missed : BOOLEAN]

\* Type invariant; a rate that is given is not negative and covers some time.
TypeOK ==
    /\ now \in Int
    /\ value \in [Counters -> 0 .. MaxValue]
    /\ entries \in [Counters -> Entry]
    /\ rates \in [Counters -> [delta : Nat, elapsed : Nat \ {0}] \cup {Absent}]
    /\ scrapes \in 0 .. MaxScrapes /\ restarts \in 0 .. MaxRestarts
    /\ since \in [Counters -> History] /\ truth \in [Counters -> History]

\* A rate that is given never claims more than happened in its interval, and claims
\* exactly what happened unless the process restarted meanwhile: a reset never
\* spoils a later interval (rate's re-baselining).
RatesAreTrue ==
    \A c \in Counters : Given(rates[c]) =>
        /\ rates[c].delta \in 0 .. truth[c].events
        /\ ~truth[c].restarted => rates[c].delta = truth[c].events

\* A ratio is the share of requests it is named for, over the interval since the last
\* scrape, when both of its counters were exposed then and the process has not
\* restarted; and an error rate never exceeds 100%, even when its two rates cover
\* different intervals because one counter was missing from some scrapes (the ratios
\* of applyRates).
Whole(c) == ~truth[c].restarted /\ ~truth[c].missed
Share(r, part, whole) == r # NoRatio => r.num * whole = r.den * part
RatiosAreShares ==
    /\ ErrorRate(rates).num \in 0 .. ErrorRate(rates).den
    /\ Whole("finished") /\ Whole("failed") =>
           Share(ErrorRate(rates), truth["failed"].events,
                 truth["failed"].events + truth["finished"].events)
    /\ Whole("finished") /\ Whole("aborted") =>
           Share(AbortRate(rates), truth["aborted"].events, truth["finished"].events)

\* What is needed of the tracker to see that: its baseline is what the counter was
\* when last seen, so value and baseline differ by what happened since.
BaselineIsLastSeen ==
    \A c \in Counters :
        /\ ~since[c].restarted /\ entries[c] # Unseen =>
               value[c] = entries[c].value + since[c].events
        /\ since[c].restarted => value[c] <= since[c].events
=============================================================================
