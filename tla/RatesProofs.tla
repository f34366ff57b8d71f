---------------------------- MODULE RatesProofs ----------------------------
(***************************************************************************)
(* Proofs about the rate tracker, for any bounds, any times between two    *)
(* scrapes (zero and negative ones included: the clock may step back) and  *)
(* any sets of counters a scrape may see.                                  *)
(***************************************************************************)
EXTENDS Rates, TLAPS

\* What `rate' returns, in the arithmetic the theorems need: a rate that is given
\* comes from an earlier sight of the counter, and is its increase since.
LEMMA RateIsIncrease ==
    ASSUME NEW prev \in Entry, NEW current \in Nat, NEW time \in Int
    PROVE  /\ rate(prev, current, time) \in [delta : Nat, elapsed : Nat \ {0}] \cup {Absent}
           /\ Given(rate(prev, current, time)) =>
                  /\ prev # Unseen
                  /\ prev.value \in Nat
                  /\ rate(prev, current, time).delta = current - prev.value
                  /\ rate(prev, current, time).delta >= 0
<1>1. CASE prev = Unseen \/ time <= prev.at \/ current < prev.value
  BY <1>1 DEF rate, Given
<1>2. CASE ~(prev = Unseen \/ time <= prev.at \/ current < prev.value)
  <2>1. prev \in [value : Nat, at : Int]
    BY <1>2 DEF Entry
  <2>2. rate(prev, current, time)
            = [delta |-> current - prev.value, elapsed |-> time - prev.at]
    BY <1>2 DEF rate
  <2>3. /\ prev.value \in Nat
        /\ current - prev.value \in Nat
        /\ time - prev.at \in Nat \ {0}
    BY <1>2, <2>1
  <2> QED
    BY <1>2, <2>2, <2>3
<1> QED
  BY <1>1, <1>2

-----------------------------------------------------------------------------
\* The state stays well typed; in particular no rate is negative or covers no time
\* (rate's three early returns).
LEMMA TypeStep == TypeOK /\ [Next]_vars => TypeOK'
<1> SUFFICES ASSUME TypeOK, [Next]_vars
             PROVE  TypeOK'
  OBVIOUS
<1> USE RatesAssumption
<1>1. ASSUME NEW present \in Exposed, NEW elapse \in Elapses, Scrape(present, elapse)
      PROVE  TypeOK'
  <2>1. now' \in Int
    BY <1>1 DEF TypeOK, Scrape
  <2>2. ASSUME NEW c \in Counters
        PROVE  /\ rate(entries[c], value[c], now')
                      \in [delta : Nat, elapsed : Nat \ {0}] \cup {Absent}
               /\ newEntry(entries[c], value[c], now') \in Entry
    <3>1. entries[c] \in Entry /\ value[c] \in Nat
      BY DEF TypeOK
    <3> QED
      BY <2>1, <3>1, RateIsIncrease DEF newEntry, Entry
  <2>3. /\ rates' \in [Counters -> [delta : Nat, elapsed : Nat \ {0}] \cup {Absent}]
        /\ entries' \in [Counters -> Entry]
    BY <1>1, <2>2 DEF TypeOK, Scrape, applyRates
  <2>4. since' \in [Counters -> History] /\ truth' \in [Counters -> History]
    BY <1>1 DEF TypeOK, Scrape, History, Quiet
  <2> QED
    BY <1>1, <2>1, <2>3, <2>4 DEF TypeOK, Scrape
<1>2. ASSUME NEW counted \in Requests, Finish(counted)
      PROVE  TypeOK'
  <2>1. value' \in [Counters -> 0 .. MaxValue]
    BY <1>2 DEF TypeOK, Finish
  <2>2. since' \in [Counters -> History]
    BY <1>2 DEF TypeOK, Finish, History
  <2> QED
    BY <1>2, <2>1, <2>2 DEF TypeOK, Finish
<1>3. CASE Restart
  <2>1. since' \in [Counters -> History]
    BY <1>3 DEF TypeOK, Restart, History
  <2> QED
    BY <1>3, <2>1 DEF TypeOK, Restart
<1>4. CASE UNCHANGED vars
  BY <1>4 DEF TypeOK, vars
<1> QED
  BY <1>1, <1>2, <1>3, <1>4 DEF Next

\* The type invariant of the rate tracker (rate.go).
THEOREM RatesTyped == Spec => []TypeOK
<1>1. Init => TypeOK
  BY RatesAssumption DEF Init, TypeOK, Entry, History, Quiet
<1> QED
  BY <1>1, TypeStep, PTL DEF Spec

-----------------------------------------------------------------------------
\* The baseline follows the counter through requests, restarts and scrapes that
\* do not see it.
LEMMA BaselineStep == TypeOK /\ BaselineIsLastSeen /\ [Next]_vars => BaselineIsLastSeen'
<1> SUFFICES ASSUME TypeOK, BaselineIsLastSeen, [Next]_vars, NEW c \in Counters
             PROVE  /\ ~since'[c].restarted /\ entries'[c] # Unseen =>
                           value'[c] = entries'[c].value + since'[c].events
                    /\ since'[c].restarted => value'[c] <= since'[c].events
  BY DEF BaselineIsLastSeen
<1>0. /\ value[c] \in Nat /\ since[c] \in History /\ entries[c] \in Entry
      /\ ~since[c].restarted /\ entries[c] # Unseen =>
             value[c] = entries[c].value + since[c].events
      /\ since[c].restarted => value[c] <= since[c].events
  BY RatesAssumption DEF TypeOK, BaselineIsLastSeen
<1>1. ASSUME NEW present \in Exposed, NEW elapse \in Elapses, Scrape(present, elapse)
      PROVE  /\ ~since'[c].restarted /\ entries'[c] # Unseen =>
                    value'[c] = entries'[c].value + since'[c].events
             /\ since'[c].restarted => value'[c] <= since'[c].events
  <2>1. CASE c \in present
    <3>1. /\ since'[c] = Quiet /\ value'[c] = value[c]
          /\ entries'[c] = [value |-> value[c], at |-> now']
      BY <1>1, <2>1 DEF Scrape, applyRates, newEntry
    <3> QED
      BY <1>0, <3>1 DEF Quiet
  <2>2. CASE c \notin present
    <3>1. /\ value'[c] = value[c] /\ entries'[c] = entries[c]
          /\ since'[c].restarted = since[c].restarted
          /\ since'[c].events = since[c].events
      BY <1>0, <1>1, <2>2 DEF Scrape, applyRates, History
    <3> QED
      BY <1>0, <3>1
  <2> QED
    BY <2>1, <2>2
<1>2. ASSUME NEW counted \in Requests, Finish(counted)
      PROVE  /\ ~since'[c].restarted /\ entries'[c] # Unseen =>
                    value'[c] = entries'[c].value + since'[c].events
             /\ since'[c].restarted => value'[c] <= since'[c].events
  <2>1. CASE c \in counted
    <3>1. /\ value'[c] = value[c] + 1 /\ entries'[c] = entries[c]
          /\ since'[c].restarted = since[c].restarted
          /\ since'[c].events = since[c].events + 1
      BY <1>0, <1>2, <2>1 DEF Finish, History
    <3>2. entries[c] # Unseen => entries[c].value \in Nat
      BY <1>0 DEF Entry
    <3> QED
      BY <1>0, <3>1, <3>2 DEF History
  <2>2. CASE c \notin counted
    BY <1>0, <1>2, <2>2 DEF Finish
  <2> QED
    BY <2>1, <2>2
<1>3. CASE Restart
  <2>1. /\ value'[c] = 0
        /\ since'[c].restarted = TRUE
        /\ since'[c].events = since[c].events
    BY <1>0, <1>3 DEF Restart, History
  <2> QED
    BY <1>0, <2>1 DEF History
<1>4. CASE UNCHANGED vars
  BY <1>0, <1>4 DEF vars
<1> QED
  BY <1>1, <1>2, <1>3, <1>4 DEF Next

\* Only a scrape reports, and what it reports of a counter is measured from the
\* baseline, so the baseline's truth is the rate's.
LEMMA TruthStep ==
    TypeOK /\ BaselineIsLastSeen /\ RatesAreTrue /\ [Next]_vars => RatesAreTrue'
<1> SUFFICES ASSUME TypeOK, BaselineIsLastSeen, RatesAreTrue, [Next]_vars
             PROVE  RatesAreTrue'
  OBVIOUS
<1>1. ASSUME NEW present \in Exposed, NEW elapse \in Elapses, Scrape(present, elapse)
      PROVE  RatesAreTrue'
  <2> SUFFICES ASSUME NEW c \in Counters, Given(rates'[c])
               PROVE  /\ rates'[c].delta \in 0 .. truth'[c].events
                      /\ ~truth'[c].restarted => rates'[c].delta = truth'[c].events
    BY DEF RatesAreTrue, Given
  <2>1. c \in present
    BY <1>1 DEF Scrape, applyRates, Given
  <2>2. rates'[c] = rate(entries[c], value[c], now') /\ truth'[c] = since[c]
    BY <1>1, <2>1 DEF Scrape, applyRates
  <2>3. entries[c] \in Entry /\ value[c] \in Nat /\ now' \in Int /\ since[c] \in History
    BY <1>1, RatesAssumption DEF TypeOK, Scrape
  <2>4. /\ entries[c] # Unseen /\ entries[c].value \in Nat
        /\ rates'[c].delta = value[c] - entries[c].value
        /\ rates'[c].delta >= 0
    BY <2>2, <2>3, RateIsIncrease
  <2>5. CASE ~since[c].restarted
    <3>1. value[c] = entries[c].value + since[c].events
      BY <2>4, <2>5 DEF BaselineIsLastSeen
    <3> QED
      BY <2>2, <2>3, <2>4, <2>5, <3>1 DEF History
  <2>6. CASE since[c].restarted
    <3>1. value[c] <= since[c].events
      BY <2>6 DEF BaselineIsLastSeen
    <3> QED
      BY <2>2, <2>3, <2>4, <2>6, <3>1 DEF History
  <2> QED
    BY <2>5, <2>6
<1>2. CASE UNCHANGED <<rates, truth>>
  BY <1>2 DEF RatesAreTrue, Given
<1>3. ASSUME NEW counted \in Requests, Finish(counted)
      PROVE  UNCHANGED <<rates, truth>>
  BY <1>3 DEF Finish
<1>4. Restart => UNCHANGED <<rates, truth>>
  BY DEF Restart
<1>5. UNCHANGED vars => UNCHANGED <<rates, truth>>
  BY DEF vars
<1> QED
  BY <1>1, <1>2, <1>3, <1>4, <1>5 DEF Next

\* A reported rate never exceeds what the serving process did in the interval, and is
\* exact unless it restarted in it, whatever the scrapes miss and however the clock moves.
THEOREM RatesTrue == Spec => []RatesAreTrue
<1>1. Init => BaselineIsLastSeen /\ RatesAreTrue
  BY DEF Init, BaselineIsLastSeen, RatesAreTrue, Quiet, Given
<1> QED
  BY <1>1, RatesTyped, BaselineStep, TruthStep, PTL DEF Spec

-----------------------------------------------------------------------------
\* Two counters that were both seen by the scrape before the last were last seen at the
\* same time, so their rates cover the same interval.
SeenTogether ==
    \A c, d \in Counters :
        /\ entries[c] # Unseen /\ ~since[c].missed
        /\ entries[d] # Unseen /\ ~since[d].missed
        => entries[c].at = entries[d].at
SameInterval ==
    \A c, d \in Counters :
        Given(rates[c]) /\ ~truth[c].missed /\ Given(rates[d]) /\ ~truth[d].missed
        => rates[c].elapsed = rates[d].elapsed

\* Only a scrape moves baselines, and it moves those of all it sees to the same time.
LEMMA SeenTogetherStep == TypeOK /\ SeenTogether /\ [Next]_vars => SeenTogether'
<1> SUFFICES ASSUME TypeOK, SeenTogether, [Next]_vars, NEW c \in Counters, NEW d \in Counters,
                    entries'[c] # Unseen, ~since'[c].missed,
                    entries'[d] # Unseen, ~since'[d].missed
             PROVE  entries'[c].at = entries'[d].at
  BY DEF SeenTogether
<1>0. since \in [Counters -> History]
  BY DEF TypeOK
<1>1. ASSUME NEW present \in Exposed, NEW elapse \in Elapses, Scrape(present, elapse)
      PROVE  entries'[c].at = entries'[d].at
  <2>1. c \in present /\ d \in present
    BY <1>0, <1>1 DEF Scrape, History
  <2> QED
    BY <1>1, <2>1 DEF Scrape, applyRates, newEntry
<1>2. ASSUME UNCHANGED entries, since'[c].missed = since[c].missed,
             since'[d].missed = since[d].missed
      PROVE  entries'[c].at = entries'[d].at
  BY <1>2 DEF SeenTogether
<1>3. ASSUME NEW counted \in Requests, Finish(counted)
      PROVE  entries'[c].at = entries'[d].at
  BY <1>0, <1>2, <1>3 DEF Finish, History
<1>4. CASE Restart
  BY <1>0, <1>2, <1>4 DEF Restart, History
<1>5. CASE UNCHANGED vars
  BY <1>2, <1>5 DEF vars
<1> QED
  BY <1>1, <1>3, <1>4, <1>5 DEF Next

\* Rates are measured from the baselines to the time of the scrape.
LEMMA SameIntervalStep ==
    TypeOK /\ SeenTogether /\ SameInterval /\ [Next]_vars => SameInterval'
<1> SUFFICES ASSUME TypeOK, SeenTogether, SameInterval, [Next]_vars
             PROVE  SameInterval'
  OBVIOUS
<1>1. ASSUME NEW present \in Exposed, NEW elapse \in Elapses, Scrape(present, elapse)
      PROVE  SameInterval'
  <2> SUFFICES ASSUME NEW c \in Counters, NEW d \in Counters,
                      Given(rates'[c]), ~truth'[c].missed, Given(rates'[d]), ~truth'[d].missed
               PROVE  rates'[c].elapsed = rates'[d].elapsed
    BY DEF SameInterval, Given
  <2>1. c \in present /\ d \in present
    BY <1>1 DEF Scrape, applyRates, Given
  <2>2. /\ rates'[c] = rate(entries[c], value[c], now') /\ truth'[c] = since[c]
        /\ rates'[d] = rate(entries[d], value[d], now') /\ truth'[d] = since[d]
    BY <1>1, <2>1 DEF Scrape, applyRates
  <2>3. /\ entries[c] # Unseen /\ rates'[c].elapsed = now' - entries[c].at
        /\ entries[d] # Unseen /\ rates'[d].elapsed = now' - entries[d].at
    BY <2>2 DEF rate, Given
  <2>4. entries[c].at = entries[d].at
    BY <2>2, <2>3 DEF SeenTogether
  <2> QED
    BY <2>3, <2>4
<1>2. CASE UNCHANGED <<rates, truth>>
  BY <1>2 DEF SameInterval, Given
<1>3. ASSUME NEW counted \in Requests, Finish(counted)
      PROVE  UNCHANGED <<rates, truth>>
  BY <1>3 DEF Finish
<1>4. Restart => UNCHANGED <<rates, truth>>
  BY DEF Restart
<1>5. UNCHANGED vars => UNCHANGED <<rates, truth>>
  BY DEF vars
<1> QED
  BY <1>1, <1>2, <1>3, <1>4, <1>5 DEF Next

\* The arithmetic of shares: a common factor cancels, and a part is at most its whole.
LEMMA ProductInNat == ASSUME NEW a \in Nat, NEW b \in Nat PROVE a * b \in Nat
  OBVIOUS

\* For a part over a whole ...
LEMMA CommonFactor ==
    ASSUME NEW a \in Nat, NEW b \in Nat, NEW e \in Nat
    PROVE  (a * e) * b = (b * e) * a
  OBVIOUS

\* ... and a part over the sum of the parts.
LEMMA CommonFactorOfSum ==
    ASSUME NEW a \in Nat, NEW b \in Nat, NEW e \in Nat
    PROVE  (a * e) * (a + b) = (b * e + a * e) * a
  OBVIOUS

\* What the ratios owe to the rates: the two facts about rates above are enough.
LEMMA SharesFromRates ==
    ASSUME TypeOK, RatesAreTrue, SameInterval PROVE RatiosAreShares
<1> DEFINE f == rates["finished"]
           x == rates["failed"]
           a == rates["aborted"]
           Both(c, d) == Given(rates[c]) /\ Given(rates[d])
<1>1. ASSUME NEW c \in Counters, Given(rates[c])
      PROVE  /\ rates[c].delta \in Nat /\ rates[c].elapsed \in Nat
             /\ truth[c].events \in Nat
             /\ Whole(c) => rates[c].delta = truth[c].events
  BY <1>1 DEF TypeOK, RatesAreTrue, Given, History, Whole
<1>2. ErrorRate(rates).num \in 0 .. ErrorRate(rates).den
  <2>1. CASE Both("finished", "failed")
    <3> DEFINE n == x.delta * f.elapsed
               m == f.delta * x.elapsed
    <3>1. n \in Nat /\ m \in Nat
      BY <1>1, <2>1, ProductInNat DEF Counters
    <3>2. ErrorRate(rates) = ratio(n, m + n)
      BY <2>1 DEF ErrorRate
    <3> HIDE DEF n, m
    <3> QED
      BY <3>1, <3>2 DEF ratio, NoRatio
  <2>2. CASE ~Both("finished", "failed")
    BY <2>2 DEF ErrorRate, NoRatio
  <2> QED
    BY <2>1, <2>2
<1>3. ASSUME Whole("finished"), Whole("failed")
      PROVE  Share(ErrorRate(rates), truth["failed"].events,
                   truth["failed"].events + truth["finished"].events)
  <2>1. CASE Both("finished", "failed")
    <3>1. /\ f.delta \in Nat /\ x.delta \in Nat /\ f.elapsed \in Nat
          /\ f.delta = truth["finished"].events /\ x.delta = truth["failed"].events
      BY <1>1, <1>3, <2>1 DEF Counters
    <3>2. f.elapsed = x.elapsed
      BY <1>3, <2>1 DEF SameInterval, Whole, Counters
    <3>3. ErrorRate(rates) = ratio(x.delta * f.elapsed, f.delta * f.elapsed + x.delta * f.elapsed)
      BY <2>1, <3>2 DEF ErrorRate
    <3>4. (x.delta * f.elapsed) * (x.delta + f.delta)
              = (f.delta * f.elapsed + x.delta * f.elapsed) * x.delta
      BY <3>1, CommonFactorOfSum
    <3>5. ErrorRate(rates) # NoRatio =>
              /\ ErrorRate(rates).num = x.delta * f.elapsed
              /\ ErrorRate(rates).den = f.delta * f.elapsed + x.delta * f.elapsed
      BY <3>3 DEF ratio
    <3> QED
      BY <3>1, <3>4, <3>5 DEF Share
  <2>2. CASE ~Both("finished", "failed")
    BY <2>2 DEF ErrorRate, Share
  <2> QED
    BY <2>1, <2>2
<1>4. ASSUME Whole("finished"), Whole("aborted")
      PROVE  Share(AbortRate(rates), truth["aborted"].events, truth["finished"].events)
  <2>1. CASE Both("finished", "aborted")
    <3>1. /\ f.delta \in Nat /\ a.delta \in Nat /\ f.elapsed \in Nat
          /\ f.delta = truth["finished"].events /\ a.delta = truth["aborted"].events
      BY <1>1, <1>4, <2>1 DEF Counters
    <3>2. f.elapsed = a.elapsed
      BY <1>4, <2>1 DEF SameInterval, Whole, Counters
    <3>3. AbortRate(rates) = ratio(a.delta * f.elapsed, f.delta * f.elapsed)
      BY <2>1, <3>2 DEF AbortRate
    <3>4. (a.delta * f.elapsed) * f.delta = (f.delta * f.elapsed) * a.delta
      BY <3>1, CommonFactor
    <3>5. AbortRate(rates) # NoRatio =>
              /\ AbortRate(rates).num = a.delta * f.elapsed
              /\ AbortRate(rates).den = f.delta * f.elapsed
      BY <3>3 DEF ratio
    <3> QED
      BY <3>1, <3>4, <3>5 DEF Share
  <2>2. CASE ~Both("finished", "aborted")
    BY <2>2 DEF AbortRate, Share
  <2> QED
    BY <2>1, <2>2
<1> QED
  BY <1>2, <1>3, <1>4 DEF RatiosAreShares

\* Error and abort rates are the shares of requests that failed or were aborted, unless
\* the process restarted or a counter was missing from a scrape, and an error rate is
\* never above 100% (applyRates), for any number of scrapes and any clock.
THEOREM RatiosShares == Spec => []RatiosAreShares
<1>1. Init => SeenTogether /\ SameInterval
  BY DEF Init, SeenTogether, SameInterval, Given
<1> QED
  BY <1>1, RatesTyped, RatesTrue, SeenTogetherStep, SameIntervalStep, SharesFromRates, PTL DEF Spec
=============================================================================
