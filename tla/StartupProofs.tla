--------------------------- MODULE StartupProofs ---------------------------
(***************************************************************************)
(* Theorems of Startup, for every configuration file whose values have the *)
(* types of their fields, every environment and every request.             *)
(***************************************************************************)
EXTENDS Startup, TLAPS

-----------------------------------------------------------------------------
(* The configuration *)

\* A remainder leaves alone what is below the modulus.
LEMMA SmallRemainder ==
    ASSUME NEW x \in Nat, NEW m \in Nat \ {0}, x < m
    PROVE  x % m = x
BY Z3

\* What Validate finds out about a configuration is what the parts rely on, as long
\* as three windows are a duration.
LeanOn(c) ==
    /\ Rules(0)!Validate(c.thresholds)
    /\ c.retentionSamples > 1 /\ c.retentionPeriod > 0
    /\ LET needed == c.thresholds.SustainFor * Rules(0)!TrendWindow
       IN  needed < DurationRange => c.retentionPeriod >= needed
    /\ 0 < c.timeout /\ c.timeout < c.interval
    /\ c.alerting => 0 < c.alertTimeout
    /\ c.apiAuth => c.token # ""

\* A duration that fits does not wrap.
LEMMA FitsUnwrapped ==
    ASSUME NEW d \in Nat, d < DurationRange
    PROVE  wrapped(d) = d
<1>1. DurationRange \in Nat \ {0}
  BY DurationAssumption
<1> DEFINE x == d + DurationRange
           m == 2 * DurationRange
<1>2. x \in Nat /\ m \in Nat \ {0} /\ x < m
  BY <1>1
<1>3. x % m = x
  <2> HIDE DEF x, m
  <2> QED BY <1>2, SmallRemainder
<1> QED
  BY <1>1, <1>3 DEF wrapped

\* Validate establishes what is relied on.
LEMMA ValidIsEnough ==
    ASSUME NEW c, Typed(c), Validate(c)
    PROVE  /\ LeanOn(c)
           /\ c.alerting => c.alertTimeout < c.interval
<1>1. /\ Rules(0)!Validate(c.thresholds) /\ ValidRetention(c)
      /\ 0 < c.timeout /\ c.timeout < c.interval
      /\ validateAlerting(c) /\ validateAPIAuth(c)
  BY DEF Validate
<1>2. c.thresholds.SustainFor \in Int /\ c.thresholds.SustainFor >= 0
  BY <1>1 DEF Typed, Rules!Validate, DefaultThresholds, Rules!DefaultThresholds
<1>3. LET needed == c.thresholds.SustainFor * Rules(0)!TrendWindow
      IN  needed < DurationRange => c.retentionPeriod >= needed
  <2> DEFINE needed == c.thresholds.SustainFor * Rules(0)!TrendWindow
  <2>1. needed \in Nat
    BY <1>2 DEF Rules!TrendWindow
  <2>2. c.retentionPeriod >= wrapped(needed)
    BY <1>1 DEF ValidRetention
  <2> HIDE DEF needed
  <2>3. needed < DurationRange => c.retentionPeriod >= needed
    BY <2>1, <2>2, FitsUnwrapped
  <2> QED
    BY <2>3 DEF needed
<1>4. c.alerting => 0 < c.alertTimeout /\ c.alertTimeout < c.interval
  BY <1>1 DEF validateAlerting
<1>5. c.apiAuth => c.token # ""
  BY <1>1 DEF validateAPIAuth
<1>6. c.retentionSamples > 1 /\ c.retentionPeriod > 0
  BY <1>1 DEF ValidRetention
<1> QED
  BY <1>1, <1>3, <1>4, <1>5, <1>6 DEF LeanOn

\* The environment only fills in texts.
LEMMA EnvironKeepsTypes ==
    ASSUME NEW c, Typed(c), NEW environ
    PROVE  Typed(applyEnv(c, environ))
<1>1. DOMAIN applyEnv(c, environ) = DOMAIN c
  BY DEF applyEnv
<1>2. DOMAIN Unset \cap (Numbers \cup {"thresholds", "targets"}) = {}
  BY DEF Unset, Numbers
<1>3. Numbers \cup {"thresholds", "targets"} \subseteq DOMAIN c
  BY DEF Numbers, Default, Typed
<1>4. \A f \in Numbers \cup {"thresholds", "targets"} : applyEnv(c, environ)[f] = c[f]
  BY <1>2, <1>3 DEF applyEnv
<1> QED
  BY <1>1, <1>4 DEF Typed

LEMMA DemoTargetsTyped ==
    /\ DOMAIN demoTargets = {1, 2}
    /\ \A i \in DOMAIN demoTargets :
          DOMAIN demoTargets[i] = {"name", "namespace", "runtime", "metricsURL", "dcgmURL"}
<1>1. /\ DOMAIN demoTargets = {1, 2}
      /\ demoTargets[1] = demoTarget("chat-llama3-8b")
      /\ demoTargets[2] = demoTarget("summarise-mixtral")
  BY DEF demoTargets
<1> QED
  BY <1>1 DEF demoTarget

\* A demonstration changes nothing that the parts rely on for the worse.
LEMMA DemoIsEnough ==
    ASSUME NEW c, Typed(c), LeanOn(c)
    PROVE  Typed(applyDemoConfig(c)) /\ LeanOn(applyDemoConfig(c))
<1> DEFINE d == applyDemoConfig(c)
<1>1. /\ DOMAIN d = DOMAIN c
      /\ d["interval"] = Second /\ d["timeout"] = 8 /\ d["retentionPeriod"] = 5 * Minute
      /\ d["thresholds"] = [c.thresholds EXCEPT !["SustainFor"] = 5 * Second]
      /\ \A f \in DOMAIN Default :
            f \notin {"interval", "timeout", "retentionPeriod", "thresholds", "kubernetes",
                      "database", "targets"} => d[f] = c[f]
  <2>1. {"interval", "timeout", "retentionPeriod", "thresholds"} \subseteq DOMAIN c
    BY DEF Typed, Default
  <2>2. \A f \in DOMAIN Default : f \in DOMAIN c
    BY DEF Typed
  <2>3. DOMAIN d = DOMAIN c
    BY DEF applyDemoConfig
  <2>4. d["interval"] = Second /\ d["timeout"] = 8 /\ d["retentionPeriod"] = 5 * Minute
    BY <2>1 DEF applyDemoConfig
  <2>5. d["thresholds"] = [c.thresholds EXCEPT !["SustainFor"] = 5 * Second]
    BY <2>1 DEF applyDemoConfig
  <2>6. \A f \in DOMAIN Default :
            f \notin {"interval", "timeout", "retentionPeriod", "thresholds", "kubernetes",
                      "database", "targets"} => d[f] = c[f]
    BY <2>2 DEF applyDemoConfig
  <2> QED
    BY <2>3, <2>4, <2>5, <2>6
<1> HIDE DEF d
<1>2. {"thresholds", "retentionSamples", "retentionPeriod", "interval", "timeout", "alerting",
       "alertTimeout", "apiAuth", "token"} \cup Numbers \subseteq DOMAIN Default
  BY DEF Default, Numbers
<1>3. /\ d.thresholds \in [DOMAIN DefaultThresholds -> Int]
      /\ d.thresholds.SustainFor = 50
      /\ Rules(0)!Validate(d.thresholds)
  <2> DEFINE t == c.thresholds
             u == d.thresholds
  <2>1. 5 * Second = 50
    BY DEF Second
  <2>2. t \in [DOMAIN DefaultThresholds -> Int] /\ u = [t EXCEPT !["SustainFor"] = 50]
    BY <1>1, <2>1 DEF Typed
  <2>3. DOMAIN DefaultThresholds =
            {"SustainFor", "StaleAfter", "QueueWaitingRequests", "GPUUtilHighPct",
             "GPUUtilLowPct", "GPUMemoryHighPct", "KVCacheHighPct", "PreemptionsPerSec",
             "TTFTP95Ms", "E2EP95Ms", "QueueShareOfTTFTPct", "TailRatioP99P95",
             "TokensPerSecondLow", "PrefixCacheHitLowPct", "ErrorRatePct", "AbortRatePct"}
    BY DEF DefaultThresholds, Rules!DefaultThresholds
  <2>4. Rules(0)!Validate(t)
    BY DEF LeanOn
  <2> HIDE DEF t, u
  <2>5. u \in [DOMAIN DefaultThresholds -> Int] /\ u["SustainFor"] = 50
    BY <2>2, <2>3
  <2>6. \A f \in DOMAIN DefaultThresholds : f # "SustainFor" => u[f] = t[f]
    BY <2>2
  <2>7. /\ u.StaleAfter = t.StaleAfter /\ u.QueueWaitingRequests = t.QueueWaitingRequests
        /\ u.GPUUtilHighPct = t.GPUUtilHighPct /\ u.GPUUtilLowPct = t.GPUUtilLowPct
        /\ u.GPUMemoryHighPct = t.GPUMemoryHighPct /\ u.KVCacheHighPct = t.KVCacheHighPct
        /\ u.PreemptionsPerSec = t.PreemptionsPerSec /\ u.TTFTP95Ms = t.TTFTP95Ms
        /\ u.E2EP95Ms = t.E2EP95Ms /\ u.QueueShareOfTTFTPct = t.QueueShareOfTTFTPct
        /\ u.TailRatioP99P95 = t.TailRatioP99P95
        /\ u.TokensPerSecondLow = t.TokensPerSecondLow
        /\ u.PrefixCacheHitLowPct = t.PrefixCacheHitLowPct
        /\ u.ErrorRatePct = t.ErrorRatePct /\ u.AbortRatePct = t.AbortRatePct
    BY <2>3, <2>6
  <2>8. Rules(0)!Validate(u)
    BY <2>4, <2>5, <2>7 DEF Rules!Validate
  <2> QED
    BY <2>5, <2>8 DEF u
<1>4. Typed(d)
  <2>1. ASSUME NEW f \in Numbers PROVE d[f] \in Int
    <3>1. c[f] \in Int
      BY DEF Typed
    <3>2. CASE f \in {"interval", "timeout", "retentionPeriod"}
      BY <1>1, <3>2 DEF Second, Minute
    <3>3. CASE f \notin {"interval", "timeout", "retentionPeriod"}
      BY <1>1, <1>2, <3>1, <3>3 DEF Numbers
    <3> QED
      BY <3>2, <3>3
  <2>2. d["targets"] = demoTargets
    <3>1. "targets" \in DOMAIN c
      BY DEF Typed, Default
    <3> QED
      BY <3>1 DEF applyDemoConfig, d
  <2> QED
    BY <1>1, <1>3, <2>1, <2>2, DemoTargetsTyped DEF Typed
<1>5. LeanOn(d)
  <2>1. /\ d.retentionSamples = c.retentionSamples /\ d.alerting = c.alerting
        /\ d.alertTimeout = c.alertTimeout /\ d.apiAuth = c.apiAuth /\ d.token = c.token
    BY <1>1, <1>2
  <2>2. /\ c.retentionSamples > 1
        /\ c.alerting => 0 < c.alertTimeout
        /\ c.apiAuth => c.token # ""
    BY DEF LeanOn
  <2>3. d.interval = 10 /\ d.timeout = 8 /\ d.retentionPeriod = 3000
    BY <1>1 DEF Second, Minute
  <2>4. d.thresholds.SustainFor * Rules(0)!TrendWindow = 150
    BY <1>3 DEF Rules!TrendWindow
  <2>5. LET needed == d.thresholds.SustainFor * Rules(0)!TrendWindow
        IN  needed < DurationRange => d.retentionPeriod >= needed
    BY <2>3, <2>4
  <2>6. Rules(0)!Validate(d.thresholds)
    BY <1>3
  <2>7. d.retentionPeriod > 0 /\ 0 < d.timeout /\ d.timeout < d.interval
    BY <2>3
  <2> QED
    BY <2>1, <2>2, <2>5, <2>6, <2>7 DEF LeanOn
<1> QED
  BY <1>4, <1>5 DEF d

-----------------------------------------------------------------------------
(* The inductive invariant *)

Loaded == {"demo", "sink", "alerting", "collector", "serving"}

\* A configuration that was accepted is good enough; until the demonstration has
\* been thought of, an alert's timeout is below the interval.
ConfigOK ==
    pc \in Loaded =>
        /\ Typed(cfg) /\ LeanOn(cfg)
        /\ cfg.alerting /\ (pc = "demo" \/ ~start.demo) => cfg.alertTimeout < cfg.interval

SinkOK ==
    pc \in {"alerting", "collector", "serving"} => (cfg.database => sink > 0)

SenderOK ==
    pc \in {"collector", "serving"} /\ cfg.alerting =>
        /\ sender[1].queue > 0
        /\ sender[1].minSeverity \in {"info", "warning", "critical"}
        /\ sender[1].timeout = cfg.alertTimeout

CollectorOK ==
    pc = "serving" =>
        /\ collector[1].timeout = cfg.timeout /\ collector[1].interval = cfg.interval
        /\ collector[1].concurrency > 0

\* Only a serving control plane answers; a token configured stays so.
AnswerOK == (answer = <<>> \/ pc = "serving") /\ TokenDecides

Inv ==
    /\ pc \in {"load", "refused"} \cup Loaded
    /\ start.demo \in BOOLEAN
    /\ pc = "load" => start.file \in Files \cup {NoFile}
    /\ ConfigOK /\ SinkOK /\ SenderOK /\ CollectorOK /\ AnswerOK

\* No step takes a token that was configured away, or answers before it is looked at.
LEMMA InitInv == Init => Inv
<1> SUFFICES ASSUME Init PROVE Inv
  OBVIOUS
<1>1. pc = "load" /\ answer = <<>> /\ start.demo \in BOOLEAN /\ start.file \in Files \cup {NoFile}
  BY DEF Init
<1> QED
  BY <1>1 DEF Inv, Loaded, ConfigOK, SinkOK, SenderOK, CollectorOK, AnswerOK, TokenDecides

\* While there is no answer there is nothing to leave.
LEMMA Unanswered ==
    ASSUME AnswerOK, pc # "serving", answer' = answer
    PROVE  AnswerOK'
<1>1. answer = <<>>
  BY DEF AnswerOK
<1> QED
  BY <1>1 DEF AnswerOK, TokenDecides

\* No file at all leaves the built-in values.
LEMMA DefaultTyped == Typed(decoded(NoFile))
<1>1. \A f \in DOMAIN Default : decoded(NoFile)[f] = Default[f]
  BY DEF decoded, NoFile
<1>2. DOMAIN decoded(NoFile) = DOMAIN Default
  BY DEF decoded
<1>3. Numbers \cup {"thresholds", "targets"} \subseteq DOMAIN Default
  BY DEF Default, Numbers
<1>4. \A f \in Numbers : Default[f] \in Int
  <2>1. Second = 10 /\ Minute = 600
    BY DEF Second, Minute
  <2>2. /\ Default["readHeaderTimeout"] = 50 /\ Default["interval"] = 150
        /\ Default["timeout"] = 100 /\ Default["concurrency"] = 8
        /\ Default["maxBodyBytes"] = 8 /\ Default["retentionSamples"] = 120
    BY <2>1 DEF Default
  <2>3. /\ Default["retentionPeriod"] = 9000 /\ Default["resyncPeriod"] = 6000
        /\ Default["databaseQueue"] = 1024 /\ Default["alertTimeout"] = 50
        /\ Default["alertQueue"] = 256
    BY <2>1 DEF Default
  <2> QED
    BY <2>2, <2>3 DEF Numbers
<1>5. DefaultThresholds \in [DOMAIN DefaultThresholds -> Int]
  <2> DEFINE base == Rules(0)!DefaultThresholds
  <2>1. \A f \in DOMAIN base : base[f] \in Int
    BY DEF Rules!DefaultThresholds
  <2>2. base = [f \in DOMAIN base |-> base[f]]
    BY DEF Rules!DefaultThresholds
  <2>3. Second \in Int
    BY DEF Second
  <2>4. /\ DefaultThresholds = [base EXCEPT !.SustainFor = @ * Second, !.StaleAfter = @ * Second]
        /\ "SustainFor" \in DOMAIN base /\ "StaleAfter" \in DOMAIN base
    BY DEF DefaultThresholds, Rules!DefaultThresholds
  <2> HIDE DEF base
  <2>5. base \in [DOMAIN base -> Int]
    BY <2>1, <2>2
  <2>6. PICK k \in Int, l \in Int :
           DefaultThresholds = [base EXCEPT !.SustainFor = k, !.StaleAfter = l]
    <3>1. base.SustainFor * Second \in Int /\ base.StaleAfter * Second \in Int
      BY <2>1, <2>3, <2>4
    <3> QED
      BY <2>4, <3>1
  <2>7. DefaultThresholds \in [DOMAIN base -> Int]
    BY <2>5, <2>6
  <2> QED
    BY <2>7
<1>6. Default["thresholds"] = DefaultThresholds /\ Default["targets"] = <<>>
  BY DEF Default
<1>7. decoded(NoFile)["targets"] = <<>> /\ DOMAIN <<>> = {}
  BY <1>1, <1>3, <1>6
<1> QED
  BY <1>1, <1>2, <1>3, <1>4, <1>5, <1>6, <1>7 DEF Typed

LEMMA LoadInv == ASSUME Inv, Load PROVE Inv'
<1>1. pc = "load" /\ UNCHANGED <<start, answer>>
  BY DEF Load
<1>2. AnswerOK'
  BY <1>1, Unanswered DEF Inv
<1>3. CASE pc' = "refused"
  BY <1>1, <1>2, <1>3 DEF Inv, Loaded, ConfigOK, SinkOK, SenderOK, CollectorOK
<1>4. CASE pc' = "demo" /\ cfg' = loaded /\ Validate(loaded)
  <2>1. Typed(decoded(start.file))
    BY <1>1, FilesAssumption, DefaultTyped DEF Inv
  <2>2. Typed(loaded)
    BY <2>1, EnvironKeepsTypes DEF loaded
  <2>3. LeanOn(loaded) /\ (loaded.alerting => loaded.alertTimeout < loaded.interval)
    BY <1>4, <2>2, ValidIsEnough
  <2>4. ConfigOK'
    BY <1>4, <2>2, <2>3 DEF ConfigOK
  <2> QED
    BY <1>1, <1>2, <1>4, <2>4 DEF Inv, Loaded, SinkOK, SenderOK, CollectorOK
<1> QED
  BY <1>3, <1>4 DEF Load

LEMMA DemoInv == ASSUME Inv, Demo PROVE Inv'
<1>1. pc = "demo" /\ pc' = "sink" /\ UNCHANGED <<start, answer>>
  BY DEF Demo
<1>2. AnswerOK'
  BY <1>1, Unanswered DEF Inv
<1>3. Typed(cfg) /\ LeanOn(cfg) /\ (cfg.alerting => cfg.alertTimeout < cfg.interval)
  BY <1>1 DEF Inv, ConfigOK, Loaded
<1>4. ConfigOK'
  <2>1. CASE start.demo
    <3>1. cfg' = applyDemoConfig(cfg)
      BY <2>1 DEF Demo
    <3>2. Typed(cfg') /\ LeanOn(cfg')
      BY <1>3, <3>1, DemoIsEnough
    <3> QED
      BY <1>1, <2>1, <3>2 DEF ConfigOK
  <2>2. CASE ~start.demo
    <3>1. cfg' = cfg
      BY <2>2 DEF Demo
    <3> QED
      BY <1>1, <1>3, <3>1 DEF ConfigOK
  <2> QED
    BY <2>1, <2>2
<1> QED
  BY <1>1, <1>2, <1>4 DEF Inv, Loaded, SinkOK, SenderOK, CollectorOK

LEMMA OpenSinkInv == ASSUME Inv, NEW reachable \in BOOLEAN, OpenSink(reachable) PROVE Inv'
<1>1. pc = "sink" /\ UNCHANGED <<start, cfg, answer>> /\ pc' \in {"refused", "alerting"}
  BY DEF OpenSink
<1>2. AnswerOK'
  BY <1>1, Unanswered DEF Inv
<1>3. pc' = "alerting" => (cfg.database => sink' > 0)
  BY <1>1 DEF OpenSink, Positive
<1>4. ConfigOK'
  BY <1>1 DEF Inv, ConfigOK, Loaded
<1> QED
  BY <1>1, <1>2, <1>3, <1>4 DEF Inv, Loaded, SinkOK, SenderOK, CollectorOK

LEMMA NewSenderInv == ASSUME Inv, NewSender PROVE Inv'
<1>1. /\ pc = "alerting" /\ UNCHANGED <<start, cfg, sink, answer>>
      /\ pc' \in {"refused", "collector"}
  BY DEF NewSender
<1>2. AnswerOK'
  BY <1>1, Unanswered DEF Inv
<1>3. ConfigOK' /\ SinkOK'
  BY <1>1 DEF Inv, ConfigOK, SinkOK, Loaded
<1>4. Typed(cfg) /\ LeanOn(cfg)
  BY <1>1 DEF Inv, ConfigOK, Loaded
<1>5. ASSUME pc' = "collector", cfg.alerting
      PROVE  /\ sender'[1].queue > 0
             /\ sender'[1].minSeverity \in {"info", "warning", "critical"}
             /\ sender'[1].timeout = cfg.alertTimeout
  <2>1. 0 < cfg.alertTimeout
    BY <1>4, <1>5 DEF LeanOn
  <2>2. cfg.alertTimeout \in Int
    BY <1>4 DEF Typed, Numbers
  <2>3. /\ sender'[1].queue = Positive(cfg.alertQueue, 256)
        /\ sender'[1].timeout = Positive(cfg.alertTimeout, 5 * Second)
    <3> DEFINE o == AlertingOptions(cfg)
    <3>1. o.queue = cfg.alertQueue /\ o.timeout = cfg.alertTimeout
          /\ DOMAIN o = {"url", "minSeverity", "timeout", "queue"}
      BY DEF AlertingOptions
    <3>2. sender' = <<[o EXCEPT !.timeout = Positive(@, 5 * Second),
                                !.queue = Positive(@, 256)]>>
      BY <1>5 DEF NewSender
    <3> HIDE DEF o
    <3> QED
      BY <3>1, <3>2
  <2>4. sender'[1].minSeverity \in {"info", "warning", "critical"}
    BY <1>1, <1>5 DEF NewSender
  <2> QED
    BY <2>1, <2>2, <2>3, <2>4 DEF Positive
<1> QED
  BY <1>1, <1>2, <1>3, <1>5 DEF Inv, Loaded, SenderOK, CollectorOK

LEMMA NewCollectorInv == ASSUME Inv, NewCollector PROVE Inv'
<1>1. /\ pc = "collector" /\ UNCHANGED <<start, cfg, sink, sender, answer>>
      /\ pc' \in {"refused", "serving"}
  BY DEF NewCollector
<1>2. AnswerOK'
  BY <1>1, Unanswered DEF Inv
<1>3. ConfigOK' /\ SinkOK' /\ SenderOK'
  BY <1>1 DEF Inv, ConfigOK, SinkOK, SenderOK, Loaded
<1>4. Typed(cfg) /\ LeanOn(cfg)
  BY <1>1 DEF Inv, ConfigOK, Loaded
<1>5. ASSUME pc' = "serving"
      PROVE  /\ collector'[1].timeout = cfg.timeout /\ collector'[1].interval = cfg.interval
             /\ collector'[1].concurrency > 0
  <2>1. 0 < cfg.timeout /\ 0 < cfg.interval
    <3>1. cfg.timeout \in Int /\ cfg.interval \in Int
      BY <1>4 DEF Typed, Numbers
    <3>2. 0 < cfg.timeout /\ cfg.timeout < cfg.interval
      BY <1>4 DEF LeanOn
    <3> QED
      BY <3>1, <3>2
  <2>2. /\ collector'[1].timeout = Positive(cfg.timeout, 10 * Second)
        /\ collector'[1].interval = Positive(cfg.interval, 15 * Second)
        /\ collector'[1].concurrency = Positive(cfg.concurrency, 8)
    BY <1>5 DEF NewCollector
  <2> QED
    BY <2>1, <2>2 DEF Positive
<1> QED
  BY <1>1, <1>2, <1>3, <1>5 DEF Inv, Loaded, CollectorOK

\* Requests and the first cycle leave everything but the answer and readiness alone.
LEMMA ServingInv ==
    ASSUME Inv, UNCHANGED <<pc, start, cfg, sink, sender, collector>>, AnswerOK'
    PROVE  Inv'
BY DEF Inv, Loaded, ConfigOK, SinkOK, SenderOK, CollectorOK

\* What the mux, the token check and the handler make of a request.
LEMMA RefusedWithoutToken ==
    ASSUME NEW r, guarded(r.path), ~admitted(r.credential)
    PROVE  status(r) # 200
BY DEF status

LEMMA NotRefusedWithToken ==
    ASSUME NEW r, admitted(r.credential)
    PROVE  status(r) # 401
BY DEF status

LEMMA StatusDecides ==
    ASSUME NEW r, validateAPIAuth(cfg)
    PROVE  /\ cfg.apiAuth /\ r.path \in Data /\ status(r) = 200 =>
                 r.credential = Bearer(cfg.token) /\ cfg.token # ""
           /\ r.credential = Bearer(cfg.token) => status(r) # 401
<1>1. ASSUME cfg.apiAuth, r.path \in Data, status(r) = 200
      PROVE  r.credential = Bearer(cfg.token) /\ cfg.token # ""
  <2>1. guarded(r.path)
    BY <1>1 DEF guarded
  <2>2. admitted(r.credential)
    BY <1>1, <2>1, RefusedWithoutToken
  <2> QED
    BY <1>1, <2>2 DEF admitted, validateAPIAuth
<1>2. ASSUME r.credential = Bearer(cfg.token) PROVE status(r) # 401
  <2>1. admitted(r.credential)
    BY <1>2 DEF admitted
  <2> QED
    BY <2>1, NotRefusedWithToken
<1> QED
  BY <1>1, <1>2

LEMMA AnswerInv == ASSUME Inv, NEW r, Answer(r) PROVE Inv'
<1>1. /\ pc = "serving" /\ UNCHANGED <<pc, start, cfg, sink, sender, collector>>
      /\ answer' = <<[status |-> status(r), request |-> r]>>
  BY DEF Answer, built
<1>2. validateAPIAuth(cfg)
  BY <1>1 DEF Inv, ConfigOK, Loaded, LeanOn, validateAPIAuth
<1>3. TokenDecides'
  <2> SUFFICES ASSUME NEW i \in DOMAIN answer'
               PROVE  LET q == answer'[i].request
                      IN  /\ cfg.apiAuth /\ q.path \in Data /\ answer'[i].status = 200 =>
                               q.credential = Bearer(cfg.token) /\ cfg.token # ""
                          /\ q.credential = Bearer(cfg.token) => answer'[i].status # 401
    BY <1>1 DEF TokenDecides
  <2>1. answer'[i].request = r /\ answer'[i].status = status(r)
    <3> DEFINE given == [status |-> status(r), request |-> r]
    <3>1. answer'[i] = given
      BY <1>1
    <3> QED
      BY <3>1
  <2>2. /\ cfg.apiAuth /\ r.path \in Data /\ status(r) = 200 =>
               r.credential = Bearer(cfg.token) /\ cfg.token # ""
        /\ r.credential = Bearer(cfg.token) => status(r) # 401
    BY <1>2, StatusDecides
  <2> QED
    BY <2>1, <2>2
<1> QED
  BY <1>1, <1>3, ServingInv DEF AnswerOK

\* The invariant of startup: at every stage what the stages before it checked, defaulted
\* or rewired is what the next ones rely on, and answers are as the token decides.
THEOREM StartupInv == Spec => []Inv
<1>1. ASSUME Inv, [Next]_vars PROVE Inv'
  <2>1. CASE Load
    BY <1>1, <2>1, LoadInv
  <2>2. CASE Demo
    BY <1>1, <2>2, DemoInv
  <2>3. ASSUME NEW reachable \in BOOLEAN, OpenSink(reachable) PROVE Inv'
    BY <1>1, <2>3, OpenSinkInv
  <2>4. CASE NewSender
    BY <1>1, <2>4, NewSenderInv
  <2>5. CASE NewCollector
    BY <1>1, <2>5, NewCollectorInv
  <2>6. CASE FirstCycle
    <3>1. UNCHANGED <<pc, start, cfg, sink, sender, collector, answer>>
      BY <2>6 DEF FirstCycle, built
    <3>2. AnswerOK'
      BY <1>1, <3>1 DEF Inv, AnswerOK, TokenDecides
    <3> QED
      BY <1>1, <3>1, <3>2, ServingInv
  <2>7. ASSUME NEW method, NEW path, NEW credential, NEW severity,
               Request(method, path, credential, severity)
        PROVE  Inv'
    BY <1>1, <2>7, AnswerInv DEF Request
  <2>8. ASSUME NEW command, NEW token, NEW severity, Ifa(command, token, severity)
        PROVE  Inv'
    BY <2>7, <2>8 DEF Ifa
  <2>9. CASE Done
    <3>1. answer' = <<>> /\ UNCHANGED <<pc, start, cfg, sink, sender, collector>>
      BY <2>9 DEF Done, built
    <3>2. AnswerOK'
      BY <3>1 DEF AnswerOK, TokenDecides
    <3> QED
      BY <1>1, <3>1, <3>2, ServingInv
  <2>10. CASE UNCHANGED vars
    <3>1. UNCHANGED <<pc, start, cfg, sink, sender, collector, answer>>
      BY <2>10 DEF vars
    <3>2. AnswerOK'
      BY <1>1, <3>1 DEF Inv, AnswerOK, TokenDecides
    <3> QED
      BY <1>1, <3>1, <3>2, ServingInv
  <2> QED
    BY <1>1, <2>1, <2>2, <2>3, <2>4, <2>5, <2>6, <2>7, <2>8, <2>9, <2>10 DEF Next
<1> QED
  BY InitInv, <1>1, PTL DEF Spec

-----------------------------------------------------------------------------
(* The properties *)

\* What a serving control plane gives its parts is what the other modules assume of
\* their constants, for every file that decodes and every environment, and in a
\* demonstration too (Validate, applyDemoConfig and the constructors in run).
THEOREM PartsGetWhatTheyAssume == Spec => []AssumptionsHold
<1>1. Inv => AssumptionsHold
  <2> SUFFICES ASSUME Inv, pc = "serving" PROVE AssumptionsHold
    BY DEF AssumptionsHold, serving
  <2>1. /\ Typed(cfg) /\ LeanOn(cfg)
        /\ cfg.alerting /\ ~start.demo => cfg.alertTimeout < cfg.interval
        /\ cfg.database => sink > 0
        /\ cfg.alerting =>
              /\ sender[1].queue > 0
              /\ sender[1].minSeverity \in {"info", "warning", "critical"}
              /\ sender[1].timeout = cfg.alertTimeout
        /\ collector[1].timeout = cfg.timeout /\ collector[1].interval = cfg.interval
        /\ collector[1].concurrency > 0
    BY DEF Inv, Loaded, ConfigOK, SinkOK, SenderOK, CollectorOK
  <2>2. 0 < collector[1].timeout /\ collector[1].timeout < collector[1].interval
    BY <2>1 DEF LeanOn
  <2>3. cfg.alerting /\ ~start.demo => sender[1].timeout < collector[1].interval
    BY <2>1
  <2> QED
    BY <2>1, <2>2, <2>3 DEF AssumptionsHold, LeanOn
<1> QED
  BY StartupInv, <1>1, PTL

\* What is left for the constructors to find fault with, of what Validate accepted: two
\* targets that share a key.
Startable(c) ==
    /\ \A i \in DOMAIN collectorTargets(c) : ValidTarget(collectorTargets(c)[i])
    /\ distinctKeys(collectorTargets(c)) \/ SharesSeries(c)
    /\ c.alerting => /\ ValidURL(c.webhookURL)
                     /\ ToLower(c.minSeverity) \in {"info", "warning", "critical"}

\* Lower-casing the runtime changes nothing else of a target.
LEMMA SameKey ==
    ASSUME NEW t, DOMAIN t = {"name", "namespace", "runtime", "metricsURL", "dcgmURL"}
    PROVE  Key(toCollectorTarget(t)) = Key(t)
<1>1. toCollectorTarget(t).name = t.name /\ toCollectorTarget(t).namespace = t.namespace
  BY DEF toCollectorTarget
<1> QED
  BY <1>1 DEF Key

\* Of two targets that share a key, which Validate tells apart, one has no namespace.
LEMMA ValidIsStartable ==
    ASSUME NEW c, Typed(c), Validate(c)
    PROVE  Startable(c)
<1>1. ValidTargets(c) /\ validateAlerting(c)
  BY DEF Validate
<1>2. ASSUME NEW i \in DOMAIN collectorTargets(c), NEW j \in DOMAIN collectorTargets(c), i # j,
             Key(collectorTargets(c)[i]) = Key(collectorTargets(c)[j])
      PROVE  SharesSeries(c)
  <2> DEFINE s == c.targets[i]
             t == c.targets[j]
  <2>1. /\ i \in DOMAIN c.targets /\ j \in DOMAIN c.targets
        /\ collectorTargets(c)[i] = toCollectorTarget(s)
        /\ collectorTargets(c)[j] = toCollectorTarget(t)
    BY DEF collectorTargets
  <2>2. /\ DOMAIN s = {"name", "namespace", "runtime", "metricsURL", "dcgmURL"}
        /\ DOMAIN t = {"name", "namespace", "runtime", "metricsURL", "dcgmURL"}
    BY <2>1 DEF Typed
  <2>3. Key(s) = Key(t)
    BY <1>2, <2>1, <2>2, SameKey
  <2>4. s.namespace \o s.name # t.namespace \o t.name
    BY <1>1, <1>2, <2>1 DEF ValidTargets
  <2> HIDE DEF s, t
  <2>5. \/ s.namespace = NoName /\ t.namespace # NoName
        \/ s.namespace # NoName /\ t.namespace = NoName
    BY <2>3, <2>4 DEF Key
  <2> QED
    BY <2>1, <2>3, <2>5 DEF SharesSeries, s, t
<1>3. \A i \in DOMAIN collectorTargets(c) : ValidTarget(collectorTargets(c)[i])
  BY <1>1 DEF ValidTargets, collectorTargets
<1>4. c.alerting => /\ ValidURL(c.webhookURL)
                    /\ ToLower(c.minSeverity) \in {"info", "warning", "critical"}
  BY <1>1 DEF validateAlerting
<1> QED
  BY <1>2, <1>3, <1>4 DEF Startable, distinctKeys

\* The simulated fleet is accepted by every check.
LEMMA DemoTargetsStart ==
    ASSUME NEW c, c.targets = demoTargets
    PROVE  /\ \A i \in DOMAIN collectorTargets(c) : ValidTarget(collectorTargets(c)[i])
           /\ distinctKeys(collectorTargets(c))
<1> DEFINE s == demoTarget("chat-llama3-8b")
           t == demoTarget("summarise-mixtral")
           ts == collectorTargets(c)
<1>1. ToLower("vllm") = "vllm"
  BY DEF ToLower
<1>2. DOMAIN ts = {1, 2} /\ ts[1] = toCollectorTarget(s) /\ ts[2] = toCollectorTarget(t)
  <2>1. demoTargets[1] = s /\ demoTargets[2] = t
    BY DEF demoTargets
  <2> QED
    BY <2>1, DemoTargetsTyped DEF collectorTargets
<1>3. ASSUME NEW name \in {"chat-llama3-8b", "summarise-mixtral"}
      PROVE  /\ ValidTarget(toCollectorTarget(demoTarget(name)))
             /\ Key(toCollectorTarget(demoTarget(name))) = <<"inference">> \o <<name>>
  <2> DEFINE u == demoTarget(name)
             v == toCollectorTarget(u)
             web == [scheme |-> "http", host |-> "127.0.0.1"]
  <2>1. /\ DOMAIN u = {"name", "namespace", "runtime", "metricsURL", "dcgmURL"}
        /\ u.name = <<name>> /\ u.namespace = <<"inference">> /\ u.runtime = "vllm"
        /\ u.metricsURL = web /\ u.dcgmURL = web
    BY DEF demoTarget
  <2> HIDE DEF u, web
  <2>2. /\ v.name = <<name>> /\ v.namespace = <<"inference">> /\ v.runtime = ToLower("vllm")
        /\ v.metricsURL = web /\ v.dcgmURL = web
    BY <2>1 DEF toCollectorTarget
  <2>3. v.runtime = "vllm"
    BY <1>1, <2>2
  <2> HIDE DEF v
  <2>4. ValidURL(web)
    BY DEF web, ValidURL
  <2>5. <<name>> # NoName /\ <<"inference">> # NoName
    <3>1. <<name>>[1] = name /\ <<"inference">>[1] = "inference" /\ NoName[1] = ""
      BY DEF NoName
    <3>2. name # "" /\ "inference" # ""
      OBVIOUS
    <3> QED
      BY <3>1, <3>2
  <2>6. ValidTarget(v)
    BY <2>2, <2>3, <2>4, <2>5 DEF ValidTarget
  <2>7. Key(v) = <<"inference">> \o <<name>>
    BY <2>2, <2>5 DEF Key
  <2> QED
    BY <2>6, <2>7 DEF v, u
<1>4. Key(ts[1]) # Key(ts[2])
  <2>1. \A a, b : (<<a>> \o <<b>>)[2] = b
    OBVIOUS
  <2>2. Key(ts[1])[2] = "chat-llama3-8b" /\ Key(ts[2])[2] = "summarise-mixtral"
    BY <1>2, <1>3, <2>1
  <2> QED
    BY <2>2
<1> HIDE DEF ts
<1>5. \A i \in DOMAIN ts : ValidTarget(ts[i])
  BY <1>2, <1>3
<1>6. distinctKeys(ts)
  BY <1>2, <1>4 DEF distinctKeys
<1> QED
  BY <1>5, <1>6 DEF ts

\* Until everything is built, nothing stands in the way but a shared key, and nothing
\* at all in a demonstration.
StartsInv ==
    /\ pc \in Loaded \ {"serving"} =>
          /\ Startable(cfg)
          /\ start.demo /\ pc # "demo" => distinctKeys(collectorTargets(cfg))
    /\ ValidatedStarts

LEMMA LoadStarts == ASSUME Inv, StartsInv, Load PROVE StartsInv'
<1>1. pc = "load" /\ UNCHANGED start
  BY DEF Load
<1>2. CASE pc' = "refused" /\ ~(usable /\ Validate(loaded))
  <2>1. ~(usable' /\ Validate(loaded'))
    BY <1>1, <1>2 DEF usable, loaded
  <2> QED
    BY <1>2, <2>1 DEF StartsInv, ValidatedStarts, Loaded
<1>3. CASE pc' = "demo" /\ cfg' = loaded /\ Validate(loaded)
  <2>1. Typed(decoded(start.file))
    BY <1>1, FilesAssumption, DefaultTyped DEF Inv
  <2>2. Typed(loaded)
    BY <2>1, EnvironKeepsTypes DEF loaded
  <2>3. Startable(loaded)
    BY <1>3, <2>2, ValidIsStartable
  <2> QED
    BY <1>3, <2>3 DEF StartsInv, ValidatedStarts
<1> QED
  BY <1>2, <1>3 DEF Load

LEMMA DemoStarts == ASSUME Inv, StartsInv, Demo PROVE StartsInv'
<1>1. pc = "demo" /\ pc' = "sink" /\ UNCHANGED start
  BY DEF Demo
<1>2. Startable(cfg) /\ Typed(cfg)
  BY <1>1 DEF StartsInv, Loaded, Inv, ConfigOK
<1>3. CASE start.demo
  <2>1. cfg' = applyDemoConfig(cfg)
    BY <1>3 DEF Demo
  <2>2. {"targets", "alerting", "webhookURL", "minSeverity"} \subseteq DOMAIN cfg
    BY <1>2 DEF Typed, Default
  <2>3. /\ cfg'.targets = demoTargets /\ cfg'.alerting = cfg.alerting
        /\ cfg'.webhookURL = cfg.webhookURL /\ cfg'.minSeverity = cfg.minSeverity
    BY <2>1, <2>2 DEF applyDemoConfig
  <2>4. /\ \A i \in DOMAIN collectorTargets(cfg') : ValidTarget(collectorTargets(cfg')[i])
        /\ distinctKeys(collectorTargets(cfg'))
    BY <2>3, DemoTargetsStart
  <2>5. Startable(cfg')
    BY <1>2, <2>3, <2>4 DEF Startable
  <2> QED
    BY <1>1, <2>4, <2>5 DEF StartsInv, ValidatedStarts
<1>4. CASE ~start.demo
  <2>1. cfg' = cfg
    BY <1>4 DEF Demo
  <2> QED
    BY <1>1, <1>2, <1>4, <2>1 DEF StartsInv, ValidatedStarts
<1> QED
  BY <1>3, <1>4

LEMMA OpenSinkStarts ==
    ASSUME Inv, StartsInv, NEW reachable \in BOOLEAN, OpenSink(reachable)
    PROVE  StartsInv'
<1>1. pc = "sink" /\ UNCHANGED <<start, cfg>>
  BY DEF OpenSink
<1>2. CASE pc' = "refused" /\ cfg.database /\ sink' = 0
  BY <1>1, <1>2 DEF StartsInv, ValidatedStarts, Loaded
<1>3. CASE pc' = "alerting"
  BY <1>1, <1>3 DEF StartsInv, ValidatedStarts, Loaded
<1> QED
  BY <1>2, <1>3 DEF OpenSink

LEMMA NewSenderStarts == ASSUME Inv, StartsInv, NewSender PROVE StartsInv'
<1>1. pc = "alerting" /\ UNCHANGED <<start, cfg, sink>>
  BY DEF NewSender
<1>2. Startable(cfg)
  BY <1>1 DEF StartsInv, Loaded
<1>3. pc' = "collector"
  <2>1. CASE ~cfg.alerting
    BY <2>1 DEF NewSender
  <2>2. CASE cfg.alerting
    <3> DEFINE o == AlertingOptions(cfg)
    <3>1. /\ o.url = cfg.webhookURL /\ o.minSeverity = ToLower(cfg.minSeverity)
          /\ DOMAIN o = {"url", "minSeverity", "timeout", "queue"}
      BY DEF AlertingOptions
    <3>2. sender' = <<[o EXCEPT !.timeout = Positive(@, 5 * Second),
                                !.queue = Positive(@, 256)]>>
      BY <2>2 DEF NewSender
    <3> HIDE DEF o
    <3>3. sender'[1].url = cfg.webhookURL /\ sender'[1].minSeverity = ToLower(cfg.minSeverity)
      BY <3>1, <3>2
    <3>4. /\ ValidURL(sender'[1].url)
          /\ sender'[1].minSeverity \in {"info", "warning", "critical"}
      BY <1>2, <2>2, <3>3 DEF Startable
    <3> QED
      BY <2>2, <3>4 DEF NewSender
  <2> QED
    BY <2>1, <2>2
<1> QED
  BY <1>1, <1>2, <1>3 DEF StartsInv, ValidatedStarts, Loaded

LEMMA NewCollectorStarts == ASSUME Inv, StartsInv, NewCollector PROVE StartsInv'
<1>1. pc = "collector" /\ UNCHANGED <<start, cfg, sink>>
  BY DEF NewCollector
<1>2. Startable(cfg) /\ (start.demo => distinctKeys(collectorTargets(cfg)))
  BY <1>1 DEF StartsInv, Loaded
<1>3. CASE pc' = "serving"
  BY <1>3 DEF StartsInv, ValidatedStarts
<1>4. CASE pc' = "refused"
  <2>1. /\ cfg.timeout \in Int /\ cfg.interval \in Int
        /\ 0 < cfg.timeout /\ cfg.timeout < cfg.interval
    BY <1>1 DEF Inv, ConfigOK, Loaded, Typed, Numbers, LeanOn
  <2>2. Positive(cfg.timeout, 10 * Second) < Positive(cfg.interval, 15 * Second)
    BY <2>1 DEF Positive
  <2>3. ~distinctKeys(collectorTargets(cfg))
    BY <1>2, <1>4, <2>2 DEF NewCollector, Startable
  <2>4. ~start.demo /\ SharesSeries(cfg)
    BY <1>2, <2>3 DEF Startable
  <2> QED
    BY <1>1, <1>4, <2>4 DEF StartsInv, ValidatedStarts, Loaded
<1> QED
  BY <1>3, <1>4 DEF NewCollector

\* A configuration that Validate accepts is refused later only for a database that does
\* not answer, or for targets that share a key of the store, whatever names, addresses
\* and spellings the file gives, and a demonstration not even for those (Validate beside
\* alerting.New, collector.New and applyDemoConfig).
THEOREM ValidatedStartsHold == Spec => []ValidatedStarts
<1>1. Init => StartsInv
  BY DEF Init, StartsInv, ValidatedStarts, Loaded
<1>2. ASSUME Inv, StartsInv, [Next]_vars PROVE StartsInv'
  <2>1. CASE Load
    BY <1>2, <2>1, LoadStarts
  <2>2. CASE Demo
    BY <1>2, <2>2, DemoStarts
  <2>3. ASSUME NEW reachable \in BOOLEAN, OpenSink(reachable) PROVE StartsInv'
    BY <1>2, <2>3, OpenSinkStarts
  <2>4. CASE NewSender
    BY <1>2, <2>4, NewSenderStarts
  <2>5. CASE NewCollector
    BY <1>2, <2>5, NewCollectorStarts
  <2>6. ASSUME UNCHANGED <<pc, start, cfg, sink>> PROVE StartsInv'
    <3>1. /\ pc' = pc /\ start' = start /\ cfg' = cfg /\ sink' = sink
          /\ (usable' <=> usable) /\ loaded' = loaded
      BY <2>6 DEF usable, loaded
    <3> QED
      BY <1>2, <3>1 DEF StartsInv, ValidatedStarts
  <2>7. ASSUME NEW r, Answer(r) PROVE StartsInv'
    BY <2>6, <2>7 DEF Answer, built
  <2>8. ASSUME NEW method, NEW path, NEW credential, NEW severity,
               Request(method, path, credential, severity)
        PROVE  StartsInv'
    BY <2>7, <2>8 DEF Request
  <2>9. ASSUME NEW command, NEW token, NEW severity, Ifa(command, token, severity)
        PROVE  StartsInv'
    BY <2>8, <2>9 DEF Ifa
  <2>10. CASE FirstCycle \/ Done \/ UNCHANGED vars
    BY <2>6, <2>10 DEF FirstCycle, Done, built, vars
  <2> QED
    BY <1>2, <2>1, <2>2, <2>3, <2>4, <2>5, <2>8, <2>9, <2>10 DEF Next
<1>3. StartsInv => ValidatedStarts
  BY DEF StartsInv
<1> QED
  BY <1>1, <1>2, <1>3, StartupInv, PTL DEF Spec

\* With authentication on, data leaves only for the configured token, on every route,
\* and whoever has the token is never refused for want of it (requireAuth, New).
THEOREM TokenDecidesAlways == Spec => []TokenDecides
<1>1. Inv => TokenDecides
  BY DEF Inv, AnswerOK
<1> QED
  BY StartupInv, <1>1, PTL
=============================================================================
