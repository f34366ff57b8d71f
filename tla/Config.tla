------------------------------- MODULE Config -------------------------------
(***************************************************************************)
(* The configuration of the control plane (internal/config): the built-in  *)
(* values, what a file and the environment change in them, and what        *)
(* Validate insists on, with the checks it borrows from the collector, the *)
(* rule engine and the alert sender.                                       *)
(*                                                                         *)
(* Strings are abstracted to what the checks look at.  A namespace or a    *)
(* name is the sequence of its parts between slashes, so that joining two  *)
(* with a slash is concatenation.  A URL is its scheme and its host; one   *)
(* that does not parse has neither.  Durations are in tenths of a second.  *)
(* The cluster's name and what is only logged are left out.                *)
(***************************************************************************)
EXTENDS Integers, Sequences

CONSTANT DurationRange   \* a duration is at least -DurationRange and below DurationRange

ASSUME DurationAssumption == DurationRange \in Nat \ {0}

Rules(T) == INSTANCE Recommender

Second == 10
Minute == 60 * Second
NoName == <<"">>                        \* an empty string
NoURL == [scheme |-> "", host |-> ""]

\* Arithmetic on durations wraps, as on any int64.
wrapped(d) == ((d + DurationRange) % (2 * DurationRange)) - DurationRange

\* The spellings in use that are not lower case already.
ToLower(s) ==
    LET lower == [WARN |-> "warn", Text |-> "text", vLLM |-> "vllm", Critical |-> "critical"]
    IN  IF s \in DOMAIN lower THEN lower[s] ELSE s

DefaultThresholds ==
    [Rules(0)!DefaultThresholds EXCEPT !.SustainFor = @ * Second, !.StaleAfter = @ * Second]

Default ==
    [address |-> ":8080", readHeaderTimeout |-> 5 * Second,
     level |-> "info", format |-> "json",
     interval |-> 15 * Second, timeout |-> 10 * Second,
     concurrency |-> 8, maxBodyBytes |-> 8, targets |-> <<>>,
     retentionSamples |-> 120, retentionPeriod |-> 15 * Minute,
     kubernetes |-> FALSE, resyncPeriod |-> 10 * Minute,
     database |-> FALSE, dsn |-> "", databaseQueue |-> 1024,
     alerting |-> FALSE, webhookURL |-> NoURL, minSeverity |-> "warning",
     alertTimeout |-> 5 * Second, alertQueue |-> 256,
     apiAuth |-> FALSE, token |-> "",
     thresholds |-> DefaultThresholds]

\* What every configuration is by the types of Config's fields, as far as it matters
\* to the arithmetic done with them and to the checks of targets.
Numbers == {"readHeaderTimeout", "interval", "timeout", "concurrency", "maxBodyBytes",
            "retentionSamples", "retentionPeriod", "resyncPeriod", "databaseQueue",
            "alertTimeout", "alertQueue"}
Typed(c) ==
    /\ DOMAIN Default \subseteq DOMAIN c
    /\ \A f \in Numbers : c[f] \in Int
    /\ c.thresholds \in [DOMAIN DefaultThresholds -> Int]
    /\ \A i \in DOMAIN c.targets :
          DOMAIN c.targets[i] = {"name", "namespace", "runtime", "metricsURL", "dcgmURL"}

\* Decode: what the file says replaces what was there, the rest keeps its value.
decoded(file) == [f \in DOMAIN Default |-> IF f \in DOMAIN file THEN file[f] ELSE Default[f]]

\* applyEnv: a variable that is not set, or set to nothing, changes nothing.
Unset == [dsn |-> "", webhookURL |-> NoURL, token |-> "", level |-> "", format |-> "",
          address |-> ""]
applyEnv(c, environ) ==
    [f \in DOMAIN c |-> IF f \in DOMAIN Unset /\ environ[f] # Unset[f] THEN environ[f] ELSE c[f]]

-----------------------------------------------------------------------------
(* Validate *)

\* validateScrapeURL, and the webhook's ValidateURL.
ValidURL(u) == u.scheme \in {"http", "https"} /\ u.host # ""

\* Target.Key
Key(t) == IF t.namespace = NoName THEN t.name ELSE t.namespace \o t.name

\* Target.Validate
ValidTarget(t) ==
    /\ t.name # NoName
    /\ t.runtime \in {"vllm", "triton"}
    /\ ValidURL(t.metricsURL)
    /\ t.dcgmURL # NoURL => ValidURL(t.dcgmURL)

toCollectorTarget(t) == [t EXCEPT !.runtime = ToLower(@)]

\* Targets
collectorTargets(c) == [i \in DOMAIN c.targets |-> toCollectorTarget(c.targets[i])]

ValidTargets(c) ==
    LET key(i) == c.targets[i].namespace \o c.targets[i].name
    IN  /\ \A i, j \in DOMAIN c.targets : i # j => key(i) # key(j)
        /\ \A i \in DOMAIN c.targets : ValidTarget(collectorTargets(c)[i])

ValidRetention(c) ==
    /\ c.retentionSamples > 1
    /\ c.retentionPeriod > 0
    /\ c.retentionPeriod >= wrapped(c.thresholds.SustainFor * Rules(0)!TrendWindow)

validateAlerting(c) ==
    /\ ToLower(c.minSeverity) \in {"info", "warning", "critical"}
    /\ c.alerting =>
        /\ ValidURL(c.webhookURL)
        /\ 0 < c.alertTimeout /\ c.alertTimeout < c.interval
        /\ c.alertQueue > 0

\* Slip: the severity is handed on as it was written.
AlertingOptionsAsWritten(c) == [url |-> c.webhookURL, minSeverity |-> c.minSeverity,
                                timeout |-> c.alertTimeout, queue |-> c.alertQueue]

\* AlertingOptions
AlertingOptions(c) == [url |-> c.webhookURL, minSeverity |-> ToLower(c.minSeverity),
                       timeout |-> c.alertTimeout, queue |-> c.alertQueue]

validateAPIAuth(c) == c.apiAuth => c.token # ""

Validate(c) ==
    /\ c.address # "" /\ c.readHeaderTimeout > 0
    /\ ToLower(c.level) \in {"debug", "info", "warn", "error"}
    /\ ToLower(c.format) \in {"json", "text"}
    /\ 0 < c.timeout /\ c.timeout < c.interval
    /\ ValidTargets(c)
    /\ Rules(0)!Validate(c.thresholds)
    /\ ValidRetention(c)
    /\ c.database => c.dsn # ""
    /\ c.kubernetes => c.resyncPeriod > 0
    /\ validateAlerting(c)
    /\ validateAPIAuth(c)
=============================================================================
