------------------------------ MODULE Startup ------------------------------
(***************************************************************************)
(* The control plane from its first line to its first answers (run in      *)
(* cmd/control-plane): the configuration is loaded and validated, rewired  *)
(* for a demonstration if one was asked for, and handed to the             *)
(* constructors of the sink, the alert sender, the collector and the HTTP  *)
(* API, each with defaults and checks of its own.  Then clients ask,       *)
(* the ifa command line among them (cmd/ifa).                              *)
(*                                                                         *)
(* Discovery at startup, the server's own failures and shutdown are        *)
(* ControlPlane's subject; what the answers say is ApiAnalysis's.          *)
(***************************************************************************)
EXTENDS Config

CONSTANTS
    Files,     \* what a configuration file may say: a function from fields to values
    Environs,  \* the environments it may be started in, like Unset
    Tokens     \* the tokens clients may hold

\* A value of another type does not decode: such a file is "unparseable".
ASSUME FilesAssumption == \A file \in Files : Typed(decoded(file))

VARIABLES
    pc,        \* "load", "demo", "sink", "alerting", "collector", "serving", "refused"
    start,     \* how it was started: [reading, file, explicit, environ, demo]
    cfg,       \* the configuration, Default before it is loaded
    sink,      \* capacity of the sink's queue, 0 without a database
    sender,    \* the alert sender's options, or <<>>
    collector, \* the collector's options, or <<>>
    ready,     \* the first collection cycle has completed
    answer     \* the request just answered and its status, or <<>>

built == <<sink, sender, collector>>
vars == <<pc, start, cfg, sink, sender, collector, ready, answer>>

NoFile == [f \in {} |-> {}]   \* a file that says nothing

Positive(n, default) == IF n > 0 THEN n ELSE default

-----------------------------------------------------------------------------
(* From the configuration to running parts *)

\* What the file and the environment make of the built-in values.
loaded == applyEnv(decoded(start.file), start.environ)

\* An absent file may be passed over only if it was not named on the command line.
usable == \/ start.reading = "parsed"
          \/ start.reading = "absent" /\ ~start.explicit

\* Load.  Reading the file ends in "parsed", "unparseable" (an unknown key, a value of
\* the wrong form, nothing at all), "absent" or "unreadable".
Load ==
    /\ pc = "load"
    /\ IF usable /\ Validate(loaded)
       THEN pc' = "demo" /\ cfg' = loaded
       ELSE pc' = "refused" /\ cfg' = cfg
    /\ UNCHANGED built /\ UNCHANGED <<start, ready, answer>>

\* The simulated fleet, two of its workloads.
demoTarget(name) ==
    [name |-> <<name>>, namespace |-> <<"inference">>, runtime |-> "vllm",
     metricsURL |-> [scheme |-> "http", host |-> "127.0.0.1"],
     dcgmURL |-> [scheme |-> "http", host |-> "127.0.0.1"]]
demoTargets == <<demoTarget("chat-llama3-8b"), demoTarget("summarise-mixtral")>>

\* Slip: the retention is shortened, and not the window it has to outlast.
applyDemoConfigKeepsWindow(c) ==
    [c EXCEPT !.interval = Second, !.timeout = 8, !.retentionPeriod = 5 * Minute,
              !.kubernetes = FALSE, !.database = FALSE, !.targets = demoTargets]

applyDemoConfig(c) ==
    [c EXCEPT !.interval = Second, !.timeout = 8, !.retentionPeriod = 5 * Minute,
              !.thresholds.SustainFor = 5 * Second,
              !.kubernetes = FALSE, !.database = FALSE, !.targets = demoTargets]

\* The configuration is rewired after it was validated, and not validated again.
Demo ==
    /\ pc = "demo"
    /\ pc' = "sink"
    /\ cfg' = IF start.demo THEN applyDemoConfig(cfg) ELSE cfg
    /\ UNCHANGED built /\ UNCHANGED <<start, ready, answer>>

\* timescale.Open, which pings the database.
OpenSink(reachable) ==
    /\ pc = "sink"
    /\ IF cfg.database /\ ~reachable
       THEN pc' = "refused" /\ sink' = 0
       ELSE pc' = "alerting"
            /\ sink' = IF cfg.database THEN Positive(cfg.databaseQueue, 1024) ELSE 0
    /\ UNCHANGED <<start, cfg, sender, collector, ready, answer>>

\* alerting.New
NewSender ==
    /\ pc = "alerting"
    /\ IF ~cfg.alerting
       THEN pc' = "collector" /\ sender' = <<>>
       ELSE /\ sender' = <<[AlertingOptions(cfg) EXCEPT !.timeout = Positive(@, 5 * Second),
                                                        !.queue = Positive(@, 256)]>>
            /\ pc' = IF /\ ValidURL(sender'[1].url)
                        /\ sender'[1].minSeverity \in {"info", "warning", "critical"}
                     THEN "collector" ELSE "refused"
    /\ UNCHANGED <<start, cfg, sink, collector, ready, answer>>

distinctKeys(ts) == \A i, j \in DOMAIN ts : i # j => Key(ts[i]) # Key(ts[j])

\* collector.New; the HTTP API is wired up and the collector started.
NewCollector ==
    /\ pc = "collector"
    /\ LET opts == [interval |-> Positive(cfg.interval, 15 * Second),
                    timeout |-> Positive(cfg.timeout, 10 * Second),
                    concurrency |-> Positive(cfg.concurrency, 8),
                    maxBodyBytes |-> Positive(cfg.maxBodyBytes, 8),
                    targets |-> collectorTargets(cfg)]
       IN  IF /\ opts.timeout < opts.interval
              /\ \A i \in DOMAIN opts.targets : ValidTarget(opts.targets[i])
              /\ distinctKeys(opts.targets)
           THEN pc' = "serving" /\ collector' = <<opts>>
           ELSE pc' = "refused" /\ UNCHANGED collector
    /\ UNCHANGED <<start, cfg, sink, sender, ready, answer>>

\* The first cycle completes: SetReady.
FirstCycle ==
    /\ pc = "serving" /\ ~ready
    /\ ready' = TRUE
    /\ UNCHANGED built /\ UNCHANGED <<pc, start, cfg, answer>>

-----------------------------------------------------------------------------
(* Requests: [path, credential, severity, method] *)

Open == {"/api/v1/healthz", "/api/v1/readyz", "/healthz", "/metrics"}
Versioned == {"/api/v1/telemetry", "/api/v1/recommendations", "/api/v1/workloads",
              "/api/v1/rules"}
Legacy == {"/telemetry", "/recommendations", "/workloads"}
Data == Versioned \cup Legacy

\* Slip: the legacy paths were forgotten.
guardedVersioned(path) == path \in Versioned

\* The routes that New wraps in requireAuth.
guarded(path) == path \in Data

\* The routes whose handler parses a filter.
filtered(path) == path \in {"/api/v1/telemetry", "/api/v1/recommendations",
                            "/telemetry", "/recommendations"}

\* requireAuth: the one credential it lets through.
Bearer(token) == [scheme |-> "Bearer", token |-> token]
admitted(credential) == cfg.token = "" \/ credential = Bearer(cfg.token)

\* parseFilter
ValidFilter(r) == r.severity = "" \/ ToLower(r.severity) \in {"info", "warning", "critical"}

\* The mux, getOnly, requireAuth and the handler, from the outside in.
status(r) ==
    IF r.path \notin Open \cup Data THEN 404
    ELSE IF r.method \notin {"GET", "HEAD"} THEN 405
    ELSE IF guarded(r.path) /\ ~admitted(r.credential) THEN 401
    ELSE IF r.path = "/api/v1/readyz" /\ ~ready THEN 503
    ELSE IF filtered(r.path) /\ ~ValidFilter(r) THEN 400
    ELSE 200

\* A request is answered, and then done with: requests share nothing.
Answer(r) ==
    /\ pc = "serving" /\ answer = <<>>
    /\ answer' = <<[status |-> status(r), request |-> r]>>
    /\ UNCHANGED built /\ UNCHANGED <<pc, start, cfg, ready>>

\* What any client may send.
NoCredential == [scheme |-> "", token |-> ""]
Request(method, path, credential, severity) ==
    Answer([path |-> path, credential |-> credential, severity |-> severity,
            method |-> method])

\* The ifa command line: get sends the token it finds in its own environment, and
\* fetchJSON takes only 200 for an answer.
Commands == Versioned
Ifa(command, token, severity) ==
    Request("GET", command, IF token = "" THEN NoCredential ELSE Bearer(token), severity)

Done ==
    /\ answer # <<>>
    /\ answer' = <<>>
    /\ UNCHANGED built /\ UNCHANGED <<pc, start, cfg, ready>>

-----------------------------------------------------------------------------

\* A file that was read may have been named or not: it makes no difference.
Init ==
    /\ pc = "load"
    /\ start \in [reading : {"parsed"}, file : Files, explicit : {TRUE},
                  environ : Environs, demo : BOOLEAN]
                 \cup [reading : {"absent", "unreadable", "unparseable"}, file : {NoFile},
                       explicit : BOOLEAN, environ : Environs, demo : BOOLEAN]
    /\ cfg = Default
    /\ sink = 0 /\ sender = <<>> /\ collector = <<>>
    /\ ready = FALSE
    /\ answer = <<>>

Next ==
    \/ Load
    \/ Demo
    \/ \E reachable \in BOOLEAN : OpenSink(reachable)
    \/ NewSender
    \/ NewCollector
    \/ FirstCycle
    \/ \E method \in {"GET", "POST"}, path \in Open \cup Data \cup {"/"},
          credential \in {NoCredential} \cup {Bearer(token) : token \in Tokens},
          severity \in {"", "fatal"} :
        Request(method, path, credential, severity)
    \/ \E command \in Commands, token \in Tokens \cup {""}, severity \in {"", "Critical"} :
        Ifa(command, token, severity)
    \/ Done

Spec == Init /\ [][Next]_vars

-----------------------------------------------------------------------------
(* Properties *)

serving == pc = "serving"

\* A control plane that serves gives the rules, the store, the collector, the sink and
\* the alert sender what they rely on: what the other modules assume of their
\* constants.  The demonstration is rewired after the checks and still satisfies them,
\* all but the last: its interval may be shorter than a delivery's timeout.  A window
\* so long (97 years) that three of it exceed what a duration can hold escapes the check.
AssumptionsHold ==
    serving =>
        /\ Rules(0)!Validate(cfg.thresholds)
        /\ cfg.retentionSamples > 1 /\ cfg.retentionPeriod > 0
        /\ LET needed == cfg.thresholds.SustainFor * Rules(0)!TrendWindow
           IN  needed < DurationRange => cfg.retentionPeriod >= needed
        /\ 0 < collector[1].timeout /\ collector[1].timeout < collector[1].interval
        /\ collector[1].concurrency > 0
        /\ cfg.database => sink > 0
        /\ cfg.alerting =>
            /\ sender[1].queue > 0
            /\ sender[1].minSeverity \in {"info", "warning", "critical"}
            /\ ~start.demo => sender[1].timeout < collector[1].interval

\* What Validate lets through starts: the checks the constructors make for themselves,
\* on what is left of the configuration after lower-casing, defaulting and rewiring for
\* a demonstration, agree with Validate's, so that nothing surfaces with half the parts
\* running.  But for a database that does not answer, and for two targets that Validate
\* tells apart and the store would not, a/b without a namespace and b in namespace a:
\* only collector.New looks at the key under which the store keeps them.
SharesSeries(c) ==
    \E i, j \in DOMAIN c.targets :
        /\ c.targets[i].namespace = NoName /\ c.targets[j].namespace # NoName
        /\ Key(c.targets[i]) = Key(c.targets[j])
ValidatedStarts ==
    pc = "refused" /\ usable /\ Validate(loaded) =>
        \/ cfg.database /\ sink = 0
        \/ ~start.demo /\ SharesSeries(cfg)

\* With api_auth.enabled, data leaves only for a request that carries the configured
\* token as a Bearer credential, on the legacy paths too, and whichever of the file
\* and the environment the token came from; and a client that has the token, as the
\* ifa command has it from IFA_API_TOKEN, is never turned away for want of it
\* (docs/SECURITY_MODEL.md; docs/API.md still says that there is no authentication).
TokenDecides ==
    \A i \in DOMAIN answer :
        LET r == answer[i].request
        IN  /\ cfg.apiAuth /\ r.path \in Data /\ answer[i].status = 200 =>
                 r.credential = Bearer(cfg.token) /\ cfg.token # ""
            /\ r.credential = Bearer(cfg.token) => answer[i].status # 401
=============================================================================
