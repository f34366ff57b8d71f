----------------------------- MODULE MCStartup -----------------------------
(***************************************************************************)
(* Startup with everything switched on, and with every one or two settings *)
(* of a list changed from that.                                            *)
(***************************************************************************)
EXTENDS Startup, TLC

Web(host) == [scheme |-> "http", host |-> host]
Target(namespace, name, runtime, url) ==
    [name |-> name, namespace |-> namespace, runtime |-> runtime,
     metricsURL |-> Web(url), dcgmURL |-> NoURL]

\* Two targets whose keys differ for Validate and not for collector.New, among others.
Fleets ==
    {<<>>,
     <<Target(NoName, <<"a", "b">>, "vllm", "x"), Target(<<"a">>, <<"b">>, "vllm", "y")>>,
     <<Target(<<"a">>, <<"b">>, "vLLM", "x"), Target(<<"c">>, <<"b">>, "triton", "y")>>,
     <<Target(<<"a">>, <<"b">>, "vllm", "x"), Target(<<"a">>, <<"b">>, "triton", "y")>>,
     <<Target(<<"a">>, NoName, "vllm", "x")>>,
     <<Target(<<"a">>, <<"b">>, "tgi", "x")>>,
     <<Target(<<"a">>, <<"b">>, "vllm", "")>>}

\* Thresholds with another window, or contradictory.
Windows ==
    {[DefaultThresholds EXCEPT !.SustainFor = d] :
        d \in {0 - 1, 0, 2 * Minute, DurationRange \div 2}}
    \cup {[DefaultThresholds EXCEPT !.GPUUtilLowPct = 85]}

AllOn ==
    [database |-> TRUE, dsn |-> "postgres://", alerting |-> TRUE,
     webhookURL |-> Web("hooks"), kubernetes |-> TRUE, apiAuth |-> TRUE, token |-> "t1",
     targets |-> <<Target(<<"a">>, <<"b">>, "vllm", "x")>>]

\* A setting is a field and a value to give it.
Setting(field, values) == {[f \in {field} |-> v] : v \in values}
Settings ==
    UNION {Setting("targets", Fleets),
           Setting("thresholds", Windows),
           Setting("address", {""}),
           Setting("readHeaderTimeout", {0}),
           Setting("level", {"WARN", "loud"}),
           Setting("format", {"Text", "xml"}),
           Setting("interval", {0, 10 * Second, 20 * Second}),
           Setting("timeout", {0, 15 * Second}),
           Setting("concurrency", {0, 1}),
           Setting("maxBodyBytes", {0}),
           Setting("retentionSamples", {1, 2}),
           Setting("retentionPeriod", {0, 2 * Minute, 6 * Minute}),
           Setting("kubernetes", {FALSE}),
           Setting("resyncPeriod", {0}),
           Setting("database", {FALSE}),
           Setting("dsn", {""}),
           Setting("databaseQueue", {-1, 1}),
           Setting("alerting", {FALSE}),
           Setting("webhookURL", {NoURL, [scheme |-> "file", host |-> "etc"], Web("")}),
           Setting("minSeverity", {"Critical", "urgent"}),
           Setting("alertTimeout", {0, 15 * Second}),
           Setting("alertQueue", {0}),
           Setting("apiAuth", {FALSE}),
           Setting("token", {""})}

Written == {a @@ b @@ AllOn : a \in Settings, b \in Settings} \cup {NoFile, AllOn}

Started ==
    {Unset, [Unset EXCEPT !.token = "t2"],
     [Unset EXCEPT !.dsn = "postgres://", !.webhookURL = Web("hooks"), !.level = "WARN",
                   !.format = "Text", !.address = ":80"]}
=============================================================================
