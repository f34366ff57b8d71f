---------------------------- MODULE ScrapeProofs ----------------------------
(***************************************************************************)
(* Theorems of Scrape that hold for every target and payload: how outages  *)
(* are reported, where the replica counts shown come from, and that what   *)
(* is shown and reported missing is what the payloads say.                 *)
(*                                                                         *)
(* What the loops over a payload compute is proved by induction on the     *)
(* lines read (LoopExists, TotalIsLoop); what is stored was read from what *)
(* was answered (ReadInv), so the rest is about one payload.               *)
(***************************************************************************)
EXTENDS Scrape, FiniteSetTheorems, WellFoundedInduction, TLAPS

-----------------------------------------------------------------------------
(* Outages in a sequence of outcomes *)

\* Where outages begin and where they are over.
Begins(o) == {i \in DOMAIN o : o[i] /\ (i = 1 \/ ~o[i - 1])}
Recovers(o) == {i \in DOMAIN o : i > 1 /\ ~o[i] /\ o[i - 1]}

\* It was failing when last looked at.
Failing(o) == o # <<>> /\ o[Len(o)]

LEMMA PartsFinite ==
    ASSUME NEW o \in Seq(BOOLEAN)
    PROVE  /\ IsFiniteSet(Begins(o)) /\ Cardinality(Begins(o)) \in Nat
           /\ IsFiniteSet(Recovers(o)) /\ Cardinality(Recovers(o)) \in Nat
           /\ Len(o) + 1 \notin Begins(o) /\ Len(o) + 1 \notin Recovers(o)
<1>1. DOMAIN o = 1 .. Len(o) /\ Len(o) \in Nat
  OBVIOUS
<1>2. IsFiniteSet(1 .. Len(o))
  BY <1>1, FS_Interval
<1>3. Begins(o) \subseteq 1 .. Len(o) /\ Recovers(o) \subseteq 1 .. Len(o)
  BY <1>1 DEF Begins, Recovers
<1>4. IsFiniteSet(Begins(o)) /\ IsFiniteSet(Recovers(o))
  BY <1>2, <1>3, FS_Subset
<1>5. Len(o) + 1 \notin 1 .. Len(o)
  BY <1>1
<1> QED
  BY <1>3, <1>4, <1>5, FS_CardinalityType

\* A failure begins an outage unless one is going on.
LEMMA FailureAppended ==
    ASSUME NEW o \in Seq(BOOLEAN)
    PROVE  /\ Append(o, TRUE) \in Seq(BOOLEAN) /\ Failing(Append(o, TRUE))
           /\ Cardinality(Begins(Append(o, TRUE)))
                = Cardinality(Begins(o)) + (IF Failing(o) THEN 0 ELSE 1)
           /\ Cardinality(Recovers(Append(o, TRUE))) = Cardinality(Recovers(o))
<1> DEFINE p == Append(o, TRUE)
           n == Len(o) + 1
<1>1. /\ p \in Seq(BOOLEAN) /\ Len(p) = n /\ p[n] = TRUE /\ DOMAIN p = 1 .. n
      /\ \A i \in 1 .. Len(o) : p[i] = o[i]
  OBVIOUS
<1>2. DOMAIN o = 1 .. Len(o) /\ Len(o) \in Nat /\ n \in Nat
  OBVIOUS
<1> HIDE DEF p
<1>3. Failing(p)
  <2>1. p # <<>>
    BY <1>1, <1>2
  <2>2. p[Len(p)]
    BY <1>1
  <2> QED
    BY <2>1, <2>2 DEF Failing
<1>4. Recovers(p) = Recovers(o)
  BY <1>1, <1>2 DEF Recovers
<1>5. ASSUME Failing(o)
      PROVE  Cardinality(Begins(p)) = Cardinality(Begins(o)) + (IF Failing(o) THEN 0 ELSE 1)
  <2>1. Len(o) > 0 /\ o[Len(o)] /\ p[n - 1]
    BY <1>1, <1>2, <1>5 DEF Failing
  <2>2. Begins(p) = Begins(o)
    BY <1>1, <1>2, <2>1 DEF Begins
  <2>3. (IF Failing(o) THEN 0 ELSE 1) = 0
    BY <1>5
  <2> QED
    BY <2>2, <2>3, PartsFinite
<1>6. ASSUME ~Failing(o)
      PROVE  Cardinality(Begins(p)) = Cardinality(Begins(o)) + (IF Failing(o) THEN 0 ELSE 1)
  <2>1. n = 1 \/ ~p[n - 1]
    BY <1>1, <1>2, <1>6 DEF Failing
  <2>2. Begins(p) = Begins(o) \cup {n}
    BY <1>1, <1>2, <2>1 DEF Begins
  <2>3. Cardinality(Begins(p)) = Cardinality(Begins(o)) + 1
    BY <2>2, PartsFinite, FS_AddElement
  <2>4. (IF Failing(o) THEN 0 ELSE 1) = 1
    BY <1>6
  <2> QED
    BY <2>3, <2>4
<1> QED
  BY <1>1, <1>3, <1>4, <1>5, <1>6 DEF p

\* A success ends the outage that is going on, if one is.
LEMMA SuccessAppended ==
    ASSUME NEW o \in Seq(BOOLEAN)
    PROVE  /\ Append(o, FALSE) \in Seq(BOOLEAN) /\ ~Failing(Append(o, FALSE))
           /\ Cardinality(Begins(Append(o, FALSE))) = Cardinality(Begins(o))
           /\ Cardinality(Recovers(Append(o, FALSE)))
                = Cardinality(Recovers(o)) + (IF Failing(o) THEN 1 ELSE 0)
<1> DEFINE p == Append(o, FALSE)
           n == Len(o) + 1
<1>1. /\ p \in Seq(BOOLEAN) /\ Len(p) = n /\ p[n] = FALSE /\ DOMAIN p = 1 .. n
      /\ \A i \in 1 .. Len(o) : p[i] = o[i]
  OBVIOUS
<1>2. DOMAIN o = 1 .. Len(o) /\ Len(o) \in Nat /\ n \in Nat
  OBVIOUS
<1>3. ~Failing(p)
  BY <1>1, <1>2 DEF Failing
<1> HIDE DEF p
<1>4. Begins(p) = Begins(o)
  BY <1>1, <1>2 DEF Begins
<1>5. ASSUME ~Failing(o)
      PROVE  Cardinality(Recovers(p)) = Cardinality(Recovers(o)) + (IF Failing(o) THEN 1 ELSE 0)
  <2>1. n = 1 \/ ~p[n - 1]
    BY <1>1, <1>2, <1>5 DEF Failing
  <2>2. Recovers(p) = Recovers(o)
    BY <1>1, <1>2, <2>1 DEF Recovers
  <2>3. (IF Failing(o) THEN 1 ELSE 0) = 0
    BY <1>5
  <2> QED
    BY <2>2, <2>3, PartsFinite
<1>6. ASSUME Failing(o)
      PROVE  Cardinality(Recovers(p)) = Cardinality(Recovers(o)) + (IF Failing(o) THEN 1 ELSE 0)
  <2>1. Len(o) > 0 /\ o[Len(o)] /\ p[n - 1]
    BY <1>1, <1>2, <1>6 DEF Failing
  <2>2. Recovers(p) = Recovers(o) \cup {n}
    BY <1>1, <1>2, <2>1 DEF Recovers
  <2>3. Cardinality(Recovers(p)) = Cardinality(Recovers(o)) + 1
    BY <2>2, PartsFinite, FS_AddElement
  <2>4. (IF Failing(o) THEN 1 ELSE 0) = 1
    BY <1>6
  <2> QED
    BY <2>3, <2>4
<1> QED
  BY <1>1, <1>3, <1>4, <1>5, <1>6 DEF p

-----------------------------------------------------------------------------
(* Outages are reported once *)

\* A condition is remembered as warned about exactly while it is failing, and what
\* was logged about it are the beginnings and the ends of its outages.
Told(k) ==
    /\ outcomes[k] \in Seq(BOOLEAN)
    /\ k \in warned <=> Failing(outcomes[k])
    /\ lines[k] = [warnings   |-> Cardinality(Begins(outcomes[k])),
                   recoveries |-> Cardinality(Recovers(outcomes[k]))]

OutageInv == \A k \in {"scrape", "dcgm"} : Told(k)

\* One look at a condition, whichever way it went, keeps what was told about it true.
LEMMA LookTold ==
    ASSUME NEW found, NEW over, Report(found, over), Looked(found, over),
           found \cap over = {}, NEW k \in {"scrape", "dcgm"}, Told(k)
    PROVE  Told(k)'
<1> DEFINE o == outcomes[k]
<1>1. o \in Seq(BOOLEAN) /\ (k \in warned <=> Failing(o))
      /\ lines[k].warnings = Cardinality(Begins(o))
      /\ lines[k].recoveries = Cardinality(Recovers(o))
  BY DEF Told
<1>2. /\ Cardinality(Begins(o)) \in Nat /\ Cardinality(Recovers(o)) \in Nat
  BY <1>1, PartsFinite
<1>3. /\ warned' = (warned \cup found) \ over
      /\ lines'[k] =
            [warnings   |-> lines[k].warnings + (IF k \in found \ warned THEN 1 ELSE 0),
             recoveries |-> lines[k].recoveries + (IF k \in over \cap warned THEN 1 ELSE 0)]
  BY DEF Report, Conditions
<1>4. outcomes'[k] = IF k \in found \cup over THEN Append(o, k \in found) ELSE o
  BY DEF Looked, Conditions
<1> HIDE DEF o
<1>5. CASE k \in found
  <2>1. outcomes'[k] = Append(o, TRUE)
    BY <1>4, <1>5
  <2>2. k \in warned'
    BY <1>3, <1>5
  <2>3. lines'[k] = [warnings   |-> Cardinality(Begins(o)) + (IF Failing(o) THEN 0 ELSE 1),
                     recoveries |-> Cardinality(Recovers(o))]
    <3>1. (IF k \in found \ warned THEN 1 ELSE 0) = (IF Failing(o) THEN 0 ELSE 1)
      BY <1>1, <1>5
    <3>2. (IF k \in over \cap warned THEN 1 ELSE 0) = 0
      BY <1>5
    <3>3. Cardinality(Recovers(o)) + 0 = Cardinality(Recovers(o))
      BY <1>2
    <3> QED
      BY <1>1, <1>3, <3>1, <3>2, <3>3
  <2> QED
    BY <1>1, <2>1, <2>2, <2>3, FailureAppended DEF Told
<1>6. CASE k \in over
  <2>1. outcomes'[k] = Append(o, FALSE)
    <3>1. (k \in found) = FALSE
      BY <1>6
    <3> QED
      BY <1>4, <1>6, <3>1
  <2>2. k \notin warned'
    BY <1>3, <1>6
  <2>3. lines'[k] = [warnings   |-> Cardinality(Begins(o)),
                     recoveries |-> Cardinality(Recovers(o)) + (IF Failing(o) THEN 1 ELSE 0)]
    <3>1. (IF k \in over \cap warned THEN 1 ELSE 0) = (IF Failing(o) THEN 1 ELSE 0)
      BY <1>1, <1>6
    <3>2. (IF k \in found \ warned THEN 1 ELSE 0) = 0
      BY <1>6
    <3>3. Cardinality(Begins(o)) + 0 = Cardinality(Begins(o))
      BY <1>2
    <3> QED
      BY <1>1, <1>3, <3>1, <3>2, <3>3
  <2> QED
    BY <1>1, <2>1, <2>2, <2>3, SuccessAppended DEF Told
<1>7. CASE k \notin found \cup over
  <2>1. outcomes'[k] = o /\ (k \in warned' <=> k \in warned)
    BY <1>3, <1>4, <1>7
  <2>2. lines'[k] = [warnings   |-> Cardinality(Begins(o)),
                     recoveries |-> Cardinality(Recovers(o))]
    <3>1. /\ (IF k \in over \cap warned THEN 1 ELSE 0) = 0
          /\ (IF k \in found \ warned THEN 1 ELSE 0) = 0
      BY <1>7
    <3>2. /\ Cardinality(Begins(o)) + 0 = Cardinality(Begins(o))
          /\ Cardinality(Recovers(o)) + 0 = Cardinality(Recovers(o))
      BY <1>2
    <3> QED
      BY <1>1, <1>3, <3>1, <3>2
  <2> QED
    BY <1>1, <2>1, <2>2 DEF Told
<1> QED
  BY <1>5, <1>6, <1>7

\* A warning when an outage begins, a message when it is over, and neither in between,
\* for every sequence of scrapes of every target (warnOnce, clearWarn in scrapeOne).
THEOREM OutagesToldOnce == Spec => []WarnedOncePerOutage
<1>1. Init => OutageInv
  <2> SUFFICES ASSUME Init, NEW k \in {"scrape", "dcgm"} PROVE Told(k)
    BY DEF OutageInv
  <2>1. outcomes[k] = <<>> /\ warned = {} /\ lines[k] = [warnings |-> 0, recoveries |-> 0]
    BY DEF Init, Conditions
  <2>2. Begins(<<>>) = {} /\ Recovers(<<>>) = {} /\ ~Failing(<<>>)
    BY DEF Begins, Recovers, Failing
  <2>3. Cardinality({}) = 0
    BY FS_EmptySet
  <2>4. outcomes[k] \in Seq(BOOLEAN)
    BY <2>1
  <2>5. lines[k] = [warnings   |-> Cardinality(Begins(outcomes[k])),
                   recoveries |-> Cardinality(Recovers(outcomes[k]))]
    BY <2>1, <2>2, <2>3
  <2>6. k \notin warned /\ ~Failing(outcomes[k])
    BY <2>1, <2>2
  <2> QED
    BY <2>4, <2>5, <2>6 DEF Told
<1>2. ASSUME OutageInv, [Next]_vars PROVE OutageInv'
  <2>1. CASE ScrapeFails
    <3>1. Report({"scrape"}, {}) /\ Looked({"scrape"}, {})
      BY <2>1 DEF ScrapeFails
    <3> QED
      BY <1>2, <3>1, LookTold DEF OutageInv
  <2>2. ASSUME NEW body, NEW gpuBody, NEW max, ScrapeSucceeds(body, gpuBody, max)
        PROVE  OutageInv'
    <3> DEFINE blind == here.dcgm /\ ~DevicesSeen(gpuBody)
               found == (IF body.skipped > 0 THEN {"parse"} ELSE {})
                        \cup (IF blind THEN {"dcgm"} ELSE {})
               over  == {"scrape"} \cup (IF here.dcgm /\ ~blind THEN {"dcgm"} ELSE {})
    <3>1. Report(found, over) /\ Looked(found, over)
      BY <2>2 DEF ScrapeSucceeds
    <3>2. found \cap over = {}
      OBVIOUS
    <3> HIDE DEF found, over
    <3> QED
      BY <1>2, <3>1, <3>2, LookTold DEF OutageInv
  <2>3. CASE UNCHANGED <<warned, lines, outcomes>>
    BY <1>2, <2>3 DEF OutageInv, Told
  <2> QED
    BY <1>2, <2>1, <2>2, <2>3 DEF Next, scrapeOne, vars, scrapeVars
<1>3. OutageInv => WarnedOncePerOutage
  BY DEF OutageInv, Told, WarnedOncePerOutage, Begins, Recovers
<1> QED
  BY <1>1, <1>2, <1>3, PTL DEF Spec

-----------------------------------------------------------------------------
(* Replica counts were real *)

Joined == {"Replicas", "ReadyReplicas", "MaxReplicas"}

LEMMA MeasuredLeavesContext ==
    ASSUME NEW given, DOMAIN given \cap Joined = {}
    PROVE  /\ DOMAIN Measured(given) = Fields
           /\ \A f \in Joined : Measured(given)[f] = Absent
<1>1. Joined \subseteq Fields
  BY DEF Joined, Fields
<1> QED
  BY <1>1 DEF Measured

\* No adapter measures what Kubernetes is asked for.
LEMMA AdaptersLeaveContext ==
    ASSUME NEW t, NEW body
    PROVE  /\ DOMAIN Parse(t, body).snap = Fields
           /\ \A f \in Joined : Parse(t, body).snap[f] = Absent
<1>1. ASSUME NEW payload, NEW model
      PROVE  \E given : DOMAIN given \cap Joined = {} /\ vllmParse(payload, model).snap = Measured(given)
  BY DEF vllmParse, Joined
<1>2. ASSUME NEW payload, NEW model
      PROVE  \E given : DOMAIN given \cap Joined = {} /\ tritonParse(payload, model).snap = Measured(given)
  BY DEF tritonParse, Joined
<1> QED
  BY <1>1, <1>2, MeasuredLeavesContext DEF Parse

\* Nor do device metrics touch it.
LEMMA DevicesLeaveContext ==
    ASSUME NEW s, DOMAIN s = Fields, NEW body
    PROVE  /\ DOMAIN applyGPU(s, body) = Fields
           /\ \A f \in Joined : applyGPU(s, body)[f] = s[f]
BY DEF applyGPU, Joined, Fields

\* The caches hold versions there were.
WatcherInv ==
    /\ deployments \in Seq(DeploymentVersions \cup {Gone})
    /\ autoscalers \in Seq(AutoscalerVersions \cup {{}})
    /\ dcache \in DOMAIN deployments /\ hcache \in DOMAIN autoscalers

ContextInv == WatcherInv /\ ContextWasReal

\* A Deployment that asks for a number of replicas asks for a number.
LEMMA DesiredGiven ==
    ASSUME WatcherInv, Discovered
    PROVE  Given(Point(desired(deployments[dcache])))
<1> DEFINE d == deployments[dcache]
<1>1. d \in DeploymentVersions \ {Gone}
  BY DEF WatcherInv, Discovered
<1>2. d.spec \in Nat \cup {Unset} /\ d.status \in Nat
  BY <1>1, VersionsAssumption
<1> HIDE DEF d
<1>3. desired(d) \in Nat
  BY <1>2 DEF desired, Unset
<1>4. desired(d) # -1
  BY <1>3
<1> QED
  BY <1>4 DEF Given, Point, Fraction, Absent, d

\* What applyWorkloadContext joins on is what the caches hold.
LEMMA ContextJoined ==
    ASSUME WatcherInv, NEW s, DOMAIN s = Fields, \A f \in Joined : s[f] = Absent,
           NEW max \in maxReplicasFor, snap' = applyWorkloadContext(s, max),
           UNCHANGED watcherVars
    PROVE  ContextWasReal'
<1>1. UNCHANGED <<deployments, autoscalers, dcache, hcache>>
  BY DEF watcherVars
<1>2. ~Given(Absent)
  BY DEF Given
<1>3. {"Replicas", "ReadyReplicas", "MaxReplicas"} \subseteq Fields
  BY DEF Fields
<1>4. CASE ~here.watched \/ ~Discovered
  <2>1. snap' = s
    BY <1>4 DEF applyWorkloadContext
  <2>2. snap'["Replicas"] = Absent /\ snap'["MaxReplicas"] = Absent
    BY <2>1 DEF Joined
  <2> QED
    BY <1>2, <2>2, Zenon DEF ContextWasReal
<1>5. CASE here.watched /\ Discovered
  <2>1. /\ snap'["Replicas"] = Point(desired(deployments[dcache]))
        /\ snap'["ReadyReplicas"] = Point(deployments[dcache].ready)
        /\ snap'["MaxReplicas"] = IF max > 0 THEN Point(max) ELSE Absent
    BY <1>3, <1>5 DEF applyWorkloadContext
  <2>2. dcache \in DOMAIN deployments /\ deployments[dcache] # Gone
    BY <1>5 DEF WatcherInv, Discovered
  <2>3. Given(snap'["Replicas"])
    BY <1>5, <2>1, DesiredGiven
  <2>4. ASSUME Given(snap'["MaxReplicas"])
        PROVE  \E i \in DOMAIN autoscalers : \E h \in autoscalers[i] :
                  h.kind = "Deployment" /\ h.name = Name /\ snap'["MaxReplicas"] = Point(h.max)
    <3>1. max > 0 /\ snap'["MaxReplicas"] = Point(max)
      BY <1>2, <2>1, <2>4
    <3>2. max # 0
      BY <3>1
    <3>3. PICK h \in autoscalers[hcache] : targets(h) /\ max = h.max
      BY <3>2 DEF maxReplicasFor
    <3>4. hcache \in DOMAIN autoscalers
      BY DEF WatcherInv
    <3> QED
      BY <3>1, <3>3, <3>4 DEF targets
  <2> QED
    BY <1>1, <2>1, <2>2, <2>3, <2>4 DEF ContextWasReal
<1> QED
  BY <1>4, <1>5

\* The cluster moving on does not take back what was.
LEMMA WatcherMoves ==
    ASSUME ContextInv, WatcherNext, snap' = snap
    PROVE  ContextInv'
<1>1. /\ deployments \in Seq(DeploymentVersions \cup {Gone})
      /\ autoscalers \in Seq(AutoscalerVersions \cup {{}})
      /\ dcache \in DOMAIN deployments /\ hcache \in DOMAIN autoscalers
  BY DEF ContextInv, WatcherInv
<1>2. /\ WatcherInv'
      /\ \A i \in DOMAIN deployments : i \in DOMAIN deployments' /\ deployments'[i] = deployments[i]
      /\ \A i \in DOMAIN autoscalers : i \in DOMAIN autoscalers' /\ autoscalers'[i] = autoscalers[i]
  <2>1. ASSUME NEW version \in DeploymentVersions, DeploymentChanges(version)
        PROVE  <1>2!1 /\ <1>2!2 /\ <1>2!3
    BY <1>1, <2>1 DEF DeploymentChanges, WatcherInv
  <2>2. ASSUME NEW version \in AutoscalerVersions, AutoscalersChange(version)
        PROVE  <1>2!1 /\ <1>2!2 /\ <1>2!3
    BY <1>1, <2>2 DEF AutoscalersChange, WatcherInv
  <2>3. ASSUME NEW n \in DOMAIN deployments, DeploymentEvent(n)
        PROVE  <1>2!1 /\ <1>2!2 /\ <1>2!3
    BY <1>1, <2>3 DEF DeploymentEvent, WatcherInv
  <2>4. ASSUME NEW n \in DOMAIN autoscalers, AutoscalerEvent(n)
        PROVE  <1>2!1 /\ <1>2!2 /\ <1>2!3
    BY <1>1, <2>4 DEF AutoscalerEvent, WatcherInv
  <2> QED
    BY <2>1, <2>2, <2>3, <2>4 DEF WatcherNext
<1>3. ContextWasReal'
  BY <1>2 DEF ContextInv, ContextWasReal
<1> QED
  BY <1>2, <1>3 DEF ContextInv

\* Whatever Kubernetes does and however its two caches lag, replica counts shown were
\* once the Deployment's own, and a ceiling that of an autoscaler of it (Replicas,
\* maxReplicasFor, applyWorkloadContext).
THEOREM ContextReal == Spec => []ContextWasReal
<1>1. Init => ContextInv
  <2> SUFFICES ASSUME Init PROVE ContextInv
    OBVIOUS
  <2>1. snap["Replicas"] = Absent /\ snap["MaxReplicas"] = Absent
    BY DEF Init, Unmeasured, Fields
  <2>2. ContextWasReal
    BY <2>1 DEF ContextWasReal, Given
  <2>3. CASE here.watched
    <3>1. PICK d \in DeploymentVersions, a \in AutoscalerVersions :
             deployments = <<d>> /\ autoscalers = <<a>> /\ dcache = 1 /\ hcache = 1
      BY <2>3 DEF Init, WatcherInit
    <3> QED
      BY <2>2, <3>1 DEF ContextInv, WatcherInv
  <2>4. CASE ~here.watched
    <3>1. deployments = <<Gone>> /\ autoscalers = <<{}>> /\ dcache = 1 /\ hcache = 1
      BY <2>4 DEF Init
    <3> QED
      BY <2>2, <3>1 DEF ContextInv, WatcherInv
  <2> QED
    BY <2>3, <2>4
<1>2. ASSUME ContextInv, [Next]_vars PROVE ContextInv'
  <2>1. CASE UNCHANGED <<snap, watcherVars>>
    BY <1>2, <2>1 DEF ContextInv, WatcherInv, ContextWasReal, watcherVars
  <2>2. ASSUME NEW body, NEW gpuBody, NEW max \in maxReplicasFor,
               ScrapeSucceeds(body, gpuBody, max)
        PROVE  ContextInv'
    <3> DEFINE s == applyGPU(Parse(here, body).snap, gpuBody)
    <3>1. snap' = applyWorkloadContext(s, max) /\ UNCHANGED watcherVars
      BY <2>2 DEF ScrapeSucceeds
    <3>2. DOMAIN s = Fields /\ \A f \in Joined : s[f] = Absent
      BY AdaptersLeaveContext, DevicesLeaveContext
    <3> HIDE DEF s
    <3>3. ContextWasReal'
      BY <1>2, <3>1, <3>2, ContextJoined DEF ContextInv
    <3>4. WatcherInv'
      BY <1>2, <3>1 DEF ContextInv, WatcherInv, watcherVars
    <3> QED
      BY <3>3, <3>4 DEF ContextInv
  <2>3. CASE WatcherNext /\ UNCHANGED scrapeVars
    <3>1. snap' = snap
      BY <2>3 DEF scrapeVars
    <3> QED
      BY <1>2, <2>3, <3>1, WatcherMoves
  <2>4. CASE ScrapeFails
    BY <2>1, <2>4 DEF ScrapeFails
  <2>5. CASE UNCHANGED vars
    BY <2>1, <2>5 DEF vars, scrapeVars
  <2> QED
    BY <1>2, <2>2, <2>3, <2>4, <2>5 DEF Next, scrapeOne
<1>3. ContextInv => ContextWasReal
  BY DEF ContextInv
<1> QED
  BY <1>1, <1>2, <1>3, PTL DEF Spec

-----------------------------------------------------------------------------
(* Induction.  The library's theorem takes an operator; with a set for the *)
(* numbers that have the property it follows from their well-foundedness.  *)

LEMMA SmallestNumber ==
    ASSUME NEW S \in SUBSET Nat, S # {}
    PROVE  \E n \in S : \A m \in S : n <= m
<1>1. PICK n \in S : \A m \in S : ~(<<m, n>> \in OpToRel(<, Nat))
  BY NatLessThanWellFounded, WFMin
<1>2. \A m \in S : ~(m < n)
  BY <1>1 DEF OpToRel
<1> QED
  BY <1>2

LEMMA InductionOverNat ==
    ASSUME NEW S \in SUBSET Nat, 0 \in S, \A n \in S : n + 1 \in S
    PROVE  S = Nat
<1> SUFFICES ASSUME Nat \ S # {} PROVE FALSE
  OBVIOUS
<1>1. PICK n \in Nat \ S : \A m \in Nat \ S : n <= m
  <2>1. Nat \ S \subseteq Nat
    OBVIOUS
  <2> QED
    BY <2>1, SmallestNumber
<1>2. n # 0 /\ n - 1 \in Nat /\ n - 1 < n
  OBVIOUS
<1>3. n - 1 \in S
  BY <1>1, <1>2
<1> QED
  BY <1>3

\* A finite set of numbers has a largest one.
LEMMA LargestExists ==
    ASSUME NEW S \in SUBSET Int, IsFiniteSet(S), S # {}
    PROVE  \E x \in S : \A y \in S : x >= y
<1> DEFINE P(n) == \A R \in SUBSET Int :
                      IsFiniteSet(R) /\ R # {} /\ Cardinality(R) = n => \E x \in R : \A y \in R : x >= y
           Q == {n \in Nat : P(n)}
<1>1. 0 \in Q
  BY FS_EmptySet
<1>2. ASSUME NEW n \in Q PROVE n + 1 \in Q
  <2> SUFFICES ASSUME NEW R \in SUBSET Int, IsFiniteSet(R), R # {}, Cardinality(R) = n + 1
               PROVE  \E x \in R : \A y \in R : x >= y
    OBVIOUS
  <2>1. PICK z \in R : TRUE
    OBVIOUS
  <2> DEFINE rest == R \ {z}
  <2>2. IsFiniteSet(rest) /\ Cardinality(rest) = n /\ rest \in SUBSET Int
    <3>1. IsFiniteSet(rest) /\ Cardinality(rest) = (n + 1) - 1
      BY <2>1, FS_RemoveElement
    <3> QED
      BY <3>1
  <2>3. CASE rest = {}
    <3>1. \A y \in R : y = z
      BY <2>3
    <3>2. \A y \in R : z >= y
      BY <2>1, <3>1
    <3> QED
      BY <2>1, <3>2
  <2>4. CASE rest # {}
    <3> HIDE DEF rest
    <3>1. PICK x \in rest : \A y \in rest : x >= y
      BY <2>2, <2>4
    <3>2. x \in R /\ x \in Int /\ z \in Int /\ \A y \in R : y \in Int /\ (y = z \/ y \in rest)
      BY <2>1, <3>1 DEF rest
    <3>3. CASE x >= z
      <4>1. \A y \in R : x >= y
        BY <3>1, <3>2, <3>3
      <4> QED
        BY <3>2, <4>1
    <3>4. CASE z >= x
      <4>1. ASSUME NEW y \in R PROVE z >= y
        <5>1. y = z \/ x >= y
          BY <3>1, <3>2
        <5> QED
          BY <3>2, <3>4, <5>1
      <4> QED
        BY <2>1, <4>1
    <3> QED
      BY <3>2, <3>3, <3>4
  <2> QED
    BY <2>3, <2>4
<1>3. Q = Nat
  <2> HIDE DEF P
  <2>1. Q \in SUBSET Nat
    OBVIOUS
  <2> HIDE DEF Q
  <2> QED
    BY <1>1, <1>2, <2>1, InductionOverNat
<1>4. Cardinality(S) \in Nat
  BY FS_CardinalityType
<1>5. P(Cardinality(S))
  <2> HIDE DEF P
  <2> QED
    BY <1>3, <1>4
<1> QED
  BY <1>5

LEMMA MaxIsLargest ==
    ASSUME NEW S \in SUBSET Int, IsFiniteSet(S), S # {}
    PROVE  Max(S) \in S /\ Max(S) \in Int /\ \A y \in S : y <= Max(S)
<1>1. \E x \in S : \A y \in S : x >= y
  BY LargestExists
<1>2. Max(S) \in S /\ \A y \in S : Max(S) >= y
  BY <1>1 DEF Max
<1> QED
  BY <1>2

LEMMA MinIsSmallest ==
    ASSUME NEW S \in SUBSET Nat, S # {}
    PROVE  Min(S) \in S /\ Min(S) \in Nat /\ \A y \in S : Min(S) <= y
<1>1. \E x \in S : \A y \in S : x <= y
  BY SmallestNumber
<1>2. Min(S) \in S /\ \A y \in S : Min(S) <= y
  BY <1>1 DEF Min
<1> QED
  BY <1>2

\* What a function gives of finitely many arguments is finite.
LEMMA ImageFinite ==
    ASSUME NEW f, NEW S, IsFiniteSet(S), DOMAIN f = S
    PROVE  IsFiniteSet({f[x] : x \in S})
<1> DEFINE I == {f[x] : x \in S}
           g == [x \in S |-> f[x]]
<1>1. g \in [S -> I] /\ \A y \in I : \E x \in S : g[x] = y
  OBVIOUS
<1>2. g \in Surjection(S, I)
  BY <1>1 DEF Surjection
<1> QED
  BY <1>2, FS_Surjection


-----------------------------------------------------------------------------
(* Series *)

\* What the loop of Sum has after n lines, given what it had after fewer.
Add(payload, chosen, f, n) ==
    IF n = 0 THEN 0 ELSE f[n - 1] + (IF n \in chosen THEN payload[n].value ELSE 0)

\* The recursion is well founded: there is a function that does what it says.
LEMMA LoopExists ==
    ASSUME NEW payload, NEW chosen, NEW last \in Nat
    PROVE  \E f : f = [n \in 0 .. last |-> Add(payload, chosen, f, n)]
<1> DEFINE E(m) == \E f : f = [n \in 0 .. m |-> Add(payload, chosen, f, n)]
           S == {m \in Nat : E(m)}
<1>1. 0 \in S
  <2> DEFINE g == [n \in 0 .. 0 |-> 0]
  <2>1. g = [n \in 0 .. 0 |-> Add(payload, chosen, g, n)]
    BY DEF Add
  <2> QED
    BY <2>1
<1>2. ASSUME NEW m \in S PROVE m + 1 \in S
  <2>1. PICK f : f = [n \in 0 .. m |-> Add(payload, chosen, f, n)]
    OBVIOUS
  <2> DEFINE g == [n \in 0 .. m + 1 |-> Add(payload, chosen, f, n)]
  <2>2. \A n \in 0 .. m : g[n] = f[n]
    BY <2>1
  <2>3. ASSUME NEW n \in 0 .. m + 1 PROVE Add(payload, chosen, f, n) = Add(payload, chosen, g, n)
    <3>1. n = 0 \/ n - 1 \in 0 .. m
      OBVIOUS
    <3> HIDE DEF g
    <3> QED
      BY <2>2, <3>1 DEF Add
  <2>4. g = [n \in 0 .. m + 1 |-> Add(payload, chosen, g, n)]
    BY <2>3
  <2>5. E(m + 1)
    <3> HIDE DEF g
    <3> QED
      BY <2>4
  <2> QED
    BY <2>5
<1>3. S = Nat
  <2> HIDE DEF E
  <2>1. S \in SUBSET Nat
    OBVIOUS
  <2> HIDE DEF S
  <2> QED
    BY <1>1, <1>2, <2>1, InductionOverNat
<1>4. E(last)
  <2> HIDE DEF E
  <2> QED
    BY <1>3
<1> QED
  BY <1>4

\* The loop, as a function of the lines read.
LEMMA TotalIsLoop ==
    ASSUME NEW payload, Len(payload) \in Nat, NEW chosen
    PROVE  \E f : /\ f[0] = 0 /\ Total(payload, chosen) = f[Len(payload)]
                  /\ \A n \in 1 .. Len(payload) :
                        f[n] = f[n - 1] + (IF n \in chosen THEN payload[n].value ELSE 0)
<1> DEFINE f == CHOOSE f : f = [n \in 0 .. Len(payload) |->
                   IF n = 0 THEN 0
                   ELSE f[n - 1] + (IF n \in chosen THEN payload[n].value ELSE 0)]
<1>1. \E g : g = [n \in 0 .. Len(payload) |->
                   IF n = 0 THEN 0
                   ELSE g[n - 1] + (IF n \in chosen THEN payload[n].value ELSE 0)]
  <2>1. PICK g : g = [n \in 0 .. Len(payload) |-> Add(payload, chosen, g, n)]
    BY LoopExists
  <2>2. g = [n \in 0 .. Len(payload) |->
               IF n = 0 THEN 0
               ELSE g[n - 1] + (IF n \in chosen THEN payload[n].value ELSE 0)]
    BY <2>1 DEF Add
  <2> QED
    BY <2>2
<1>2. f = [n \in 0 .. Len(payload) |->
             IF n = 0 THEN 0
             ELSE f[n - 1] + (IF n \in chosen THEN payload[n].value ELSE 0)]
  BY <1>1
<1>3. Total(payload, chosen) = f[Len(payload)]
  BY DEF Total
<1> HIDE DEF f
<1>4. f[0] = 0
  BY <1>2
<1>5. ASSUME NEW n \in 1 .. Len(payload)
      PROVE  f[n] = f[n - 1] + (IF n \in chosen THEN payload[n].value ELSE 0)
  <2>1. n \in 0 .. Len(payload) /\ n # 0
    OBVIOUS
  <2> QED
    BY <1>2, <2>1
<1> QED
  BY <1>3, <1>4, <1>5

\* Where each line adds no more to one sum than to another, so does the whole.
LEMMA TotalCompared ==
    ASSUME NEW p, NEW q, Len(p) \in Nat, Len(q) = Len(p), NEW few, NEW many,
           \A i \in 1 .. Len(p) :
              LET a == IF i \in few THEN p[i].value ELSE 0
                  b == IF i \in many THEN q[i].value ELSE 0
              IN  a \in Nat /\ b \in Nat /\ a <= b
    PROVE  /\ Total(p, few) \in Nat /\ Total(q, many) \in Nat
           /\ Total(p, few) <= Total(q, many)
<1> DEFINE a(i) == IF i \in few THEN p[i].value ELSE 0
           b(i) == IF i \in many THEN q[i].value ELSE 0
<1>0. \A i \in 1 .. Len(p) : a(i) \in Nat /\ b(i) \in Nat /\ a(i) <= b(i)
  OBVIOUS
<1>1. PICK f : /\ f[0] = 0 /\ Total(p, few) = f[Len(p)]
               /\ \A n \in 1 .. Len(p) : f[n] = f[n - 1] + a(n)
  BY TotalIsLoop
<1>2. PICK g : /\ g[0] = 0 /\ Total(q, many) = g[Len(p)]
               /\ \A n \in 1 .. Len(p) : g[n] = g[n - 1] + b(n)
  BY TotalIsLoop
<1> HIDE DEF a, b
<1> DEFINE P(n) == n <= Len(p) => f[n] \in Nat /\ g[n] \in Nat /\ f[n] <= g[n]
           S == {n \in Nat : P(n)}
<1>3. 0 \in S
  BY <1>1, <1>2
<1>4. ASSUME NEW n \in S PROVE n + 1 \in S
  <2> SUFFICES ASSUME n + 1 <= Len(p)
               PROVE  f[n + 1] \in Nat /\ g[n + 1] \in Nat /\ f[n + 1] <= g[n + 1]
    OBVIOUS
  <2> DEFINE m == n + 1
  <2>1. m \in 1 .. Len(p) /\ m - 1 = n /\ f[n] \in Nat /\ g[n] \in Nat /\ f[n] <= g[n]
    OBVIOUS
  <2>2. f[m] = f[n] + a(m) /\ g[m] = g[n] + b(m)
    BY <1>1, <1>2, <2>1
  <2> HIDE DEF m
  <2>3. f[m] \in Nat /\ g[m] \in Nat /\ f[m] <= g[m]
    BY <1>0, <2>1, <2>2
  <2> QED
    BY <2>3 DEF m
<1>5. S = Nat
  <2> HIDE DEF P
  <2>1. S \in SUBSET Nat
    OBVIOUS
  <2> HIDE DEF S
  <2> QED
    BY <1>3, <1>4, <2>1, InductionOverNat
<1>6. P(Len(p))
  <2> HIDE DEF P
  <2> QED
    BY <1>5
<1> QED
  BY <1>1, <1>2, <1>6

\* The sum of natural numbers is one, and that of more of them is no less.
LEMMA TotalMonotone ==
    ASSUME NEW payload, Payload(payload), NEW few, NEW many, few \subseteq many,
           \A i \in many : i \in DOMAIN payload /\ payload[i].value # NaN
    PROVE  /\ Total(payload, few) \in Nat /\ Total(payload, many) \in Nat
           /\ Total(payload, few) <= Total(payload, many)
<1>1. Len(payload) \in Nat /\ \A i \in DOMAIN payload : payload[i].value \in Nat \cup {NaN}
  BY DEF Payload
<1>2. \A i \in 1 .. Len(payload) :
         LET a == IF i \in few THEN payload[i].value ELSE 0
             b == IF i \in many THEN payload[i].value ELSE 0
         IN  a \in Nat /\ b \in Nat /\ a <= b
  BY <1>1
<1> QED
  BY <1>1, <1>2, TotalCompared


\* The places of the numbers to be read, and what is there.
LEMMA NumbersAre ==
    ASSUME NEW payload, Payload(payload), NEW name, NEW want
    PROVE  /\ Numbers(payload, name, want) \subseteq 1 .. Len(payload)
           /\ IsFiniteSet(Numbers(payload, name, want))
           /\ \A i \in Numbers(payload, name, want) :
                 /\ i \in DOMAIN payload /\ payload[i].value # NaN /\ payload[i].value \in Nat
                 /\ payload[i].name = name /\ Matches(payload[i].labels, want)
<1>1. /\ Len(payload) \in Nat /\ DOMAIN payload = 1 .. Len(payload)
      /\ \A i \in DOMAIN payload : payload[i].value \in Nat \cup {NaN}
  BY DEF Payload
<1>2. \A i \in Numbers(payload, name, want) :
         /\ i \in DOMAIN payload /\ payload[i].value # NaN
         /\ payload[i].name = name /\ Matches(payload[i].labels, want)
  BY DEF Numbers, Select
<1>3. Numbers(payload, name, want) \subseteq 1 .. Len(payload)
  BY <1>1, <1>2
<1>4. IsFiniteSet(1 .. Len(payload))
  BY <1>1, FS_Interval
<1>5. IsFiniteSet(Numbers(payload, name, want))
  BY <1>3, <1>4, FS_Subset
<1> QED
  BY <1>1, <1>2, <1>3, <1>5

LEMMA NaturalIsGiven ==
    ASSUME NEW n \in Nat, NEW d
    PROVE  /\ Fraction(n, d) # Absent /\ Fraction(n, d).num = n /\ Fraction(n, d).den = d
           /\ Point(n) # Absent /\ Point(n).num = n /\ Point(n).den = 1
BY DEF Fraction, Point, Absent

\* A sum is given exactly if there are numbers, and then it is natural.
LEMMA SumIs ==
    ASSUME NEW payload, Payload(payload), NEW name, NEW want
    PROVE  LET s == Numbers(payload, name, want)
           IN  /\ s = {} => Sum(payload, name, want) = Absent
               /\ s # {} => /\ Total(payload, s) \in Nat /\ Given(Sum(payload, name, want))
                            /\ Sum(payload, name, want) = Point(Total(payload, s))
<1> DEFINE s == Numbers(payload, name, want)
<1>1. \A i \in s : i \in DOMAIN payload /\ payload[i].value # NaN
  BY NumbersAre
<1>2. Sum(payload, name, want) = IF s = {} THEN Absent ELSE Point(Total(payload, s))
  BY DEF Sum
<1> HIDE DEF s
<1>3. Total(payload, s) \in Nat
  BY <1>1, TotalMonotone
<1> QED
  BY <1>2, <1>3, NaturalIsGiven DEF Given, s

\* The largest is the value of some line, and none has a larger one.
LEMMA LargestIs ==
    ASSUME NEW payload, Payload(payload), NEW name, NEW want
    PROVE  LET s == Numbers(payload, name, want)
           IN  /\ s = {} => Largest(payload, name, want) = Absent
               /\ s # {} => \E i \in s :
                     /\ Largest(payload, name, want) = Point(payload[i].value)
                     /\ Given(Largest(payload, name, want))
                     /\ payload[i].value \in Nat
                     /\ \A j \in s : payload[j].value \in Nat /\ payload[j].value <= payload[i].value
<1> DEFINE s == Numbers(payload, name, want)
           values == {payload[i].value : i \in s}
<1>1. IsFiniteSet(s) /\ \A i \in s : payload[i].value \in Nat
  BY NumbersAre
<1>2. Largest(payload, name, want) = IF s = {} THEN Absent ELSE Point(Max(values))
  BY DEF Largest
<1> HIDE DEF s
<1>3. ASSUME s # {}
      PROVE  \E i \in s : /\ Largest(payload, name, want) = Point(payload[i].value)
                          /\ Given(Largest(payload, name, want))
                          /\ payload[i].value \in Nat
                          /\ \A j \in s : /\ payload[j].value \in Nat
                                          /\ payload[j].value <= payload[i].value
  <2>1. IsFiniteSet(values) /\ values \in SUBSET Int /\ values # {}
    <3> DEFINE value == [i \in s |-> payload[i].value]
    <3>0. DOMAIN value = s /\ values = {value[i] : i \in s}
      OBVIOUS
    <3> HIDE DEF value, values
    <3>1. IsFiniteSet(values)
      BY <1>1, <3>0, ImageFinite
    <3> USE DEF values
    <3> QED
      BY <1>1, <1>3, <3>1
  <2>2. Max(values) \in values /\ \A y \in values : y <= Max(values)
    <3> HIDE DEF values
    <3> QED
      BY <2>1, MaxIsLargest
  <2>3. PICK i \in s : Max(values) = payload[i].value
    BY <2>2
  <2>4. \A j \in s : payload[j].value \in Nat /\ payload[j].value <= payload[i].value
    BY <1>1, <2>2, <2>3
  <2>5. Largest(payload, name, want) = Point(payload[i].value) /\ payload[i].value \in Nat
    BY <1>1, <1>2, <1>3, <2>3
  <2>6. Given(Largest(payload, name, want))
    BY <2>5, NaturalIsGiven DEF Given
  <2> QED
    BY <2>4, <2>5, <2>6
<1>4. s = {} => Largest(payload, name, want) = Absent
  BY <1>2
<1> QED
  BY <1>3, <1>4 DEF s

-----------------------------------------------------------------------------
(* Histograms *)

\* Cumulative counts by boundary.
Distribution(c) ==
    /\ DOMAIN c \subseteq 0 .. Inf
    /\ \A le \in DOMAIN c : c[le] \in Nat
    /\ \A a, b \in DOMAIN c : a <= b => c[a] <= c[b]

LEMMA InfIsNumber == Inf \in Nat
BY SMT DEF Inf

LEMMA UpToInfFinite ==
    ASSUME NEW S \in SUBSET (0 .. Inf)
    PROVE  IsFiniteSet(S) /\ S \in SUBSET Nat /\ S \in SUBSET Int
<1>1. Inf \in Int
  BY InfIsNumber
<1>2. IsFiniteSet(0 .. Inf)
  BY <1>1, FS_Interval
<1>3. IsFiniteSet(S)
  BY <1>2, FS_Subset
<1> QED
  BY <1>1, <1>3

\* What buckets returns is one, whatever was read.
LEMMA BucketsDistribution ==
    ASSUME NEW payload, Payload(payload), NEW name, NEW want
    PROVE  Distribution(buckets(payload, name, want))
<1> DEFINE s     == {i \in Numbers(payload, name, want) : "le" \in DOMAIN payload[i].labels}
           edges == {payload[i].labels["le"] : i \in s}
           at(le) == {i \in s : payload[i].labels["le"] = le}
           byLE  == [le \in edges |-> Total(payload, at(le))]
           upTo(le) == {b \in edges : b <= le}
           c     == [le \in edges |-> Max({byLE[b] : b \in upTo(le)})]
<1>1. buckets(payload, name, want) = c
  BY DEF buckets
<1>2. \A i \in s : /\ i \in DOMAIN payload /\ payload[i].value # NaN
                   /\ "le" \in DOMAIN payload[i].labels
  BY NumbersAre
<1>3. edges \subseteq 0 .. Inf
  <2>1. \A i \in s : payload[i].labels["le"] \in 0 .. Inf
    <3> HIDE DEF s
    <3> QED
      BY <1>2 DEF Payload
  <2> QED
    BY <2>1
<1>4. \A le \in edges : byLE[le] \in Nat
  <2> TAKE le \in edges
  <2> HIDE DEF s
  <2>1. \A i \in at(le) : i \in DOMAIN payload /\ payload[i].value # NaN
    BY <1>2
  <2> HIDE DEF at
  <2>2. Total(payload, at(le)) \in Nat
    BY <2>1, TotalMonotone
  <2> HIDE DEF edges
  <2> QED
    BY <2>2
<1> HIDE DEF s, edges, byLE
<1>5. \A le \in edges : /\ le \in Nat /\ IsFiniteSet(upTo(le)) /\ le \in upTo(le)
                        /\ upTo(le) \subseteq edges
  <2>1. edges \in SUBSET Nat
    BY <1>3, UpToInfFinite
  <2>2. \A le \in edges : upTo(le) \in SUBSET (0 .. Inf)
    BY <1>3
  <2>3. \A le \in edges : IsFiniteSet(upTo(le))
    <3> HIDE DEF upTo
    <3> QED
      BY <2>2, UpToInfFinite
  <2> QED
    BY <2>1, <2>3
<1> DEFINE below(le) == {byLE[b] : b \in upTo(le)}
<1>6. \A le \in edges : /\ below(le) \in SUBSET Int /\ IsFiniteSet(below(le)) /\ below(le) # {}
                        /\ below(le) \subseteq Nat
  <2> TAKE le \in edges
  <2>1. IsFiniteSet(upTo(le)) /\ le \in upTo(le) /\ upTo(le) \subseteq edges
    BY <1>5
  <2> HIDE DEF upTo
  <2>2. IsFiniteSet(below(le))
    <3> DEFINE count == [b \in upTo(le) |-> byLE[b]]
    <3>1. DOMAIN count = upTo(le) /\ below(le) = {count[b] : b \in upTo(le)}
      OBVIOUS
    <3> HIDE DEF count, below
    <3> QED
      BY <2>1, <3>1, ImageFinite
  <2>3. below(le) \subseteq Nat /\ below(le) # {}
    BY <1>4, <2>1
  <2> QED
    BY <2>2, <2>3
<1>7. \A le \in edges : Max(below(le)) \in below(le) /\ \A y \in below(le) : y <= Max(below(le))
  <2> TAKE le \in edges
  <2>1. /\ below(le) \in SUBSET Int /\ IsFiniteSet(below(le)) /\ below(le) # {}
    BY <1>6
  <2> HIDE DEF below
  <2> QED
    BY <2>1, MaxIsLargest
<1>8. DOMAIN c = edges /\ \A le \in edges : c[le] = Max(below(le))
  OBVIOUS
<1>9. \A a, b \in edges : a <= b => below(a) \subseteq below(b)
  <2> SUFFICES ASSUME NEW a \in edges, NEW b \in edges, a <= b PROVE upTo(a) \subseteq upTo(b)
    OBVIOUS
  <2>1. edges \in SUBSET Nat
    BY <1>3, UpToInfFinite
  <2>2. \A d \in edges : d <= a => d <= b
    BY <2>1
  <2> QED
    BY <2>2
<1> HIDE DEF below, c, upTo
<1>10. \A le \in edges : c[le] \in Nat
  BY <1>6, <1>7, <1>8
<1>11. \A a, b \in edges : a <= b => c[a] <= c[b]
  BY <1>7, <1>8, <1>9
<1> QED
  BY <1>1, <1>3, <1>8, <1>10, <1>11 DEF Distribution


LEMMA TimesMonotone ==
    \A a, b, c \in Nat : a <= b => a * c <= b * c /\ c * a <= c * b
OBVIOUS

\* The last boundary's count is the total.
LEMMA LastBoundary ==
    ASSUME NEW c, Distribution(c), DOMAIN c # {}
    PROVE  /\ DOMAIN c \in SUBSET Nat /\ Max(DOMAIN c) \in DOMAIN c /\ Max(DOMAIN c) \in Nat
           /\ \A le \in DOMAIN c : le <= Max(DOMAIN c) /\ c[le] <= c[Max(DOMAIN c)]
           /\ c[Max(DOMAIN c)] \in Nat
<1>1. IsFiniteSet(DOMAIN c) /\ DOMAIN c \in SUBSET Nat /\ DOMAIN c \in SUBSET Int
  BY UpToInfFinite DEF Distribution
<1> DEFINE last == Max(DOMAIN c)
<1>2. last \in DOMAIN c /\ \A le \in DOMAIN c : le <= last
  BY <1>1, MaxIsLargest
<1> HIDE DEF last
<1>3. \A le \in DOMAIN c : c[le] <= c[last]
  BY <1>2 DEF Distribution
<1>4. c[last] \in Nat /\ last \in Nat
  BY <1>1, <1>2 DEF Distribution
<1> QED
  BY <1>1, <1>2, <1>3, <1>4 DEF last

\* The bucket found is the first whose count reaches the rank.
LEMMA IndexIs ==
    ASSUME NEW c, Distribution(c), DOMAIN c # {}, NEW p \in 1 .. 100
    PROVE  LET total == c[Max(DOMAIN c)]
           IN  /\ index(c, p) \in DOMAIN c /\ index(c, p) \in Nat
               /\ 100 * c[index(c, p)] >= p * total
               /\ \A le \in DOMAIN c : 100 * c[le] >= p * total => index(c, p) <= le
<1> DEFINE last == Max(DOMAIN c)
           total == c[last]
           reached == {le \in DOMAIN c : 100 * c[le] >= p * total}
<1>1. last \in DOMAIN c /\ total \in Nat /\ DOMAIN c \in SUBSET Nat
  BY LastBoundary
<1>2. last \in reached
  <2>1. 100 * c[last] >= p * total
    <3> HIDE DEF last
    <3>1. p * total <= 100 * total
      BY <1>1, TimesMonotone
    <3>2. p * total \in Nat /\ 100 * total \in Nat
      BY <1>1
    <3> QED
      BY <3>1, <3>2
  <2> QED
    BY <1>1, <2>1
<1>3. reached \in SUBSET Nat /\ reached # {} /\ reached \subseteq DOMAIN c
  <2> HIDE DEF last
  <2> QED
    BY <1>1, <1>2
<1>4. index(c, p) = Min(reached)
  <2>1. index(c, p) = IF reached = {} THEN last ELSE Min(reached)
    BY DEF index
  <2> HIDE DEF reached, last
  <2> QED
    BY <1>3, <2>1
<1>5. Min(reached) \in reached /\ \A y \in reached : Min(reached) <= y
  <2> HIDE DEF reached
  <2> QED
    BY <1>3, MinIsSmallest
<1> HIDE DEF last
<1>6. 100 * c[Min(reached)] >= p * total
  BY <1>5
<1>7. \A le \in DOMAIN c : 100 * c[le] >= p * total => Min(reached) <= le
  BY <1>5
<1> HIDE DEF reached
<1> QED
  BY <1>3, <1>4, <1>5, <1>6, <1>7 DEF last

\* A higher percentile is in no lower bucket.
LEMMA IndexMonotone ==
    ASSUME NEW c, Distribution(c), DOMAIN c # {}, NEW p \in 1 .. 100, NEW q \in 1 .. 100, p <= q
    PROVE  index(c, p) <= index(c, q)
<1> DEFINE total == c[Max(DOMAIN c)]
           le == index(c, q)
<1>1. total \in Nat /\ le \in DOMAIN c /\ 100 * c[le] >= q * total
  BY LastBoundary, IndexIs
<1>2. \A b \in DOMAIN c : 100 * c[b] >= p * total => index(c, p) <= b
  BY IndexIs
<1>3. c[le] \in Nat
  BY <1>1 DEF Distribution
<1> HIDE DEF total, le
<1>4. p * total <= q * total /\ p * total \in Nat /\ q * total \in Nat
  BY <1>1, TimesMonotone
<1>5. 100 * c[le] >= p * total
  BY <1>1, <1>3, <1>4
<1> QED
  BY <1>1, <1>2, <1>5 DEF le

\* What interpolation starts from in the bucket that ends at u: its lower edge and the
\* count there.
Below(c, u) == {le \in DOMAIN c : le < u}
Lower(c, u) == IF Below(c, u) = {} THEN 0 ELSE Max(Below(c, u))
CountBelow(c, u) == IF Below(c, u) = {} THEN 0 ELSE c[Lower(c, u)]

LEMMA BucketOf ==
    ASSUME NEW c, Distribution(c), DOMAIN c # {}, NEW p \in 1 .. 100, c[Max(DOMAIN c)] > 0
    PROVE  LET u    == index(c, p)
               rank == p * c[Max(DOMAIN c)]
           IN  /\ Lower(c, u) \in Nat /\ Lower(c, u) <= u
               /\ \A le \in Below(c, u) : le <= Lower(c, u)
               /\ CountBelow(c, u) \in Nat /\ c[u] \in Nat /\ rank \in Nat
               /\ 100 * CountBelow(c, u) < rank /\ rank <= 100 * c[u]
<1> DEFINE u    == index(c, p)
           total == c[Max(DOMAIN c)]
           rank == p * total
<1>1. /\ u \in DOMAIN c /\ u \in Nat /\ 100 * c[u] >= rank
      /\ \A le \in DOMAIN c : 100 * c[le] >= rank => u <= le
  BY IndexIs
<1>2. total \in Nat /\ total > 0 /\ DOMAIN c \in SUBSET Nat
  BY LastBoundary
<1>3. \A le \in DOMAIN c : c[le] \in Nat
  BY DEF Distribution
<1> HIDE DEF u, total
<1>4. rank \in Nat /\ rank > 0
  <2>1. 1 * total <= p * total
    BY <1>2, TimesMonotone
  <2>2. p * total \in Nat /\ 1 * total = total
    BY <1>2
  <2> QED
    BY <1>2, <2>1, <2>2
<1> HIDE DEF rank
<1>5. CASE Below(c, u) = {}
  <2>1. Lower(c, u) = 0 /\ CountBelow(c, u) = 0
    BY <1>5 DEF Lower, CountBelow
  <2> QED
    BY <1>1, <1>3, <1>4, <1>5, <2>1 DEF u, rank, total
<1>6. CASE Below(c, u) # {}
  <2>1. Below(c, u) \subseteq DOMAIN c /\ \A le \in Below(c, u) : le < u
    BY DEF Below
  <2>2. Below(c, u) \in SUBSET (0 .. Inf)
    BY <2>1 DEF Distribution
  <2>3. IsFiniteSet(Below(c, u)) /\ Below(c, u) \in SUBSET Nat /\ Below(c, u) \in SUBSET Int
    BY <2>2, UpToInfFinite
  <2>4. Max(Below(c, u)) \in Below(c, u) /\ \A le \in Below(c, u) : le <= Max(Below(c, u))
    BY <1>6, <2>3, MaxIsLargest
  <2>5. Lower(c, u) = Max(Below(c, u)) /\ CountBelow(c, u) = c[Lower(c, u)]
    BY <1>6 DEF Lower, CountBelow
  <2>6. /\ Lower(c, u) \in DOMAIN c /\ Lower(c, u) \in Nat /\ Lower(c, u) < u
        /\ \A le \in Below(c, u) : le <= Lower(c, u)
    BY <2>1, <2>3, <2>4, <2>5
  <2>7. c[Lower(c, u)] \in Nat /\ ~(100 * c[Lower(c, u)] >= rank)
    BY <1>1, <1>3, <2>6
  <2>8. 100 * CountBelow(c, u) < rank /\ CountBelow(c, u) \in Nat
    BY <1>4, <2>5, <2>7
  <2> QED
    BY <1>1, <1>3, <1>4, <2>6, <2>8 DEF u, rank, total
<1> QED
  BY <1>5, <1>6

\* The interpolation, which finds a bucket that is not empty.
LEMMA InterpolateIs ==
    ASSUME NEW c, Distribution(c), DOMAIN c # {}, NEW p \in 1 .. 100, c[Max(DOMAIN c)] > 0
    PROVE  LET u    == index(c, p)
               span == c[u] - CountBelow(c, u)
               over == p * c[Max(DOMAIN c)] - 100 * CountBelow(c, u)
           IN  /\ span \in Nat \ {0} /\ over \in Nat /\ over <= 100 * span
               /\ interpolate(c, p)
                    = Fraction(Lower(c, u) * 100 * span + (u - Lower(c, u)) * over, 100 * span)
<1> DEFINE u    == index(c, p)
           rank == p * c[Max(DOMAIN c)]
           span == c[u] - CountBelow(c, u)
           over == rank - 100 * CountBelow(c, u)
<1>1. /\ CountBelow(c, u) \in Nat /\ c[u] \in Nat /\ rank \in Nat
      /\ 100 * CountBelow(c, u) < rank /\ rank <= 100 * c[u]
  BY BucketOf
<1>2. interpolate(c, p) = IF span <= 0 THEN Point(u)
                          ELSE Fraction(Lower(c, u) * 100 * span + (u - Lower(c, u)) * over, 100 * span)
  BY DEF interpolate, CountBelow, Lower, Below
<1> HIDE DEF u, rank
<1>3. span \in Nat \ {0} /\ over \in Nat /\ over <= 100 * span /\ ~(span <= 0)
  BY <1>1
<1> HIDE DEF span, over
<1>4. interpolate(c, p) = Fraction(Lower(c, u) * 100 * span + (u - Lower(c, u)) * over, 100 * span)
  BY <1>2, <1>3
<1> QED
  BY <1>3, <1>4 DEF u, rank, span, over


-----------------------------------------------------------------------------
(* Fractions *)

Proper(m) == m.num \in Nat /\ m.den \in Nat \ {0}

LEMMA Cancel ==
    ASSUME NEW x \in Nat, NEW y \in Nat, NEW k \in Nat \ {0}, x * k <= y * k
    PROVE  x <= y
<1> SUFFICES ASSUME y + 1 <= x PROVE FALSE
  OBVIOUS
<1>1. (y + 1) * k <= x * k
  BY TimesMonotone
<1>2. (y + 1) * k = y * k + k
  OBVIOUS
<1>3. x * k \in Nat /\ y * k \in Nat
  OBVIOUS
<1> QED
  BY <1>1, <1>2, <1>3

LEMMA AtMostTransitive ==
    ASSUME NEW a, NEW b, NEW c, Proper(a), Proper(b), Proper(c), AtMost(a, b), AtMost(b, c)
    PROVE  AtMost(a, c)
<1>1. ASSUME NEW m \in Nat, NEW n \in Nat \ {0}, NEW r \in Nat, NEW s \in Nat \ {0},
             NEW t \in Nat, NEW u \in Nat \ {0}, m * s <= r * n, r * u <= t * s
      PROVE  m * u <= t * n
  <2>1. (m * s) * u <= (r * n) * u
    <3>1. m * s \in Nat /\ r * n \in Nat
      OBVIOUS
    <3> QED
      BY <1>1, <3>1, TimesMonotone
  <2>2. (r * u) * n <= (t * s) * n
    <3>1. r * u \in Nat /\ t * s \in Nat
      OBVIOUS
    <3> QED
      BY <1>1, <3>1, TimesMonotone
  <2>3. /\ (m * s) * u = (m * u) * s /\ (r * n) * u = (r * u) * n
        /\ (t * s) * n = (t * n) * s
    OBVIOUS
  <2>4. m * u \in Nat /\ t * n \in Nat /\ (m * u) * s \in Nat /\ (r * u) * n \in Nat
        /\ (t * n) * s \in Nat
    OBVIOUS
  <2>5. (m * u) * s <= (t * n) * s
    BY <2>1, <2>2, <2>3, <2>4
  <2> QED
    BY <2>4, <2>5, Cancel
<1> QED
  BY <1>1 DEF AtMost, Proper

LEMMA AtMostTotal ==
    ASSUME NEW a, NEW b, Proper(a), Proper(b)
    PROVE  AtMost(a, b) \/ AtMost(b, a)
<1>1. a.num * b.den \in Int /\ b.num * a.den \in Int
  BY DEF Proper
<1> QED
  BY <1>1 DEF AtMost

LEMMA ProperIsGiven ==
    ASSUME NEW m, Proper(m)
    PROVE  Given(m)
BY DEF Proper, Given, Absent

LEMMA PointIsProper ==
    ASSUME NEW n \in Nat
    PROVE  Proper(Point(n)) /\ Point(n).num = n /\ Point(n).den = 1
BY DEF Proper, Point, Fraction

\* Scaling a measurement keeps it one, and the order.
LEMMA TimesProper ==
    ASSUME NEW m, Proper(m), NEW n \in Nat, NEW d \in Nat \ {0}
    PROVE  /\ Proper(Times(m, n, d)) /\ Given(Times(m, n, d))
           /\ Times(m, n, d).num = m.num * n /\ Times(m, n, d).den = m.den * d
<1>1. Times(m, n, d) = Fraction(m.num * n, m.den * d)
  BY ProperIsGiven DEF Times
<1>2. m.num * n \in Nat /\ m.den * d \in Nat \ {0}
  BY DEF Proper
<1>3. Times(m, n, d).num = m.num * n /\ Times(m, n, d).den = m.den * d
  BY <1>1 DEF Fraction
<1>4. Proper(Times(m, n, d))
  BY <1>2, <1>3 DEF Proper
<1> QED
  BY <1>3, <1>4, ProperIsGiven

LEMMA TimesOrdered ==
    ASSUME NEW a, NEW b, Proper(a), Proper(b), AtMost(a, b), NEW n \in Nat
    PROVE  AtMost(Times(a, n, 1), Times(b, n, 1))
<1>1. ASSUME NEW p \in Nat, NEW q \in Nat \ {0}, NEW r \in Nat, NEW s \in Nat \ {0}, p * s <= r * q
      PROVE  (p * n) * (s * 1) <= (r * n) * (q * 1)
  <2>1. p * s \in Nat /\ r * q \in Nat
    OBVIOUS
  <2>2. (p * s) * n <= (r * q) * n
    BY <1>1, <2>1, TimesMonotone
  <2>3. (p * s) * n = (p * n) * (s * 1) /\ (r * q) * n = (r * n) * (q * 1)
    OBVIOUS
  <2> QED
    BY <2>2, <2>3
<1>2. /\ Times(a, n, 1).num = a.num * n /\ Times(a, n, 1).den = a.den * 1
      /\ Times(b, n, 1).num = b.num * n /\ Times(b, n, 1).den = b.den * 1
  BY TimesProper
<1> QED
  BY <1>1, <1>2 DEF AtMost, Proper


-----------------------------------------------------------------------------
(* Percentiles *)

\* The interpolated value lies in its bucket.
LEMMA InterpolateInside ==
    ASSUME NEW c, Distribution(c), DOMAIN c # {}, NEW p \in 1 .. 100, c[Max(DOMAIN c)] > 0
    PROVE  LET u == index(c, p)
           IN  /\ Proper(interpolate(c, p)) /\ u \in Nat /\ Lower(c, u) \in Nat
               /\ AtMost(Point(Lower(c, u)), interpolate(c, p))
               /\ AtMost(interpolate(c, p), Point(u))
<1> DEFINE u     == index(c, p)
           lower == Lower(c, u)
           span  == c[u] - CountBelow(c, u)
           over  == p * c[Max(DOMAIN c)] - 100 * CountBelow(c, u)
           v     == interpolate(c, p)
           D     == 100 * span
           w     == u - lower
<1>1. span \in Nat \ {0} /\ over \in Nat /\ over <= 100 * span
      /\ v = Fraction(lower * 100 * span + (u - lower) * over, 100 * span)
  BY InterpolateIs
<1>2. u \in Nat /\ lower \in Nat /\ lower <= u
  BY IndexIs, BucketOf
<1> HIDE DEF u, lower, span, over, v
<1>3. D \in Nat \ {0} /\ w \in Nat /\ u = lower + w /\ over <= D
  BY <1>1, <1>2
<1>4. v.num = lower * D + w * over /\ v.den = D
  <2>1. v.num = lower * 100 * span + w * over /\ v.den = D
    BY <1>1 DEF Fraction
  <2>2. lower * 100 * span = lower * D
    BY <1>1, <1>2
  <2> QED
    BY <2>1, <2>2
<1> HIDE DEF D, w
<1>5. lower * D \in Nat /\ w * over \in Nat /\ w * D \in Nat /\ w * over <= w * D
  BY <1>1, <1>2, <1>3, TimesMonotone
<1>6. u * D = lower * D + w * D
  BY <1>2, <1>3
<1>7. Proper(v)
  BY <1>3, <1>4, <1>5 DEF Proper
<1>8. AtMost(Point(lower), v)
  <2>1. lower * D <= (lower * D + w * over) * 1
    BY <1>5
  <2> QED
    BY <1>2, <1>4, <2>1, PointIsProper DEF AtMost
<1>9. AtMost(v, Point(u))
  <2>1. (lower * D + w * over) * 1 <= u * D
    BY <1>5, <1>6
  <2> QED
    BY <1>2, <1>4, <2>1, PointIsProper DEF AtMost
<1> QED
  BY <1>2, <1>7, <1>8, <1>9 DEF u, lower, v

LEMMA PointsOrdered ==
    ASSUME NEW m \in Nat, NEW n \in Nat, m <= n
    PROVE  AtMost(Point(m), Point(n))
BY PointIsProper DEF AtMost

\* A higher percentile is interpolated to no less.
LEMMA InterpolateOrdered ==
    ASSUME NEW c, Distribution(c), DOMAIN c # {}, c[Max(DOMAIN c)] > 0,
           NEW p \in 1 .. 100, NEW q \in 1 .. 100, p <= q
    PROVE  AtMost(interpolate(c, p), interpolate(c, q))
<1> DEFINE u == index(c, p)
           t == index(c, q)
           total == c[Max(DOMAIN c)]
<1>1. u <= t /\ u \in Nat /\ t \in Nat /\ u \in DOMAIN c /\ total \in Nat
  BY IndexMonotone, IndexIs, LastBoundary
<1>2. CASE u = t
  <2> DEFINE lower == Lower(c, u)
             under == CountBelow(c, u)
             span == c[u] - under
             a == p * total - 100 * under
             b == q * total - 100 * under
             w == u - lower
  <2>1. /\ span \in Nat \ {0} /\ a \in Nat
        /\ interpolate(c, p) = Fraction(lower * 100 * span + (u - lower) * a, 100 * span)
    BY InterpolateIs
  <2>2. /\ b \in Nat
        /\ interpolate(c, q) = Fraction(lower * 100 * span + (u - lower) * b, 100 * span)
    BY <1>2, InterpolateIs
  <2>3. lower \in Nat /\ lower <= u /\ under \in Nat
    BY BucketOf
  <2> HIDE DEF lower, under, u, total
  <2>4. a <= b
    <3>1. p * total <= q * total /\ p * total \in Nat /\ q * total \in Nat
      BY <1>1, TimesMonotone
    <3> QED
      BY <2>3, <3>1
  <2> DEFINE d == 100 * span
             base == lower * 100 * span
  <2>5. d \in Nat \ {0} /\ base \in Nat /\ w \in Nat
    BY <1>1, <2>1, <2>3
  <2> HIDE DEF a, b, span
  <2>6. w * a \in Nat /\ w * b \in Nat /\ w * a <= w * b
    BY <2>1, <2>2, <2>4, <2>5, TimesMonotone
  <2>7. /\ interpolate(c, p).num = base + w * a /\ interpolate(c, p).den = d
        /\ interpolate(c, q).num = base + w * b /\ interpolate(c, q).den = d
    BY <2>1, <2>2 DEF Fraction
  <2> DEFINE m == base + w * a
             n == base + w * b
  <2> HIDE DEF d, base, w
  <2>8. m \in Nat /\ n \in Nat /\ m <= n
    BY <2>5, <2>6
  <2>9. interpolate(c, p).num = m /\ interpolate(c, q).num = n
    BY <2>7
  <2> HIDE DEF m, n
  <2>10. m * d <= n * d
    BY <2>5, <2>8, TimesMonotone
  <2> QED
    BY <2>7, <2>9, <2>10 DEF AtMost
<1>3. CASE u < t
  <2>1. /\ Proper(interpolate(c, p)) /\ AtMost(interpolate(c, p), Point(u))
        /\ Proper(interpolate(c, q)) /\ AtMost(Point(Lower(c, t)), interpolate(c, q))
        /\ Lower(c, t) \in Nat
    BY InterpolateInside
  <2>2. u <= Lower(c, t)
    <3>1. u \in Below(c, t)
      BY <1>1, <1>3 DEF Below
    <3> QED
      BY <3>1, BucketOf
  <2> HIDE DEF u, t
  <2>3. AtMost(Point(u), Point(Lower(c, t)))
    BY <1>1, <2>1, <2>2, PointsOrdered
  <2>4. Proper(Point(u)) /\ Proper(Point(Lower(c, t)))
    BY <1>1, <2>1, PointIsProper
  <2>5. AtMost(interpolate(c, p), Point(Lower(c, t)))
    BY <2>1, <2>3, <2>4, AtMostTransitive
  <2> QED
    BY <2>1, <2>4, <2>5, AtMostTransitive
<1> QED
  BY <1>1, <1>2, <1>3

\* Nothing can be read of a histogram without observations or finite buckets.
Unreadable(c) == DOMAIN c \subseteq {Inf} \/ c[Max(DOMAIN c)] = 0

Finite(c) == DOMAIN c \ {Inf}

LEMMA FiniteBoundaries ==
    ASSUME NEW c, Distribution(c), ~(DOMAIN c \subseteq {Inf})
    PROVE  /\ Max(Finite(c)) \in Finite(c) /\ Max(Finite(c)) \in Nat
           /\ \A le \in Finite(c) : le <= Max(Finite(c))
<1>1. Finite(c) \subseteq 0 .. Inf /\ Finite(c) # {}
  BY DEF Finite, Distribution
<1>2. IsFiniteSet(Finite(c)) /\ Finite(c) \in SUBSET Nat /\ Finite(c) \in SUBSET Int
  BY <1>1, UpToInfFinite
<1> QED
  BY <1>1, <1>2, MaxIsLargest

LEMMA QuantileIs ==
    ASSUME NEW payload, NEW name, NEW want, NEW p \in 1 .. 100, Payload(payload)
    PROVE  LET c == buckets(payload, name, want)
               v == Quantile(payload, name, p, want)
           IN  /\ Unreadable(c) => v = Absent
               /\ ~Unreadable(c) => /\ DOMAIN c # {} /\ c[Max(DOMAIN c)] > 0
                                    /\ v = IF index(c, p) # Inf THEN interpolate(c, p)
                                           ELSE Point(Max(Finite(c)))
<1> DEFINE c == buckets(payload, name, want)
           v == Quantile(payload, name, p, want)
<1>1. Distribution(c)
  BY BucketsDistribution
<1>2. v = IF DOMAIN c = {} THEN Absent
          ELSE IF c[Max(DOMAIN c)] <= 0 THEN Absent
          ELSE IF index(c, p) # Inf THEN interpolate(c, p)
          ELSE IF Finite(c) = {} THEN Absent ELSE Point(Max(Finite(c)))
  BY DEF Quantile, Finite
<1> HIDE DEF c, v
<1> DEFINE G == /\ Unreadable(c) => v = Absent
                /\ ~Unreadable(c) => /\ DOMAIN c # {} /\ c[Max(DOMAIN c)] > 0
                                     /\ v = IF index(c, p) # Inf THEN interpolate(c, p)
                                            ELSE Point(Max(Finite(c)))
<1>3. ASSUME DOMAIN c = {} PROVE G
  BY <1>2, <1>3 DEF Unreadable
<1>4. ASSUME DOMAIN c # {}, c[Max(DOMAIN c)] = 0 PROVE G
  <2>1. c[Max(DOMAIN c)] <= 0
    BY <1>4
  <2> QED
    BY <1>2, <1>4, <2>1 DEF Unreadable
<1>5. ASSUME DOMAIN c # {}, c[Max(DOMAIN c)] # 0 PROVE G
  <2>1. c[Max(DOMAIN c)] \in Nat /\ index(c, p) \in DOMAIN c
    BY <1>1, <1>5, LastBoundary, IndexIs
  <2>2. c[Max(DOMAIN c)] > 0 /\ ~(c[Max(DOMAIN c)] <= 0)
    BY <1>5, <2>1
  <2>3. Unreadable(c) <=> Finite(c) = {}
    BY <1>5 DEF Unreadable, Finite
  <2>4. Finite(c) = {} => index(c, p) = Inf
    BY <2>1 DEF Finite
  <2>5. CASE Finite(c) = {}
    BY <1>2, <1>5, <2>2, <2>3, <2>4, <2>5
  <2>6. CASE Finite(c) # {}
    BY <1>2, <1>5, <2>2, <2>3, <2>6
  <2> QED
    BY <2>5, <2>6
<1>6. G
  BY <1>3, <1>4, <1>5
<1> QED
  BY <1>6 DEF c, v

\* A percentile is given exactly if the histogram can be read, and is within its finite
\* buckets.
LEMMA QuantileInside ==
    ASSUME NEW payload, NEW name, NEW want, NEW p \in 1 .. 100, Payload(payload)
    PROVE  LET c == buckets(payload, name, want)
               v == Quantile(payload, name, p, want)
           IN  /\ Unreadable(c) => v = Absent
               /\ ~Unreadable(c) => /\ Proper(v) /\ AtMost(Point(0), v)
                                    /\ \E le \in Finite(c) : le \in Nat /\ AtMost(v, Point(le))
<1> DEFINE c == buckets(payload, name, want)
           v == Quantile(payload, name, p, want)
<1>1. Distribution(c)
  BY BucketsDistribution
<1>2. Unreadable(c) => v = Absent
  BY QuantileIs
<1>3. ~Unreadable(c) => /\ DOMAIN c # {} /\ c[Max(DOMAIN c)] > 0
                        /\ v = IF index(c, p) # Inf THEN interpolate(c, p) ELSE Point(Max(Finite(c)))
  BY QuantileIs
<1> HIDE DEF c, v
<1>4. ASSUME ~Unreadable(c), index(c, p) # Inf
      PROVE  /\ Proper(v) /\ AtMost(Point(0), v)
             /\ \E le \in Finite(c) : le \in Nat /\ AtMost(v, Point(le))
  <2> DEFINE u == index(c, p)
  <2>1. /\ Proper(v) /\ AtMost(v, Point(u)) /\ AtMost(Point(Lower(c, u)), v)
        /\ u \in Nat /\ Lower(c, u) \in Nat
    BY <1>1, <1>3, <1>4, InterpolateInside
  <2>2. u \in Finite(c)
    BY <1>1, <1>3, <1>4, IndexIs DEF Finite
  <2> HIDE DEF u
  <2>3. AtMost(Point(0), v)
    <3>1. AtMost(Point(0), Point(Lower(c, u)))
      BY <2>1, PointsOrdered
    <3>2. Proper(Point(0)) /\ Proper(Point(Lower(c, u)))
      BY <2>1, PointIsProper
    <3> QED
      BY <2>1, <3>1, <3>2, AtMostTransitive
  <2> QED
    BY <2>1, <2>2, <2>3
<1>5. ASSUME ~Unreadable(c), index(c, p) = Inf
      PROVE  /\ Proper(v) /\ AtMost(Point(0), v)
             /\ \E le \in Finite(c) : le \in Nat /\ AtMost(v, Point(le))
  <2> DEFINE u == Max(Finite(c))
  <2>1. u \in Finite(c) /\ u \in Nat
    <3>1. ~(DOMAIN c \subseteq {Inf})
      BY <1>5 DEF Unreadable
    <3> QED
      BY <1>1, <3>1, FiniteBoundaries
  <2>2. v = Point(u)
    BY <1>3, <1>5
  <2> HIDE DEF u
  <2>3. AtMost(Point(0), v) /\ AtMost(v, Point(u)) /\ Proper(v)
    BY <2>1, <2>2, PointsOrdered, PointIsProper
  <2> QED
    BY <2>1, <2>3
<1> QED
  BY <1>2, <1>4, <1>5 DEF c, v

LEMMA QuantileOrdered ==
    ASSUME NEW payload, NEW name, NEW want, Payload(payload),
           NEW p \in 1 .. 100, NEW q \in 1 .. 100, p <= q,
           ~Unreadable(buckets(payload, name, want))
    PROVE  AtMost(Quantile(payload, name, p, want), Quantile(payload, name, q, want))
<1> DEFINE c == buckets(payload, name, want)
           v(r) == Quantile(payload, name, r, want)
           last == Max(Finite(c))
<1>1. Distribution(c) /\ ~Unreadable(c)
  BY BucketsDistribution
<1>2. \A r \in 1 .. 100 :
        /\ DOMAIN c # {} /\ c[Max(DOMAIN c)] > 0
        /\ v(r) = IF index(c, r) # Inf THEN interpolate(c, r) ELSE Point(last)
  BY QuantileIs
<1> HIDE DEF c, v
<1>3. /\ DOMAIN c # {} /\ c[Max(DOMAIN c)] > 0 /\ last \in Nat
      /\ \A le \in Finite(c) : le <= last
  <2>1. ~(DOMAIN c \subseteq {Inf})
    BY <1>1 DEF Unreadable
  <2> QED
    BY <1>1, <1>2, <2>1, FiniteBoundaries
<1>4. index(c, p) <= index(c, q) /\ index(c, p) \in DOMAIN c /\ index(c, q) \in DOMAIN c
  BY <1>1, <1>3, IndexMonotone, IndexIs
<1> HIDE DEF last
<1>5. CASE index(c, q) # Inf
  <2>1. index(c, p) # Inf
    <3>1. index(c, p) \in 0 .. Inf /\ index(c, q) \in 0 .. Inf
      BY <1>1, <1>4 DEF Distribution
    <3> QED
      BY <1>4, <1>5, <3>1, InfIsNumber
  <2>2. v(p) = interpolate(c, p) /\ v(q) = interpolate(c, q)
    BY <1>2, <1>5, <2>1
  <2>3. AtMost(interpolate(c, p), interpolate(c, q))
    BY <1>1, <1>3, InterpolateOrdered
  <2> QED
    BY <2>2, <2>3 DEF v
<1>6. CASE index(c, q) = Inf /\ index(c, p) # Inf
  <2>1. v(p) = interpolate(c, p) /\ v(q) = Point(last)
    BY <1>2, <1>6
  <2> DEFINE u == index(c, p)
  <2>2. Proper(v(p)) /\ AtMost(v(p), Point(u)) /\ u \in Nat
    BY <1>1, <1>3, <2>1, InterpolateInside
  <2>3. u <= last
    BY <1>3, <1>4, <1>6 DEF Finite
  <2> HIDE DEF u
  <2>4. AtMost(Point(u), Point(last)) /\ Proper(Point(u)) /\ Proper(Point(last))
    BY <1>3, <2>2, <2>3, PointsOrdered, PointIsProper
  <2>5. AtMost(v(p), Point(last))
    BY <2>2, <2>4, AtMostTransitive
  <2> QED
    BY <2>1, <2>5 DEF v
<1>7. CASE index(c, p) = Inf /\ index(c, q) = Inf
  <2>1. v(p) = Point(last) /\ v(q) = Point(last)
    BY <1>2, <1>7
  <2>2. AtMost(Point(last), Point(last))
    BY <1>3, PointsOrdered
  <2> QED
    BY <2>1, <2>2 DEF v
<1> QED
  BY <1>5, <1>6, <1>7


-----------------------------------------------------------------------------
(* What the adapters read *)

LEMMA MeasuredIs ==
    ASSUME NEW given, NEW f \in Fields
    PROVE  Measured(given)[f] = IF f \in DOMAIN given THEN given[f] ELSE Absent
BY DEF Measured

LEMMA CountedIs ==
    ASSUME NEW given, NEW name \in Counters
    PROVE  Counted(given)[name] = IF name \in DOMAIN given THEN given[name] ELSE Absent
BY DEF Counted

LEMMA VllmReads ==
    ASSUME NEW payload, NEW model
    PROVE  LET sel == modelSelector("model_name", model)
               r == vllmParse(payload, model)
               sum(name) == Sum(payload, name, sel)
               ms(family, p) == Times(Quantile(payload, family, p, sel), 1000, 1)
               waitingFor(reason) ==
                   Sum(payload, "NumRequestsWaitingByReason", cloneWith(sel, "reason", reason))
           IN  /\ r.snap["RequestsRunning"] = sum("NumRequestsRunning")
               /\ r.snap["RequestsWaiting"] = sum("NumRequestsWaiting")
               /\ r.snap["WaitingForCapacity"] = waitingFor("capacity")
               /\ r.snap["WaitingDeferred"] = waitingFor("deferred")
               /\ r.snap["KVCacheUsagePct"] = Times(kvUsage(payload, sel), 100, 1000)
               /\ r.snap["TTFTP50Ms"] = ms("TimeToFirstToken", 50)
               /\ r.snap["TTFTP95Ms"] = ms("TimeToFirstToken", 95)
               /\ r.snap["TTFTP99Ms"] = ms("TimeToFirstToken", 99)
               /\ r.snap["P50LatencyMs"] = ms("E2ELatency", 50)
               /\ r.snap["P95LatencyMs"] = ms("E2ELatency", 95)
               /\ r.snap["P99LatencyMs"] = ms("E2ELatency", 99)
               /\ r.snap["QueueTimeP95Ms"] = ms("QueueTime", 95)
               /\ r.snap["GPUUtilizationPct"] = Absent /\ r.snap["GPUMemoryUsedPct"] = Absent
               /\ r.missing = vllmRequired \ vllmSeen(payload, sel)
<1> DEFINE sel == modelSelector("model_name", model)
           r == vllmParse(payload, model)
           sum(name) == Sum(payload, name, sel)
           ms(family, p) == Times(Quantile(payload, family, p, sel), 1000, 1)
           waitingFor(reason) ==
               Sum(payload, "NumRequestsWaitingByReason", cloneWith(sel, "reason", reason))
           given == [RequestsRunning |-> sum("NumRequestsRunning"),
               RequestsWaiting |-> sum("NumRequestsWaiting"),
               WaitingForCapacity |-> waitingFor("capacity"),
               WaitingDeferred |-> waitingFor("deferred"),
               KVCacheUsagePct |-> Times(kvUsage(payload, sel), 100, 1000),
               TTFTP50Ms |-> ms("TimeToFirstToken", 50),
               TTFTP95Ms |-> ms("TimeToFirstToken", 95),
               TTFTP99Ms |-> ms("TimeToFirstToken", 99),
               P50LatencyMs |-> ms("E2ELatency", 50),
               P95LatencyMs |-> ms("E2ELatency", 95),
               P99LatencyMs |-> ms("E2ELatency", 99),
               QueueTimeP95Ms |-> ms("QueueTime", 95)]
<1>1. r.snap = Measured(given) /\ r.missing = vllmRequired \ vllmSeen(payload, sel)
  BY DEF vllmParse
<1> HIDE DEF sel, r, sum, ms, waitingFor
<1>2. \A f \in Fields : Measured(given)[f] = IF f \in DOMAIN given THEN given[f] ELSE Absent
  <2> HIDE DEF given
  <2> QED
    BY MeasuredIs
<1>3. /\ r.snap["RequestsRunning"] = sum("NumRequestsRunning")
      /\ r.snap["RequestsWaiting"] = sum("NumRequestsWaiting")
      /\ r.snap["WaitingForCapacity"] = waitingFor("capacity")
      /\ r.snap["WaitingDeferred"] = waitingFor("deferred")
      /\ r.snap["KVCacheUsagePct"] = Times(kvUsage(payload, sel), 100, 1000)
      /\ r.snap["TTFTP50Ms"] = ms("TimeToFirstToken", 50)
      /\ r.snap["TTFTP95Ms"] = ms("TimeToFirstToken", 95)
      /\ r.snap["TTFTP99Ms"] = ms("TimeToFirstToken", 99)
      /\ r.snap["P50LatencyMs"] = ms("E2ELatency", 50)
      /\ r.snap["P95LatencyMs"] = ms("E2ELatency", 95)
      /\ r.snap["P99LatencyMs"] = ms("E2ELatency", 99)
      /\ r.snap["QueueTimeP95Ms"] = ms("QueueTime", 95)
      /\ r.snap["GPUUtilizationPct"] = Absent /\ r.snap["GPUMemoryUsedPct"] = Absent
  BY <1>1, <1>2 DEF Fields
<1> QED
  BY <1>1, <1>3 DEF sel, r, sum, ms, waitingFor


-----------------------------------------------------------------------------
(* Series that are not selected are not read *)

\* Two payloads that differ at most in the values of series that want does not match.
Agree(p, q, want) ==
    /\ Len(p) = Len(q) /\ DOMAIN p = DOMAIN q
    /\ \A i \in DOMAIN p : /\ p[i].name = q[i].name /\ p[i].labels = q[i].labels
                           /\ Matches(p[i].labels, want) => p[i].value = q[i].value

LEMMA SameNumbers ==
    ASSUME NEW p, NEW q, NEW want, Agree(p, q, want), NEW name
    PROVE  /\ Numbers(p, name, want) = Numbers(q, name, want)
           /\ \A i \in Numbers(p, name, want) : p[i].value = q[i].value /\ p[i].labels = q[i].labels
BY DEF Agree, Numbers, Select

LEMMA SameTotal ==
    ASSUME NEW p, NEW q, Payload(p), Payload(q), Len(p) = Len(q), NEW chosen,
           \A i \in chosen : i \in DOMAIN p /\ p[i].value = q[i].value /\ p[i].value # NaN
    PROVE  Total(p, chosen) = Total(q, chosen)
<1>1. Len(p) \in Nat /\ \A i \in DOMAIN p : p[i].value \in Nat \cup {NaN}
  BY DEF Payload
<1>2. \A i \in chosen : p[i].value \in Nat /\ q[i].value = p[i].value
  BY <1>1
<1>3. Total(p, chosen) <= Total(q, chosen) /\ Total(p, chosen) \in Nat
  <2>1. \A i \in 1 .. Len(p) :
           LET a == IF i \in chosen THEN p[i].value ELSE 0
               b == IF i \in chosen THEN q[i].value ELSE 0
           IN  a \in Nat /\ b \in Nat /\ a <= b
    BY <1>2
  <2> QED
    BY <1>1, <2>1, TotalCompared
<1>4. Total(q, chosen) <= Total(p, chosen) /\ Total(q, chosen) \in Nat
  <2>1. \A i \in 1 .. Len(q) :
           LET a == IF i \in chosen THEN q[i].value ELSE 0
               b == IF i \in chosen THEN p[i].value ELSE 0
           IN  a \in Nat /\ b \in Nat /\ a <= b
    BY <1>2
  <2> QED
    BY <1>1, <2>1, TotalCompared
<1> QED
  BY <1>3, <1>4

LEMMA SameSum ==
    ASSUME NEW p, NEW q, Payload(p), Payload(q), NEW want, Agree(p, q, want), NEW name
    PROVE  Sum(p, name, want) = Sum(q, name, want)
<1> DEFINE s == Numbers(p, name, want)
<1>1. s = Numbers(q, name, want) /\ \A i \in s : p[i].value = q[i].value
  BY SameNumbers
<1>2. \A i \in s : i \in DOMAIN p /\ p[i].value # NaN
  BY NumbersAre
<1>3. Sum(p, name, want) = IF s = {} THEN Absent ELSE Point(Total(p, s))
  BY DEF Sum
<1>4. Sum(q, name, want) = IF s = {} THEN Absent ELSE Point(Total(q, s))
  BY <1>1 DEF Sum
<1>5. Len(p) = Len(q)
  BY DEF Agree
<1> HIDE DEF s
<1>6. Total(p, s) = Total(q, s)
  BY <1>1, <1>2, <1>5, SameTotal
<1> QED
  BY <1>3, <1>4, <1>6

LEMMA SameLargest ==
    ASSUME NEW p, NEW q, NEW want, Agree(p, q, want), NEW name
    PROVE  Largest(p, name, want) = Largest(q, name, want)
<1> DEFINE s == Numbers(p, name, want)
<1>1. s = Numbers(q, name, want) /\ \A i \in s : p[i].value = q[i].value
  BY SameNumbers
<1>2. Largest(p, name, want) = IF s = {} THEN Absent ELSE Point(Max({p[i].value : i \in s}))
  BY DEF Largest
<1>3. Largest(q, name, want) = IF s = {} THEN Absent ELSE Point(Max({q[i].value : i \in s}))
  BY <1>1 DEF Largest
<1> HIDE DEF s
<1> DEFINE u == {p[i].value : i \in s}
           v == {q[i].value : i \in s}
<1>4. u = v
  BY <1>1
<1>5. Largest(p, name, want) = (IF s = {} THEN Absent ELSE Point(Max(u)))
  BY <1>2
<1>6. Largest(q, name, want) = (IF s = {} THEN Absent ELSE Point(Max(v)))
  BY <1>3
<1> HIDE DEF u, v
<1> QED
  BY <1>4, <1>5, <1>6

LEMMA SameSummary ==
    ASSUME NEW p, NEW q, Payload(p), NEW want, Agree(p, q, want), NEW name, NEW percent
    PROVE  SummaryQuantile(p, name, percent, want) = SummaryQuantile(q, name, percent, want)
<1> DEFINE n == Numbers(p, name, want)
           s == {i \in n : Matches(p[i].labels, [quantile |-> percent])}
           t == {i \in n : Matches(q[i].labels, [quantile |-> percent])}
<1>1. n = Numbers(q, name, want)
      /\ \A i \in n : p[i].value = q[i].value /\ p[i].labels = q[i].labels
  BY SameNumbers
<1>2. s = t
  <2> HIDE DEF n
  <2> QED
    BY <1>1
<1>3. SummaryQuantile(p, name, percent, want) = IF s = {} THEN Absent ELSE Point(p[Min(s)].value)
  BY DEF SummaryQuantile
<1>4. SummaryQuantile(q, name, percent, want) = IF t = {} THEN Absent ELSE Point(q[Min(t)].value)
  BY <1>1 DEF SummaryQuantile
<1>5. s \in SUBSET Nat /\ s \subseteq n
  BY NumbersAre
<1> HIDE DEF s, t, n
<1>6. s # {} => Min(s) \in n
  BY <1>5, MinIsSmallest
<1> QED
  BY <1>1, <1>2, <1>3, <1>4, <1>6

LEMMA SameBuckets ==
    ASSUME NEW p, NEW q, Payload(p), Payload(q), NEW want, Agree(p, q, want), NEW name
    PROVE  buckets(p, name, want) = buckets(q, name, want)
<1> DEFINE n == Numbers(p, name, want)
           s(r) == {i \in n : "le" \in DOMAIN r[i].labels}
           edges(r) == {r[i].labels["le"] : i \in s(r)}
           at(r, le) == {i \in s(r) : r[i].labels["le"] = le}
           byLE(r) == [le \in edges(r) |-> Total(r, at(r, le))]
           c(r) == [le \in edges(r) |-> Max({byLE(r)[b] : b \in {b \in edges(r) : b <= le}})]
<1>1. /\ n = Numbers(q, name, want)
      /\ \A i \in n : p[i].value = q[i].value /\ p[i].labels = q[i].labels
  BY SameNumbers
<1>2. \A i \in n : i \in DOMAIN p /\ p[i].value # NaN
  BY NumbersAre
<1>3. buckets(p, name, want) = c(p)
  BY DEF buckets
<1>4. buckets(q, name, want) = c(q)
  BY <1>1 DEF buckets
<1> HIDE DEF n
<1>5. s(p) = s(q) /\ s(p) \subseteq n
  BY <1>1
<1>6. edges(p) = edges(q)
  BY <1>1, <1>5
<1>7. \A le \in edges(p) : at(p, le) = at(q, le) /\ at(p, le) \subseteq n
  BY <1>1, <1>5
<1>8. Len(p) = Len(q)
  BY DEF Agree
<1>9. \A le \in edges(p) : Total(p, at(p, le)) = Total(q, at(q, le))
  <2> TAKE le \in edges(p)
  <2>1. at(p, le) = at(q, le) /\ at(p, le) \subseteq n
    BY <1>7
  <2> HIDE DEF at
  <2>2. \A i \in at(p, le) : i \in DOMAIN p /\ p[i].value = q[i].value /\ p[i].value # NaN
    BY <1>1, <1>2, <2>1
  <2>3. Total(p, at(p, le)) = Total(q, at(p, le))
    BY <1>8, <2>2, SameTotal
  <2> QED
    BY <2>1, <2>3
<1> HIDE DEF edges, at
<1>10. byLE(p) = byLE(q)
  BY <1>6, <1>9
<1> HIDE DEF byLE
<1>11. c(p) = c(q)
  BY <1>6, <1>10
<1> QED
  BY <1>3, <1>4, <1>11

LEMMA SameQuantile ==
    ASSUME NEW p, NEW q, Payload(p), Payload(q), NEW want, Agree(p, q, want), NEW name, NEW percent
    PROVE  Quantile(p, name, percent, want) = Quantile(q, name, percent, want)
<1>1. buckets(p, name, want) = buckets(q, name, want)
  BY SameBuckets
<1> QED
  BY <1>1 DEF Quantile

-----------------------------------------------------------------------------
(* What is stored was read from what was answered *)

\* Apart from the replica counts, the last snapshot is what its adapter read from the
\* bodies behind it, with the device metrics laid over it.
ReadInv ==
    /\ target \in DOMAIN Targets
    /\ exposed # Failed =>
          LET reading == Parse(here, exposed)
          IN  /\ exposed \in here.bodies /\ devices \in here.dcgmBodies
              /\ \A f \in Fields \ Joined : snap[f] = applyGPU(reading.snap, devices)[f]
              /\ counters = reading.counters /\ missing = reading.missing

LEMMA ContextLeavesRest ==
    ASSUME NEW s, DOMAIN s = Fields, NEW max, NEW f \in Fields \ Joined
    PROVE  applyWorkloadContext(s, max)[f] = s[f]
<1> DEFINE d == Point(desired(deployments[dcache]))
           r == Point(deployments[dcache].ready)
           m == IF max > 0 THEN Point(max) ELSE Absent
<1>1. applyWorkloadContext(s, max) =
         IF ~here.watched \/ ~Discovered THEN s
         ELSE [s EXCEPT !["Replicas"] = d, !["ReadyReplicas"] = r, !["MaxReplicas"] = m]
  BY DEF applyWorkloadContext
<1> HIDE DEF d, r, m
<1>2. f # "Replicas" /\ f # "ReadyReplicas" /\ f # "MaxReplicas"
  BY DEF Joined
<1> DEFINE joined == [s EXCEPT !["Replicas"] = d, !["ReadyReplicas"] = r, !["MaxReplicas"] = m]
<1>3. joined[f] = s[f]
  BY <1>2
<1> QED
  BY <1>1, <1>3

THEOREM ReadInvHolds == Spec => []ReadInv
<1>1. Init => ReadInv
  BY DEF Init, ReadInv
<1>2. ASSUME ReadInv, [Next]_vars PROVE ReadInv'
  <2>1. CASE UNCHANGED <<target, snap, counters, missing, exposed, devices>>
    BY <1>2, <2>1 DEF ReadInv, here
  <2>2. ASSUME NEW body \in here.bodies, NEW gpuBody \in here.dcgmBodies, NEW max,
               ScrapeSucceeds(body, gpuBody, max)
        PROVE  ReadInv'
    <3> DEFINE reading == Parse(here, body)
               s == applyGPU(reading.snap, gpuBody)
    <3>1. /\ snap' = applyWorkloadContext(s, max)
          /\ counters' = reading.counters /\ missing' = reading.missing
          /\ exposed' = body /\ devices' = gpuBody /\ target' = target
      BY <2>2 DEF ScrapeSucceeds
    <3>2. here' = here
      BY <3>1 DEF here
    <3>3. Parse(here, exposed)' = reading
      BY <3>1, <3>2 DEF Parse
    <3>4. \A f \in Fields \ Joined : snap'[f] = s[f]
      <4>1. DOMAIN s = Fields
        BY AdaptersLeaveContext, DevicesLeaveContext
      <4> HIDE DEF s
      <4> QED
        BY <3>1, <4>1, ContextLeavesRest
    <3> HIDE DEF reading
    <3> QED
      BY <1>2, <3>1, <3>2, <3>3, <3>4 DEF ReadInv
  <2>3. CASE ScrapeFails
    BY <2>1, <2>3 DEF ScrapeFails
  <2>4. CASE UNCHANGED scrapeVars
    BY <2>1, <2>4 DEF scrapeVars
  <2> QED
    BY <1>2, <2>2, <2>3, <2>4 DEF Next, scrapeOne, vars
<1> QED
  BY <1>1, <1>2, PTL DEF Spec

\* So the bodies are payloads.
LEMMA BodiesArePayloads ==
    ASSUME ReadInv, exposed # Failed
    PROVE  Payload(exposed.lines) /\ Payload(devices.lines)
<1>1. target \in DOMAIN Targets /\ exposed \in here.bodies /\ devices \in here.dcgmBodies
  BY DEF ReadInv
<1> QED
  BY <1>1, TargetsAssumption DEF here

LEMMA VllmCounts ==
    ASSUME NEW payload, NEW model
    PROVE  LET sel == modelSelector("model_name", model)
               r == vllmParse(payload, model)
               sum(name) == Sum(payload, name, sel)
           IN  /\ r.counters["GenerationTokensTotal"] = sum("GenerationTokensTotal")
               /\ r.counters["PromptTokensTotal"] = sum("PromptTokensTotal")
               /\ r.counters["finished"] = sum("RequestSuccessTotal")
               /\ r.counters["aborted"] = Sum(payload, "RequestSuccessTotal",
                                              cloneWith(sel, "finished_reason", "abort"))
<1> DEFINE sel == modelSelector("model_name", model)
           r == vllmParse(payload, model)
           sum(name) == Sum(payload, name, sel)
           aborted == Sum(payload, "RequestSuccessTotal", cloneWith(sel, "finished_reason", "abort"))
           given == [GenerationTokensTotal |-> sum("GenerationTokensTotal"),
               PromptTokensTotal |-> sum("PromptTokensTotal"),
               PreemptionsTotal |-> sum("PreemptionsTotal"),
               PrefixCacheQueriesTotal |-> sum("PrefixCacheQueriesTotal"),
               PrefixCacheHitsTotal |-> sum("PrefixCacheHitsTotal"),
               finished |-> sum("RequestSuccessTotal"),
               aborted |-> aborted]
<1>1. r.counters = Counted(given)
  BY DEF vllmParse
<1> HIDE DEF sel, r, sum, aborted
<1>2. \A f \in Counters : Counted(given)[f] = IF f \in DOMAIN given THEN given[f] ELSE Absent
  <2> HIDE DEF given
  <2> QED
    BY CountedIs
<1>3. /\ r.counters["GenerationTokensTotal"] = sum("GenerationTokensTotal")
      /\ r.counters["PromptTokensTotal"] = sum("PromptTokensTotal")
      /\ r.counters["finished"] = sum("RequestSuccessTotal")
      /\ r.counters["aborted"] = aborted
  BY <1>1, <1>2 DEF Counters
<1> QED
  BY <1>3 DEF sel, r, sum, aborted

TritonLatencies(reading, payload, sel) ==
    LET ms(family, p) == Times(SummaryQuantile(payload, family, p, sel), 1, 1000)
    IN  /\ reading.snap["P50LatencyMs"] = ms("RequestSummaryUs", 50)
        /\ reading.snap["P95LatencyMs"] = ms("RequestSummaryUs", 95)
        /\ reading.snap["P99LatencyMs"] = ms("RequestSummaryUs", 99)
        /\ reading.snap["QueueTimeP95Ms"] = ms("QueueSummaryUs", 95)

LEMMA TritonReads ==
    ASSUME NEW payload, NEW model
    PROVE  LET sel == modelSelector("model", model)
               r == tritonParse(payload, model)
           IN  /\ r.snap["RequestsWaiting"] = Sum(payload, "PendingCount", sel)
               /\ TritonLatencies(r, payload, sel)
               /\ r.snap["GPUUtilizationPct"] = gpuUtil(payload)
               /\ r.snap["GPUMemoryUsedPct"] = gpuMemory(payload)
               /\ r.missing = tritonRequired \ tritonSeen(payload, sel)
               /\ r.counters["finished"] = Sum(payload, "RequestSuccess", sel)
               /\ r.counters["failed"] = Sum(payload, "RequestFailure", sel)
               /\ r.counters["aborted"] = Absent
<1> DEFINE sel == modelSelector("model", model)
           r == tritonParse(payload, model)
           ms(family, p) == Times(SummaryQuantile(payload, family, p, sel), 1, 1000)
           waiting == Sum(payload, "PendingCount", sel)
           finished == Sum(payload, "RequestSuccess", sel)
           failed == Sum(payload, "RequestFailure", sel)
           util == gpuUtil(payload)
           memory == gpuMemory(payload)
           given == [RequestsWaiting |-> waiting,
               P50LatencyMs |-> ms("RequestSummaryUs", 50),
               P95LatencyMs |-> ms("RequestSummaryUs", 95),
               P99LatencyMs |-> ms("RequestSummaryUs", 99),
               QueueTimeP95Ms |-> ms("QueueSummaryUs", 95),
               GPUUtilizationPct |-> util,
               GPUMemoryUsedPct |-> memory]
           counts == [finished |-> finished, failed |-> failed]
<1>1. /\ r.snap = Measured(given) /\ r.counters = Counted(counts)
      /\ r.missing = tritonRequired \ tritonSeen(payload, sel)
  BY DEF tritonParse
<1> HIDE DEF sel, r, ms, waiting, finished, failed, util, memory
<1>2. \A f \in Fields : Measured(given)[f] = IF f \in DOMAIN given THEN given[f] ELSE Absent
  <2> HIDE DEF given
  <2> QED
    BY MeasuredIs
<1>3. \A f \in Counters : Counted(counts)[f] = IF f \in DOMAIN counts THEN counts[f] ELSE Absent
  <2> HIDE DEF counts
  <2> QED
    BY CountedIs
<1>4. /\ r.snap["RequestsWaiting"] = waiting
      /\ r.snap["P50LatencyMs"] = ms("RequestSummaryUs", 50)
      /\ r.snap["P95LatencyMs"] = ms("RequestSummaryUs", 95)
      /\ r.snap["P99LatencyMs"] = ms("RequestSummaryUs", 99)
      /\ r.snap["QueueTimeP95Ms"] = ms("QueueSummaryUs", 95)
      /\ r.snap["GPUUtilizationPct"] = util
      /\ r.snap["GPUMemoryUsedPct"] = memory
  BY <1>1, <1>2 DEF Fields
<1>5. /\ r.counters["finished"] = finished /\ r.counters["failed"] = failed
      /\ r.counters["aborted"] = Absent
  BY <1>1, <1>3 DEF Counters
<1> HIDE DEF given, counts
<1>6. TritonLatencies(r, payload, sel)
  BY <1>4 DEF TritonLatencies, ms
<1> QED
  BY <1>1, <1>4, <1>5, <1>6 DEF sel, r, waiting, finished, failed, util, memory

\* What Triton has no metric for.
TritonOmits == {"RequestsRunning", "WaitingForCapacity", "WaitingDeferred",
                "KVCacheUsagePct", "TTFTP50Ms", "TTFTP95Ms", "TTFTP99Ms"}

LEMMA TritonLeavesOut ==
    ASSUME NEW payload, NEW model, NEW f \in TritonOmits
    PROVE  tritonParse(payload, model).snap[f] = Absent
<1>1. \E given : f \notin DOMAIN given /\ tritonParse(payload, model).snap = Measured(given)
  BY DEF tritonParse, TritonOmits
<1>2. f \in Fields
  BY DEF TritonOmits, Fields
<1> QED
  BY <1>1, <1>2, MeasuredIs

\* What device metrics replace, and with what.
LEMMA OverlayIs ==
    ASSUME NEW s, DOMAIN s = Fields, NEW body
    PROVE  /\ \A f \in Fields \ Overlaid : applyGPU(s, body)[f] = s[f]
           /\ ~DevicesSeen(body) => applyGPU(s, body) = s
           /\ DevicesSeen(body) =>
                 LET gpus == dcgmParse(body.lines)
                 IN  /\ applyGPU(s, body)["GPUUtilizationPct"] = overDevices(gpus, "util")
                     /\ applyGPU(s, body)["GPUMemoryUsedPct"] = overDevices(gpus, "memory")
<1> DEFINE u == overDevices(dcgmParse(body.lines), "util")
           m == overDevices(dcgmParse(body.lines), "memory")
<1>1. applyGPU(s, body) = IF ~DevicesSeen(body) THEN s
                          ELSE [s EXCEPT !["GPUUtilizationPct"] = u, !["GPUMemoryUsedPct"] = m]
  BY DEF applyGPU
<1> HIDE DEF u, m
<1>2. \A f \in Fields \ Overlaid : f # "GPUUtilizationPct" /\ f # "GPUMemoryUsedPct"
  BY DEF Overlaid
<1>3. {"GPUUtilizationPct", "GPUMemoryUsedPct"} \subseteq Fields
  BY DEF Fields
<1>4. /\ \A f \in Fields \ Overlaid : applyGPU(s, body)[f] = s[f]
      /\ ~DevicesSeen(body) => applyGPU(s, body) = s
      /\ DevicesSeen(body) => /\ applyGPU(s, body)["GPUUtilizationPct"] = u
                              /\ applyGPU(s, body)["GPUMemoryUsedPct"] = m
  BY <1>1, <1>2, <1>3
<1> QED
  BY <1>4 DEF u, m

\* The last snapshot, where no other source overrides its adapter's reading.
LEMMA StoredIs ==
    ASSUME ReadInv, exposed # Failed
    PROVE  /\ \A f \in Fields \ Overlaid : snap[f] = Parse(here, exposed).snap[f]
           /\ ~DevicesSeen(devices) =>
                 \A f \in Fields \ Joined : snap[f] = Parse(here, exposed).snap[f]
           /\ DevicesSeen(devices) =>
                 LET gpus == dcgmParse(devices.lines)
                 IN  /\ snap["GPUUtilizationPct"] = overDevices(gpus, "util")
                     /\ snap["GPUMemoryUsedPct"] = overDevices(gpus, "memory")
           /\ counters = Parse(here, exposed).counters
           /\ missing = Parse(here, exposed).missing
<1> DEFINE s == Parse(here, exposed).snap
           u == overDevices(dcgmParse(devices.lines), "util")
           m == overDevices(dcgmParse(devices.lines), "memory")
<1>1. /\ \A f \in Fields \ Joined : snap[f] = applyGPU(s, devices)[f]
      /\ counters = Parse(here, exposed).counters
      /\ missing = Parse(here, exposed).missing
  BY DEF ReadInv
<1>2. DOMAIN s = Fields
  BY AdaptersLeaveContext
<1> HIDE DEF s
<1>3. /\ \A f \in Fields \ Overlaid : applyGPU(s, devices)[f] = s[f]
      /\ ~DevicesSeen(devices) => applyGPU(s, devices) = s
      /\ DevicesSeen(devices) => /\ applyGPU(s, devices)["GPUUtilizationPct"] = u
                                 /\ applyGPU(s, devices)["GPUMemoryUsedPct"] = m
  BY <1>2, OverlayIs
<1>4. /\ Fields \ Overlaid \subseteq Fields \ Joined
      /\ {"GPUUtilizationPct", "GPUMemoryUsedPct"} \subseteq Fields \ Joined
  BY DEF Overlaid, Joined, Fields
<1> HIDE DEF u, m
<1>5. /\ \A f \in Fields \ Overlaid : snap[f] = s[f]
      /\ ~DevicesSeen(devices) => \A f \in Fields \ Joined : snap[f] = s[f]
      /\ DevicesSeen(devices) => snap["GPUUtilizationPct"] = u /\ snap["GPUMemoryUsedPct"] = m
  BY <1>1, <1>3, <1>4
<1> QED
  BY <1>1, <1>5 DEF s, u, m

-----------------------------------------------------------------------------
(* What is reported missing *)

\* Changing the unit neither adds a measurement nor takes one away.
LEMMA ScaledGiven ==
    ASSUME NEW m, m = Absent \/ Proper(m), NEW n \in Nat, NEW d \in Nat \ {0}
    PROVE  Given(Times(m, n, d)) <=> Given(m)
<1>1. CASE m = Absent
  BY <1>1 DEF Times, Given
<1>2. CASE Proper(m)
  BY <1>2, TimesProper, ProperIsGiven
<1> QED
  BY <1>1, <1>2

LEMMA LargestMeasured ==
    ASSUME NEW payload, Payload(payload), NEW name, NEW want
    PROVE  LET v == Largest(payload, name, want) IN v = Absent \/ Proper(v)
<1>1. CASE Numbers(payload, name, want) = {}
  BY <1>1, LargestIs
<1>2. CASE Numbers(payload, name, want) # {}
  <2>1. \E i : Largest(payload, name, want) = Point(payload[i].value) /\ payload[i].value \in Nat
    BY <1>2, LargestIs
  <2> QED
    BY <2>1, PointIsProper
<1> QED
  BY <1>1, <1>2

\* All percentiles of a histogram are there, or none is.
LEMMA QuantilesGiven ==
    ASSUME NEW payload, Payload(payload), NEW name, NEW want, NEW p \in 1 .. 100
    PROVE  /\ Given(Quantile(payload, name, p, want)) <=> ~Unreadable(buckets(payload, name, want))
           /\ Given(Times(Quantile(payload, name, p, want), 1000, 1))
                <=> ~Unreadable(buckets(payload, name, want))
<1> DEFINE c == buckets(payload, name, want)
           v == Quantile(payload, name, p, want)
<1>1. /\ Unreadable(c) => v = Absent
      /\ ~Unreadable(c) => Proper(v)
  BY QuantileInside
<1> HIDE DEF c, v
<1>2. Given(v) <=> ~Unreadable(c)
  BY <1>1, ProperIsGiven DEF Given
<1>3. Given(Times(v, 1000, 1)) <=> Given(v)
  BY <1>1, ScaledGiven
<1> QED
  BY <1>2, <1>3 DEF c, v

LEMMA VllmMissing ==
    ASSUME NEW payload, Payload(payload), NEW model
    PROVE  LET r == vllmParse(payload, model)
           IN  /\ "NumRequestsRunning" \in r.missing <=> ~Given(r.snap["RequestsRunning"])
               /\ "NumRequestsWaiting" \in r.missing <=> ~Given(r.snap["RequestsWaiting"])
               /\ "KVCacheUsage" \in r.missing <=> ~Given(r.snap["KVCacheUsagePct"])
               /\ "TimeToFirstToken" \in r.missing <=> ~Given(r.snap["TTFTP95Ms"])
               /\ "E2ELatency" \in r.missing <=> ~Given(r.snap["P95LatencyMs"])
               /\ "GenerationTokensTotal" \in r.missing
                     <=> ~Given(r.counters["GenerationTokensTotal"])
               /\ "PromptTokensTotal" \in r.missing <=> ~Given(r.counters["PromptTokensTotal"])
               /\ "RequestSuccessTotal" \in r.missing <=> ~Given(r.counters["finished"])
<1> DEFINE r == vllmParse(payload, model)
           sel == modelSelector("model_name", model)
           missed == vllmRequired \ vllmSeen(payload, sel)
<1>1. /\ r.snap["RequestsRunning"] = Sum(payload, "NumRequestsRunning", sel)
      /\ r.snap["RequestsWaiting"] = Sum(payload, "NumRequestsWaiting", sel)
      /\ r.snap["KVCacheUsagePct"] = Times(kvUsage(payload, sel), 100, 1000)
      /\ r.snap["TTFTP95Ms"] = Times(Quantile(payload, "TimeToFirstToken", 95, sel), 1000, 1)
      /\ r.snap["P95LatencyMs"] = Times(Quantile(payload, "E2ELatency", 95, sel), 1000, 1)
      /\ r.missing = missed
  BY VllmReads
<1>2. /\ r.counters["GenerationTokensTotal"] = Sum(payload, "GenerationTokensTotal", sel)
      /\ r.counters["PromptTokensTotal"] = Sum(payload, "PromptTokensTotal", sel)
      /\ r.counters["finished"] = Sum(payload, "RequestSuccessTotal", sel)
  BY VllmCounts
<1> HIDE DEF r, sel
<1>3. \A name \in vllmRequired : name \in missed <=>
         ~(IF name \in {"TimeToFirstToken", "E2ELatency"}
           THEN Given(Quantile(payload, name, 50, sel))
           ELSE IF name = "KVCacheUsage" THEN Given(kvUsage(payload, sel))
           ELSE Given(Sum(payload, name, sel)))
  BY DEF vllmSeen
<1> HIDE DEF missed
<1>4. /\ \A name \in {"TimeToFirstToken", "E2ELatency"} :
            name \in missed <=> ~Given(Quantile(payload, name, 50, sel))
      /\ "KVCacheUsage" \in missed <=> ~Given(kvUsage(payload, sel))
      /\ \A name \in {"NumRequestsRunning", "NumRequestsWaiting", "GenerationTokensTotal",
                      "PromptTokensTotal", "RequestSuccessTotal"} :
            name \in missed <=> ~Given(Sum(payload, name, sel))
  BY <1>3 DEF vllmRequired
<1>5. \A name \in {"TimeToFirstToken", "E2ELatency"} :
         Given(Quantile(payload, name, 50, sel))
            <=> Given(Times(Quantile(payload, name, 95, sel), 1000, 1))
  <2> TAKE name \in {"TimeToFirstToken", "E2ELatency"}
  <2>1. 50 \in 1 .. 100 /\ 95 \in 1 .. 100
    OBVIOUS
  <2>2. Given(Quantile(payload, name, 50, sel)) <=> ~Unreadable(buckets(payload, name, sel))
    BY <2>1, QuantilesGiven
  <2>3. Given(Times(Quantile(payload, name, 95, sel), 1000, 1))
           <=> ~Unreadable(buckets(payload, name, sel))
    BY <2>1, QuantilesGiven
  <2> QED
    BY <2>2, <2>3
<1>6. Given(kvUsage(payload, sel)) <=> Given(Times(kvUsage(payload, sel), 100, 1000))
  <2>1. kvUsage(payload, sel) = Absent \/ Proper(kvUsage(payload, sel))
    BY LargestMeasured DEF kvUsage
  <2> HIDE DEF kvUsage
  <2> QED
    BY <2>1, ScaledGiven
<1>7. /\ "NumRequestsRunning" \in r.missing <=> ~Given(r.snap["RequestsRunning"])
      /\ "NumRequestsWaiting" \in r.missing <=> ~Given(r.snap["RequestsWaiting"])
      /\ "KVCacheUsage" \in r.missing <=> ~Given(r.snap["KVCacheUsagePct"])
      /\ "TimeToFirstToken" \in r.missing <=> ~Given(r.snap["TTFTP95Ms"])
      /\ "E2ELatency" \in r.missing <=> ~Given(r.snap["P95LatencyMs"])
  BY <1>1, <1>4, <1>5, <1>6
<1>8. /\ "GenerationTokensTotal" \in r.missing <=> ~Given(r.counters["GenerationTokensTotal"])
      /\ "PromptTokensTotal" \in r.missing <=> ~Given(r.counters["PromptTokensTotal"])
      /\ "RequestSuccessTotal" \in r.missing <=> ~Given(r.counters["finished"])
  BY <1>1, <1>2, <1>4
<1> QED
  BY <1>7, <1>8 DEF r

LEMMA TritonMissing ==
    ASSUME NEW payload, Payload(payload), NEW model
    PROVE  LET r == tritonParse(payload, model)
           IN  /\ "PendingCount" \in r.missing <=> ~Given(r.snap["RequestsWaiting"])
               /\ "GPUUtilization" \in r.missing <=> ~Given(r.snap["GPUUtilizationPct"])
               /\ "RequestSuccess" \in r.missing <=> ~Given(r.counters["finished"])
               /\ "RequestFailure" \in r.missing <=> ~Given(r.counters["failed"])
<1> DEFINE r == tritonParse(payload, model)
           sel == modelSelector("model", model)
           missed == tritonRequired \ tritonSeen(payload, sel)
<1>1. /\ r.snap["RequestsWaiting"] = Sum(payload, "PendingCount", sel)
      /\ r.snap["GPUUtilizationPct"] = gpuUtil(payload)
      /\ r.counters["finished"] = Sum(payload, "RequestSuccess", sel)
      /\ r.counters["failed"] = Sum(payload, "RequestFailure", sel)
      /\ r.missing = missed
  BY TritonReads
<1> HIDE DEF r, sel
<1>2. \A name \in tritonRequired : name \in missed <=>
         ~(IF name \in deviceMetrics THEN Given(gpuMax(payload, name))
           ELSE Given(Sum(payload, name, sel)))
  BY DEF tritonSeen
<1> HIDE DEF missed
<1>3. /\ "GPUUtilization" \in missed <=> ~Given(gpuMax(payload, "GPUUtilization"))
      /\ \A name \in {"PendingCount", "RequestSuccess", "RequestFailure"} :
            name \in missed <=> ~Given(Sum(payload, name, sel))
  BY <1>2 DEF tritonRequired, deviceMetrics
<1>4. Given(gpuMax(payload, "GPUUtilization")) <=> Given(gpuUtil(payload))
  <2> DEFINE v == gpuMax(payload, "GPUUtilization")
  <2>1. v = Absent \/ Proper(v)
    BY LargestMeasured DEF gpuMax
  <2>2. gpuUtil(payload) = Times(v, 100, 1000)
    BY DEF gpuUtil
  <2> HIDE DEF v
  <2>3. Given(gpuUtil(payload)) <=> Given(v)
    BY <2>1, <2>2, ScaledGiven
  <2> QED
    BY <2>3 DEF v
<1>5. /\ "PendingCount" \in r.missing <=> ~Given(r.snap["RequestsWaiting"])
      /\ "GPUUtilization" \in r.missing <=> ~Given(r.snap["GPUUtilizationPct"])
      /\ "RequestSuccess" \in r.missing <=> ~Given(r.counters["finished"])
      /\ "RequestFailure" \in r.missing <=> ~Given(r.counters["failed"])
  BY <1>1, <1>3, <1>4
<1> QED
  BY <1>5 DEF r

\* A metric with a field or counter of its own is reported missing exactly when that is
\* unmeasured, whatever the endpoints answer (missingFrom and `seen' in both adapters).
THEOREM MissingReportTrue == Spec => []MissingIsTrue
<1>1. ReadInv => MissingIsTrue
  <2> SUFFICES ASSUME ReadInv, exposed # Failed
               PROVE  /\ \A name \in DOMAIN Feeds : name \in missing <=> ~Given(snap[Feeds[name]])
                      /\ \A name \in DOMAIN CountedAs :
                            name \in missing <=> ~Given(counters[CountedAs[name]])
    BY DEF MissingIsTrue
  <2>1. Payload(exposed.lines)
    BY BodiesArePayloads
  <2> DEFINE r == Parse(here, exposed)
  <2>2. /\ \A f \in Fields \ Overlaid : snap[f] = r.snap[f]
        /\ ~DevicesSeen(devices) => \A f \in Fields \ Joined : snap[f] = r.snap[f]
        /\ counters = r.counters /\ missing = r.missing
    BY StoredIs
  <2>3. CASE here.runtime = "vllm"
    <3>1. r = vllmParse(exposed.lines, here.model)
      BY <2>3 DEF Parse
    <3> HIDE DEF r
    <3>2. /\ "NumRequestsRunning" \in r.missing <=> ~Given(r.snap["RequestsRunning"])
          /\ "NumRequestsWaiting" \in r.missing <=> ~Given(r.snap["RequestsWaiting"])
          /\ "KVCacheUsage" \in r.missing <=> ~Given(r.snap["KVCacheUsagePct"])
          /\ "TimeToFirstToken" \in r.missing <=> ~Given(r.snap["TTFTP95Ms"])
          /\ "E2ELatency" \in r.missing <=> ~Given(r.snap["P95LatencyMs"])
      BY <2>1, <3>1, VllmMissing
    <3>3. /\ "GenerationTokensTotal" \in r.missing <=> ~Given(r.counters["GenerationTokensTotal"])
          /\ "PromptTokensTotal" \in r.missing <=> ~Given(r.counters["PromptTokensTotal"])
          /\ "RequestSuccessTotal" \in r.missing <=> ~Given(r.counters["finished"])
      BY <2>1, <3>1, VllmMissing
    <3>4. /\ snap["RequestsRunning"] = r.snap["RequestsRunning"]
          /\ snap["RequestsWaiting"] = r.snap["RequestsWaiting"]
          /\ snap["KVCacheUsagePct"] = r.snap["KVCacheUsagePct"]
          /\ snap["TTFTP95Ms"] = r.snap["TTFTP95Ms"]
          /\ snap["P95LatencyMs"] = r.snap["P95LatencyMs"]
      BY <2>2 DEF Fields, Overlaid
    <3>5. \A name \in DOMAIN Feeds : name \in missing <=> ~Given(snap[Feeds[name]])
      BY <2>2, <2>3, <3>2, <3>4 DEF Feeds
    <3>6. \A name \in DOMAIN CountedAs : name \in missing <=> ~Given(counters[CountedAs[name]])
      BY <2>2, <2>3, <3>3 DEF CountedAs
    <3> QED
      BY <3>5, <3>6
  <2>4. CASE here.runtime # "vllm"
    <3>1. r = tritonParse(exposed.lines, here.model)
      BY <2>4 DEF Parse
    <3> HIDE DEF r
    <3>2. /\ "PendingCount" \in r.missing <=> ~Given(r.snap["RequestsWaiting"])
          /\ "GPUUtilization" \in r.missing <=> ~Given(r.snap["GPUUtilizationPct"])
          /\ "RequestSuccess" \in r.missing <=> ~Given(r.counters["finished"])
          /\ "RequestFailure" \in r.missing <=> ~Given(r.counters["failed"])
      BY <2>1, <3>1, TritonMissing
    <3>3. /\ snap["RequestsWaiting"] = r.snap["RequestsWaiting"]
          /\ ~DevicesSeen(devices) => snap["GPUUtilizationPct"] = r.snap["GPUUtilizationPct"]
      BY <2>2 DEF Fields, Overlaid, Joined
    <3>4. \A name \in DOMAIN Feeds : name \in missing <=> ~Given(snap[Feeds[name]])
      BY <2>2, <2>4, <3>2, <3>3 DEF Feeds
    <3>5. \A name \in DOMAIN CountedAs : name \in missing <=> ~Given(counters[CountedAs[name]])
      BY <2>2, <2>4, <3>2 DEF CountedAs
    <3> QED
      BY <3>4, <3>5
  <2> QED
    BY <2>3, <2>4
<1> QED
  BY <1>1, ReadInvHolds, PTL

-----------------------------------------------------------------------------
(* Percentiles shown *)

LEMMA ScaledInside ==
    ASSUME NEW v, Proper(v), NEW le \in Nat, AtMost(v, Point(le))
    PROVE  /\ Proper(Times(v, 1000, 1)) /\ AtMost(Point(0), Times(v, 1000, 1))
           /\ AtMost(Times(v, 1000, 1), Point(1000 * le))
<1> DEFINE w == Times(v, 1000, 1)
           u == Times(Point(le), 1000, 1)
<1>1. Proper(w) /\ w.num \in Nat /\ w.den \in Nat \ {0}
  BY TimesProper DEF Proper
<1>2. u.num = le * 1000 /\ u.den = 1 * 1
  <2> DEFINE x == Point(le)
  <2>1. Proper(x) /\ x.num = le /\ x.den = 1
    BY PointIsProper
  <2> HIDE DEF x
  <2>2. Given(x)
    BY <2>1, ProperIsGiven
  <2>3. Times(x, 1000, 1) = [num |-> x.num * 1000, den |-> x.den * 1]
    BY <2>2 DEF Times, Fraction
  <2> QED
    BY <2>1, <2>3 DEF x
<1>3. AtMost(w, u)
  BY PointIsProper, TimesOrdered
<1>4. /\ Point(1000 * le).num = 1000 * le /\ Point(1000 * le).den = 1
      /\ Point(0).num = 0 /\ Point(0).den = 1
  BY PointIsProper
<1> HIDE DEF w, u
<1>5. AtMost(Point(0), w)
  <2>1. 0 * w.den = 0 /\ 0 <= w.num * 1
    BY <1>1
  <2> QED
    BY <1>4, <2>1 DEF AtMost
<1>6. AtMost(w, Point(1000 * le))
  <2>1. u.num = 1000 * le /\ u.den = 1
    BY <1>2
  <2> QED
    BY <1>3, <1>4, <2>1 DEF AtMost
<1> QED
  BY <1>1, <1>5, <1>6 DEF w

\* For any payload of vLLM, torn or not, percentiles are ordered and lie within the
\* finite buckets (Quantile, quantileMs).
THEOREM PercentilesHold == Spec => []PercentilesOrdered
<1>1. ReadInv => PercentilesOrdered
  <2> DEFINE c == buckets(exposed.lines, "E2ELatency", Selector)
             q(p) == Quantile(exposed.lines, "E2ELatency", p, Selector)
  <2> SUFFICES ASSUME ReadInv, exposed # Failed, here.runtime = "vllm"
      PROVE  /\ \A field \in DOMAIN Percentile : Given(snap[field]) =>
                   /\ AtMost(Point(0), snap[field])
                   /\ \E le \in DOMAIN c \ {Inf} : AtMost(snap[field], Point(1000 * le))
             /\ \A f, g \in DOMAIN Percentile :
                   Percentile[f] <= Percentile[g] /\ Given(snap[f]) =>
                      Given(snap[g]) /\ AtMost(snap[f], snap[g])
    BY DEF PercentilesOrdered, Edges
  <2>1. Payload(exposed.lines)
    BY BodiesArePayloads
  <2>2. \A f \in DOMAIN Percentile :
           Percentile[f] \in 1 .. 100 /\ snap[f] = Times(q(Percentile[f]), 1000, 1)
    <3> DEFINE r == Parse(here, exposed)
    <3>1. r = vllmParse(exposed.lines, here.model)
      BY DEF Parse
    <3>2. \A f \in Fields \ Overlaid : snap[f] = r.snap[f]
      BY StoredIs
    <3> HIDE DEF r
    <3>3. /\ r.snap["P50LatencyMs"] = Times(q(50), 1000, 1)
          /\ r.snap["P95LatencyMs"] = Times(q(95), 1000, 1)
          /\ r.snap["P99LatencyMs"] = Times(q(99), 1000, 1)
      BY <3>1, VllmReads DEF Selector
    <3> HIDE DEF q
    <3>4. {"P50LatencyMs", "P95LatencyMs", "P99LatencyMs"} \subseteq Fields \ Overlaid
      BY DEF Fields, Overlaid
    <3> QED
      BY <3>2, <3>3, <3>4 DEF Percentile
  <2>3. \A p \in 1 .. 100 :
           /\ Given(Times(q(p), 1000, 1)) <=> ~Unreadable(c)
           /\ ~Unreadable(c) => /\ Proper(q(p))
                                /\ \E le \in Finite(c) : le \in Nat /\ AtMost(q(p), Point(le))
    <3> TAKE p \in 1 .. 100
    <3>1. Given(Times(q(p), 1000, 1)) <=> ~Unreadable(c)
      BY <2>1, QuantilesGiven
    <3>2. ~Unreadable(c) => /\ Proper(q(p))
                            /\ \E le \in Finite(c) : le \in Nat /\ AtMost(q(p), Point(le))
      BY <2>1, QuantileInside
    <3> QED
      BY <3>1, <3>2
  <2>4. \A p, r \in 1 .. 100 : p <= r /\ ~Unreadable(c) => AtMost(q(p), q(r))
    BY <2>1, QuantileOrdered
  <2> HIDE DEF c, q
  <2>5. ASSUME NEW field \in DOMAIN Percentile, Given(snap[field])
        PROVE  /\ AtMost(Point(0), snap[field])
               /\ \E le \in DOMAIN c \ {Inf} : AtMost(snap[field], Point(1000 * le))
    <3> DEFINE p == Percentile[field]
    <3>1. p \in 1 .. 100 /\ snap[field] = Times(q(p), 1000, 1)
      BY <2>2
    <3> HIDE DEF p
    <3>2. ~Unreadable(c)
      BY <2>3, <2>5, <3>1
    <3>3. Proper(q(p)) /\ \E le \in Finite(c) : le \in Nat /\ AtMost(q(p), Point(le))
      BY <2>3, <3>1, <3>2
    <3>4. PICK le \in Finite(c) : le \in Nat /\ AtMost(q(p), Point(le))
      BY <3>3
    <3> QED
      BY <3>1, <3>3, <3>4, ScaledInside DEF Finite
  <2>6. ASSUME NEW f \in DOMAIN Percentile, NEW g \in DOMAIN Percentile,
               Percentile[f] <= Percentile[g], Given(snap[f])
        PROVE  Given(snap[g]) /\ AtMost(snap[f], snap[g])
    <3> DEFINE p == Percentile[f]
               r == Percentile[g]
    <3>1. /\ p \in 1 .. 100 /\ snap[f] = Times(q(p), 1000, 1)
          /\ r \in 1 .. 100 /\ snap[g] = Times(q(r), 1000, 1) /\ p <= r
      BY <2>2, <2>6
    <3> HIDE DEF p, r
    <3>2. ~Unreadable(c)
      BY <2>3, <2>6, <3>1
    <3>3. Proper(q(p)) /\ Proper(q(r)) /\ Given(Times(q(r), 1000, 1))
      BY <2>3, <3>1, <3>2
    <3>4. AtMost(q(p), q(r))
      BY <2>4, <3>1, <3>2
    <3> QED
      BY <3>1, <3>3, <3>4, TimesOrdered
  <2> QED
    BY <2>5, <2>6
<1> QED
  BY <1>1, ReadInvHolds, PTL

-----------------------------------------------------------------------------
(* Other models' series *)

\* The lines with the numbers taken from those of another model are a payload again,
\* the same to whoever selects the configured model.
LEMMA OwnLinesAgree ==
    ASSUME Payload(exposed.lines), NEW want,
           modelLabel \in DOMAIN want, want[modelLabel] = here.model
    PROVE  Payload(OwnLines) /\ Agree(exposed.lines, OwnLines, want)
<1> DEFINE p == exposed.lines
           q == OwnLines
           n == Len(p)
           S == {q[i] : i \in 1 .. n}
<1>1. /\ n \in Nat /\ DOMAIN p = 1 .. n
      /\ \A i \in DOMAIN p : /\ DOMAIN p[i] = {"name", "labels", "value"}
                             /\ p[i].value \in Nat \cup {NaN}
                             /\ "le" \in DOMAIN p[i].labels => p[i].labels["le"] \in 0 .. Inf
  BY DEF Payload
<1> HIDE DEF n
<1>2. q = [i \in 1 .. n |-> IF FromOtherModel(p[i]) THEN [p[i] EXCEPT !.value = NaN] ELSE p[i]]
  BY <1>1 DEF OwnLines
<1> HIDE DEF p, q
<1>3. Len(q) = n /\ DOMAIN q = 1 .. n
  <2>1. q \in [1 .. n -> S]
    <3>1. DOMAIN q = 1 .. n /\ \A i \in 1 .. n : q[i] \in S
      BY <1>2
    <3> HIDE DEF S
    <3>2. q = [i \in 1 .. n |-> q[i]]
      BY <1>2
    <3> QED
      BY <3>1, <3>2
  <2> HIDE DEF S
  <2>2. q \in Seq(S)
    BY <1>1, <2>1
  <2> QED
    BY <1>1, <1>2, <2>2
<1>4. \A i \in 1 .. n : /\ DOMAIN q[i] = {"name", "labels", "value"}
                        /\ q[i].name = p[i].name /\ q[i].labels = p[i].labels
                        /\ q[i].value = IF FromOtherModel(p[i]) THEN NaN ELSE p[i].value
  <2> TAKE i \in 1 .. n
  <2> DEFINE r == p[i]
  <2>1. DOMAIN r = {"name", "labels", "value"}
    BY <1>1
  <2>2. q[i] = IF FromOtherModel(r) THEN [r EXCEPT !.value = NaN] ELSE r
    BY <1>2
  <2> HIDE DEF r
  <2>3. CASE FromOtherModel(r)
    <3>1. q[i] = [r EXCEPT !.value = NaN]
      BY <2>2, <2>3
    <3>2. /\ DOMAIN q[i] = {"name", "labels", "value"} /\ q[i].name = r.name
          /\ q[i].labels = r.labels /\ q[i].value = NaN
      BY <2>1, <3>1
    <3> QED
      BY <2>3, <3>2 DEF r
  <2>4. CASE ~FromOtherModel(r)
    BY <2>1, <2>2, <2>4 DEF r
  <2> QED
    BY <2>3, <2>4
<1>5. Payload(q)
  <2>1. \A i \in DOMAIN q : q[i].value \in Nat \cup {NaN}
    BY <1>1, <1>3, <1>4
  <2>2. \A i \in DOMAIN q : "le" \in DOMAIN q[i].labels => q[i].labels["le"] \in 0 .. Inf
    BY <1>1, <1>3, <1>4
  <2> QED
    BY <1>1, <1>3, <1>4, <2>1, <2>2 DEF Payload
<1>6. \A i \in 1 .. n : Matches(p[i].labels, want) => p[i].value = q[i].value
  BY <1>4 DEF Matches, FromOtherModel
<1>7. Agree(p, q, want)
  BY <1>1, <1>3, <1>4, <1>6 DEF Agree, n
<1> QED
  BY <1>5, <1>7 DEF p, q

\* Readings that are the same but for what devices and Kubernetes are asked for.
Alike(r, s) ==
    /\ \A f \in Fields \ Overlaid : r.snap[f] = s.snap[f]
    /\ r.counters = s.counters
    /\ r.missing \ deviceMetrics = s.missing \ deviceMetrics

\* Two payloads that agree, whichever of one model's series are selected, are read alike.
AgreeOn(p, q, label, model) ==
    \A want : label \in DOMAIN want /\ want[label] = model => Agree(p, q, want)

LEMMA VllmAlike ==
    ASSUME NEW a, NEW b, Payload(a), Payload(b), NEW model,
           AgreeOn(a, b, "model_name", model),
           model # ""
    PROVE  Alike(vllmParse(a, model), vllmParse(b, model))
<1> DEFINE sel == modelSelector("model_name", model)
           sum(x, name) == Sum(x, name, sel)
           ms(x, family, c) == Times(Quantile(x, family, c, sel), 1000, 1)
           waitingFor(x, reason) ==
               Sum(x, "NumRequestsWaitingByReason", cloneWith(sel, "reason", reason))
           kv(x) == Times(kvUsage(x, sel), 100, 1000)
           aborted(x) == Sum(x, "RequestSuccessTotal", cloneWith(sel, "finished_reason", "abort"))
           given(x) ==
              [RequestsRunning |-> sum(x, "NumRequestsRunning"),
               RequestsWaiting |-> sum(x, "NumRequestsWaiting"),
               WaitingForCapacity |-> waitingFor(x, "capacity"),
               WaitingDeferred |-> waitingFor(x, "deferred"),
               KVCacheUsagePct |-> kv(x),
               TTFTP50Ms |-> ms(x, "TimeToFirstToken", 50),
               TTFTP95Ms |-> ms(x, "TimeToFirstToken", 95),
               TTFTP99Ms |-> ms(x, "TimeToFirstToken", 99),
               P50LatencyMs |-> ms(x, "E2ELatency", 50),
               P95LatencyMs |-> ms(x, "E2ELatency", 95),
               P99LatencyMs |-> ms(x, "E2ELatency", 99),
               QueueTimeP95Ms |-> ms(x, "QueueTime", 95)]
           counts(x) ==
              [GenerationTokensTotal |-> sum(x, "GenerationTokensTotal"),
               PromptTokensTotal |-> sum(x, "PromptTokensTotal"),
               PreemptionsTotal |-> sum(x, "PreemptionsTotal"),
               PrefixCacheQueriesTotal |-> sum(x, "PrefixCacheQueriesTotal"),
               PrefixCacheHitsTotal |-> sum(x, "PrefixCacheHitsTotal"),
               finished |-> sum(x, "RequestSuccessTotal"),
               aborted |-> aborted(x)]
           seen(x) == vllmSeen(x, sel)
           r == vllmParse(a, model)
           s == vllmParse(b, model)
<1>1. \A v : /\ Agree(a, b, sel) /\ Agree(a, b, cloneWith(sel, "reason", v))
             /\ Agree(a, b, cloneWith(sel, "finished_reason", v))
  <2> TAKE v
  <2>1. sel = [l \in {"model_name"} |-> model]
    BY DEF modelSelector
  <2> HIDE DEF sel
  <2>2. "model_name" \in DOMAIN sel /\ sel["model_name"] = model
    BY <2>1
  <2> DEFINE c == cloneWith(sel, "reason", v)
             d == cloneWith(sel, "finished_reason", v)
  <2>3. /\ "model_name" \in DOMAIN c /\ c["model_name"] = model
        /\ "model_name" \in DOMAIN d /\ d["model_name"] = model
    BY <2>2 DEF cloneWith
  <2> HIDE DEF c, d
  <2>4. Agree(a, b, sel) /\ Agree(a, b, c) /\ Agree(a, b, d)
    BY <2>2, <2>3 DEF AgreeOn
  <2> QED
    BY <2>4 DEF c, d
<1>2. /\ r.snap = Measured(given(a)) /\ s.snap = Measured(given(b))
      /\ r.counters = Counted(counts(a)) /\ s.counters = Counted(counts(b))
      /\ r.missing = vllmRequired \ seen(a) /\ s.missing = vllmRequired \ seen(b)
  BY DEF vllmParse
<1> HIDE DEF r, s, sel
<1>3. \A name : Sum(a, name, sel) = Sum(b, name, sel)
  BY <1>1, SameSum
<1>4. \A name, c : Quantile(a, name, c, sel) = Quantile(b, name, c, sel)
  BY <1>1, SameQuantile
<1>5. kvUsage(a, sel) = kvUsage(b, sel)
  <2> DEFINE v1(x) == Largest(x, "KVCacheUsage", sel)
             v0(x) == Largest(x, "GPUCacheUsageLegacy", sel)
             either(m, n) == IF Given(m) THEN m ELSE n
  <2>1. Agree(a, b, sel)
    BY <1>1
  <2>2. v1(a) = v1(b)
    BY <2>1, SameLargest
  <2>3. v0(a) = v0(b)
    BY <2>1, SameLargest
  <2>4. kvUsage(a, sel) = either(v1(a), v0(a))
    BY DEF kvUsage
  <2>5. kvUsage(b, sel) = either(v1(b), v0(b))
    BY DEF kvUsage
  <2> HIDE DEF v1, v0, either
  <2> QED
    BY <2>2, <2>3, <2>4, <2>5
<1>6. \A reason : waitingFor(a, reason) = waitingFor(b, reason)
  BY <1>1, SameSum
<1>7. aborted(a) = aborted(b)
  BY <1>1, SameSum
<1>8. seen(a) = seen(b)
  <2> DEFINE B(x, name) ==
        IF name \in {"TimeToFirstToken", "E2ELatency"}
        THEN Given(Quantile(x, name, 50, sel))
        ELSE IF name = "KVCacheUsage" THEN Given(kvUsage(x, sel))
        ELSE Given(Sum(x, name, sel))
  <2>1. /\ seen(a) = {name \in vllmRequired : B(a, name)}
        /\ seen(b) = {name \in vllmRequired : B(b, name)}
    BY DEF vllmSeen
  <2>2. ASSUME NEW name PROVE B(a, name) <=> B(b, name)
    <3>1. /\ Sum(a, name, sel) = Sum(b, name, sel) /\ kvUsage(a, sel) = kvUsage(b, sel)
          /\ Quantile(a, name, 50, sel) = Quantile(b, name, 50, sel)
      BY <1>3, <1>4, <1>5
    <3> QED
      BY <3>1, Zenon
  <2> HIDE DEF B, seen
  <2> QED
    BY <2>1, <2>2
<1>9. /\ \A name : sum(a, name) = sum(b, name)
      /\ \A name, c : ms(a, name, c) = ms(b, name, c)
      /\ kv(a) = kv(b)
  <2>1. \A name : sum(a, name) = sum(b, name)
    BY <1>3
  <2>2. ASSUME NEW name, NEW c PROVE ms(a, name, c) = ms(b, name, c)
    <3>1. Quantile(a, name, c, sel) = Quantile(b, name, c, sel)
      BY <1>4
    <3> QED
      BY <3>1, Zenon
  <2>3. kv(a) = kv(b)
    BY <1>5, Zenon
  <2> HIDE DEF sum, ms, kv
  <2> QED
    BY <2>1, <2>2, <2>3
<1> HIDE DEF sum, ms, waitingFor, kv, aborted, seen
<1>10. given(a) = given(b)
  BY <1>6, <1>9
<1>11. counts(a) = counts(b)
  BY <1>7, <1>9
<1> HIDE DEF given, counts
<1>12. r.snap = s.snap /\ r.counters = s.counters /\ r.missing = s.missing
  BY <1>2, <1>8, <1>10, <1>11
<1>13. Alike(r, s)
  BY <1>12 DEF Alike
<1> QED
  BY <1>13 DEF r, s

LEMMA TritonAlike ==
    ASSUME NEW a, NEW b, Payload(a), Payload(b), NEW model,
           AgreeOn(a, b, "model", model),
           model # ""
    PROVE  Alike(tritonParse(a, model), tritonParse(b, model))
<1> DEFINE sel == modelSelector("model", model)
           ms(x, family, c) == Times(SummaryQuantile(x, family, c, sel), 1, 1000)
           waiting(x) == Sum(x, "PendingCount", sel)
           finished(x) == Sum(x, "RequestSuccess", sel)
           failed(x) == Sum(x, "RequestFailure", sel)
           counts(x) == [finished |-> finished(x), failed |-> failed(x)]
           seen(x) == tritonSeen(x, sel)
           r == tritonParse(a, model)
           s == tritonParse(b, model)
<1>1. Agree(a, b, sel)
  <2>1. sel = [l \in {"model"} |-> model]
    BY DEF modelSelector
  <2> HIDE DEF sel
  <2>2. "model" \in DOMAIN sel /\ sel["model"] = model
    BY <2>1
  <2> QED
    BY <2>2 DEF AgreeOn
<1>2. /\ r.counters = Counted(counts(a)) /\ s.counters = Counted(counts(b))
      /\ r.missing = tritonRequired \ seen(a) /\ s.missing = tritonRequired \ seen(b)
  BY DEF tritonParse
<1>3. r.snap["RequestsWaiting"] = waiting(a) /\ TritonLatencies(r, a, sel)
  BY TritonReads
<1>4. s.snap["RequestsWaiting"] = waiting(b) /\ TritonLatencies(s, b, sel)
  BY TritonReads
<1> HIDE DEF r, s, sel
<1>5. \A name : Sum(a, name, sel) = Sum(b, name, sel)
  BY <1>1, SameSum
<1>6. \A name, c : ms(a, name, c) = ms(b, name, c)
  <2>1. \A name, c : SummaryQuantile(a, name, c, sel) = SummaryQuantile(b, name, c, sel)
    BY <1>1, SameSummary
  <2>2. ASSUME NEW name, NEW c PROVE ms(a, name, c) = ms(b, name, c)
    <3>1. SummaryQuantile(a, name, c, sel) = SummaryQuantile(b, name, c, sel)
      BY <2>1
    <3> QED
      BY <3>1, Zenon
  <2> HIDE DEF ms
  <2> QED
    BY <2>2
<1>7. waiting(a) = waiting(b) /\ finished(a) = finished(b) /\ failed(a) = failed(b)
  BY <1>5
<1>8. seen(a) \cup deviceMetrics = seen(b) \cup deviceMetrics
  <2> DEFINE B(x, name) == IF name \in deviceMetrics THEN Given(gpuMax(x, name))
                           ELSE Given(Sum(x, name, sel))
  <2>1. /\ seen(a) = {name \in tritonRequired : B(a, name)}
        /\ seen(b) = {name \in tritonRequired : B(b, name)}
    BY DEF tritonSeen
  <2>2. ASSUME NEW name, name \notin deviceMetrics PROVE B(a, name) <=> B(b, name)
    <3>1. Sum(a, name, sel) = Sum(b, name, sel)
      BY <1>5
    <3> QED
      BY <2>2, <3>1, Zenon
  <2> HIDE DEF B, seen
  <2> QED
    BY <2>1, <2>2
<1>9. /\ r.snap["P50LatencyMs"] = ms(a, "RequestSummaryUs", 50)
      /\ r.snap["P95LatencyMs"] = ms(a, "RequestSummaryUs", 95)
      /\ r.snap["P99LatencyMs"] = ms(a, "RequestSummaryUs", 99)
      /\ r.snap["QueueTimeP95Ms"] = ms(a, "QueueSummaryUs", 95)
  <2>1. TritonLatencies(r, a, sel)
    BY <1>3
  <2>2. /\ r.snap["P50LatencyMs"]
             = Times(SummaryQuantile(a, "RequestSummaryUs", 50, sel), 1, 1000)
        /\ r.snap["P95LatencyMs"]
             = Times(SummaryQuantile(a, "RequestSummaryUs", 95, sel), 1, 1000)
        /\ r.snap["P99LatencyMs"]
             = Times(SummaryQuantile(a, "RequestSummaryUs", 99, sel), 1, 1000)
        /\ r.snap["QueueTimeP95Ms"]
             = Times(SummaryQuantile(a, "QueueSummaryUs", 95, sel), 1, 1000)
    BY <2>1, Zenon DEF TritonLatencies
  <2> QED
    BY <2>2, Zenon
<1>10. /\ s.snap["P50LatencyMs"] = ms(b, "RequestSummaryUs", 50)
       /\ s.snap["P95LatencyMs"] = ms(b, "RequestSummaryUs", 95)
       /\ s.snap["P99LatencyMs"] = ms(b, "RequestSummaryUs", 99)
       /\ s.snap["QueueTimeP95Ms"] = ms(b, "QueueSummaryUs", 95)
  BY <1>4 DEF TritonLatencies
<1> HIDE DEF ms, waiting, finished, failed, seen
<1>11. \A f \in Fields \ Overlaid : r.snap[f] = s.snap[f]
  <2>1. ASSUME NEW f \in TritonOmits PROVE r.snap[f] = s.snap[f]
    BY <2>1, TritonLeavesOut DEF r, s
  <2>2. \A f \in {"RequestsWaiting", "P50LatencyMs", "P95LatencyMs", "P99LatencyMs",
                  "QueueTimeP95Ms"} : r.snap[f] = s.snap[f]
    <3>1. r.snap["P50LatencyMs"] = s.snap["P50LatencyMs"]
      <4>1. ms(a, "RequestSummaryUs", 50) = ms(b, "RequestSummaryUs", 50)
        BY <1>6
      <4> QED
        BY <1>9, <1>10, <4>1
    <3>2. r.snap["P95LatencyMs"] = s.snap["P95LatencyMs"]
      <4>1. ms(a, "RequestSummaryUs", 95) = ms(b, "RequestSummaryUs", 95)
        BY <1>6
      <4> QED
        BY <1>9, <1>10, <4>1
    <3>3. r.snap["P99LatencyMs"] = s.snap["P99LatencyMs"]
      <4>1. ms(a, "RequestSummaryUs", 99) = ms(b, "RequestSummaryUs", 99)
        BY <1>6
      <4> QED
        BY <1>9, <1>10, <4>1
    <3>4. r.snap["QueueTimeP95Ms"] = s.snap["QueueTimeP95Ms"]
      <4>1. ms(a, "QueueSummaryUs", 95) = ms(b, "QueueSummaryUs", 95)
        BY <1>6
      <4> QED
        BY <1>9, <1>10, <4>1
    <3>5. r.snap["RequestsWaiting"] = s.snap["RequestsWaiting"]
      BY <1>3, <1>4, <1>7
    <3> QED
      BY <3>1, <3>2, <3>3, <3>4, <3>5
  <2>3. \A f \in Fields \ Overlaid : f \in TritonOmits \/
           f \in {"RequestsWaiting", "P50LatencyMs", "P95LatencyMs", "P99LatencyMs", "QueueTimeP95Ms"}
    BY DEF Fields, Overlaid, TritonOmits
  <2> QED
    BY <2>1, <2>2, <2>3
<1>12. counts(a) = counts(b)
  BY <1>7
<1> HIDE DEF counts
<1>13. /\ \A f \in Fields \ Overlaid : r.snap[f] = s.snap[f]
       /\ r.counters = s.counters
       /\ r.missing \ deviceMetrics = s.missing \ deviceMetrics
  BY <1>2, <1>8, <1>11, <1>12
<1>14. Alike(r, s)
  BY <1>13 DEF Alike
<1> QED
  BY <1>14 DEF r, s

\* Those counted as aborted are among those counted as finished.
LEMMA AbortedAreFinished ==
    ASSUME NEW payload, Payload(payload), NEW model
    PROVE  LET sel      == modelSelector("model_name", model)
               finished == Sum(payload, "RequestSuccessTotal", sel)
               aborted  == Sum(payload, "RequestSuccessTotal",
                               cloneWith(sel, "finished_reason", "abort"))
           IN  Given(aborted) => Given(finished) /\ AtMost(aborted, finished)
<1> DEFINE sel      == modelSelector("model_name", model)
           some     == cloneWith(sel, "finished_reason", "abort")
           finished == Sum(payload, "RequestSuccessTotal", sel)
           aborted  == Sum(payload, "RequestSuccessTotal", some)
           few      == Numbers(payload, "RequestSuccessTotal", some)
           many     == Numbers(payload, "RequestSuccessTotal", sel)
<1>1. /\ few = {} => aborted = Absent
      /\ few # {} => Total(payload, few) \in Nat /\ aborted = Point(Total(payload, few))
  BY SumIs
<1>2. many # {} => /\ Total(payload, many) \in Nat /\ Given(finished)
                   /\ finished = Point(Total(payload, many))
  BY SumIs
<1>3. few \subseteq many
  <2>1. DOMAIN sel \subseteq {"model_name"}
    BY DEF modelSelector, Everything
  <2> HIDE DEF sel
  <2>2. \A l \in DOMAIN sel : l \in DOMAIN some /\ some[l] = sel[l]
    BY <2>1 DEF cloneWith
  <2> HIDE DEF some
  <2>3. \A labels : Matches(labels, some) => Matches(labels, sel)
    BY <2>2 DEF Matches
  <2> QED
    BY <2>3 DEF Numbers, Select
<1>4. \A i \in many : i \in DOMAIN payload /\ payload[i].value # NaN
  BY NumbersAre
<1> HIDE DEF sel, some, finished, aborted, few, many
<1>5. Total(payload, few) <= Total(payload, many)
  BY <1>3, <1>4, TotalMonotone
<1>6. ASSUME Given(aborted) PROVE Given(finished) /\ AtMost(aborted, finished)
  <2>1. few # {} /\ many # {}
    BY <1>1, <1>3, <1>6 DEF Given
  <2> QED
    BY <1>1, <1>2, <1>5, <2>1, PointsOrdered
<1> QED
  BY <1>6 DEF sel, some, finished, aborted

\* Where a model is configured, nothing but the devices is read from series of another
\* one; and no more requests are counted as aborted than as finished (the selectors of
\* both adapters' Parse, cloneWith).
THEOREM OwnModelRead == Spec => []OwnModelOnly
<1>1. ReadInv => OwnModelOnly
  <2> SUFFICES ASSUME ReadInv, exposed # Failed
               PROVE  OwnModelOnly
    BY DEF OwnModelOnly
  <2>1. Payload(exposed.lines)
    BY BodiesArePayloads
  <2> DEFINE r   == Parse(here, exposed)
             own == Parse(here, [lines |-> OwnLines])
             p   == exposed.lines
             q   == OwnLines
  <2>2. /\ \A f \in Fields \ Overlaid : snap[f] = r.snap[f]
        /\ counters = r.counters /\ missing = r.missing
    BY StoredIs
  <2>3. CASE here.runtime = "vllm"
    <3>1. r = vllmParse(p, here.model) /\ own = vllmParse(q, here.model)
          /\ modelLabel = "model_name"
      BY <2>3 DEF Parse, modelLabel
    <3> HIDE DEF r, own
    <3>2. ASSUME here.model # ""
          PROVE  Alike(r, own)
      <4>1. \A want : "model_name" \in DOMAIN want /\ want["model_name"] = here.model =>
               Payload(q) /\ Agree(p, q, want)
        BY <2>1, <3>1, OwnLinesAgree
      <4>2. Payload(q)
        <5> DEFINE want == [l \in {"model_name"} |-> here.model]
        <5>1. "model_name" \in DOMAIN want /\ want["model_name"] = here.model
          OBVIOUS
        <5> HIDE DEF want, q
        <5> QED
          BY <4>1, <5>1
      <4> DEFINE m == here.model
      <4>3. Payload(p) /\ m # "" /\ r = vllmParse(p, m) /\ own = vllmParse(q, m)
        BY <2>1, <3>1, <3>2
      <4>4. AgreeOn(p, q, "model_name", m)
        BY <4>1 DEF AgreeOn
      <4> HIDE DEF p, q, m
      <4>5. Alike(vllmParse(p, m), vllmParse(q, m))
        BY <4>2, <4>3, <4>4, VllmAlike
      <4> QED
        BY <4>3, <4>5
    <3>3. Given(counters["aborted"]) =>
             Given(counters["finished"]) /\ AtMost(counters["aborted"], counters["finished"])
      <4> DEFINE sel == modelSelector("model_name", here.model)
                 f == Sum(p, "RequestSuccessTotal", sel)
                 a == Sum(p, "RequestSuccessTotal", cloneWith(sel, "finished_reason", "abort"))
      <4>1. Given(a) => Given(f) /\ AtMost(a, f)
        BY <2>1, AbortedAreFinished
      <4>2. r.counters["finished"] = f /\ r.counters["aborted"] = a
        BY <3>1, VllmCounts
      <4> HIDE DEF f, a
      <4> QED
        BY <2>2, <4>1, <4>2
    <3> QED
      BY <2>2, <3>2, <3>3 DEF OwnModelOnly, Alike, own
  <2>4. CASE here.runtime # "vllm"
    <3>1. r = tritonParse(p, here.model) /\ own = tritonParse(q, here.model)
          /\ modelLabel = "model"
      BY <2>4 DEF Parse, modelLabel
    <3> HIDE DEF r, own
    <3>2. ASSUME here.model # ""
          PROVE  Alike(r, own)
      <4>1. \A want : "model" \in DOMAIN want /\ want["model"] = here.model =>
               Payload(q) /\ Agree(p, q, want)
        BY <2>1, <3>1, OwnLinesAgree
      <4>2. Payload(q)
        <5> DEFINE want == [l \in {"model"} |-> here.model]
        <5>1. "model" \in DOMAIN want /\ want["model"] = here.model
          OBVIOUS
        <5> HIDE DEF want, q
        <5> QED
          BY <4>1, <5>1
      <4> DEFINE m == here.model
      <4>3. Payload(p) /\ m # "" /\ r = tritonParse(p, m) /\ own = tritonParse(q, m)
        BY <2>1, <3>1, <3>2
      <4>4. AgreeOn(p, q, "model", m)
        BY <4>1 DEF AgreeOn
      <4> HIDE DEF p, q, m
      <4>5. Alike(tritonParse(p, m), tritonParse(q, m))
        BY <4>2, <4>3, <4>4, TritonAlike
      <4> QED
        BY <4>3, <4>5
    <3>3. ~Given(counters["aborted"])
      <4>1. r.counters["aborted"] = Absent
        BY <3>1, TritonReads
      <4> QED
        BY <2>2, <4>1 DEF Given
    <3> QED
      BY <2>2, <3>2, <3>3 DEF OwnModelOnly, Alike, own
  <2> QED
    BY <2>3, <2>4
<1> QED
  BY <1>1, ReadInvHolds, PTL

-----------------------------------------------------------------------------
(* The most loaded device *)

LEMMA AtMostReflexive ==
    ASSUME NEW m, Proper(m)
    PROVE  AtMost(m, m)
BY AtMostTotal

\* Of finitely many measurements one is the largest.
LEMMA MostExists ==
    ASSUME NEW S, IsFiniteSet(S), S # {}, NEW v, \A x \in S : Proper(v[x])
    PROVE  \E x \in S : \A y \in S : AtMost(v[y], v[x])
<1> DEFINE P(n) == \A R \in SUBSET S :
                      IsFiniteSet(R) /\ R # {} /\ Cardinality(R) = n =>
                         \E x \in R : \A y \in R : AtMost(v[y], v[x])
           Q == {n \in Nat : P(n)}
<1>1. 0 \in Q
  BY FS_EmptySet
<1>2. ASSUME NEW n \in Q PROVE n + 1 \in Q
  <2> SUFFICES ASSUME NEW R \in SUBSET S, IsFiniteSet(R), R # {}, Cardinality(R) = n + 1
               PROVE  \E x \in R : \A y \in R : AtMost(v[y], v[x])
    OBVIOUS
  <2>1. PICK z \in R : TRUE
    OBVIOUS
  <2> DEFINE rest == R \ {z}
  <2>2. IsFiniteSet(rest) /\ Cardinality(rest) = n /\ rest \in SUBSET S
    <3>1. IsFiniteSet(rest) /\ Cardinality(rest) = (n + 1) - 1
      BY <2>1, FS_RemoveElement
    <3> QED
      BY <3>1
  <2>3. CASE rest = {}
    <3>1. \A y \in R : y = z
      BY <2>3
    <3>2. AtMost(v[z], v[z])
      BY <2>1, AtMostReflexive
    <3>3. \A y \in R : AtMost(v[y], v[z])
      BY <3>1, <3>2
    <3> QED
      BY <2>1, <3>3
  <2>4. CASE rest # {}
    <3> HIDE DEF rest
    <3>1. PICK x \in rest : \A y \in rest : AtMost(v[y], v[x])
      BY <2>2, <2>4
    <3>2. x \in R /\ \A y \in R : y = z \/ y \in rest
      BY <2>1, <3>1 DEF rest
    <3>3. Proper(v[x]) /\ Proper(v[z]) /\ \A y \in R : Proper(v[y])
      BY <2>1, <3>2
    <3>4. CASE AtMost(v[z], v[x])
      <4>1. \A y \in R : AtMost(v[y], v[x])
        BY <3>1, <3>2, <3>4
      <4> QED
        BY <3>2, <4>1
    <3>5. CASE AtMost(v[x], v[z])
      <4>1. ASSUME NEW y \in R PROVE AtMost(v[y], v[z])
        <5>1. CASE y = z
          BY <3>3, <5>1, AtMostReflexive
        <5>2. CASE y \in rest
          <6>1. AtMost(v[y], v[x])
            BY <3>1, <5>2
          <6> QED
            BY <3>3, <3>5, <6>1, AtMostTransitive
        <5> QED
          BY <3>2, <5>1, <5>2
      <4> QED
        BY <2>1, <4>1
    <3> QED
      BY <3>3, <3>4, <3>5, AtMostTotal
  <2> QED
    BY <2>3, <2>4
<1>3. Q = Nat
  <2> HIDE DEF P
  <2>1. Q \in SUBSET Nat
    OBVIOUS
  <2> HIDE DEF Q
  <2> QED
    BY <1>1, <1>2, <2>1, InductionOverNat
<1>4. Cardinality(S) \in Nat
  BY FS_CardinalityType
<1>5. P(Cardinality(S))
  <2> HIDE DEF P
  <2> QED
    BY <1>3, <1>4
<1> QED
  BY <1>5

\* Each device's figure is a measurement, if it has one.
Gauged(gpus, field) ==
    /\ IsFiniteSet(DOMAIN gpus)
    /\ \A gpu \in DOMAIN gpus : gpus[gpu][field] = Absent \/ Proper(gpus[gpu][field])

LEMMA OverDevicesIs ==
    ASSUME NEW gpus, NEW field, Gauged(gpus, field)
    PROVE  LET given == {gpu \in DOMAIN gpus : Given(gpus[gpu][field])}
           IN  /\ given = {} => overDevices(gpus, field) = Absent
               /\ given # {} => \E gpu \in given :
                     /\ overDevices(gpus, field) = gpus[gpu][field]
                     /\ \A other \in given : AtMost(gpus[other][field], gpus[gpu][field])
<1> DEFINE given == {gpu \in DOMAIN gpus : Given(gpus[gpu][field])}
           most(gpu) == \A other \in given : AtMost(gpus[other][field], gpus[gpu][field])
           chosen == CHOOSE gpu \in given : most(gpu)
           v == [gpu \in DOMAIN gpus |-> gpus[gpu][field]]
<1>1. overDevices(gpus, field) = IF given = {} THEN Absent ELSE gpus[chosen][field]
  BY DEF overDevices
<1>2. IsFiniteSet(given)
  BY FS_Subset DEF Gauged
<1>3. \A gpu \in given : gpu \in DOMAIN gpus /\ v[gpu] = gpus[gpu][field] /\ Proper(v[gpu])
  BY DEF Gauged, Given
<1>4. ASSUME given # {}
      PROVE  \E gpu \in given : overDevices(gpus, field) = gpus[gpu][field] /\ most(gpu)
  <2> HIDE DEF given, v
  <2>1. PICK gpu \in given : \A other \in given : AtMost(v[other], v[gpu])
    BY <1>2, <1>3, <1>4, MostExists
  <2>2. most(gpu)
    BY <1>3, <2>1
  <2> HIDE DEF most
  <2>3. chosen \in given /\ most(chosen)
    BY <2>1, <2>2
  <2> HIDE DEF chosen
  <2> QED
    BY <1>1, <1>4, <2>3
<1> QED
  BY <1>1, <1>4

\* Where readings and the devices' figures bound each other, the device shown is the
\* most loaded.
LEMMA MostLoadedOver ==
    ASSUME NEW gpus, NEW field, Gauged(gpus, field), NEW readings,
           \A r \in readings : Proper(r) /\ \E gpu \in DOMAIN gpus :
              Given(gpus[gpu][field]) /\ AtMost(r, gpus[gpu][field]),
           \A gpu \in DOMAIN gpus : Given(gpus[gpu][field]) =>
              \E r \in readings : AtMost(gpus[gpu][field], r)
    PROVE  MostLoaded(overDevices(gpus, field), readings)
<1> DEFINE given == {gpu \in DOMAIN gpus : Given(gpus[gpu][field])}
           shown == overDevices(gpus, field)
<1>1. /\ given = {} => shown = Absent
      /\ given # {} => \E gpu \in given :
            /\ shown = gpus[gpu][field]
            /\ \A other \in given : AtMost(gpus[other][field], gpus[gpu][field])
  BY OverDevicesIs
<1>2. \A gpu \in given : gpu \in DOMAIN gpus /\ Given(gpus[gpu][field]) /\ Proper(gpus[gpu][field])
  BY DEF Gauged, Given
<1>3. \A gpu \in DOMAIN gpus : Given(gpus[gpu][field]) => gpu \in given
  OBVIOUS
<1> HIDE DEF given, shown
<1>4. CASE readings = {}
  <2>1. given = {}
    BY <1>2, <1>4
  <2> QED
    BY <1>1, <1>4, <2>1 DEF MostLoaded, shown
<1>5. CASE readings # {}
  <2>1. PICK gpu \in given :
           /\ shown = gpus[gpu][field]
           /\ \A other \in given : AtMost(gpus[other][field], gpus[gpu][field])
    BY <1>1, <1>3, <1>5
  <2>2. Given(shown) /\ Proper(shown)
    BY <1>2, <2>1
  <2>3. \E r \in readings : AtMost(shown, r)
    BY <1>2, <2>1
  <2>4. ASSUME NEW r \in readings PROVE AtMost(r, shown)
    <3>1. PICK other \in DOMAIN gpus : Given(gpus[other][field]) /\ AtMost(r, gpus[other][field])
      OBVIOUS
    <3>2. other \in given
      BY <1>3, <3>1
    <3>3. Proper(r) /\ Proper(gpus[other][field]) /\ AtMost(gpus[other][field], shown)
      BY <1>2, <2>1, <3>2
    <3> QED
      BY <2>2, <3>1, <3>3, AtMostTransitive
  <2> QED
    BY <1>5, <2>2, <2>3, <2>4 DEF MostLoaded, shown
<1> QED
  BY <1>4, <1>5

LEMMA NumbersOfDevice ==
    ASSUME NEW payload, NEW name, NEW g
    PROVE  Numbers(payload, name, [gpu |-> g])
             = {i \in ReadsOfDevice(payload, name) : payload[i].labels["gpu"] = g}
<1> DEFINE want == [gpu |-> g]
<1>1. DOMAIN want = {"gpu"} /\ want["gpu"] = g
  OBVIOUS
<1> HIDE DEF want
<1>2. \A labels : Matches(labels, want) <=> "gpu" \in DOMAIN labels /\ labels["gpu"] = g
  BY <1>1 DEF Matches
<1>3. Numbers(payload, name, want)
        = {i \in ReadsOfDevice(payload, name) : payload[i].labels["gpu"] = g}
  BY <1>2 DEF Numbers, Select, ReadsOfDevice, Reads
<1> QED
  BY <1>3 DEF want

\* The share of memory used, from the two figures.
MemoryShare(used, free) ==
    IF Given(used) /\ Given(free) /\ used.num + free.num > 0
    THEN Fraction(used.num * 100, used.num + free.num) ELSE Absent

LEMMA DcgmReads ==
    ASSUME NEW payload, Payload(payload)
    PROVE  /\ IsFiniteSet(DOMAIN dcgmParse(payload))
           /\ \A i \in DOMAIN payload :
                 payload[i].name \in dcgmNames /\ "gpu" \in DOMAIN payload[i].labels =>
                    payload[i].labels["gpu"] \in DOMAIN dcgmParse(payload)
           /\ \A g \in DOMAIN dcgmParse(payload) :
                 /\ dcgmParse(payload)[g]["util"] = Largest(payload, "GPUUtil", [gpu |-> g])
                 /\ dcgmParse(payload)[g]["memory"]
                      = MemoryShare(Largest(payload, "FBUsed", [gpu |-> g]),
                                    Largest(payload, "FBFree", [gpu |-> g]))
<1> DEFINE chosen == {i \in DOMAIN payload :
                        payload[i].name \in dcgmNames /\ "gpu" \in DOMAIN payload[i].labels}
           label == [i \in chosen |-> payload[i].labels["gpu"]]
           D == {label[i] : i \in chosen}
           util(g) == Largest(payload, "GPUUtil", [gpu |-> g])
           used(g) == Largest(payload, "FBUsed", [gpu |-> g])
           free(g) == Largest(payload, "FBFree", [gpu |-> g])
           share(g) == MemoryShare(used(g), free(g))
           gpus == dcgmParse(payload)
<1>1. gpus = [g \in D |-> [util |-> util(g), memory |-> share(g)]]
  <2>1. D = {payload[i].labels["gpu"] : i \in chosen}
    OBVIOUS
  <2> HIDE DEF D
  <2> QED
    BY <2>1 DEF dcgmParse, MemoryShare
<1>2. IsFiniteSet(chosen)
  <2>1. Len(payload) \in Nat /\ DOMAIN payload = 1 .. Len(payload)
    BY DEF Payload
  <2>2. IsFiniteSet(1 .. Len(payload))
    BY <2>1, FS_Interval
  <2> QED
    BY <2>1, <2>2, FS_Subset
<1>3. IsFiniteSet(D)
  <2>1. DOMAIN label = chosen
    OBVIOUS
  <2> HIDE DEF label, chosen
  <2> QED
    BY <1>2, <2>1, ImageFinite
<1>4. \A i \in DOMAIN payload :
         payload[i].name \in dcgmNames /\ "gpu" \in DOMAIN payload[i].labels =>
            payload[i].labels["gpu"] \in D
  OBVIOUS
<1> HIDE DEF D, util, share, gpus
<1>5. DOMAIN gpus = D /\ \A g \in D : gpus[g]["util"] = util(g) /\ gpus[g]["memory"] = share(g)
  BY <1>1
<1> QED
  BY <1>3, <1>4, <1>5 DEF gpus, util, share

LEMMA UtilisationGauged ==
    ASSUME NEW payload, Payload(payload)
    PROVE  Gauged(dcgmParse(payload), "util")
<1> DEFINE gpus == dcgmParse(payload)
<1>1. /\ IsFiniteSet(DOMAIN gpus)
      /\ \A g \in DOMAIN gpus : gpus[g]["util"] = Largest(payload, "GPUUtil", [gpu |-> g])
  BY DcgmReads
<1>2. \A g : LET m == Largest(payload, "GPUUtil", [gpu |-> g]) IN m = Absent \/ Proper(m)
  BY LargestMeasured
<1> HIDE DEF gpus
<1>3. Gauged(gpus, "util")
  BY <1>1, <1>2 DEF Gauged
<1> QED
  BY <1>3 DEF gpus

\* Utilisation over the devices DCGM reports.
LEMMA UtilisationShown ==
    ASSUME NEW payload, Payload(payload)
    PROVE  MostLoaded(overDevices(dcgmParse(payload), "util"),
                      {Point(payload[i].value) : i \in ReadsOfDevice(payload, "GPUUtil")})
<1> DEFINE gpus == dcgmParse(payload)
           readers == ReadsOfDevice(payload, "GPUUtil")
           R == {Point(payload[i].value) : i \in readers}
           of(g) == Numbers(payload, "GPUUtil", [gpu |-> g])
           most(g) == Largest(payload, "GPUUtil", [gpu |-> g])
<1>1. \A g \in DOMAIN gpus : gpus[g]["util"] = most(g)
  BY DcgmReads
<1>2. \A i \in readers : /\ i \in DOMAIN payload /\ payload[i].labels["gpu"] \in DOMAIN gpus
                         /\ i \in of(payload[i].labels["gpu"])
  <2>1. \A i \in readers : /\ i \in DOMAIN payload /\ "gpu" \in DOMAIN payload[i].labels
                           /\ payload[i].name = "GPUUtil"
    BY DEF ReadsOfDevice, Reads
  <2>2. \A i \in readers : payload[i].labels["gpu"] \in DOMAIN gpus
    BY <2>1, DcgmReads DEF dcgmNames
  <2> QED
    BY <2>1, <2>2, NumbersOfDevice
<1>3. \A g : of(g) \subseteq readers
  BY NumbersOfDevice
<1>4. \A g : /\ of(g) = {} => most(g) = Absent
             /\ of(g) # {} => \E i \in of(g) :
                   /\ most(g) = Point(payload[i].value) /\ Given(most(g))
                   /\ payload[i].value \in Nat
                   /\ \A j \in of(g) : payload[j].value \in Nat /\ payload[j].value <= payload[i].value
  BY LargestIs
<1> HIDE DEF gpus, readers, of, most
<1>5. ASSUME NEW r \in R
      PROVE  Proper(r) /\ \E g \in DOMAIN gpus : Given(gpus[g]["util"]) /\ AtMost(r, gpus[g]["util"])
  <2>1. PICK j \in readers : r = Point(payload[j].value)
    OBVIOUS
  <2> DEFINE g == payload[j].labels["gpu"]
  <2>2. g \in DOMAIN gpus /\ j \in of(g)
    BY <1>2
  <2> HIDE DEF g
  <2>3. PICK i \in of(g) :
           /\ most(g) = Point(payload[i].value) /\ Given(most(g))
           /\ payload[i].value \in Nat
           /\ \A k \in of(g) : payload[k].value \in Nat /\ payload[k].value <= payload[i].value
    BY <1>4, <2>2
  <2>4. payload[j].value \in Nat /\ payload[j].value <= payload[i].value
    BY <2>2, <2>3
  <2>5. Proper(r) /\ AtMost(r, most(g))
    BY <2>1, <2>3, <2>4, PointIsProper, PointsOrdered
  <2> QED
    BY <1>1, <2>2, <2>3, <2>5
<1>6. ASSUME NEW g \in DOMAIN gpus, Given(gpus[g]["util"])
      PROVE  \E r \in R : AtMost(gpus[g]["util"], r)
  <2>1. of(g) # {}
    BY <1>1, <1>4, <1>6 DEF Given
  <2>2. PICK i \in of(g) : most(g) = Point(payload[i].value) /\ payload[i].value \in Nat
    BY <1>4, <2>1
  <2>3. most(g) \in R
    BY <1>3, <2>2
  <2>4. AtMost(most(g), most(g))
    BY <2>2, PointsOrdered
  <2> QED
    BY <1>1, <2>3, <2>4
<1>7. Gauged(gpus, "util")
  BY UtilisationGauged DEF gpus
<1> HIDE DEF R
<1>8. MostLoaded(overDevices(gpus, "util"), R)
  BY <1>5, <1>6, <1>7, MostLoadedOver
<1> QED
  BY <1>8 DEF gpus, R, readers

LEMMA FractionIs ==
    ASSUME NEW n \in Nat, NEW d \in Nat \ {0}
    PROVE  /\ Proper(Fraction(n, d)) /\ Given(Fraction(n, d))
           /\ Fraction(n, d).num = n /\ Fraction(n, d).den = d
BY ProperIsGiven DEF Proper, Fraction

\* A device's share of memory comes from one figure of each kind.
LEMMA ShareIs ==
    ASSUME NEW payload, Payload(payload), NEW g
    PROVE  LET used  == Numbers(payload, "FBUsed", [gpu |-> g])
               free  == Numbers(payload, "FBFree", [gpu |-> g])
               share == MemoryShare(Largest(payload, "FBUsed", [gpu |-> g]),
                                    Largest(payload, "FBFree", [gpu |-> g]))
           IN  share = Absent \/
               \E i \in used, j \in free :
                  /\ payload[i].value \in Nat /\ payload[j].value \in Nat
                  /\ payload[i].value + payload[j].value > 0
                  /\ share = Fraction(payload[i].value * 100,
                                      payload[i].value + payload[j].value)
<1> DEFINE used  == Numbers(payload, "FBUsed", [gpu |-> g])
           free  == Numbers(payload, "FBFree", [gpu |-> g])
           u     == Largest(payload, "FBUsed", [gpu |-> g])
           f     == Largest(payload, "FBFree", [gpu |-> g])
           share == MemoryShare(u, f)
<1>1. /\ used = {} => u = Absent
      /\ used # {} => \E i \in used : u = Point(payload[i].value) /\ payload[i].value \in Nat
  BY LargestIs
<1>2. /\ free = {} => f = Absent
      /\ free # {} => \E j \in free : f = Point(payload[j].value) /\ payload[j].value \in Nat
  BY LargestIs
<1>3. share = IF Given(u) /\ Given(f) /\ u.num + f.num > 0
              THEN Fraction(u.num * 100, u.num + f.num) ELSE Absent
  BY DEF MemoryShare
<1> HIDE DEF used, free, u, f, share
<1>4. ASSUME share # Absent
      PROVE  \E i \in used, j \in free :
                  /\ payload[i].value \in Nat /\ payload[j].value \in Nat
                  /\ payload[i].value + payload[j].value > 0
                  /\ share = Fraction(payload[i].value * 100,
                                      payload[i].value + payload[j].value)
  <2>1. /\ Given(u) /\ Given(f) /\ u.num + f.num > 0
        /\ share = Fraction(u.num * 100, u.num + f.num)
    BY <1>3, <1>4
  <2>2. used # {} /\ free # {}
    BY <1>1, <1>2, <2>1 DEF Given
  <2>3. PICK i \in used : u = Point(payload[i].value) /\ payload[i].value \in Nat
    BY <1>1, <2>2
  <2>4. PICK j \in free : f = Point(payload[j].value) /\ payload[j].value \in Nat
    BY <1>2, <2>2
  <2>5. u.num = payload[i].value /\ f.num = payload[j].value
    BY <2>3, <2>4, PointIsProper
  <2>6. /\ payload[i].value + payload[j].value > 0
        /\ share = Fraction(payload[i].value * 100, payload[i].value + payload[j].value)
    BY <2>1, <2>5
  <2> QED
    BY <2>3, <2>4, <2>6
<1> QED
  BY <1>4 DEF used, free, u, f, share

\* With one figure of each kind for a device there is no choice.
LEMMA ShareOfPair ==
    ASSUME NEW payload, Payload(payload), OnePerDevice(payload),
           NEW i \in ReadsOfDevice(payload, "FBUsed"), NEW j \in ReadsOfDevice(payload, "FBFree"),
           SameDevice(payload, i, j), payload[i].value + payload[j].value > 0
    PROVE  LET g == payload[i].labels["gpu"]
           IN  /\ payload[i].value \in Nat /\ payload[j].value \in Nat
               /\ MemoryShare(Largest(payload, "FBUsed", [gpu |-> g]),
                              Largest(payload, "FBFree", [gpu |-> g]))
                    = Fraction(payload[i].value * 100, payload[i].value + payload[j].value)
<1> DEFINE g    == payload[i].labels["gpu"]
           used == Numbers(payload, "FBUsed", [gpu |-> g])
           free == Numbers(payload, "FBFree", [gpu |-> g])
           u    == Largest(payload, "FBUsed", [gpu |-> g])
           f    == Largest(payload, "FBFree", [gpu |-> g])
<1>1. used = {k \in ReadsOfDevice(payload, "FBUsed") : payload[k].labels["gpu"] = g}
  BY NumbersOfDevice
<1>2. free = {k \in ReadsOfDevice(payload, "FBFree") : payload[k].labels["gpu"] = g}
  BY NumbersOfDevice
<1>3. i \in used /\ j \in free
  BY <1>1, <1>2 DEF SameDevice
<1>4. (\A k \in used : k = i) /\ (\A k \in free : k = j)
  BY <1>1, <1>2, <1>3 DEF OnePerDevice, SameDevice
<1>5. used # {} => \E k \in used : u = Point(payload[k].value) /\ payload[k].value \in Nat
  BY LargestIs
<1>6. free # {} => \E k \in free : f = Point(payload[k].value) /\ payload[k].value \in Nat
  BY LargestIs
<1> HIDE DEF g, used, free, u, f
<1>7. u = Point(payload[i].value) /\ payload[i].value \in Nat
  BY <1>3, <1>4, <1>5
<1>8. f = Point(payload[j].value) /\ payload[j].value \in Nat
  BY <1>3, <1>4, <1>6
<1>9. Given(u) /\ u.num = payload[i].value /\ Given(f) /\ f.num = payload[j].value
  BY <1>7, <1>8, PointIsProper, ProperIsGiven
<1>10. MemoryShare(u, f)
         = Fraction(payload[i].value * 100, payload[i].value + payload[j].value)
  BY <1>9 DEF MemoryShare
<1> QED
  BY <1>7, <1>8, <1>10 DEF g, u, f

LEMMA MemoryGauged ==
    ASSUME NEW payload, Payload(payload)
    PROVE  Gauged(dcgmParse(payload), "memory")
<1> DEFINE gpus == dcgmParse(payload)
           share(g) == MemoryShare(Largest(payload, "FBUsed", [gpu |-> g]),
                                   Largest(payload, "FBFree", [gpu |-> g]))
<1>1. IsFiniteSet(DOMAIN gpus) /\ \A g \in DOMAIN gpus : gpus[g]["memory"] = share(g)
  BY DcgmReads
<1>2. ASSUME NEW g PROVE share(g) = Absent \/ Proper(share(g))
  <2>1. share(g) = Absent \/ \E i, j :
           /\ payload[i].value \in Nat /\ payload[j].value \in Nat
           /\ payload[i].value + payload[j].value > 0
           /\ share(g) = Fraction(payload[i].value * 100,
                                  payload[i].value + payload[j].value)
    BY ShareIs
  <2> HIDE DEF share
  <2>2. ASSUME NEW i, NEW j,
               payload[i].value \in Nat, payload[j].value \in Nat,
               payload[i].value + payload[j].value > 0,
               share(g) = Fraction(payload[i].value * 100,
                                   payload[i].value + payload[j].value)
        PROVE  Proper(share(g))
    <3>1. /\ payload[i].value * 100 \in Nat
          /\ payload[i].value + payload[j].value \in Nat \ {0}
      BY <2>2
    <3> QED
      BY <2>2, <3>1, FractionIs
  <2> QED
    BY <2>1, <2>2
<1> HIDE DEF gpus, share
<1>3. Gauged(gpus, "memory")
  BY <1>1, <1>2 DEF Gauged
<1> QED
  BY <1>3 DEF gpus

\* Memory over the devices DCGM reports.
LEMMA MemoryShown ==
    ASSUME NEW payload, Payload(payload), OnePerDevice(payload)
    PROVE  MostLoaded(overDevices(dcgmParse(payload), "memory"), DcgmMemory(payload))
<1> DEFINE gpus == dcgmParse(payload)
           R == DcgmMemory(payload)
           share(g) == MemoryShare(Largest(payload, "FBUsed", [gpu |-> g]),
                                   Largest(payload, "FBFree", [gpu |-> g]))
           sum(i, j) == payload[i].value + payload[j].value
           ratio(i, j) == Fraction(payload[i].value * 100, sum(i, j))
           pair(i, j) == /\ i \in ReadsOfDevice(payload, "FBUsed")
                         /\ j \in ReadsOfDevice(payload, "FBFree")
                         /\ SameDevice(payload, i, j) /\ sum(i, j) > 0
<1>1. \A g \in DOMAIN gpus : gpus[g]["memory"] = share(g)
  BY DcgmReads
<1>2. Gauged(gpus, "memory")
  BY MemoryGauged
<1>3. \A r \in R : \E i, j : pair(i, j) /\ r = ratio(i, j)
  BY DEF DcgmMemory
<1>4. ASSUME NEW i, NEW j, pair(i, j) PROVE ratio(i, j) \in R
  <2>1. <<i, j>> \in ReadsOfDevice(payload, "FBUsed") \X ReadsOfDevice(payload, "FBFree")
    BY <1>4
  <2> QED
    BY <1>4, <2>1 DEF DcgmMemory
<1>5. ASSUME NEW i, NEW j, pair(i, j)
      PROVE  /\ Proper(ratio(i, j)) /\ payload[i].labels["gpu"] \in DOMAIN gpus
             /\ share(payload[i].labels["gpu"]) = ratio(i, j)
  <2>1. /\ payload[i].value \in Nat /\ payload[j].value \in Nat
        /\ share(payload[i].labels["gpu"]) = ratio(i, j)
    BY <1>5, ShareOfPair
  <2>2. payload[i].value * 100 \in Nat /\ sum(i, j) \in Nat \ {0}
    BY <1>5, <2>1
  <2>3. i \in DOMAIN payload /\ payload[i].name \in dcgmNames /\ "gpu" \in DOMAIN payload[i].labels
    BY <1>5 DEF ReadsOfDevice, Reads, dcgmNames
  <2>4. payload[i].labels["gpu"] \in DOMAIN gpus
    BY <2>3, DcgmReads
  <2>5. Proper(ratio(i, j))
    BY <2>2, FractionIs
  <2> QED
    BY <2>1, <2>4, <2>5
<1>6. ASSUME NEW g PROVE share(g) = Absent \/ \E i, j : pair(i, j) /\ share(g) = ratio(i, j)
  <2> DEFINE used == Numbers(payload, "FBUsed", [gpu |-> g])
             free == Numbers(payload, "FBFree", [gpu |-> g])
  <2>1. share(g) = Absent \/ \E i \in used, j \in free : sum(i, j) > 0 /\ share(g) = ratio(i, j)
    BY ShareIs
  <2>2. \A i \in used, j \in free :
           /\ i \in ReadsOfDevice(payload, "FBUsed") /\ j \in ReadsOfDevice(payload, "FBFree")
           /\ SameDevice(payload, i, j)
    BY NumbersOfDevice DEF SameDevice
  <2> HIDE DEF used, free, share, sum, ratio
  <2> QED
    BY <2>1, <2>2
<1> HIDE DEF gpus, R, share, ratio, pair
<1>7. ASSUME NEW r \in R
      PROVE  Proper(r) /\ \E g \in DOMAIN gpus : Given(gpus[g]["memory"]) /\ AtMost(r, gpus[g]["memory"])
  <2>1. PICK i, j : pair(i, j) /\ r = ratio(i, j)
    BY <1>3
  <2> DEFINE g == payload[i].labels["gpu"]
  <2>2. Proper(r) /\ g \in DOMAIN gpus /\ share(g) = r
    BY <1>5, <2>1
  <2> HIDE DEF g
  <2>3. gpus[g]["memory"] = r /\ Given(r) /\ AtMost(r, r)
    BY <1>1, <2>2, ProperIsGiven, AtMostReflexive
  <2> QED
    BY <2>2, <2>3
<1>8. ASSUME NEW g \in DOMAIN gpus, Given(gpus[g]["memory"])
      PROVE  \E r \in R : AtMost(gpus[g]["memory"], r)
  <2>1. gpus[g]["memory"] = share(g) /\ share(g) # Absent
    BY <1>1, <1>8 DEF Given
  <2>2. PICK i, j : pair(i, j) /\ share(g) = ratio(i, j)
    BY <1>6, <2>1
  <2>3. share(g) \in R /\ Proper(share(g))
    BY <1>4, <1>5, <2>2
  <2> QED
    BY <2>1, <2>3, AtMostReflexive
<1>9. MostLoaded(overDevices(gpus, "memory"), R)
  BY <1>2, <1>7, <1>8, MostLoadedOver
<1> QED
  BY <1>9 DEF gpus, R

\* Every series is a device's for Triton.
LEMMA NumbersOfAll ==
    ASSUME NEW payload, NEW name
    PROVE  Numbers(payload, name, Everything) = Reads(payload, name)
<1>1. DOMAIN Everything = {}
  BY DEF Everything
<1>2. \A labels : Matches(labels, Everything)
  BY <1>1 DEF Matches
<1> QED
  BY <1>2 DEF Numbers, Select, Reads

\* What gpuMax reads.
LEMMA GpuMaxIs ==
    ASSUME NEW payload, Payload(payload), NEW name
    PROVE  /\ Reads(payload, name) = {} => gpuMax(payload, name) = Absent
           /\ Reads(payload, name) # {} => \E i \in Reads(payload, name) :
                 /\ gpuMax(payload, name) = Point(payload[i].value)
                 /\ payload[i].value \in Nat
                 /\ \A j \in Reads(payload, name) :
                       payload[j].value \in Nat /\ payload[j].value <= payload[i].value
<1>1. Numbers(payload, name, Everything) = Reads(payload, name)
  BY NumbersOfAll
<1>2. gpuMax(payload, name) = Largest(payload, name, Everything)
  BY DEF gpuMax
<1> DEFINE s == Numbers(payload, name, Everything)
           m == Largest(payload, name, Everything)
<1>3. /\ s = {} => m = Absent
      /\ s # {} => \E i \in s :
            /\ m = Point(payload[i].value)
            /\ payload[i].value \in Nat
            /\ \A j \in s : payload[j].value \in Nat /\ payload[j].value <= payload[i].value
  BY LargestIs
<1> HIDE DEF s, m
<1> QED
  BY <1>1, <1>2, <1>3 DEF s, m

\* A larger numerator is more load.
LEMMA FractionsOrdered ==
    ASSUME NEW m \in Nat, NEW n \in Nat, NEW d \in Nat \ {0}, m <= n
    PROVE  AtMost(Fraction(m * 100, d), Fraction(n * 100, d))
<1>1. m * 100 \in Nat /\ n * 100 \in Nat /\ m * 100 <= n * 100
  OBVIOUS
<1>2. (m * 100) * d <= (n * 100) * d
  BY <1>1, TimesMonotone
<1> QED
  BY <1>1, <1>2, FractionIs DEF AtMost

\* A figure that is one of the readings and above them all.
LEMMA MostLoadedAt ==
    ASSUME NEW shown, NEW readings, NEW most \in readings, shown = most, Given(most),
           \A r \in readings : AtMost(r, most)
    PROVE  MostLoaded(shown, readings)
BY DEF MostLoaded

LEMMA TritonUtilisationShown ==
    ASSUME NEW payload, Payload(payload)
    PROVE  MostLoaded(gpuUtil(payload),
                      {Fraction(payload[i].value * 100, 1000) :
                          i \in Reads(payload, "GPUUtilization")})
<1> DEFINE readers == Reads(payload, "GPUUtilization")
           R == {Fraction(payload[i].value * 100, 1000) : i \in readers}
           most == gpuMax(payload, "GPUUtilization")
<1>1. gpuUtil(payload) = Times(most, 100, 1000)
  BY DEF gpuUtil
<1>2. /\ readers = {} => most = Absent
      /\ readers # {} => \E i \in readers :
            /\ most = Point(payload[i].value)
            /\ payload[i].value \in Nat
            /\ \A j \in readers : payload[j].value \in Nat /\ payload[j].value <= payload[i].value
  BY GpuMaxIs
<1> HIDE DEF readers, most
<1>3. CASE readers = {}
  <2>1. gpuUtil(payload) = Absent
    BY <1>1, <1>2, <1>3 DEF Times, Given
  <2>2. R = {}
    BY <1>3
  <2> QED
    BY <2>1, <2>2 DEF MostLoaded, readers
<1>4. CASE readers # {}
  <2>1. PICK i \in readers :
            /\ most = Point(payload[i].value)
            /\ payload[i].value \in Nat
            /\ \A j \in readers : payload[j].value \in Nat /\ payload[j].value <= payload[i].value
    BY <1>2, <1>4
  <2> DEFINE top == Fraction(payload[i].value * 100, 1000)
  <2>2. Given(most) /\ most.num = payload[i].value /\ most.den = 1
    BY <2>1, PointIsProper, ProperIsGiven
  <2>3. gpuUtil(payload) = top
    BY <1>1, <2>2 DEF Times
  <2>4. payload[i].value * 100 \in Nat /\ 1000 \in Nat \ {0}
    BY <2>1
  <2>5. Given(top)
    BY <2>4, FractionIs
  <2>6. top \in R
    OBVIOUS
  <2>7. ASSUME NEW r \in R PROVE AtMost(r, top)
    <3>1. PICK j \in readers : r = Fraction(payload[j].value * 100, 1000)
      OBVIOUS
    <3>2. payload[j].value \in Nat /\ payload[j].value <= payload[i].value
      BY <2>1
    <3> QED
      BY <2>1, <2>4, <3>1, <3>2, FractionsOrdered
  <2> HIDE DEF top, R
  <2>8. MostLoaded(gpuUtil(payload), R)
    BY <2>3, <2>5, <2>6, <2>7, MostLoadedAt
  <2> QED
    BY <2>8 DEF R, readers
<1> QED
  BY <1>3, <1>4

LEMMA TritonMemoryShown ==
    ASSUME NEW payload, Payload(payload), EqualMemory(payload)
    PROVE  MostLoaded(gpuMemory(payload), TritonMemory(payload))
<1> DEFINE U == Reads(payload, "GPUMemoryUsed")
           T == Reads(payload, "GPUMemoryTotal")
           R == TritonMemory(payload)
           used  == gpuMax(payload, "GPUMemoryUsed")
           total == gpuMax(payload, "GPUMemoryTotal")
           pair(i, j) == i \in U /\ j \in T /\ payload[i].labels = payload[j].labels
           ratio(i, j) == Fraction(payload[i].value * 100, payload[j].value)
<1>1. gpuMemory(payload) = IF Given(used) /\ Given(total) /\ total.num > 0
                           THEN Fraction(used.num * 100, total.num) ELSE Absent
  BY DEF gpuMemory
<1>2. /\ U = {} => used = Absent
      /\ U # {} => \E i \in U :
            /\ used = Point(payload[i].value)
            /\ payload[i].value \in Nat
            /\ \A j \in U : payload[j].value \in Nat /\ payload[j].value <= payload[i].value
  BY GpuMaxIs
<1>3. /\ T = {} => total = Absent
      /\ T # {} => \E i \in T :
            /\ total = Point(payload[i].value)
            /\ payload[i].value \in Nat
            /\ \A j \in T : payload[j].value \in Nat /\ payload[j].value <= payload[i].value
  BY GpuMaxIs
<1>4. /\ \A i, j \in T : payload[i].value = payload[j].value /\ payload[i].value > 0
      /\ \A i \in U : \E j \in T : pair(i, j)
  BY DEF EqualMemory
<1>5. \A r \in R : \E i, j : pair(i, j) /\ r = ratio(i, j)
  BY DEF TritonMemory
<1>6. ASSUME NEW i, NEW j, pair(i, j) PROVE ratio(i, j) \in R
  <2>1. <<i, j>> \in Reads(payload, "GPUMemoryUsed") \X Reads(payload, "GPUMemoryTotal")
    BY <1>6
  <2> QED
    BY <1>6, <2>1 DEF TritonMemory
<1>7. \A i, j : pair(i, j) => i \in U /\ j \in T
  OBVIOUS
<1> HIDE DEF U, T, R, used, total, pair
<1>8. CASE U = {}
  <2>1. gpuMemory(payload) = Absent
    BY <1>1, <1>2, <1>8 DEF Given
  <2>2. R = {}
    BY <1>5, <1>7, <1>8
  <2> QED
    BY <2>1, <2>2 DEF MostLoaded, R
<1>9. CASE U # {}
  <2>1. PICK i \in U :
            /\ used = Point(payload[i].value)
            /\ payload[i].value \in Nat
            /\ \A j \in U : payload[j].value \in Nat /\ payload[j].value <= payload[i].value
    BY <1>2, <1>9
  <2>2. PICK j \in T : pair(i, j)
    BY <1>4
  <2>3. PICK k \in T : total = Point(payload[k].value) /\ payload[k].value \in Nat
    BY <1>3, <2>2
  <2>4. /\ payload[j].value = payload[k].value /\ payload[j].value > 0
        /\ payload[j].value \in Nat \ {0}
    BY <1>4, <2>3
  <2>5. /\ Given(used) /\ used.num = payload[i].value
        /\ Given(total) /\ total.num = payload[j].value
    BY <2>1, <2>3, <2>4, PointIsProper, ProperIsGiven
  <2>6. gpuMemory(payload) = ratio(i, j)
    BY <1>1, <2>4, <2>5
  <2>7. ratio(i, j) \in R
    BY <1>6, <2>2
  <2>8. Given(ratio(i, j))
    <3>1. payload[i].value * 100 \in Nat
      BY <2>1
    <3> QED
      BY <2>4, <3>1, FractionIs
  <2>9. ASSUME NEW r \in R PROVE AtMost(r, ratio(i, j))
    <3>1. PICK i2, j2 : pair(i2, j2) /\ r = ratio(i2, j2)
      BY <1>5
    <3>2. i2 \in U /\ j2 \in T
      BY <1>7, <3>1
    <3>3. payload[i2].value \in Nat /\ payload[i2].value <= payload[i].value
          /\ payload[j2].value = payload[j].value
      BY <1>4, <2>1, <3>2
    <3> QED
      BY <2>1, <2>4, <3>1, <3>3, FractionsOrdered
  <2> HIDE DEF ratio
  <2>10. MostLoaded(gpuMemory(payload), R)
    BY <2>6, <2>7, <2>8, <2>9, MostLoadedAt
  <2> QED
    BY <2>10 DEF R
<1> QED
  BY <1>8, <1>9

\* What is shown of the GPUs is the most loaded device: MostLoadedOver for the devices
\* DCGM reports, whatever their number, and the largest series for Triton.
THEOREM MostLoadedIsShown == Spec => []SaturatedDeviceShows
<1>1. ReadInv => SaturatedDeviceShows
  <2> DEFINE dcgm    == devices.lines
             payload == exposed.lines
             r == Parse(here, exposed)
  <2> SUFFICES ASSUME ReadInv, exposed # Failed
               PROVE  SaturatedDeviceShows
    BY DEF SaturatedDeviceShows
  <2>1. Payload(payload) /\ Payload(dcgm)
    BY BodiesArePayloads
  <2>2. CASE DevicesSeen(devices)
    <3>1. /\ snap["GPUUtilizationPct"] = overDevices(dcgmParse(dcgm), "util")
          /\ snap["GPUMemoryUsedPct"] = overDevices(dcgmParse(dcgm), "memory")
      BY <2>2, StoredIs
    <3>2. MostLoaded(snap["GPUUtilizationPct"],
                     {Point(dcgm[i].value) : i \in ReadsOfDevice(dcgm, "GPUUtil")})
      BY <2>1, <3>1, UtilisationShown
    <3>3. OnePerDevice(dcgm) => MostLoaded(snap["GPUMemoryUsedPct"], DcgmMemory(dcgm))
      BY <2>1, <3>1, MemoryShown
    <3> QED
      BY <2>2, <3>2, <3>3 DEF SaturatedDeviceShows
  <2>3. CASE ~DevicesSeen(devices)
    <3>1. \A f \in Fields \ Joined : snap[f] = r.snap[f]
      BY <2>3, StoredIs
    <3>2. /\ snap["GPUUtilizationPct"] = r.snap["GPUUtilizationPct"]
          /\ snap["GPUMemoryUsedPct"] = r.snap["GPUMemoryUsedPct"]
      <4> HIDE DEF r
      <4>1. {"GPUUtilizationPct", "GPUMemoryUsedPct"} \subseteq Fields \ Joined
        BY DEF Fields, Joined
      <4> QED
        BY <3>1, <4>1
    <3>3. CASE here.runtime = "vllm"
      <4>1. r = vllmParse(payload, here.model)
        BY <3>3 DEF Parse
      <4>2. r.snap["GPUUtilizationPct"] = Absent /\ r.snap["GPUMemoryUsedPct"] = Absent
        BY <4>1, VllmReads
      <4> QED
        BY <2>3, <3>2, <3>3, <4>2 DEF SaturatedDeviceShows
    <3>4. CASE here.runtime # "vllm"
      <4>1. r = tritonParse(payload, here.model)
        BY <3>4 DEF Parse
      <4>2. /\ r.snap["GPUUtilizationPct"] = gpuUtil(payload)
            /\ r.snap["GPUMemoryUsedPct"] = gpuMemory(payload)
        BY <4>1, TritonReads
      <4>3. MostLoaded(snap["GPUUtilizationPct"],
                       {Fraction(payload[i].value * 100, 1000) :
                           i \in Reads(payload, "GPUUtilization")})
        BY <2>1, <3>2, <4>2, TritonUtilisationShown
      <4>4. EqualMemory(payload) => MostLoaded(snap["GPUMemoryUsedPct"], TritonMemory(payload))
        BY <2>1, <3>2, <4>2, TritonMemoryShown
      <4> QED
        BY <2>3, <3>4, <4>3, <4>4 DEF SaturatedDeviceShows
    <3> QED
      BY <3>3, <3>4
  <2> QED
    BY <2>2, <2>3
<1> QED
  BY <1>1, ReadInvHolds, PTL

-----------------------------------------------------------------------------
(* The histogram counts what was observed *)

Edge(i) == exposed.lines[i].labels["le"]
Engine(i) == exposed.lines[i].labels["engine"]
SeenBy(e, v) == {o \in UpTo(v) : o[1] = e}

LEMMA ObservationsAre ==
    ASSUME ReadInv, Histogram
    PROVE  /\ exposed # Failed
           /\ \A e \in DOMAIN exposed.observed : exposed.observed[e] \in Seq(0 .. Inf)
           /\ \A o \in Observations : /\ o[1] \in DOMAIN exposed.observed
                                      /\ o[2] \in DOMAIN exposed.observed[o[1]]
                                      /\ o \in {o[1]} \X DOMAIN exposed.observed[o[1]]
                                      /\ Latency(o) \in Nat
<1>1. exposed # Failed
  BY DEF Histogram, Failed
<1>2. target \in DOMAIN Targets /\ exposed \in here.bodies
  BY <1>1 DEF ReadInv
<1>3. \A e \in DOMAIN exposed.observed : exposed.observed[e] \in Seq(0 .. Inf)
  BY <1>2, TargetsAssumption DEF here, Histogram
<1>4. \A o \in Observations : /\ o[1] \in DOMAIN exposed.observed
                              /\ o[2] \in DOMAIN exposed.observed[o[1]]
                              /\ o \in {o[1]} \X DOMAIN exposed.observed[o[1]]
  BY DEF Observations
<1>5. ASSUME NEW o \in Observations PROVE Latency(o) \in Nat
  <2> DEFINE s == exposed.observed[o[1]]
  <2>1. s \in Seq(0 .. Inf) /\ o[2] \in DOMAIN s
    BY <1>3, <1>4
  <2> DEFINE T == 0 .. Inf
  <2> HIDE DEF s, T
  <2>2. s \in Seq(T) /\ o[2] \in 1 .. Len(s)
    BY <2>1 DEF T
  <2>3. s[o[2]] \in 0 .. Inf
    <3>1. s[o[2]] \in T
      BY <2>2
    <3> QED
      BY <3>1 DEF T
  <2>4. s[o[2]] \in Nat
    BY <2>3, InfIsNumber
  <2> QED
    BY <2>4 DEF Latency, s
<1> QED
  BY <1>1, <1>3, <1>4, <1>5

LEMMA SeenByFinite ==
    ASSUME ReadInv, Histogram, NEW e \in DOMAIN exposed.observed, NEW v
    PROVE  IsFiniteSet(SeenBy(e, v))
<1> DEFINE s == exposed.observed[e]
<1>1. s \in Seq(0 .. Inf)
  BY ObservationsAre
<1>2. IsFiniteSet(DOMAIN s)
  <2>1. DOMAIN s = 1 .. Len(s) /\ Len(s) \in Nat
    BY <1>1
  <2> QED
    BY <2>1, FS_Interval
<1>3. SeenBy(e, v) \subseteq {e} \X DOMAIN s
  BY ObservationsAre DEF SeenBy, UpTo
<1> HIDE DEF s
<1>4. IsFiniteSet({e} \X DOMAIN s)
  BY <1>2, FS_Singleton, FS_Product
<1> QED
  BY <1>3, <1>4, FS_Subset

LEMMA EdgesAre ==
    ASSUME ReadInv, Histogram
    PROVE  /\ Payload(exposed.lines) /\ Edges = {Edge(i) : i \in BucketLines}
           /\ Edges \subseteq 0 .. Inf /\ Edges \in SUBSET Nat
           /\ BucketLines \subseteq 1 .. Len(exposed.lines)
<1> DEFINE p == exposed.lines
<1>1. Payload(p)
  BY ObservationsAre, BodiesArePayloads
<1>2. Edges = {Edge(i) : i \in BucketLines}
  BY DEF Edges, BucketLines, buckets, Edge
<1>3. Edges \subseteq 0 .. Inf
  BY <1>1, BucketsDistribution DEF Edges, Distribution
<1>4. BucketLines \subseteq 1 .. Len(p)
  <2>1. BucketLines \subseteq Numbers(p, "E2ELatency", Selector)
    BY DEF BucketLines
  <2> QED
    BY <1>1, <2>1, NumbersAre
<1> QED
  BY <1>1, <1>2, <1>3, <1>4, UpToInfFinite

\* The lines of a bucket add up to the observations in it.
LEMMA BucketCount ==
    ASSUME ReadInv, Histogram, Whole, NEW le \in Edges
    PROVE  /\ IsFiniteSet(UpTo(le))
           /\ Total(exposed.lines, {i \in BucketLines : Edge(i) = le}) = Cardinality(UpTo(le))
<1> DEFINE p == exposed.lines
           at == {i \in BucketLines : Edge(i) = le}
           counted(n) == {o \in UpTo(le) : \E i \in at : i <= n /\ o[1] = Engine(i)}
<1>1. Len(p) \in Nat /\ at \subseteq 1 .. Len(p) /\ \E i \in BucketLines : Edge(i) = le
  <2>1. Payload(p) /\ Edges = {Edge(i) : i \in BucketLines} /\ BucketLines \subseteq 1 .. Len(p)
    BY EdgesAre
  <2> QED
    BY <2>1 DEF Payload
<1>2. \A i \in at : /\ Engine(i) \in DOMAIN exposed.observed
                    /\ p[i].value = Cardinality(SeenBy(Engine(i), le))
  BY DEF Whole, SeenBy, Engine, Edge
<1>3. \A i, j \in at : Engine(i) = Engine(j) => i = j
  BY DEF Whole, SameBucket, Engine, Edge
<1>4. \A e \in DOMAIN exposed.observed : \E j \in at : Engine(j) = e
  BY <1>1 DEF Whole, SameBucket, Engine, Edge
<1>5. PICK f : /\ f[0] = 0 /\ Total(p, at) = f[Len(p)]
               /\ \A n \in 1 .. Len(p) :
                     f[n] = f[n - 1] + (IF n \in at THEN p[n].value ELSE 0)
  <2>1. Len(p) \in Nat
    BY <1>1
  <2> HIDE DEF at, p
  <2> QED
    BY <2>1, TotalIsLoop
<1> HIDE DEF at
<1> DEFINE P(n) == n <= Len(p) => IsFiniteSet(counted(n)) /\ f[n] = Cardinality(counted(n))
           S == {n \in Nat : P(n)}
<1>6. 0 \in S
  <2>1. counted(0) = {}
    BY <1>1
  <2> HIDE DEF counted
  <2> QED
    BY <1>5, <2>1, FS_EmptySet
<1>7. ASSUME NEW n \in S PROVE n + 1 \in S
  <2> DEFINE m == n + 1
  <2> SUFFICES ASSUME m <= Len(p)
               PROVE  IsFiniteSet(counted(m)) /\ f[m] = Cardinality(counted(m))
    OBVIOUS
  <2>1. /\ n \in Nat /\ m \in 1 .. Len(p) /\ m - 1 = n
        /\ IsFiniteSet(counted(n)) /\ f[n] = Cardinality(counted(n))
    BY <1>1
  <2>2. f[m] = f[n] + (IF m \in at THEN p[m].value ELSE 0)
    BY <1>5, <2>1
  <2>3. \A i \in at : i <= m <=> i <= n \/ i = m
    <3> TAKE i \in at
    <3>1. i \in Int /\ n \in Int
      BY <1>1, <2>1
    <3> QED
      BY <3>1
  <2>4. CASE m \in at
    <3> DEFINE new == SeenBy(Engine(m), le)
    <3>1. counted(m) = counted(n) \cup new
      BY <2>3, <2>4 DEF SeenBy
    <3>2. counted(n) \cap new = {}
      <4> SUFFICES ASSUME NEW o \in counted(n), o \in new PROVE FALSE
        OBVIOUS
      <4>1. PICK i \in at : i <= n /\ o[1] = Engine(i)
        OBVIOUS
      <4>2. i = m
        BY <1>3, <2>4, <4>1 DEF SeenBy
      <4> QED
        BY <2>1, <4>1, <4>2
    <3>3. IsFiniteSet(new) /\ p[m].value = Cardinality(new)
      BY <1>2, <2>4, SeenByFinite
    <3> HIDE DEF counted, new, m
    <3>4. /\ IsFiniteSet(counted(m))
          /\ Cardinality(counted(m))
               = Cardinality(counted(n)) + Cardinality(new) - Cardinality({})
      BY <2>1, <3>1, <3>2, <3>3, FS_Union
    <3>5. Cardinality({}) = 0 /\ Cardinality(counted(n)) \in Nat /\ Cardinality(new) \in Nat
      BY <2>1, <3>3, FS_EmptySet, FS_CardinalityType
    <3> QED
      BY <2>1, <2>2, <2>4, <3>3, <3>4, <3>5
  <2>5. CASE m \notin at
    <3>1. counted(m) = counted(n)
      BY <2>3, <2>5
    <3> HIDE DEF counted, m
    <3>2. Cardinality(counted(n)) \in Nat
      BY <2>1, FS_CardinalityType
    <3> QED
      BY <2>1, <2>2, <2>5, <3>1, <3>2
  <2> QED
    BY <2>4, <2>5
<1>8. S = Nat
  <2> HIDE DEF P
  <2>1. S \in SUBSET Nat
    OBVIOUS
  <2> HIDE DEF S
  <2> QED
    BY <1>6, <1>7, <2>1, InductionOverNat
<1>9. IsFiniteSet(counted(Len(p))) /\ f[Len(p)] = Cardinality(counted(Len(p)))
  <2>1. P(Len(p))
    <3> HIDE DEF P
    <3> QED
      BY <1>1, <1>8
  <2> QED
    BY <1>1, <2>1
<1>10. counted(Len(p)) = UpTo(le)
  <2>1. ASSUME NEW o \in UpTo(le) PROVE \E i \in at : i <= Len(p) /\ o[1] = Engine(i)
    <3>1. o[1] \in DOMAIN exposed.observed
      BY ObservationsAre DEF UpTo
    <3>2. PICK j \in at : Engine(j) = o[1]
      BY <1>4, <3>1
    <3> QED
      BY <1>1, <3>2
  <2> QED
    BY <2>1
<1> HIDE DEF counted
<1> QED
  BY <1>5, <1>9, <1>10 DEF at, p

LEMMA MaxIs ==
    ASSUME NEW S \in SUBSET Int, NEW x \in S, \A y \in S : y <= x
    PROVE  Max(S) = x
<1>1. \A y \in S : x >= y
  OBVIOUS
<1>2. Max(S) \in S /\ \A y \in S : Max(S) >= y
  BY <1>1 DEF Max
<1>3. Max(S) \in Int /\ x \in Int /\ Max(S) >= x /\ x >= Max(S)
  BY <1>1, <1>2
<1> QED
  BY <1>3

LEMMA MinIs ==
    ASSUME NEW S \in SUBSET Int, NEW x \in S, \A y \in S : x <= y
    PROVE  Min(S) = x
<1>1. Min(S) \in S /\ \A y \in S : Min(S) <= y
  BY DEF Min
<1>2. Min(S) \in Int /\ x \in Int /\ Min(S) <= x /\ x <= Min(S)
  BY <1>1
<1> QED
  BY <1>2

\* More latencies are within a higher bound.
LEMMA UpToMonotone ==
    ASSUME ReadInv, Histogram, NEW v \in Int, NEW w \in Int, v <= w, IsFiniteSet(UpTo(w))
    PROVE  /\ UpTo(v) \subseteq UpTo(w) /\ IsFiniteSet(UpTo(v))
           /\ Cardinality(UpTo(v)) \in Nat /\ Cardinality(UpTo(w)) \in Nat
           /\ Cardinality(UpTo(v)) <= Cardinality(UpTo(w))
<1>1. UpTo(v) \subseteq UpTo(w)
  <2> SUFFICES ASSUME NEW o \in Observations, Latency(o) <= v PROVE Latency(o) <= w
    BY DEF UpTo
  <2>1. Latency(o) \in Nat
    BY ObservationsAre
  <2> QED
    BY <2>1
<1> QED
  BY <1>1, FS_Subset, FS_CardinalityType

\* The counts read are of the observations.
LEMMA CountsAre ==
    ASSUME ReadInv, Histogram, Whole
    PROVE  LET c == buckets(exposed.lines, "E2ELatency", Selector)
           IN  /\ DOMAIN c = Edges
               /\ \A le \in Edges : IsFiniteSet(UpTo(le)) /\ c[le] = Cardinality(UpTo(le))
<1> DEFINE p == exposed.lines
           c == buckets(p, "E2ELatency", Selector)
           at(le) == {i \in BucketLines : Edge(i) = le}
           byLE == [le \in Edges |-> Total(p, at(le))]
           upTo(le) == {b \in Edges : b <= le}
<1>1. Edges = {Edge(i) : i \in BucketLines} /\ Edges \in SUBSET Nat
  BY EdgesAre
<1>2. c = [le \in Edges |-> Max({byLE[b] : b \in upTo(le)})]
  <2>1. Edges = {p[i].labels["le"] : i \in BucketLines}
    BY <1>1 DEF Edge
  <2>2. byLE = [le \in {p[i].labels["le"] : i \in BucketLines} |->
                  Total(p, {i \in BucketLines : p[i].labels["le"] = le})]
    BY <2>1 DEF Edge
  <2> HIDE DEF byLE
  <2> QED
    BY <2>1, <2>2, Zenon DEF buckets, BucketLines
<1>3. \A le \in Edges : IsFiniteSet(UpTo(le)) /\ byLE[le] = Cardinality(UpTo(le))
  BY BucketCount
<1> HIDE DEF byLE, c
<1>4. ASSUME NEW le \in Edges PROVE c[le] = Cardinality(UpTo(le))
  <2> DEFINE S == {byLE[b] : b \in upTo(le)}
             most == byLE[le]
  <2>1. \A b \in upTo(le) : b \in Edges /\ b \in Int /\ b <= le
    BY <1>1
  <2>2. \A b \in upTo(le) : byLE[b] \in Nat /\ byLE[b] <= most
    <3> TAKE b \in upTo(le)
    <3>1. /\ b \in Edges /\ b \in Int /\ b <= le /\ le \in Int
          /\ IsFiniteSet(UpTo(le)) /\ byLE[b] = Cardinality(UpTo(b))
          /\ most = Cardinality(UpTo(le))
      BY <1>1, <1>3, <2>1
    <3> HIDE DEF most
    <3> QED
      BY <3>1, UpToMonotone
  <2>3. le \in upTo(le)
    BY <1>1
  <2> HIDE DEF upTo, most
  <2>4. S \in SUBSET Int /\ most \in S /\ \A y \in S : y <= most
    BY <2>2, <2>3 DEF most
  <2> HIDE DEF S
  <2>5. Max(S) = most
    BY <2>4, MaxIs
  <2>6. c[le] = Max(S)
    BY <1>2 DEF S
  <2> QED
    BY <1>3, <2>5, <2>6 DEF most
<1>5. DOMAIN c = Edges
  BY <1>2
<1> QED
  BY <1>3, <1>4, <1>5 DEF c

\* The bucket found is the one the true percentile is in.
LEMMA TrueInBucket ==
    ASSUME ReadInv, Histogram, Whole, NEW p \in 1 .. 100,
           ~Unreadable(buckets(exposed.lines, "E2ELatency", Selector))
    PROVE  Min({le \in Edges : TrueQuantile(p) <= le})
             = index(buckets(exposed.lines, "E2ELatency", Selector), p)
<1> DEFINE c == buckets(exposed.lines, "E2ELatency", Selector)
           u == index(c, p)
           total == c[Max(DOMAIN c)]
           rank == p * Cardinality(UpTo(Inf))
           good == {v \in {Latency(o) : o \in Observations} : 100 * Cardinality(UpTo(v)) >= rank}
<1>1. /\ DOMAIN c = Edges /\ Inf \in Edges /\ Edges \subseteq 0 .. Inf /\ Edges \in SUBSET Nat
      /\ \A le \in Edges : IsFiniteSet(UpTo(le)) /\ c[le] = Cardinality(UpTo(le))
  BY CountsAre, EdgesAre DEF Whole
<1>2. Payload(exposed.lines) /\ Distribution(c)
  BY EdgesAre, BucketsDistribution
<1>3. DOMAIN c # {} /\ total > 0
  BY <1>2, QuantileIs
<1> HIDE DEF c
<1>4. total = Cardinality(UpTo(Inf)) /\ total \in Nat
  <2>1. Max(DOMAIN c) = Inf
    <3>1. \A y \in Edges : y <= Inf
      BY <1>1, InfIsNumber
    <3>2. Edges \in SUBSET Int
      BY <1>1
    <3> QED
      BY <1>1, <3>1, <3>2, MaxIs
  <2>2. total \in Nat
    BY <1>2, <1>3, LastBoundary
  <2> QED
    BY <1>1, <2>1, <2>2
<1>5. /\ u \in Edges /\ u \in Nat /\ 100 * c[u] >= rank
      /\ \A le \in Edges : 100 * c[le] >= rank => u <= le
  BY <1>1, <1>2, <1>3, <1>4, IndexIs
<1> HIDE DEF u, total
<1>6. rank \in Nat /\ rank > 0
  <2>1. 1 * total <= p * total
    BY <1>4, TimesMonotone
  <2>2. p * total \in Nat /\ 1 * total = total
    BY <1>4
  <2> QED
    BY <1>3, <1>4, <2>1, <2>2
<1> HIDE DEF rank
<1>7. \E w \in good : w \in Nat /\ w <= u
  <2>1. IsFiniteSet(UpTo(u)) /\ c[u] = Cardinality(UpTo(u)) /\ c[u] \in Nat
    BY <1>1, <1>5, FS_CardinalityType
  <2>2. UpTo(u) # {}
    <3>1. c[u] # 0
      BY <1>5, <1>6, <2>1
    <3> QED
      BY <2>1, <3>1, FS_EmptySet
  <2> DEFINE took == [o \in UpTo(u) |-> Latency(o)]
             L == {took[o] : o \in UpTo(u)}
             w == Max(L)
  <2>3. \A o \in UpTo(u) : o \in Observations /\ took[o] = Latency(o) /\ Latency(o) \in Nat
                           /\ Latency(o) <= u
    BY ObservationsAre DEF UpTo
  <2>4. IsFiniteSet(L)
    <3>1. DOMAIN took = UpTo(u)
      OBVIOUS
    <3> HIDE DEF took
    <3> QED
      BY <2>1, <3>1, ImageFinite
  <2> HIDE DEF took
  <2>5. L \in SUBSET Int /\ L # {}
    BY <2>2, <2>3
  <2>6. w \in L /\ \A y \in L : y <= w
    <3> HIDE DEF L
    <3> QED
      BY <2>4, <2>5, MaxIsLargest
  <2>7. PICK o \in UpTo(u) : w = Latency(o)
    BY <2>3, <2>6
  <2>8. w \in Nat /\ w <= u /\ w \in {Latency(x) : x \in Observations}
    BY <2>3, <2>7
  <2>9. \A x \in UpTo(u) : Latency(x) <= w
    BY <2>3, <2>6
  <2> HIDE DEF w, L
  <2>10. UpTo(w) = UpTo(u)
    <3>1. UpTo(w) \subseteq UpTo(u)
      BY <1>5, <2>1, <2>8, UpToMonotone
    <3>2. UpTo(u) \subseteq UpTo(w)
      BY <2>3, <2>9 DEF UpTo
    <3> QED
      BY <3>1, <3>2
  <2>11. 100 * Cardinality(UpTo(w)) >= rank
    BY <1>5, <2>1, <2>10
  <2>12. w \in good
    BY <2>8, <2>11
  <2> QED
    BY <2>8, <2>12
<1> DEFINE v == TrueQuantile(p)
<1>8. v \in good /\ v \in Nat /\ v <= u
  <2>1. good \in SUBSET Nat
    BY ObservationsAre
  <2>2. v = Min(good)
    BY DEF TrueQuantile, rank
  <2> HIDE DEF good, v
  <2>3. Min(good) \in good /\ Min(good) \in Nat /\ \A y \in good : Min(good) <= y
    BY <1>7, <2>1, MinIsSmallest
  <2> QED
    BY <1>5, <1>7, <2>2, <2>3
<1>9. 100 * Cardinality(UpTo(v)) >= rank
  BY <1>8
<1> HIDE DEF v, good
<1>10. ASSUME NEW le \in Edges, v <= le PROVE u <= le
  <2>1. le \in Int /\ v \in Int /\ IsFiniteSet(UpTo(le)) /\ c[le] = Cardinality(UpTo(le))
    BY <1>1, <1>8
  <2>2. /\ Cardinality(UpTo(v)) \in Nat /\ c[le] \in Nat
        /\ Cardinality(UpTo(v)) <= c[le]
    BY <1>10, <2>1, UpToMonotone
  <2>3. 100 * c[le] >= rank
    BY <1>6, <1>9, <2>2
  <2> QED
    BY <1>5, <2>3
<1> DEFINE above == {le \in Edges : v <= le}
<1>11. above \in SUBSET Int /\ u \in above /\ \A y \in above : u <= y
  <2>1. above \in SUBSET Int
    <3>1. above \subseteq Edges
      OBVIOUS
    <3>2. Edges \subseteq Int
      BY <1>1
    <3> HIDE DEF above
    <3> QED
      BY <3>1, <3>2
  <2>2. u \in above
    BY <1>5, <1>8
  <2>3. \A y \in above : y \in Edges /\ v <= y
    OBVIOUS
  <2> HIDE DEF above
  <2> QED
    BY <1>10, <2>1, <2>2, <2>3
<1> HIDE DEF above
<1>12. Min(above) = u
  BY <1>11, MinIs
<1> QED
  BY <1>12 DEF above, v, u, c

-----------------------------------------------------------------------------
(* Percentiles are estimated in their bucket *)

LEMMA ScaledBounds ==
    ASSUME NEW v, Proper(v), NEW le \in Nat
    PROVE  /\ AtMost(v, Point(le)) => AtMost(Times(v, 1000, 1), Point(1000 * le))
           /\ AtMost(Point(le), v) => AtMost(Point(1000 * le), Times(v, 1000, 1))
<1> DEFINE w == Times(v, 1000, 1)
<1>1. AtMost(v, Point(le)) => AtMost(w, Point(1000 * le))
  BY ScaledInside
<1>2. ASSUME AtMost(Point(le), v) PROVE AtMost(Point(1000 * le), w)
  <2>1. v.num \in Nat /\ v.den \in Nat \ {0} /\ w.num = v.num * 1000 /\ w.den = v.den * 1
    BY TimesProper DEF Proper
  <2>2. /\ Point(1000 * le).num = 1000 * le /\ Point(1000 * le).den = 1
        /\ Point(le).num = le /\ Point(le).den = 1
    BY PointIsProper
  <2> HIDE DEF w
  <2>3. le * v.den <= v.num * 1
    BY <1>2, <2>2 DEF AtMost
  <2>4. le * v.den \in Nat /\ (1000 * le) * (v.den * 1) = 1000 * (le * v.den)
    BY <2>1
  <2>5. (1000 * le) * (v.den * 1) <= (v.num * 1000) * 1
    BY <2>1, <2>3, <2>4
  <2> QED
    BY <2>1, <2>2, <2>5 DEF AtMost
<1> QED
  BY <1>1, <1>2 DEF w

\* The boundary below a bucket, where there is none the start.
LEMMA LowerIs ==
    ASSUME NEW c, Distribution(c), NEW u \in Nat
    PROVE  Lower(c, u) \in Nat /\ Max({0} \cup {le \in DOMAIN c : le < u}) = Lower(c, u)
<1> DEFINE B == Below(c, u)
           S == {0} \cup B
           l == Lower(c, u)
<1>1. B \subseteq 0 .. Inf
  BY DEF Below, Distribution
<1>2. IsFiniteSet(B) /\ B \in SUBSET Nat /\ B \in SUBSET Int
  <2> HIDE DEF B
  <2> QED
    BY <1>1, UpToInfFinite
<1>3. l = IF B = {} THEN 0 ELSE Max(B)
  BY DEF Lower
<1> HIDE DEF B, l
<1>4. CASE B = {}
  <2>1. S \in SUBSET Int /\ l \in S /\ l \in Nat /\ \A y \in S : y <= l
    BY <1>3, <1>4
  <2> HIDE DEF S
  <2>2. Max(S) = l
    BY <2>1, MaxIs
  <2> QED
    BY <2>1, <2>2 DEF S, B, l, Below
<1>5. CASE B # {}
  <2>1. l \in B /\ \A y \in B : y <= l
    BY <1>2, <1>3, <1>5, MaxIsLargest
  <2>2. l \in Nat /\ 0 <= l
    BY <1>2, <2>1
  <2>3. S \in SUBSET Int /\ l \in S /\ \A y \in S : y <= l
    BY <1>2, <2>1, <2>2
  <2> HIDE DEF S
  <2>4. Max(S) = l
    BY <2>3, MaxIs
  <2> QED
    BY <2>2, <2>4 DEF S, B, l, Below
<1> QED
  BY <1>4, <1>5

\* The estimate and the edges of its bucket.
LEMMA QuantileInBucket ==
    ASSUME NEW payload, NEW name, NEW want, NEW p \in 1 .. 100, Payload(payload),
           ~Unreadable(buckets(payload, name, want))
    PROVE  LET c == buckets(payload, name, want)
               u == index(c, p)
               v == Quantile(payload, name, p, want)
               b == Lower(c, u)
           IN  /\ u \in Nat /\ b \in Nat /\ Proper(v) /\ AtMost(Point(b), v)
               /\ IF u = Inf THEN AtMost(v, Point(b)) ELSE AtMost(v, Point(u))
<1> DEFINE c == buckets(payload, name, want)
           u == index(c, p)
           v == Quantile(payload, name, p, want)
           b == Lower(c, u)
<1>1. Distribution(c)
  BY BucketsDistribution
<1>2. /\ DOMAIN c # {} /\ c[Max(DOMAIN c)] > 0
      /\ v = IF u # Inf THEN interpolate(c, p) ELSE Point(Max(Finite(c)))
  BY QuantileIs
<1> HIDE DEF c, v
<1>3. u \in Nat
  BY <1>1, <1>2, IndexIs
<1>4. CASE u # Inf
  <2>1. Proper(v) /\ b \in Nat /\ AtMost(Point(b), v) /\ AtMost(v, Point(u))
    BY <1>1, <1>2, <1>4, InterpolateInside
  <2> QED
    BY <1>3, <1>4, <2>1 DEF c, v
<1>5. CASE u = Inf
  <2>1. ~(DOMAIN c \subseteq {Inf})
    BY DEF Unreadable, c
  <2>2. Max(Finite(c)) \in Nat /\ Max(Finite(c)) \in Finite(c)
    BY <1>1, <2>1, FiniteBoundaries
  <2>3. Below(c, u) = Finite(c)
    <3>1. \A le \in DOMAIN c : le < Inf <=> le # Inf
      BY <1>1, InfIsNumber DEF Distribution
    <3> HIDE DEF u
    <3> QED
      BY <1>5, <3>1 DEF Below, Finite
  <2>4. b = Max(Finite(c))
    BY <2>2, <2>3 DEF Lower
  <2> HIDE DEF b
  <2>5. b \in Nat /\ v = Point(b)
    BY <1>2, <1>5, <2>2, <2>4
  <2>6. Proper(v) /\ AtMost(Point(b), v) /\ AtMost(v, Point(b))
    BY <2>5, PointIsProper, PointsOrdered
  <2> QED
    BY <1>3, <1>5, <2>5, <2>6 DEF b, c, v
<1> QED
  BY <1>4, <1>5

\* Where the histogram is whole, what is shown lies in the true percentile's bucket,
\* whatever was observed, by however many engines, in whatever buckets.
THEOREM EstimatesHold == Spec => []EstimateInBucket
<1>1. ReadInv => EstimateInBucket
  <2> DEFINE payload == exposed.lines
             c == buckets(payload, "E2ELatency", Selector)
             q(p) == Quantile(payload, "E2ELatency", p, Selector)
             least(p) == Min({le \in Edges : TrueQuantile(p) <= le})
             below(x) == {0} \cup {le \in Edges : le < x}
             inside(shown, x) ==
                 IF x = Inf THEN /\ AtMost(shown, Point(1000 * Max(below(x))))
                                 /\ AtMost(Point(1000 * Max(below(x))), shown)
                 ELSE /\ AtMost(Point(1000 * Max(below(x))), shown)
                      /\ AtMost(shown, Point(1000 * x))
  <2> SUFFICES ASSUME ReadInv, Histogram, Whole,
                      NEW field \in DOMAIN Percentile, Given(snap[field])
               PROVE  inside(snap[field], least(Percentile[field]))
    BY DEF EstimateInBucket
  <2> DEFINE p == Percentile[field]
             u == index(c, p)
             b == Lower(c, u)
             v == q(p)
  <2>1. Payload(payload)
    BY EdgesAre
  <2>2. p \in 1 .. 100 /\ snap[field] = Times(v, 1000, 1)
    <3> DEFINE r == Parse(here, exposed)
    <3>1. r = vllmParse(payload, here.model)
      BY DEF Parse, Histogram
    <3>2. \A f \in Fields \ Overlaid : snap[f] = r.snap[f]
      BY ObservationsAre, StoredIs
    <3> HIDE DEF r
    <3>3. /\ r.snap["P50LatencyMs"] = Times(q(50), 1000, 1)
          /\ r.snap["P95LatencyMs"] = Times(q(95), 1000, 1)
          /\ r.snap["P99LatencyMs"] = Times(q(99), 1000, 1)
      BY <3>1, VllmReads DEF Selector
    <3> HIDE DEF q
    <3>4. {"P50LatencyMs", "P95LatencyMs", "P99LatencyMs"} \subseteq Fields \ Overlaid
      BY DEF Fields, Overlaid
    <3> QED
      BY <3>2, <3>3, <3>4 DEF Percentile
  <2> HIDE DEF p, payload
  <2>3. ~Unreadable(c)
    BY <2>1, <2>2, QuantilesGiven
  <2>4. /\ u \in Nat /\ b \in Nat /\ Proper(v) /\ AtMost(Point(b), v)
        /\ IF u = Inf THEN AtMost(v, Point(b)) ELSE AtMost(v, Point(u))
    BY <2>1, <2>2, <2>3, QuantileInBucket
  <2>5. least(p) = u
    BY <2>2, <2>3, TrueInBucket DEF payload
  <2>6. Max(below(u)) = b
    <3>1. Distribution(c) /\ DOMAIN c = Edges
      BY <2>1, BucketsDistribution DEF Edges, payload
    <3> HIDE DEF c, u
    <3> QED
      BY <2>4, <3>1, LowerIs
  <2> HIDE DEF c, q, u, b, v, least, below
  <2>7. /\ AtMost(v, Point(b)) => AtMost(snap[field], Point(1000 * b))
        /\ AtMost(v, Point(u)) => AtMost(snap[field], Point(1000 * u))
        /\ AtMost(Point(b), v) => AtMost(Point(1000 * b), snap[field])
    BY <2>2, <2>4, ScaledBounds
  <2>8. inside(snap[field], u)
    BY <2>4, <2>6, <2>7
  <2> QED
    BY <2>5, <2>8 DEF p
<1> QED
  BY <1>1, ReadInvHolds, PTL
=============================================================================
