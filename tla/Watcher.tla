------------------------------ MODULE Watcher ------------------------------
(***************************************************************************)
(* Kubernetes discovery (internal/k8s) as one Deployment sees it: the      *)
(* informers' caches of Deployments and of HorizontalPodAutoscalers, which *)
(* follow the cluster each at its own pace, and the join made of them when *)
(* the collector asks for replica counts.                                  *)
(*                                                                         *)
(* Objects are kept as the sequence of their versions.  Pods, read only to *)
(* count restarts for the workload listing, are left out.                  *)
(***************************************************************************)
EXTENDS Integers, Sequences

CONSTANTS
    DeploymentVersions, \* what the Deployment may look like: [spec, status, ready]
                        \* or Gone; spec is Unset when no replicas are asked for
    AutoscalerVersions, \* what the namespace's autoscalers may be: sets of
                        \* [kind, name, max, selected]
    MaxChanges          \* bound: changes of either

Gone == [spec |-> 0, status |-> 0, ready |-> -1]
Unset == -1
Name == "workload"      \* the Deployment asked about

\* Kubernetes rejects negative replica counts.
ASSUME VersionsAssumption ==
    \A d \in DeploymentVersions \ {Gone} : d.spec \in Nat \cup {Unset} /\ d.status \in Nat

VARIABLES
    deployments, autoscalers,   \* all versions so far
    dcache, hcache              \* the version each cache holds, by number

watcherVars == <<deployments, autoscalers, dcache, hcache>>

-----------------------------------------------------------------------------
(* Lookups *)

\* Spec.Replicas when it is set, the status' otherwise.
desired(d) == IF d.spec = Unset THEN d.status ELSE d.spec

\* Slip: the kind of object an autoscaler is for is not looked at.
targetsByName(h) == h.name = Name

targets(h) == h.kind = "Deployment" /\ h.name = Name

\* maxReplicasFor: of an autoscaler that targets the Deployment, whichever the cache
\* lists first; 0 without one.  The label selector keeps the others out of the cache.
maxReplicasFor ==
    LET found == {h \in autoscalers[hcache] : h.selected /\ targets(h)}
    IN  IF found = {} THEN {0} ELSE {h.max : h \in found}

\* Replicas: nothing for a Deployment that is not in the cache.
Discovered == deployments[dcache] # Gone

-----------------------------------------------------------------------------
(* The cluster and the watch streams *)

Changes == Len(deployments) + Len(autoscalers) - 2

DeploymentChanges(version) ==
    /\ Changes < MaxChanges /\ version # deployments[Len(deployments)]
    /\ deployments' = Append(deployments, version)
    /\ UNCHANGED <<autoscalers, dcache, hcache>>

AutoscalersChange(version) ==
    /\ Changes < MaxChanges /\ version # autoscalers[Len(autoscalers)]
    /\ autoscalers' = Append(autoscalers, version)
    /\ UNCHANGED <<deployments, dcache, hcache>>

\* An event arrives, or a relist that skips versions.
DeploymentEvent(n) ==
    /\ n > dcache
    /\ dcache' = n
    /\ UNCHANGED <<deployments, autoscalers, hcache>>

AutoscalerEvent(n) ==
    /\ n > hcache
    /\ hcache' = n
    /\ UNCHANGED <<deployments, autoscalers, dcache>>

\* Start returns once both caches have synced.
WatcherInit ==
    /\ deployments \in {<<version>> : version \in DeploymentVersions}
    /\ autoscalers \in {<<version>> : version \in AutoscalerVersions}
    /\ dcache = 1 /\ hcache = 1

WatcherNext ==
    \/ \E version \in DeploymentVersions : DeploymentChanges(version)
    \/ \E version \in AutoscalerVersions : AutoscalersChange(version)
    \/ \E n \in DOMAIN deployments : DeploymentEvent(n)
    \/ \E n \in DOMAIN autoscalers : AutoscalerEvent(n)
=============================================================================
