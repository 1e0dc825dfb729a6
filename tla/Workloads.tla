------------------------------ MODULE Workloads ------------------------------
(***************************************************************************)
(* The three workload kinds Cascader watches and its judgement of when a   *)
(* rollout is over (internal/kinds, internal/workloads).  An object is any *)
(* record with the fields read here: generation, replicas and status.  For *)
(* a DaemonSet, replicas stands for status.desiredNumberScheduled, and the *)
(* status fields for updatedNumberScheduled, numberReady and so on.        *)
(***************************************************************************)
EXTENDS Naturals

Kind == {"Deployment", "StatefulSet", "DaemonSet"}

\* The status fields Cascader reads; for a StatefulSet, the last two never.
Status == [observed: Nat, updated: Nat, ready: Nat, available: Nat, unavailable: Nat]

\* The owning controller has seen the newest spec.
Observed(o) == o.status.observed >= o.generation

DeploymentStable(o) ==
  /\ Observed(o)
  /\ \/ o.replicas = 0
     \/ /\ o.status.unavailable = 0
        /\ o.status.updated = o.replicas
        /\ o.status.ready = o.replicas
        /\ o.status.available = o.replicas

StatefulSetStable(o) ==
  /\ Observed(o)
  /\ \/ o.replicas = 0
     \/ o.status.updated = o.replicas /\ o.status.ready = o.replicas

DaemonSetStable(o) ==
  /\ Observed(o)
  /\ \/ o.replicas = 0
     \/ /\ o.status.unavailable = 0
        /\ o.status.updated = o.replicas
        /\ o.status.ready = o.replicas
        /\ o.status.available = o.replicas

\* Faulty variants: the generation not looked at, looked at with > for >=, and the
\* updated replicas not looked at.
StableIgnoringGeneration(kind, o) ==
  o.replicas = 0 \/ (o.status.updated = o.replicas /\ o.status.ready = o.replicas)
StableOffByOne(kind, o) ==
  o.status.observed > o.generation /\ o.status.ready = o.replicas
StableIgnoringUpdated(kind, o) == Observed(o) /\ o.status.ready = o.replicas

\* The Workload interface's Stable.
Stable(kind, o) ==
  \/ kind = "Deployment" /\ DeploymentStable(o)
  \/ kind = "StatefulSet" /\ StatefulSetStable(o)
  \/ kind = "DaemonSet" /\ DaemonSetStable(o)

=============================================================================
