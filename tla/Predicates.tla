----------------------------- MODULE Predicates -----------------------------
(***************************************************************************)
(* Which changes of a watched object Cascader takes for a restart          *)
(* (internal/predicates, and the checks the three reconcilers register in  *)
(* SetupWithManager).  Pod templates are compared by value: the hash the   *)
(* code compares is taken to be injective.                                 *)
(***************************************************************************)
EXTENDS Workloads

SpecChanged(old, new) == old.template # new.template

ScaledToZero(old, new) == old.replicas > 0 /\ new.replicas = 0

\* Faulty variant: waits for the first pod, in the update that asks for it.
ScaledFromZeroWhenReady(old, new) == old.replicas = 0 /\ new.status.ready > 0

ScaledFromZero(old, new) == old.replicas = 0 /\ new.replicas > 0

\* Only the old object's replica count is compared with one, and a Deployment
\* must lose readiness and availability in the same update.
SingleReplicaPodDeleted(kind, old, new) ==
  /\ old.replicas = 1
  /\ old.status.ready = 1 /\ new.status.ready = 0
  /\ kind = "Deployment" => old.status.available = 1 /\ new.status.available = 0

\* Faulty variant: pods that are updated and not available go unnoticed.
DaemonSetUpdating(new) == new.status.updated # new.replicas

\* Looks at the new object alone: it holds of every update of a DaemonSet that
\* is rolling out, whatever the update changed.
DaemonSetTransitioning(new) ==
  new.status.updated # new.replicas \/ new.status.unavailable > 0

DeploymentChecks(old, new) ==
  \/ SpecChanged(old, new)
  \/ SingleReplicaPodDeleted("Deployment", old, new)
  \/ ScaledToZero(old, new)
  \/ ScaledFromZero(old, new)

StatefulSetChecks(old, new) ==
  \/ SpecChanged(old, new)
  \/ SingleReplicaPodDeleted("StatefulSet", old, new)
  \/ ScaledToZero(old, new)
  \/ ScaledFromZero(old, new)

DaemonSetChecks(old, new) ==
  \/ SpecChanged(old, new)
  \/ DaemonSetTransitioning(new)
  \/ ScaledToZero(old, new)
  \/ ScaledFromZero(old, new)

\* Faulty variant: one check too few.
OnlyScaleChecks(kind, old, new) == ScaledToZero(old, new) \/ ScaledFromZero(old, new)

UpdateChecks(kind, old, new) ==
  \/ kind = "Deployment" /\ DeploymentChecks(old, new)
  \/ kind = "StatefulSet" /\ StatefulSetChecks(old, new)
  \/ kind = "DaemonSet" /\ DaemonSetChecks(old, new)

\* The filter's verdict on the event that an informer raises when its copy of an
\* object moves from old to new: an update, a deletion, or a creation, which is
\* never let through.
Admitted(kind, old, new) ==
  \/ old.alive /\ new.alive /\ new.annotated /\ UpdateChecks(kind, old, new)
  \/ old.alive /\ ~new.alive /\ old.annotated

=============================================================================
