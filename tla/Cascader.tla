------------------------------- MODULE Cascader -------------------------------
(***************************************************************************)
(* Cascader in its cluster: the reconcilers and everyone else interleaved, *)
(* and what the two together promise.                                      *)
(***************************************************************************)
EXTENDS Reconciler, Integers

vars == <<clusterVars, budget, queueVars, workVars, stamped, metricVars, ghostVars>>
cascaderVars == <<queueVars, workVars, stamped, metricVars, ghostVars>>

Init == ClusterInit /\ ReconcilerInit

\* Users and accidents.
Disturb(w) ==
  /\ w \in Disturbed
  /\ \/ Create(w) \/ UserRestart(w) \/ Rescale(w) \/ EditTargets(w)
     \/ LosePod(w) \/ Delete(w)
  /\ UNCHANGED cascaderVars

\* The workload controllers.
RollOut(w) ==
  /\ w \in Rolling
  /\ Observe(w) \/ Settle(w)
  /\ UNCHANGED cascaderVars

\* The worker that holds w takes its next step.
Reconcile(w) ==
  \/ SetMark(w) \/ SetMarkFails(w)
  \/ BadTargets(w) \/ NoTargets(w) \/ CheckCycle(w) \/ NotStable(w) \/ BeginReload(w)
  \/ ClearMark(w)
  \/ \E t \in Workload : Trigger(w, t) \/ TriggerFails(w, t)

Next ==
  \/ \E w \in Workload : \/ Disturb(w) \/ RollOut(w)
                         \/ Deliver(w) \/ Fire(w) \/ Dequeue(w) \/ Reconcile(w)
  \/ Tick
  \/ CrashRestart

Spec == Init /\ [][Next]_vars

-----------------------------------------------------------------------------
(* Fairness.  The informers keep delivering, timers fire, seconds pass, a
   reconcile goes on to its next step and rollouts end.  Users, accidents, failing
   calls and restarts of Cascader owe nothing.  A work queue is first-in first-out
   and its worker always comes back to it, so a key that waits there gets its turn
   however many others do: strong fairness for each key. *)

Fairness ==
  /\ \A w \in Workload : /\ WF_vars(RollOut(w))
                         /\ WF_vars(Deliver(w))
                         /\ WF_vars(Fire(w))
                         /\ SF_vars(Dequeue(w))
                         /\ WF_vars(Reconcile(w))
  /\ WF_vars(Tick)

FairSpec == Spec /\ Fairness

-----------------------------------------------------------------------------
(* Safety *)

\* The shape of the state.
TypeOK ==
  /\ log \in [Workload -> Seq(Object) \ {<<>>}]
  /\ rolled \in [Workload -> Nat]
  /\ budget \in [Op -> Nat]
  /\ queued \subseteq Workload /\ delayed \subseteq Workload
  /\ pc \in [Workload -> Step]
  /\ copy \in [Workload -> Object]
  /\ todo \in [Workload -> SUBSET Workload]
  /\ stamped \subseteq Workload /\ cycleGauge \subseteq Workload
  /\ restarts \in [Workload -> Nat]
  /\ seen \in [Workload -> Nat] /\ decided \in [Workload -> Nat]
  /\ credit \in [Workload -> Int]
  /\ reached \in [Workload -> [Workload -> Nat]]

\* A batch of reloads is never begun twice for one event: counted since Cascader
\* started, the batches of a workload never outnumber the events of it that the
\* predicates let through.  (Add, AddAfter and the returns of ReconcileWorkload:
\* no path puts a key back into the queue and also goes on to reload.)
NoUncausedReload == \A w \in Workload : credit[w] >= 0

\* An event that was let through is never lost on the way: until a reconcile has
\* come to a decision on a copy at least as new as the event, the key is queued,
\* waits for its delay, or is in the hands of a worker with such a copy.  (The
\* queue's collapsing of keys, the cache read after the dequeue, RequeueAfter, and
\* the returned errors of ReconcileWorkload.)
NoForgottenEvent ==
  \A w \in Workload :
    \/ seen[w] <= decided[w]
    \/ w \in queued \cup delayed
    \/ pc[w] # "idle" /\ copy[w].rv >= seen[w]

\* Targets are reloaded only on account of a generation that every pod of the
\* source has come to run: the kinds' Stable(), judged on a copy that may be behind
\* the server, never takes a rollout that has not started for one that has ended.
ReloadAfterRollout ==
  \A w \in Workload :
    pc[w] \in {"clear", "trigger"} => copy[w].generation <= rolled[w]

\* Nothing is on its way: queues empty, workers idle, caches current, rollouts over.
Calm ==
  /\ queued = {} /\ delayed = {}
  /\ \A w \in Workload :
       /\ pc[w] = "idle"
       /\ Len(log[w]) = 1
       /\ w \in Rolling /\ Server(w).alive => Server(w).status = Complete(Server(w))

\* The graph the annotations on the API server describe.
LiveGraph == [w \in Workload |-> IF Server(w).alive THEN Server(w).targets \cap Workload
                                 ELSE {}]

\* How often Cascader has come up again.
Crashes == Budget["crash"] - budget["crash"]

\* The targets that have not been reloaded since their source's newest restart: a new pod
\* template, all replicas gone or the first ones back, its only pod or one of a
\* DaemonSet's lost.
Missed ==
  {e \in Workload \X Workload :
     /\ e[2] \in LiveGraph[e[1]]
     /\ Server(e[2]).alive
     /\ reached[e[1]][e[2]] < Server(e[1]).due}

\* Those of them that should have been: a source that leads into a cycle reloads nothing.
Overdue == {e \in Missed : ~ReachesCycle(LiveGraph, e[1])}

\* No restart stops short of a target, and no failure spreads: once everything is calm,
\* each target that exists has been reloaded since its source's newest restart, but for
\* those whose own reload failed and those of a source that leads into a cycle, whichever
\* way the events, the requeues and other sources' reloads interleaved, unless Cascader
\* itself was restarted.  (The predicates notice every kind of restart in the cached copies
\* they compare; triggerReloads goes on to the next target, and no path leaves the queue
\* with a reload still owed.)
CalmMeansReloaded ==
  Calm /\ Crashes = 0 => Cardinality(Overdue) <= Budget["reloadfail"] - budget["reloadfail"]

\* Every mark is taken off again: a calm cluster carries none but on workloads that lead
\* into a cycle.
CalmMeansUnmarked ==
  Calm => \A w \in Workload : Server(w).mark => ReachesCycle(LiveGraph, w)

\* While the annotations say that w leads into a cycle, w never gets as far as a
\* reload (checkCycle before Stable, and the direct comparison with the source).
CycleHalts ==
  \A w \in Workload :
    pc[w] \in {"clear", "trigger"} => ~ReachesCycle(LiveGraph, w)

\* Reloads die out: even while the annotations are being edited into a cycle, no
\* chain of reloads that bring one another on is longer than twice round them all.
ChainsEnd == \A w \in Workload : Server(w).hops <= 2 * Cardinality(Workload)

\* In a calm cluster the cycle metric shows 1 only for a workload that leads into
\* a cycle.  (It need not: only checkCycle writes the metric, and once the annotations
\* are gone no reconcile of the workload gets there.  README.md, section 5.)
GaugeIsCurrent == Calm => \A w \in cycleGauge : ReachesCycle(LiveGraph, w)

\* Every restart that is counted was performed: the counter of t goes up only in a step
\* that changes t's pod template.  (triggerReloads counts whenever Trigger has returned
\* without error, which it does even if the stamp was there already.)
CountedRestartsHappen ==
  [][\A t \in Workload :
       restarts'[t] > restarts[t] => Server(t)'.template # Server(t).template]_vars

-----------------------------------------------------------------------------
(* What it comes to: Cascader implements Cascade.  A workload has an open event while
   the newest that was let through is newer than anything decided on; its batch is what
   the reconcile at work has yet to trigger. *)

Templates == [w \in Workload |-> Server(w).template]
Unanswered == {w \in Workload : seen[w] > decided[w]}

Promise == INSTANCE Cascade
             WITH template <- Templates, owed <- credit, open <- Unanswered, batch <- todo,
                  starts <- Crashes

\* Queues, workers, stale copies, patches and failures together look like Cascade: a
\* batch is begun only for an event of its source, never holds the source itself, and is
\* worked off one target at a time whatever becomes of each; an event is closed only by
\* a decision; and a crash alone makes Cascader forget any of this.
ImplementsCascade == Promise!Spec

-----------------------------------------------------------------------------
(* Liveness *)

\* Cascader comes to rest once the outside does: no reload sets off another for
\* ever, neither along a cycle that was annotated while reloads were running nor by
\* the events that Cascader's own patches raise.
Quiescence == <>[](/\ queued = {} /\ delayed = {}
                   /\ \A w \in Workload : pc[w] = "idle" /\ Len(log[w]) = 1)

\* Each restart of a source that leads into no cycle gets to its targets in the end: from
\* some time on every target has been reloaded since its source's newest restart, but for
\* those whose own reload failed.
CascadeReaches ==
  <>[](Cardinality(Overdue) <= Budget["reloadfail"] - budget["reloadfail"])

\* A restart that Cascader has seen, and marked its source for, gets to the targets
\* that the source names.
DetectedReaches ==
  \A s \in Workload :
    Server(s).mark ~> \A t \in Server(s).targets : reached[s][t] >= Server(s).due

\* No event waits for ever: what is let through is decided on in the end, by a reload
\* of its targets or by a verdict against it.  (WF and SF of the steps above; a key is
\* never parked anywhere but in a queue that hands it out again.)
EventsAnswered == Promise!Answered

\* A mark does not stay, unless its workload leads into a cycle: what set it is followed
\* by a reconcile that removes it.
MarkCleared ==
  \A w \in Workload :
    Server(w).mark /\ ~ReachesCycle(LiveGraph, w) ~> ~Server(w).mark

=============================================================================
