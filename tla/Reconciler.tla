----------------------------- MODULE Reconciler -----------------------------
(***************************************************************************)
(* Cascader's controllers (internal/controller, with internal/targets and  *)
(* internal/utils beneath it): events filtered into the work queues, one   *)
(* worker per workload kind, and the reconcile each worker runs, cut at    *)
(* every read of the cache and every write to the API server.              *)
(***************************************************************************)
EXTENDS Cluster, Dependencies

CONSTANTS
  RequeueAnnotation,   \* what requeue-after says on each workload
  MergesDelays,        \* whether Add takes over a waiting AddAfter of its key
  Subsecond            \* whether two reloads of a target may share a second

ASSUME RequeueAssumption ==
  RequeueAnnotation \in
    [Workload -> {"absent", "invalid", "positive", "nonpositive"}]
ASSUME SwitchAssumption == MergesDelays \in BOOLEAN /\ Subsecond \in BOOLEAN

VARIABLES
  queued,      \* keys ready in the work queues
  delayed,     \* keys waiting for a RequeueAfter or a retry's backoff
  pc,          \* where the reconcile of each workload stands
  copy,        \* the object in the hands of that reconcile
  todo,        \* the targets it has yet to trigger
  stamped,     \* targets restarted by Cascader within the current second
  cycleGauge,  \* workloads whose cycle-detected metric is 1
  restarts,    \* the restarts-performed counter of each target
  \* ghosts, which no guard reads:
  seen,        \* version of the newest admitted event of each workload
  decided,     \* newest version of each that a decision was made on
  credit,      \* admitted events less reload batches begun
  reached      \* the restart of the source that each target was last reloaded for

queueVars == <<queued, delayed>>
workVars == <<pc, copy, todo>>
metricVars == <<cycleGauge, restarts>>
ghostVars == <<seen, decided, credit, reached>>

Step == {"idle", "mark", "check", "clear", "trigger"}

-----------------------------------------------------------------------------
(* The work queue.  A key is held once however often it is added, and a key
   added while its reconcile runs waits for that to end. *)

Add(w) ==
  /\ queued' = queued \cup {w}
  /\ delayed' = IF MergesDelays THEN delayed \ {w} ELSE delayed

\* AddAfter and AddRateLimited.
AddAfter(w) ==
  /\ delayed' = IF MergesDelays /\ w \in queued THEN delayed ELSE delayed \cup {w}
  /\ UNCHANGED queued

\* The informer takes the next event; after a lost watch it lists afresh and
\* skips to a newer version, and the handler sees one change for several.
Deliver(w) ==
  \E i \in 2..Len(log[w]) :
    /\ IF i = 2 THEN UNCHANGED budget ELSE Spend("relist")
    /\ Advance(w, i)
    /\ IF Admitted(KindOf[w], Cached(w), log[w][i])
       THEN /\ Add(w)
            /\ seen' = [seen EXCEPT ![w] = log[w][i].rv]
            /\ credit' = [credit EXCEPT ![w] = @ + 1]
       ELSE UNCHANGED <<queueVars, seen, credit>>
    /\ UNCHANGED <<rolled, workVars, stamped, metricVars, decided, reached>>

\* A delay ends; MaxLag keeps it from outrunning the cache for ever, marking the
\* same stale copy again and again.
Fire(w) ==
  /\ w \in delayed
  /\ Len(log[w]) <= MaxLag
  /\ delayed' = delayed \ {w}
  /\ queued' = queued \cup {w}
  /\ UNCHANGED <<clusterVars, budget, workVars, stamped, metricVars, ghostVars>>

-----------------------------------------------------------------------------
(* One reconcile *)

\* Faulty variant: the zero value for the default.
RequeueOnlyIfSet(w) == RequeueAnnotation[w] = "positive"

\* requeueDurationFor: no annotation, or one that does not parse, means the
\* default, which flag validation keeps at a second or more; one that parses is
\* taken as it is, and the queue does nothing with a duration not above zero.
RequeueAfter(w) == RequeueAnnotation[w] # "nonpositive"

\* It returns: with nothing to come, or (again) with another attempt.
Return(w) ==
  /\ pc' = [pc EXCEPT ![w] = "idle"]
  /\ copy' = [copy EXCEPT ![w] = NoObject]
  /\ todo' = [todo EXCEPT ![w] = {}]

Decide(w, version) ==
  decided' = [decided EXCEPT ![w] = IF version > @ THEN version ELSE @]

Finish(w, version) ==
  /\ Return(w)
  /\ Decide(w, version)
  /\ UNCHANGED queueVars

Again(w) ==
  /\ Return(w)
  /\ AddAfter(w)
  /\ UNCHANGED decided

\* A worker takes a key, reads the object from the cache and looks for the mark.
Dequeue(w) ==
  /\ w \in queued
  /\ \A v \in Workload : KindOf[v] = KindOf[w] => pc[v] = "idle"
  /\ queued' = queued \ {w}
  /\ IF Cached(w).alive
     THEN /\ pc' = [pc EXCEPT ![w] = IF Cached(w).mark THEN "check" ELSE "mark"]
          /\ copy' = [copy EXCEPT ![w] = Cached(w)]
          /\ UNCHANGED decided
     ELSE Decide(w, Cached(w).rv) /\ UNCHANGED <<pc, copy>>
  /\ UNCHANGED <<clusterVars, budget, delayed, todo, stamped, metricVars,
                 seen, credit, reached>>

\* The two merge patches of the mark annotation, as the server applies them.
Marked(o) == [o EXCEPT !.mark = TRUE]
Unmarked(o) == [o EXCEPT !.mark = FALSE]

\* setLastObservedRestartAnnotation: the patch leaves in the worker's hands the
\* object as the server returned it, fresher than the cache.
SetMark(w) ==
  /\ pc[w] = "mark"
  /\ Server(w).alive
  /\ Write(w, Marked(Server(w)))
  /\ copy' = [copy EXCEPT ![w] = Versioned(w, Marked(Server(w)))]
  /\ pc' = [pc EXCEPT ![w] = "check"]
  /\ UNCHANGED <<rolled, budget, queueVars, todo, stamped, metricVars, ghostVars>>

\* Faulty variant: the error is swallowed.
SetMarkFailsSilently(w) ==
  /\ pc[w] = "mark"
  /\ IF Server(w).alive THEN Spend("markfail") ELSE UNCHANGED budget
  /\ Return(w)
  /\ UNCHANGED <<clusterVars, queueVars, stamped, metricVars, ghostVars>>

\* The patch fails, because the object is gone or for no lasting reason: retry.
SetMarkFails(w) ==
  /\ pc[w] = "mark"
  /\ IF Server(w).alive THEN Spend("markfail") ELSE UNCHANGED budget
  /\ Again(w)
  /\ UNCHANGED <<clusterVars, stamped, metricVars, seen, credit, reached>>

\* checkCycle walks the caches from the copy's targets and reads no further than
\* a workload it cannot fetch or whose references do not parse.
Unreadable(x) == ~Cached(x).alive \/ BadRef \in Cached(x).targets

Walk(w) == [x \in Workload |->
              IF x = w THEN copy[w].targets
              ELSE IF Unreadable(x) THEN {} ELSE Cached(x).targets]

\* Faulty variant: only the source closes a cycle, and only directly.
DirectCycleFound(w) == w \in copy[w].targets

\* The annotations are walked in the random order of a Go map, so when there is
\* both a cycle and an error to run into, either may come first.
CycleFound(w) == ReachesCycle(Walk(w), w)

\* Faulty variant: a workload that is gone is skipped.
ErrorFoundInReferences(w) ==
  \E x \in Reach(Walk(w), {w}) \ {w} : Cached(x).alive /\ BadRef \in Cached(x).targets

ErrorFound(w) == \E x \in Reach(Walk(w), {w}) \ {w} : Unreadable(x)

\* Faulty variant: the error is swallowed.
BadTargetsSilently(w) ==
  /\ pc[w] = "check"
  /\ BadRef \in copy[w].targets
  /\ Return(w)
  /\ UNCHANGED <<clusterVars, queueVars, budget, stamped, metricVars, ghostVars>>

\* extractTargets fails on the source itself: the error is returned, and retried.
BadTargets(w) ==
  /\ pc[w] = "check"
  /\ BadRef \in copy[w].targets
  /\ Again(w)
  /\ UNCHANGED <<clusterVars, budget, stamped, metricVars, seen, credit, reached>>

NoTargets(w) ==
  /\ pc[w] = "check"
  /\ copy[w].targets = {}
  /\ Finish(w, copy[w].rv)
  /\ UNCHANGED <<clusterVars, budget, stamped, metricVars, seen, credit, reached>>

\* Faulty variant: the cycle is returned as an error, which the queue retries.
CheckCycleRetried(w) ==
  /\ pc[w] = "check"
  /\ BadRef \notin copy[w].targets
  /\ copy[w].targets # {}
  /\ CycleFound(w) \/ ErrorFound(w)
  /\ Again(w)
  /\ UNCHANGED <<clusterVars, budget, stamped, metricVars, seen, credit, reached>>

\* A cycle, or any failure of the walk, ends the matter without an error; only
\* the cycle shows in the metric.  The mark stays.
CheckCycle(w) ==
  /\ pc[w] = "check"
  /\ BadRef \notin copy[w].targets
  /\ copy[w].targets # {}
  /\ \/ CycleFound(w) /\ cycleGauge' = cycleGauge \cup {w}
     \/ ErrorFound(w) /\ UNCHANGED cycleGauge
  /\ Finish(w, copy[w].rv)
  /\ UNCHANGED <<clusterVars, budget, stamped, restarts, seen, credit, reached>>

\* Faulty variant: the errors of extractTargets and checkCycle are only logged.
WalkableRegardless(w) == pc[w] = "check" /\ copy[w].targets # {}

Walkable(w) ==
  /\ pc[w] = "check"
  /\ BadRef \notin copy[w].targets
  /\ copy[w].targets # {}
  /\ ~CycleFound(w)
  /\ ~ErrorFound(w)

\* Not stable: come back after the interval, if it is one.
NotStable(w) ==
  /\ Walkable(w)
  /\ ~Stable(KindOf[w], copy[w])
  /\ cycleGauge' = cycleGauge \ {w}
  /\ IF RequeueAfter(w) THEN Again(w) ELSE Finish(w, copy[w].rv)
  /\ UNCHANGED <<clusterVars, budget, stamped, restarts, seen, credit, reached>>

BeginReload(w) ==
  /\ Walkable(w)
  /\ Stable(KindOf[w], copy[w])
  /\ cycleGauge' = cycleGauge \ {w}
  /\ pc' = [pc EXCEPT ![w] = "clear"]
  /\ todo' = [todo EXCEPT ![w] = copy[w].targets]
  /\ credit' = [credit EXCEPT ![w] = @ - 1]
  /\ UNCHANGED <<clusterVars, budget, queueVars, copy, stamped, restarts,
                 seen, decided, reached>>

\* Faulty variant: the mark is left.
ClearMarkOmitted(w) ==
  /\ pc[w] = "clear"
  /\ pc' = [pc EXCEPT ![w] = "trigger"]
  /\ UNCHANGED <<clusterVars, budget, queueVars, copy, todo, stamped, metricVars,
                 ghostVars>>

\* clearLastObservedRestartAnnotation: the mark goes before any target is
\* touched, and the reloads go on even if it could not be removed.
ClearMark(w) ==
  /\ pc[w] = "clear"
  /\ \/ /\ Server(w).alive
        /\ IF Server(w).mark THEN Write(w, Unmarked(Server(w)))
                             ELSE UNCHANGED log
        /\ UNCHANGED budget
     \/ ~Server(w).alive /\ UNCHANGED <<log, budget>>
     \/ Server(w).alive /\ Spend("clearfail") /\ UNCHANGED log
  /\ pc' = [pc EXCEPT ![w] = "trigger"]
  /\ UNCHANGED <<rolled, queueVars, copy, todo, stamped, metricVars, ghostVars>>

\* Faulty variant: the key comes back after its reloads.
TriggeredAgain(w, t) ==
  IF todo[w] = {t} THEN Again(w)
  ELSE /\ todo' = [todo EXCEPT ![w] = @ \ {t}]
       /\ UNCHANGED <<pc, copy, queueVars, decided>>

\* triggerReloads goes on to the next target whatever became of this one.
Triggered(w, t) ==
  IF todo[w] = {t} THEN Finish(w, copy[w].rv)
  ELSE /\ todo' = [todo EXCEPT ![w] = @ \ {t}]
       /\ UNCHANGED <<pc, copy, queueVars, decided>>

\* A target's Trigger, the same for all kinds, reads it from the cache and patches it
\* on the server.
Reloadable(t) == Cached(t).alive /\ Server(t).alive

\* The patch stamps the server's object, whatever the cached copy looked like.  The
\* stamp has a resolution of a second: another one within it changes nothing, and
\* counts all the same.
Trigger(w, t) ==
  /\ pc[w] = "trigger"
  /\ t \in todo[w]
  /\ Reloadable(t)
  /\ IF t \in stamped
     THEN UNCHANGED <<log, stamped, reached>>
     ELSE /\ Write(t, Restarted(Server(t), copy[w].hops + 1))
          /\ stamped' = IF Subsecond THEN stamped \cup {t} ELSE stamped
          /\ reached' = [reached EXCEPT ![w][t] = copy[w].due]
  /\ restarts' = [restarts EXCEPT ![t] = @ + 1]
  /\ Triggered(w, t)
  /\ UNCHANGED <<rolled, budget, cycleGauge, seen, credit>>

\* Faulty variant: a failed reload is returned as an error, which the queue retries.
TriggerFailsRetried(w, t) ==
  /\ pc[w] = "trigger"
  /\ t \in todo[w]
  /\ IF Reloadable(t) THEN Spend("reloadfail") ELSE UNCHANGED budget
  /\ Again(w)
  /\ UNCHANGED <<clusterVars, stamped, metricVars, seen, credit, reached>>

\* Faulty variant: the first failure ends the batch.
TriggerFailsAll(w, t) ==
  /\ pc[w] = "trigger"
  /\ t \in todo[w]
  /\ IF Reloadable(t) THEN Spend("reloadfail") ELSE UNCHANGED budget
  /\ Finish(w, copy[w].rv)
  /\ UNCHANGED <<clusterVars, stamped, metricVars, seen, credit, reached>>

\* Trigger returns an error, because the target cannot be read or patched or for no
\* lasting reason: it is reported and forgotten.
TriggerFails(w, t) ==
  /\ pc[w] = "trigger"
  /\ t \in todo[w]
  /\ IF Reloadable(t) THEN Spend("reloadfail") ELSE UNCHANGED budget
  /\ Triggered(w, t)
  /\ UNCHANGED <<clusterVars, stamped, metricVars, seen, credit, reached>>

-----------------------------------------------------------------------------
(* The process *)

\* The second ends.
Tick ==
  /\ stamped # {}
  /\ stamped' = {}
  /\ UNCHANGED <<clusterVars, budget, queueVars, workVars, metricVars, ghostVars>>

\* Faulty variant: the create events of the first list are let through.
CrashRestartReplayed ==
  /\ Spend("crash")
  /\ log' = [w \in Workload |-> <<Server(w)>>]
  /\ queued' = Workload /\ delayed' = {}
  /\ pc' = [w \in Workload |-> "idle"]
  /\ copy' = [w \in Workload |-> NoObject]
  /\ todo' = [w \in Workload |-> {}]
  /\ cycleGauge' = {}
  /\ restarts' = [w \in Workload |-> 0]
  /\ seen' = [w \in Workload |-> 0]
  /\ decided' = [w \in Workload |-> 0]
  /\ credit' = [w \in Workload |-> 0]
  /\ UNCHANGED <<rolled, stamped, reached>>

\* Cascader dies, or loses its lease, and starts over: queues, delays, running
\* reconciles and metrics are gone, and the caches are listed afresh, which
\* raises nothing but create events.
CrashRestart ==
  /\ Spend("crash")
  /\ log' = [w \in Workload |-> <<Server(w)>>]
  /\ queued' = {} /\ delayed' = {}
  /\ pc' = [w \in Workload |-> "idle"]
  /\ copy' = [w \in Workload |-> NoObject]
  /\ todo' = [w \in Workload |-> {}]
  /\ cycleGauge' = {}
  /\ restarts' = [w \in Workload |-> 0]
  /\ seen' = [w \in Workload |-> 0]
  /\ decided' = [w \in Workload |-> 0]
  /\ credit' = [w \in Workload |-> 0]
  /\ UNCHANGED <<rolled, stamped, reached>>

ReconcilerInit ==
  /\ queued = {} /\ delayed = {}
  /\ pc = [w \in Workload |-> "idle"]
  /\ copy = [w \in Workload |-> NoObject]
  /\ todo = [w \in Workload |-> {}]
  /\ stamped = {}
  /\ cycleGauge = {}
  /\ restarts = [w \in Workload |-> 0]
  /\ seen = [w \in Workload |-> 0]
  /\ decided = [w \in Workload |-> 0]
  /\ credit = [w \in Workload |-> 0]
  /\ reached = [s \in Workload |-> [t \in Workload |-> 0]]

=============================================================================
