------------------------------- MODULE Cluster -------------------------------
(***************************************************************************)
(* The Kubernetes side of Cascader: the workload objects on the API        *)
(* server, the informer caches that trail behind them, and everyone else   *)
(* who changes the objects -- users, the workload controllers that roll    *)
(* templates out, and failing pods.  None of it is Cascader's own code; it *)
(* is modelled from what Cascader reads, patches and watches.              *)
(*                                                                         *)
(* log[w] is the part of w's history that still matters: its first entry   *)
(* is the copy in Cascader's cache, its last the object on the API server, *)
(* and the entries after the first are watch events on their way.          *)
(***************************************************************************)
EXTENDS Predicates, Sequences, FiniteSets

CONSTANTS
  Workload,        \* the objects, each a kind, a namespace and a name
  KindOf,          \* the kind of each
  BadRef,          \* a target reference with too many slashes
  InitTargets,     \* the targets each is annotated with when created
  TargetChoices,   \* the target sets a user may change that to
  Present,         \* the workloads that exist at the start
  Size,            \* the replicas of each while it is not scaled to zero
  MaxLag,          \* bound: watch events in flight per workload
  Disturbed,       \* bound: the workloads that users and accidents touch
  Rolling,         \* bound: the workloads whose rollouts are followed; those of
                   \* a workload that is nobody's source are seen by nobody
  Budget           \* bound: how often each kind of outside event happens

Ref == Workload \cup {BadRef}

Op == {"restart", "rescale", "edit", "lose", "delete", "create",
       "relist", "markfail", "clearfail", "reloadfail", "crash"}

ASSUME FiniteAssumption == IsFiniteSet(Workload)
ASSUME RefAssumption == BadRef \notin Workload
ASSUME KindAssumption == KindOf \in [Workload -> Kind]
ASSUME TargetsAssumption ==
  /\ InitTargets \in [Workload -> SUBSET Ref]
  /\ TargetChoices \in [Workload -> SUBSET SUBSET Ref]
ASSUME PresentAssumption == Present \subseteq Workload
ASSUME SizeAssumption == Size \in [Workload -> Nat \ {0}]
ASSUME BoundAssumption ==
  /\ MaxLag \in Nat /\ Budget \in [Op -> Nat]
  /\ Disturbed \subseteq Workload /\ Rolling \subseteq Workload

Object ==
  [rv: Nat,               \* resource version, counted per workload
   alive: BOOLEAN,
   annotated: BOOLEAN,    \* some target annotation is present
   targets: SUBSET Ref,   \* what the target annotations name
   mark: BOOLEAN,         \* the last-observed-restart annotation is present
   template: Nat,         \* the version that last changed the pod template
   generation: Nat,
   replicas: Nat,
   status: Status,
   hops: Nat,             \* ghost: how many of Cascader's reloads in a row, one
                          \* brought on by the other, led to this template
   due: Nat]              \* ghost: the newest version that came of what the README
                          \* calls a restart, and is not yet forgotten with its life

VARIABLES
  log,      \* see above
  rolled,   \* ghost: the newest generation that all pods of each workload run
  budget    \* what is left of Budget

clusterVars == <<log, rolled>>

Server(w) == log[w][Len(log[w])]
Cached(w) == log[w][1]

\* The API server accepts a write: o, with the next version, is w's newest.
Versioned(w, o) == [o EXCEPT !.rv = Server(w).rv + 1]
Write(w, o) == log' = [log EXCEPT ![w] = Append(@, Versioned(w, o))]

\* The informer's copy moves on to the i-th entry of the log.
Advance(w, i) == log' = [log EXCEPT ![w] = SubSeq(@, i, Len(@))]

Spend(op) == budget[op] > 0 /\ budget' = [budget EXCEPT ![op] = @ - 1]

-----------------------------------------------------------------------------
(* Statuses the workload controllers report for an object's newest spec *)

NoStatus == [observed |-> 0, updated |-> 0, ready |-> 0, available |-> 0,
             unavailable |-> 0]

Complete(o) == [observed |-> o.generation, updated |-> o.replicas, ready |-> o.replicas,
                available |-> o.replicas, unavailable |-> 0]

\* The new pods are made and none of them is ready yet; the old ones are gone.
Starting(o) == [Complete(o) EXCEPT !.ready = 0, !.available = 0,
                                   !.unavailable = o.replicas]

\* The new spec is observed; the pods are still all of the old template.
Lagging(o) == [Complete(o) EXCEPT !.updated = 0]

\* A surge: every new pod is made, but old ones still serve in the place of some.
Surging(o) == [Complete(o) EXCEPT !.unavailable = 1]

\* What a controller may report when it first sees a new spec.
FirstReports(kind, o) ==
  IF o.replicas = 0 THEN {Complete(o)}
  ELSE {Starting(o)}
       \cup (IF o.status.ready = o.replicas THEN {Lagging(o)} ELSE {})
       \cup (IF o.status.ready = o.replicas /\ kind = "Deployment"
             THEN {Surging(o)} ELSE {})

-----------------------------------------------------------------------------
(* Objects that come and go *)

NoObject == [rv |-> 0, alive |-> FALSE, annotated |-> FALSE, targets |-> {},
             mark |-> FALSE, template |-> 0, generation |-> 0, replicas |-> 0,
             status |-> NoStatus, hops |-> 0, due |-> 0]

\* w as its owner creates it; the counters go on from an earlier life of w.
Created(w, last) ==
  [last EXCEPT !.alive = TRUE, !.annotated = InitTargets[w] # {},
               !.targets = InitTargets[w], !.mark = FALSE, !.template = last.rv + 1,
               !.generation = @ + 1, !.replicas = Size[w], !.status = NoStatus,
               !.hops = 0, !.due = 0]

\* w created and rolled out before Cascader starts.
Settled(w) ==
  LET o == [Created(w, NoObject) EXCEPT !.rv = 1]
  IN  [o EXCEPT !.status = Complete(o)]

ClusterInit ==
  /\ log = [w \in Workload |-> <<IF w \in Present THEN Settled(w) ELSE NoObject>>]
  /\ rolled = [w \in Workload |-> IF w \in Present THEN 1 ELSE 0]
  /\ budget = Budget

Create(w) ==
  /\ ~Server(w).alive
  /\ Spend("create")
  /\ Write(w, Created(w, Server(w)))
  /\ UNCHANGED rolled

-----------------------------------------------------------------------------
(* Everyone else's changes to a live object.  MaxLag bounds these alone: they
   wait while too many events are in flight, Cascader's own writes never do. *)

Live(w) == Server(w).alive /\ Len(log[w]) <= MaxLag

\* A new pod template: kubectl rollout restart, a new image, Cascader's patch.
Restarted(o, hops) ==
  [o EXCEPT !.template = o.rv + 1, !.generation = @ + 1, !.hops = hops,
            !.due = o.rv + 1]

UserRestart(w) ==
  /\ Live(w)
  /\ Spend("restart")
  /\ Write(w, Restarted(Server(w), 0))
  /\ UNCHANGED rolled

\* To zero and back.  The wanted pods of a DaemonSet follow the nodes, are part
\* of its status and have no generation.
Rescale(w) ==
  LET o == Server(w)
      n == IF o.replicas = 0 THEN Size[w] ELSE 0
      resized == [o EXCEPT !.replicas = n, !.due = o.rv + 1]
  IN  /\ Live(w)
      /\ Spend("rescale")
      /\ IF KindOf[w] = "DaemonSet"
         THEN /\ Write(w, [resized EXCEPT !.status =
                             [Starting(resized) EXCEPT !.observed = o.status.observed]])
              /\ rolled' = [rolled EXCEPT ![w] =
                              IF n = 0 /\ o.status.observed = o.generation
                              THEN o.generation ELSE @]
         ELSE /\ Write(w, [resized EXCEPT !.generation = @ + 1])
              /\ UNCHANGED rolled

\* An annotation may be left in place with nothing in it.
EditTargets(w) ==
  \E S \in TargetChoices[w], present \in BOOLEAN :
    /\ Live(w)
    /\ S # {} => present
    /\ Spend("edit")
    /\ Write(w, [Server(w) EXCEPT !.targets = S, !.annotated = present])
    /\ UNCHANGED rolled

\* The workload's controller sees a new spec and begins to act on it.
Observe(w) ==
  LET o == Server(w)
  IN  /\ Live(w)
      /\ o.status.observed < o.generation
      /\ \E report \in FirstReports(KindOf[w], o) : Write(w, [o EXCEPT !.status = report])
      /\ rolled' = [rolled EXCEPT ![w] = IF o.replicas = 0 THEN o.generation ELSE @]
      /\ UNCHANGED budget

\* It finishes: every wanted pod runs the newest template and serves.
Settle(w) ==
  LET o == Server(w)
  IN  /\ Live(w)
      /\ o.status.observed = o.generation
      /\ o.status # Complete(o)
      /\ Write(w, [o EXCEPT !.status = Complete(o)])
      /\ rolled' = [rolled EXCEPT ![w] = o.generation]
      /\ UNCHANGED budget

\* One serving pod fails, is evicted or is deleted.  For a workload of one pod, and for
\* every DaemonSet, that counts as a restart.
LosePod(w) ==
  LET o == Server(w)
      lost == [o.status EXCEPT !.ready = @ - 1, !.available = o.status.ready - 1,
                               !.unavailable = @ + 1]
      restart == KindOf[w] = "DaemonSet" \/ (o.replicas = 1 /\ o.status.ready = 1)
  IN  /\ Live(w)
      /\ o.status.ready > 0
      /\ Spend("lose")
      /\ Write(w, [o EXCEPT !.status = lost, !.due = IF restart THEN o.rv + 1 ELSE @])
      /\ UNCHANGED rolled

\* The tombstone keeps what the object last was.
Delete(w) ==
  /\ Live(w)
  /\ Spend("delete")
  /\ Write(w, [Server(w) EXCEPT !.alive = FALSE])
  /\ UNCHANGED rolled

=============================================================================
