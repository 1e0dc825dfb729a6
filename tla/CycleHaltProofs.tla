--------------------------- MODULE CycleHaltProofs ---------------------------
(***************************************************************************)
(* While nobody edits the annotations, a workload that leads into a cycle  *)
(* reloads nothing, whatever is restarted, deleted, created, lost or       *)
(* delayed meanwhile.                                                      *)
(***************************************************************************)
EXTENDS CascaderProofs

-----------------------------------------------------------------------------
(* Graphs *)

Graph == [Workload -> SUBSET Workload]

LEMMA ReachWithin ==
  ASSUME NEW g \in Graph, NEW S \in SUBSET Workload, NEW D \in SUBSET Workload,
         S \subseteq D, Closed(g, D)
  PROVE  Reach(g, S) \subseteq D
  BY DEF Graph, Reach

LEMMA ReachClosed ==
  ASSUME NEW g \in Graph, NEW S \in SUBSET Workload
  PROVE  /\ S \subseteq Reach(g, S)
         /\ Reach(g, S) \subseteq Workload
         /\ Closed(g, Reach(g, S))
  <1>1. S \subseteq Reach(g, S) /\ Reach(g, S) \subseteq Workload
    BY DEF Graph, Reach
  <1>2. ASSUME NEW x \in Reach(g, S), x \in Workload, NEW y \in g[x]
        PROVE  y \in Reach(g, S)
    <2>1. DOMAIN g = Workload /\ g[x] \in SUBSET Workload
      BY <1>2 DEF Graph
    <2>2. ASSUME NEW D \in SUBSET (DOMAIN g \cup S \cup UNION {g[z] : z \in DOMAIN g}),
                 S \subseteq D, Closed(g, D)
          PROVE  y \in D
      <3>1. x \in D
        BY <1>2, <2>2 DEF Reach
      <3>2. x \in D \cap DOMAIN g
        BY <1>2, <2>1, <3>1
      <3>3. g[x] \subseteq D
        BY <2>2, <3>2 DEF Closed
      <3> QED
        BY <1>2, <3>3
    <2>3. y \in DOMAIN g \cup S \cup UNION {g[z] : z \in DOMAIN g}
      BY <1>2, <2>1
    <2> QED
      BY <2>2, <2>3 DEF Reach
  <1> QED
    BY <1>1, <1>2 DEF Closed, Graph

\* A cycle that h leads into is one that g leads into, if g has h's edges from
\* everywhere that g itself leads to.
LEMMA CycleInLarger ==
  ASSUME NEW g \in Graph, NEW h \in Graph, NEW w \in Workload,
         \A x \in Reach(g, {w}) : h[x] \subseteq g[x],
         ReachesCycle(h, w)
  PROVE  ReachesCycle(g, w)
  <1> DEFINE R == Reach(g, {w})
  <1>1. w \in R /\ R \subseteq Workload /\ Closed(g, R)
    BY ReachClosed
  <1>2. Closed(h, R)
    BY <1>1 DEF Closed, Graph
  <1>3. Reach(h, {w}) \subseteq R
    BY <1>1, <1>2, ReachWithin
  <1>4. PICK y \in R : OnCycle(h, y)
    BY <1>3 DEF ReachesCycle
  <1> DEFINE D == Reach(g, g[y])
  <1>5. y \in Workload /\ g[y] \in SUBSET Workload /\ h[y] \in SUBSET Workload
    BY <1>1 DEF Graph
  <1>6. g[y] \subseteq R
    BY <1>1, <1>5 DEF Closed, Graph
  <1>7. g[y] \subseteq D /\ D \subseteq Workload /\ Closed(g, D)
    BY <1>5, ReachClosed
  <1>8. D \subseteq R
    BY <1>1, <1>5, <1>6, ReachWithin
  <1>9. Closed(h, D)
    BY <1>7, <1>8 DEF Closed, Graph
  <1>10. h[y] \subseteq D
    BY <1>7
  <1>11. y \in D
    <2>1. y \in Reach(h, h[y])
      BY <1>4 DEF OnCycle
    <2> QED
      BY <1>5, <1>7, <1>9, <1>10, <2>1, ReachWithin
  <1> QED
    BY <1>5, <1>11 DEF OnCycle, ReachesCycle, Graph

-----------------------------------------------------------------------------
(* Annotations that stay as they are *)

\* The graph that the workloads' owners have annotated.
InitGraph == [w \in Workload |-> InitTargets[w] \cap Workload]

\* What is alive names the targets its owner gave it; what a worker is about to judge
\* does; and whoever reloads leads into no cycle.
AsAnnotated(o, w) == o.alive => o.targets = InitTargets[w]

Halting ==
  /\ \A w \in Workload : \A i \in 1..Len(log[w]) : AsAnnotated(log[w][i], w)
  /\ \A w \in Workload : pc[w] \in {"mark", "check"} => copy[w].targets = InitTargets[w]
  /\ \A w \in Workload : pc[w] \in {"clear", "trigger"} => ~ReachesCycle(InitGraph, w)

LEMMA InitGraphType == InitGraph \in Graph
  BY DEF InitGraph, Graph

LEMMA LiveGraphIsSmaller ==
  ASSUME TypeOK, Halting
  PROVE  LiveGraph \in Graph /\ \A x \in Workload : LiveGraph[x] \subseteq InitGraph[x]
  <1>1. ASSUME NEW x \in Workload, Server(x).alive
        PROVE  Server(x).targets = InitTargets[x]
    <2>1. Len(log[x]) \in 1..Len(log[x])
      BY DEF TypeOK
    <2> QED
      BY <1>1, <2>1 DEF Halting, AsAnnotated, Server
  <1> QED
    BY <1>1 DEF LiveGraph, InitGraph, Graph

\* The walk that found no cycle has seen all edges there are.
LEMMA WalkSeesAll ==
  ASSUME TypeOK, Halting, NEW w \in Workload, Walkable(w)
  PROVE  ~ReachesCycle(InitGraph, w)
  <1>1. copy[w].targets = InitTargets[w] /\ copy[w].targets \subseteq Workload
    <2>1. copy[w].targets \subseteq Ref
      BY StatusOf DEF TypeOK
    <2> QED
      BY <2>1 DEF Walkable, Halting, Ref
  <1>2. \A x \in Workload : ~Unreadable(x) =>
          Cached(x).targets \subseteq Workload /\ Cached(x).targets = InitTargets[x]
    <2>1. TAKE x \in Workload
    <2>2. Cached(x) \in Object /\ 1 \in 1..Len(log[x])
      BY EndsType DEF TypeOK, Log
    <2>3. Cached(x).targets \subseteq Ref
      BY <2>2, StatusOf
    <2> QED
      BY <2>2, <2>3 DEF Unreadable, Halting, AsAnnotated, Cached, Ref
  <1>3. Walk(w) \in Graph
    BY <1>1, <1>2 DEF Walk, Graph
  <1>4. ASSUME NEW x \in Reach(Walk(w), {w})
        PROVE  InitGraph[x] \subseteq Walk(w)[x]
    <2>1. x \in Workload
      BY <1>3, ReachClosed
    <2>2. CASE x = w
      BY <1>1, <2>1, <2>2 DEF InitGraph, Walk
    <2>3. CASE x # w
      <3>1. ~Unreadable(x)
        BY <2>3 DEF Walkable, ErrorFound
      <3> QED
        BY <1>2, <2>1, <2>3, <3>1 DEF InitGraph, Walk
    <2> QED
      BY <2>2, <2>3
  <1>5. ~ReachesCycle(Walk(w), w)
    BY DEF Walkable, CycleFound
  <1> QED
    BY <1>3, <1>4, <1>5, InitGraphType, CycleInLarger

-----------------------------------------------------------------------------
(* The inductive invariant: what each kind of step keeps *)

LogAnnotated == \A w \in Workload : \A i \in 1..Len(log[w]) : AsAnnotated(log[w][i], w)

Judged(w) ==
  /\ pc[w] \in {"mark", "check"} => copy[w].targets = InitTargets[w]
  /\ pc[w] \in {"clear", "trigger"} => ~ReachesCycle(InitGraph, w)

LEMMA HaltingParts == Halting <=> LogAnnotated /\ \A w \in Workload : Judged(w)
  BY DEF Halting, LogAnnotated, Judged

LEMMA SameLogAnnotated == LogAnnotated /\ UNCHANGED log => LogAnnotated'
  BY DEF LogAnnotated, AsAnnotated

LEMMA WriteKeepsAnnotated ==
  ASSUME TypeOK, LogAnnotated, NEW w \in Workload, NEW o \in Object, Write(w, o),
         AsAnnotated(o, w)
  PROVE  LogAnnotated'
  <1> DEFINE n == Len(log[w])
             x == Versioned(w, o)
  <1>1. log \in Log /\ log[w] \in Seq(Object) /\ n \in Nat
    BY DEF TypeOK, Log
  <1>2. x \in Object /\ AsAnnotated(x, w)
    <2>1. Server(w).rv + 1 \in Nat
      BY <1>1, EndsType, StatusOf
    <2> QED
      BY <2>1 DEF Versioned, Object, AsAnnotated
  <1>3. log' = [log EXCEPT ![w] = Append(@, x)]
    BY DEF Write
  <1> HIDE DEF x
  <1>4. log'[w] = Append(log[w], x) /\ \A v \in Workload \ {w} : log'[v] = log[v]
    BY <1>1, <1>3 DEF Log
  <1>5. /\ Len(log'[w]) = n + 1
        /\ \A i \in 1..n : log'[w][i] = log[w][i]
        /\ log'[w][n + 1] = x
    BY <1>1, <1>2, <1>4
  <1> SUFFICES ASSUME NEW v \in Workload, NEW i \in 1..Len(log'[v])
               PROVE  AsAnnotated(log'[v][i], v)
    BY DEF LogAnnotated, AsAnnotated
  <1>6. CASE v # w
    BY <1>4, <1>6 DEF LogAnnotated
  <1>7. CASE v = w /\ i = n + 1
    BY <1>2, <1>5, <1>7
  <1>8. CASE v = w /\ i # n + 1
    <2>1. i \in 1..n
      BY <1>1, <1>5, <1>8
    <2> QED
      BY <1>5, <1>8, <2>1 DEF LogAnnotated
  <1> QED
    BY <1>6, <1>7, <1>8

\* What is alive on the server is as annotated, and so is what is made of it.
LEMMA ServerAnnotated ==
  ASSUME TypeOK, LogAnnotated, NEW w \in Workload
  PROVE  AsAnnotated(Server(w), w) /\ AsAnnotated(Cached(w), w)
  <1>1. Len(log[w]) \in 1..Len(log[w]) /\ 1 \in 1..Len(log[w])
    BY DEF TypeOK
  <1> QED
    BY <1>1 DEF LogAnnotated, Server, Cached

\* A new version of w that neither brings it to life nor touches its annotations.
LEMMA SameTargetsWrite ==
  ASSUME TypeOK, LogAnnotated, NEW w \in Workload, NEW o \in Object, Write(w, o),
         o.targets = Server(w).targets, o.alive => Server(w).alive
  PROVE  LogAnnotated'
  <1>1. AsAnnotated(o, w)
    BY ServerAnnotated DEF AsAnnotated
  <1> QED
    BY <1>1, WriteKeepsAnnotated

\* The other workloads' reconciles are untouched, and w's has ended.
LEMMA ReturnJudged ==
  ASSUME TypeOK, \A v \in Workload : Judged(v), NEW w \in Workload, Return(w)
  PROVE  \A v \in Workload : Judged(v)'
  <1>1. pc'[w] = "idle" /\ \A v \in Workload \ {w} : pc'[v] = pc[v] /\ copy'[v] = copy[v]
    BY DEF Return, TypeOK
  <1> QED
    BY <1>1 DEF Judged

LEMMA TriggeredJudged ==
  ASSUME TypeOK, \A v \in Workload : Judged(v), NEW w \in Workload, NEW t \in Workload,
         Triggered(w, t)
  PROVE  \A v \in Workload : Judged(v)'
  <1>1. CASE todo[w] = {t}
    BY <1>1, ReturnJudged DEF Triggered, Finish
  <1>2. CASE todo[w] # {t}
    BY <1>2 DEF Triggered, Judged
  <1> QED
    BY <1>1, <1>2

LEMMA HeldJudged ==
  ASSUME \A v \in Workload : Judged(v), UNCHANGED <<pc, copy>>
  PROVE  \A v \in Workload : Judged(v)'
  BY DEF Judged

-----------------------------------------------------------------------------
(* The steps *)

NobodyEdits == \A w \in Workload : TargetChoices[w] = {}

LEMMA DisturbAnnotated ==
  ASSUME NobodyEdits, TypeOK, LogAnnotated, NEW w \in Workload, Disturb(w)
  PROVE  LogAnnotated'
  <1> DEFINE o == Server(w)
  <1>1. o \in Object /\ o.rv + 1 \in Nat
    BY EndsType, StatusOf DEF TypeOK, Log
  <1>2. CASE Create(w)
    <2> DEFINE x == Created(w, o)
    <2>1. x \in Object /\ x.targets = InitTargets[w]
      BY <1>1, CreatedType DEF Created, Object
    <2>2. Write(w, x)
      BY <1>2 DEF Create
    <2> HIDE DEF x
    <2> QED
      BY <2>1, <2>2, WriteKeepsAnnotated DEF AsAnnotated
  <1>3. CASE UserRestart(w)
    <2> DEFINE x == Restarted(o, 0)
    <2>1. x \in Object /\ x.targets = o.targets /\ x.alive = o.alive
      BY <1>1, RestartedType DEF Restarted, Object
    <2>2. Write(w, x)
      BY <1>3 DEF UserRestart
    <2> HIDE DEF x
    <2> QED
      BY <2>1, <2>2, SameTargetsWrite
  <1>4. CASE Rescale(w)
    <2> DEFINE n == IF o.replicas = 0 THEN Size[w] ELSE 0
               resized == [o EXCEPT !.replicas = n, !.due = o.rv + 1]
               report == [Starting(resized) EXCEPT !.observed = o.status.observed]
               x == [resized EXCEPT !.status = report]
               y == [resized EXCEPT !.generation = @ + 1]
    <2>1. Write(w, x) \/ Write(w, y)
      BY <1>4 DEF Rescale
    <2>2. n \in Nat
      BY SizeAssumption
    <2>3. resized \in Object /\ resized.targets = o.targets /\ resized.alive = o.alive
      <3> HIDE DEF o, n
      <3> QED
        BY <1>1, <2>2 DEF Object
    <2>4. report \in Status
      BY <1>1, <2>3, StatusTypes, StatusOf DEF Status
    <2>5. x \in Object /\ x.targets = o.targets /\ x.alive = o.alive
      <3> HIDE DEF resized, report
      <3> QED
        BY <2>3, <2>4 DEF Object
    <2>6. y \in Object /\ y.targets = o.targets /\ y.alive = o.alive
      <3> HIDE DEF resized
      <3>1. resized.generation + 1 \in Nat
        BY <2>3, StatusOf
      <3> QED
        BY <2>3, <3>1 DEF Object
    <2> HIDE DEF x, y
    <2> QED
      BY <2>1, <2>5, <2>6, SameTargetsWrite
  <1>5. CASE EditTargets(w)
    BY <1>5 DEF EditTargets, NobodyEdits
  <1>6. CASE LosePod(w)
    <2> DEFINE s == [o.status EXCEPT !.ready = @ - 1, !.available = o.status.ready - 1,
                                     !.unavailable = @ + 1]
               restart == KindOf[w] = "DaemonSet" \/ (o.replicas = 1 /\ o.status.ready = 1)
               version == IF restart THEN o.rv + 1 ELSE o.due
               x == [o EXCEPT !.status = s, !.due = version]
    <2>1. s \in Status
      <3>1. o.status.ready > 0 /\ o.status \in Status
        BY <1>1, <1>6, StatusOf DEF LosePod
      <3>2. o.status.ready - 1 \in Nat /\ o.status.unavailable + 1 \in Nat
        BY <1>1, <3>1, StatusOf
      <3> HIDE DEF o
      <3> QED
        BY <3>1, <3>2 DEF Status
    <2>2. x \in Object /\ x.targets = o.targets /\ x.alive = o.alive
      <3>1. version \in Nat
        BY <1>1, StatusOf
      <3> HIDE DEF s, version
      <3> QED
        BY <1>1, <2>1, <3>1 DEF Object
    <2>3. Write(w, x)
      BY <1>6 DEF LosePod
    <2> HIDE DEF x
    <2> QED
      BY <2>2, <2>3, SameTargetsWrite
  <1>7. CASE Delete(w)
    <2> DEFINE x == [o EXCEPT !.alive = FALSE]
    <2>1. x \in Object /\ ~x.alive
      BY <1>1 DEF Object
    <2>2. Write(w, x)
      BY <1>7 DEF Delete
    <2> HIDE DEF x
    <2> QED
      BY <2>1, <2>2, WriteKeepsAnnotated DEF AsAnnotated
  <1> QED
    BY <1>2, <1>3, <1>4, <1>5, <1>6, <1>7 DEF Disturb

LEMMA RollOutAnnotated ==
  ASSUME TypeOK, LogAnnotated, NEW w \in Workload, RollOut(w)
  PROVE  LogAnnotated'
  <1> DEFINE o == Server(w)
  <1>1. o \in Object
    BY EndsType DEF TypeOK, Log
  <1>2. ASSUME NEW s \in Status
        PROVE  LET x == [o EXCEPT !.status = s]
               IN  x \in Object /\ x.targets = o.targets /\ x.alive = o.alive
    BY <1>1 DEF Object
  <1>3. \E s \in Status : Write(w, [o EXCEPT !.status = s])
    <2>1. CASE Observe(w)
      <3>1. FirstReports(KindOf[w], o) \subseteq Status
        BY <1>1, StatusTypes DEF FirstReports
      <3> QED
        BY <2>1, <3>1 DEF Observe
    <2>2. CASE Settle(w)
      BY <1>1, <2>2, StatusTypes DEF Settle
    <2> QED
      BY <2>1, <2>2 DEF RollOut
  <1>4. PICK s \in Status : Write(w, [o EXCEPT !.status = s])
    BY <1>3
  <1> DEFINE x == [o EXCEPT !.status = s]
  <1>5. x \in Object /\ x.targets = o.targets /\ x.alive = o.alive /\ Write(w, x)
    BY <1>2, <1>4
  <1> HIDE DEF x
  <1> QED
    BY <1>5, SameTargetsWrite

LEMMA ReconcileHalting ==
  ASSUME TypeOK, Halting, NEW w \in Workload, Reconcile(w)
  PROVE  Halting'
  <1>a. LogAnnotated /\ (\A v \in Workload : Judged(v)) /\ Server(w) \in Object
    BY HaltingParts, EndsType DEF TypeOK, Log
  <1> SUFFICES LogAnnotated' /\ \A v \in Workload : Judged(v)'
    BY DEF Halting, LogAnnotated, Judged
  <1>1. CASE SetMark(w)
    <2> DEFINE o == Marked(Server(w))
               x == Versioned(w, o)
    <2>1. o \in Object /\ o.targets = Server(w).targets /\ o.alive = Server(w).alive
      BY <1>a DEF Marked, Object
    <2>2. x.targets = o.targets
      BY <2>1 DEF Versioned, Object
    <2>3. Server(w).alive /\ Write(w, o)
          /\ pc' = [pc EXCEPT ![w] = "check"] /\ copy' = [copy EXCEPT ![w] = x]
      BY <1>1 DEF SetMark
    <2> HIDE DEF o, x
    <2>4. LogAnnotated'
      BY <1>a, <2>1, <2>3, SameTargetsWrite
    <2>5. copy'[w].targets = InitTargets[w] /\ pc'[w] = "check"
      <3>1. copy'[w] = x /\ pc'[w] = "check"
        BY <2>3 DEF TypeOK
      <3>2. Server(w).targets = InitTargets[w]
        BY <1>a, <2>3, ServerAnnotated DEF AsAnnotated
      <3> QED
        BY <2>1, <2>2, <3>1, <3>2
    <2>6. \A v \in Workload \ {w} : pc'[v] = pc[v] /\ copy'[v] = copy[v]
      BY <2>3 DEF TypeOK
    <2> QED
      BY <1>a, <2>4, <2>5, <2>6 DEF Judged
  <1>2. CASE SetMarkFails(w) \/ BadTargets(w) \/ NoTargets(w) \/ CheckCycle(w) \/ NotStable(w)
    <2>1. Return(w) /\ UNCHANGED log
      BY <1>2 DEF SetMarkFails, BadTargets, NoTargets, CheckCycle, NotStable, Again, Finish,
                  clusterVars
    <2> QED
      BY <1>a, <2>1, ReturnJudged, SameLogAnnotated
  <1>3. CASE BeginReload(w)
    <2>1. Walkable(w) /\ pc' = [pc EXCEPT ![w] = "clear"] /\ UNCHANGED <<log, copy>>
      BY <1>3 DEF BeginReload, clusterVars
    <2>2. ~ReachesCycle(InitGraph, w)
      BY <2>1, WalkSeesAll
    <2>3. pc'[w] = "clear" /\ \A v \in Workload \ {w} : pc'[v] = pc[v]
      BY <2>1 DEF TypeOK
    <2>4. \A v \in Workload : Judged(v)'
      BY <1>a, <2>1, <2>2, <2>3 DEF Judged
    <2> QED
      BY <1>a, <2>1, <2>4, SameLogAnnotated
  <1>4. CASE ClearMark(w)
    <2> DEFINE o == Unmarked(Server(w))
    <2>1. o \in Object /\ o.targets = Server(w).targets /\ o.alive = Server(w).alive
      BY <1>a DEF Unmarked, Object
    <2>2. /\ Write(w, o) \/ UNCHANGED log
          /\ pc[w] = "clear" /\ pc' = [pc EXCEPT ![w] = "trigger"]
      BY <1>4 DEF ClearMark
    <2> HIDE DEF o
    <2>3. LogAnnotated'
      BY <1>a, <2>1, <2>2, SameTargetsWrite, SameLogAnnotated
    <2>4. \A v \in Workload : Judged(v)'
      BY <1>a, <1>4, <2>2 DEF ClearMark, Judged, TypeOK
    <2> QED
      BY <2>3, <2>4
  <1>5. ASSUME NEW t \in Workload, Trigger(w, t)
        PROVE  LogAnnotated' /\ \A v \in Workload : Judged(v)'
    <2> DEFINE h == copy[w].hops + 1
               x == Restarted(Server(t), h)
    <2>1. h \in Nat /\ Server(t) \in Object
      <3>1. copy[w] \in Object /\ Server(t) \in Object
        BY EndsType DEF TypeOK, Log
      <3> QED
        BY <3>1, StatusOf
    <2>2. x \in Object /\ x.targets = Server(t).targets /\ x.alive = Server(t).alive
      <3>1. x \in Object
        BY <2>1, RestartedType
      <3> HIDE DEF h
      <3> QED
        BY <2>1, <3>1 DEF Restarted, Object
    <2>3. (Write(t, x) \/ UNCHANGED log) /\ Triggered(w, t)
      BY <1>5 DEF Trigger
    <2> HIDE DEF x
    <2> QED
      BY <1>a, <2>2, <2>3, SameTargetsWrite, SameLogAnnotated, TriggeredJudged
  <1>6. ASSUME NEW t \in Workload, TriggerFails(w, t)
        PROVE  LogAnnotated' /\ \A v \in Workload : Judged(v)'
    BY <1>a, <1>6, SameLogAnnotated, TriggeredJudged DEF TriggerFails, clusterVars
  <1> QED
    BY <1>1, <1>2, <1>3, <1>4, <1>5, <1>6 DEF Reconcile

LEMMA DequeueHalting ==
  ASSUME TypeOK, Halting, NEW w \in Workload, Dequeue(w)
  PROVE  Halting'
  <1>a. LogAnnotated /\ \A v \in Workload : Judged(v)
    BY HaltingParts
  <1> SUFFICES LogAnnotated' /\ \A v \in Workload : Judged(v)'
    BY DEF Halting, LogAnnotated, Judged
  <1>1. LogAnnotated'
    BY <1>a, SameLogAnnotated DEF Dequeue, clusterVars
  <1>2. CASE Cached(w).alive
    <2>1. copy'[w] = Cached(w) /\ pc'[w] \in {"mark", "check"}
          /\ \A v \in Workload \ {w} : pc'[v] = pc[v] /\ copy'[v] = copy[v]
      BY <1>2 DEF Dequeue, TypeOK
    <2>2. Cached(w).targets = InitTargets[w]
      BY <1>a, <1>2, ServerAnnotated DEF AsAnnotated
    <2> QED
      BY <1>a, <1>1, <2>1, <2>2 DEF Judged
  <1>3. CASE ~Cached(w).alive
    BY <1>a, <1>1, <1>3, HeldJudged DEF Dequeue
  <1> QED
    BY <1>2, <1>3

LEMMA DeliverHalting ==
  ASSUME TypeOK, Halting, NEW w \in Workload, Deliver(w)
  PROVE  Halting'
  <1>a. LogAnnotated /\ \A v \in Workload : Judged(v)
    BY HaltingParts
  <1>1. PICK i \in 2..Len(log[w]) : Advance(w, i) /\ UNCHANGED workVars
    BY DEF Deliver
  <1> DEFINE n == Len(log[w])
  <1>2. log[w] \in Seq(Object) /\ n \in Nat /\ i \in 2..n
    BY DEF TypeOK
  <1>3. log'[w] = SubSeq(log[w], i, n) /\ \A v \in Workload \ {w} : log'[v] = log[v]
    BY <1>1 DEF Advance, TypeOK
  <1>4. /\ Len(log'[w]) = n - i + 1
        /\ \A j \in 1..(n - i + 1) : log'[w][j] = log[w][j + i - 1]
    BY <1>2, <1>3
  <1>5. ASSUME NEW v \in Workload, NEW j \in 1..Len(log'[v])
        PROVE  AsAnnotated(log'[v][j], v)
    <2>1. CASE v # w
      BY <1>a, <1>3, <2>1 DEF LogAnnotated
    <2>2. CASE v = w
      <3>1. j \in 1..(n - i + 1) /\ log'[w][j] = log[w][j + i - 1]
        BY <1>4, <2>2
      <3>2. j + i - 1 \in 1..n
        <4> HIDE DEF n
        <4> QED
          BY <1>2, <3>1
      <3> QED
        BY <1>a, <2>2, <3>1, <3>2 DEF LogAnnotated
    <2> QED
      BY <2>1, <2>2
  <1>6. LogAnnotated'
    BY <1>5 DEF LogAnnotated, AsAnnotated
  <1>7. \A v \in Workload : Judged(v)'
    BY <1>a, <1>1, HeldJudged DEF workVars
  <1> QED
    BY <1>6, <1>7 DEF Halting, LogAnnotated, Judged

LEMMA NextHalting ==
  ASSUME NobodyEdits
  PROVE  TypeOK /\ Halting /\ [Next]_vars => Halting'
  <1> SUFFICES ASSUME TypeOK, Halting, [Next]_vars PROVE Halting'
    OBVIOUS
  <1>a. LogAnnotated /\ \A v \in Workload : Judged(v)
    BY HaltingParts
  <1>b. (LogAnnotated' /\ \A v \in Workload : Judged(v)') => Halting'
    BY DEF Halting, LogAnnotated, Judged
  <1>1. ASSUME NEW w \in Workload, Disturb(w) \/ RollOut(w)
        PROVE  Halting'
    <2>1. LogAnnotated'
      BY <1>a, <1>1, DisturbAnnotated, RollOutAnnotated
    <2>2. UNCHANGED <<pc, copy>>
      BY <1>1 DEF Disturb, RollOut, cascaderVars, workVars
    <2> QED
      BY <1>a, <1>b, <2>1, <2>2, HeldJudged
  <1>2. ASSUME NEW w \in Workload, Fire(w)
        PROVE  Halting'
    BY <1>a, <1>b, <1>2, SameLogAnnotated, HeldJudged DEF Fire, clusterVars, workVars
  <1>3. CASE Tick
    BY <1>a, <1>b, <1>3, SameLogAnnotated, HeldJudged DEF Tick, clusterVars, workVars
  <1>4. CASE CrashRestart
    <2>1. /\ log' = [w \in Workload |-> <<Server(w)>>]
          /\ pc' = [w \in Workload |-> "idle"]
      BY <1>4 DEF CrashRestart
    <2>2. \A w \in Workload : /\ Len(log'[w]) = 1 /\ log'[w][1] = Server(w)
                              /\ AsAnnotated(Server(w), w)
      BY <1>a, <2>1, ServerAnnotated
    <2>3. LogAnnotated'
      BY <2>2 DEF LogAnnotated, AsAnnotated
    <2> QED
      BY <1>b, <2>1, <2>3 DEF Judged
  <1>5. CASE UNCHANGED vars
    BY <1>a, <1>b, <1>5, SameLogAnnotated, HeldJudged DEF vars, clusterVars, workVars
  <1> QED
    BY <1>1, <1>2, <1>3, <1>4, <1>5, ReconcileHalting, DequeueHalting, DeliverHalting DEF Next

LEMMA InitHalting == Init => Halting
  <1> SUFFICES ASSUME Init, NEW w \in Workload
               PROVE  Judged(w) /\ \A i \in 1..Len(log[w]) : AsAnnotated(log[w][i], w)
    BY DEF Halting, Judged
  <1>1. pc[w] = "idle"
    BY DEF Init, ReconcilerInit
  <1>2. CASE w \in Present
    <2> DEFINE o == Settled(w)
    <2>1. o.targets = InitTargets[w]
      BY DEF Settled, Created, NoObject
    <2>2. log[w] = <<o>>
      BY <1>2 DEF Init, ClusterInit
    <2> HIDE DEF o
    <2> QED
      BY <1>1, <2>1, <2>2 DEF Judged, AsAnnotated
  <1>3. CASE w \notin Present
    <2>1. log[w] = <<NoObject>>
      BY <1>3 DEF Init, ClusterInit
    <2> QED
      BY <1>1, <2>1 DEF Judged, AsAnnotated, NoObject
  <1> QED
    BY <1>2, <1>3

\* While nobody edits the annotations, a workload that leads into a cycle never gets as
\* far as a reload, whatever else happens: a walk that ends without verdict has read all of
\* the annotations there are (checkCycle gives up on a workload that it cannot fetch), and
\* no deletion or creation adds an edge to them.
THEOREM CyclesHalt ==
  ASSUME \A w \in Workload : TargetChoices[w] = {}
  PROVE  Spec => []CycleHalts
  <1>1. NobodyEdits
    BY DEF NobodyEdits
  <1>2. TypeOK /\ Halting => CycleHalts
    <2> SUFFICES ASSUME TypeOK, Halting, NEW w \in Workload,
                        pc[w] \in {"clear", "trigger"}, ReachesCycle(LiveGraph, w)
                 PROVE  FALSE
      BY DEF CycleHalts
    <2>1. \A x \in Reach(InitGraph, {w}) : LiveGraph[x] \subseteq InitGraph[x]
      BY LiveGraphIsSmaller, InitGraphType, ReachClosed
    <2>2. ReachesCycle(InitGraph, w)
      BY <2>1, LiveGraphIsSmaller, InitGraphType, CycleInLarger
    <2> QED
      BY <2>2 DEF Halting
  <1>3. TypeOK /\ Halting /\ [Next]_vars => Halting'
    BY <1>1, NextHalting
  <1> QED
    BY <1>2, <1>3, InitHalting, TypeCorrect, PTL DEF Spec

=============================================================================
