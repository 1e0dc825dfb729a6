---------------------------- MODULE CascaderProofs ----------------------------
(***************************************************************************)
(* The type of Cascader's state, for every set of workloads, every graph   *)
(* and every bound, and the facts about its operators that the other       *)
(* proofs rest on.                                                         *)
(***************************************************************************)
EXTENDS Cascader, TLAPS

-----------------------------------------------------------------------------
(* The operators that make and change objects *)

LEMMA StatusTypes ==
  ASSUME NEW o \in Object
  PROVE  /\ Complete(o) \in Status
         /\ Starting(o) \in Status
         /\ Lagging(o) \in Status
         /\ Surging(o) \in Status
  BY DEF Complete, Starting, Lagging, Surging, Status, Object

LEMMA NoObjectType == NoObject \in Object
  BY DEF NoObject, NoStatus, Object, Status, Ref

LEMMA CreatedType ==
  ASSUME NEW w \in Workload, NEW o \in Object
  PROVE  Created(w, o) \in Object
  <1>1. /\ InitTargets[w] \in SUBSET Ref /\ (InitTargets[w] # {}) \in BOOLEAN
        /\ Size[w] \in Nat
    BY TargetsAssumption, SizeAssumption
  <1>2. NoStatus \in Status
    BY DEF NoStatus, Status
  <1>3. o.rv + 1 \in Nat /\ o.generation + 1 \in Nat
    BY DEF Object
  <1> QED
    BY <1>1, <1>2, <1>3 DEF Created, Object

LEMMA SettledType == ASSUME NEW w \in Workload PROVE Settled(w) \in Object
  <1> DEFINE o == [Created(w, NoObject) EXCEPT !.rv = 1]
  <1>1. o \in Object
    BY NoObjectType, CreatedType DEF Object
  <1>2. Complete(o) \in Status
    BY <1>1, StatusTypes
  <1> QED
    BY <1>1, <1>2 DEF Settled, Object

LEMMA RestartedType ==
  ASSUME NEW o \in Object, NEW h \in Nat
  PROVE  Restarted(o, h) \in Object
  <1>1. o.rv + 1 \in Nat /\ o.generation + 1 \in Nat
    BY DEF Object
  <1> QED
    BY <1>1 DEF Restarted, Object

\* The type of log.
Log == [Workload -> Seq(Object) \ {<<>>}]

LEMMA EndsType ==
  ASSUME log \in Log, NEW w \in Workload
  PROVE  Server(w) \in Object /\ Cached(w) \in Object
  BY DEF Log, Server, Cached

LEMMA WriteType ==
  ASSUME log \in Log, NEW w \in Workload, NEW o \in Object, Write(w, o)
  PROVE  log' \in Log
  <1>1. Server(w) \in Object
    BY EndsType
  <1>2. Versioned(w, o) \in Object
    BY <1>1 DEF Versioned, Object
  <1>3. Append(log[w], Versioned(w, o)) \in Seq(Object) \ {<<>>}
    BY <1>2 DEF Log
  <1> QED
    BY <1>3 DEF Write, Log

LEMMA AdvanceType ==
  ASSUME log \in Log, NEW w \in Workload, NEW i \in 2..Len(log[w]), Advance(w, i)
  PROVE  log' \in Log
  <1> DEFINE s == log[w]
             n == Len(s)
  <1>1. s \in Seq(Object) /\ n \in Nat /\ i \in 1..n
    BY DEF Log
  <1>2. SubSeq(s, i, n) \in Seq(Object)
    BY <1>1
  <1>3. Len(SubSeq(s, i, n)) >= 1
    BY <1>1
  <1>4. SubSeq(s, i, n) # <<>>
    <2> SUFFICES ASSUME SubSeq(s, i, n) = <<>> PROVE FALSE
      OBVIOUS
    <2>1. Len(<<>>) = 0
      OBVIOUS
    <2> HIDE DEF s, n
    <2> QED
      BY <1>3, <2>1
  <1> QED
    BY <1>2, <1>4 DEF Advance, Log

LEMMA SpendType ==
  ASSUME budget \in [Op -> Nat], NEW op \in Op, Spend(op)
  PROVE  budget' \in [Op -> Nat]
  BY DEF Spend

LEMMA StatusOf ==
  ASSUME NEW o \in Object
  PROVE  /\ o.generation \in Nat /\ o.replicas \in Nat /\ o.template \in Nat
         /\ o.rv \in Nat /\ o.hops \in Nat /\ o.due \in Nat /\ o.targets \in SUBSET Ref
         /\ o.status \in Status
         /\ o.status.ready \in Nat /\ o.status.unavailable \in Nat
         /\ o.status.observed \in Nat
  BY DEF Object, Status

-----------------------------------------------------------------------------
(* Type correctness *)

\* The type of the cluster's variables, and what a step of the cluster does to them.
ClusterTypeOK == log \in Log /\ rolled \in [Workload -> Nat] /\ budget \in [Op -> Nat]

OutsideWrite(w) ==
  /\ \E o \in Object : Write(w, o)
  /\ rolled' \in [Workload -> Nat] /\ budget' \in [Op -> Nat]

LEMMA DisturbWrites ==
  ASSUME ClusterTypeOK, NEW w \in Workload, Disturb(w)
  PROVE  OutsideWrite(w)
  <1> DEFINE o == Server(w)
  <1>1. o \in Object
    BY EndsType DEF ClusterTypeOK
  <1>2. CASE Create(w)
    BY <1>1, <1>2, CreatedType, SpendType DEF Create, ClusterTypeOK, OutsideWrite, Op
  <1>3. CASE UserRestart(w)
    BY <1>1, <1>3, RestartedType, SpendType DEF UserRestart, ClusterTypeOK, OutsideWrite, Op
  <1>4. CASE Rescale(w)
    <2> DEFINE n == IF o.replicas = 0 THEN Size[w] ELSE 0
               resized == [o EXCEPT !.replicas = n, !.due = o.rv + 1]
               report == [Starting(resized) EXCEPT !.observed = o.status.observed]
    <2>1. n \in Nat
      BY SizeAssumption
    <2>2. resized \in Object
      <3>1. o.rv + 1 \in Nat
        BY <1>1, StatusOf
      <3> HIDE DEF o, n
      <3> QED
        BY <1>1, <2>1, <3>1 DEF Object
    <2>3. report \in Status
      BY <1>1, <2>2, StatusTypes, StatusOf DEF Status
    <2>4. [resized EXCEPT !.status = report] \in Object
      BY <2>2, <2>3 DEF Object
    <2>5. [resized EXCEPT !.generation = @ + 1] \in Object
      <3> HIDE DEF resized
      <3>1. resized.generation + 1 \in Nat
        BY <2>2, StatusOf
      <3> QED
        BY <2>2, <3>1 DEF Object
    <2>6. budget' \in [Op -> Nat]
      BY <1>4, SpendType DEF Rescale, ClusterTypeOK, Op
    <2>7. CASE KindOf[w] = "DaemonSet"
      <3>1. Write(w, [resized EXCEPT !.status = report])
        BY <1>4, <2>7 DEF Rescale
      <3>2. rolled' \in [Workload -> Nat]
        BY <1>1, <1>4, <2>7, StatusOf DEF Rescale, ClusterTypeOK
      <3> HIDE DEF resized, report
      <3> QED
        BY <2>4, <2>6, <3>1, <3>2 DEF ClusterTypeOK, OutsideWrite
    <2>8. CASE KindOf[w] # "DaemonSet"
      <3>1. Write(w, [resized EXCEPT !.generation = @ + 1]) /\ UNCHANGED rolled
        BY <1>4, <2>8 DEF Rescale
      <3> HIDE DEF resized
      <3> QED
        BY <2>5, <2>6, <3>1 DEF ClusterTypeOK, OutsideWrite
    <2> QED
      BY <2>7, <2>8
  <1>5. CASE EditTargets(w)
    <2>1. PICK S \in TargetChoices[w], present \in BOOLEAN :
            /\ Spend("edit")
            /\ Write(w, [o EXCEPT !.targets = S, !.annotated = present])
            /\ UNCHANGED rolled
      BY <1>5 DEF EditTargets
    <2>2. S \in SUBSET Ref
      BY TargetsAssumption
    <2>3. [o EXCEPT !.targets = S, !.annotated = present] \in Object
      BY <1>1, <2>2 DEF Object
    <2> QED
      BY <2>1, <2>3, SpendType DEF ClusterTypeOK, OutsideWrite, Op
  <1>6. CASE LosePod(w)
    <2> DEFINE s == [o.status EXCEPT !.ready = @ - 1, !.available = o.status.ready - 1,
                                     !.unavailable = @ + 1]
    <2>1. s \in Status
      <3>1. o.status.ready > 0 /\ o.status \in Status
        BY <1>1, <1>6, StatusOf DEF LosePod
      <3>2. o.status.ready - 1 \in Nat /\ o.status.unavailable + 1 \in Nat
        BY <1>1, <3>1, StatusOf
      <3> HIDE DEF o
      <3> QED
        BY <3>1, <3>2 DEF Status
    <2> DEFINE restart == KindOf[w] = "DaemonSet" \/ (o.replicas = 1 /\ o.status.ready = 1)
               version == IF restart THEN o.rv + 1 ELSE o.due
               x == [o EXCEPT !.status = s, !.due = version]
    <2>2. x \in Object
      <3>1. version \in Nat
        BY <1>1, StatusOf
      <3> HIDE DEF s, version
      <3> QED
        BY <1>1, <2>1, <3>1 DEF Object
    <2>3. Write(w, x)
      BY <1>6 DEF LosePod
    <2> HIDE DEF x
    <2> QED
      BY <1>6, <2>2, <2>3, SpendType DEF LosePod, ClusterTypeOK, OutsideWrite, Op
  <1>7. CASE Delete(w)
    <2>1. [o EXCEPT !.alive = FALSE] \in Object
      BY <1>1 DEF Object
    <2> QED
      BY <1>7, <2>1, SpendType DEF Delete, ClusterTypeOK, OutsideWrite, Op
  <1> QED
    BY <1>2, <1>3, <1>4, <1>5, <1>6, <1>7 DEF Disturb

LEMMA RollOutWrites ==
  ASSUME ClusterTypeOK, NEW w \in Workload, RollOut(w)
  PROVE  OutsideWrite(w)
  <1> DEFINE o == Server(w)
  <1>1. o \in Object
    BY EndsType DEF ClusterTypeOK
  <1>2. CASE Observe(w)
    <2>1. PICK report \in FirstReports(KindOf[w], o) : Write(w, [o EXCEPT !.status = report])
      BY <1>2 DEF Observe
    <2>2. report \in Status
      BY <1>1, StatusTypes DEF FirstReports
    <2>3. [o EXCEPT !.status = report] \in Object
      BY <1>1, <2>2 DEF Object
    <2> QED
      BY <1>1, <1>2, <2>1, <2>3, StatusOf DEF Observe, ClusterTypeOK, OutsideWrite
  <1>3. CASE Settle(w)
    <2>1. [o EXCEPT !.status = Complete(o)] \in Object
      BY <1>1, StatusTypes DEF Object
    <2> QED
      BY <1>1, <1>3, <2>1, StatusOf DEF Settle, ClusterTypeOK, OutsideWrite
  <1> QED
    BY <1>2, <1>3 DEF RollOut

LEMMA InitType == Init => TypeOK
  <1> SUFFICES ASSUME Init PROVE TypeOK
    OBVIOUS
  <1> USE DEF Init, ClusterInit, ReconcilerInit
  <1>1. log \in Log
    <2>1. \A w \in Workload :
            <<IF w \in Present THEN Settled(w) ELSE NoObject>> \in Seq(Object) \ {<<>>}
      BY SettledType, NoObjectType
    <2> QED
      BY <2>1 DEF Log
  <1>2. copy \in [Workload -> Object]
    BY NoObjectType
  <1>3. pc \in [Workload -> Step]
    BY DEF Step
  <1> QED
    BY <1>1, <1>2, <1>3, BoundAssumption DEF TypeOK, Log

LEMMA DeliverType ==
  ASSUME TypeOK, NEW w \in Workload, Deliver(w)
  PROVE  TypeOK'
  <1>1. PICK i \in 2..Len(log[w]) :
          /\ IF i = 2 THEN UNCHANGED budget ELSE Spend("relist")
          /\ Advance(w, i)
          /\ IF Admitted(KindOf[w], Cached(w), log[w][i])
             THEN /\ Add(w)
                  /\ seen' = [seen EXCEPT ![w] = log[w][i].rv]
                  /\ credit' = [credit EXCEPT ![w] = @ + 1]
             ELSE UNCHANGED <<queueVars, seen, credit>>
          /\ UNCHANGED <<rolled, workVars, stamped, metricVars, decided, reached>>
    BY DEF Deliver
  <1>2. log \in Log
    BY DEF TypeOK, Log
  <1>3. log' \in Log
    BY <1>1, <1>2, AdvanceType
  <1>4. budget' \in [Op -> Nat]
    BY <1>1, SpendType DEF TypeOK, Op
  <1>5. log[w][i].rv \in Nat
    <2>1. log[w] \in Seq(Object) /\ i \in 1..Len(log[w])
      BY <1>2 DEF Log
    <2>2. log[w][i] \in Object
      BY <2>1
    <2> QED
      BY <2>2, StatusOf
  <1>6. /\ queued' \subseteq Workload /\ delayed' \subseteq Workload
        /\ seen' \in [Workload -> Nat] /\ credit' \in [Workload -> Int]
    <2>1. /\ queued \subseteq Workload /\ delayed \subseteq Workload
          /\ seen \in [Workload -> Nat] /\ credit \in [Workload -> Int]
      BY DEF TypeOK
    <2> DEFINE version == log[w][i].rv
               verdict == Admitted(KindOf[w], Cached(w), log[w][i])
    <2>2. CASE verdict
      <3>1. Add(w) /\ seen' = [seen EXCEPT ![w] = version]
            /\ credit' = [credit EXCEPT ![w] = @ + 1]
        BY <1>1, <2>2
      <3>2. version \in Nat
        BY <1>5
      <3> HIDE DEF version
      <3> QED
        BY <2>1, <3>1, <3>2 DEF Add
    <2>3. CASE ~verdict
      BY <1>1, <2>1, <2>3 DEF queueVars
    <2> QED
      BY <2>2, <2>3
  <1> QED
    BY <1>1, <1>3, <1>4, <1>6 DEF TypeOK, Log, workVars, metricVars

LEMMA ReturnType ==
  ASSUME TypeOK, NEW w \in Workload, Return(w)
  PROVE  /\ pc' \in [Workload -> Step]
         /\ copy' \in [Workload -> Object]
         /\ todo' \in [Workload -> SUBSET Workload]
  <1>1. pc' \in [Workload -> Step]
    BY DEF Return, TypeOK, Step
  <1>2. copy' \in [Workload -> Object]
    BY NoObjectType DEF Return, TypeOK
  <1>3. todo' \in [Workload -> SUBSET Workload]
    BY DEF Return, TypeOK
  <1> QED
    BY <1>1, <1>2, <1>3

LEMMA AgainType ==
  ASSUME TypeOK, NEW w \in Workload, Again(w)
  PROVE  /\ pc' \in [Workload -> Step]
         /\ copy' \in [Workload -> Object]
         /\ todo' \in [Workload -> SUBSET Workload]
         /\ queued' \subseteq Workload /\ delayed' \subseteq Workload
         /\ decided' \in [Workload -> Nat]
  <1>1. /\ queued' \subseteq Workload /\ delayed' \subseteq Workload
        /\ decided' \in [Workload -> Nat]
    BY DEF Again, AddAfter, TypeOK
  <1> QED
    BY <1>1, ReturnType DEF Again

LEMMA DecideRaises ==
  ASSUME TypeOK, NEW w \in Workload, NEW version \in Nat, Decide(w, version)
  PROVE  /\ decided' \in [Workload -> Nat]
         /\ decided'[w] >= version
         /\ \A v \in Workload : decided'[v] >= decided[v]
         /\ \A v \in Workload \ {w} : decided'[v] = decided[v]
  BY DEF Decide, TypeOK

LEMMA FinishType ==
  ASSUME TypeOK, NEW w \in Workload, Finish(w, copy[w].rv)
  PROVE  /\ pc' \in [Workload -> Step]
         /\ copy' \in [Workload -> Object]
         /\ todo' \in [Workload -> SUBSET Workload]
         /\ queued' \subseteq Workload /\ delayed' \subseteq Workload
         /\ decided' \in [Workload -> Nat]
  <1>1. copy[w].rv \in Nat
    BY StatusOf DEF TypeOK
  <1>2. /\ queued' \subseteq Workload /\ delayed' \subseteq Workload
        /\ decided' \in [Workload -> Nat]
    BY <1>1, DecideRaises DEF Finish, queueVars, TypeOK
  <1> QED
    BY <1>2, ReturnType DEF Finish

LEMMA TriggeredType ==
  ASSUME TypeOK, NEW w \in Workload, NEW t \in Workload, Triggered(w, t)
  PROVE  /\ pc' \in [Workload -> Step]
         /\ copy' \in [Workload -> Object]
         /\ todo' \in [Workload -> SUBSET Workload]
         /\ queued' \subseteq Workload /\ delayed' \subseteq Workload
         /\ decided' \in [Workload -> Nat]
  <1>1. CASE todo[w] = {t}
    BY <1>1, FinishType DEF Triggered
  <1>2. CASE todo[w] # {t}
    <2>1. todo' = [todo EXCEPT ![w] = @ \ {t}] /\ UNCHANGED <<pc, copy, queueVars, decided>>
      BY <1>2 DEF Triggered
    <2>2. todo' \in [Workload -> SUBSET Workload]
      <3>1. todo \in [Workload -> SUBSET Workload]
        BY DEF TypeOK
      <3> QED
        BY <2>1, <3>1
    <2> QED
      BY <2>1, <2>2 DEF TypeOK, queueVars
  <1> QED
    BY <1>1, <1>2

LEMMA ReconcileType ==
  ASSUME TypeOK, NEW w \in Workload, Reconcile(w)
  PROVE  TypeOK'
  <1> USE DEF Log
  <1>a. log \in Log /\ Server(w) \in Object
    BY EndsType DEF TypeOK
  <1>1. CASE SetMark(w)
    <2>1. Marked(Server(w)) \in Object
      BY <1>a DEF Marked, Object
    <2>2. log' \in Log
      BY <1>1, <1>a, <2>1, WriteType DEF SetMark
    <2>3. Versioned(w, Marked(Server(w))) \in Object
      <3>1. Server(w).rv + 1 \in Nat
        BY <1>a, StatusOf
      <3> QED
        BY <2>1, <3>1 DEF Versioned, Object
    <2>4. copy' \in [Workload -> Object] /\ pc' \in [Workload -> Step]
      BY <1>1, <2>3 DEF SetMark, TypeOK, Step
    <2> QED
      BY <1>1, <2>2, <2>4 DEF SetMark, TypeOK, queueVars, metricVars, ghostVars
  <1>2. CASE SetMarkFails(w)
    <2>1. budget' \in [Op -> Nat]
      BY <1>2, SpendType DEF SetMarkFails, TypeOK, Op
    <2> QED
      BY <1>2, <2>1, AgainType DEF SetMarkFails, TypeOK, clusterVars, metricVars
  <1>3. CASE BadTargets(w)
    BY <1>3, AgainType DEF BadTargets, TypeOK, clusterVars, metricVars
  <1>4. CASE NoTargets(w)
    BY <1>4, FinishType DEF NoTargets, TypeOK, clusterVars, metricVars
  <1>5. CASE CheckCycle(w)
    <2>1. cycleGauge' \subseteq Workload
      BY <1>5 DEF CheckCycle, TypeOK
    <2> QED
      BY <1>5, <2>1, FinishType DEF CheckCycle, TypeOK, clusterVars
  <1>6. CASE NotStable(w)
    <2>1. cycleGauge' \subseteq Workload
      BY <1>6 DEF NotStable, TypeOK
    <2>2. Again(w) \/ Finish(w, copy[w].rv)
      BY <1>6 DEF NotStable
    <2> QED
      BY <1>6, <2>1, <2>2, AgainType, FinishType DEF NotStable, TypeOK, clusterVars
  <1>7. CASE BeginReload(w)
    <2>1. copy[w].targets \in SUBSET Workload
      <3>1. copy[w].targets \in SUBSET Ref
        BY StatusOf DEF TypeOK
      <3> QED
        BY <1>7, <3>1 DEF BeginReload, Walkable, Ref
    <2>2. todo' \in [Workload -> SUBSET Workload] /\ pc' \in [Workload -> Step]
      BY <1>7, <2>1 DEF BeginReload, TypeOK, Step
    <2>3. cycleGauge' \subseteq Workload /\ credit' \in [Workload -> Int]
      BY <1>7 DEF BeginReload, TypeOK
    <2> QED
      BY <1>7, <2>2, <2>3 DEF BeginReload, TypeOK, clusterVars, queueVars
  <1>8. CASE ClearMark(w)
    <2>1. Unmarked(Server(w)) \in Object
      BY <1>a DEF Unmarked, Object
    <2>2. log' \in Log
      BY <1>8, <1>a, <2>1, WriteType DEF ClearMark
    <2>3. budget' \in [Op -> Nat]
      BY <1>8, SpendType DEF ClearMark, TypeOK, Op
    <2>4. pc' \in [Workload -> Step]
      BY <1>8 DEF ClearMark, TypeOK, Step
    <2> QED
      BY <1>8, <2>2, <2>3, <2>4 DEF ClearMark, TypeOK, queueVars, metricVars, ghostVars
  <1>9. ASSUME NEW t \in Workload, Trigger(w, t)
        PROVE  TypeOK'
    <2>1. copy[w] \in Object /\ Server(t) \in Object
      BY EndsType DEF TypeOK
    <2>2. copy[w].hops + 1 \in Nat /\ copy[w].due \in Nat
      BY <2>1, StatusOf
    <2>3. log' \in Log
      BY <1>9, <1>a, <2>1, <2>2, RestartedType, WriteType DEF Trigger
    <2>4. stamped' \subseteq Workload /\ restarts' \in [Workload -> Nat]
      <3>1. stamped \subseteq Workload /\ restarts \in [Workload -> Nat]
        BY DEF TypeOK
      <3>2. stamped' \in {stamped, stamped \cup {t}} /\ restarts' = [restarts EXCEPT ![t] = @ + 1]
        BY <1>9 DEF Trigger
      <3> QED
        BY <3>1, <3>2
    <2>5. reached' \in [Workload -> [Workload -> Nat]]
      <3> DEFINE version == copy[w].due
      <3>1. reached \in [Workload -> [Workload -> Nat]]
        BY DEF TypeOK
      <3>2. reached' = reached \/ reached' = [reached EXCEPT ![w][t] = version]
        BY <1>9 DEF Trigger
      <3>3. version \in Nat
        BY <2>2
      <3> HIDE DEF version
      <3>4. [reached[w] EXCEPT ![t] = version] \in [Workload -> Nat]
        BY <3>1, <3>3
      <3> QED
        BY <3>1, <3>2, <3>4
    <2> QED
      BY <1>9, <2>3, <2>4, <2>5, TriggeredType DEF Trigger, TypeOK
  <1>10. ASSUME NEW t \in Workload, TriggerFails(w, t)
         PROVE  TypeOK'
    <2>1. budget' \in [Op -> Nat]
      BY <1>10, SpendType DEF TriggerFails, TypeOK, Op
    <2> QED
      BY <1>10, <2>1, TriggeredType DEF TriggerFails, TypeOK, clusterVars, metricVars
  <1> QED
    BY <1>1, <1>2, <1>3, <1>4, <1>5, <1>6, <1>7, <1>8, <1>9, <1>10 DEF Reconcile

LEMMA NextType == TypeOK /\ [Next]_vars => TypeOK'
  <1> SUFFICES ASSUME TypeOK, [Next]_vars PROVE TypeOK'
    OBVIOUS
  <1>1. ASSUME NEW w \in Workload, Disturb(w) \/ RollOut(w)
        PROVE  TypeOK'
    <2>1. OutsideWrite(w)
      BY <1>1, DisturbWrites, RollOutWrites DEF TypeOK, ClusterTypeOK, Log
    <2>2. ClusterTypeOK'
      BY <2>1, WriteType DEF OutsideWrite, TypeOK, ClusterTypeOK, Log
    <2>3. UNCHANGED cascaderVars
      BY <1>1 DEF Disturb, RollOut
    <2> QED
      BY <2>2, <2>3 DEF TypeOK, ClusterTypeOK, Log, cascaderVars, queueVars, workVars,
                        metricVars, ghostVars
  <1>2. ASSUME NEW w \in Workload, Fire(w)
        PROVE  TypeOK'
    BY <1>2 DEF Fire, TypeOK, clusterVars, workVars, metricVars, ghostVars
  <1>3. ASSUME NEW w \in Workload, Dequeue(w)
        PROVE  TypeOK'
    <2>1. Cached(w) \in Object
      BY EndsType DEF TypeOK, Log
    <2>2. Cached(w).rv \in Nat
      BY <2>1, StatusOf
    <2>3. pc' \in [Workload -> Step]
      BY <1>3 DEF Dequeue, TypeOK, Step
    <2>4. copy' \in [Workload -> Object]
      BY <1>3, <2>1 DEF Dequeue, TypeOK
    <2>5. decided' \in [Workload -> Nat]
      BY <1>3, <2>2, DecideRaises DEF Dequeue, TypeOK
    <2> QED
      BY <1>3, <2>3, <2>4, <2>5 DEF Dequeue, TypeOK, clusterVars, metricVars
  <1>4. CASE Tick
    BY <1>4 DEF Tick, TypeOK, clusterVars, queueVars, workVars, metricVars, ghostVars
  <1>5. CASE CrashRestart
    <2>1. log' \in Log
      <3>1. log \in Log
        BY DEF TypeOK, Log
      <3>2. \A w \in Workload : <<Server(w)>> \in Seq(Object) \ {<<>>}
        BY <3>1, EndsType
      <3> QED
        BY <1>5, <3>2 DEF CrashRestart, Log
    <2>2. budget' \in [Op -> Nat]
      BY <1>5, SpendType DEF CrashRestart, TypeOK, Op
    <2>3. copy' \in [Workload -> Object] /\ pc' \in [Workload -> Step]
      BY <1>5, NoObjectType DEF CrashRestart, Step
    <2> QED
      BY <1>5, <2>1, <2>2, <2>3 DEF CrashRestart, TypeOK, Log
  <1>6. CASE UNCHANGED vars
    BY <1>6 DEF vars, TypeOK, clusterVars, queueVars, workVars, metricVars, ghostVars
  <1> QED
    BY <1>1, <1>2, <1>3, <1>4, <1>5, <1>6, DeliverType, ReconcileType DEF Next

\* The state keeps its shape: Cascader's steps, and everyone else's, on any workloads,
\* annotations and bounds, take the objects, queues and reconciles to well-formed ones.
THEOREM TypeCorrect == Spec => []TypeOK
  BY InitType, NextType, PTL DEF Spec

=============================================================================
