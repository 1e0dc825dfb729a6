------------------------------ MODULE ReloadProofs ------------------------------
(***************************************************************************)
(* Where restarts get to and where they end: no chain of them goes on for  *)
(* ever, and when everything is calm each target has been reloaded and no  *)
(* mark is left.                                                           *)
(***************************************************************************)
EXTENDS PromiseProofs, CycleHaltProofs, FiniteSetTheorems

\* The types that every step below needs.
LEMMA ObjectTypes ==
  ASSUME TypeOK
  PROVE  /\ log \in Log
         /\ \A w \in Workload :
              /\ Server(w) \in Object /\ Cached(w) \in Object /\ copy[w] \in Object
              /\ Server(w).rv \in Nat /\ Server(w).due \in Nat
              /\ Cached(w).rv \in Nat /\ Cached(w).due \in Nat
              /\ copy[w].due \in Nat /\ copy[w].hops \in Nat /\ copy[w].hops + 1 \in Nat
  <1>1. log \in Log
    BY DEF TypeOK, Log
  <1>2. \A w \in Workload : Server(w) \in Object /\ Cached(w) \in Object /\ copy[w] \in Object
    BY <1>1, EndsType DEF TypeOK
  <1>3. \A o \in Object : o.rv \in Nat /\ o.due \in Nat /\ o.hops \in Nat
    BY StatusOf
  <1>4. \A w \in Workload : copy[w].hops + 1 \in Nat
    BY <1>2, <1>3
  <1> QED
    BY <1>1, <1>2, <1>3, <1>4

-----------------------------------------------------------------------------
(* What a write makes of an object *)

\* No template and no restart is newer than the object that shows it, and the pods
\* that are ready are the ones that are available.
Dated(o) == o.template <= o.rv /\ o.due <= o.rv /\ o.status.available = o.status.ready

\* The next version in w's life, with its annotations in place; if it is a restart, the
\* predicates see it.
Follows(w, o, x) ==
  /\ o.alive /\ x.alive /\ x.annotated = o.annotated
  /\ \/ x.due = o.due
     \/ x.due = x.rv /\ (o.annotated /\ Dated(o) => Admitted(KindOf[w], o, x))

\* Its chain of reloads starts anew, stays as it is, or is one longer than that of a source
\* that is working off a batch with w in it.
Chained(w, o, x) ==
  \/ x.hops \in {0, o.hops}
  \/ \E s \in Workload : pc[s] = "trigger" /\ w \in todo[s] /\ x.hops = copy[s].hops + 1

\* Any next version: as above, or the first of a new life, or one in which an owner takes
\* the object away or changes the annotations.
Succeeds(w, o, x) ==
  /\ x.rv = o.rv + 1
  /\ Dated(o) => Dated(x)
  /\ Chained(w, o, x)
  /\ x.mark => o.mark \/ (pc[w] = "mark" /\ pc'[w] = "check")
  /\ \/ Follows(w, o, x)
     \/ ~o.alive /\ x.alive /\ x.annotated = (InitTargets[w] # {}) /\ x.due = 0
     \/ ~x.alive /\ budget["delete"] > 0
     \/ TargetChoices[w] # {}

Appends(w, x) == log' = [log EXCEPT ![w] = Append(@, x)]

LEMMA VersionedFields ==
  ASSUME log \in Log, NEW w \in Workload, NEW o \in Object
  PROVE  LET x == Versioned(w, o)
         IN  /\ x \in Object /\ x.rv = Server(w).rv + 1
             /\ x.alive = o.alive /\ x.annotated = o.annotated /\ x.targets = o.targets
             /\ x.mark = o.mark /\ x.template = o.template /\ x.generation = o.generation
             /\ x.replicas = o.replicas /\ x.status = o.status
             /\ x.hops = o.hops /\ x.due = o.due
  <1>1. Server(w).rv + 1 \in Nat
    BY EndsType, StatusOf
  <1> QED
    BY <1>1 DEF Versioned, Object

LEMMA AdmittedChange ==
  ASSUME NEW w \in Workload, NEW o, NEW x,
         o.alive, x.alive, x.annotated,
         \/ SpecChanged(o, x) \/ ScaledToZero(o, x) \/ ScaledFromZero(o, x)
         \/ KindOf[w] # "DaemonSet" /\ SingleReplicaPodDeleted(KindOf[w], o, x)
         \/ KindOf[w] = "DaemonSet" /\ DaemonSetTransitioning(x)
  PROVE  Admitted(KindOf[w], o, x)
  <1>1. KindOf[w] \in {"Deployment", "StatefulSet", "DaemonSet"}
    BY KindAssumption DEF Kind
  <1>2. CASE KindOf[w] = "Deployment"
    BY <1>2 DEF Admitted, UpdateChecks, DeploymentChecks
  <1>3. CASE KindOf[w] = "StatefulSet"
    BY <1>3 DEF Admitted, UpdateChecks, StatefulSetChecks
  <1>4. CASE KindOf[w] = "DaemonSet"
    BY <1>4 DEF Admitted, UpdateChecks, DaemonSetChecks
  <1> QED
    BY <1>1, <1>2, <1>3, <1>4

LEMMA RestartFollows ==
  ASSUME log \in Log, NEW w \in Workload, NEW h \in Nat, Server(w).alive,
         \/ h = 0
         \/ \E s \in Workload : pc[s] = "trigger" /\ w \in todo[s] /\ h = copy[s].hops + 1
  PROVE  LET o == Server(w)
             x == Versioned(w, Restarted(o, h))
         IN  /\ x \in Object /\ Succeeds(w, o, x) /\ Follows(w, o, x)
             /\ x.mark = o.mark /\ x.hops = h /\ x.due = x.rv /\ x.template = x.rv
             /\ x.targets = o.targets
  <1> DEFINE o == Server(w)
             y == Restarted(o, h)
             x == Versioned(w, y)
  <1>1. o \in Object /\ o.rv \in Nat /\ o.template \in Nat /\ o.due \in Nat
    BY EndsType, StatusOf
  <1>2. y \in Object
    BY <1>1, RestartedType
  <1>3. /\ y.template = o.rv + 1 /\ y.due = o.rv + 1 /\ y.hops = h /\ y.alive = o.alive
        /\ y.annotated = o.annotated /\ y.mark = o.mark /\ y.status = o.status
        /\ y.targets = o.targets
    BY <1>1 DEF Restarted, Object
  <1>4. /\ x \in Object /\ x.rv = o.rv + 1 /\ x.template = y.template /\ x.due = y.due
        /\ x.hops = y.hops /\ x.alive = y.alive /\ x.annotated = y.annotated
        /\ x.mark = y.mark /\ x.status = y.status /\ x.targets = y.targets
    BY <1>2, VersionedFields
  <1> HIDE DEF x, y, o
  <1>5. x.alive /\ o.alive
    BY <1>3, <1>4 DEF o
  <1>6. o.annotated /\ Dated(o) => Admitted(KindOf[w], o, x)
    <2>1. Dated(o) => SpecChanged(o, x)
      BY <1>1, <1>3, <1>4 DEF Dated, SpecChanged
    <2> QED
      BY <1>3, <1>4, <1>5, <2>1, AdmittedChange
  <1>7. Dated(o) => Dated(x)
    BY <1>1, <1>3, <1>4 DEF Dated
  <1>8. Succeeds(w, o, x) /\ Follows(w, o, x)
    BY <1>3, <1>4, <1>5, <1>6, <1>7 DEF Succeeds, Follows, Chained
  <1>9. x.hops = h /\ x.due = x.rv /\ x.template = x.rv /\ x.mark = o.mark
        /\ x.targets = o.targets
    BY <1>3, <1>4
  <1> QED
    BY <1>4, <1>8, <1>9 DEF x, y, o

\* A new version with the old template, and with a restart if the predicates see it.
LEMMA ChangeSucceeds ==
  ASSUME log \in Log, NEW w \in Workload, NEW y \in Object, Server(w).alive, y.alive,
         LET o == Server(w)
         IN  /\ y.annotated = o.annotated /\ y.mark = o.mark
             /\ y.template = o.template /\ y.hops = o.hops
             /\ o.status.available = o.status.ready => y.status.available = y.status.ready
             /\ \/ y.due = o.due
                \/ /\ y.due = o.rv + 1
                   /\ o.status.available = o.status.ready =>
                        \/ ScaledToZero(o, y) \/ ScaledFromZero(o, y)
                        \/ /\ KindOf[w] # "DaemonSet"
                           /\ SingleReplicaPodDeleted(KindOf[w], o, y)
                        \/ KindOf[w] = "DaemonSet" /\ DaemonSetTransitioning(y)
  PROVE  Succeeds(w, Server(w), Versioned(w, y))
  <1> DEFINE o == Server(w)
             x == Versioned(w, y)
  <1>1. o \in Object /\ o.rv \in Nat /\ o.template \in Nat /\ o.due \in Nat
    BY EndsType, StatusOf
  <1>2. /\ x.rv = o.rv + 1 /\ x.alive /\ x.annotated = o.annotated /\ x.mark = o.mark
        /\ x.template = o.template /\ x.hops = o.hops /\ x.status = y.status
        /\ x.due = y.due /\ x.replicas = y.replicas
    BY VersionedFields
  <1> HIDE DEF x
  <1>3. Dated(o) => Dated(x)
    BY <1>1, <1>2 DEF Dated
  <1>4. Follows(w, o, x)
    <2>1. CASE y.due = o.due
      BY <1>2, <2>1 DEF Follows
    <2>2. CASE y.due # o.due
      <3> SUFFICES ASSUME o.annotated, Dated(o) PROVE Admitted(KindOf[w], o, x)
        BY <1>2, <2>2 DEF Follows
      <3>1. o.status.available = o.status.ready
        BY DEF Dated
      <3>2. \/ ScaledToZero(o, y) \/ ScaledFromZero(o, y)
            \/ KindOf[w] # "DaemonSet" /\ SingleReplicaPodDeleted(KindOf[w], o, y)
            \/ KindOf[w] = "DaemonSet" /\ DaemonSetTransitioning(y)
        BY <2>2, <3>1
      <3>3. \/ ScaledToZero(o, x) \/ ScaledFromZero(o, x)
            \/ KindOf[w] # "DaemonSet" /\ SingleReplicaPodDeleted(KindOf[w], o, x)
            \/ KindOf[w] = "DaemonSet" /\ DaemonSetTransitioning(x)
        BY <1>2, <3>2 DEF ScaledToZero, ScaledFromZero, SingleReplicaPodDeleted,
                          DaemonSetTransitioning
      <3> QED
        BY <1>2, <3>3, AdmittedChange
    <2> QED
      BY <2>1, <2>2
  <1> QED
    BY <1>2, <1>3, <1>4 DEF Succeeds, Chained, x

LEMMA DisturbSucceeds ==
  ASSUME TypeOK, NEW w \in Workload, Disturb(w)
  PROVE  \E x \in Object : Appends(w, x) /\ Succeeds(w, Server(w), x)
  <1> DEFINE o == Server(w)
  <1>a. log \in Log
    BY DEF TypeOK, Log
  <1>1. /\ o \in Object /\ o.rv \in Nat /\ o.template \in Nat /\ o.due \in Nat
        /\ o.status \in Status /\ o.status.ready \in Nat /\ o.replicas \in Nat
    BY <1>a, EndsType, StatusOf
  \* It is enough to look at the object as it is handed in.
  <1>b. ASSUME NEW y \in Object, Write(w, y),
               LET x == Versioned(w, y) IN Succeeds(w, o, x)
        PROVE  \E x \in Object : Appends(w, x) /\ Succeeds(w, o, x)
    BY <1>a, <1>b, VersionedFields DEF Write, Appends
  <1>2. CASE Create(w)
    <2> DEFINE y == Created(w, o)
               x == Versioned(w, y)
    <2>1. y \in Object /\ Write(w, y) /\ ~o.alive
      BY <1>1, <1>2, CreatedType DEF Create
    <2>2. /\ y.alive /\ y.annotated = (InitTargets[w] # {}) /\ ~y.mark /\ y.due = 0
          /\ y.template = o.rv + 1 /\ y.status = NoStatus /\ y.hops = 0
      BY <1>1 DEF Created, Object
    <2>3. /\ x.rv = o.rv + 1 /\ x.alive /\ x.annotated = (InitTargets[w] # {}) /\ ~x.mark
          /\ x.due = 0 /\ x.template = o.rv + 1 /\ x.status = NoStatus /\ x.hops = 0
      BY <1>a, <2>1, <2>2, VersionedFields
    <2> HIDE DEF x, y
    <2>4. Dated(x)
      BY <1>1, <2>3 DEF Dated, NoStatus
    <2>5. Succeeds(w, o, x)
      BY <2>1, <2>3, <2>4 DEF Succeeds, Chained
    <2> QED
      BY <1>b, <2>1, <2>5 DEF x
  <1>3. CASE UserRestart(w)
    <2> DEFINE y == Restarted(o, 0)
               x == Versioned(w, y)
    <2>1. y \in Object /\ Write(w, y) /\ o.alive
      BY <1>1, <1>3, RestartedType DEF UserRestart, Live
    <2>2. Succeeds(w, o, x) /\ x.mark = o.mark /\ x.hops = 0
      BY <1>a, <2>1, RestartFollows
    <2> HIDE DEF x, y
    <2> QED
      BY <1>b, <2>1, <2>2 DEF x
  <1>4. CASE EditTargets(w)
    <2>1. PICK S \in TargetChoices[w], present \in BOOLEAN :
            Write(w, [o EXCEPT !.targets = S, !.annotated = present])
      BY <1>4 DEF EditTargets
    <2> DEFINE y == [o EXCEPT !.targets = S, !.annotated = present]
               x == Versioned(w, y)
    <2>2. S \in SUBSET Ref
      BY TargetsAssumption
    <2>3. y \in Object /\ y.mark = o.mark /\ y.due = o.due /\ y.template = o.template
          /\ y.status = o.status /\ y.hops = o.hops
      <3> HIDE DEF o
      <3> QED
        BY <1>1, <2>2 DEF Object
    <2>4. /\ x.rv = o.rv + 1 /\ x.mark = o.mark /\ x.due = o.due /\ x.template = o.template
          /\ x.status = o.status /\ x.hops = o.hops
      <3> HIDE DEF y
      <3> QED
        BY <1>a, <2>3, VersionedFields
    <2>5. Write(w, y) /\ TargetChoices[w] # {}
      BY <2>1
    <2> HIDE DEF x, y
    <2>6. Succeeds(w, o, x)
      BY <1>1, <2>4, <2>5 DEF Succeeds, Chained, Dated
    <2> QED
      BY <1>b, <2>3, <2>5, <2>6 DEF x
  <1>5. CASE Delete(w)
    <2> DEFINE y == [o EXCEPT !.alive = FALSE]
               x == Versioned(w, y)
    <2>1. y \in Object /\ ~y.alive /\ y.mark = o.mark /\ y.due = o.due
          /\ y.template = o.template /\ y.status = o.status /\ y.hops = o.hops
      BY <1>1 DEF Object
    <2>2. /\ x.rv = o.rv + 1 /\ ~x.alive /\ x.mark = o.mark /\ x.due = o.due
          /\ x.template = o.template /\ x.status = o.status /\ x.hops = o.hops
      BY <1>a, <2>1, VersionedFields
    <2>3. Write(w, y) /\ budget["delete"] > 0
      BY <1>5 DEF Delete, Spend
    <2> HIDE DEF x, y
    <2>4. Succeeds(w, o, x)
      BY <1>1, <2>2, <2>3 DEF Succeeds, Chained, Dated
    <2> QED
      BY <1>b, <2>1, <2>3, <2>4 DEF x
  <1>6. CASE Rescale(w)
    <2> DEFINE n == IF o.replicas = 0 THEN Size[w] ELSE 0
               resized == [o EXCEPT !.replicas = n, !.due = o.rv + 1]
               report == [Starting(resized) EXCEPT !.observed = o.status.observed]
               y == [resized EXCEPT !.status = report]
               z == [resized EXCEPT !.generation = @ + 1]
    <2>1. (Write(w, y) \/ Write(w, z)) /\ o.alive
      BY <1>6 DEF Rescale, Live
    <2>2. n \in Nat /\ (o.replicas = 0 => n > 0) /\ (o.replicas > 0 => n = 0)
      BY <1>1, SizeAssumption
    <2>3. /\ resized \in Object /\ resized.alive = o.alive
          /\ resized.annotated = o.annotated /\ resized.mark = o.mark
          /\ resized.template = o.template /\ resized.hops = o.hops
          /\ resized.status = o.status /\ resized.due = o.rv + 1 /\ resized.replicas = n
      <3>1. o.rv + 1 \in Nat
        BY <1>1
      <3> HIDE DEF o, n
      <3> QED
        BY <1>1, <2>2, <3>1 DEF Object
    <2>4. report \in Status /\ report.available = report.ready
      <3>1. Starting(resized) \in Status /\ o.status.observed \in Nat
        BY <1>1, <2>3, StatusTypes, StatusOf
      <3>2. Starting(resized).available = 0 /\ Starting(resized).ready = 0
        BY DEF Starting, Complete
      <3> QED
        BY <3>1, <3>2 DEF Status
    <2>5. /\ y \in Object /\ y.alive = o.alive /\ y.annotated = o.annotated
          /\ y.mark = o.mark /\ y.template = o.template /\ y.hops = o.hops
          /\ y.status = report /\ y.due = o.rv + 1 /\ y.replicas = n
      <3> HIDE DEF o, n, resized, report
      <3> QED
        BY <2>3, <2>4 DEF Object
    <2>6. /\ z \in Object /\ z.alive = o.alive /\ z.annotated = o.annotated
          /\ z.mark = o.mark /\ z.template = o.template /\ z.hops = o.hops
          /\ z.status = o.status /\ z.due = o.rv + 1 /\ z.replicas = n
      <3> HIDE DEF o, n, resized
      <3>1. resized.generation + 1 \in Nat
        BY <2>3, StatusOf
      <3> QED
        BY <2>3, <3>1 DEF Object
    <2> HIDE DEF y, z, report, resized, n
    <2>7. ScaledToZero(o, y) \/ ScaledFromZero(o, y)
      BY <1>1, <2>2, <2>5 DEF ScaledToZero, ScaledFromZero
    <2>8. ScaledToZero(o, z) \/ ScaledFromZero(o, z)
      BY <1>1, <2>2, <2>6 DEF ScaledToZero, ScaledFromZero
    <2>9. Succeeds(w, o, Versioned(w, y))
      BY <1>a, <2>1, <2>4, <2>5, <2>7, ChangeSucceeds
    <2>10. Succeeds(w, o, Versioned(w, z))
      BY <1>a, <2>1, <2>6, <2>8, ChangeSucceeds
    <2> QED
      BY <1>b, <2>1, <2>5, <2>6, <2>9, <2>10
  <1>7. CASE LosePod(w)
    <2> DEFINE s == [o.status EXCEPT !.ready = @ - 1, !.available = o.status.ready - 1,
                                     !.unavailable = @ + 1]
               restart == KindOf[w] = "DaemonSet" \/ (o.replicas = 1 /\ o.status.ready = 1)
               version == IF restart THEN o.rv + 1 ELSE o.due
               y == [o EXCEPT !.status = s, !.due = version]
    <2>1. Write(w, y) /\ o.alive /\ o.status.ready > 0
      BY <1>7 DEF LosePod, Live
    <2>2. /\ s \in Status /\ s.ready = o.status.ready - 1 /\ s.available = s.ready
          /\ s.unavailable > 0
      <3>1. /\ o.status.ready - 1 \in Nat /\ o.status.unavailable \in Nat
            /\ o.status.unavailable + 1 \in Nat
        BY <1>1, <2>1, StatusOf
      <3> HIDE DEF o
      <3>2. s \in Status
        BY <1>1, <3>1 DEF Status
      <3>3. s.ready = o.status.ready - 1 /\ s.available = o.status.ready - 1
            /\ s.unavailable = o.status.unavailable + 1
        BY <1>1 DEF Status
      <3> QED
        BY <3>1, <3>2, <3>3
    <2>3. /\ y \in Object /\ y.alive = o.alive /\ y.annotated = o.annotated
          /\ y.mark = o.mark /\ y.template = o.template /\ y.hops = o.hops
          /\ y.status = s /\ y.due = version /\ y.replicas = o.replicas
      <3>1. version \in Nat
        BY <1>1
      <3> HIDE DEF o, s, version
      <3> QED
        BY <1>1, <2>2, <3>1 DEF Object
    <2> HIDE DEF s, y
    <2>4. \/ y.due = o.due
          \/ /\ y.due = o.rv + 1
             /\ o.status.available = o.status.ready =>
                  \/ KindOf[w] # "DaemonSet" /\ SingleReplicaPodDeleted(KindOf[w], o, y)
                  \/ KindOf[w] = "DaemonSet" /\ DaemonSetTransitioning(y)
      BY <1>1, <2>2, <2>3 DEF SingleReplicaPodDeleted, DaemonSetTransitioning
    <2>5. Succeeds(w, o, Versioned(w, y))
      <3> HIDE DEF version
      <3> QED
        BY <1>a, <2>1, <2>2, <2>3, <2>4, ChangeSucceeds
    <2> QED
      BY <1>b, <2>1, <2>3, <2>5
  <1> QED
    BY <1>2, <1>3, <1>4, <1>5, <1>6, <1>7 DEF Disturb

LEMMA RollOutSucceeds ==
  ASSUME TypeOK, NEW w \in Workload, RollOut(w)
  PROVE  \E x \in Object : Appends(w, x) /\ Succeeds(w, Server(w), x)
  <1> DEFINE o == Server(w)
  <1>1. log \in Log /\ o \in Object
    BY EndsType DEF TypeOK, Log
  <1>2. /\ o.alive
        /\ \E s \in Status :
             /\ Write(w, [o EXCEPT !.status = s])
             /\ o.status.available = o.status.ready => s.available = s.ready
    <2>1. CASE Observe(w)
      <3>1. PICK s \in FirstReports(KindOf[w], o) : Write(w, [o EXCEPT !.status = s])
        BY <2>1 DEF Observe
      <3>2. s \in {Complete(o), Starting(o), Lagging(o), Surging(o)}
        BY DEF FirstReports
      <3>3. s \in Status
        BY <1>1, <3>2, StatusTypes
      <3>4. s.available = s.ready
        <4>1. /\ Complete(o).available = Complete(o).ready
              /\ Starting(o).available = Starting(o).ready
              /\ Lagging(o).available = Lagging(o).ready
              /\ Surging(o).available = Surging(o).ready
          BY DEF Complete, Starting, Lagging, Surging
        <4> QED
          BY <3>2, <4>1
      <3> QED
        BY <2>1, <3>1, <3>3, <3>4 DEF Observe, Live
    <2>2. CASE Settle(w)
      <3>1. Complete(o) \in Status /\ Complete(o).available = Complete(o).ready
        BY <1>1, StatusTypes DEF Complete
      <3> QED
        BY <2>2, <3>1 DEF Settle, Live
    <2> QED
      BY <2>1, <2>2 DEF RollOut
  <1>3. PICK s \in Status : /\ Write(w, [o EXCEPT !.status = s])
                            /\ o.status.available = o.status.ready => s.available = s.ready
    BY <1>2
  <1> DEFINE y == [o EXCEPT !.status = s]
  <1>4. /\ y \in Object /\ y.alive = o.alive /\ y.annotated = o.annotated
        /\ y.mark = o.mark /\ y.template = o.template /\ y.hops = o.hops
        /\ y.status = s /\ y.due = o.due
    <2> HIDE DEF o
    <2> QED
      BY <1>1 DEF Object
  <1>5. Write(w, y)
    BY <1>3
  <1> HIDE DEF y
  <1>6. Succeeds(w, o, Versioned(w, y))
    BY <1>1, <1>2, <1>3, <1>4, ChangeSucceeds
  <1> QED
    BY <1>1, <1>4, <1>5, <1>6, VersionedFields DEF Write, Appends

\* What Cascader's own patches of the mark make of it.
LEMMA MarkSucceeds ==
  ASSUME log \in Log, NEW w \in Workload, Server(w).alive,
         NEW m \in BOOLEAN, m => pc[w] = "mark" /\ pc'[w] = "check"
  PROVE  LET o == Server(w)
             y == [o EXCEPT !.mark = m]
             x == Versioned(w, y)
         IN  /\ x \in Object /\ y \in Object
             /\ Succeeds(w, o, x) /\ Follows(w, o, x)
             /\ x.mark = m /\ x.hops = o.hops /\ x.due = o.due /\ x.targets = o.targets
  <1> DEFINE o == Server(w)
             y == [o EXCEPT !.mark = m]
             x == Versioned(w, y)
  <1>1. o \in Object /\ o.rv \in Nat /\ o.template \in Nat /\ o.due \in Nat
    BY EndsType, StatusOf
  <1>2. /\ y \in Object /\ y.alive = o.alive /\ y.annotated = o.annotated /\ y.mark = m
        /\ y.template = o.template /\ y.hops = o.hops /\ y.status = o.status
        /\ y.due = o.due /\ y.targets = o.targets
    <2> HIDE DEF o
    <2> QED
      BY <1>1 DEF Object
  <1> HIDE DEF y
  <1>3. /\ x \in Object /\ x.rv = o.rv + 1 /\ x.alive /\ x.annotated = o.annotated
        /\ x.mark = m /\ x.template = o.template /\ x.hops = o.hops
        /\ x.status = o.status /\ x.due = o.due /\ x.targets = o.targets
    BY <1>2, VersionedFields
  <1> HIDE DEF x
  <1>4. Follows(w, o, x) /\ (Dated(o) => Dated(x))
    BY <1>1, <1>3 DEF Follows, Dated
  <1>5. Succeeds(w, o, x)
    BY <1>3, <1>4 DEF Succeeds, Chained
  <1> QED
    BY <1>2, <1>3, <1>4, <1>5 DEF x, y

-----------------------------------------------------------------------------
(* Histories *)

\* A step leaves w's history alone, takes the cache to a version further on, with the key
\* queued if the filter lets that through, starts from the last version, or adds one.
HistoryGoesOn(w) ==
  \/ log'[w] = log[w]
  \/ \E i \in 2..Len(log[w]) :
       /\ Len(log'[w]) = Len(log[w]) - i + 1
       /\ \A j \in 1..Len(log'[w]) : log'[w][j] = log[w][j + i - 1]
       /\ i = 2 \/ budget["relist"] > 0
       /\ Admitted(KindOf[w], Cached(w), log[w][i]) => Pending(w)'
  \/ CrashRestart /\ log'[w] = <<Server(w)>>
  \/ \E x \in Object : log'[w] = Append(log[w], x) /\ Succeeds(w, Server(w), x)

LEMMA AppendGoesOn ==
  ASSUME log \in Log, NEW w \in Workload, NEW x \in Object,
         Appends(w, x), Succeeds(w, Server(w), x)
  PROVE  \A v \in Workload : HistoryGoesOn(v)
  <1>1. log'[w] = Append(log[w], x) /\ \A v \in Workload \ {w} : log'[v] = log[v]
    BY DEF Appends, Log
  <1> QED
    BY <1>1 DEF HistoryGoesOn

LEMMA SameGoesOn == UNCHANGED log => \A v \in Workload : HistoryGoesOn(v)
  BY DEF HistoryGoesOn

LEMMA NextGoesOn ==
  ASSUME TypeOK, [Next]_vars
  PROVE  \A v \in Workload : HistoryGoesOn(v)
  <1>a. log \in Log
    BY DEF TypeOK, Log
  <1>1. ASSUME NEW w \in Workload, Disturb(w) \/ RollOut(w)
        PROVE  \A v \in Workload : HistoryGoesOn(v)
    <2>1. PICK x \in Object : Appends(w, x) /\ Succeeds(w, Server(w), x)
      BY <1>1, DisturbSucceeds, RollOutSucceeds
    <2> QED
      BY <1>a, <2>1, AppendGoesOn
  <1>2. ASSUME NEW w \in Workload, Deliver(w)
        PROVE  \A v \in Workload : HistoryGoesOn(v)
    <2>1. PICK i \in 2..Len(log[w]) :
            /\ Advance(w, i)
            /\ i = 2 \/ Spend("relist")
            /\ Admitted(KindOf[w], Cached(w), log[w][i]) => Add(w)
      BY <1>2 DEF Deliver
    <2> DEFINE n == Len(log[w])
    <2>2. log[w] \in Seq(Object) /\ n \in Nat /\ i \in 2..n
      BY <1>a DEF Log
    <2>3. log'[w] = SubSeq(log[w], i, n) /\ \A v \in Workload \ {w} : log'[v] = log[v]
      BY <1>a, <2>1 DEF Advance, Log
    <2>4. /\ Len(log'[w]) = n - i + 1
          /\ \A j \in 1..(n - i + 1) : log'[w][j] = log[w][j + i - 1]
      BY <2>2, <2>3
    <2>5. i = 2 \/ budget["relist"] > 0
      BY <2>1 DEF Spend
    <2>6. Admitted(KindOf[w], Cached(w), log[w][i]) => Pending(w)'
      BY <2>1 DEF Add, Pending
    <2> QED
      BY <2>2, <2>3, <2>4, <2>5, <2>6 DEF HistoryGoesOn
  <1>3. ASSUME NEW w \in Workload, Reconcile(w)
        PROVE  \A v \in Workload : HistoryGoesOn(v)
    <2>1. ASSUME NEW m \in BOOLEAN, m => pc[w] = "mark" /\ pc'[w] = "check",
                 Server(w).alive, Write(w, [Server(w) EXCEPT !.mark = m])
          PROVE  \A v \in Workload : HistoryGoesOn(v)
      <3> DEFINE x == Versioned(w, [Server(w) EXCEPT !.mark = m])
      <3>1. Appends(w, x)
        BY <2>1 DEF Write, Appends
      <3>2. x \in Object /\ Succeeds(w, Server(w), x)
        BY <1>a, <2>1, MarkSucceeds
      <3> HIDE DEF x
      <3> QED
        BY <1>a, <3>1, <3>2, AppendGoesOn
    <2>2. CASE SetMark(w)
      BY <2>1, <2>2 DEF SetMark, Marked, TypeOK
    <2>3. CASE ClearMark(w)
      BY <2>1, <2>3, SameGoesOn DEF ClearMark, Unmarked
    <2>4. ASSUME NEW t \in Workload, Trigger(w, t)
          PROVE  \A v \in Workload : HistoryGoesOn(v)
      <3> DEFINE h == copy[w].hops + 1
                 x == Versioned(t, Restarted(Server(t), h))
      <3>1. h \in Nat /\ Server(t).alive /\ pc[w] = "trigger" /\ t \in todo[w]
        BY <2>4, ObjectTypes DEF Trigger, Reloadable
      <3>2. UNCHANGED log \/ Appends(t, x)
        BY <2>4 DEF Trigger, Write, Appends
      <3>3. x \in Object /\ Succeeds(t, Server(t), x)
        BY <1>a, <3>1, RestartFollows
      <3> HIDE DEF x
      <3> QED
        BY <1>a, <3>2, <3>3, AppendGoesOn, SameGoesOn
    <2>5. CASE \/ SetMarkFails(w) \/ BadTargets(w) \/ NoTargets(w) \/ CheckCycle(w)
               \/ NotStable(w) \/ BeginReload(w) \/ \E t \in Workload : TriggerFails(w, t)
      BY <2>5, SameGoesOn DEF SetMarkFails, BadTargets, NoTargets, CheckCycle, NotStable,
                              BeginReload, TriggerFails, clusterVars
    <2> QED
      BY <1>3, <2>2, <2>3, <2>4, <2>5 DEF Reconcile
  <1>4. CASE CrashRestart
    BY <1>4 DEF CrashRestart, HistoryGoesOn
  <1>5. ASSUME NEW w \in Workload, Fire(w) \/ Dequeue(w)
        PROVE  \A v \in Workload : HistoryGoesOn(v)
    BY <1>5, SameGoesOn DEF Fire, Dequeue, clusterVars
  <1>6. CASE Tick \/ UNCHANGED vars
    BY <1>6, SameGoesOn DEF Tick, vars, clusterVars
  <1> QED
    BY <1>1, <1>2, <1>3, <1>4, <1>5, <1>6 DEF Next

\* A new version is the server's, and nobody's cached copy.
LEMMA AppendEnds ==
  ASSUME log \in Log, NEW w \in Workload, NEW x \in Object, Appends(w, x)
  PROVE  /\ Server(w)' = x
         /\ \A v \in Workload \ {w} : Server(v)' = Server(v)
         /\ \A v \in Workload : Cached(v)' = Cached(v)
  <1> DEFINE n == Len(log[w])
  <1>1. log[w] \in Seq(Object) /\ n \in Nat /\ n >= 1
    BY DEF Log
  <1>2. log'[w] = Append(log[w], x) /\ \A v \in Workload \ {w} : log'[v] = log[v]
    BY DEF Appends, Log
  <1>3. Len(log'[w]) = n + 1 /\ log'[w][n + 1] = x /\ log'[w][1] = log[w][1]
    BY <1>1, <1>2
  <1> QED
    BY <1>2, <1>3 DEF Server, Cached

\* All that is left of w's history is among the objects of G[w].
LogIn(G) == \A w \in Workload : \A i \in 1..Len(log[w]) : log[w][i] \in G[w]

LEMMA EndsIn ==
  ASSUME log \in Log, NEW G, LogIn(G), NEW w \in Workload
  PROVE  Server(w) \in G[w] /\ Cached(w) \in G[w]
  <1>1. Len(log[w]) \in 1..Len(log[w]) /\ 1 \in 1..Len(log[w])
    BY DEF Log
  <1> QED
    BY <1>1 DEF LogIn, Server, Cached

\* A history whose new versions stay within G does so itself.
LEMMA HistoryStaysIn ==
  ASSUME log \in Log, NEW G, LogIn(G), NEW w \in Workload, HistoryGoesOn(w),
         \A x \in Object : Succeeds(w, Server(w), x) => x \in G[w]
  PROVE  \A i \in 1..Len(log'[w]) : log'[w][i] \in G[w]
  <1> DEFINE n == Len(log[w])
  <1>1. log[w] \in Seq(Object) /\ n \in Nat /\ \A i \in 1..n : log[w][i] \in G[w]
    BY DEF Log, LogIn
  <1>2. CASE log'[w] = log[w]
    BY <1>1, <1>2
  <1>3. ASSUME NEW i \in 2..n, Len(log'[w]) = n - i + 1,
               \A j \in 1..Len(log'[w]) : log'[w][j] = log[w][j + i - 1]
        PROVE  \A j \in 1..Len(log'[w]) : log'[w][j] \in G[w]
    <2> SUFFICES ASSUME NEW j \in 1..Len(log'[w]) PROVE log'[w][j] \in G[w]
      OBVIOUS
    <2>1. j + i - 1 \in 1..n
      <3> HIDE DEF n
      <3> QED
        BY <1>1, <1>3
    <2> QED
      BY <1>1, <1>3, <2>1
  <1>4. ASSUME NEW x \in Object, log'[w] = Append(log[w], x), x \in G[w]
        PROVE  \A j \in 1..Len(log'[w]) : log'[w][j] \in G[w]
    <2>1. /\ Len(log'[w]) = n + 1 /\ log'[w][n + 1] = x
          /\ \A j \in 1..n : log'[w][j] = log[w][j]
      BY <1>1, <1>4
    <2> SUFFICES ASSUME NEW j \in 1..(n + 1) PROVE log'[w][j] \in G[w]
      BY <2>1
    <2>2. j \in 1..n \/ j = n + 1
      BY <1>1
    <2> QED
      BY <1>1, <1>4, <2>1, <2>2
  <1>5. CASE log'[w] = <<Server(w)>>
    BY <1>5, EndsIn
  <1> QED
    BY <1>2, <1>3, <1>4, <1>5 DEF HistoryGoesOn

\* The first versions.
LEMMA InitObjects ==
  ASSUME Init, NEW w \in Workload
  PROVE  LET o == Server(w)
         IN  /\ log[w] = <<o>> /\ o \in Object
             /\ Dated(o) /\ o.due = 0 /\ o.hops = 0 /\ ~o.mark
             /\ o.alive <=> w \in Present
             /\ o.alive => o.annotated = (InitTargets[w] # {})
  <1>1. CASE w \in Present
    <2> DEFINE o == Settled(w)
    <2>1. /\ o.alive /\ o.annotated = (InitTargets[w] # {}) /\ o.due = 0 /\ o.hops = 0
          /\ ~o.mark /\ o.template = 1 /\ o.rv = 1 /\ o.status.available = o.status.ready
      BY DEF Settled, Created, NoObject, Complete
    <2>2. log[w] = <<o>> /\ o \in Object
      BY <1>1, SettledType DEF Init, ClusterInit
    <2> HIDE DEF o
    <2>3. Dated(o) /\ Server(w) = o
      BY <2>1, <2>2 DEF Dated, Server
    <2> QED
      BY <1>1, <2>1, <2>2, <2>3
  <1>2. CASE w \notin Present
    <2>1. log[w] = <<NoObject>> /\ NoObject \in Object
      BY <1>2, NoObjectType DEF Init, ClusterInit
    <2>2. Dated(NoObject) /\ Server(w) = NoObject
      BY <2>1 DEF Dated, NoObject, NoStatus, Server
    <2>3. ~NoObject.alive /\ NoObject.due = 0 /\ NoObject.hops = 0 /\ ~NoObject.mark
      BY DEF NoObject
    <2> QED
      BY <1>2, <2>1, <2>2, <2>3
  <1> QED
    BY <1>1, <1>2

LEMMA InitIn ==
  ASSUME Init, NEW G, \A w \in Workload : Server(w) \in G[w]
  PROVE  LogIn(G)
  <1> SUFFICES ASSUME NEW w \in Workload PROVE \A i \in 1..Len(log[w]) : log[w][i] \in G[w]
    BY DEF LogIn
  <1>1. log[w] = <<Server(w)>>
    BY InitObjects
  <1>2. Len(log[w]) = 1 /\ log[w][1] = Server(w)
    BY <1>1
  <1> QED
    BY <1>2

-----------------------------------------------------------------------------
(* Reconciles *)

Held(v) == pc'[v] = pc[v] /\ copy'[v] = copy[v] /\ todo'[v] = todo[v]

Ended(v) == pc'[v] = "idle" /\ copy'[v] = NoObject /\ todo'[v] = {}

\* The key is taken from the queue, for nothing if the object is gone.
TakenUp(v) ==
  /\ Pending(v) /\ pc[v] = "idle"
  /\ IF Cached(v).alive
     THEN pc'[v] \in {"mark", "check"} /\ copy'[v] = Cached(v) /\ todo'[v] = todo[v]
     ELSE Held(v)

\* The reconcile ends without having come to a reload, and without another attempt to come.
GivesUp(v) ==
  /\ pc[v] = "check" /\ Ended(v)
  /\ NoTargets(v) \/ CheckCycle(v) \/ ~RequeueAfter(v)

\* One target less to go.
WorksOff(v, t) ==
  /\ pc[v] = "trigger" /\ t \in todo[v]
  /\ IF todo[v] = {t} THEN Ended(v)
     ELSE pc'[v] = pc[v] /\ copy'[v] = copy[v] /\ todo'[v] = todo[v] \ {t}

\* What a step of the system can do to the reconcile of v, short of a crash or a reload
\* that succeeds.
Progresses(v) ==
  \/ Held(v)
  \/ /\ pc[v] = "mark" /\ pc'[v] = "check"
     /\ copy'[v] = Server(v)' /\ todo'[v] = todo[v] /\ Server(v)'.due = Server(v).due
     /\ Server(v)'.hops = Server(v).hops
  \/ pc[v] \in {"mark", "check"} /\ Ended(v) /\ Pending(v)'
  \/ GivesUp(v)
  \/ /\ pc[v] = "check" /\ pc'[v] = "clear"
     /\ copy'[v] = copy[v] /\ todo'[v] = copy[v].targets
  \/ /\ pc[v] = "clear" /\ pc'[v] = "trigger" /\ ClearMark(v)
     /\ copy'[v] = copy[v] /\ todo'[v] = todo[v]
  \/ \E t \in Workload : TriggerFails(v, t) /\ WorksOff(v, t)

Moves(v) ==
  \/ /\ Pending(v) => Pending(v)'
     /\ \/ Progresses(v) /\ reached'[v] = reached[v]
        \/ \E t \in Workload :
             /\ Trigger(v, t) /\ WorksOff(v, t)
             /\ t \notin stamped => reached'[v] = [reached[v] EXCEPT ![t] = copy[v].due]
  \/ TakenUp(v) /\ reached'[v] = reached[v]
  \/ CrashRestart /\ Ended(v)

\* A key comes to be waiting when its reconcile is to be repeated, or by an event.
Summoned(v) ==
  Pending(v)' =>
    \/ Pending(v) \/ pc[v] # "idle"
    \/ Admitted(KindOf[v], Cached(v), Cached(v)')

LEMMA HeldMoves ==
  ASSUME NEW v \in Workload, Held(v), reached'[v] = reached[v], Pending(v) => Pending(v)',
         Summoned(v)
  PROVE  Moves(v) /\ Summoned(v)
  BY DEF Moves, Progresses

LEMMA SameMoves ==
  ASSUME UNCHANGED <<queueVars, workVars, reached>>
  PROVE  \A v \in Workload : Moves(v) /\ Summoned(v)
  BY HeldMoves DEF queueVars, workVars, Held, Summoned, Pending

LEMMA ReturnEnds ==
  ASSUME TypeOK, NEW w \in Workload, Return(w)
  PROVE  Ended(w) /\ \A v \in Workload \ {w} : Held(v)
  BY DEF TypeOK, Return, Ended, Held

LEMMA AgainWaits ==
  ASSUME TypeOK, NEW w \in Workload, Again(w)
  PROVE  /\ Pending(w)'
         /\ \A v \in Workload \ {w} : Pending(v)' <=> Pending(v)
  BY DEF TypeOK, Again, AddAfter, Pending

LEMMA TriggeredWorksOff ==
  ASSUME TypeOK, NEW w \in Workload, NEW t \in Workload, pc[w] = "trigger", t \in todo[w],
         Triggered(w, t)
  PROVE  /\ WorksOff(w, t)
         /\ \A v \in Workload \ {w} : Held(v)
         /\ \A v \in Workload : Pending(v)' <=> Pending(v)
  <1>1. CASE todo[w] = {t}
    BY <1>1, ReturnEnds DEF Triggered, Finish, queueVars, Pending, WorksOff
  <1>2. CASE todo[w] # {t}
    BY <1>2 DEF TypeOK, Triggered, queueVars, Pending, WorksOff, Held
  <1> QED
    BY <1>1, <1>2

LEMMA ReconcileMoves ==
  ASSUME TypeOK, NEW w \in Workload, Reconcile(w), NEW v \in Workload
  PROVE  Moves(v) /\ Summoned(v)
  <1>a. pc \in [Workload -> Step] /\ reached \in [Workload -> [Workload -> Nat]]
    BY DEF TypeOK
  <1>1. CASE SetMark(w)
    <2> DEFINE y == [Server(w) EXCEPT !.mark = TRUE]
               x == Versioned(w, y)
    <2>1. x \in Object /\ x.due = Server(w).due /\ x.hops = Server(w).hops
      BY <1>1, ObjectTypes, MarkSucceeds DEF SetMark, TypeOK
    <2>2. /\ Appends(w, x) /\ pc[w] = "mark"
          /\ pc' = [pc EXCEPT ![w] = "check"] /\ copy' = [copy EXCEPT ![w] = x]
          /\ UNCHANGED <<queued, delayed, todo, reached>>
      BY <1>1 DEF SetMark, Marked, Write, Appends, queueVars, ghostVars
    <2> HIDE DEF x
    <2>3. Server(w)' = x
      BY <2>1, <2>2, ObjectTypes, AppendEnds
    <2>4. Progresses(w)
      BY <2>1, <2>2, <2>3 DEF TypeOK, Progresses
    <2>5. v # w => Held(v)
      BY <2>2 DEF TypeOK, Held
    <2>6. Pending(v)' <=> Pending(v)
      BY <2>2 DEF Pending
    <2> QED
      BY <2>2, <2>4, <2>5, <2>6 DEF Moves, Progresses, Summoned
  <1>2. CASE SetMarkFails(w) \/ BadTargets(w) \/ (NotStable(w) /\ RequeueAfter(w))
    <2>1. pc[w] \in {"mark", "check"} /\ Again(w) /\ UNCHANGED reached
      BY <1>2 DEF SetMarkFails, BadTargets, NotStable, Walkable
    <2>2. Ended(w) /\ (v # w => Held(v))
      BY <2>1, ReturnEnds DEF Again
    <2> QED
      BY <2>1, <2>2, AgainWaits DEF Moves, Progresses, Summoned
  <1>3. CASE NoTargets(w) \/ CheckCycle(w) \/ (NotStable(w) /\ ~RequeueAfter(w))
    <2>1. pc[w] = "check" /\ Finish(w, copy[w].rv) /\ UNCHANGED reached
      BY <1>3 DEF NoTargets, CheckCycle, NotStable, Walkable
    <2>2. Ended(w) /\ (v # w => Held(v)) /\ (Pending(v)' <=> Pending(v))
      BY <2>1, ReturnEnds DEF Finish, queueVars, Pending
    <2>3. GivesUp(w)
      BY <1>3, <2>1, <2>2 DEF GivesUp
    <2> QED
      BY <2>1, <2>2, <2>3 DEF Moves, Progresses, Summoned
  <1>4. CASE BeginReload(w)
    <2>1. /\ pc[w] = "check" /\ pc'[w] = "clear" /\ copy' = copy /\ todo'[w] = copy[w].targets
          /\ v # w => Held(v)
          /\ UNCHANGED <<queued, delayed, reached>>
      BY <1>4 DEF BeginReload, Walkable, TypeOK, queueVars, Held
    <2> QED
      BY <2>1 DEF Moves, Progresses, Summoned, Pending
  <1>5. CASE ClearMark(w)
    <2>1. /\ pc[w] = "clear" /\ pc'[w] = "trigger" /\ copy' = copy /\ todo' = todo
          /\ v # w => Held(v)
          /\ UNCHANGED <<queued, delayed, reached>>
      BY <1>5 DEF ClearMark, TypeOK, queueVars, ghostVars, Held
    <2> QED
      BY <1>5, <2>1 DEF Moves, Progresses, Summoned, Pending
  <1>6. ASSUME NEW t \in Workload, TriggerFails(w, t)
        PROVE  Moves(v) /\ Summoned(v)
    <2>1. /\ WorksOff(w, t) /\ (v # w => Held(v)) /\ (Pending(v)' <=> Pending(v))
      BY <1>6, TriggeredWorksOff DEF TriggerFails
    <2>2. UNCHANGED reached
      BY <1>6 DEF TriggerFails
    <2> QED
      BY <1>6, <2>1, <2>2 DEF Moves, Progresses, Summoned
  <1>7. ASSUME NEW t \in Workload, Trigger(w, t)
        PROVE  Moves(v) /\ Summoned(v)
    <2>1. /\ WorksOff(w, t) /\ (v # w => Held(v)) /\ (Pending(v)' <=> Pending(v))
      BY <1>7, TriggeredWorksOff DEF Trigger
    <2>2. reached' = reached \/ reached' = [reached EXCEPT ![w][t] = copy[w].due]
      BY <1>7 DEF Trigger
    <2>3. /\ v # w => reached'[v] = reached[v]
          /\ t \notin stamped => reached'[w] = [reached[w] EXCEPT ![t] = copy[w].due]
      BY <1>a, <1>7, <2>2 DEF Trigger
    <2> QED
      BY <1>7, <2>1, <2>3 DEF Moves, Progresses, Summoned
  <1> QED
    BY <1>1, <1>2, <1>3, <1>4, <1>5, <1>6, <1>7 DEF Reconcile

LEMMA NextMoves ==
  ASSUME TypeOK, [Next]_vars
  PROVE  \A v \in Workload : Moves(v) /\ Summoned(v)
  <1>1. ASSUME NEW w \in Workload, Disturb(w) \/ RollOut(w)
        PROVE  \A v \in Workload : Moves(v) /\ Summoned(v)
    BY <1>1, SameMoves DEF Disturb, RollOut, cascaderVars, ghostVars, queueVars, workVars
  <1>2. ASSUME NEW w \in Workload, Deliver(w), NEW v \in Workload
        PROVE  Moves(v) /\ Summoned(v)
    <2>1. PICK i \in 2..Len(log[w]) :
            /\ Advance(w, i)
            /\ IF Admitted(KindOf[w], Cached(w), log[w][i]) THEN Add(w)
               ELSE UNCHANGED queueVars
            /\ UNCHANGED <<workVars, reached>>
      BY <1>2 DEF Deliver
    <2>2. Held(v) /\ (Pending(v) => Pending(v)')
      BY <2>1 DEF workVars, Held, Add, queueVars, Pending
    <2>3. Cached(w)' = log[w][i]
      <3>1. log[w] \in Seq(Object) /\ i \in 2..Len(log[w])
        BY DEF TypeOK
      <3>2. log'[w] = SubSeq(log[w], i, Len(log[w]))
        BY <2>1 DEF TypeOK, Advance
      <3> QED
        BY <3>1, <3>2 DEF Cached
    <2>4. Summoned(v)
      BY <2>1, <2>3 DEF Summoned, Add, queueVars, Pending
    <2> QED
      BY <2>1, <2>2, <2>4, HeldMoves
  <1>3. ASSUME NEW w \in Workload, Fire(w), NEW v \in Workload
        PROVE  Moves(v) /\ Summoned(v)
    <2>1. Held(v) /\ (Pending(v)' <=> Pending(v)) /\ UNCHANGED reached
      BY <1>3 DEF Fire, workVars, ghostVars, Held, Pending
    <2> QED
      BY <2>1, HeldMoves DEF Summoned
  <1>4. ASSUME NEW w \in Workload, Dequeue(w), NEW v \in Workload
        PROVE  Moves(v) /\ Summoned(v)
    <2>1. /\ v # w => Held(v) /\ (Pending(v)' <=> Pending(v))
          /\ Pending(v)' => Pending(v)
          /\ UNCHANGED reached
      BY <1>4 DEF Dequeue, TypeOK, Held, Pending
    <2>2. TakenUp(w)
      BY <1>4 DEF Dequeue, TypeOK, TakenUp, Held, Pending
    <2> QED
      BY <2>1, <2>2 DEF Moves, Progresses, Summoned
  <1>5. CASE Tick
    BY <1>5, SameMoves DEF Tick, ghostVars
  <1>6. CASE CrashRestart
    BY <1>6 DEF CrashRestart, Moves, Ended, Summoned, Pending
  <1>7. CASE UNCHANGED vars
    BY <1>7, SameMoves DEF vars, ghostVars
  <1> QED
    BY <1>1, <1>2, <1>3, <1>4, <1>5, <1>6, <1>7, ReconcileMoves DEF Next

-----------------------------------------------------------------------------
(* Chains of reloads *)

\* The workloads whose reloads may lead to one of w.
Upstream(w) ==
  {s \in Workload : w \in Reach(InitGraph, InitGraph[s]) /\ ~ReachesCycle(InitGraph, s)}

LEMMA UpstreamGrows ==
  ASSUME NEW w \in Workload, ~ReachesCycle(InitGraph, w), NEW t \in InitGraph[w]
  PROVE  Upstream(w) \cup {w} \subseteq Upstream(t) /\ w \notin Upstream(w)
  <1>1. /\ InitGraph \in Graph /\ DOMAIN InitGraph = Workload
        /\ \A s \in Workload : InitGraph[s] \in SUBSET Workload
    BY InitGraphType DEF Graph
  <1>2. t \in Workload
    BY <1>1
  <1>3. w \notin Upstream(w)
    <2>1. w \in Reach(InitGraph, {w})
      BY <1>1, ReachClosed
    <2> QED
      BY <1>1, <2>1 DEF ReachesCycle, OnCycle, Upstream
  <1>4. w \in Upstream(t)
    BY <1>1, ReachClosed DEF Upstream
  <1>5. ASSUME NEW s \in Upstream(w)
        PROVE  s \in Upstream(t)
    <2>1. s \in Workload /\ w \in Reach(InitGraph, InitGraph[s])
      BY <1>5 DEF Upstream
    <2>2. Closed(InitGraph, Reach(InitGraph, InitGraph[s]))
      BY <1>1, <2>1, ReachClosed
    <2>3. t \in Reach(InitGraph, InitGraph[s])
      BY <1>1, <2>1, <2>2 DEF Closed
    <2> QED
      BY <1>5, <2>3 DEF Upstream
  <1> QED
    BY <1>3, <1>4, <1>5

LEMMA UpstreamCounts ==
  ASSUME NEW w \in Workload
  PROVE  /\ Cardinality(Upstream(w)) \in Nat
         /\ Cardinality(Upstream(w)) <= Cardinality(Workload)
         /\ Cardinality(Workload) \in Nat
         /\ \A t \in InitGraph[w] : ~ReachesCycle(InitGraph, w) =>
              Cardinality(Upstream(w)) + 1 <= Cardinality(Upstream(t))
  <1>1. \A v : Upstream(v) \in SUBSET Workload
    BY DEF Upstream
  <1>2. \A v : IsFiniteSet(Upstream(v)) /\ Cardinality(Upstream(v)) <= Cardinality(Workload)
    BY <1>1, FiniteAssumption, FS_Subset
  <1>3. \A v : Cardinality(Upstream(v)) \in Nat
    BY <1>2, FS_CardinalityType
  <1>4. Cardinality(Workload) \in Nat
    BY FiniteAssumption, FS_CardinalityType
  <1>5. ASSUME NEW t \in InitGraph[w], ~ReachesCycle(InitGraph, w)
        PROVE  Cardinality(Upstream(w)) + 1 <= Cardinality(Upstream(t))
    <2>1. Upstream(w) \cup {w} \subseteq Upstream(t) /\ w \notin Upstream(w)
      BY <1>5, UpstreamGrows
    <2>2. Cardinality(Upstream(w) \cup {w}) = Cardinality(Upstream(w)) + 1
      BY <1>2, <2>1, FS_AddElement
    <2>3. Cardinality(Upstream(w) \cup {w}) <= Cardinality(Upstream(t))
      BY <1>2, <2>1, FS_Subset
    <2> QED
      BY <2>2, <2>3
  <1> QED
    BY <1>2, <1>3, <1>4, <1>5

\* Batches hold what the source's owner has annotated.
BatchesNamed == \A w \in Workload : todo[w] \subseteq InitTargets[w]

LEMMA NextNamed ==
  ASSUME TypeOK, Halting, BatchesNamed, [Next]_vars
  PROVE  BatchesNamed'
  <1> SUFFICES ASSUME NEW w \in Workload PROVE todo'[w] \subseteq InitTargets[w]
    BY DEF BatchesNamed
  <1>1. todo[w] \subseteq InitTargets[w]
        /\ (pc[w] = "check" => copy[w].targets = InitTargets[w])
    BY DEF BatchesNamed, Halting
  <1>2. Moves(w)
    BY NextMoves
  <1> QED
    BY <1>1, <1>2 DEF Moves, Progresses, TakenUp, Held, Ended, GivesUp, WorksOff

BriefObjects == [w \in Workload |-> {o \in Object : o.hops <= Cardinality(Upstream(w))}]

\* No chain of reloads is longer than there are workloads it may have come through.
ChainsBrief ==
  /\ LogIn(BriefObjects)
  /\ \A w \in Workload : copy[w].hops <= Cardinality(Upstream(w))

LEMMA NextBrief ==
  ASSUME TypeOK, Halting, BatchesNamed, ChainsBrief, [Next]_vars
  PROVE  ChainsBrief'
  <1>1. log \in Log
    BY ObjectTypes
  <1>2. ASSUME NEW w \in Workload
        PROVE  \A i \in 1..Len(log'[w]) : log'[w][i] \in BriefObjects[w]
    <2>1. ASSUME NEW x \in Object, Chained(w, Server(w), x)
          PROVE  x.hops <= Cardinality(Upstream(w))
      <3>1. Cardinality(Upstream(w)) \in Nat /\ Server(w).hops <= Cardinality(Upstream(w))
        BY <1>1, EndsIn, UpstreamCounts DEF ChainsBrief, BriefObjects
      <3>2. ASSUME NEW s \in Workload, pc[s] = "trigger", w \in todo[s],
                   x.hops = copy[s].hops + 1
            PROVE  x.hops <= Cardinality(Upstream(w))
        <4>1. ~ReachesCycle(InitGraph, s) /\ w \in InitGraph[s]
          BY <3>2 DEF Halting, BatchesNamed, InitGraph
        <4>2. /\ Cardinality(Upstream(s)) \in Nat
              /\ Cardinality(Upstream(s)) + 1 <= Cardinality(Upstream(w))
          BY <4>1, UpstreamCounts
        <4>3. copy[s].hops \in Nat /\ copy[s].hops <= Cardinality(Upstream(s))
          BY ObjectTypes DEF ChainsBrief
        <4> QED
          BY <3>1, <3>2, <4>2, <4>3
      <3> QED
        BY <2>1, <3>1, <3>2 DEF Chained
    <2> QED
      BY <1>1, <2>1, NextGoesOn, HistoryStaysIn DEF ChainsBrief, Succeeds, BriefObjects
  <1>3. ASSUME NEW w \in Workload
        PROVE  copy'[w].hops <= Cardinality(Upstream(w))
    <2>1. /\ Cardinality(Upstream(w)) \in Nat
          /\ copy[w].hops <= Cardinality(Upstream(w))
          /\ Server(w).hops <= Cardinality(Upstream(w))
          /\ Cached(w).hops <= Cardinality(Upstream(w))
      BY <1>1, EndsIn, UpstreamCounts DEF ChainsBrief, BriefObjects
    <2>2. Moves(w)
      BY NextMoves
    <2>3. NoObject.hops = 0
      BY DEF NoObject
    <2>4. \/ copy'[w] = copy[w] \/ copy'[w] = NoObject \/ copy'[w] = Cached(w)
          \/ copy'[w].hops = Server(w).hops
      BY <2>2 DEF Moves, Progresses, TakenUp, Held, Ended, GivesUp, WorksOff
    <2> QED
      BY <2>1, <2>3, <2>4
  <1> QED
    BY <1>2, <1>3 DEF ChainsBrief, LogIn

LEMMA InitBrief == Init => BatchesNamed /\ ChainsBrief
  <1> SUFFICES ASSUME Init PROVE BatchesNamed /\ ChainsBrief
    OBVIOUS
  <1>1. BatchesNamed
    BY DEF Init, ReconcilerInit, BatchesNamed
  <1>2. \A w \in Workload : 0 <= Cardinality(Upstream(w))
    BY UpstreamCounts
  <1>3. LogIn(BriefObjects)
    BY <1>2, InitObjects, InitIn DEF BriefObjects
  <1>4. \A w \in Workload : copy[w].hops <= Cardinality(Upstream(w))
    BY <1>2 DEF Init, ReconcilerInit, NoObject
  <1> QED
    BY <1>1, <1>3, <1>4 DEF ChainsBrief

\* Reloads die out: while nobody edits the annotations, a reload that another one brought on,
\* which another one brought on, is at the end of a chain no longer than there are workloads
\* it can have come through, whatever is restarted, deleted, created or failing meanwhile.
\* The check of cycles before every batch is what bounds it.
THEOREM ChainsAreShort ==
  ASSUME \A w \in Workload : TargetChoices[w] = {}
  PROVE  Spec => /\ []ChainsEnd
                 /\ [](\A w \in Workload : Server(w).hops <= Cardinality(Upstream(w)))
  <1>1. NobodyEdits
    BY DEF NobodyEdits
  <1>2. TypeOK /\ ChainsBrief =>
          /\ ChainsEnd
          /\ \A w \in Workload : Server(w).hops <= Cardinality(Upstream(w))
    <2> SUFFICES ASSUME TypeOK, ChainsBrief, NEW w \in Workload
                 PROVE  /\ Server(w).hops <= 2 * Cardinality(Workload)
                        /\ Server(w).hops <= Cardinality(Upstream(w))
      BY DEF ChainsEnd
    <2>1. Server(w) \in Object /\ Server(w).hops <= Cardinality(Upstream(w))
      BY ObjectTypes, EndsIn DEF ChainsBrief, BriefObjects
    <2>2. Server(w).hops \in Nat
      BY <2>1, StatusOf
    <2> QED
      BY <2>1, <2>2, UpstreamCounts
  <1>3. TypeOK /\ Halting /\ [Next]_vars => Halting'
    BY <1>1, NextHalting
  <1>4. TypeOK /\ Halting /\ BatchesNamed /\ ChainsBrief /\ [Next]_vars =>
          BatchesNamed' /\ ChainsBrief'
    BY NextNamed, NextBrief
  <1> QED
    BY <1>2, <1>3, <1>4, InitHalting, InitBrief, TypeCorrect, PTL DEF Spec

-----------------------------------------------------------------------------
(* Templates and stamps *)

DatedObjects == [w \in Workload |-> {o \in Object : Dated(o)}]

LogDated == LogIn(DatedObjects)

LEMMA NextDated == TypeOK /\ LogDated /\ [Next]_vars => LogDated'
  <1> SUFFICES ASSUME TypeOK, LogDated, [Next]_vars, NEW w \in Workload
               PROVE  \A i \in 1..Len(log'[w]) : log'[w][i] \in DatedObjects[w]
    BY DEF LogDated, LogIn
  <1>1. log \in Log
    BY DEF TypeOK, Log
  <1>2. Dated(Server(w))
    BY <1>1, EndsIn DEF LogDated, DatedObjects
  <1>3. \A x \in Object : Succeeds(w, Server(w), x) => x \in DatedObjects[w]
    BY <1>2 DEF Succeeds, DatedObjects
  <1> QED
    BY <1>1, <1>3, NextGoesOn, HistoryStaysIn DEF LogDated

LEMMA InitDated == Init => LogDated
  <1>1. Init => \A w \in Workload : Server(w) \in DatedObjects[w]
    BY InitObjects DEF DatedObjects
  <1> QED
    BY <1>1, InitIn DEF LogDated

\* Of Cascader's stamps none is left in the second, if no two share one.
SecondsApart == stamped = {}

LEMMA NextApart ==
  ASSUME Subsecond = FALSE
  PROVE  SecondsApart /\ [Next]_vars => SecondsApart'
  <1> SUFFICES ASSUME SecondsApart, [Next]_vars PROVE SecondsApart'
    OBVIOUS
  <1>1. ASSUME NEW w \in Workload, Reconcile(w)
        PROVE  stamped' = stamped
    BY <1>1 DEF Reconcile, SetMark, SetMarkFails, BadTargets, NoTargets, CheckCycle, NotStable,
                BeginReload, ClearMark, Trigger, TriggerFails
  <1>2. ASSUME NEW w \in Workload,
               Disturb(w) \/ RollOut(w) \/ Deliver(w) \/ Fire(w) \/ Dequeue(w)
        PROVE  stamped' = stamped
    BY <1>2 DEF Disturb, RollOut, cascaderVars, Deliver, Fire, Dequeue
  <1> QED
    BY <1>1, <1>2 DEF Next, Tick, CrashRestart, vars, SecondsApart

-----------------------------------------------------------------------------
(* A cluster in which no object is deleted, nobody edits the annotations, these name
   workloads that exist, and every delay is one: what its histories show *)

Undisturbed ==
  /\ \A w \in Workload :
       /\ TargetChoices[w] = {}
       /\ InitTargets[w] \subseteq Present
       /\ RequeueAnnotation[w] # "nonpositive"
  /\ Budget["delete"] = 0

\* Nothing is done more often than its budget allows.
Budgeted == \A op \in Op : budget[op] <= Budget[op]

LEMMA SpendBudgeted ==
  ASSUME TypeOK, Budgeted, NEW op \in Op, Spend(op) \/ UNCHANGED budget
  PROVE  Budgeted'
  <1>1. budget \in [Op -> Nat] /\ Budget \in [Op -> Nat]
    BY BoundAssumption DEF TypeOK
  <1>2. budget' = [budget EXCEPT ![op] = @ - 1] \/ budget' = budget
    BY DEF Spend
  <1> QED
    BY <1>1, <1>2 DEF Budgeted

LEMMA NextSpends ==
  ASSUME [Next]_vars
  PROVE  (\E op \in Op : Spend(op)) \/ UNCHANGED budget
  <1> USE DEF Op
  <1>1. ASSUME NEW w \in Workload, Disturb(w) \/ RollOut(w)
        PROVE  (\E op \in Op : Spend(op)) \/ UNCHANGED budget
    BY <1>1 DEF Disturb, Create, UserRestart, Rescale, EditTargets, LosePod, Delete,
                RollOut, Observe, Settle
  <1>2. ASSUME NEW w \in Workload, Deliver(w) \/ Fire(w) \/ Dequeue(w)
        PROVE  (\E op \in Op : Spend(op)) \/ UNCHANGED budget
    BY <1>2 DEF Deliver, Fire, Dequeue
  <1>3. ASSUME NEW w \in Workload, Reconcile(w)
        PROVE  (\E op \in Op : Spend(op)) \/ UNCHANGED budget
    BY <1>3 DEF Reconcile, SetMark, SetMarkFails, BadTargets, NoTargets, CheckCycle,
                NotStable, BeginReload, ClearMark, Trigger, TriggerFails
  <1> QED
    BY <1>1, <1>2, <1>3 DEF Next, Tick, CrashRestart, vars

LEMMA NextBudgeted == TypeOK /\ Budgeted /\ [Next]_vars => Budgeted'
  BY NextSpends, SpendBudgeted DEF Op

\* What is alive has the annotations its owner gave it; what is not has never lived.
CreatedObjects ==
  [w \in Workload |->
     {o \in Object : /\ o.alive => o.annotated = (InitTargets[w] # {})
                     /\ ~o.alive => o.due = 0 /\ w \notin Present}]

\* From one version to the next no life ends, and no restart escapes the predicates.
Noticed(w, o, x) ==
  x.alive /\ (InitTargets[w] # {} /\ x.due # o.due => Admitted(KindOf[w], o, x))

LogNoticed ==
  \A w \in Workload : \A i \in 2..Len(log[w]) : Noticed(w, log[w][i - 1], log[w][i])

LivesGoOn == LogDated /\ LogIn(CreatedObjects) /\ LogNoticed

\* The version that a step adds.
LEMMA NextVersion ==
  ASSUME Undisturbed, Budgeted, TypeOK, LivesGoOn, NEW w \in Workload,
         NEW x \in Object, Succeeds(w, Server(w), x)
  PROVE  /\ x.alive
         /\ x \in CreatedObjects[w]
         /\ Noticed(w, Server(w), x)
         /\ x.due = Server(w).due \/ x.due = x.rv
  <1> DEFINE o == Server(w)
  <1>1. Dated(o) /\ o \in CreatedObjects[w]
    BY ObjectTypes, EndsIn DEF LivesGoOn, LogDated, DatedObjects
  <1>2. budget["delete"] = 0 /\ TargetChoices[w] = {}
    <2>1. "delete" \in Op /\ budget["delete"] \in Nat
      BY DEF Op, TypeOK
    <2> QED
      BY <2>1 DEF Undisturbed, Budgeted
  <1>3. CASE Follows(w, o, x)
    <2>1. o.alive /\ x.alive /\ x.annotated = o.annotated
      BY <1>3 DEF Follows
    <2>2. o.annotated = (InitTargets[w] # {})
      BY <1>1, <2>1 DEF CreatedObjects
    <2>3. x \in CreatedObjects[w]
      BY <2>1, <2>2 DEF CreatedObjects
    <2>4. Noticed(w, o, x)
      BY <1>1, <1>3, <2>1, <2>2 DEF Follows, Noticed
    <2> QED
      BY <1>3, <2>1, <2>3, <2>4 DEF Follows
  <1>4. CASE ~o.alive /\ x.alive /\ x.annotated = (InitTargets[w] # {}) /\ x.due = 0
    BY <1>1, <1>4 DEF CreatedObjects, Noticed
  <1> QED
    BY <1>2, <1>3, <1>4 DEF Succeeds

LEMMA NextLives ==
  ASSUME Undisturbed
  PROVE  Budgeted /\ TypeOK /\ LivesGoOn /\ [Next]_vars => LivesGoOn'
  <1> SUFFICES ASSUME Budgeted, TypeOK, LivesGoOn, [Next]_vars PROVE LivesGoOn'
    OBVIOUS
  <1>1. log \in Log
    BY ObjectTypes
  <1>2. LogDated'
    BY NextDated DEF LivesGoOn
  <1>3. ASSUME NEW w \in Workload
        PROVE  \A i \in 1..Len(log'[w]) : log'[w][i] \in CreatedObjects[w]
    BY <1>1, NextVersion, NextGoesOn, HistoryStaysIn DEF LivesGoOn
  <1>4. ASSUME NEW w \in Workload
        PROVE  \A i \in 2..Len(log'[w]) : Noticed(w, log'[w][i - 1], log'[w][i])
    <2> DEFINE n == Len(log[w])
    <2>1. /\ log[w] \in Seq(Object) /\ n \in Nat /\ n >= 1
          /\ \A i \in 2..n : Noticed(w, log[w][i - 1], log[w][i])
      BY <1>1 DEF Log, LivesGoOn, LogNoticed
    <2>2. CASE log'[w] = log[w]
      BY <2>1, <2>2
    <2>3. ASSUME NEW i \in 2..n, Len(log'[w]) = n - i + 1,
                 \A j \in 1..Len(log'[w]) : log'[w][j] = log[w][j + i - 1]
          PROVE  \A j \in 2..Len(log'[w]) : Noticed(w, log'[w][j - 1], log'[w][j])
      <3> SUFFICES ASSUME NEW j \in 2..Len(log'[w])
                   PROVE  Noticed(w, log'[w][j - 1], log'[w][j])
        OBVIOUS
      <3> HIDE DEF n
      <3>1. j - 1 \in 1..Len(log'[w]) /\ j \in 1..Len(log'[w])
        BY <2>1, <2>3
      <3>2. log'[w][j - 1] = log[w][(j - 1) + i - 1] /\ log'[w][j] = log[w][j + i - 1]
        BY <2>3, <3>1
      <3>3. j + i - 1 \in 2..n /\ (j + i - 1) - 1 = (j - 1) + i - 1
        BY <2>1, <2>3
      <3> QED
        BY <2>1, <3>2, <3>3
    <2>4. ASSUME NEW x \in Object, log'[w] = Append(log[w], x), Succeeds(w, Server(w), x)
          PROVE  \A j \in 2..Len(log'[w]) : Noticed(w, log'[w][j - 1], log'[w][j])
      <3>1. /\ Len(log'[w]) = n + 1 /\ log'[w][n + 1] = x
            /\ \A j \in 1..n : log'[w][j] = log[w][j]
        BY <2>1, <2>4
      <3>2. Noticed(w, log[w][n], x)
        BY <2>4, NextVersion DEF Server
      <3> HIDE DEF n
      <3> SUFFICES ASSUME NEW j \in 2..(n + 1)
                   PROVE  Noticed(w, log'[w][j - 1], log'[w][j])
        BY <3>1
      <3>3. CASE j = n + 1
        <4>1. j - 1 = n /\ n \in 1..n
          BY <2>1, <3>3
        <4> QED
          BY <3>1, <3>2, <3>3, <4>1
      <3>4. CASE j # n + 1
        <4>1. j \in 2..n /\ j \in 1..n /\ j - 1 \in 1..n
          BY <2>1, <3>4
        <4> QED
          BY <2>1, <3>1, <4>1
      <3> QED
        BY <3>3, <3>4
    <2>5. CASE log'[w] = <<Server(w)>>
      BY <2>5
    <2> QED
      BY <2>2, <2>3, <2>4, <2>5, NextGoesOn DEF HistoryGoesOn
  <1> QED
    BY <1>2, <1>3, <1>4 DEF LivesGoOn, LogIn, LogNoticed, Noticed

-----------------------------------------------------------------------------
(* The same cluster: what its reconciles come to *)

\* Whatever is waiting, or being worked on, exists and has targets.
AtWork == \A w \in Workload : Pending(w) \/ pc[w] # "idle" =>
                                Cached(w).alive /\ InitTargets[w] # {}

LEMMA LifeGoesOn ==
  ASSUME TypeOK, LivesGoOn, [Next]_vars, NEW w \in Workload, Cached(w).alive
  PROVE  Server(w).alive /\ Cached(w)'.alive
  <1> DEFINE n == Len(log[w])
  <1>1. log \in Log /\ log[w] \in Seq(Object) /\ n \in Nat /\ n >= 1
    BY ObjectTypes DEF Log
  <1>2. \A i \in 2..n : log[w][i].alive
    BY DEF LivesGoOn, LogNoticed, Noticed
  <1>3. \A i \in 1..n : log[w][i].alive
    <2> SUFFICES ASSUME NEW i \in 1..n PROVE log[w][i].alive
      OBVIOUS
    <2> HIDE DEF n
    <2>1. i = 1 \/ i \in 2..n
      BY <1>1
    <2> QED
      BY <1>2, <2>1 DEF Cached
  <1>4. Server(w).alive
    <2>1. n \in 1..n
      BY <1>1
    <2> QED
      BY <1>3, <2>1 DEF Server
  <1>5. Cached(w)'.alive
    <2>1. CASE log'[w] = log[w]
      BY <2>1 DEF Cached
    <2>2. ASSUME NEW i \in 2..n, Len(log'[w]) = n - i + 1,
                 \A j \in 1..Len(log'[w]) : log'[w][j] = log[w][j + i - 1]
          PROVE  Cached(w)'.alive
      <3> HIDE DEF n
      <3>1. 1 \in 1..Len(log'[w]) /\ i \in 1..n /\ 1 + i - 1 = i
        BY <1>1, <2>2
      <3>2. log'[w][1] = log[w][i]
        BY <2>2, <3>1
      <3> QED
        BY <1>3, <3>1, <3>2 DEF Cached
    <2>3. CASE log'[w] = <<Server(w)>>
      BY <1>4, <2>3 DEF Cached
    <2>4. ASSUME NEW x \in Object, log'[w] = Append(log[w], x)
          PROVE  Cached(w)'.alive
      <3>1. log'[w][1] = log[w][1]
        BY <1>1, <2>4
      <3> QED
        BY <3>1 DEF Cached
    <2> QED
      BY <2>1, <2>2, <2>3, <2>4, NextGoesOn DEF HistoryGoesOn
  <1> QED
    BY <1>4, <1>5

LEMMA NextAtWork ==
  ASSUME TypeOK, LivesGoOn, LivesGoOn', log' \in Log, AtWork, [Next]_vars
  PROVE  AtWork'
  <1> SUFFICES ASSUME NEW w \in Workload, Pending(w)' \/ pc'[w] # "idle"
               PROVE  Cached(w)'.alive /\ InitTargets[w] # {}
    BY DEF AtWork, Pending
  <1>1. Moves(w) /\ Summoned(w)
    BY NextMoves
  <1>2. \/ Pending(w) \/ pc[w] # "idle"
        \/ Admitted(KindOf[w], Cached(w), Cached(w)')
    BY <1>1 DEF Moves, Summoned, Progresses, Held, Ended, TakenUp, WorksOff, GivesUp
  <1>3. CASE Pending(w) \/ pc[w] # "idle"
    BY <1>3, LifeGoesOn DEF AtWork
  <1>4. CASE Admitted(KindOf[w], Cached(w), Cached(w)')
    <2>1. Cached(w)'.alive /\ Cached(w)'.annotated
      BY <1>4, LifeGoesOn DEF Admitted
    <2>2. Cached(w)' \in CreatedObjects[w]
      <3>1. 1 \in 1..Len(log'[w])
        BY DEF Log
      <3> QED
        BY <3>1 DEF LivesGoOn, LogIn, Cached
    <2> QED
      BY <2>1, <2>2 DEF CreatedObjects
  <1> QED
    BY <1>2, <1>3, <1>4

\* Unless it leads into a cycle, no reconcile ends but with a reload or to be repeated: the
\* walk finds neither a cycle nor anything it cannot read.
LEMMA NoneGivesUp ==
  ASSUME Undisturbed, TypeOK, Halting, LivesGoOn, AtWork,
         NEW w \in Workload, ~ReachesCycle(InitGraph, w)
  PROVE  ~GivesUp(w)
  <1> SUFFICES ASSUME GivesUp(w) PROVE FALSE
    OBVIOUS
  <1>1. RequeueAfter(w)
    BY DEF Undisturbed, RequeueAfter
  <1>2. copy[w].targets = InitTargets[w] /\ InitTargets[w] # {}
    BY DEF GivesUp, Halting, AtWork
  <1>3. CheckCycle(w)
    BY <1>1, <1>2 DEF GivesUp, NoTargets
  <1>4. ASSUME NEW x \in Workload, ~Unreadable(x)
        PROVE  Cached(x).targets = InitTargets[x]
    <2>1. 1 \in 1..Len(log[x])
      BY ObjectTypes DEF Log
    <2> QED
      BY <1>4, <2>1 DEF Unreadable, Halting, AsAnnotated, Cached
  <1>5. /\ \A x \in Workload : Walk(w)[x] \subseteq InitTargets[x]
        /\ Walk(w) \in Graph
    <2>1. ASSUME NEW x \in Workload
          PROVE  Walk(w)[x] \subseteq InitTargets[x] /\ InitTargets[x] \subseteq Workload
      BY <1>2, <1>4, PresentAssumption DEF Walk, Undisturbed
    <2> QED
      BY <2>1 DEF Graph, Walk
  <1>6. ~CycleFound(w)
    <2>1. \A x \in Reach(InitGraph, {w}) : Walk(w)[x] \subseteq InitGraph[x]
      <3>1. Reach(InitGraph, {w}) \subseteq Workload
        BY InitGraphType, ReachClosed
      <3> QED
        BY <1>5, <3>1 DEF InitGraph, Graph
    <2> QED
      BY <1>5, <2>1, InitGraphType, CycleInLarger DEF CycleFound
  <1>7. ~ErrorFound(w)
    <2> DEFINE D == Present \cup {w}
    <2>1. D \in SUBSET Workload /\ {w} \subseteq D /\ Closed(Walk(w), D)
      BY <1>5, PresentAssumption DEF Closed, Undisturbed
    <2>2. Reach(Walk(w), {w}) \subseteq D
      BY <1>5, <2>1, ReachWithin
    <2>3. ASSUME NEW x \in Present
          PROVE  ~Unreadable(x)
      <3>1. x \in Workload /\ InitTargets[x] \subseteq Workload
        BY PresentAssumption DEF Undisturbed
      <3>2. Cached(x) \in CreatedObjects[x] /\ 1 \in 1..Len(log[x])
        BY <3>1, ObjectTypes, EndsIn DEF LivesGoOn, Log
      <3>3. Cached(x).alive
        BY <3>1, <3>2 DEF CreatedObjects
      <3>4. Cached(x).targets = InitTargets[x]
        BY <3>1, <3>2, <3>3 DEF Halting, AsAnnotated, Cached
      <3> QED
        BY <3>1, <3>3, <3>4, RefAssumption DEF Unreadable
    <2> QED
      BY <2>2, <2>3 DEF ErrorFound
  <1> QED
    BY <1>3, <1>6, <1>7 DEF CheckCycle

\* All of this together.
Steady == TypeOK /\ Halting /\ Budgeted /\ LivesGoOn /\ AtWork

LEMMA InitSteady == Undisturbed /\ Init => Steady
  <1> SUFFICES ASSUME Undisturbed, Init PROVE Steady
    OBVIOUS
  <1>1. Budgeted
    BY BoundAssumption DEF Budgeted, Init, ClusterInit
  <1>2. \A w \in Workload : Server(w) \in CreatedObjects[w]
    BY InitObjects DEF CreatedObjects
  <1>3. LogNoticed
    <2> SUFFICES ASSUME NEW w \in Workload, NEW i \in 2..Len(log[w]) PROVE FALSE
      BY DEF LogNoticed
    <2>1. log[w] = <<Server(w)>>
      BY InitObjects
    <2>2. Len(log[w]) = 1
      BY <2>1
    <2> QED
      BY <2>2
  <1>4. AtWork
    BY DEF AtWork, Pending, Init, ReconcilerInit
  <1> QED
    BY <1>1, <1>2, <1>3, <1>4, InitType, InitHalting, InitDated, InitIn DEF Steady, LivesGoOn

LEMMA NextSteady == Undisturbed /\ Steady /\ [Next]_vars => Steady'
  <1> SUFFICES ASSUME Undisturbed, Steady, [Next]_vars PROVE Steady'
    OBVIOUS
  <1>1. TypeOK /\ Halting /\ Budgeted /\ LivesGoOn /\ AtWork
    BY DEF Steady
  <1>2. TypeOK' /\ Budgeted' /\ LivesGoOn'
    BY <1>1, NextType, NextBudgeted, NextLives
  <1>3. Halting'
    BY <1>1, NextHalting DEF Undisturbed, NobodyEdits
  <1>4. log' \in Log
    BY <1>2 DEF TypeOK, Log
  <1>5. AtWork'
    BY <1>1, <1>2, <1>4, NextAtWork
  <1> QED
    BY <1>2, <1>3, <1>5 DEF Steady

LEMMA AlwaysSteady == ASSUME Undisturbed PROVE Spec => []Steady
  BY InitSteady, NextSteady, PTL DEF Spec

LEMMA ServerGoesOn ==
  ASSUME TypeOK, [Next]_vars, NEW w \in Workload
  PROVE  \/ Server(w)' = Server(w)
         \/ Succeeds(w, Server(w), Server(w)') /\ Server(w)' \in Object /\ Cached(w)' = Cached(w)
  <1> DEFINE n == Len(log[w])
  <1>1. log \in Log /\ log[w] \in Seq(Object) /\ n \in Nat /\ n >= 1
    BY ObjectTypes DEF Log
  <1>2. CASE log'[w] = log[w]
    BY <1>2 DEF Server
  <1>3. ASSUME NEW i \in 2..n, Len(log'[w]) = n - i + 1,
               \A j \in 1..Len(log'[w]) : log'[w][j] = log[w][j + i - 1]
        PROVE  Server(w)' = Server(w)
    <2> DEFINE m == n - i + 1
    <2>1. m \in 1..Len(log'[w]) /\ m + i - 1 = n /\ Len(log'[w]) = m
      BY <1>1, <1>3
    <2> HIDE DEF m
    <2>2. log'[w][m] = log[w][n]
      BY <1>3, <2>1
    <2> QED
      BY <2>1, <2>2 DEF Server
  <1>4. CASE log'[w] = <<Server(w)>>
    BY <1>4 DEF Server
  <1>5. ASSUME NEW x \in Object, log'[w] = Append(log[w], x), Succeeds(w, Server(w), x)
        PROVE  /\ Succeeds(w, Server(w), Server(w)')
               /\ Server(w)' \in Object /\ Cached(w)' = Cached(w)
    <2>1. Len(log'[w]) = n + 1 /\ log'[w][n + 1] = x /\ log'[w][1] = log[w][1]
      BY <1>1, <1>5
    <2> QED
      BY <1>5, <2>1 DEF Server, Cached
  <1> QED
    BY <1>2, <1>3, <1>4, <1>5, NextGoesOn DEF HistoryGoesOn

\* The cycles that were annotated in the beginning are there for whoever is alive.
LEMMA CyclesStand ==
  ASSUME Undisturbed, Steady, NEW w \in Workload, Server(w).alive, ReachesCycle(InitGraph, w)
  PROVE  ReachesCycle(LiveGraph, w)
  <1>1. TypeOK /\ Halting /\ LivesGoOn
    BY DEF Steady
  <1>2. LiveGraph \in Graph /\ InitGraph \in Graph
    BY <1>1, LiveGraphIsSmaller, InitGraphType
  <1>3. ASSUME NEW x \in Workload, x \in Present \/ x = w
        PROVE  InitGraph[x] \subseteq LiveGraph[x]
    <2>1. Server(x) \in CreatedObjects[x] /\ Len(log[x]) \in 1..Len(log[x])
      BY <1>1, ObjectTypes, EndsIn DEF LivesGoOn, Log
    <2>2. Server(x).alive
      BY <1>3, <2>1 DEF CreatedObjects
    <2>3. Server(x).targets = InitTargets[x]
      BY <1>1, <2>1, <2>2 DEF Halting, AsAnnotated, Server
    <2> QED
      BY <2>2, <2>3 DEF InitGraph, LiveGraph
  <1>4. Reach(LiveGraph, {w}) \subseteq Present \cup {w}
    <2>1. /\ Present \cup {w} \in SUBSET Workload
          /\ {w} \subseteq Present \cup {w}
          /\ Closed(LiveGraph, Present \cup {w})
      BY <1>1, PresentAssumption, LiveGraphIsSmaller DEF Closed, InitGraph, Undisturbed
    <2> QED
      BY <1>2, <2>1, ReachWithin
  <1>5. \A x \in Reach(LiveGraph, {w}) : InitGraph[x] \subseteq LiveGraph[x]
    BY <1>3, <1>4, PresentAssumption
  <1> QED
    BY <1>2, <1>5, CycleInLarger

-----------------------------------------------------------------------------
(* Marks *)

\* A mark is there for a reconcile that is on its way to take it off, or to find a cycle.
MarkMinded ==
  \A w \in Workload :
    Server(w).mark =>
      /\ Server(w).alive
      /\ \/ ReachesCycle(InitGraph, w)
         \/ Pending(w) \/ pc[w] \in {"mark", "check", "clear"}

LEMMA ClearUnmarks ==
  ASSUME TypeOK, NEW w \in Workload, ClearMark(w), Server(w).alive, budget["clearfail"] = 0
  PROVE  ~Server(w)'.mark
  <1>1. log \in Log /\ Server(w) \in Object /\ FALSE \in BOOLEAN
    BY ObjectTypes
  <1>2. CASE Server(w).mark
    <2> DEFINE x == Versioned(w, [Server(w) EXCEPT !.mark = FALSE])
    <2>1. Appends(w, x)
      BY <1>2 DEF ClearMark, Spend, Unmarked, Write, Appends
    <2>2. x \in Object /\ x.mark = FALSE
      BY <1>1, MarkSucceeds
    <2> HIDE DEF x
    <2> QED
      BY <1>1, <2>1, <2>2, AppendEnds
  <1>3. CASE ~Server(w).mark
    BY <1>3 DEF ClearMark, Spend, Server
  <1> QED
    BY <1>2, <1>3

LEMMA NextMinded ==
  ASSUME Undisturbed, Budget["clearfail"] = 0, Budget["crash"] = 0,
         Steady, MarkMinded, [Next]_vars
  PROVE  MarkMinded'
  <1> SUFFICES ASSUME NEW w \in Workload, Server(w)'.mark
               PROVE  /\ Server(w)'.alive
                      /\ \/ ReachesCycle(InitGraph, w)
                         \/ Pending(w)' \/ pc'[w] \in {"mark", "check", "clear"}
    BY DEF MarkMinded, Pending
  <1>1. TypeOK /\ Halting /\ Budgeted /\ LivesGoOn /\ AtWork
    BY DEF Steady
  <1>2. budget["clearfail"] = 0 /\ ~CrashRestart
    <2>1. /\ "clearfail" \in Op /\ budget["clearfail"] \in Nat
          /\ "crash" \in Op /\ budget["crash"] \in Nat
      BY <1>1 DEF Op, TypeOK
    <2> QED
      BY <1>1, <2>1 DEF Budgeted, CrashRestart, Spend
  <1>3. Server(w)'.alive
    BY <1>1, ServerGoesOn, NextVersion DEF MarkMinded
  <1>4. ASSUME Server(w).mark, ~ReachesCycle(InitGraph, w)
        PROVE  Pending(w)' \/ pc'[w] \in {"mark", "check", "clear"}
    <2>1. Pending(w) \/ pc[w] \in {"mark", "check", "clear"}
      BY <1>4 DEF MarkMinded
    <2>2. Cached(w).alive /\ Server(w).alive
      BY <1>1, <2>1, LifeGoesOn DEF AtWork
    <2>3. ~ClearMark(w) /\ ~GivesUp(w)
      BY <1>1, <1>2, <1>4, <2>2, ClearUnmarks, NoneGivesUp
    <2>4. Moves(w)
      BY <1>1, NextMoves
    <2> QED
      BY <1>2, <2>1, <2>2, <2>3, <2>4 DEF Moves, Progresses, Held, TakenUp, WorksOff
  <1> QED
    BY <1>1, <1>3, <1>4, ServerGoesOn DEF Succeeds

\* A calm cluster carries no mark but where there is a cycle ahead, if nobody edits the
\* annotations or deletes an object, every target exists, every requeue-after is a delay, no
\* removal of a mark fails and Cascader is not restarted: each reconcile that may have set a
\* mark is repeated until it comes to remove it, whatever else fails and whatever is restarted
\* meanwhile.
THEOREM CalmUnmarked ==
  ASSUME \A w \in Workload : /\ TargetChoices[w] = {} /\ InitTargets[w] \subseteq Present
                             /\ RequeueAnnotation[w] # "nonpositive",
         Budget["delete"] = 0, Budget["clearfail"] = 0, Budget["crash"] = 0
  PROVE  Spec => []CalmMeansUnmarked
  <1>1. Undisturbed
    BY DEF Undisturbed
  <1>2. Init => MarkMinded
    BY InitObjects DEF MarkMinded
  <1>3. Steady /\ MarkMinded /\ [Next]_vars => MarkMinded'
    BY <1>1, NextMinded
  <1>4. Steady /\ MarkMinded => CalmMeansUnmarked
    BY <1>1, CyclesStand DEF MarkMinded, CalmMeansUnmarked, Calm, Pending
  <1> QED
    BY <1>1, <1>2, <1>3, <1>4, AlwaysSteady, PTL DEF Spec

-----------------------------------------------------------------------------
(* Restarts that reach every target *)

\* How often a reload failed.
Failures == Budget["reloadfail"] - budget["reloadfail"]

\* A restart of s is on its way to the cache.
Behind(s) == Cached(s).due < Server(s).due

\* A reconcile is up to date with the restarts of its source, or will be followed by one.
Abreast(s) == copy[s].due >= Server(s).due \/ Behind(s) \/ Pending(s)

\* The target t has been reloaded since the newest restart of s, or is going to be.
Covered(s, t) ==
  \/ reached[s][t] >= Server(s).due
  \/ Behind(s) \/ Pending(s)
  \/ pc[s] \in {"mark", "check"}
  \/ t \in todo[s]

Uncovered ==
  {e \in Workload \X Workload : /\ e[2] \in InitGraph[e[1]]
                                /\ ~ReachesCycle(InitGraph, e[1])
                                /\ ~Covered(e[1], e[2])}

\* Only a failure of its own reload keeps a target from being covered.
Counted == Cardinality(Uncovered) <= Failures

\* While Cascader runs, the cache takes every version in turn: a restart that is on its way
\* gets there as an event that is let through.
LEMMA DueGoesOn ==
  ASSUME Undisturbed, Steady, VersionsGrow, budget["relist"] = 0, [Next]_vars, ~CrashRestart,
         NEW s \in Workload, InitTargets[s] # {}
  PROVE  /\ Behind(s) => Behind(s)' \/ Pending(s)'
         /\ Server(s)'.due = Server(s).due \/ Behind(s)'
  <1> DEFINE n == Len(log[s])
  <1>1. TypeOK /\ Budgeted /\ LivesGoOn
    BY DEF Steady
  <1>2. log \in Log /\ log[s] \in Seq(Object) /\ n \in Nat /\ n >= 1
    BY <1>1, ObjectTypes DEF Log
  <1>3. /\ Server(s).rv \in Nat /\ Server(s).due \in Nat
        /\ Cached(s).rv \in Nat /\ Cached(s).due \in Nat
    BY <1>1, ObjectTypes
  <1>4. CASE log'[s] = log[s]
    BY <1>4 DEF Behind, Server, Cached
  <1>5. ASSUME n \in 2..n, Len(log'[s]) = n - 2 + 1,
               \A j \in 1..Len(log'[s]) : log'[s][j] = log[s][j + 2 - 1],
               Admitted(KindOf[s], Cached(s), log[s][2]) => Pending(s)'
        PROVE  /\ Behind(s) => Behind(s)' \/ Pending(s)'
               /\ Server(s)'.due = Server(s).due
    <2>1. Cached(s)' = log[s][2] /\ Server(s)' = log[s][n]
      <3> DEFINE m == n - 1
      <3>1. m \in Nat /\ m >= 1 /\ Len(log'[s]) = m /\ m + 2 - 1 = n
        BY <1>2, <1>5
      <3> HIDE DEF m, n
      <3>2. 1 \in 1..m /\ m \in 1..m
        BY <3>1
      <3>3. log'[s][1] = log[s][1 + 2 - 1] /\ log'[s][m] = log[s][n]
        BY <1>5, <3>1, <3>2
      <3>4. 1 + 2 - 1 = 2
        OBVIOUS
      <3> QED
        BY <3>1, <3>3, <3>4 DEF Cached, Server
    <2>2. Noticed(s, log[s][1], log[s][2])
      <3>1. 2 \in 2..n /\ 2 - 1 = 1
        BY <1>2, <1>5
      <3> QED
        BY <1>1, <3>1 DEF LivesGoOn, LogNoticed
    <2>3. log[s][2].due # Cached(s).due => Pending(s)'
      BY <1>5, <2>2 DEF Noticed, Cached
    <2> QED
      BY <2>1, <2>3 DEF Behind, Server
  <1>6. ASSUME NEW x \in Object, log'[s] = Append(log[s], x), Succeeds(s, Server(s), x)
        PROVE  /\ Behind(s) => Behind(s)'
               /\ Server(s)'.due = Server(s).due \/ Behind(s)'
    <2>1. Server(s)' = x /\ Cached(s)' = Cached(s)
      <3>1. Len(log'[s]) = n + 1 /\ log'[s][n + 1] = x /\ log'[s][1] = log[s][1]
        BY <1>2, <1>6
      <3> QED
        BY <3>1 DEF Server, Cached
    <2>2. x.rv = Server(s).rv + 1 /\ (x.due = Server(s).due \/ x.due = x.rv)
      BY <1>1, <1>6, NextVersion DEF Succeeds
    <2>3. Cached(s).due <= Cached(s).rv
      BY <1>1, <1>2, EndsIn DEF LivesGoOn, LogDated, DatedObjects, Dated
    <2>4. Cached(s).rv <= Server(s).rv
      <3>1. CASE n = 1
        BY <1>3, <3>1 DEF Cached, Server
      <3>2. CASE n # 1
        <4>1. 1 \in 1..n /\ n \in 1..n /\ 1 < n
          <5> HIDE DEF n
          <5> QED
            BY <1>2, <3>2
        <4>2. Cached(s).rv < Server(s).rv
          BY <4>1 DEF VersionsGrow, Cached, Server
        <4> QED
          BY <1>3, <4>2
      <3> QED
        BY <3>1, <3>2
    <2> QED
      BY <1>3, <2>1, <2>2, <2>3, <2>4 DEF Behind
  <1> QED
    BY <1>1, <1>2, <1>4, <1>5, <1>6, NextGoesOn DEF HistoryGoesOn

\* What holds besides, as long as no watch is lost and no two stamps share a second.
Watching ==
  /\ Steady /\ EventsKept /\ BatchesAreBegun /\ BatchesNamed /\ SecondsApart
  /\ budget["relist"] = 0

LEMMA AbreastGoesOn ==
  ASSUME Undisturbed, Watching, [Next]_vars, ~CrashRestart,
         NEW s \in Workload, pc[s] # "idle" => Abreast(s), pc'[s] # "idle"
  PROVE  Abreast(s)'
  <1>1. TypeOK /\ AtWork /\ VersionsGrow
    BY DEF Watching, Steady, EventsKept
  <1>2. Moves(s)
    BY <1>1, NextMoves
  <1>3. Pending(s) \/ pc[s] # "idle"
    BY <1>2 DEF Moves, Progresses, Held, Ended, TakenUp, WorksOff, GivesUp
  <1>4. Cached(s).alive /\ InitTargets[s] # {}
    BY <1>1, <1>3 DEF AtWork
  <1>5. /\ Behind(s) => Behind(s)' \/ Pending(s)'
        /\ Server(s)'.due = Server(s).due \/ Behind(s)'
    BY <1>1, <1>4, DueGoesOn DEF Watching
  <1>6. Server(s).due \in Nat /\ Cached(s).due \in Nat
    BY <1>1, ObjectTypes
  <1>7. CASE TakenUp(s)
    BY <1>4, <1>5, <1>6, <1>7 DEF TakenUp, Abreast, Behind, Held
  <1>8. CASE ~TakenUp(s)
    <2>1. Pending(s) => Pending(s)'
      BY <1>2, <1>8 DEF Moves
    <2>2. \/ pc[s] # "idle" /\ copy'[s] = copy[s]
          \/ copy'[s] = Server(s)' /\ Server(s)'.due = Server(s).due
      BY <1>2, <1>8 DEF Moves, Progresses, Held, Ended, WorksOff, GivesUp
    <2> QED
      BY <1>5, <1>6, <2>1, <2>2 DEF Abreast
  <1> QED
    BY <1>7, <1>8

LEMMA CoveredGoesOn ==
  ASSUME Undisturbed, Watching, [Next]_vars, ~CrashRestart,
         NEW s \in Workload, NEW t \in InitGraph[s], ~ReachesCycle(InitGraph, s),
         pc[s] # "idle" => Abreast(s), Covered(s, t), ~TriggerFails(s, t)
  PROVE  Covered(s, t)'
  <1>1. TypeOK /\ Halting /\ LivesGoOn /\ AtWork /\ VersionsGrow
    BY DEF Watching, Steady, EventsKept
  <1>2. t \in Workload /\ t \in InitTargets[s] /\ reached \in [Workload -> [Workload -> Nat]]
    BY <1>1 DEF InitGraph, TypeOK
  <1>3. /\ Behind(s) => Behind(s)' \/ Pending(s)'
        /\ Server(s)'.due = Server(s).due \/ Behind(s)'
    BY <1>1, <1>2, DueGoesOn DEF Watching
  <1>4. Moves(s) /\ ~GivesUp(s)
    BY <1>1, NextMoves, NoneGivesUp
  <1>5. /\ pc[s] = "check" => copy[s].targets = InitTargets[s]
        /\ Pending(s) => Cached(s).alive
    BY <1>1 DEF Halting, AtWork
  <1>6. CASE TakenUp(s)
    BY <1>5, <1>6 DEF TakenUp, Covered
  <1>7. CASE Pending(s) => Pending(s)'
    <2> SUFFICES ASSUME ~Behind(s)', ~Pending(s)', ~TakenUp(s)
                 PROVE  Covered(s, t)'
      BY <1>6 DEF Covered
    <2>1. ~Behind(s) /\ ~Pending(s) /\ Server(s)'.due = Server(s).due
      BY <1>3, <1>7
    <2>2. CASE Progresses(s) /\ reached'[s] = reached[s]
      <3>1. CASE reached[s][t] >= Server(s).due
        BY <2>1, <2>2, <3>1 DEF Covered
      <3>2. CASE pc[s] \in {"mark", "check"} \/ t \in todo[s]
        <4>1. ASSUME NEW u \in Workload, TriggerFails(s, u), WorksOff(s, u)
              PROVE  pc'[s] \in {"mark", "check"} \/ t \in todo'[s]
          BY <3>2, <4>1 DEF WorksOff
        <4>2. pc'[s] \in {"mark", "check"} \/ t \in todo'[s]
          BY <1>2, <1>4, <1>5, <2>2, <3>2, <4>1 DEF Progresses, Held
        <4> QED
          BY <4>2 DEF Covered
      <3> QED
        BY <2>1, <3>1, <3>2 DEF Covered
    <2>3. ASSUME NEW u \in Workload, Trigger(s, u), WorksOff(s, u),
                 reached'[s] = [reached[s] EXCEPT ![u] = copy[s].due]
          PROVE  Covered(s, t)'
      <3>1. copy[s].due >= Server(s).due /\ pc[s] = "trigger"
        BY <2>1, <2>3 DEF WorksOff, Abreast
      <3>2. CASE u = t
        BY <1>2, <2>1, <2>3, <3>1, <3>2 DEF Covered
      <3>3. CASE u # t
        <4>1. reached'[s][t] = reached[s][t] /\ (t \in todo[s] => t \in todo'[s])
          BY <1>2, <2>3, <3>3 DEF WorksOff
        <4> QED
          BY <2>1, <3>1, <4>1 DEF Covered
      <3> QED
        BY <3>2, <3>3
    <2> QED
      BY <1>4, <2>2, <2>3 DEF Moves, Watching, SecondsApart
  <1> QED
    BY <1>4, <1>6, <1>7 DEF Moves

\* A target is left uncovered only by the failure of its reload, which is counted.
LEMMA NextCounted ==
  ASSUME Undisturbed, Watching, \A s \in Workload : pc[s] # "idle" => Abreast(s), Counted,
         [Next]_vars, ~CrashRestart
  PROVE  Counted'
  <1>1. TypeOK /\ Halting /\ LivesGoOn /\ BatchesNamed
    BY DEF Watching, Steady
  <1>2. /\ budget["reloadfail"] \in Nat /\ budget'["reloadfail"] \in Nat
        /\ Budget["reloadfail"] \in Nat
    BY <1>1, NextType, BoundAssumption DEF TypeOK, Op
  <1>3. /\ IsFiniteSet(Uncovered) /\ Cardinality(Uncovered) \in Nat
        /\ IsFiniteSet(Uncovered')
    <2>1. IsFiniteSet(Workload \X Workload)
      BY FiniteAssumption, FS_Product
    <2>2. Uncovered \subseteq Workload \X Workload /\ Uncovered' \subseteq Workload \X Workload
      BY DEF Uncovered
    <2> QED
      BY <2>1, <2>2, FS_Subset, FS_CardinalityType
  <1>4. ASSUME NEW s \in Workload, NEW t \in InitGraph[s], <<s, t>> \notin Uncovered,
               ~TriggerFails(s, t)
        PROVE  <<s, t>> \notin Uncovered'
    <2> SUFFICES ASSUME ~ReachesCycle(InitGraph, s) PROVE <<s, t>> \notin Uncovered'
      BY DEF Uncovered
    <2>1. Covered(s, t)
      BY <1>4, InitGraphType DEF Uncovered, Graph
    <2>2. Covered(s, t)'
      BY <1>4, <2>1, CoveredGoesOn
    <2> QED
      BY <2>2 DEF Uncovered
  <1>5. ASSUME NEW s \in Workload, NEW t \in Workload, TriggerFails(s, t)
        PROVE  Counted'
    <2>1. pc[s] = "trigger" /\ t \in todo[s] /\ Triggered(s, t)
      BY <1>5 DEF TriggerFails
    <2>2. budget'["reloadfail"] = budget["reloadfail"] - 1
      <3>1. t \in Present
        BY <1>1, <2>1 DEF BatchesNamed, Undisturbed
      <3>2. Server(t).alive /\ Cached(t).alive
        BY <1>1, <3>1, ObjectTypes, EndsIn DEF LivesGoOn, CreatedObjects
      <3>3. Spend("reloadfail")
        BY <1>5, <3>2 DEF TriggerFails, Reloadable
      <3> QED
        BY <1>1, <3>3 DEF Spend, TypeOK, Op
    <2>3. Uncovered' \subseteq Uncovered \cup {<<s, t>>}
      <3> SUFFICES ASSUME NEW u \in Workload, NEW v \in InitGraph[u],
                          <<u, v>> \notin Uncovered, <<u, v>> # <<s, t>>
                   PROVE  <<u, v>> \notin Uncovered'
        BY DEF Uncovered
      <3>1. v \in Workload
        BY DEF InitGraph
      <3>2. ~TriggerFails(u, v)
        <4>1. CASE u = s
          <5>1. WorksOff(s, t)
            BY <1>1, <2>1, TriggeredWorksOff
          <5>2. ASSUME TriggerFails(s, v)
                PROVE  v \in todo[s] /\ WorksOff(s, v)
            BY <1>1, <3>1, <5>2, TriggeredWorksOff DEF TriggerFails
          <5> QED
            BY <4>1, <5>1, <5>2 DEF WorksOff, Ended
        <4>2. CASE u # s
          <5>1. Held(u)
            BY <1>1, <2>1, <4>2, TriggeredWorksOff
          <5>2. ASSUME TriggerFails(u, v)
                PROVE  v \in todo[u] /\ WorksOff(u, v)
            BY <1>1, <3>1, <5>2, TriggeredWorksOff DEF TriggerFails
          <5> QED
            BY <5>1, <5>2 DEF WorksOff, Ended, Held
        <4> QED
          BY <4>1, <4>2
      <3> QED
        BY <1>4, <3>2
    <2>4. Cardinality(Uncovered') <= Cardinality(Uncovered) + 1
      <3>1. /\ IsFiniteSet(Uncovered \cup {<<s, t>>})
            /\ Cardinality(Uncovered \cup {<<s, t>>}) <= Cardinality(Uncovered) + 1
        <4>1. CASE <<s, t>> \in Uncovered
          <5>1. Uncovered \cup {<<s, t>>} = Uncovered
            BY <4>1
          <5>2. Cardinality(Uncovered) <= Cardinality(Uncovered) + 1
            BY <1>3
          <5> QED
            BY <1>3, <5>1, <5>2
        <4>2. CASE <<s, t>> \notin Uncovered
          <5>1. /\ IsFiniteSet(Uncovered \cup {<<s, t>>})
                /\ Cardinality(Uncovered \cup {<<s, t>>}) = Cardinality(Uncovered) + 1
            BY <1>3, <4>2, FS_AddElement
          <5>2. Cardinality(Uncovered) + 1 <= Cardinality(Uncovered) + 1
            BY <1>3
          <5> QED
            BY <5>1, <5>2
        <4> QED
          BY <4>1, <4>2
      <3>2. Cardinality(Uncovered') <= Cardinality(Uncovered \cup {<<s, t>>})
        BY <2>3, <3>1, FS_Subset
      <3>3. /\ Cardinality(Uncovered') \in Nat
            /\ Cardinality(Uncovered \cup {<<s, t>>}) \in Nat
        BY <1>3, <3>1, FS_CardinalityType
      <3> QED
        BY <1>3, <3>1, <3>2, <3>3
    <2>5. Cardinality(Uncovered') \in Nat
      BY <1>3, FS_CardinalityType
    <2> QED
      BY <1>2, <1>3, <2>2, <2>4, <2>5 DEF Counted, Failures
  <1>6. ASSUME \A s, t \in Workload : ~TriggerFails(s, t)
        PROVE  Counted'
    <2>1. Uncovered' \subseteq Uncovered
      <3> SUFFICES ASSUME NEW s \in Workload, NEW t \in InitGraph[s], <<s, t>> \notin Uncovered
                   PROVE  <<s, t>> \notin Uncovered'
        BY DEF Uncovered
      <3>1. t \in Workload
        BY DEF InitGraph
      <3> QED
        BY <1>4, <1>6, <3>1
    <2>2. Cardinality(Uncovered') <= Cardinality(Uncovered)
      BY <1>3, <2>1, FS_Subset
    <2>3. budget'["reloadfail"] <= budget["reloadfail"]
      <3>1. budget \in [Op -> Nat] /\ "reloadfail" \in Op
        BY <1>1 DEF TypeOK, Op
      <3>2. budget' = budget \/ \E op \in Op : budget' = [budget EXCEPT ![op] = @ - 1]
        BY NextSpends DEF Spend
      <3> QED
        BY <1>2, <3>1, <3>2
    <2>4. Cardinality(Uncovered') \in Nat
      BY <1>3, FS_CardinalityType
    <2> QED
      BY <1>2, <1>3, <2>2, <2>3, <2>4 DEF Counted, Failures
  <1> QED
    BY <1>5, <1>6

\* The promise, as long as Cascader has not been restarted.
Reaching ==
  Crashes = 0 => /\ \A s \in Workload : pc[s] # "idle" => Abreast(s)
                 /\ Counted

LEMMA NextReaching ==
  ASSUME Undisturbed, Watching, Reaching, [Next]_vars
  PROVE  Reaching'
  <1> SUFFICES ASSUME Crashes' = 0
               PROVE  (\A s \in Workload : pc[s] # "idle" => Abreast(s))' /\ Counted'
    BY DEF Reaching
  <1>1. TypeOK /\ Budgeted
    BY DEF Watching, Steady
  <1>2. /\ budget["crash"] \in Nat /\ Budget["crash"] \in Nat
        /\ budget["crash"] <= Budget["crash"]
    BY <1>1, BoundAssumption DEF TypeOK, Budgeted, Op
  <1>3. ~CrashRestart
    <2> SUFFICES ASSUME CrashRestart PROVE FALSE
      OBVIOUS
    <2>1. budget'["crash"] = budget["crash"] - 1
      BY <1>1 DEF CrashRestart, Spend, TypeOK, Op
    <2> QED
      BY <1>2, <2>1 DEF Crashes
  <1>4. Crashes = 0
    BY <1>1, <1>3, StepsAreNoCrash, SameCrashes DEF Next, Tick, vars
  <1> QED
    BY <1>3, <1>4, AbreastGoesOn, NextCounted DEF Reaching, Abreast, Behind, Pending

LEMMA NextWatching ==
  ASSUME Undisturbed, Subsecond = FALSE, Watching, Budget["relist"] = 0, [Next]_vars
  PROVE  Watching'
  <1>1. TypeOK /\ Halting /\ Steady /\ EventsKept /\ BatchesAreBegun /\ BatchesNamed
        /\ SecondsApart
    BY DEF Watching, Steady
  <1>2. Steady' /\ EventsKept' /\ BatchesAreBegun' /\ BatchesNamed' /\ SecondsApart'
    BY <1>1, NextSteady, NextKeeps, NextBegun, NextNamed, NextApart
  <1>3. budget'["relist"] = 0
    <2>1. "relist" \in Op /\ budget'["relist"] \in Nat
      BY <1>2 DEF Steady, TypeOK, Op
    <2> QED
      BY <1>2, <2>1 DEF Steady, Budgeted
  <1> QED
    BY <1>2, <1>3 DEF Watching

LEMMA InitWatching ==
  ASSUME Undisturbed, Budget["relist"] = 0, Init
  PROVE  Watching /\ Reaching
  <1>1. budget = Budget /\ SecondsApart /\ \A s \in Workload : pc[s] = "idle"
    BY DEF Init, ClusterInit, ReconcilerInit, SecondsApart
  <1>2. Watching
    BY <1>1, InitSteady, InitKeeps, InitImplements, InitBrief DEF Watching
  <1>3. Counted
    <2>1. \A s, t \in Workload : Covered(s, t)
      <3> TAKE s, t \in Workload
      <3>1. reached[s][t] = 0 /\ Server(s).due = 0
        BY InitObjects DEF Init, ReconcilerInit
      <3> QED
        BY <3>1 DEF Covered
    <2>2. Uncovered = {}
      BY <2>1 DEF Uncovered
    <2>3. Budget["reloadfail"] \in Nat
      BY BoundAssumption DEF Op
    <2> QED
      BY <1>1, <2>2, <2>3, FS_EmptySet DEF Counted, Failures
  <1> QED
    BY <1>1, <1>2, <1>3 DEF Reaching

LEMMA CalmCovers ==
  ASSUME Undisturbed, Watching, Reaching
  PROVE  CalmMeansReloaded
  <1> SUFFICES ASSUME Calm, Crashes = 0 PROVE Cardinality(Overdue) <= Failures
    BY DEF CalmMeansReloaded, Failures
  <1>1. TypeOK /\ Halting
    BY DEF Watching, Steady
  <1>2. Overdue \subseteq Uncovered
    <2> SUFFICES ASSUME NEW s \in Workload, NEW t \in Workload, <<s, t>> \in Overdue
                 PROVE  <<s, t>> \in Uncovered
      BY DEF Overdue, Missed
    <2>1. /\ t \in LiveGraph[s] /\ reached[s][t] < Server(s).due
          /\ ~ReachesCycle(LiveGraph, s)
      BY DEF Overdue, Missed
    <2>2. t \in InitGraph[s]
      BY <1>1, <2>1, LiveGraphIsSmaller
    <2>3. ~(reached[s][t] >= Server(s).due)
      <3>1. Server(s).due \in Nat
        BY <1>1, ObjectTypes
      <3>2. reached[s][t] \in Nat
        BY <1>1 DEF TypeOK
      <3> QED
        BY <2>1, <3>1, <3>2
    <2>4. pc[s] = "idle" /\ todo[s] = {} /\ ~Pending(s)
      BY DEF Calm, Pending, Watching, BatchesAreBegun
    <2>5. ~Behind(s)
      BY <1>1, ObjectTypes DEF Calm, Behind, Cached, Server
    <2>6. ~ReachesCycle(InitGraph, s)
      BY <2>1, CyclesStand DEF LiveGraph, Watching
    <2> QED
      BY <2>2, <2>3, <2>4, <2>5, <2>6 DEF Uncovered, Covered
  <1>3. IsFiniteSet(Uncovered)
    <2>1. IsFiniteSet(Workload \X Workload) /\ Uncovered \subseteq Workload \X Workload
      BY FiniteAssumption, FS_Product DEF Uncovered
    <2> QED
      BY <2>1, FS_Subset
  <1>4. Cardinality(Overdue) <= Cardinality(Uncovered) /\ Cardinality(Overdue) \in Nat
        /\ Cardinality(Uncovered) \in Nat
    BY <1>2, <1>3, FS_Subset, FS_CardinalityType
  <1>5. Failures \in Int
    <2>1. budget["reloadfail"] \in Nat /\ Budget["reloadfail"] \in Nat
      BY <1>1, BoundAssumption DEF TypeOK, Op
    <2> QED
      BY <2>1 DEF Failures
  <1> QED
    BY <1>4, <1>5 DEF Reaching, Counted

\* No restart stops short of a target, and no failure spreads: if nobody edits the annotations
\* or deletes an object, every target exists, every requeue-after is a delay, no watch is lost
\* and no two reloads of a target share a second, then a calm cluster in which Cascader was not
\* restarted owes a reload only where that very reload failed or there is a cycle ahead.
THEOREM CalmReloaded ==
  ASSUME \A w \in Workload : /\ TargetChoices[w] = {} /\ InitTargets[w] \subseteq Present
                             /\ RequeueAnnotation[w] # "nonpositive",
         Budget["delete"] = 0, Budget["relist"] = 0, Subsecond = FALSE
  PROVE  Spec => []CalmMeansReloaded
  <1>1. Undisturbed
    BY DEF Undisturbed
  <1>2. Init => Watching /\ Reaching
    BY <1>1, InitWatching
  <1>3. Watching /\ Reaching /\ [Next]_vars => Watching' /\ Reaching'
    BY <1>1, NextWatching, NextReaching
  <1>4. Watching /\ Reaching => CalmMeansReloaded
    BY <1>1, CalmCovers
  <1> QED
    BY <1>2, <1>3, <1>4, PTL DEF Spec

=============================================================================
