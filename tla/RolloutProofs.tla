---------------------------- MODULE RolloutProofs ----------------------------
(***************************************************************************)
(* Stable() judged on a copy of the object that may be behind the server:  *)
(* it never lets reloads begin on account of a rollout that has yet to be. *)
(***************************************************************************)
EXTENDS CascaderProofs

-----------------------------------------------------------------------------
(* What being stable means, of whichever kind *)

LEMMA StableMeans ==
  ASSUME NEW kind, NEW o \in Object, Stable(kind, o)
  PROVE  /\ o.status.observed >= o.generation
         /\ \/ o.replicas = 0
            \/ /\ o.status.updated = o.replicas
               /\ o.status.ready = o.replicas
               /\ kind # "StatefulSet" => o.status.unavailable = 0
  BY DEF Stable, Observed, DeploymentStable, StatefulSetStable, DaemonSetStable

\* What the owning controller has reported does not run ahead of the spec.
Sound(o) ==
  /\ o.status.observed <= o.generation
  /\ o.status.observed = o.generation => o.status.ready <= o.replicas

\* If o looks stable, then all pods run its generation.
Trusted(w, o) == Stable(KindOf[w], o) => o.generation <= rolled[w]

\* Neither looks at anything but these three fields.
LEMMA SameStatus ==
  ASSUME NEW w \in Workload, NEW o \in Object, NEW x \in Object,
         x.generation = o.generation, x.replicas = o.replicas, x.status = o.status
  PROVE  /\ Trusted(w, x) <=> Trusted(w, o)
         /\ Sound(x) <=> Sound(o)
         /\ Stable(KindOf[w], x) <=> Stable(KindOf[w], o)
  BY DEF Trusted, Sound, Stable, Observed, DeploymentStable, StatefulSetStable,
         DaemonSetStable

-----------------------------------------------------------------------------
(* The inductive invariant *)

RolledIsOld == \A w \in Workload : rolled[w] <= Server(w).generation
ServerIsSound == \A w \in Workload : Sound(Server(w))
LogIsTrusted == \A w \in Workload : \A i \in 1..Len(log[w]) : Trusted(w, log[w][i])
CopyIsTrusted == \A w \in Workload : Trusted(w, copy[w])

RolloutsKnown ==
  RolledIsOld /\ ServerIsSound /\ LogIsTrusted /\ CopyIsTrusted /\ ReloadAfterRollout

\* rolled only grows.
RolledGrows ==
  rolled' \in [Workload -> Nat] /\ \A w \in Workload : rolled[w] <= rolled'[w]

\* w's new object is one whose status can be trusted.
TrustedWrite(w) ==
  /\ RolledGrows
  /\ \A v \in Workload \ {w} : rolled'[v] = rolled[v]
  /\ \E o \in Object : /\ Write(w, o)
                       /\ Sound(o)
                       /\ rolled'[w] <= o.generation
                       /\ Stable(KindOf[w], o) => o.generation <= rolled'[w]

LogInvariant == RolledIsOld /\ ServerIsSound /\ LogIsTrusted

LEMMA TrustedWriteKeeps ==
  ASSUME TypeOK, LogInvariant, NEW w \in Workload, TrustedWrite(w)
  PROVE  LogInvariant'
  <1>1. PICK o \in Object : /\ Write(w, o)
                            /\ Sound(o)
                            /\ rolled'[w] <= o.generation
                            /\ Stable(KindOf[w], o) => o.generation <= rolled'[w]
    BY DEF TrustedWrite
  <1> DEFINE n == Len(log[w])
             x == Versioned(w, o)
  <1>2. log \in Log /\ log[w] \in Seq(Object) /\ n \in Nat
    BY DEF TypeOK, Log
  <1>3. x \in Object /\ x.generation = o.generation /\ x.replicas = o.replicas
        /\ x.status = o.status
    <2>1. Server(w).rv + 1 \in Nat
      BY <1>2, EndsType, StatusOf
    <2> QED
      BY <2>1 DEF Versioned, Object
  <1>4. log' = [log EXCEPT ![w] = Append(@, x)]
    BY <1>1 DEF Write
  <1> HIDE DEF x
  <1>5. log'[w] = Append(log[w], x) /\ \A v \in Workload \ {w} : log'[v] = log[v]
    BY <1>2, <1>4 DEF Log
  <1>6. /\ Len(log'[w]) = n + 1
        /\ \A i \in 1..n : log'[w][i] = log[w][i]
        /\ log'[w][n + 1] = x
    BY <1>2, <1>3, <1>5
  <1>7. Server(w)' = x /\ \A v \in Workload \ {w} : Server(v)' = Server(v)
    BY <1>5, <1>6 DEF Server
  <1>8. RolledIsOld'
    BY <1>1, <1>3, <1>7 DEF LogInvariant, RolledIsOld, TrustedWrite
  <1>9. ServerIsSound'
    BY <1>1, <1>3, <1>7, SameStatus DEF LogInvariant, ServerIsSound, Sound
  <1>10. LogIsTrusted'
    <2> SUFFICES ASSUME NEW v \in Workload, NEW i \in 1..Len(log'[v]),
                        Stable(KindOf[v], log'[v][i])
                 PROVE  log'[v][i].generation <= rolled'[v]
      BY DEF LogIsTrusted, Trusted
    <2>1. CASE v # w
      BY <1>5, <2>1 DEF LogInvariant, LogIsTrusted, Trusted, TrustedWrite
    <2>2. CASE v = w /\ i = n + 1
      <3>1. log'[v][i] = x /\ Stable(KindOf[w], x)
        BY <1>6, <2>2
      <3>2. Stable(KindOf[w], o)
        BY <1>3, <3>1, SameStatus
      <3> QED
        BY <1>1, <1>3, <2>2, <3>1, <3>2
    <2>3. CASE v = w /\ i # n + 1
      <3>1. i \in 1..n
        BY <1>2, <1>6, <2>3
      <3>2. log'[v][i] = log[w][i] /\ Trusted(w, log[w][i])
        BY <1>6, <2>3, <3>1 DEF LogInvariant, LogIsTrusted
      <3>3. log[w][i] \in Object
        BY <1>2, <3>1
      <3>4. log[w][i].generation \in Nat /\ rolled[w] \in Nat /\ rolled'[w] \in Nat
        BY <3>3, StatusOf DEF TypeOK, TrustedWrite, RolledGrows
      <3>5. log[w][i].generation <= rolled[w]
        BY <2>3, <3>2 DEF Trusted
      <3>6. rolled[w] <= rolled'[w]
        BY DEF TrustedWrite, RolledGrows
      <3> QED
        BY <2>3, <3>2, <3>4, <3>5, <3>6
    <2> QED
      BY <2>1, <2>2, <2>3
  <1> QED
    BY <1>8, <1>9, <1>10 DEF LogInvariant

\* What the reconciles hold stays trusted while they hold it.
LEMMA HeldKeeps ==
  ASSUME TypeOK, CopyIsTrusted, ReloadAfterRollout, RolledGrows, UNCHANGED <<pc, copy>>
  PROVE  CopyIsTrusted' /\ ReloadAfterRollout'
  <1>1. \A w \in Workload : /\ copy[w].generation \in Nat /\ rolled[w] \in Nat
                            /\ rolled'[w] \in Nat /\ rolled[w] <= rolled'[w]
    BY StatusOf DEF TypeOK, RolledGrows
  <1>2. CopyIsTrusted'
    BY <1>1 DEF CopyIsTrusted, Trusted
  <1>3. ReloadAfterRollout'
    BY <1>1 DEF ReloadAfterRollout
  <1> QED
    BY <1>2, <1>3

\* A step that only reads the log, and rolls nothing out.
LEMMA LogInvariantKept ==
  ASSUME LogInvariant, UNCHANGED <<log, rolled>>
  PROVE  LogInvariant'
  BY DEF LogInvariant, RolledIsOld, ServerIsSound, LogIsTrusted, Trusted, Server

-----------------------------------------------------------------------------
(* The cluster's steps *)

\* A write that leaves rolled alone needs only a word on the new object.
LEMMA QuietWrite ==
  ASSUME TypeOK, LogInvariant, NEW w \in Workload, NEW o \in Object, Write(w, o),
         UNCHANGED rolled, Sound(o), Server(w).generation <= o.generation,
         Stable(KindOf[w], o) => o.generation <= rolled[w]
  PROVE  TrustedWrite(w)
  <1>1. Server(w) \in Object /\ rolled \in [Workload -> Nat]
    BY EndsType DEF TypeOK, Log
  <1>2. RolledGrows
    BY <1>1 DEF RolledGrows
  <1>3. rolled[w] <= o.generation
    <2>1. rolled[w] <= Server(w).generation
      BY DEF LogInvariant, RolledIsOld
    <2>2. rolled[w] \in Nat /\ Server(w).generation \in Nat /\ o.generation \in Nat
      BY <1>1, StatusOf
    <2> QED
      BY <2>1, <2>2
  <1> QED
    BY <1>2, <1>3 DEF TrustedWrite

\* A change that touches neither spec nor status.
LEMMA PlainWrite ==
  ASSUME TypeOK, LogInvariant, NEW w \in Workload, NEW o \in Object, Write(w, o),
         UNCHANGED rolled, o.generation = Server(w).generation,
         o.replicas = Server(w).replicas, o.status = Server(w).status
  PROVE  TrustedWrite(w)
  <1>1. log \in Log /\ Server(w) \in Object
    BY EndsType DEF TypeOK, Log
  <1>2. Len(log[w]) \in 1..Len(log[w])
    BY <1>1 DEF Log
  <1>3. Sound(Server(w)) /\ Trusted(w, Server(w))
    BY <1>2 DEF LogInvariant, ServerIsSound, LogIsTrusted, Server
  <1>4. Sound(o) /\ Trusted(w, o)
    BY <1>1, <1>3, SameStatus
  <1>5. Server(w).generation <= o.generation
    BY <1>1, StatusOf
  <1> QED
    BY <1>4, <1>5, QuietWrite DEF Trusted

\* A new spec, whose status is still of an older one.
LEMMA SpecWrite ==
  ASSUME TypeOK, LogInvariant, NEW w \in Workload, NEW o \in Object, Write(w, o),
         UNCHANGED rolled, o.generation = Server(w).generation + 1,
         o.status.observed <= Server(w).generation
  PROVE  TrustedWrite(w)
  <1>1. /\ Server(w) \in Object
        /\ o.status.observed \in Nat /\ o.generation \in Nat /\ Server(w).generation \in Nat
    BY EndsType, StatusOf DEF TypeOK, Log
  <1>2. o.status.observed < o.generation /\ Server(w).generation <= o.generation
    BY <1>1
  <1>3. Sound(o)
    BY <1>1, <1>2 DEF Sound
  <1>4. ~Stable(KindOf[w], o)
    BY <1>1, <1>2, StableMeans
  <1> QED
    BY <1>2, <1>3, <1>4, QuietWrite

LEMMA DisturbTrusted ==
  ASSUME TypeOK, LogInvariant, NEW w \in Workload, Disturb(w)
  PROVE  TrustedWrite(w)
  <1> DEFINE o == Server(w)
  <1>1. o \in Object
    BY EndsType DEF TypeOK, Log
  <1>2. /\ o.generation \in Nat /\ o.replicas \in Nat /\ o.status \in Status
        /\ o.status.observed \in Nat /\ o.status.ready \in Nat
        /\ o.status.unavailable \in Nat /\ rolled[w] \in Nat
        /\ rolled[w] <= o.generation /\ Sound(o)
    BY <1>1, StatusOf DEF TypeOK, LogInvariant, RolledIsOld, ServerIsSound
  <1>3. o.status.observed <= o.generation
    BY <1>2 DEF Sound
  <1>4. CASE Create(w)
    <2> DEFINE x == Created(w, o)
    <2>1. x \in Object
      BY <1>1, CreatedType
    <2>2. x.generation = o.generation + 1 /\ x.status = NoStatus
      BY <1>1 DEF Created, Object
    <2>3. x.status.observed = 0
      BY <2>2 DEF NoStatus
    <2>4. Write(w, x) /\ UNCHANGED rolled
      BY <1>4 DEF Create
    <2> HIDE DEF x
    <2> QED
      BY <1>2, <2>1, <2>2, <2>3, <2>4, SpecWrite
  <1>5. CASE UserRestart(w)
    <2> DEFINE x == Restarted(o, 0)
    <2>1. x \in Object
      BY <1>1, RestartedType
    <2>2. x.generation = o.generation + 1 /\ x.status = o.status
      BY <1>1 DEF Restarted, Object
    <2>3. Write(w, x) /\ UNCHANGED rolled
      BY <1>5 DEF UserRestart
    <2> HIDE DEF x
    <2> QED
      BY <1>3, <2>1, <2>2, <2>3, SpecWrite
  <1>6. CASE Rescale(w)
    <2> DEFINE n == IF o.replicas = 0 THEN Size[w] ELSE 0
               resized == [o EXCEPT !.replicas = n, !.due = o.rv + 1]
               report == [Starting(resized) EXCEPT !.observed = o.status.observed]
    <2>1. n \in Nat
      BY SizeAssumption
    <2>2. resized \in Object /\ resized.generation = o.generation
          /\ resized.status = o.status /\ resized.replicas = n
      <3>1. o.rv + 1 \in Nat
        BY <1>1, StatusOf
      <3> HIDE DEF o, n
      <3> QED
        BY <1>1, <2>1, <3>1 DEF Object
    <2>3. CASE KindOf[w] # "DaemonSet"
      <3> DEFINE x == [resized EXCEPT !.generation = @ + 1]
      <3>1. Write(w, x) /\ UNCHANGED rolled
        BY <1>6, <2>3 DEF Rescale
      <3> HIDE DEF resized
      <3>2. x \in Object /\ x.generation = o.generation + 1 /\ x.status = o.status
        BY <1>2, <2>2 DEF Object
      <3> HIDE DEF x
      <3> QED
        BY <1>3, <3>1, <3>2, SpecWrite
    <2>4. CASE KindOf[w] = "DaemonSet"
      <3> DEFINE x == [resized EXCEPT !.status = report]
                 g == IF n = 0 /\ o.status.observed = o.generation THEN o.generation
                      ELSE rolled[w]
      <3>1. Write(w, x) /\ rolled' = [rolled EXCEPT ![w] = g]
        BY <1>6, <2>4 DEF Rescale
      <3>2. report \in Status /\ report.observed = o.status.observed /\ report.ready = 0
            /\ report.unavailable = n
        <4>1. o.status.observed \in Nat
          BY <1>2
        <4> HIDE DEF o
        <4> HIDE DEF resized
        <4> QED
          BY <2>1, <2>2, <4>1 DEF Starting, Complete, Status
      <3>3. x \in Object /\ x.generation = o.generation /\ x.replicas = n
            /\ x.status = report
        <4> HIDE DEF resized, report
        <4> QED
          BY <2>2, <3>2 DEF Object
      <3>4. g \in Nat /\ rolled[w] <= g /\ g <= o.generation
        BY <1>2
      <3>5. rolled'[w] = g /\ \A v \in Workload \ {w} : rolled'[v] = rolled[v]
        BY <3>1 DEF TypeOK
      <3>6. RolledGrows
        <4>1. rolled \in [Workload -> Nat]
          BY DEF TypeOK
        <4> HIDE DEF g
        <4> QED
          BY <3>1, <3>4, <3>5, <4>1 DEF RolledGrows
      <3>7. Sound(x)
        <4>1. x.status.ready = 0 /\ x.status.observed = o.status.observed
          BY <3>2, <3>3
        <4> HIDE DEF x, report, resized
        <4> QED
          BY <1>3, <2>1, <3>3, <4>1 DEF Sound
      <3>8. ASSUME Stable(KindOf[w], x) PROVE x.generation <= g
        <4>1. n = 0 /\ o.status.observed >= o.generation
          <5>1. /\ x.status.observed >= x.generation
                /\ \/ x.replicas = 0
                   \/ /\ x.status.ready = x.replicas
            BY <3>3, <3>8, StableMeans
          <5>2. x.status.ready = 0 /\ x.status.observed = o.status.observed
            BY <3>2, <3>3
          <5> QED
            BY <3>3, <5>1, <5>2
        <4>2. o.status.observed = o.generation
          BY <1>2, <1>3, <4>1
        <4> QED
          BY <1>2, <3>3, <4>1, <4>2
      <3> HIDE DEF x, g
      <3> QED
        BY <3>1, <3>3, <3>4, <3>5, <3>6, <3>7, <3>8 DEF TrustedWrite
    <2> QED
      BY <2>3, <2>4
  <1>7. CASE EditTargets(w)
    <2>1. PICK S \in TargetChoices[w], present \in BOOLEAN :
            /\ Write(w, [o EXCEPT !.targets = S, !.annotated = present])
            /\ UNCHANGED rolled
      BY <1>7 DEF EditTargets
    <2> DEFINE x == [o EXCEPT !.targets = S, !.annotated = present]
    <2>2. x \in Object /\ x.generation = o.generation /\ x.replicas = o.replicas
          /\ x.status = o.status
      BY <1>1, TargetsAssumption DEF Object
    <2> HIDE DEF x
    <2> QED
      BY <2>1, <2>2, PlainWrite DEF x
  <1>8. CASE LosePod(w)
    <2> DEFINE s == [o.status EXCEPT !.ready = @ - 1, !.available = o.status.ready - 1,
                                     !.unavailable = @ + 1]
               restart == KindOf[w] = "DaemonSet" \/ (o.replicas = 1 /\ o.status.ready = 1)
               version == IF restart THEN o.rv + 1 ELSE o.due
               x == [o EXCEPT !.status = s, !.due = version]
    <2>1. o.status.ready > 0 /\ UNCHANGED rolled
      BY <1>8 DEF LosePod
    <2>2. s \in Status /\ s.observed = o.status.observed /\ s.ready = o.status.ready - 1
          /\ s.unavailable = o.status.unavailable + 1
      <3>1. o.status.ready - 1 \in Nat /\ o.status.unavailable + 1 \in Nat
        BY <1>2, <2>1
      <3>2. o.status \in Status
        BY <1>2
      <3> HIDE DEF o
      <3> QED
        BY <3>1, <3>2 DEF Status
    <2>3. x \in Object /\ x.generation = o.generation /\ x.replicas = o.replicas
          /\ x.status = s
      <3>1. version \in Nat
        BY <1>1, StatusOf
      <3> HIDE DEF s, version
      <3> QED
        BY <1>1, <2>2, <3>1 DEF Object
    <2>4. Write(w, x)
      BY <1>8 DEF LosePod
    <2> HIDE DEF x, s
    <2>5. Sound(x)
      BY <1>2, <2>2, <2>3 DEF Sound
    <2>6. ASSUME Stable(KindOf[w], x) PROVE x.generation <= rolled[w]
      <3>1. /\ x.status.observed >= x.generation
            /\ \/ x.replicas = 0
               \/ x.status.ready = x.replicas
        BY <2>3, <2>6, StableMeans
      <3>2. o.status.observed = o.generation
        BY <1>2, <1>3, <2>2, <2>3, <3>1
      <3>3. o.status.ready <= o.replicas
        BY <1>2, <3>2 DEF Sound
      <3> QED
        BY <1>2, <2>1, <2>2, <2>3, <3>1, <3>3
    <2>7. o.generation <= x.generation
      BY <1>2, <2>3
    <2> QED
      BY <2>1, <2>3, <2>4, <2>5, <2>6, <2>7, QuietWrite
  <1>9. CASE Delete(w)
    <2> DEFINE x == [o EXCEPT !.alive = FALSE]
    <2>1. x \in Object /\ x.generation = o.generation /\ x.replicas = o.replicas
          /\ x.status = o.status
      BY <1>1 DEF Object
    <2>2. Write(w, x) /\ UNCHANGED rolled
      BY <1>9 DEF Delete
    <2> HIDE DEF x
    <2> QED
      BY <2>1, <2>2, PlainWrite
  <1> QED
    BY <1>4, <1>5, <1>6, <1>7, <1>8, <1>9 DEF Disturb

\* A first report is of the newest generation, and not yet of a finished rollout.
LEMMA ReportFields ==
  ASSUME NEW kind, NEW o \in Object, NEW report \in FirstReports(kind, o)
  PROVE  /\ report.observed = o.generation
         /\ report.ready <= o.replicas
         /\ o.replicas # 0 => \/ report.ready # o.replicas
                              \/ report.updated # o.replicas
                              \/ kind = "Deployment" /\ report.unavailable = 1
  <1>1. o.replicas \in Nat
    BY StatusOf
  <1>2. /\ Starting(o).observed = o.generation /\ Starting(o).ready = 0
        /\ Lagging(o).observed = o.generation /\ Lagging(o).updated = 0
        /\ Lagging(o).ready = o.replicas
        /\ Surging(o).observed = o.generation /\ Surging(o).ready = o.replicas
        /\ Surging(o).unavailable = 1
        /\ Complete(o).observed = o.generation /\ Complete(o).ready = o.replicas
    BY DEF Starting, Lagging, Surging, Complete
  <1>3. \/ report = Complete(o) /\ o.replicas = 0
        \/ report = Starting(o) \/ report = Lagging(o)
        \/ report = Surging(o) /\ kind = "Deployment"
    BY DEF FirstReports
  <1> QED
    BY <1>1, <1>2, <1>3

LEMMA RollOutTrusted ==
  ASSUME TypeOK, LogInvariant, NEW w \in Workload, RollOut(w)
  PROVE  TrustedWrite(w)
  <1> DEFINE o == Server(w)
  <1>1. o \in Object
    BY EndsType DEF TypeOK, Log
  <1>2. /\ o.generation \in Nat /\ o.replicas \in Nat /\ o.status \in Status
        /\ rolled \in [Workload -> Nat] /\ rolled[w] \in Nat /\ rolled[w] <= o.generation
    BY <1>1, StatusOf DEF TypeOK, LogInvariant, RolledIsOld
  <1>3. CASE Observe(w)
    <2>1. PICK report \in FirstReports(KindOf[w], o) : Write(w, [o EXCEPT !.status = report])
      BY <1>3 DEF Observe
    <2> DEFINE x == [o EXCEPT !.status = report]
    <2>2. report \in Status
      BY <1>1, <2>1, StatusTypes DEF FirstReports
    <2>3. x \in Object /\ x.generation = o.generation /\ x.replicas = o.replicas
          /\ x.status = report
      BY <1>1, <2>2 DEF Object
    <2>4. report.observed = o.generation /\ report.ready <= o.replicas
      BY <1>1, ReportFields
    <2>5. Sound(x)
      BY <1>2, <2>3, <2>4 DEF Sound
    <2>6. o.replicas # 0 => ~Stable(KindOf[w], x)
      <3> SUFFICES ASSUME o.replicas # 0, Stable(KindOf[w], x) PROVE FALSE
        OBVIOUS
      <3>1. /\ report.updated = o.replicas /\ report.ready = o.replicas
            /\ KindOf[w] # "StatefulSet" => report.unavailable = 0
        BY <2>3, StableMeans
      <3> QED
        BY <1>1, <3>1, ReportFields
    <2>7. rolled' = [rolled EXCEPT ![w] = IF o.replicas = 0 THEN o.generation ELSE @]
      BY <1>3 DEF Observe
    <2>8. RolledGrows
      BY <1>2, <2>7 DEF RolledGrows
    <2>9. rolled'[w] <= x.generation /\ (Stable(KindOf[w], x) => x.generation <= rolled'[w])
      BY <1>2, <2>3, <2>6, <2>7
    <2>10. Write(w, x)
      BY <2>1
    <2> HIDE DEF x
    <2> QED
      BY <2>3, <2>5, <2>7, <2>8, <2>9, <2>10 DEF TrustedWrite, TypeOK
  <1>4. CASE Settle(w)
    <2> DEFINE x == [o EXCEPT !.status = Complete(o)]
    <2>1. x \in Object /\ x.generation = o.generation /\ x.replicas = o.replicas
          /\ x.status = Complete(o)
      BY <1>1, StatusTypes DEF Object
    <2>2. Complete(o).observed = o.generation /\ Complete(o).ready = o.replicas
      BY DEF Complete
    <2>3. Sound(x)
      BY <1>2, <2>1, <2>2 DEF Sound
    <2>4. Write(w, x) /\ rolled' = [rolled EXCEPT ![w] = o.generation]
      BY <1>4 DEF Settle
    <2>5. RolledGrows
      BY <1>2, <2>4 DEF RolledGrows
    <2>6. rolled'[w] = x.generation /\ x.generation \in Nat
      BY <1>2, <2>1, <2>4
    <2>7. \A v \in Workload \ {w} : rolled'[v] = rolled[v]
      BY <1>2, <2>4
    <2> HIDE DEF x
    <2> QED
      BY <2>1, <2>3, <2>4, <2>5, <2>6, <2>7 DEF TrustedWrite
  <1> QED
    BY <1>3, <1>4 DEF RollOut

-----------------------------------------------------------------------------
(* Cascader's steps *)

LEMMA NoObjectTrusted ==
  ASSUME TypeOK, NEW w \in Workload
  PROVE  Trusted(w, NoObject)
  <1>1. NoObject.generation = 0 /\ rolled[w] \in Nat
    BY DEF NoObject, TypeOK
  <1> QED
    BY <1>1 DEF Trusted

\* The reconcile of w lets go of its object.
LEMMA ReturnTrusted ==
  ASSUME TypeOK, CopyIsTrusted, ReloadAfterRollout, NEW w \in Workload, Return(w),
         UNCHANGED rolled
  PROVE  CopyIsTrusted' /\ ReloadAfterRollout'
  <1>1. /\ pc' = [pc EXCEPT ![w] = "idle"] /\ copy' = [copy EXCEPT ![w] = NoObject]
        /\ pc \in [Workload -> Step] /\ copy \in [Workload -> Object]
    BY DEF Return, TypeOK
  <1>2. CopyIsTrusted'
    <2> SUFFICES ASSUME NEW v \in Workload, Stable(KindOf[v], copy'[v])
                 PROVE  copy'[v].generation <= rolled[v]
      BY DEF CopyIsTrusted, Trusted
    <2> QED
      BY <1>1, NoObjectTrusted DEF CopyIsTrusted, Trusted
  <1>3. ReloadAfterRollout'
    BY <1>1 DEF ReloadAfterRollout
  <1> QED
    BY <1>2, <1>3

LEMMA TriggeredTrusted ==
  ASSUME TypeOK, CopyIsTrusted, ReloadAfterRollout, NEW w \in Workload, NEW t \in Workload,
         Triggered(w, t), UNCHANGED rolled
  PROVE  CopyIsTrusted' /\ ReloadAfterRollout'
  <1>1. CASE todo[w] = {t}
    BY <1>1, ReturnTrusted DEF Triggered, Finish
  <1>2. CASE todo[w] # {t}
    BY <1>2 DEF Triggered, CopyIsTrusted, Trusted, ReloadAfterRollout
  <1> QED
    BY <1>1, <1>2

\* A reconcile that goes on with a trusted object, short of a reload.
LEMMA HoldTrusted ==
  ASSUME TypeOK, CopyIsTrusted, ReloadAfterRollout, NEW w \in Workload, NEW o \in Object,
         Trusted(w, o), copy' = [copy EXCEPT ![w] = o], pc'[w] \in {"mark", "check"},
         \A v \in Workload \ {w} : pc'[v] = pc[v], UNCHANGED rolled
  PROVE  CopyIsTrusted' /\ ReloadAfterRollout'
  <1>1. copy'[w] = o /\ \A v \in Workload \ {w} : copy'[v] = copy[v]
    BY DEF TypeOK
  <1>2. CopyIsTrusted'
    BY <1>1 DEF CopyIsTrusted, Trusted
  <1>3. ReloadAfterRollout'
    BY <1>1 DEF ReloadAfterRollout
  <1> QED
    BY <1>2, <1>3

\* The writes of the reconciles: a mark put on or taken off, and a new template.
LEMMA ReconcileTrusted ==
  ASSUME TypeOK, RolloutsKnown, NEW w \in Workload, Reconcile(w)
  PROVE  LogInvariant' /\ CopyIsTrusted' /\ ReloadAfterRollout'
  <1>a. LogInvariant /\ CopyIsTrusted /\ ReloadAfterRollout
    BY DEF RolloutsKnown, LogInvariant
  <1>b. \A v \in Workload : Server(v) \in Object /\ Sound(Server(v)) /\ Trusted(v, Server(v))
    <2>1. log \in Log
      BY DEF TypeOK, Log
    <2>2. \A v \in Workload : Len(log[v]) \in 1..Len(log[v])
      BY <2>1 DEF Log
    <2> QED
      BY <1>a, <2>1, <2>2, EndsType DEF LogInvariant, ServerIsSound, LogIsTrusted, Server
  <1>1. CASE SetMark(w)
    <2> DEFINE o == Marked(Server(w))
               x == Versioned(w, o)
    <2>1. o \in Object /\ o.generation = Server(w).generation
          /\ o.replicas = Server(w).replicas /\ o.status = Server(w).status
      BY <1>b DEF Marked, Object
    <2>2. x \in Object /\ x.generation = Server(w).generation
          /\ x.replicas = Server(w).replicas /\ x.status = Server(w).status
      <3>1. Server(w).rv + 1 \in Nat
        BY <1>b, StatusOf
      <3> QED
        BY <2>1, <3>1 DEF Versioned, Object
    <2>3. Write(w, o) /\ copy' = [copy EXCEPT ![w] = x] /\ UNCHANGED rolled
          /\ pc' = [pc EXCEPT ![w] = "check"]
      BY <1>1 DEF SetMark
    <2> HIDE DEF o, x
    <2>4. LogInvariant'
      BY <1>a, <2>1, <2>3, PlainWrite, TrustedWriteKeeps
    <2>5. Trusted(w, x)
      BY <1>b, <2>2, SameStatus
    <2>6. pc'[w] = "check" /\ \A v \in Workload \ {w} : pc'[v] = pc[v]
      BY <2>3 DEF TypeOK
    <2> QED
      BY <1>a, <2>2, <2>3, <2>4, <2>5, <2>6, HoldTrusted
  <1>2. CASE SetMarkFails(w) \/ BadTargets(w)
    BY <1>a, <1>2, ReturnTrusted, LogInvariantKept
    DEF SetMarkFails, BadTargets, Again, clusterVars
  <1>3. CASE NoTargets(w) \/ CheckCycle(w)
    BY <1>a, <1>3, ReturnTrusted, LogInvariantKept
    DEF NoTargets, CheckCycle, Finish, clusterVars
  <1>4. CASE NotStable(w)
    BY <1>a, <1>4, ReturnTrusted, LogInvariantKept
    DEF NotStable, Again, Finish, clusterVars
  <1>5. CASE BeginReload(w)
    <2>1. /\ Stable(KindOf[w], copy[w]) /\ pc' = [pc EXCEPT ![w] = "clear"]
          /\ UNCHANGED <<log, rolled, copy>>
      BY <1>5 DEF BeginReload, clusterVars
    <2>2. copy[w].generation <= rolled[w]
      BY <1>a, <2>1 DEF CopyIsTrusted, Trusted
    <2>3. CopyIsTrusted' /\ ReloadAfterRollout'
      BY <1>a, <2>1, <2>2 DEF CopyIsTrusted, Trusted, ReloadAfterRollout, TypeOK
    <2> QED
      BY <1>a, <2>1, <2>3, LogInvariantKept
  <1>6. CASE ClearMark(w)
    <2> DEFINE o == Unmarked(Server(w))
    <2>1. o \in Object /\ o.generation = Server(w).generation
          /\ o.replicas = Server(w).replicas /\ o.status = Server(w).status
      BY <1>b DEF Unmarked, Object
    <2>2. /\ Write(w, o) \/ UNCHANGED log
          /\ UNCHANGED <<rolled, copy>>
          /\ pc[w] = "clear" /\ pc' = [pc EXCEPT ![w] = "trigger"]
      BY <1>6 DEF ClearMark
    <2> HIDE DEF o
    <2>3. LogInvariant'
      BY <1>a, <2>1, <2>2, PlainWrite, TrustedWriteKeeps, LogInvariantKept
    <2>4. CopyIsTrusted' /\ ReloadAfterRollout'
      BY <1>a, <2>2 DEF CopyIsTrusted, Trusted, ReloadAfterRollout, TypeOK
    <2> QED
      BY <2>3, <2>4
  <1>7. ASSUME NEW t \in Workload, Trigger(w, t)
        PROVE  LogInvariant' /\ CopyIsTrusted' /\ ReloadAfterRollout'
    <2> DEFINE h == copy[w].hops + 1
               x == Restarted(Server(t), h)
    <2>1. h \in Nat
      BY StatusOf DEF TypeOK
    <2>2. x \in Object
      BY <1>b, <2>1, RestartedType
    <2>3. x.generation = Server(t).generation + 1 /\ x.status = Server(t).status
      BY <1>b DEF Restarted, Object
    <2>4. (Write(t, x) \/ UNCHANGED log) /\ UNCHANGED rolled /\ Triggered(w, t)
      BY <1>7 DEF Trigger
    <2> HIDE DEF x
    <2>5. x.status.observed <= Server(t).generation
      BY <1>b, <2>3 DEF Sound
    <2>6. LogInvariant'
      BY <1>a, <2>2, <2>3, <2>4, <2>5, SpecWrite, TrustedWriteKeeps, LogInvariantKept
    <2> QED
      BY <1>a, <2>4, <2>6, TriggeredTrusted
  <1>8. ASSUME NEW t \in Workload, TriggerFails(w, t)
        PROVE  LogInvariant' /\ CopyIsTrusted' /\ ReloadAfterRollout'
    BY <1>a, <1>8, TriggeredTrusted, LogInvariantKept DEF TriggerFails, clusterVars
  <1> QED
    BY <1>1, <1>2, <1>3, <1>4, <1>5, <1>6, <1>7, <1>8 DEF Reconcile

LEMMA InitKnown == Init => RolloutsKnown
  <1> SUFFICES ASSUME Init PROVE RolloutsKnown
    OBVIOUS
  <1>1. ASSUME NEW w \in Workload, NEW o \in Object, log[w] = <<o>>,
               o.status.observed = o.generation, o.status.ready = o.replicas,
               o.generation = rolled[w]
        PROVE  /\ rolled[w] <= Server(w).generation
               /\ Sound(Server(w))
               /\ \A i \in 1..Len(log[w]) : Trusted(w, log[w][i])
    <2>1. Server(w) = o /\ Len(log[w]) = 1 /\ log[w][1] = o
      BY <1>1 DEF Server
    <2>2. o.generation \in Nat /\ o.replicas \in Nat
      BY StatusOf
    <2> QED
      BY <1>1, <2>1, <2>2 DEF Sound, Trusted
  <1>2. ASSUME NEW w \in Workload
        PROVE  \E o \in Object : /\ log[w] = <<o>>
                                 /\ o.status.observed = o.generation
                                 /\ o.status.ready = o.replicas
                                 /\ o.generation = rolled[w]
    <2>1. CASE w \in Present
      <3> DEFINE o == [Created(w, NoObject) EXCEPT !.rv = 1]
                 x == [o EXCEPT !.status = Complete(o)]
      <3>1. o \in Object /\ o.generation = 1
        <4>1. Created(w, NoObject) \in Object
          BY NoObjectType, CreatedType
        <4>2. Created(w, NoObject).generation = 1
          BY DEF Created, NoObject
        <4> QED
          BY <4>1, <4>2 DEF Object
      <3>2. Complete(o) \in Status
            /\ Complete(o).observed = o.generation /\ Complete(o).ready = o.replicas
        <4> HIDE DEF o
        <4> QED
          BY <3>1, StatusTypes DEF Complete
      <3>3. x \in Object /\ x.status = Complete(o) /\ x.generation = o.generation
            /\ x.replicas = o.replicas
        <4> HIDE DEF o
        <4> QED
          BY <3>1, <3>2 DEF Object
      <3>4. log[w] = <<x>> /\ rolled[w] = 1
        BY <2>1 DEF Init, ClusterInit, Settled
      <3> HIDE DEF o, x
      <3> QED
        BY <3>1, <3>2, <3>3, <3>4
    <2>2. CASE w \notin Present
      <3>1. log[w] = <<NoObject>> /\ rolled[w] = 0
        BY <2>2 DEF Init, ClusterInit
      <3> QED
        BY <3>1, NoObjectType DEF NoObject, NoStatus
    <2> QED
      BY <2>1, <2>2
  <1>3. RolledIsOld /\ ServerIsSound /\ LogIsTrusted
    BY <1>1, <1>2 DEF RolledIsOld, ServerIsSound, LogIsTrusted
  <1>4. CopyIsTrusted
    BY InitType, NoObjectTrusted DEF CopyIsTrusted, Init, ReconcilerInit
  <1>5. ReloadAfterRollout
    BY DEF Init, ReconcilerInit, ReloadAfterRollout
  <1> QED
    BY <1>3, <1>4, <1>5 DEF RolloutsKnown

LEMMA NextKnown == TypeOK /\ RolloutsKnown /\ [Next]_vars => RolloutsKnown'
  <1> SUFFICES ASSUME TypeOK, RolloutsKnown, [Next]_vars PROVE RolloutsKnown'
    OBVIOUS
  <1>a. LogInvariant /\ CopyIsTrusted /\ ReloadAfterRollout
    BY DEF RolloutsKnown, LogInvariant
  <1>b. \A w \in Workload : /\ log[w] \in Seq(Object) /\ Len(log[w]) \in Nat
                            /\ Len(log[w]) \in 1..Len(log[w])
    BY DEF TypeOK
  <1> SUFFICES LogInvariant' /\ CopyIsTrusted' /\ ReloadAfterRollout'
    BY DEF RolloutsKnown, LogInvariant
  <1>1. ASSUME NEW w \in Workload, Disturb(w) \/ RollOut(w)
        PROVE  LogInvariant' /\ CopyIsTrusted' /\ ReloadAfterRollout'
    <2>1. TrustedWrite(w)
      BY <1>a, <1>1, DisturbTrusted, RollOutTrusted
    <2>2. UNCHANGED <<pc, copy>>
      BY <1>1 DEF Disturb, RollOut, cascaderVars, workVars
    <2> QED
      BY <1>a, <2>1, <2>2, TrustedWriteKeeps, HeldKeeps DEF TrustedWrite
  <1>2. ASSUME NEW w \in Workload, Deliver(w)
        PROVE  LogInvariant' /\ CopyIsTrusted' /\ ReloadAfterRollout'
    <2>1. PICK i \in 2..Len(log[w]) : Advance(w, i) /\ UNCHANGED <<rolled, workVars>>
      BY <1>2 DEF Deliver
    <2> DEFINE n == Len(log[w])
    <2>2. log[w] \in Seq(Object) /\ n \in Nat /\ i \in 2..n
      BY <1>b
    <2>3. log'[w] = SubSeq(log[w], i, n) /\ \A v \in Workload \ {w} : log'[v] = log[v]
      BY <2>1 DEF Advance, TypeOK
    <2>4. /\ Len(log'[w]) = n - i + 1
          /\ \A j \in 1..(n - i + 1) : log'[w][j] = log[w][j + i - 1]
      BY <2>2, <2>3
    <2>5. \A v \in Workload : Server(v)' = Server(v)
      <3>1. n - i + 1 \in 1..(n - i + 1) /\ n - i + 1 + i - 1 = n
        BY <2>2
      <3>2. log'[w][n - i + 1] = log[w][n]
        BY <2>4, <3>1
      <3> QED
        BY <2>3, <2>4, <3>2 DEF Server
    <2>6. LogIsTrusted'
      <3> SUFFICES ASSUME NEW v \in Workload, NEW j \in 1..Len(log'[v])
                   PROVE  Trusted(v, log[v][j])'
        BY DEF LogIsTrusted
      <3>1. CASE v # w
        BY <1>a, <2>1, <2>3, <3>1 DEF LogInvariant, LogIsTrusted, Trusted
      <3>2. CASE v = w
        <4>1. j + i - 1 \in 1..n /\ log'[w][j] = log[w][j + i - 1]
          BY <2>2, <2>4, <3>2
        <4>2. Trusted(w, log[w][j + i - 1])
          BY <1>a, <4>1 DEF LogInvariant, LogIsTrusted
        <4> QED
          BY <2>1, <3>2, <4>1, <4>2 DEF Trusted
      <3> QED
        BY <3>1, <3>2
    <2>7. LogInvariant'
      BY <1>a, <2>1, <2>5, <2>6 DEF LogInvariant, RolledIsOld, ServerIsSound
    <2> QED
      BY <1>a, <2>1, <2>7 DEF workVars, CopyIsTrusted, Trusted, ReloadAfterRollout
  <1>3. ASSUME NEW w \in Workload, Fire(w)
        PROVE  LogInvariant' /\ CopyIsTrusted' /\ ReloadAfterRollout'
    BY <1>a, <1>3, LogInvariantKept
    DEF Fire, clusterVars, workVars, CopyIsTrusted, Trusted, ReloadAfterRollout
  <1>4. ASSUME NEW w \in Workload, Dequeue(w)
        PROVE  LogInvariant' /\ CopyIsTrusted' /\ ReloadAfterRollout'
    <2>1. UNCHANGED <<log, rolled>>
      BY <1>4 DEF Dequeue, clusterVars
    <2>2. CASE Cached(w).alive
      <3>1. copy' = [copy EXCEPT ![w] = Cached(w)] /\ pc'[w] \in {"mark", "check"}
            /\ \A v \in Workload \ {w} : pc'[v] = pc[v]
        BY <1>4, <2>2 DEF Dequeue, TypeOK
      <3>2. Cached(w) \in Object
        BY EndsType DEF TypeOK, Log
      <3>3. Trusted(w, Cached(w))
        <4>1. 1 \in 1..Len(log[w])
          BY <1>b
        <4> QED
          BY <1>a, <4>1 DEF LogInvariant, LogIsTrusted, Cached
      <3> QED
        BY <1>a, <2>1, <3>1, <3>2, <3>3, HoldTrusted, LogInvariantKept
    <2>3. CASE ~Cached(w).alive
      BY <1>a, <1>4, <2>1, <2>3, LogInvariantKept
      DEF Dequeue, CopyIsTrusted, Trusted, ReloadAfterRollout
    <2> QED
      BY <2>2, <2>3
  <1>5. CASE Tick
    BY <1>a, <1>5, LogInvariantKept
    DEF Tick, clusterVars, workVars, CopyIsTrusted, Trusted, ReloadAfterRollout
  <1>6. CASE CrashRestart
    <2>1. /\ log' = [w \in Workload |-> <<Server(w)>>] /\ UNCHANGED rolled
          /\ pc' = [w \in Workload |-> "idle"]
          /\ copy' = [w \in Workload |-> NoObject]
      BY <1>6 DEF CrashRestart
    <2>2. \A w \in Workload : /\ Len(log'[w]) = 1 /\ log'[w][1] = Server(w)
                              /\ Server(w)' = Server(w)
      BY <2>1 DEF Server
    <2>3. \A w \in Workload : Trusted(w, Server(w))
      BY <1>a, <1>b DEF LogInvariant, LogIsTrusted, Server
    <2>4. LogInvariant'
      BY <1>a, <2>1, <2>2, <2>3
      DEF LogInvariant, RolledIsOld, ServerIsSound, LogIsTrusted, Trusted
    <2>5. CopyIsTrusted' /\ ReloadAfterRollout'
      BY <2>1, NoObjectTrusted DEF CopyIsTrusted, Trusted, ReloadAfterRollout
    <2> QED
      BY <2>4, <2>5
  <1>7. CASE UNCHANGED vars
    BY <1>a, <1>7, LogInvariantKept
    DEF vars, clusterVars, workVars, CopyIsTrusted, Trusted, ReloadAfterRollout
  <1> QED
    BY <1>1, <1>2, <1>3, <1>4, <1>5, <1>6, <1>7, ReconcileTrusted DEF Next

\* Reloads begin only for a generation that all of the source's pods have come to run,
\* however far the copy that Stable() is asked about lags behind, whatever the kind and
\* the replica counts, and whoever rescales or disturbs the source meanwhile.
THEOREM ReloadsFollowRollouts == Spec => []ReloadAfterRollout
  <1>1. RolloutsKnown => ReloadAfterRollout
    BY DEF RolloutsKnown
  <1> QED
    BY <1>1, InitKnown, NextKnown, TypeCorrect, PTL DEF Spec

=============================================================================
