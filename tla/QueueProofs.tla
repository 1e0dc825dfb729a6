----------------------------- MODULE QueueProofs -----------------------------
(***************************************************************************)
(* What the work queues and the reconciles make of the events let through: *)
(* no event leads to more than one batch of reloads, and none is lost.     *)
(***************************************************************************)
EXTENDS CascaderProofs

-----------------------------------------------------------------------------
(* No reload without an event *)

\* The reconcile of w has not yet decided whether to reload.
Undecided(w) == pc[w] \in {"mark", "check"}

One(P) == IF P THEN 1 ELSE 0

\* What may still become a batch of reloads of w: a key that is ready, one that waits,
\* and a reconcile that has not decided.
Chances(w) == One(w \in queued) + One(w \in delayed) + One(Undecided(w))

\* Each of those stands for an event of its own.
CreditCoversChances == \A w \in Workload : credit[w] >= Chances(w)

\* It is enough to look at the one workload a step is about.
LEMMA ElsewhereCovered ==
  ASSUME TypeOK, CreditCoversChances, NEW w \in Workload,
         credit'[w] >= Chances(w)',
         \A v \in Workload \ {w} :
           /\ v \in queued' <=> v \in queued
           /\ v \in delayed' => v \in delayed
           /\ pc'[v] = pc[v]
           /\ credit'[v] = credit[v]
  PROVE  CreditCoversChances'
  <1> SUFFICES ASSUME NEW v \in Workload, v # w PROVE credit'[v] >= Chances(v)'
    BY DEF CreditCoversChances
  <1>1. credit[v] >= Chances(v) /\ credit[v] \in Int
    BY DEF CreditCoversChances, TypeOK
  <1> QED
    BY <1>1 DEF Chances, One, Undecided

\* A reconcile that comes back later gives up its own chance for the delayed key's.
LEMMA AgainCovered ==
  ASSUME TypeOK, CreditCoversChances, NEW w \in Workload,
         Undecided(w), Again(w), UNCHANGED credit
  PROVE  CreditCoversChances'
  <1>1. credit[w] >= Chances(w) /\ credit[w] \in Int /\ pc \in [Workload -> Step]
    BY DEF CreditCoversChances, TypeOK
  <1>2. credit'[w] >= Chances(w)'
    BY <1>1 DEF Again, AddAfter, Return, Chances, One, Undecided
  <1> QED
    BY <1>1, <1>2, ElsewhereCovered DEF Again, AddAfter, Return

LEMMA FinishCovered ==
  ASSUME TypeOK, CreditCoversChances, NEW w \in Workload, NEW n,
         Finish(w, n), UNCHANGED credit
  PROVE  CreditCoversChances'
  <1>1. credit[w] >= Chances(w) /\ credit[w] \in Int /\ pc \in [Workload -> Step]
    BY DEF CreditCoversChances, TypeOK
  <1>2. credit'[w] >= Chances(w)'
    BY <1>1 DEF Finish, Return, queueVars, Chances, One, Undecided
  <1> QED
    BY <1>1, <1>2, ElsewhereCovered DEF Finish, Return, queueVars

LEMMA TriggeredCovered ==
  ASSUME TypeOK, CreditCoversChances, NEW w \in Workload, NEW t \in Workload,
         Triggered(w, t), UNCHANGED credit
  PROVE  CreditCoversChances'
  <1>1. CASE todo[w] = {t}
    BY <1>1, FinishCovered DEF Triggered
  <1>2. CASE todo[w] # {t}
    BY <1>2 DEF Triggered, queueVars, CreditCoversChances, Chances, Undecided
  <1> QED
    BY <1>1, <1>2

LEMMA NextCovered ==
  TypeOK /\ CreditCoversChances /\ [Next]_vars => CreditCoversChances'
  <1> SUFFICES ASSUME TypeOK, CreditCoversChances, [Next]_vars
               PROVE  CreditCoversChances'
    OBVIOUS
  <1>a. /\ credit \in [Workload -> Int] /\ pc \in [Workload -> Step]
        /\ \A w \in Workload : credit[w] >= Chances(w)
    BY DEF TypeOK, CreditCoversChances
  <1>1. ASSUME NEW w \in Workload, Disturb(w) \/ RollOut(w)
        PROVE  CreditCoversChances'
    BY <1>1 DEF Disturb, RollOut, cascaderVars, queueVars, workVars, ghostVars,
                CreditCoversChances, Chances, Undecided
  <1>2. ASSUME NEW w \in Workload, Deliver(w)
        PROVE  CreditCoversChances'
    <2>1. UNCHANGED pc
      BY <1>2 DEF Deliver, workVars
    <2>2. CASE Add(w) /\ credit' = [credit EXCEPT ![w] = @ + 1]
      <3>1. credit'[w] >= Chances(w)'
        BY <1>a, <2>1, <2>2 DEF Add, Chances, One, Undecided
      <3> QED
        BY <1>a, <2>1, <2>2, <3>1, ElsewhereCovered DEF Add
    <2>3. CASE UNCHANGED <<queueVars, credit>>
      BY <2>1, <2>3 DEF queueVars, CreditCoversChances, Chances, Undecided
    <2> QED
      BY <1>2, <2>2, <2>3 DEF Deliver
  <1>3. ASSUME NEW w \in Workload, Fire(w)
        PROVE  CreditCoversChances'
    <2>1. credit'[w] >= Chances(w)'
      BY <1>a, <1>3 DEF Fire, workVars, ghostVars, Chances, One, Undecided
    <2> QED
      BY <1>3, <2>1, ElsewhereCovered DEF Fire, workVars, ghostVars
  <1>4. ASSUME NEW w \in Workload, Dequeue(w)
        PROVE  CreditCoversChances'
    <2>1. pc[w] = "idle"
      BY <1>4 DEF Dequeue
    <2>2. credit'[w] >= Chances(w)'
      BY <1>a, <1>4, <2>1 DEF Dequeue, Chances, One, Undecided
    <2> QED
      BY <1>a, <1>4, <2>2, ElsewhereCovered DEF Dequeue
  <1>5. ASSUME NEW w \in Workload, Reconcile(w)
        PROVE  CreditCoversChances'
    <2>1. CASE SetMark(w)
      <3>1. credit'[w] >= Chances(w)'
        BY <1>a, <2>1 DEF SetMark, queueVars, ghostVars, Chances, One, Undecided
      <3> QED
        BY <1>a, <2>1, <3>1, ElsewhereCovered DEF SetMark, queueVars, ghostVars
    <2>2. CASE SetMarkFails(w)
      BY <2>2, AgainCovered DEF SetMarkFails, Undecided
    <2>3. CASE BadTargets(w)
      BY <2>3, AgainCovered DEF BadTargets, Undecided
    <2>4. CASE NoTargets(w)
      BY <2>4, FinishCovered DEF NoTargets
    <2>5. CASE CheckCycle(w)
      BY <2>5, FinishCovered DEF CheckCycle
    <2>6. CASE NotStable(w)
      BY <2>6, AgainCovered, FinishCovered DEF NotStable, Walkable, Undecided
    <2>7. CASE BeginReload(w)
      <3>1. pc[w] = "check"
        BY <2>7 DEF BeginReload, Walkable
      <3>2. credit'[w] >= Chances(w)'
        BY <1>a, <2>7, <3>1 DEF BeginReload, queueVars, Chances, One, Undecided
      <3> QED
        BY <1>a, <2>7, <3>2, ElsewhereCovered DEF BeginReload, queueVars
    <2>8. CASE ClearMark(w)
      <3>1. credit'[w] >= Chances(w)'
        BY <1>a, <2>8 DEF ClearMark, queueVars, ghostVars, Chances, One, Undecided
      <3> QED
        BY <1>a, <2>8, <3>1, ElsewhereCovered DEF ClearMark, queueVars, ghostVars
    <2>9. ASSUME NEW t \in Workload, Trigger(w, t) \/ TriggerFails(w, t)
          PROVE  CreditCoversChances'
      BY <2>9, TriggeredCovered DEF Trigger, TriggerFails
    <2> QED
      BY <1>5, <2>1, <2>2, <2>3, <2>4, <2>5, <2>6, <2>7, <2>8, <2>9 DEF Reconcile
  <1>6. CASE Tick
    BY <1>6 DEF Tick, queueVars, workVars, ghostVars, CreditCoversChances, Chances, Undecided
  <1>7. CASE CrashRestart
    BY <1>7 DEF CrashRestart, CreditCoversChances, Chances, One, Undecided
  <1>8. CASE UNCHANGED vars
    BY <1>8 DEF vars, queueVars, workVars, ghostVars, CreditCoversChances, Chances,
                Undecided
  <1> QED
    BY <1>1, <1>2, <1>3, <1>4, <1>5, <1>6, <1>7, <1>8 DEF Next

\* However deliveries, delays, retries and crashes interleave, and whether or not the
\* queue merges a delayed key with an added one, no batch of reloads is begun twice for
\* one event: the returns of ReconcileWorkload that requeue are not among those that
\* reload.
THEOREM ReloadsAreCaused == Spec => []NoUncausedReload
  <1>1. Init => CreditCoversChances
    BY DEF Init, ReconcilerInit, CreditCoversChances, Chances, One, Undecided
  <1>2. TypeOK /\ CreditCoversChances => NoUncausedReload
    <2> SUFFICES ASSUME TypeOK, CreditCoversChances, NEW w \in Workload
                 PROVE  credit[w] >= 0
      BY DEF NoUncausedReload
    <2>1. credit[w] \in Int /\ credit[w] >= Chances(w)
      BY DEF TypeOK, CreditCoversChances
    <2> QED
      BY <2>1 DEF Chances, One
  <1> QED
    BY <1>1, <1>2, NextCovered, TypeCorrect, PTL DEF Spec

-----------------------------------------------------------------------------
(* No event forgotten *)

\* Versions grow along what is left of each history.
VersionsGrow ==
  \A w \in Workload : \A i, j \in 1..Len(log[w]) : i < j => log[w][i].rv < log[w][j].rv

\* The cache is as new as the last event that was let through.
CacheIsSeen == \A w \in Workload : seen[w] <= Cached(w).rv

Pending(w) == w \in queued \cup delayed

\* The events that were let through are decided on, about to be, or to be read again.
Remembered(w) ==
  \/ Pending(w)
  \/ pc[w] # "idle" /\ seen[w] <= copy[w].rv
  \/ pc[w] = "idle" /\ seen[w] <= decided[w]

AllRemembered == \A w \in Workload : Remembered(w)

\* A write adds one newer version to one history, and no cached copy changes.
LEMMA WriteVersions ==
  ASSUME log \in Log, VersionsGrow, NEW w \in Workload, NEW o \in Object, Write(w, o)
  PROVE  /\ VersionsGrow'
         /\ \A v \in Workload : Cached(v)' = Cached(v)
         /\ Versioned(w, o).rv > Cached(w).rv
  <1> DEFINE n == Len(log[w])
             x == Versioned(w, o)
  <1>1. log[w] \in Seq(Object) /\ n \in Nat /\ n >= 1
    BY DEF Log
  <1>2. log' = [log EXCEPT ![w] = Append(@, x)]
    BY DEF Write
  <1>3. Server(w) \in Object /\ Cached(w) \in Object
    BY EndsType
  <1>4. x.rv = Server(w).rv + 1
    BY DEF Versioned, Object
  <1>5. \A i \in 1..n : log[w][i].rv <= Server(w).rv
    <2> SUFFICES ASSUME NEW i \in 1..n PROVE log[w][i].rv <= Server(w).rv
      OBVIOUS
    <2>1. n \in 1..n /\ (i = n \/ i < n)
      BY <1>1
    <2>2. log[w][i] \in Object
      BY <1>1
    <2>3. log[w][i].rv \in Nat /\ Server(w).rv \in Nat
      BY <1>3, <2>2, StatusOf
    <2> QED
      BY <2>1, <2>3 DEF VersionsGrow, Server
  <1> HIDE DEF x
  <1>6. log'[w] = Append(log[w], x) /\ \A v \in Workload \ {w} : log'[v] = log[v]
    BY <1>2 DEF Log
  <1>7. /\ Len(log'[w]) = n + 1
        /\ \A i \in 1..n : log'[w][i] = log[w][i]
        /\ log'[w][n + 1] = x
    BY <1>1, <1>6
  <1>8. VersionsGrow'
    <2> SUFFICES ASSUME NEW v \in Workload,
                        NEW i \in 1..Len(log'[v]), NEW j \in 1..Len(log'[v]), i < j
                 PROVE  log'[v][i].rv < log'[v][j].rv
      BY DEF VersionsGrow
    <2>1. CASE v # w
      BY <1>6, <2>1 DEF VersionsGrow
    <2>2. CASE v = w /\ j <= n
      <3>1. i \in 1..n /\ j \in 1..n
        BY <1>1, <1>7, <2>2
      <3> QED
        BY <1>7, <2>2, <3>1 DEF VersionsGrow
    <2>3. CASE v = w /\ j > n
      <3>1. j = n + 1 /\ i \in 1..n
        BY <1>1, <1>7, <2>3
      <3>2. log[w][i] \in Object
        BY <1>1, <3>1
      <3>3. log[w][i].rv \in Nat /\ Server(w).rv \in Nat
        BY <1>3, <3>2, StatusOf
      <3>4. log'[v][i] = log[w][i] /\ log'[v][j] = x
        BY <1>7, <2>3, <3>1
      <3>5. log[w][i].rv < x.rv
        BY <1>4, <1>5, <3>1, <3>3
      <3> QED
        BY <3>4, <3>5
    <2> QED
      BY <1>1, <1>7, <2>1, <2>2, <2>3
  <1>9. \A v \in Workload : Cached(v)' = Cached(v)
    BY <1>1, <1>6, <1>7 DEF Cached
  <1>10. x.rv > Cached(w).rv
    <2>1. 1 \in 1..n
      BY <1>1
    <2>2. Cached(w).rv <= Server(w).rv
      BY <1>5, <2>1 DEF Cached
    <2> QED
      BY <1>3, <1>4, <2>2, StatusOf
  <1> QED
    BY <1>8, <1>9, <1>10 DEF x

\* A delivery takes the cache to one of the newer versions.
LEMMA AdvanceVersions ==
  ASSUME log \in Log, VersionsGrow, NEW w \in Workload,
         NEW i \in 2..Len(log[w]), Advance(w, i)
  PROVE  /\ VersionsGrow'
         /\ \A v \in Workload \ {w} : Cached(v)' = Cached(v)
         /\ Cached(w)' = log[w][i]
         /\ Cached(w).rv < log[w][i].rv
  <1> DEFINE n == Len(log[w])
  <1>1. log[w] \in Seq(Object) /\ n \in Nat /\ i \in 2..n
    BY DEF Log
  <1>2. log'[w] = SubSeq(log[w], i, n) /\ \A v \in Workload \ {w} : log'[v] = log[v]
    BY DEF Advance, Log
  <1>3. /\ Len(log'[w]) = n - i + 1
        /\ \A j \in 1..(n - i + 1) : log'[w][j] = log[w][j + i - 1]
    BY <1>1, <1>2
  <1>4. VersionsGrow'
    <2> SUFFICES ASSUME NEW v \in Workload,
                        NEW j \in 1..Len(log'[v]), NEW k \in 1..Len(log'[v]), j < k
                 PROVE  log'[v][j].rv < log'[v][k].rv
      BY DEF VersionsGrow
    <2>1. CASE v # w
      BY <1>2, <2>1 DEF VersionsGrow
    <2>2. CASE v = w
      <3>1. j + i - 1 \in 1..n /\ k + i - 1 \in 1..n /\ j + i - 1 < k + i - 1
        BY <1>1, <1>3, <2>2
      <3>2. log[w][j + i - 1].rv < log[w][k + i - 1].rv
        BY <3>1 DEF VersionsGrow
      <3>3. log'[w][j] = log[w][j + i - 1] /\ log'[w][k] = log[w][k + i - 1]
        BY <1>3, <2>2
      <3> QED
        BY <2>2, <3>2, <3>3
    <2> QED
      BY <2>1, <2>2
  <1>5. Cached(w)' = log[w][i] /\ \A v \in Workload \ {w} : Cached(v)' = Cached(v)
    BY <1>1, <1>2, <1>3 DEF Cached
  <1>6. Cached(w).rv < log[w][i].rv
    <2>1. 1 \in 1..n /\ i \in 1..n /\ 1 < i
      BY <1>1
    <2> QED
      BY <2>1 DEF VersionsGrow, Cached
  <1> QED
    BY <1>4, <1>5, <1>6

\* The inductive invariant.
EventsKept == VersionsGrow /\ CacheIsSeen /\ AllRemembered

\* Steps that leave the caches' order alone are judged by the one workload they change.
LEMMA ElsewhereRemembered ==
  ASSUME AllRemembered, NEW w \in Workload, Remembered(w)',
         \A v \in Workload \ {w} :
           /\ Pending(v) => Pending(v)'
           /\ pc'[v] = pc[v] /\ copy'[v] = copy[v]
           /\ seen'[v] = seen[v] /\ decided'[v] = decided[v]
  PROVE  AllRemembered'
  <1> SUFFICES ASSUME NEW v \in Workload, v # w PROVE Remembered(v)'
    BY DEF AllRemembered
  <1>1. Remembered(v)
    BY DEF AllRemembered
  <1> QED
    BY <1>1 DEF Remembered

LEMMA AgainRemembered ==
  ASSUME TypeOK, AllRemembered, NEW w \in Workload, Again(w), UNCHANGED seen
  PROVE  AllRemembered'
  <1>1. Remembered(w)'
    BY DEF Again, AddAfter, Remembered, Pending
  <1> QED
    BY <1>1, ElsewhereRemembered DEF Again, AddAfter, Return, Pending, TypeOK

LEMMA FinishRemembered ==
  ASSUME TypeOK, AllRemembered, NEW w \in Workload, pc[w] # "idle",
         Finish(w, copy[w].rv), UNCHANGED seen
  PROVE  AllRemembered'
  <1>1. Remembered(w)'
    <2>1. /\ pc' = [pc EXCEPT ![w] = "idle"]
          /\ Decide(w, copy[w].rv)
          /\ UNCHANGED <<queued, delayed, seen>>
      BY DEF Finish, Return, queueVars
    <2>2. copy[w].rv \in Nat /\ decided' \in [Workload -> Nat] /\ seen[w] \in Nat
      BY <2>1, FinishType, StatusOf DEF TypeOK
    <2>3. pc'[w] = "idle" /\ decided'[w] >= copy[w].rv /\ Remembered(w)
      BY <2>1, <2>2, DecideRaises DEF TypeOK, AllRemembered
    <2> QED
      BY <2>1, <2>2, <2>3 DEF Remembered, Pending
  <1>2. \A v \in Workload \ {w} : decided'[v] = decided[v]
    BY StatusOf, DecideRaises DEF Finish, TypeOK
  <1> QED
    BY <1>1, <1>2, ElsewhereRemembered DEF Finish, Return, queueVars, Pending, TypeOK

LEMMA TriggeredRemembered ==
  ASSUME TypeOK, AllRemembered, NEW w \in Workload, NEW t \in Workload, pc[w] # "idle",
         Triggered(w, t), UNCHANGED seen
  PROVE  AllRemembered'
  <1>1. CASE todo[w] = {t}
    BY <1>1, FinishRemembered DEF Triggered
  <1>2. CASE todo[w] # {t}
    BY <1>2 DEF Triggered, queueVars, AllRemembered, Remembered, Pending
  <1> QED
    BY <1>1, <1>2

\* Steps that change no cache and no seen keep what the cache has seen.
LEMMA CacheKept ==
  ASSUME CacheIsSeen, UNCHANGED seen, \A v \in Workload : Cached(v)' = Cached(v)
  PROVE  CacheIsSeen'
  BY DEF CacheIsSeen

LEMMA LogKept ==
  ASSUME VersionsGrow, CacheIsSeen, UNCHANGED <<log, seen>>
  PROVE  VersionsGrow' /\ CacheIsSeen'
  BY DEF VersionsGrow, CacheIsSeen, Cached

LEMMA NextKeeps == TypeOK /\ EventsKept /\ [Next]_vars => EventsKept'
  <1> SUFFICES ASSUME TypeOK, VersionsGrow, CacheIsSeen, AllRemembered, [Next]_vars
               PROVE  EventsKept'
    BY DEF EventsKept
  <1> USE DEF EventsKept
  <1>a. log \in Log
    BY DEF TypeOK, Log
  <1>b. \A w \in Workload : Cached(w) \in Object /\ Server(w) \in Object
    BY <1>a, EndsType
  <1>c. \A w \in Workload :
          /\ Cached(w).rv \in Nat /\ seen[w] \in Nat /\ copy[w].rv \in Nat
          /\ copy[w].due \in Nat /\ copy[w].hops + 1 \in Nat
    BY <1>b, StatusOf DEF TypeOK
  <1>1. ASSUME NEW w \in Workload, Disturb(w) \/ RollOut(w)
        PROVE  EventsKept'
    <2>1. PICK o \in Object : Write(w, o)
      BY <1>1, DisturbWrites, RollOutWrites DEF TypeOK, ClusterTypeOK, Log, OutsideWrite
    <2>2. UNCHANGED cascaderVars
      BY <1>1 DEF Disturb, RollOut
    <2>3. AllRemembered'
      BY <2>2 DEF cascaderVars, queueVars, workVars, ghostVars, AllRemembered, Remembered,
                  Pending
    <2> QED
      BY <1>a, <2>1, <2>2, <2>3, WriteVersions, CacheKept DEF cascaderVars, ghostVars
  <1>2. ASSUME NEW w \in Workload, Deliver(w)
        PROVE  EventsKept'
    <2>1. PICK i \in 2..Len(log[w]) :
            /\ Advance(w, i)
            /\ IF Admitted(KindOf[w], Cached(w), log[w][i])
               THEN /\ Add(w)
                    /\ seen' = [seen EXCEPT ![w] = log[w][i].rv]
               ELSE UNCHANGED <<queueVars, seen>>
            /\ UNCHANGED <<workVars, decided>>
      BY <1>2 DEF Deliver
    <2>2. /\ VersionsGrow'
          /\ \A v \in Workload \ {w} : Cached(v)' = Cached(v)
          /\ Cached(w)' = log[w][i]
          /\ Cached(w).rv < log[w][i].rv
      BY <1>a, <2>1, AdvanceVersions
    <2>3. log[w][i].rv \in Nat
      <3>1. log[w] \in Seq(Object) /\ i \in 1..Len(log[w])
        BY <1>a DEF Log
      <3>2. log[w][i] \in Object
        BY <3>1
      <3> QED
        BY <3>2, StatusOf
    <2>4. CASE Add(w) /\ seen' = [seen EXCEPT ![w] = log[w][i].rv]
      <3>1. seen'[w] = log[w][i].rv /\ \A v \in Workload \ {w} : seen'[v] = seen[v]
        BY <2>4 DEF TypeOK
      <3>2. CacheIsSeen'
        BY <2>2, <2>3, <3>1 DEF CacheIsSeen
      <3>3. AllRemembered'
        <4>1. Remembered(w)'
          BY <2>4 DEF Add, Remembered, Pending
        <4> QED
          BY <2>1, <2>4, <3>1, <4>1, ElsewhereRemembered DEF Add, Pending, workVars
      <3> QED
        BY <2>2, <3>2, <3>3
    <2>5. CASE UNCHANGED <<queueVars, seen>>
      <3>1. CacheIsSeen'
        <4> SUFFICES ASSUME NEW v \in Workload PROVE seen[v] <= Cached(v)'.rv
          BY <2>5 DEF CacheIsSeen
        <4> QED
          BY <1>c, <2>2, <2>3 DEF CacheIsSeen
      <3>2. AllRemembered'
        BY <2>1, <2>5 DEF queueVars, workVars, AllRemembered, Remembered, Pending
      <3> QED
        BY <2>2, <3>1, <3>2
    <2> QED
      BY <2>1, <2>4, <2>5
  <1>3. ASSUME NEW w \in Workload, Fire(w)
        PROVE  EventsKept'
    <2>1. AllRemembered'
      BY <1>3 DEF Fire, workVars, ghostVars, AllRemembered, Remembered, Pending
    <2> QED
      BY <1>3, <2>1, LogKept DEF Fire, clusterVars, ghostVars
  <1>4. ASSUME NEW w \in Workload, Dequeue(w)
        PROVE  EventsKept'
    <2>1. pc[w] = "idle" /\ seen[w] <= Cached(w).rv
      BY <1>4 DEF Dequeue, CacheIsSeen
    <2>2. Cached(w).rv \in Nat
      BY EndsType, StatusOf DEF TypeOK, Log
    <2>3. \A v \in Workload \ {w} : decided'[v] = decided[v]
      BY <1>4, <2>2, DecideRaises DEF Dequeue
    <2>4. Remembered(w)'
      <3>1. CASE Cached(w).alive
        <4>1. pc'[w] # "idle" /\ copy'[w] = Cached(w) /\ UNCHANGED seen
          BY <1>4, <3>1 DEF Dequeue, TypeOK
        <4> QED
          BY <2>1, <4>1 DEF Remembered
      <3>2. CASE ~Cached(w).alive
        <4>1. pc'[w] = "idle" /\ Decide(w, Cached(w).rv) /\ UNCHANGED seen
          BY <1>4, <2>1, <3>2 DEF Dequeue, TypeOK
        <4>2. Cached(w).rv \in Nat /\ decided'[w] \in Nat /\ seen[w] \in Nat
          BY <4>1, <2>2, DecideRaises DEF TypeOK
        <4> QED
          BY <2>1, <4>1, <4>2, <2>2, DecideRaises DEF Remembered
      <3> QED
        BY <3>1, <3>2
    <2>5. AllRemembered'
      BY <1>4, <2>4, <2>3, ElsewhereRemembered DEF Dequeue, Pending, TypeOK
    <2> QED
      BY <1>4, <2>5, LogKept DEF Dequeue, clusterVars
  <1>5. ASSUME NEW w \in Workload, Reconcile(w)
        PROVE  EventsKept'
    <2>1. CASE SetMark(w)
      <3> DEFINE o == Marked(Server(w))
      <3>1. o \in Object
        BY <1>b DEF Marked, Object
      <3>2. Write(w, o) /\ UNCHANGED seen
        BY <2>1 DEF SetMark, ghostVars
      <3>3. /\ VersionsGrow' /\ CacheIsSeen'
            /\ Versioned(w, o).rv > Cached(w).rv
        BY <1>a, <3>1, <3>2, WriteVersions, CacheKept
      <3>4. Versioned(w, o).rv \in Nat
        <4>1. Server(w).rv + 1 \in Nat
          BY <1>b, StatusOf
        <4> QED
          BY <3>1, <4>1 DEF Versioned, Object
      <3>5. Remembered(w)'
        <4>1. copy'[w] = Versioned(w, o) /\ pc'[w] = "check"
          BY <2>1 DEF SetMark, TypeOK
        <4>2. seen[w] <= Cached(w).rv
          BY DEF CacheIsSeen
        <4>3. seen[w] <= Versioned(w, o).rv
          BY <1>c, <3>3, <3>4, <4>2
        <4> QED
          BY <3>2, <4>1, <4>3 DEF Remembered
      <3>6. AllRemembered'
        BY <2>1, <3>5, ElsewhereRemembered DEF SetMark, queueVars, ghostVars, Pending, TypeOK
      <3> QED
        BY <3>3, <3>6
    <2>2. CASE SetMarkFails(w)
      BY <2>2, AgainRemembered, LogKept DEF SetMarkFails, clusterVars
    <2>3. CASE BadTargets(w)
      BY <2>3, AgainRemembered, LogKept DEF BadTargets, clusterVars
    <2>4. CASE NoTargets(w)
      BY <2>4, FinishRemembered, LogKept DEF NoTargets, clusterVars
    <2>5. CASE CheckCycle(w)
      BY <2>5, FinishRemembered, LogKept DEF CheckCycle, clusterVars
    <2>6. CASE NotStable(w)
      BY <2>6, AgainRemembered, FinishRemembered, LogKept DEF NotStable, Walkable, clusterVars
    <2>7. CASE BeginReload(w)
      <3>1. Remembered(w)' /\ UNCHANGED seen
        <4>1. pc[w] = "check" /\ pc'[w] = "clear"
          BY <2>7 DEF BeginReload, Walkable, TypeOK
        <4> QED
          BY <2>7, <4>1 DEF BeginReload, queueVars, AllRemembered, Remembered, Pending
      <3> QED
        BY <2>7, <3>1, ElsewhereRemembered, LogKept
        DEF BeginReload, queueVars, clusterVars, Pending, TypeOK
    <2>8. CASE ClearMark(w)
      <3>1. AllRemembered'
        <4>1. Remembered(w)'
          <5>1. pc[w] = "clear" /\ pc'[w] = "trigger"
            BY <2>8 DEF ClearMark, TypeOK
          <5> QED
            BY <2>8, <5>1 DEF ClearMark, queueVars, ghostVars, AllRemembered, Remembered,
                              Pending
        <4> QED
          BY <2>8, <4>1, ElsewhereRemembered
          DEF ClearMark, queueVars, ghostVars, Pending, TypeOK
      <3>2. UNCHANGED seen
        BY <2>8 DEF ClearMark, ghostVars
      <3>3. Unmarked(Server(w)) \in Object
        BY <1>b DEF Unmarked, Object
      <3>4. Write(w, Unmarked(Server(w))) \/ UNCHANGED log
        BY <2>8 DEF ClearMark
      <3> QED
        BY <1>a, <3>1, <3>2, <3>3, <3>4, WriteVersions, CacheKept, LogKept
    <2>9. ASSUME NEW t \in Workload, Trigger(w, t)
          PROVE  EventsKept'
      <3>1. Restarted(Server(t), copy[w].hops + 1) \in Object
        BY <1>b, <1>c, RestartedType
      <3>2. Write(t, Restarted(Server(t), copy[w].hops + 1)) \/ UNCHANGED log
        BY <2>9 DEF Trigger
      <3>3. pc[w] # "idle" /\ Triggered(w, t) /\ UNCHANGED seen
        BY <2>9 DEF Trigger
      <3>4. VersionsGrow' /\ CacheIsSeen'
        BY <1>a, <3>1, <3>2, <3>3, WriteVersions, CacheKept, LogKept
      <3> QED
        BY <3>3, <3>4, TriggeredRemembered
    <2>10. ASSUME NEW t \in Workload, TriggerFails(w, t)
           PROVE  EventsKept'
      BY <2>10, TriggeredRemembered, LogKept DEF TriggerFails, clusterVars
    <2> QED
      BY <1>5, <2>1, <2>2, <2>3, <2>4, <2>5, <2>6, <2>7, <2>8, <2>9, <2>10 DEF Reconcile
  <1>6. CASE Tick
    <2>1. AllRemembered'
      BY <1>6 DEF Tick, queueVars, workVars, ghostVars, AllRemembered, Remembered, Pending
    <2> QED
      BY <1>6, <2>1, LogKept DEF Tick, clusterVars, ghostVars
  <1>7. CASE CrashRestart
    <2>1. \A w \in Workload : log'[w] = <<Server(w)>> /\ seen'[w] = 0 /\ decided'[w] = 0
                              /\ pc'[w] = "idle"
      BY <1>7 DEF CrashRestart
    <2>2. VersionsGrow'
      BY <2>1 DEF VersionsGrow
    <2>3. CacheIsSeen'
      <3> SUFFICES ASSUME NEW w \in Workload PROVE seen'[w] <= Cached(w)'.rv
        BY DEF CacheIsSeen
      <3>1. Cached(w)' = Server(w)
        BY <2>1 DEF Cached
      <3>2. Server(w).rv \in Nat
        BY <1>b, StatusOf
      <3> QED
        BY <2>1, <3>1, <3>2
    <2>4. AllRemembered'
      BY <2>1 DEF AllRemembered, Remembered
    <2> QED
      BY <2>2, <2>3, <2>4
  <1>8. CASE UNCHANGED vars
    <2>1. AllRemembered'
      BY <1>8 DEF vars, queueVars, workVars, ghostVars, AllRemembered, Remembered, Pending
    <2> QED
      BY <1>8, <2>1, LogKept DEF vars, clusterVars, ghostVars
  <1> QED
    BY <1>1, <1>2, <1>3, <1>4, <1>5, <1>6, <1>7, <1>8 DEF Next

LEMMA InitKeeps == Init => EventsKept
  <1> SUFFICES ASSUME Init PROVE EventsKept
    OBVIOUS
  <1>1. \A w \in Workload : \E o \in Object : log[w] = <<o>>
    BY SettledType, NoObjectType DEF Init, ClusterInit
  <1>2. VersionsGrow
    BY <1>1 DEF VersionsGrow
  <1>3. CacheIsSeen
    <2> SUFFICES ASSUME NEW w \in Workload PROVE seen[w] <= Cached(w).rv
      BY DEF CacheIsSeen
    <2>1. PICK o \in Object : log[w] = <<o>>
      BY <1>1
    <2>2. Cached(w) = o /\ o.rv \in Nat
      BY <2>1, StatusOf DEF Cached
    <2> QED
      BY <2>2 DEF Init, ReconcilerInit
  <1>4. AllRemembered
    BY DEF Init, ReconcilerInit, AllRemembered, Remembered
  <1> QED
    BY <1>2, <1>3, <1>4 DEF EventsKept

\* No event that was let through is lost between the informer and the decision, with any
\* number of workloads of any kinds behind the shared workers: the object a reconcile
\* works on is never older than the event that called for it.
THEOREM EventsAreKept == Spec => []NoForgottenEvent
  <1>1. AllRemembered => NoForgottenEvent
    BY DEF AllRemembered, Remembered, Pending, NoForgottenEvent
  <1>2. EventsKept => AllRemembered
    BY DEF EventsKept
  <1> QED
    BY <1>1, <1>2, InitKeeps, NextKeeps, TypeCorrect, PTL DEF Spec

=============================================================================
