---------------------------- MODULE PromiseProofs ----------------------------
(***************************************************************************)
(* Cascader implements Cascade: through the mapping of the module Cascader *)
(* the initial states are Cascade's, and every step is one of Cascade's or *)
(* changes nothing that Cascade sees.                                      *)
(***************************************************************************)
EXTENDS QueueProofs

-----------------------------------------------------------------------------
(* Batches *)

\* Targets are in hand only from the decision to reload them on.
BatchesAreBegun ==
  \A w \in Workload : pc[w] \notin {"clear", "trigger"} => todo[w] = {}

LEMMA ReturnBegun ==
  ASSUME TypeOK, BatchesAreBegun, NEW w \in Workload, Return(w)
  PROVE  BatchesAreBegun'
  BY DEF Return, TypeOK, BatchesAreBegun

LEMMA TriggeredBegun ==
  ASSUME TypeOK, BatchesAreBegun, NEW w \in Workload, NEW t \in Workload,
         pc[w] = "trigger", Triggered(w, t)
  PROVE  BatchesAreBegun'
  <1>1. CASE todo[w] = {t}
    BY <1>1, ReturnBegun DEF Triggered, Finish
  <1>2. CASE todo[w] # {t}
    BY <1>2 DEF Triggered, TypeOK, BatchesAreBegun
  <1> QED
    BY <1>1, <1>2

LEMMA ReconcileBegun ==
  ASSUME TypeOK, BatchesAreBegun, NEW w \in Workload, Reconcile(w)
  PROVE  BatchesAreBegun'
  <1>1. CASE SetMark(w)
    BY <1>1 DEF SetMark, TypeOK, BatchesAreBegun
  <1>2. CASE SetMarkFails(w) \/ BadTargets(w)
    BY <1>2, ReturnBegun DEF SetMarkFails, BadTargets, Again
  <1>3. CASE NoTargets(w) \/ CheckCycle(w)
    BY <1>3, ReturnBegun DEF NoTargets, CheckCycle, Finish
  <1>4. CASE NotStable(w)
    BY <1>4, ReturnBegun DEF NotStable, Again, Finish
  <1>5. CASE BeginReload(w)
    BY <1>5 DEF BeginReload, TypeOK, BatchesAreBegun
  <1>6. CASE ClearMark(w)
    BY <1>6 DEF ClearMark, TypeOK, BatchesAreBegun
  <1>7. CASE \E t \in Workload : Trigger(w, t) \/ TriggerFails(w, t)
    BY <1>7, TriggeredBegun DEF Trigger, TriggerFails
  <1> QED
    BY <1>1, <1>2, <1>3, <1>4, <1>5, <1>6, <1>7 DEF Reconcile

LEMMA NextBegun == TypeOK /\ BatchesAreBegun /\ [Next]_vars => BatchesAreBegun'
  <1> SUFFICES ASSUME TypeOK, BatchesAreBegun, [Next]_vars
               PROVE  BatchesAreBegun'
    OBVIOUS
  <1>1. ASSUME NEW w \in Workload, Disturb(w) \/ RollOut(w) \/ Deliver(w) \/ Fire(w)
        PROVE  BatchesAreBegun'
    BY <1>1 DEF Disturb, RollOut, Deliver, Fire, cascaderVars, workVars, BatchesAreBegun
  <1>2. ASSUME NEW w \in Workload, Dequeue(w)
        PROVE  BatchesAreBegun'
    <2>1. pc[w] = "idle" /\ UNCHANGED todo
      BY <1>2 DEF Dequeue
    <2>2. \A v \in Workload \ {w} : pc'[v] = pc[v]
      BY <1>2 DEF Dequeue, TypeOK
    <2> QED
      BY <2>1, <2>2 DEF BatchesAreBegun
  <1>3. ASSUME NEW w \in Workload, Reconcile(w)
        PROVE  BatchesAreBegun'
    BY <1>3, ReconcileBegun
  <1>4. CASE Tick \/ UNCHANGED vars
    BY <1>4 DEF Tick, vars, workVars, BatchesAreBegun
  <1>5. CASE CrashRestart
    BY <1>5 DEF CrashRestart, BatchesAreBegun
  <1> QED
    BY <1>1, <1>2, <1>3, <1>4, <1>5 DEF Next

-----------------------------------------------------------------------------
(* What Cascade sees of a step *)

LEMMA TemplatesAreNat == TypeOK => Templates \in [Workload -> Nat]
  BY EndsType, StatusOf DEF TypeOK, Log, Templates

\* A write changes the template of one workload at most.
LEMMA WriteChangesOne ==
  ASSUME log \in Log, NEW w \in Workload, NEW o, Write(w, o)
  PROVE  Promise!ChangesOnly(w)
  <1>1. \A v \in Workload \ {w} : log'[v] = log[v]
    BY DEF Write, Log
  <1>2. \A v \in Workload \ {w} : Templates'[v] = Templates[v]
    BY <1>1 DEF Templates, Server
  <1> QED
    BY <1>2 DEF Promise!ChangesOnly, Templates

LEMMA SameTemplates ==
  ASSUME \A w \in Workload : Server(w)' = Server(w)
  PROVE  Templates' = Templates
  BY DEF Templates

LEMMA SameLog ==
  ASSUME UNCHANGED log
  PROVE  Templates' = Templates
  BY DEF Templates, Server

LEMMA SameUnanswered ==
  ASSUME UNCHANGED <<seen, decided>>
  PROVE  Unanswered' = Unanswered
  BY DEF Unanswered

LEMMA SameCrashes ==
  ASSUME UNCHANGED budget
  PROVE  Crashes' = Crashes
  BY DEF Crashes

\* What is spent on anything but a crash is not counted as one.
LEMMA SpendIsNoCrash ==
  ASSUME TypeOK, NEW op \in Op \ {"crash"}, Spend(op)
  PROVE  Crashes' = Crashes
  BY DEF Spend, TypeOK, Crashes, Op

\* Of all steps only CrashRestart is a crash.
LEMMA StepsAreNoCrash ==
  ASSUME TypeOK, NEW w \in Workload,
         Disturb(w) \/ RollOut(w) \/ Deliver(w) \/ Fire(w) \/ Dequeue(w) \/ Reconcile(w)
  PROVE  Crashes' = Crashes
  <1>1. {"restart", "rescale", "edit", "lose", "delete", "create", "relist", "markfail",
         "clearfail", "reloadfail"} \subseteq Op \ {"crash"}
    BY DEF Op
  <1>2. CASE Disturb(w)
    BY <1>1, <1>2, SpendIsNoCrash
       DEF Disturb, Create, UserRestart, Rescale, EditTargets, LosePod, Delete
  <1>3. CASE RollOut(w) \/ Fire(w) \/ Dequeue(w)
    BY <1>3, SameCrashes DEF RollOut, Observe, Settle, Fire, Dequeue
  <1>4. CASE Deliver(w)
    BY <1>1, <1>4, SpendIsNoCrash, SameCrashes DEF Deliver
  <1>5. CASE SetMark(w) \/ SetMarkFails(w) \/ ClearMark(w)
    BY <1>1, <1>5, SpendIsNoCrash, SameCrashes DEF SetMark, SetMarkFails, ClearMark
  <1>6. CASE BadTargets(w) \/ NoTargets(w) \/ CheckCycle(w) \/ NotStable(w) \/ BeginReload(w)
    BY <1>6, SameCrashes DEF BadTargets, NoTargets, CheckCycle, NotStable, BeginReload
  <1>7. CASE \E t \in Workload : Trigger(w, t) \/ TriggerFails(w, t)
    BY <1>1, <1>7, SpendIsNoCrash, SameCrashes DEF Trigger, TriggerFails
  <1> QED
    BY <1>2, <1>3, <1>4, <1>5, <1>6, <1>7 DEF Reconcile

\* A decision closes the event of one workload at most, and opens none.
LEMMA DecideCloses ==
  ASSUME TypeOK, NEW w \in Workload, NEW version \in Nat,
         Decide(w, version), UNCHANGED seen
  PROVE  Unanswered' \in {Unanswered, Unanswered \ {w}}
  <1>1. \A v \in Workload : seen[v] \in Nat /\ decided[v] \in Nat /\ decided'[v] \in Nat
    BY DecideRaises DEF TypeOK
  <1>2. \A v \in Workload \ {w} : v \in Unanswered' <=> v \in Unanswered
    BY DecideRaises DEF Unanswered
  <1>3. w \in Unanswered' => w \in Unanswered
    BY <1>1, DecideRaises DEF Unanswered
  <1>4. Unanswered \subseteq Workload /\ Unanswered' \subseteq Workload
    BY DEF Unanswered
  <1>5. CASE w \in Unanswered'
    BY <1>2, <1>3, <1>4, <1>5
  <1>6. CASE w \notin Unanswered'
    BY <1>2, <1>4, <1>6
  <1> QED
    BY <1>5, <1>6

\* A reconcile that comes back later, without a batch, changes nothing Cascade sees.
LEMMA AgainStutters ==
  ASSUME TypeOK, NEW w \in Workload, todo[w] = {}, Again(w),
         UNCHANGED <<log, seen, credit, Crashes>>
  PROVE  UNCHANGED Promise!vars
  <1>1. todo' = todo
    BY DEF Again, Return, TypeOK
  <1> QED
    BY <1>1, SameLog, SameUnanswered DEF Again, Promise!vars

\* One that ends without a batch declines.
LEMMA FinishDeclines ==
  ASSUME TypeOK, NEW w \in Workload, todo[w] = {}, Finish(w, copy[w].rv),
         UNCHANGED <<log, seen, credit, Crashes>>
  PROVE  [Promise!Next]_(Promise!vars)
  <1>1. todo' = todo
    BY DEF Finish, Return, TypeOK
  <1>2. copy[w].rv \in Nat
    BY StatusOf DEF TypeOK
  <1>3. Unanswered' \in {Unanswered, Unanswered \ {w}}
    BY <1>2, DecideCloses DEF Finish
  <1>4. CASE Unanswered' = Unanswered
    BY <1>1, <1>4, SameLog DEF Promise!vars
  <1>5. CASE Unanswered' = Unanswered \ {w}
    BY <1>1, <1>5, SameLog DEF Promise!Next, Promise!Decline
  <1> QED
    BY <1>3, <1>4, <1>5

\* One that is through with a target has seen to one reload.
LEMMA TriggeredReloads ==
  ASSUME TypeOK, NEW w \in Workload, NEW t \in Workload, t \in todo[w],
         Triggered(w, t), UNCHANGED <<seen, credit, Crashes>>, Promise!ChangesOnly(t)
  PROVE  Promise!Reload(w, t)
  <1>1. CASE todo[w] = {t}
    <2>1. Finish(w, copy[w].rv)
      BY <1>1 DEF Triggered
    <2>2. todo' = [todo EXCEPT ![w] = @ \ {t}]
      BY <1>1, <2>1 DEF Finish, Return, TypeOK
    <2>3. copy[w].rv \in Nat
      BY StatusOf DEF TypeOK
    <2>4. Unanswered' \in {Unanswered, Unanswered \ {w}}
      BY <2>1, <2>3, DecideCloses DEF Finish
    <2> QED
      BY <1>1, <2>2, <2>4 DEF Promise!Reload
  <1>2. CASE todo[w] # {t}
    BY <1>2, SameUnanswered DEF Triggered, Promise!Reload
  <1> QED
    BY <1>1, <1>2

-----------------------------------------------------------------------------
(* No source among its own targets *)

LEMMA StartIsReached == \A graph, S : S \subseteq Reach(graph, S)
  BY DEF Reach

\* A workload that names itself is a cycle the walk cannot miss.
LEMMA WalkableNamesOthers ==
  ASSUME TypeOK, NEW w \in Workload, Walkable(w)
  PROVE  copy[w].targets \in SUBSET (Workload \ {w}) /\ copy[w].targets # {}
  <1> DEFINE g == Walk(w)
  <1>1. copy[w].targets \subseteq Workload /\ copy[w].targets # {}
    <2>1. copy[w].targets \subseteq Ref
      BY StatusOf DEF TypeOK
    <2> QED
      BY <2>1 DEF Walkable, Ref
  <1>2. w \in DOMAIN g /\ g[w] = copy[w].targets
    BY DEF Walk
  <1>3. w \in copy[w].targets => OnCycle(g, w)
    BY <1>2, StartIsReached DEF OnCycle
  <1>4. w \in Reach(g, {w})
    BY StartIsReached
  <1>5. w \notin copy[w].targets
    BY <1>3, <1>4 DEF Walkable, CycleFound, ReachesCycle
  <1> QED
    BY <1>1, <1>5

-----------------------------------------------------------------------------
(* Every step *)

LEMMA OutsideChanges ==
  ASSUME TypeOK, NEW w \in Workload, Disturb(w) \/ RollOut(w)
  PROVE  Promise!Change(w)
  <1>1. ClusterTypeOK
    BY DEF TypeOK, Log, ClusterTypeOK
  <1>2. \E o \in Object : Write(w, o)
    BY <1>1, DisturbWrites, RollOutWrites DEF OutsideWrite
  <1>3. Promise!ChangesOnly(w)
    BY <1>1, <1>2, WriteChangesOne DEF ClusterTypeOK
  <1> QED
    BY <1>3, SameUnanswered, StepsAreNoCrash
       DEF Disturb, RollOut, cascaderVars, workVars, ghostVars, Promise!Change

LEMMA DeliverNotices ==
  ASSUME TypeOK, EventsKept, NEW w \in Workload, Deliver(w)
  PROVE  [Promise!Next]_(Promise!vars)
  <1>1. PICK i \in 2..Len(log[w]) :
          /\ Advance(w, i)
          /\ IF Admitted(KindOf[w], Cached(w), log[w][i])
             THEN /\ seen' = [seen EXCEPT ![w] = log[w][i].rv]
                  /\ credit' = [credit EXCEPT ![w] = @ + 1]
             ELSE UNCHANGED <<seen, credit>>
          /\ UNCHANGED <<workVars, decided>>
    BY DEF Deliver
  <1>2. log \in Log /\ log[w] \in Seq(Object)
    BY DEF TypeOK, Log
  <1>3. Templates' = Templates
    <2>1. log'[w] = SubSeq(log[w], i, Len(log[w]))
      BY <1>1, <1>2 DEF Advance, Log
    <2>2. Len(log'[w]) = Len(log[w]) - i + 1 /\ log'[w][Len(log[w]) - i + 1] = log[w][Len(log[w])]
      BY <1>2, <2>1
    <2>3. \A v \in Workload \ {w} : log'[v] = log[v]
      BY <1>1, <1>2 DEF Advance, Log
    <2>4. \A v \in Workload : Server(v)' = Server(v)
      BY <2>2, <2>3 DEF Server
    <2> QED
      BY <2>4, SameTemplates
  <1>4. UNCHANGED <<todo, Crashes>>
    BY <1>1, StepsAreNoCrash DEF workVars
  <1>5. CASE UNCHANGED <<seen, credit>>
    BY <1>1, <1>3, <1>4, <1>5, SameUnanswered DEF Promise!vars
  <1>6. CASE /\ seen' = [seen EXCEPT ![w] = log[w][i].rv]
             /\ credit' = [credit EXCEPT ![w] = @ + 1]
    <2>1. seen[w] <= Cached(w).rv /\ Cached(w).rv < log[w][i].rv
      BY <1>1, <1>2, AdvanceVersions DEF EventsKept, CacheIsSeen
    <2>2. Cached(w) \in Object /\ log[w][i] \in Object
      BY <1>2, EndsType
    <2>3. /\ Cached(w).rv \in Nat /\ log[w][i].rv \in Nat
          /\ seen[w] \in Nat /\ decided[w] \in Nat
      BY <2>2, StatusOf DEF TypeOK
    <2>4. w \in Unanswered => w \in Unanswered'
      <3>1. seen'[w] = log[w][i].rv /\ decided'[w] = decided[w]
        BY <1>1, <1>6 DEF TypeOK
      <3> QED
        BY <2>1, <2>3, <3>1 DEF Unanswered
    <2>5. \A v \in Workload \ {w} : v \in Unanswered' <=> v \in Unanswered
      BY <1>1, <1>6 DEF Unanswered, TypeOK
    <2>6. Unanswered' \in {Unanswered, Unanswered \cup {w}}
      <3>1. Unanswered \subseteq Workload /\ Unanswered' \subseteq Workload
        BY DEF Unanswered
      <3>2. CASE w \in Unanswered'
        BY <2>5, <3>1, <3>2
      <3>3. CASE w \notin Unanswered'
        BY <2>4, <2>5, <3>1, <3>3
      <3> QED
        BY <3>2, <3>3
    <2>7. Promise!Notice(w)
      BY <1>3, <1>4, <1>6, <2>6 DEF Promise!Notice
    <2> QED
      BY <2>7 DEF Promise!Next
  <1> QED
    BY <1>1, <1>5, <1>6

LEMMA DequeueDeclines ==
  ASSUME TypeOK, BatchesAreBegun, NEW w \in Workload, Dequeue(w)
  PROVE  [Promise!Next]_(Promise!vars)
  <1>1. /\ todo[w] = {} /\ Templates' = Templates
        /\ UNCHANGED <<todo, credit, seen, Crashes>>
    BY SameLog, StepsAreNoCrash DEF Dequeue, BatchesAreBegun, clusterVars
  <1>2. CASE UNCHANGED decided
    BY <1>1, <1>2, SameUnanswered DEF Promise!vars
  <1>3. CASE Decide(w, Cached(w).rv)
    <2>1. Cached(w).rv \in Nat
      BY EndsType, StatusOf DEF TypeOK, Log
    <2>2. Unanswered' \in {Unanswered, Unanswered \ {w}}
      BY <1>1, <1>3, <2>1, DecideCloses
    <2>3. CASE Unanswered' = Unanswered
      BY <1>1, <2>3 DEF Promise!vars
    <2>4. CASE Unanswered' = Unanswered \ {w}
      BY <1>1, <2>4 DEF Promise!Next, Promise!Decline
    <2> QED
      BY <2>2, <2>3, <2>4
  <1> QED
    BY <1>2, <1>3 DEF Dequeue

\* A batch is begun on credit only.
LEMMA BeginReloadBegins ==
  ASSUME TypeOK, CreditCoversChances, BatchesAreBegun, NEW w \in Workload, BeginReload(w)
  PROVE  Promise!Begin(w)
  <1>1. pc[w] = "check" /\ Walkable(w)
    BY DEF BeginReload, Walkable
  <1>2. credit[w] > 0
    <2>1. credit[w] \in Int /\ credit[w] >= Chances(w)
      BY DEF TypeOK, CreditCoversChances
    <2> QED
      BY <1>1, <2>1 DEF Chances, One, Undecided
  <1>3. todo[w] = {}
    BY <1>1 DEF BatchesAreBegun
  <1>4. copy[w].targets \in SUBSET (Workload \ {w}) /\ copy[w].targets # {}
    BY <1>1, WalkableNamesOthers
  <1>5. UNCHANGED <<log, seen, decided>> /\ todo' = [todo EXCEPT ![w] = copy[w].targets]
    BY DEF BeginReload, clusterVars
  <1> QED
    BY <1>2, <1>3, <1>4, <1>5, SameLog, SameUnanswered, StepsAreNoCrash
       DEF Reconcile, BeginReload, Promise!Begin

LEMMA ReconcileImplements ==
  ASSUME TypeOK, CreditCoversChances, BatchesAreBegun, NEW w \in Workload, Reconcile(w)
  PROVE  [Promise!Next]_(Promise!vars)
  <1>1. /\ log \in Log /\ Crashes' = Crashes
        /\ pc[w] \in {"mark", "check"} => todo[w] = {}
    BY StepsAreNoCrash DEF TypeOK, Log, BatchesAreBegun
  <1>2. CASE SetMark(w)
    <2>1. Promise!ChangesOnly(w)
      BY <1>1, <1>2, WriteChangesOne DEF SetMark
    <2>2. Promise!Change(w)
      BY <1>1, <1>2, <2>1, SameUnanswered DEF SetMark, ghostVars, Promise!Change
    <2> QED
      BY <2>2 DEF Promise!Next
  <1>3. CASE SetMarkFails(w)
    BY <1>1, <1>3, AgainStutters DEF SetMarkFails, clusterVars
  <1>4. CASE BadTargets(w)
    BY <1>1, <1>4, AgainStutters DEF BadTargets, clusterVars
  <1>5. CASE NoTargets(w)
    BY <1>1, <1>5, FinishDeclines DEF NoTargets, clusterVars
  <1>6. CASE CheckCycle(w)
    BY <1>1, <1>6, FinishDeclines DEF CheckCycle, clusterVars
  <1>7. CASE NotStable(w)
    BY <1>1, <1>7, AgainStutters, FinishDeclines DEF NotStable, Walkable, clusterVars
  <1>8. CASE BeginReload(w)
    BY <1>8, BeginReloadBegins DEF Promise!Next
  <1>9. CASE ClearMark(w)
    <2>1. Promise!ChangesOnly(w)
      <3>1. CASE UNCHANGED log
        BY <3>1, SameLog, TemplatesAreNat DEF Promise!ChangesOnly
      <3>2. CASE Write(w, Unmarked(Server(w)))
        BY <1>1, <3>2, WriteChangesOne
      <3> QED
        BY <1>9, <3>1, <3>2 DEF ClearMark
    <2>2. Promise!Change(w)
      BY <1>1, <1>9, <2>1, SameUnanswered DEF ClearMark, ghostVars, Promise!Change
    <2> QED
      BY <2>2 DEF Promise!Next
  <1>10. ASSUME NEW t \in Workload, Trigger(w, t)
         PROVE  Promise!Reload(w, t)
    <2>1. Promise!ChangesOnly(t)
      <3>1. CASE UNCHANGED log
        BY <3>1, SameLog, TemplatesAreNat DEF Promise!ChangesOnly
      <3>2. CASE Write(t, Restarted(Server(t), copy[w].hops + 1))
        BY <1>1, <3>2, WriteChangesOne
      <3> QED
        BY <1>10, <3>1, <3>2 DEF Trigger
    <2> QED
      BY <1>1, <1>10, <2>1, TriggeredReloads DEF Trigger
  <1>11. ASSUME NEW t \in Workload, TriggerFails(w, t)
         PROVE  Promise!Reload(w, t)
    <2>1. Promise!ChangesOnly(t)
      BY <1>11, SameLog, TemplatesAreNat DEF TriggerFails, clusterVars, Promise!ChangesOnly
    <2> QED
      BY <1>1, <1>11, <2>1, TriggeredReloads DEF TriggerFails
  <1> QED
    BY <1>2, <1>3, <1>4, <1>5, <1>6, <1>7, <1>8, <1>9, <1>10, <1>11
       DEF Reconcile, Promise!Next

LEMMA CrashRestartKeepsNothing ==
  ASSUME TypeOK, CrashRestart
  PROVE  Promise!Restart
  <1>1. \A w \in Workload : Server(w)' = Server(w)
    BY DEF CrashRestart, Server
  <1>2. Unanswered' = {}
    BY DEF CrashRestart, Unanswered
  <1>3. Crashes' = Crashes + 1
    <2>1. "crash" \in Op
      BY DEF Op
    <2>2. budget["crash"] \in Nat /\ budget'["crash"] = budget["crash"] - 1
      BY <2>1 DEF CrashRestart, Spend, TypeOK
    <2> QED
      BY <2>1, <2>2, BoundAssumption DEF Crashes
  <1> QED
    BY <1>1, <1>2, <1>3, SameTemplates DEF CrashRestart, Promise!Restart

LEMMA NextImplements ==
  TypeOK /\ CreditCoversChances /\ EventsKept /\ BatchesAreBegun /\ [Next]_vars
    => [Promise!Next]_(Promise!vars)
  <1> SUFFICES ASSUME TypeOK, CreditCoversChances, EventsKept, BatchesAreBegun, [Next]_vars
               PROVE  [Promise!Next]_(Promise!vars)
    OBVIOUS
  <1>1. ASSUME NEW w \in Workload, Disturb(w) \/ RollOut(w)
        PROVE  [Promise!Next]_(Promise!vars)
    BY <1>1, OutsideChanges DEF Promise!Next
  <1>2. ASSUME NEW w \in Workload, Fire(w)
        PROVE  [Promise!Next]_(Promise!vars)
    BY <1>2, SameLog, SameUnanswered, StepsAreNoCrash DEF Fire, clusterVars, workVars, ghostVars, Promise!vars
  <1>3. CASE Tick \/ UNCHANGED vars
    BY <1>3, SameLog, SameUnanswered, SameCrashes
       DEF Tick, vars, clusterVars, workVars, ghostVars, Promise!vars
  <1>4. CASE CrashRestart
    BY <1>4, CrashRestartKeepsNothing DEF Promise!Next
  <1> QED
    BY <1>1, <1>2, <1>3, <1>4, DeliverNotices, DequeueDeclines, ReconcileImplements DEF Next

LEMMA InitImplements == Init => Promise!Init /\ BatchesAreBegun
  <1> SUFFICES ASSUME Init PROVE Promise!Init /\ BatchesAreBegun
    OBVIOUS
  <1>1. Templates \in [Workload -> Nat]
    BY InitType, TemplatesAreNat
  <1>2. Unanswered = {}
    BY DEF Init, ReconcilerInit, Unanswered
  <1>3. Crashes = 0
    BY BoundAssumption DEF Init, ClusterInit, Crashes, Op
  <1> QED
    BY <1>1, <1>2, <1>3 DEF Init, ReconcilerInit, Promise!Init, BatchesAreBegun

\* Cascader, with any workloads, graph, interference, failing calls and restarts, does
\* nothing that Cascade does not allow: batches are begun on account of an event of
\* their source and without the source itself, are worked off target by target, an event
\* is closed by decisions only, and nothing but a crash makes Cascader forget.
THEOREM CascaderImplementsCascade == Spec => ImplementsCascade
  <1>1. Init => CreditCoversChances
    BY DEF Init, ReconcilerInit, CreditCoversChances, Chances, One, Undecided
  <1>2. Spec => [](TypeOK /\ CreditCoversChances /\ EventsKept /\ BatchesAreBegun)
    BY <1>1, InitKeeps, InitImplements, NextCovered, NextKeeps, NextBegun, TypeCorrect,
       PTL DEF Spec
  <1> QED
    BY <1>2, InitImplements, NextImplements, PTL DEF Spec, ImplementsCascade, Promise!Spec

=============================================================================
