------------------------------ MODULE MCCascader ------------------------------
(* Small instances of Cascader for TLC: who there is, who names whom, and how
   often the outside interferes. *)
EXTENDS Cascader, TLC

CONSTANTS a, b, c, d, e, bad

OneReplica == [w \in Workload |-> 1]
TwoReplicas == [w \in Workload |-> 2]
Default == [w \in Workload |-> "absent"]
ZeroOnA == [w \in Workload |-> IF w = a THEN "nonpositive" ELSE "invalid"]

Quota(q) == [op \in Op |-> IF op \in DOMAIN q THEN q[op] ELSE 0]
Targeting(t) == [w \in Workload |-> IF w \in DOMAIN t THEN t[w] ELSE {}]

\* Kinds: workloads of one kind share a worker, those of different kinds do not.
Mixed == [w \in Workload |-> CASE w \in {a, d} -> "Deployment"
                               [] w \in {b, e} -> "StatefulSet" [] OTHER -> "DaemonSet"]
AllStatefulSets == [w \in Workload |-> "StatefulSet"]
AllDaemonSets == [w \in Workload |-> "DaemonSet"]

\* Graphs.
Pair == Targeting(a :> {b})
Chain == Targeting(a :> {b} @@ b :> {c})
DiamondAndLoop == Targeting(a :> {b, c} @@ b :> {c} @@ d :> {e} @@ e :> {e})
Join == Targeting(a :> {c} @@ b :> {c})
Mutual == Targeting(a :> {b} @@ b :> {a})
PairAndLoop == Targeting(a :> {b} @@ d :> {e} @@ e :> {e})

\* Edits: none, some that close a cycle or empty an annotation, one that only empties
\* it, one that leaves a reference nobody can parse.
NoEdits == Targeting(<<>>)
Closing == Targeting(a :> {{b}, {}} @@ b :> {{a}})
Emptying == Targeting(a :> {{}})
Spoiling == Targeting(a :> {{bad}})

OneRestart == Quota("restart" :> 1)
TwoRestarts == Quota("restart" :> 2)
OneEdit == Quota("restart" :> 1 @@ "edit" :> 1)
CallsFail == Quota("restart" :> 1 @@ "markfail" :> 1 @@ "reloadfail" :> 1)
EditsAndFailures == Quota("restart" :> 1 @@ "edit" :> 2 @@ "reloadfail" :> 1
                          @@ "clearfail" :> 1)
RescalesLossAndCrash == Quota("rescale" :> 2 @@ "lose" :> 1 @@ "crash" :> 1)
PodLosses == Quota("restart" :> 1 @@ "lose" :> 1 @@ "rescale" :> 1)
Outages == Quota("restart" :> 1 @@ "delete" :> 1 @@ "create" :> 1 @@ "relist" :> 1
                 @@ "edit" :> 1)
Crash == Quota("restart" :> 1 @@ "crash" :> 1)

=============================================================================
