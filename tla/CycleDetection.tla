--------------------------- MODULE CycleDetection ---------------------------
(***************************************************************************)
(* checkCycle and detectCycle step by step: a depth-first walk of the      *)
(* dependency graph that keeps the path it came by and nothing else, and   *)
(* reads each workload's annotations from the cache only when it gets      *)
(* there, while other goroutines go on updating the cache.  Reconciler     *)
(* takes the whole walk as one step; this module takes it apart and says   *)
(* what its verdict is worth when the graph changes underneath it.         *)
(***************************************************************************)
EXTENDS Dependencies, Naturals, Sequences, FiniteSets

CONSTANTS
  Node,        \* workloads, by ID
  Source,      \* the workload that is being reconciled
  MaxChanges   \* bound: changes to the cache during one walk

ASSUME SourceAssumption == Source \in Node
ASSUME ChangesAssumption == MaxChanges \in Nat

VARIABLES
  graph,       \* what the cached copies' annotations name, except for the Source:
               \* its targets come from the copy in the reconciler's hands
  readable,    \* workloads that are in the cache and whose references parse
  path,        \* the workloads from the Source to where the walk is
  rest,        \* what is left to visit of the dependencies of each one on the path
  verdict,     \* "walking", and then "none", "cycle" or "error"
  changes,     \* what is left of MaxChanges
  \* ghosts, which no guard reads:
  done,        \* workloads the walk has come back from
  kept,        \* edges that have been there since the walk began
  ever,        \* edges that could be read at some time since
  broken,      \* workloads that have been unreadable since the walk began
  dubious      \* workloads that have been unreadable at some time since

walkVars == <<path, rest, verdict, done>>
cacheVars == <<graph, readable, changes, kept, ever, broken, dubious>>
vars == <<walkVars, cacheVars>>

Graph == [Node -> SUBSET Node]

\* Faulty variant: a workload that has been visited at all.
VisitedBefore(x) == x \in done \/ \E i \in 1..Len(path) : path[i] = x

OnPath(x) == \E i \in 1..Len(path) : path[i] = x
Here == path[Len(path)]

\* The edges that can be read now: what a workload that cannot be read names is not seen.
Legible == [x \in Node |-> IF x = Source \/ x \in readable THEN graph[x] ELSE {}]

Init ==
  /\ graph \in Graph
  /\ readable \in SUBSET Node
  /\ path = <<Source>>
  /\ rest = [x \in Node |-> IF x = Source THEN graph[Source] ELSE {}]
  /\ verdict = "walking"
  /\ changes = MaxChanges
  /\ done = {}
  /\ kept = graph /\ ever = Legible
  /\ broken = Node \ readable /\ dubious = Node \ readable

-----------------------------------------------------------------------------
(* The walk.  The order of a workload's dependencies is that of a Go map's keys
   and so any order. *)

\* The next dependency is the source again, or is on the path already.
Closes(d) == d = Source \/ OnPath(d)

FindCycle(d) ==
  /\ verdict = "walking"
  /\ d \in rest[Here]
  /\ Closes(d)
  /\ verdict' = "cycle"
  /\ UNCHANGED <<path, rest, done, cacheVars>>

\* Faulty variant: a workload without annotations is an error.
FindErrorAtLeaf(d) ==
  /\ verdict = "walking"
  /\ d \in rest[Here]
  /\ ~Closes(d)
  /\ d \notin readable \/ graph[d] = {}
  /\ verdict' = "error"
  /\ UNCHANGED <<path, rest, done, cacheVars>>

\* It cannot be fetched, or extractTargets fails on it.
FindError(d) ==
  /\ verdict = "walking"
  /\ d \in rest[Here]
  /\ ~Closes(d)
  /\ d \notin readable
  /\ verdict' = "error"
  /\ UNCHANGED <<path, rest, done, cacheVars>>

\* Faulty variants: the dependencies of a dependency are not followed; a dependency
\* is not ticked off.
RestShallow(d) == [rest EXCEPT ![Here] = @ \ {d}, ![d] = {}]
RestUnticked(d) == [rest EXCEPT ![d] = graph[d]]

RestBelow(d) == [rest EXCEPT ![Here] = @ \ {d}, ![d] = graph[d]]

\* Its annotations are read now, and are not looked at again.
Descend(d) ==
  /\ verdict = "walking"
  /\ d \in rest[Here]
  /\ ~Closes(d)
  /\ d \in readable
  /\ path' = Append(path, d)
  /\ rest' = RestBelow(d)
  /\ UNCHANGED <<verdict, done, cacheVars>>

\* Faulty variant: no look at whether this is the source.
BacktrackPastSource ==
  /\ verdict = "walking"
  /\ rest[Here] = {}
  /\ path' = SubSeq(path, 1, Len(path) - 1)
  /\ done' = done \cup {Here}
  /\ UNCHANGED <<rest, verdict, cacheVars>>

\* All dependencies visited: back to the workload that named this one.
Backtrack ==
  /\ verdict = "walking"
  /\ rest[Here] = {}
  /\ Len(path) > 1
  /\ path' = SubSeq(path, 1, Len(path) - 1)
  /\ done' = done \cup {Here}
  /\ UNCHANGED <<rest, verdict, cacheVars>>

\* All targets visited.
Conclude ==
  /\ verdict = "walking"
  /\ rest[Here] = {}
  /\ Len(path) = 1
  /\ verdict' = "none"
  /\ UNCHANGED <<path, rest, done, cacheVars>>

Walk == (\E d \in Node : FindCycle(d) \/ FindError(d) \/ Descend(d)) \/ Backtrack \/ Conclude

-----------------------------------------------------------------------------
(* The cache, meanwhile *)

\* An update of x reaches the cache.
Update(x) ==
  /\ changes > 0
  /\ x # Source
  /\ \E S \in SUBSET Node :
       /\ graph' = [graph EXCEPT ![x] = S]
       /\ kept' = [kept EXCEPT ![x] = @ \cap S]
       /\ ever' = IF x \in readable THEN [ever EXCEPT ![x] = @ \cup S] ELSE ever
  /\ changes' = changes - 1
  /\ UNCHANGED <<walkVars, readable, broken, dubious>>

\* x is deleted, or annotated with what does not parse.
Break(x) ==
  /\ changes > 0
  /\ x \in readable
  /\ readable' = readable \ {x}
  /\ dubious' = dubious \cup {x}
  /\ changes' = changes - 1
  /\ UNCHANGED <<walkVars, graph, kept, ever, broken>>

Mend(x) ==
  /\ changes > 0
  /\ x \notin readable
  /\ readable' = readable \cup {x}
  /\ broken' = broken \ {x}
  /\ ever' = [ever EXCEPT ![x] = @ \cup graph[x]]
  /\ changes' = changes - 1
  /\ UNCHANGED <<walkVars, graph, kept, dubious>>

Next == Walk \/ \E x \in Node : Update(x) \/ Break(x) \/ Mend(x)

Spec == Init /\ [][Next]_vars

\* The goroutine goes on with its walk, whatever happens to the cache.
FairSpec == Spec /\ WF_vars(Walk)

-----------------------------------------------------------------------------
(* Properties *)

TypeOK ==
  /\ graph \in Graph /\ kept \in Graph /\ ever \in Graph
  /\ readable \subseteq Node /\ broken \subseteq Node /\ dubious \subseteq Node
  /\ path \in Seq(Node) \ {<<>>}
  /\ rest \in Graph
  /\ verdict \in {"walking", "none", "cycle", "error"}
  /\ changes \in Nat
  /\ done \subseteq Node

\* "No cycle" can be relied on: no cycle can be reached from the source along edges
\* that were there throughout, and no workload that was unreadable throughout.
NoneMeansAcyclic ==
  verdict = "none" => /\ ~ReachesCycle(kept, Source)
                      /\ Reach(kept, kept[Source]) \cap broken = {}

\* "Cycle" is not a false alarm about edges that never were: following edges that
\* could be read at some time, the source leads into a cycle.
CycleMeansCycle == verdict = "cycle" => ReachesCycle(ever, Source)

\* Nor is "error": some other workload that the source leads to, along edges that could
\* be read at some time, could itself not be read at some time.
ErrorMeansUnreadable ==
  verdict = "error" => \E x \in Reach(ever, {Source}) \ {Source} : x \in dubious

\* While the cache stands still, the walk that visits one workload after the other, and
\* some more than once, comes to the verdict that Reconciler reaches in one step (its
\* CycleFound and ErrorFound): a cycle or an error only if there is one that can be met,
\* and neither only if there is none of the two.
OneStepWhenStill ==
  LET cycle == ReachesCycle(Legible, Source)
      error == \E x \in Reach(Legible, {Source}) \ {Source} : x \notin readable
  IN  changes = MaxChanges => /\ verdict = "cycle" => cycle
                              /\ verdict = "error" => error
                              /\ verdict = "none" => ~cycle /\ ~error

\* The walk ends, though it keeps no record of where it has been, on any graph and
\* however the cache changes.
Terminates == <>(verdict # "walking")

=============================================================================
