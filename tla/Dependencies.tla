---------------------------- MODULE Dependencies ----------------------------
(***************************************************************************)
(* Dependency graphs.  A graph is a function from each workload to the set *)
(* of workloads its annotations name; reachability is stated as the least  *)
(* set closed under the edges, with no recursion, so that the definitions  *)
(* can be used in proofs as well as by TLC.                                *)
(***************************************************************************)

Closed(graph, D) == \A x \in D \cap DOMAIN graph : graph[x] \subseteq D

\* The nodes a walk that starts at the nodes of S can arrive at, S included.
Reach(graph, S) ==
  LET N == DOMAIN graph \cup S \cup UNION {graph[x] : x \in DOMAIN graph}
  IN  {x \in N : \A D \in SUBSET N : S \subseteq D /\ Closed(graph, D) => x \in D}

OnCycle(graph, x) == x \in DOMAIN graph /\ x \in Reach(graph, graph[x])

\* Some path from x runs into a cycle, whether or not x lies on it.
ReachesCycle(graph, x) == \E y \in Reach(graph, {x}) : OnCycle(graph, y)

=============================================================================
