------------------------ MODULE CycleDetectionProofs ------------------------
(***************************************************************************)
(* What checkCycle's verdicts are worth on any graph, with any number of   *)
(* changes to the cache during the walk: "no cycle" is right about all     *)
(* that stayed, "cycle" and "error" are about what was there at some time. *)
(* Nothing is said by induction over paths: what a path of the walk can    *)
(* reach is part of the invariant.                                         *)
(***************************************************************************)
EXTENDS CycleDetection, TLAPS

-----------------------------------------------------------------------------
(* Reachability *)

LEMMA ReachIsLeast ==
  ASSUME NEW g \in Graph, NEW S \in SUBSET Node, NEW x
  PROVE  x \in Reach(g, S) <=>
           x \in Node /\ \A D \in SUBSET Node : S \subseteq D /\ Closed(g, D) => x \in D
  <1>1. DOMAIN g = Node
    BY DEF Graph
  <1>2. UNION {g[y] : y \in DOMAIN g} \subseteq Node
    BY DEF Graph
  <1>3. DOMAIN g \cup S \cup UNION {g[y] : y \in DOMAIN g} = Node
    BY <1>1, <1>2
  <1> QED
    BY <1>3 DEF Reach

LEMMA ReachStart ==
  ASSUME NEW g \in Graph, NEW S \in SUBSET Node
  PROVE  S \subseteq Reach(g, S)
  BY ReachIsLeast

LEMMA ReachStep ==
  ASSUME NEW g \in Graph, NEW S \in SUBSET Node,
         NEW x \in Reach(g, S), NEW y \in g[x]
  PROVE  y \in Reach(g, S)
  <1>1. x \in Node /\ y \in Node
    BY ReachIsLeast DEF Graph
  <1> SUFFICES ASSUME NEW D \in SUBSET Node, S \subseteq D, Closed(g, D) PROVE y \in D
    BY <1>1, ReachIsLeast
  <1>2. x \in D /\ x \in DOMAIN g
    BY <1>1, ReachIsLeast DEF Graph
  <1> QED
    BY <1>2 DEF Closed

\* With more edges and more nodes to start from, a walk gets to no fewer.
LEMMA ReachGrows ==
  ASSUME NEW g \in Graph, NEW h \in Graph, NEW S \in SUBSET Node, NEW T \in SUBSET Node,
         \A x \in Node : g[x] \subseteq h[x], S \subseteq T
  PROVE  Reach(g, S) \subseteq Reach(h, T)
  <1> SUFFICES ASSUME NEW x \in Reach(g, S), NEW D \in SUBSET Node,
                      T \subseteq D, Closed(h, D)
               PROVE  x \in D
    BY ReachIsLeast
  <1>1. Closed(g, D)
    BY DEF Closed, Graph
  <1> QED
    BY <1>1, ReachIsLeast

LEMMA ReachesCycleGrows ==
  ASSUME NEW g \in Graph, NEW h \in Graph, NEW x \in Node,
         \A y \in Node : g[y] \subseteq h[y], ReachesCycle(g, x)
  PROVE  ReachesCycle(h, x)
  <1>1. PICK y \in Reach(g, {x}) : y \in Reach(g, g[y])
    BY DEF ReachesCycle, OnCycle
  <1>2. y \in Reach(h, {x}) /\ y \in Node
    BY <1>1, ReachGrows, ReachIsLeast
  <1>3. g[y] \in SUBSET Node /\ h[y] \in SUBSET Node
    BY <1>2 DEF Graph
  <1>4. y \in Reach(h, h[y])
    BY <1>1, <1>2, <1>3, ReachGrows
  <1> QED
    BY <1>2, <1>4 DEF ReachesCycle, OnCycle, Graph

\* A set that is closed, and that no way leads out of.
LEMMA ReachWithin ==
  ASSUME NEW g \in Graph, NEW S \in SUBSET Node, NEW D \in SUBSET Node,
         S \subseteq D, Closed(g, D)
  PROVE  Reach(g, S) \subseteq D
  BY ReachIsLeast

-----------------------------------------------------------------------------
(* Type correctness *)

LEMMA PathType ==
  ASSUME path \in Seq(Node) \ {<<>>}
  PROVE  /\ Len(path) \in Nat /\ Len(path) \in 1..Len(path)
         /\ Here \in Node
         /\ \A i \in 1..Len(path) : path[i] \in Node
  <1>1. Len(path) # 0
    OBVIOUS
  <1> QED
    BY <1>1 DEF Here

LEMMA InitType == Init => TypeOK
  <1> SUFFICES ASSUME Init PROVE TypeOK
    OBVIOUS
  <1>1. path \in Seq(Node) \ {<<>>}
    BY SourceAssumption DEF Init
  <1>2. rest \in Graph
    BY SourceAssumption DEF Init, Graph
  <1>3. ever \in Graph
    <2>1. ever = Legible /\ graph \in Graph
      BY DEF Init
    <2> QED
      BY <2>1 DEF Legible, Graph
  <1> QED
    BY <1>1, <1>2, <1>3, ChangesAssumption DEF Init, TypeOK

\* A step of the walk down and one up.
LEMMA DownPath ==
  ASSUME path \in Seq(Node) \ {<<>>}, NEW d \in Node, path' = Append(path, d)
  PROVE  /\ path' \in Seq(Node) \ {<<>>}
         /\ Len(path') = Len(path) + 1
         /\ \A i \in 1..Len(path) : path'[i] = path[i]
         /\ path'[Len(path) + 1] = d
  OBVIOUS

LEMMA NotEmpty == \A s : Len(s) >= 1 => s # <<>>
  OBVIOUS

LEMMA UpPath ==
  ASSUME path \in Seq(Node) \ {<<>>}, Len(path) > 1,
         path' = SubSeq(path, 1, Len(path) - 1)
  PROVE  /\ path' \in Seq(Node) \ {<<>>}
         /\ Len(path') = Len(path) - 1
         /\ \A i \in 1..(Len(path) - 1) : path'[i] = path[i]
  <1> DEFINE n == Len(path)
  <1>1. n \in Nat /\ n - 1 \in Nat /\ 1 <= n - 1
    OBVIOUS
  <1>2. /\ path' \in Seq(Node)
        /\ Len(path') = n - 1
        /\ \A i \in 1..(n - 1) : path'[i] = path[i]
    BY <1>1
  <1>3. path' # <<>>
    <2>1. Len(path') >= 1
      BY <1>1, <1>2
    <2> QED
      BY <2>1, NotEmpty
  <1> QED
    BY <1>2, <1>3

LEMMA NextType == TypeOK /\ [Next]_vars => TypeOK'
  <1> SUFFICES ASSUME TypeOK, [Next]_vars PROVE TypeOK'
    OBVIOUS
  <1>a. /\ path \in Seq(Node) \ {<<>>} /\ Here \in Node /\ graph \in Graph /\ rest \in Graph
        /\ kept \in Graph /\ ever \in Graph
    BY PathType DEF TypeOK
  <1>1. ASSUME NEW d \in Node, FindCycle(d) \/ FindError(d)
        PROVE  TypeOK'
    BY <1>1 DEF FindCycle, FindError, TypeOK, cacheVars
  <1>2. ASSUME NEW d \in Node, Descend(d)
        PROVE  TypeOK'
    <2>1. path' \in Seq(Node) \ {<<>>}
      BY <1>a, <1>2, DownPath DEF Descend
    <2>2. rest' \in Graph
      BY <1>a, <1>2 DEF Descend, RestBelow, Graph
    <2> QED
      BY <1>2, <2>1, <2>2 DEF Descend, TypeOK, cacheVars
  <1>3. CASE Backtrack
    <2>1. path' \in Seq(Node) \ {<<>>}
      BY <1>a, <1>3, UpPath DEF Backtrack
    <2> QED
      BY <1>a, <1>3, <2>1 DEF Backtrack, TypeOK, cacheVars
  <1>4. CASE Conclude
    BY <1>4 DEF Conclude, TypeOK, cacheVars
  <1>5. ASSUME NEW x \in Node, Update(x)
        PROVE  TypeOK'
    <2>1. PICK S \in SUBSET Node : /\ graph' = [graph EXCEPT ![x] = S]
                                   /\ kept' = [kept EXCEPT ![x] = @ \cap S]
                                   /\ ever' \in {ever, [ever EXCEPT ![x] = @ \cup S]}
      BY <1>5 DEF Update
    <2>2. graph' \in Graph /\ kept' \in Graph /\ ever' \in Graph
      BY <1>a, <2>1 DEF Graph
    <2> QED
      BY <1>5, <2>2 DEF Update, TypeOK, walkVars
  <1>6. ASSUME NEW x \in Node, Break(x) \/ Mend(x)
        PROVE  TypeOK'
    <2>1. ever' \in Graph
      BY <1>a, <1>6 DEF Break, Mend, Graph
    <2> QED
      BY <1>6, <2>1 DEF Break, Mend, TypeOK, walkVars
  <1>7. CASE UNCHANGED vars
    BY <1>7 DEF vars, walkVars, cacheVars, TypeOK
  <1> QED
    BY <1>1, <1>2, <1>3, <1>4, <1>5, <1>6, <1>7 DEF Next, Walk

\* The walk never leaves the source behind: the path it came by always holds it.
THEOREM WalkTypeCorrect == Spec => []TypeOK
  BY InitType, NextType, PTL DEF Spec

-----------------------------------------------------------------------------
(* The inductive invariant, in three parts *)

\* The path begins at the source and holds no workload twice.
PathIsSimple ==
  /\ path[1] = Source
  /\ \A i, j \in 1..Len(path) : path[i] = path[j] => i = j

\* What the ghosts say of the cache.
GhostsAgree ==
  /\ \A x \in Node : kept[x] \subseteq graph[x]
  /\ \A x \in readable \cup {Source} : graph[x] \subseteq ever[x]
  /\ broken \cap readable = {}
  /\ Node \ readable \subseteq dubious

Base == PathIsSimple /\ GhostsAgree

\* No lasting edge of the path has been overlooked: it leads to a workload that is done,
\* is still to be visited, or is the next on the path.
Followed ==
  \A i \in 1..Len(path) : \A y \in kept[path[i]] :
    y \in done \/ y \in rest[path[i]] \/ (i < Len(path) /\ y = path[i + 1])

\* No lasting edge leads out of what is done, or from there to the source, and each
\* workload that is done can reach only others, which never lead back to it.
DoneIsAcyclic ==
  /\ Source \notin done
  /\ Closed(kept, done)
  /\ \A x \in done : \E D \in SUBSET done : Closed(kept, D) /\ kept[x] \subseteq D /\ x \notin D

DoneIsReadable ==
  /\ done \cap broken = {}
  /\ \A i \in 2..Len(path) : path[i] \notin broken

NoneIsTheEnd == verdict = "none" => Len(path) = 1 /\ rest[Source] = {}

Accounted == Followed /\ DoneIsAcyclic /\ DoneIsReadable /\ NoneIsTheEnd

\* Along edges that have been there, the source leads to each workload on the path, and
\* each of those to the ones after it.
PathIsReached ==
  \A i \in 1..Len(path) :
    /\ rest[path[i]] \subseteq ever[path[i]]
    /\ path[i] \in Reach(ever, {Source})
    /\ \A j \in 1..Len(path) : j < i => path[i] \in Reach(ever, ever[path[j]])

Founded == PathIsReached /\ CycleMeansCycle /\ ErrorMeansUnreadable

-----------------------------------------------------------------------------
(* The base *)

LEMMA DescendBase ==
  ASSUME TypeOK, Base, NEW d \in Node, Descend(d)
  PROVE  Base'
  <1>1. /\ path' \in Seq(Node) \ {<<>>} /\ Len(path) \in Nat /\ 1 \in 1..Len(path)
        /\ Len(path') = Len(path) + 1
        /\ \A i \in 1..Len(path) : path'[i] = path[i]
        /\ path'[Len(path) + 1] = d
    BY DownPath, PathType DEF Descend, TypeOK
  <1>2. \A i \in 1..Len(path) : path[i] # d
    BY DEF Descend, Closes, OnPath
  <1>3. path'[1] = Source
    BY <1>1 DEF Base, PathIsSimple
  <1>4. ASSUME NEW i \in 1..Len(path'), NEW j \in 1..Len(path'), path'[i] = path'[j]
        PROVE  i = j
    <2>1. i \in 1..Len(path) \/ i = Len(path) + 1
      BY <1>1
    <2>2. j \in 1..Len(path) \/ j = Len(path) + 1
      BY <1>1
    <2>3. CASE i \in 1..Len(path) /\ j \in 1..Len(path)
      BY <1>1, <1>4, <2>3 DEF Base, PathIsSimple
    <2> QED
      BY <1>1, <1>2, <1>4, <2>1, <2>2, <2>3
  <1>5. GhostsAgree'
    BY DEF Descend, cacheVars, Base, GhostsAgree
  <1> QED
    BY <1>3, <1>4, <1>5 DEF Base, PathIsSimple

LEMMA BacktrackBase ==
  ASSUME TypeOK, Base, Backtrack
  PROVE  Base'
  <1>1. /\ Len(path) \in Nat /\ Len(path) > 1
        /\ Len(path') = Len(path) - 1
        /\ \A i \in 1..(Len(path) - 1) : path'[i] = path[i]
    BY UpPath, PathType DEF Backtrack, TypeOK
  <1>2. PathIsSimple'
    BY <1>1 DEF Base, PathIsSimple
  <1>3. GhostsAgree'
    BY DEF Backtrack, cacheVars, Base, GhostsAgree
  <1> QED
    BY <1>2, <1>3 DEF Base

CacheChanges(x) == Update(x) \/ Break(x) \/ Mend(x)

\* A change of the cache takes lasting edges away and adds to those that have been.
LEMMA CacheGhosts ==
  ASSUME TypeOK, NEW x \in Node, CacheChanges(x)
  PROVE  /\ kept' \in Graph /\ ever' \in Graph
         /\ \A y \in Node : kept'[y] \subseteq kept[y] /\ ever[y] \subseteq ever'[y]
         /\ broken' \subseteq broken /\ dubious \subseteq dubious'
         /\ UNCHANGED <<path, rest, verdict, done>>
         /\ GhostsAgree => GhostsAgree'
  <1>1. kept \in Graph /\ ever \in Graph /\ graph \in Graph
    BY DEF TypeOK
  <1>2. CASE Update(x)
    <2>1. PICK S \in SUBSET Node :
            /\ graph' = [graph EXCEPT ![x] = S]
            /\ kept' = [kept EXCEPT ![x] = @ \cap S]
            /\ ever' = IF x \in readable THEN [ever EXCEPT ![x] = @ \cup S] ELSE ever
      BY <1>2 DEF Update
    <2>2. \A y \in Node : kept'[y] \subseteq kept[y] /\ ever[y] \subseteq ever'[y]
      BY <1>1, <2>1 DEF Graph
    <2>3. kept' \in Graph /\ ever' \in Graph
      BY <1>1, <2>1 DEF Graph
    <2>4. UNCHANGED <<readable, broken, dubious, path, rest, verdict, done>> /\ x # Source
      BY <1>2 DEF Update, walkVars
    <2>5. ASSUME GhostsAgree PROVE GhostsAgree'
      <3>1. \A y \in Node : kept'[y] \subseteq graph'[y]
        BY <1>1, <2>1, <2>5 DEF Graph, GhostsAgree
      <3>2. \A y \in readable \cup {Source} : graph'[y] \subseteq ever'[y]
        BY <1>1, <2>1, <2>4, <2>5, SourceAssumption DEF Graph, GhostsAgree, TypeOK
      <3> QED
        BY <2>4, <2>5, <3>1, <3>2 DEF GhostsAgree
    <2> QED
      BY <2>2, <2>3, <2>4, <2>5
  <1>3. CASE Break(x)
    BY <1>1, <1>3 DEF Break, walkVars, GhostsAgree
  <1>4. CASE Mend(x)
    <2>1. ever' = [ever EXCEPT ![x] = @ \cup graph[x]]
      BY <1>4 DEF Mend
    <2>2. ever' \in Graph /\ \A y \in Node : ever[y] \subseteq ever'[y]
      BY <1>1, <2>1 DEF Graph
    <2>3. /\ readable' = readable \cup {x} /\ broken' = broken \ {x}
          /\ UNCHANGED <<graph, kept, dubious, path, rest, verdict, done>>
      BY <1>4 DEF Mend, walkVars
    <2>4. ASSUME GhostsAgree PROVE GhostsAgree'
      <3>1. \A y \in readable' \cup {Source} : graph[y] \subseteq ever'[y]
        <4>1. graph[x] \subseteq ever'[x]
          BY <1>1, <2>1 DEF Graph
        <4> QED
          BY <2>2, <2>3, <2>4, <4>1, SourceAssumption DEF GhostsAgree, TypeOK
      <3> QED
        BY <2>3, <2>4, <3>1 DEF GhostsAgree
    <2> QED
      BY <1>1, <2>2, <2>3, <2>4
  <1> QED
    BY <1>2, <1>3, <1>4 DEF CacheChanges

LEMMA NextBase == TypeOK /\ Base /\ [Next]_vars => Base'
  <1> SUFFICES ASSUME TypeOK, Base, [Next]_vars PROVE Base'
    OBVIOUS
  <1>1. ASSUME NEW d \in Node, FindCycle(d) \/ FindError(d)
        PROVE  Base'
    BY <1>1 DEF FindCycle, FindError, cacheVars, Base, PathIsSimple, GhostsAgree
  <1>2. CASE Conclude
    BY <1>2 DEF Conclude, cacheVars, Base, PathIsSimple, GhostsAgree
  <1>3. ASSUME NEW x \in Node, CacheChanges(x)
        PROVE  Base'
    BY <1>3, CacheGhosts DEF Base, PathIsSimple
  <1>4. CASE UNCHANGED vars
    BY <1>4 DEF vars, walkVars, cacheVars, Base, PathIsSimple, GhostsAgree
  <1> QED
    BY <1>1, <1>2, <1>3, <1>4, DescendBase, BacktrackBase DEF Next, Walk, CacheChanges

LEMMA InitBase == Init => Base
  <1> SUFFICES ASSUME Init PROVE Base
    OBVIOUS
  <1>1. \A x \in readable \cup {Source} : graph[x] \subseteq ever[x]
    BY SourceAssumption DEF Init, Legible
  <1> QED
    BY <1>1 DEF Init, Base, PathIsSimple, GhostsAgree

-----------------------------------------------------------------------------
(* "No cycle" *)

LEMMA DescendAccounted ==
  ASSUME TypeOK, Base, Accounted, NEW d \in Node, Descend(d)
  PROVE  Accounted'
  <1> DEFINE n == Len(path)
  <1>1. /\ n \in Nat /\ n \in 1..n
        /\ Len(path') = n + 1
        /\ \A i \in 1..n : path'[i] = path[i] /\ path[i] \in Node
        /\ path'[n + 1] = d
    BY DownPath, PathType DEF Descend, TypeOK
  <1>2. \A i \in 1..n : path[i] # d
    BY DEF Descend, Closes, OnPath
  <1>3. \A i \in 1..n : i # n => path[i] # Here
    BY <1>1 DEF Here, Base, PathIsSimple
  <1>4. /\ rest'[d] = graph[d]
        /\ rest'[Here] = rest[Here] \ {d}
        /\ \A x \in Node : x # d /\ x # Here => rest'[x] = rest[x]
    <2>1. rest' = [rest EXCEPT ![Here] = @ \ {d}, ![d] = graph[d]]
      BY DEF Descend, RestBelow
    <2>2. rest \in [Node -> SUBSET Node] /\ Here \in Node /\ d # Here
      BY <1>1, <1>2 DEF TypeOK, Graph, Here
    <2> QED
      BY <2>1, <2>2
  <1>5. UNCHANGED <<kept, done, broken, verdict>> /\ d \in readable /\ verdict = "walking"
    BY DEF Descend, cacheVars
  <1>6. Followed'
    <2> SUFFICES ASSUME NEW i \in 1..(n + 1), NEW y \in kept[path'[i]]
                 PROVE  \/ y \in done \/ y \in rest'[path'[i]]
                        \/ i < n + 1 /\ y = path'[i + 1]
      BY <1>1, <1>5 DEF Followed
    <2>1. CASE i = n + 1
      BY <1>1, <1>4, <2>1 DEF Base, GhostsAgree
    <2>2. CASE i = n
      <3>1. path'[i] = Here /\ (y \in done \/ y \in rest[Here])
        BY <1>1, <2>2 DEF Accounted, Followed, Here
      <3> QED
        BY <1>1, <1>4, <2>2, <3>1
    <2>3. CASE i < n
      <3>1. i \in 1..n /\ i + 1 \in 1..n
        BY <1>1, <2>3
      <3>2. path'[i] = path[i] /\ path'[i + 1] = path[i + 1] /\ rest'[path[i]] = rest[path[i]]
        BY <1>1, <1>2, <1>3, <1>4, <2>3, <3>1
      <3>3. y \in done \/ y \in rest[path[i]] \/ y = path[i + 1]
        BY <3>1, <3>2 DEF Accounted, Followed
      <3> QED
        BY <2>3, <3>2, <3>3, <1>1
    <2> QED
      BY <1>1, <2>1, <2>2, <2>3
  <1>7. DoneIsAcyclic'
    BY <1>5 DEF Accounted, DoneIsAcyclic
  <1>8. DoneIsReadable'
    <2> SUFFICES ASSUME NEW i \in 2..(n + 1) PROVE path'[i] \notin broken
      BY <1>1, <1>5 DEF Accounted, DoneIsReadable
    <2>1. CASE i = n + 1
      BY <1>1, <1>5, <2>1 DEF Base, GhostsAgree
    <2>2. CASE i # n + 1
      <3>1. i \in 2..n /\ i \in 1..n
        BY <1>1, <2>2
      <3> QED
        BY <1>1, <3>1 DEF Accounted, DoneIsReadable
    <2> QED
      BY <2>1, <2>2
  <1>9. NoneIsTheEnd'
    BY <1>5 DEF NoneIsTheEnd
  <1> QED
    BY <1>6, <1>7, <1>8, <1>9 DEF Accounted

LEMMA BacktrackAccounted ==
  ASSUME TypeOK, Base, Accounted, Backtrack
  PROVE  Accounted'
  <1> DEFINE n == Len(path)
             h == Here
  <1>1. /\ n \in Nat /\ n > 1 /\ n \in 1..n /\ h \in Node
        /\ Len(path') = n - 1
        /\ \A i \in 1..(n - 1) : path'[i] = path[i]
    BY UpPath, PathType DEF Backtrack, TypeOK
  <1>2. UNCHANGED <<kept, rest, broken, verdict>> /\ rest[h] = {} /\ done' = done \cup {h}
        /\ verdict = "walking"
    BY DEF Backtrack, cacheVars
  <1>3. h # Source /\ h \notin broken
    <2>1. h = path[n] /\ n \in 2..n /\ 1 \in 1..n
      BY <1>1 DEF Here
    <2> QED
      BY <1>1, <2>1 DEF Base, PathIsSimple, Accounted, DoneIsReadable
  <1>4. kept[h] \subseteq done
    <2> SUFFICES ASSUME NEW y \in kept[h] PROVE y \in done
      OBVIOUS
    <2>1. h = path[n]
      BY DEF Here
    <2> QED
      BY <1>1, <1>2, <2>1 DEF Accounted, Followed
  <1>5. Followed'
    <2> SUFFICES ASSUME NEW i \in 1..(n - 1), NEW y \in kept[path[i]]
                 PROVE  \/ y \in done' \/ y \in rest[path[i]]
                        \/ i < n - 1 /\ y = path'[i + 1]
      BY <1>1, <1>2 DEF Followed
    <2>1. i \in 1..n /\ (y \in done \/ y \in rest[path[i]] \/ y = path[i + 1])
      BY <1>1 DEF Accounted, Followed
    <2>2. CASE i = n - 1
      <3>1. path[i + 1] = h
        BY <1>1, <2>2 DEF Here
      <3> QED
        BY <1>2, <2>1, <3>1
    <2>3. CASE i < n - 1
      <3>1. path'[i + 1] = path[i + 1]
        BY <1>1, <2>3
      <3> QED
        BY <1>2, <2>1, <2>3, <3>1
    <2> QED
      BY <1>1, <2>2, <2>3
  <1>6. DoneIsAcyclic'
    <2>1. Source \notin done'
      BY <1>2, <1>3 DEF Accounted, DoneIsAcyclic
    <2>2. Closed(kept, done')
      BY <1>2, <1>4 DEF Accounted, DoneIsAcyclic, Closed
    <2>3. ASSUME NEW x \in done'
          PROVE  \E D \in SUBSET done' : Closed(kept, D) /\ kept[x] \subseteq D /\ x \notin D
      <3>1. CASE x \in done
        <4>1. PICK D \in SUBSET done : Closed(kept, D) /\ kept[x] \subseteq D /\ x \notin D
          BY <3>1 DEF Accounted, DoneIsAcyclic
        <4> QED
          BY <1>2, <4>1
      <3>2. CASE x \notin done
        <4>1. x = h /\ Closed(kept, done)
          BY <1>2, <3>2 DEF Accounted, DoneIsAcyclic
        <4>2. done \in SUBSET done'
          BY <1>2
        <4> QED
          BY <1>4, <3>2, <4>1, <4>2
      <3> QED
        BY <3>1, <3>2
    <2> QED
      BY <1>2, <2>1, <2>2, <2>3 DEF DoneIsAcyclic
  <1>7. DoneIsReadable'
    <2>1. done' \cap broken' = {}
      BY <1>2, <1>3 DEF Accounted, DoneIsReadable
    <2>2. \A i \in 2..(n - 1) : path'[i] \notin broken
      BY <1>1 DEF Accounted, DoneIsReadable
    <2> QED
      BY <1>1, <1>2, <2>1, <2>2 DEF DoneIsReadable
  <1>8. NoneIsTheEnd'
    BY <1>2 DEF NoneIsTheEnd
  <1> QED
    BY <1>5, <1>6, <1>7, <1>8 DEF Accounted

LEMMA NextAccounted == TypeOK /\ Base /\ Accounted /\ [Next]_vars => Accounted'
  <1> SUFFICES ASSUME TypeOK, Base, Accounted, [Next]_vars PROVE Accounted'
    OBVIOUS
  <1> USE DEF Accounted, Followed, DoneIsAcyclic, DoneIsReadable, NoneIsTheEnd
  <1>1. ASSUME NEW d \in Node, FindCycle(d) \/ FindError(d)
        PROVE  Accounted'
    BY <1>1 DEF FindCycle, FindError, cacheVars
  <1>2. CASE Conclude
    <2>1. Here = Source
      BY <1>2 DEF Conclude, Here, Base, PathIsSimple
    <2> QED
      BY <1>2, <2>1 DEF Conclude, cacheVars
  <1>3. ASSUME NEW x \in Node, CacheChanges(x)
        PROVE  Accounted'
    <2>1. /\ \A y \in Node : kept'[y] \subseteq kept[y]
          /\ kept' \in Graph /\ kept \in Graph
          /\ broken' \subseteq broken
          /\ UNCHANGED <<path, rest, verdict, done>>
      BY <1>3, CacheGhosts DEF TypeOK
    <2>2. \A i \in 1..Len(path) : path[i] \in Node
      BY PathType DEF TypeOK
    <2>3. Followed'
      BY <2>1, <2>2
    <2>4. \A D \in SUBSET Node : Closed(kept, D) => Closed(kept', D)
      BY <2>1 DEF Closed, Graph
    <2>5. DoneIsAcyclic'
      <3>1. done \subseteq Node /\ Closed(kept', done)
        BY <2>4 DEF TypeOK
      <3>2. ASSUME NEW y \in done
            PROVE  \E D \in SUBSET done : Closed(kept', D) /\ kept'[y] \subseteq D /\ y \notin D
        <4>1. PICK D \in SUBSET done : Closed(kept, D) /\ kept[y] \subseteq D /\ y \notin D
          OBVIOUS
        <4> QED
          BY <2>1, <2>4, <3>1, <4>1
      <3> QED
        BY <2>1, <3>1, <3>2
    <2> QED
      BY <2>1, <2>3, <2>5
  <1>4. CASE UNCHANGED vars
    BY <1>4 DEF vars, walkVars, cacheVars
  <1> QED
    BY <1>1, <1>2, <1>3, <1>4, DescendAccounted, BacktrackAccounted
    DEF Next, Walk, CacheChanges

LEMMA InitAccounted == Init => Accounted
  <1> SUFFICES ASSUME Init PROVE Accounted
    OBVIOUS
  <1>1. path = <<Source>> /\ Len(path) = 1 /\ rest[Source] = kept[Source] /\ done = {}
        /\ verdict = "walking"
    BY SourceAssumption DEF Init
  <1>2. Followed
    BY <1>1 DEF Followed
  <1>3. DoneIsAcyclic /\ DoneIsReadable /\ NoneIsTheEnd
    BY <1>1 DEF DoneIsAcyclic, DoneIsReadable, NoneIsTheEnd, Closed
  <1> QED
    BY <1>2, <1>3 DEF Accounted

LEMMA AccountedIsAcyclic ==
  ASSUME TypeOK, Base, Accounted
  PROVE  NoneMeansAcyclic
  <1> SUFFICES ASSUME verdict = "none"
               PROVE  /\ ~ReachesCycle(kept, Source)
                      /\ Reach(kept, kept[Source]) \cap broken = {}
    BY DEF NoneMeansAcyclic
  <1>1. kept \in Graph /\ kept[Source] \in SUBSET Node /\ done \in SUBSET Node
    BY SourceAssumption DEF TypeOK, Graph
  <1>2. Closed(kept, done) /\ Source \notin done /\ done \cap broken = {}
    BY DEF Accounted, DoneIsAcyclic, DoneIsReadable
  <1>3. kept[Source] \subseteq done
    <2>1. Len(path) = 1 /\ rest[Source] = {} /\ path[1] = Source
      BY DEF Accounted, NoneIsTheEnd, Base, PathIsSimple
    <2> QED
      BY <2>1 DEF Accounted, Followed
  <1>4. Reach(kept, kept[Source]) \subseteq done
    BY <1>1, <1>2, <1>3, ReachWithin
  <1>5. ASSUME NEW y \in Reach(kept, {Source}), OnCycle(kept, y)
        PROVE  FALSE
    <2>1. y \in Reach(kept, kept[y]) /\ y \in Node
      BY <1>1, <1>5, SourceAssumption, ReachIsLeast DEF OnCycle
    <2>2. y \in done \cup {Source}
      <3>1. Closed(kept, done \cup {Source})
        BY <1>2, <1>3 DEF Closed
      <3> QED
        BY <1>1, <3>1, SourceAssumption, ReachWithin
    <2>3. CASE y = Source
      BY <1>2, <1>4, <2>1, <2>3
    <2>4. CASE y \in done
      <3>1. PICK D \in SUBSET done : Closed(kept, D) /\ kept[y] \subseteq D /\ y \notin D
        BY <2>4 DEF Accounted, DoneIsAcyclic
      <3>2. kept[y] \in SUBSET Node /\ D \in SUBSET Node
        BY <1>1, <2>1 DEF Graph
      <3>3. Reach(kept, kept[y]) \subseteq D
        BY <1>1, <3>1, <3>2, ReachWithin
      <3> QED
        BY <2>1, <3>1, <3>3
    <2> QED
      BY <2>2, <2>3, <2>4
  <1> QED
    BY <1>2, <1>4, <1>5 DEF ReachesCycle

\* When checkCycle finds no cycle, on a graph of any size and while the annotations of
\* any workloads change under it any number of times, then no cycle can be reached
\* through dependencies that lasted, and nothing unreadable either.
THEOREM NoCycleIsTrue == Spec => []NoneMeansAcyclic
  BY InitType, NextType, InitBase, NextBase, InitAccounted, NextAccounted,
     AccountedIsAcyclic, PTL DEF Spec

-----------------------------------------------------------------------------
(* "Cycle" and "error" *)

\* What lies ahead of the walk is within the reach of every workload it came by.
LEMMA AheadIsReached ==
  ASSUME TypeOK, Base, PathIsReached, NEW d \in rest[Here]
  PROVE  /\ d \in Node
         /\ d \in Reach(ever, {Source})
         /\ \A j \in 1..Len(path) : d \in Reach(ever, ever[path[j]])
  <1> DEFINE n == Len(path)
  <1>1. /\ ever \in Graph /\ rest \in Graph /\ Here \in Node /\ n \in Nat /\ n \in 1..n
        /\ \A i \in 1..n : path[i] \in Node
    BY PathType DEF TypeOK
  <1>2. d \in ever[Here] /\ Here = path[n] /\ d \in Node
    BY <1>1 DEF PathIsReached, Here, Graph
  <1>3. {Source} \in SUBSET Node /\ Here \in Reach(ever, {Source})
    BY <1>1, <1>2, SourceAssumption DEF PathIsReached
  <1>4. d \in Reach(ever, {Source})
    BY <1>1, <1>2, <1>3, ReachStep
  <1>5. ASSUME NEW j \in 1..n
        PROVE  d \in Reach(ever, ever[path[j]])
    <2>1. ever[path[j]] \in SUBSET Node
      BY <1>1 DEF Graph
    <2>2. CASE j = n
      BY <1>1, <1>2, <2>1, <2>2, ReachStart
    <2>3. CASE j < n
      <3>1. Here \in Reach(ever, ever[path[j]])
        BY <1>1, <1>2, <2>3 DEF PathIsReached
      <3> QED
        BY <1>1, <1>2, <2>1, <3>1, ReachStep
    <2> QED
      BY <1>1, <2>2, <2>3
  <1> QED
    BY <1>2, <1>4, <1>5

LEMMA DescendFounded ==
  ASSUME TypeOK, Base, PathIsReached, NEW d \in Node, Descend(d)
  PROVE  PathIsReached'
  <1> DEFINE n == Len(path)
  <1>1. /\ n \in Nat /\ n \in 1..n
        /\ Len(path') = n + 1
        /\ \A i \in 1..n : path'[i] = path[i] /\ path[i] \in Node
        /\ path'[n + 1] = d
    BY DownPath, PathType DEF Descend, TypeOK
  <1>2. /\ rest'[d] = graph[d]
        /\ \A x \in Node : x # d => rest'[x] \subseteq rest[x]
    <2>1. rest' = [rest EXCEPT ![Here] = @ \ {d}, ![d] = graph[d]]
      BY DEF Descend, RestBelow
    <2>2. rest \in [Node -> SUBSET Node] /\ Here \in Node
      BY <1>1 DEF TypeOK, Graph, Here
    <2> QED
      BY <2>1, <2>2
  <1>3. UNCHANGED ever /\ d \in rest[Here] /\ graph[d] \subseteq ever[d]
    BY DEF Descend, cacheVars, Base, GhostsAgree
  <1> SUFFICES ASSUME NEW i \in 1..(n + 1)
               PROVE  /\ rest'[path'[i]] \subseteq ever[path'[i]]
                      /\ path'[i] \in Reach(ever, {Source})
                      /\ \A j \in 1..(n + 1) : j < i => path'[i] \in Reach(ever, ever[path'[j]])
    BY <1>1, <1>3 DEF PathIsReached
  <1>4. CASE i = n + 1
    <2>1. path'[i] = d /\ \A j \in 1..(n + 1) : j < i => j \in 1..n /\ path'[j] = path[j]
      BY <1>1, <1>4
    <2> QED
      BY <1>2, <1>3, <2>1, AheadIsReached
  <1>5. CASE i # n + 1
    <2>1. i \in 1..n /\ \A j \in 1..(n + 1) : j < i => j \in 1..n /\ path'[j] = path[j]
      BY <1>1, <1>5
    <2>2. path[i] # d
      BY <2>1 DEF Descend, Closes, OnPath
    <2>3. rest'[path[i]] \subseteq ever[path[i]]
      BY <1>1, <1>2, <2>1, <2>2 DEF PathIsReached
    <2> QED
      BY <1>1, <2>1, <2>3 DEF PathIsReached
  <1> QED
    BY <1>4, <1>5

LEMMA CacheFounded ==
  ASSUME TypeOK, Base, Founded, NEW x \in Node, CacheChanges(x)
  PROVE  Founded'
  <1> DEFINE n == Len(path)
  <1>1. /\ ever \in Graph /\ ever' \in Graph
        /\ \A y \in Node : ever[y] \subseteq ever'[y]
        /\ dubious \subseteq dubious'
        /\ UNCHANGED <<path, rest, verdict>>
    BY CacheGhosts DEF TypeOK
  <1>2. /\ \A i \in 1..n : path[i] \in Node
        /\ {Source} \in SUBSET Node
    BY PathType, SourceAssumption DEF TypeOK
  <1>3. \A y \in Node : ever[y] \in SUBSET Node /\ ever'[y] \in SUBSET Node
    BY <1>1 DEF Graph
  <1>4. \A y \in Node : Reach(ever, ever[y]) \subseteq Reach(ever', ever'[y])
    BY <1>1, <1>3, ReachGrows
  <1>5. Reach(ever, {Source}) \subseteq Reach(ever', {Source})
    BY <1>1, <1>2, ReachGrows
  <1>6. PathIsReached'
    <2> SUFFICES ASSUME NEW i \in 1..n
                 PROVE  /\ rest[path[i]] \subseteq ever'[path[i]]
                        /\ path[i] \in Reach(ever', {Source})
                        /\ \A j \in 1..n : j < i => path[i] \in Reach(ever', ever'[path[j]])
      BY <1>1 DEF PathIsReached
    <2>1. rest[path[i]] \subseteq ever'[path[i]] /\ path[i] \in Reach(ever', {Source})
      BY <1>1, <1>2, <1>5 DEF Founded, PathIsReached
    <2>2. ASSUME NEW j \in 1..n, j < i PROVE path[i] \in Reach(ever', ever'[path[j]])
      BY <1>2, <1>4, <2>2 DEF Founded, PathIsReached
    <2> QED
      BY <2>1, <2>2
  <1>7. CycleMeansCycle'
    BY <1>1, SourceAssumption, ReachesCycleGrows DEF Founded, CycleMeansCycle
  <1>8. ErrorMeansUnreadable'
    BY <1>1, <1>5 DEF Founded, ErrorMeansUnreadable
  <1> QED
    BY <1>6, <1>7, <1>8 DEF Founded

LEMMA NextFounded == TypeOK /\ Base /\ Founded /\ [Next]_vars => Founded'
  <1> SUFFICES ASSUME TypeOK, Base, Founded, [Next]_vars PROVE Founded'
    OBVIOUS
  <1>a. /\ ever \in Graph /\ Len(path) \in Nat /\ 1 \in 1..Len(path) /\ path[1] = Source
        /\ \A i \in 1..Len(path) : path[i] \in Node
    BY PathType DEF TypeOK, Base, PathIsSimple
  <1>1. ASSUME NEW d \in Node, FindCycle(d)
        PROVE  Founded'
    <2>1. /\ d \in rest[Here] /\ Closes(d) /\ verdict' = "cycle"
          /\ UNCHANGED <<path, rest, ever>>
      BY <1>1 DEF FindCycle, cacheVars
    <2>2. PICK j \in 1..Len(path) : path[j] = d
      BY <1>a, <2>1 DEF Closes, OnPath
    <2>3. d \in Reach(ever, {Source}) /\ d \in Reach(ever, ever[d])
      BY <2>1, <2>2, AheadIsReached DEF Founded
    <2>4. ReachesCycle(ever, Source)
      BY <1>a, <2>3 DEF ReachesCycle, OnCycle, Graph
    <2> QED
      BY <2>1, <2>4 DEF Founded, PathIsReached, CycleMeansCycle, ErrorMeansUnreadable
  <1>2. ASSUME NEW d \in Node, FindError(d)
        PROVE  Founded'
    <2>1. /\ d \in rest[Here] /\ d \notin readable /\ d # Source /\ verdict' = "error"
          /\ UNCHANGED <<path, rest, ever, dubious>>
      BY <1>2 DEF FindError, Closes, cacheVars
    <2>2. d \in Reach(ever, {Source})
      BY <1>a, <2>1, AheadIsReached DEF Founded
    <2>3. d \in dubious
      BY <2>1 DEF Base, GhostsAgree
    <2> QED
      BY <2>1, <2>2, <2>3 DEF Founded, PathIsReached, CycleMeansCycle, ErrorMeansUnreadable
  <1>3. ASSUME NEW d \in Node, Descend(d)
        PROVE  Founded'
    <2>1. verdict' = "walking"
      BY <1>3 DEF Descend
    <2> QED
      BY <1>3, <2>1, DescendFounded DEF Founded, CycleMeansCycle, ErrorMeansUnreadable
  <1>4. CASE Backtrack
    <2>1. /\ Len(path') = Len(path) - 1
          /\ \A i \in 1..(Len(path) - 1) : path'[i] = path[i]
      BY <1>4, UpPath DEF Backtrack, TypeOK
    <2>2. PathIsReached'
      <3> SUFFICES ASSUME NEW i \in 1..(Len(path) - 1)
                   PROVE  /\ rest[path[i]] \subseteq ever[path[i]]
                          /\ path[i] \in Reach(ever, {Source})
                          /\ \A j \in 1..(Len(path) - 1) :
                               j < i => path[i] \in Reach(ever, ever[path[j]])
        BY <1>4, <2>1 DEF PathIsReached, Backtrack, cacheVars
      <3>1. \A k \in 1..(Len(path) - 1) : k \in 1..Len(path)
        BY <1>a
      <3>2. PathIsReached /\ i \in 1..Len(path)
        BY <3>1 DEF Founded
      <3> QED
        BY <3>1, <3>2 DEF PathIsReached
    <2> QED
      BY <1>4, <2>2 DEF Backtrack, Founded, CycleMeansCycle, ErrorMeansUnreadable
  <1>5. CASE Conclude
    BY <1>5 DEF Conclude, cacheVars, Founded, PathIsReached, CycleMeansCycle,
                ErrorMeansUnreadable
  <1>6. CASE UNCHANGED vars
    BY <1>6 DEF vars, walkVars, cacheVars, Founded, PathIsReached, CycleMeansCycle,
                ErrorMeansUnreadable
  <1> QED
    BY <1>1, <1>2, <1>3, <1>4, <1>5, <1>6, CacheFounded DEF Next, Walk, CacheChanges

LEMMA InitFounded == Init => Founded
  <1> SUFFICES ASSUME Init PROVE Founded
    OBVIOUS
  <1>1. /\ path = <<Source>> /\ rest[Source] = ever[Source] /\ verdict = "walking"
        /\ ever \in Graph
    BY SourceAssumption DEF Init, Legible, Graph
  <1>2. Source \in Reach(ever, {Source})
    BY <1>1, SourceAssumption, ReachStart
  <1>3. PathIsReached
    BY <1>1, <1>2 DEF PathIsReached
  <1> QED
    BY <1>1, <1>3 DEF Founded, CycleMeansCycle, ErrorMeansUnreadable

\* checkCycle blames a source for a cycle only if dependencies that were there at some
\* time during the walk lead from the source into one.
THEOREM CycleIsTrue == Spec => []CycleMeansCycle
  <1>1. Founded => CycleMeansCycle
    BY DEF Founded
  <1> QED
    BY <1>1, InitType, NextType, InitBase, NextBase, InitFounded, NextFounded, PTL DEF Spec

\* It fails only if some workload the source led to was missing, or annotated with
\* something that does not parse, at some time during the walk.
THEOREM ErrorIsTrue == Spec => []ErrorMeansUnreadable
  <1>1. Founded => ErrorMeansUnreadable
    BY DEF Founded
  <1> QED
    BY <1>1, InitType, NextType, InitBase, NextBase, InitFounded, NextFounded, PTL DEF Spec

-----------------------------------------------------------------------------
(* A cache that stands still *)

\* Changes are counted down, so until the first of them nothing is lost or added.
Still ==
  /\ changes <= MaxChanges
  /\ changes = MaxChanges => /\ kept = graph /\ ever = Legible
                             /\ broken = Node \ readable /\ dubious = Node \ readable

LEMMA NextStill == TypeOK /\ Still /\ [Next]_vars => Still'
  <1> SUFFICES ASSUME TypeOK, Still, [Next]_vars PROVE Still'
    OBVIOUS
  <1>1. CASE UNCHANGED cacheVars
    BY <1>1 DEF cacheVars, Still, Legible
  <1>2. ASSUME NEW x \in Node, CacheChanges(x)
        PROVE  Still'
    <2>1. changes \in Nat /\ changes' = changes - 1 /\ changes <= MaxChanges
      BY <1>2 DEF CacheChanges, Update, Break, Mend, TypeOK, Still
    <2>2. changes' <= MaxChanges /\ changes' # MaxChanges
      BY <2>1, ChangesAssumption
    <2> QED
      BY <2>2 DEF Still
  <1> QED
    BY <1>1, <1>2 DEF Next, Walk, CacheChanges, FindCycle, FindError, Descend, Backtrack,
                      Conclude, vars

\* Beyond its start a walk gets where it would get from what the start names.
LEMMA ReachBeyond ==
  ASSUME NEW g \in Graph, NEW x \in Node
  PROVE  Reach(g, {x}) \subseteq {x} \cup Reach(g, g[x])
  <1> DEFINE D == {x} \cup Reach(g, g[x])
  <1>1. g[x] \in SUBSET Node
    BY DEF Graph
  <1>2. D \in SUBSET Node /\ g[x] \subseteq D
    BY <1>1, ReachIsLeast, ReachStart
  <1>3. Closed(g, D)
    <2> SUFFICES ASSUME NEW y \in D, NEW z \in g[y] PROVE z \in D
      BY DEF Closed
    <2>1. CASE y = x
      BY <1>2, <2>1
    <2>2. CASE y \in Reach(g, g[x])
      BY <1>1, <2>2, ReachStep
    <2> QED
      BY <2>1, <2>2
  <1> QED
    BY <1>2, <1>3, ReachWithin

LEMMA VerdictsWhenStill ==
  ASSUME TypeOK, Still, NoneMeansAcyclic, CycleMeansCycle, ErrorMeansUnreadable
  PROVE  OneStepWhenStill
  <1> DEFINE cycle == ReachesCycle(Legible, Source)
             error == \E x \in Reach(Legible, {Source}) \ {Source} : x \notin readable
  <1> SUFFICES ASSUME changes = MaxChanges
               PROVE  /\ verdict = "cycle" => cycle
                      /\ verdict = "error" => error
                      /\ verdict = "none" => ~cycle /\ ~error
    BY DEF OneStepWhenStill
  <1>1. /\ kept = graph /\ ever = Legible
        /\ broken = Node \ readable /\ dubious = Node \ readable
    BY DEF Still
  <1>2. verdict = "cycle" => cycle
    BY <1>1 DEF CycleMeansCycle
  <1>3. verdict = "error" => error
    BY <1>1 DEF ErrorMeansUnreadable
  <1>4. ASSUME verdict = "none" PROVE ~cycle /\ ~error
    <2>1. ~ReachesCycle(graph, Source) /\ Reach(graph, graph[Source]) \cap (Node \ readable) = {}
      BY <1>1, <1>4 DEF NoneMeansAcyclic
    <2>2. /\ graph \in Graph /\ Legible \in Graph /\ {Source} \in SUBSET Node
          /\ \A x \in Node : Legible[x] \subseteq graph[x]
      <3>1. graph \in Graph
        BY DEF TypeOK
      <3> QED
        BY <3>1, SourceAssumption DEF Legible, Graph
    <2>3. ~cycle
      BY <2>1, <2>2, SourceAssumption, ReachesCycleGrows
    <2>4. ~error
      <3>1. Reach(Legible, {Source}) \subseteq Reach(graph, {Source})
        BY <2>2, ReachGrows
      <3>2. Reach(graph, {Source}) \subseteq {Source} \cup Reach(graph, graph[Source])
        BY <2>2, SourceAssumption, ReachBeyond
      <3>3. Reach(graph, {Source}) \subseteq Node
        BY <2>2, ReachIsLeast
      <3> QED
        BY <2>1, <3>1, <3>2, <3>3
    <2> QED
      BY <2>3, <2>4
  <1> QED
    BY <1>2, <1>3, <1>4

\* In a cache that stands still the walk agrees with the one step that Reconciler takes
\* for it, on every graph: what is proved of Reconciler does not hang on that shortcut,
\* but for changes of the cache during the walk.
THEOREM StillWalkIsOneStep == Spec => []OneStepWhenStill
  <1>1. Init => Still
    BY ChangesAssumption DEF Init, Still
  <1> QED
    BY <1>1, InitType, NextType, NextStill, VerdictsWhenStill, NoCycleIsTrue, CycleIsTrue,
       ErrorIsTrue, PTL DEF Spec

=============================================================================
