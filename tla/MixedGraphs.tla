----------------------------- MODULE MixedGraphs -----------------------------
(***************************************************************************)
(* The part of aGrUM's graph classes (gum::UndiGraph, gum::DAG and         *)
(* gum::MixedGraph) that the structure learners rely on.  aGrUM is a       *)
(* library outside the repository: what follows is its contract as the     *)
(* learners use it.                                                        *)
(*                                                                         *)
(* An edge is the set of its two ends, an arc the pair <<tail, head>>, and *)
(* a graph is the set of its edges or of its arcs: adding one that is      *)
(* present and erasing one that is absent change nothing, as in aGrUM.     *)
(* Paths are described by the sets they cannot leave rather than by        *)
(* recursion, so that facts about them can be proved for every graph.      *)
(***************************************************************************)
\* Every arc over the node set N, the edges left when arcs lose their
\* direction, and every edge over N.
ArcsOver(N) == {a \in N \X N : a[1] # a[2]}
Undirected(A) == {{a[1], a[2]} : a \in A}
EdgesOver(N) == Undirected(ArcsOver(N))

ArcNodes(A) == {a[1] : a \in A} \cup {a[2] : a \in A}
Parents(A, y) == {x \in ArcNodes(A) : <<x, y>> \in A}

\* No arc of A leaves S.
ClosedUnder(S, A) == \A a \in A : a[1] \in S => a[2] \in S

\* directedPath(x, y): following arcs from x leads to y.
DirectedPath(A, x, y) ==
  \A S \in SUBSET (ArcNodes(A) \cup {x, y}) :
     x \in S /\ ClosedUnder(S, A) => y \in S

\* No directed cycle: every non-empty set of nodes has one that no arc
\* enters from inside the set.
Acyclic(A) ==
  \A S \in SUBSET ArcNodes(A) :
     S # {} => \E n \in S : \A m \in S : <<m, n>> \notin A
=============================================================================
