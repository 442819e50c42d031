------------------------------- MODULE NamedDAG -------------------------------
(***************************************************************************)
(* A gum::DAG and the lists that NamedDAG derives from it.                 *)
(*                                                                         *)
(* aGrUM keeps the parents of a node in a hash set, here the sequence in   *)
(* which they were inserted.  What a loop over the set lists depends on    *)
(* its buckets: Listing, which is all that is assumed of them.             *)
(***************************************************************************)
EXTENDS Naturals, FiniteSets, SequencesExt

CONSTANTS
  Node,     \* the node ids
  Listing   \* how a hash set lists its members, by their order of insertion

\* The lists of distinct nodes.
Lists == {s \in UNION {[1..n -> Node] : n \in 0..Cardinality(Node)} : IsInjective(s)}

\* A set lists what was inserted, and one filled in the order another lists
\* its members lists them in that same order.
ASSUME ListingAssumption ==
  /\ IsFiniteSet(Node)
  /\ Listing \in [Lists -> Lists]
  /\ \A s \in Lists : ToSet(Listing[s]) = ToSet(s) /\ Listing[Listing[s]] = Listing[s]

\* gum::DAG: the parents of each node as inserted.  aGrUM refuses a cycle, and
\* topologicalOrder gives some list of the nodes with parents before children.
TopologicalOrders(arcs) ==
  {o \in Lists :
     /\ ToSet(o) = DOMAIN arcs
     /\ \A i \in DOMAIN o : ToSet(arcs[o[i]]) \subseteq {o[j] : j \in 1..i-1}}

DAGs(N) == {arcs \in [N -> {s \in Lists : ToSet(s) \subseteq N}] : TopologicalOrders(arcs) # {}}

\* The ids of a DAG from which nodes were erased have holes.
Contiguous(arcs) == DOMAIN arcs = 0..Cardinality(DOMAIN arcs) - 1

\* build_OTrepr_, for one topological order; children_ is for printing only.
BuildRepr(arcs, topo) ==
  [arcs |-> arcs, order |-> topo, parents |-> [n \in DOMAIN arcs |-> Listing[arcs[n]]]]

NamedDAGs(arcs) == {BuildRepr(arcs, topo) : topo \in TopologicalOrders(arcs)}

\* Mutant: load inserts the arcs from the last parent to the first.
ReloadedBackwards(parents) == NamedDAGs([n \in DOMAIN parents |-> Reverse(parents[n])])

\* save keeps the lists of parents; load inserts the arcs by these lists.
Stored(dag) == dag.parents
Reloaded(parents) == NamedDAGs(parents)
=============================================================================
