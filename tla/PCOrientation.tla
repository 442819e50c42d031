---------------------------- MODULE PCOrientation ----------------------------
(***************************************************************************)
(* The orientation step of the PC learner: ContinuousPC::inferPDAG turns   *)
(* the skeleton and the separating sets found by inferSkeleton into a      *)
(* partially directed graph, and deriveMoralGraph moralises it, node by    *)
(* node, for the junction tree.                                            *)
(*                                                                         *)
(* A triplet x - y - z is unordered in its ends: both (x, y, z) and        *)
(* (z, y, x) stand for one entry of the queue, the code enumerating each   *)
(* pair of neighbours of y once.  The queue is ordered by the p-value of   *)
(* the pair of ends; ties are broken in an order nobody controls.          *)
(***************************************************************************)
EXTENDS Naturals, FiniteSets, MixedGraphs

CONSTANTS
  Node,     \* the variables of the sample
  Learned   \* what inferSkeleton may hand over: skeleton, sepset_, pvalues_

Edge == EdgesOver(Node)
Arc == ArcsOver(Node)
Triplet == [ends : Edge, mid : Node]

\* A pair separated by a set of n nodes had all of them as common neighbours
\* when size n began: none of the edges to these nodes had been removed at a
\* smaller size.
FromSkeleton(sep) ==
  \A e \in DOMAIN sep :
     /\ sep[e] \subseteq Node \ e
     /\ \A x \in e, w \in sep[e] :
          {x, w} \in DOMAIN sep => Cardinality(sep[{x, w}]) >= Cardinality(sep[e])

\* A sample has finitely many variables.
ASSUME NodeAssumption == IsFiniteSet(Node)

ASSUME LearnedAssumption ==
  \A l \in Learned :
     /\ l.skeleton \subseteq Edge
     /\ l.sepset \in [Edge \ l.skeleton -> SUBSET Node]
     /\ l.pvalue \in [Edge \ l.skeleton -> Nat]
     /\ FromSkeleton(l.sepset)

VARIABLES
  skeleton,  \* the edges of skel_
  sepset,    \* sepset_: for each removed edge, what separated its ends
  pvalue,    \* pvalues_, for each removed edge
  queue,     \* the triplets waiting to be oriented
  edges,     \* the undirected part of the PDAG
  arcs,      \* the directed part of the PDAG
  moral,     \* the edges of the moral graph
  todo,      \* the nodes deriveMoralGraph has yet to come to
  phase

vars == <<skeleton, sepset, pvalue, queue, edges, arcs, moral, todo, phase>>

\* x - y - z with no edge x - z.
Unshielded(t) ==
  /\ t.mid \notin t.ends
  /\ t.ends \notin skeleton
  /\ \A x \in t.ends : {x, t.mid} \in skeleton

\* Mutant: the orientation rule read the other way round.
VStructuresInSepset ==
  {t \in Triplet :
     /\ Unshielded(t)
     /\ t.ends \in DOMAIN sepset
     /\ t.mid \in sepset[t.ends]}

\* The triplets inferPDAG queues.
VStructures ==
  {t \in Triplet :
     /\ Unshielded(t)
     /\ t.ends \in DOMAIN sepset
     /\ t.mid \notin sepset[t.ends]}

\* x -> y and z -> y.
ArcsOf(t) == {<<x, t.mid>> : x \in t.ends}
\* x - y and z - y.
EdgesOf(t) == {{x, t.mid} : x \in t.ends}

\* Mutant: only the opposite arc is looked for.
BlockedByArc(t) == \E x \in t.ends : <<t.mid, x>> \in arcs

\* Mutant: the directed path is looked for the wrong way.
BlockedBackwards(t) ==
  \E x \in t.ends : <<t.mid, x>> \in arcs \/ DirectedPath(arcs, x, t.mid)

\* The test that makes the loop drop a triplet: an arc or a directed path
\* already leads from y to one of the ends.
Blocked(t) ==
  \E x \in t.ends : <<t.mid, x>> \in arcs \/ DirectedPath(arcs, t.mid, x)

Init ==
  /\ \E l \in Learned :
       /\ skeleton = l.skeleton
       /\ sepset = l.sepset
       /\ pvalue = l.pvalue
  /\ queue = {} /\ edges = {} /\ arcs = {} /\ moral = {} /\ todo = {}
  /\ phase = "collect"

\* The first loop of inferPDAG, and the copy of the skeleton's edges.
CollectTriplets ==
  /\ phase = "collect"
  /\ queue' = VStructures
  /\ edges' = skeleton
  /\ phase' = "orient"
  /\ UNCHANGED <<skeleton, sepset, pvalue, arcs, moral, todo>>

\* Mutant: the queue pops its largest p-value.
PopLargest(t) ==
  /\ phase = "orient"
  /\ t \in queue
  /\ \A u \in queue : pvalue[t.ends] >= pvalue[u.ends]
  /\ queue' = queue \ {t}

\* queue.pop(): a triplet of least p-value.
Pop(t) ==
  /\ phase = "orient"
  /\ t \in queue
  /\ \A u \in queue : pvalue[t.ends] <= pvalue[u.ends]
  /\ queue' = queue \ {t}

SkipTriplet(t) ==
  /\ Pop(t)
  /\ Blocked(t)
  /\ UNCHANGED <<skeleton, sepset, pvalue, edges, arcs, moral, todo, phase>>

\* Mutant: one of the two edges is not erased.
OrientHalfErased(t) ==
  /\ Pop(t)
  /\ ~Blocked(t)
  /\ \E e \in EdgesOf(t) : edges' = edges \ {e}
  /\ arcs' = arcs \cup ArcsOf(t)
  /\ UNCHANGED <<skeleton, sepset, pvalue, moral, todo, phase>>

OrientTriplet(t) ==
  /\ Pop(t)
  /\ ~Blocked(t)
  /\ edges' = edges \ EdgesOf(t)
  /\ arcs' = arcs \cup ArcsOf(t)
  /\ UNCHANGED <<skeleton, sepset, pvalue, moral, todo, phase>>

\* deriveMoralGraph begins with the undirected edges of the PDAG.
DeriveMoralGraph ==
  /\ phase = "orient"
  /\ queue = {}
  /\ moral' = edges
  /\ todo' = Node
  /\ phase' = "moralise"
  /\ UNCHANGED <<skeleton, sepset, pvalue, queue, edges, arcs>>

\* Mutant: two parents are not enough.
MarriagesOfMany(y) ==
  LET parents == Parents(arcs, y)
  IN  {{p[1], p[2]} : p \in {q \in parents \X parents :
         Cardinality(parents) > 2 /\ q[1] # q[2] /\ {q[1], q[2]} \notin edges}}

\* The pairs of parents that are joined: only the undirected edges of the PDAG
\* are looked for, not its arcs.
Marriages(y) ==
  LET parents == Parents(arcs, y)
  IN  {{p[1], p[2]} : p \in {q \in parents \X parents :
         Cardinality(parents) > 1 /\ q[1] # q[2] /\ {q[1], q[2]} \notin edges}}

\* One round of the loop of deriveMoralGraph over the nodes.
MoraliseNode(y) ==
  /\ phase = "moralise"
  /\ y \in todo
  /\ moral' = moral \cup {{p, y} : p \in Parents(arcs, y)} \cup Marriages(y)
  /\ todo' = todo \ {y}
  /\ UNCHANGED <<skeleton, sepset, pvalue, queue, edges, arcs, phase>>

\* The moral graph is complete.
Finished == phase = "moralise" /\ todo = {}

Done == Finished /\ UNCHANGED vars

Next ==
  \/ CollectTriplets
  \/ \E t \in Triplet : SkipTriplet(t)
  \/ \E t \in Triplet : OrientTriplet(t)
  \/ DeriveMoralGraph
  \/ \E y \in Node : MoraliseNode(y)
  \/ Done

Spec == Init /\ [][Next]_vars
-----------------------------------------------------------------------------
\* Every variable keeps its type; in particular the graphs never hold a loop
\* from a node to itself (deriveMoralGraph compares each parent with itself).
TypeOK ==
  /\ skeleton \subseteq Edge
  /\ sepset \in [Edge \ skeleton -> SUBSET Node]
  /\ pvalue \in [Edge \ skeleton -> Nat]
  /\ queue \subseteq Triplet
  /\ edges \subseteq Edge
  /\ arcs \subseteq Arc
  /\ moral \subseteq Edge
  /\ todo \subseteq Node
  /\ phase \in {"collect", "orient", "moralise"}

\* The directed part of the PDAG never holds a cycle, whatever conflicting
\* triplets the tests produced: the two directedPath probes in inferPDAG are
\* made before both arcs are added.
DirectedPartAcyclic == Acyclic(arcs)

\* Orientation neither loses nor invents an adjacency: once the skeleton is
\* copied, each of its edges is either still undirected or is one arc.
AdjacenciesKept ==
  phase # "collect" =>
     /\ edges \cup Undirected(arcs) = skeleton
     /\ edges \cap Undirected(arcs) = {}
     /\ \A a \in arcs : <<a[2], a[1]>> \notin arcs

\* The p-value is a priority: a v-structure that closes no cycle with those of
\* p-values no larger than its own is in the PDAG, whatever else was wanted and
\* however ties were broken.  Only one with a smaller or an equal p-value can
\* keep another out.
PriorityHonoured ==
  Finished =>
     \A t \in VStructures :
        LET before == {u \in VStructures : pvalue[u.ends] <= pvalue[t.ends]}
        IN  Acyclic(UNION {ArcsOf(u) : u \in before}) => ArcsOf(t) \subseteq arcs

\* When inferPDAG ends, a v-structure that the separating sets ask for is
\* missing only if orienting it would have closed a directed cycle.
MissingOnlyIfCyclic ==
  Finished =>
     \A t \in VStructures :
        ArcsOf(t) \subseteq arcs \/ ~Acyclic(arcs \cup ArcsOf(t))

\* The ways to point every edge of the skeleton: those of F from the end
\* CHOOSE picks, the others towards it.
Pointed(F) ==
  LET first(e) == CHOOSE n \in e : TRUE
  IN  {a \in Arc : LET e == {a[1], a[2]}
                   IN  e \in skeleton /\ (e \in F <=> a[1] = first(e))}
Orientations == {Pointed(F) : F \in SUBSET skeleton}

\* The separating sets are those of the DAG G over the skeleton: the middle
\* of an unshielded triplet is in the set exactly when it is no collider of G.
AccountsFor(G) ==
  /\ \A t \in Triplet : Unshielded(t) =>
       (ArcsOf(t) \subseteq G <=> t.mid \notin sepset[t.ends])
  /\ Acyclic(G)

\* If the separating sets are those of some DAG over the skeleton, then
\* inferPDAG orients the DAG's v-structures and nothing else, in whatever
\* order the p-values make it pop them.  Stated the other way round: if it
\* leaves out or adds an arc, no DAG accounts for the separating sets.
RecoversVStructures ==
  Finished =>
     LET colliders == {t \in Triplet : Unshielded(t) /\ t.mid \notin sepset[t.ends]}
     IN  arcs # UNION {ArcsOf(t) : t \in colliders} =>
           ~\E G \in Orientations : AccountsFor(G)

\* The moral graph of a DAG over the skeleton: the skeleton, and each pair of
\* nodes with a common child.
MoralGraph(G) ==
  skeleton \cup {e \in Edge : \E y \in Node : \A x \in e : <<x, y>> \in G}

\* deriveMoralGraph gives the moral graph of every DAG that accounts for the
\* separating sets, though it sees a graph with only part of the arcs: parents
\* that none of these arcs points out, or that it does not marry because an
\* edge joins them, are neighbours already.
MoralGraphOfDAG ==
  Finished =>
     \A G \in Orientations : AccountsFor(G) => moral = MoralGraph(G)
=============================================================================
