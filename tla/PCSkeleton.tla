------------------------------ MODULE PCSkeleton ------------------------------
(***************************************************************************)
(* ContinuousPC::inferSkeleton: starting from the complete graph, each     *)
(* edge whose ends some conditioning set separates is removed.             *)
(*                                                                         *)
(* One step visits one edge, the body of the loop of testCondSetWithSize   *)
(* (PCSearch details the loop of getSeparator inside it).  Edges are       *)
(* visited in the order of a hash set, so in any order; which of several   *)
(* separators of one size is met first depends on the order of another     *)
(* one, so it is any of them.                                              *)
(***************************************************************************)
EXTENDS PCData

CONSTANT Samples  \* the samples under study

ASSUME SamplesAssumption == Samples \subseteq Sample

VARIABLES
  sample,         \* the results of the tests, fixed
  size,           \* n, the size of the conditioning sets
  graph,          \* the edges of g
  intersections,  \* common neighbours of the edges still to visit at this size
  sepset,         \* sepset_
  pvalues,        \* pvalues_
  ttests,         \* ttests_
  removed         \* removed_

vars == <<sample, size, graph, intersections, sepset, pvalues, ttests, removed>>

\* f with x mapped to v: EdgeProperty::set.
Set(f, x, v) == [y \in DOMAIN f \cup {x} |-> IF y = x THEN v ELSE f[y]]

\* getWithDefault.
Get(f, x, default) == IF x \in DOMAIN f THEN f[x] ELSE default

Larger(a, b) == IF a < b THEN b ELSE a

\* Mutant: the conditioning nodes need not be neighbours.
SnapshotAnyNodes(g, n) ==
  [e \in {f \in g : n < MaxCondSet} |-> Node \ e]

\* The first loop of testCondSetWithSize, at a size that is searched: the
\* edges with enough common neighbours, and these, as they are now.
Snapshot(g, n) ==
  [e \in {f \in g : n < MaxCondSet /\ Cardinality(Common(g, f)) >= n} |-> Common(g, e)]

Init ==
  /\ sample \in Samples
  /\ size = 0
  /\ graph = Edge
  /\ intersections = Snapshot(Edge, 0)
  /\ sepset = <<>> /\ pvalues = <<>> /\ ttests = <<>> /\ removed = {}

Visited(e) == intersections' = [f \in DOMAIN intersections \ {e} |-> intersections[f]]

\* Mutant: separators come from the neighbours left, not those at the start.
SeparatorsNow(e) ==
  {S \in Subsets(Common(graph, e), size) : Independent(sample[e][S])}

\* The sets with which getSeparator can return true.
Separators(e) ==
  {S \in Subsets(intersections[e], size) : Independent(sample[e][S])}

\* Mutant: the statistic of the separating test is not recorded.
SeparateKeepTTest(e) ==
  /\ e \in DOMAIN intersections
  /\ \E S \in Separators(e) :
       /\ sepset' = Set(sepset, e, S)
       /\ pvalues' = Set(pvalues, e, PValue(sample[e][S]))
       /\ ttests' = Set(ttests, e, Get(ttests, e, sample[e][S]))
  /\ removed' = removed \cup {e}
  /\ graph' = graph \ {e}
  /\ Visited(e)
  /\ UNCHANGED <<sample, size>>

\* Mutant: a removed edge is reported without its separator.
SeparateUnrecorded(e) ==
  /\ e \in DOMAIN intersections
  /\ \E S \in Separators(e) :
       /\ sepset' = IF S = {} THEN sepset ELSE Set(sepset, e, S)
       /\ pvalues' = Set(pvalues, e, PValue(sample[e][S]))
       /\ ttests' = Set(ttests, e, sample[e][S])
  /\ removed' = removed \cup {e}
  /\ graph' = graph \ {e}
  /\ Visited(e)
  /\ UNCHANGED <<sample, size>>

\* A separator is found: the edge goes, with the test that removed it.
Separate(e) ==
  /\ e \in DOMAIN intersections
  /\ \E S \in Separators(e) :
       /\ sepset' = Set(sepset, e, S)
       /\ pvalues' = Set(pvalues, e, PValue(sample[e][S]))
       /\ ttests' = Set(ttests, e, sample[e][S])
  /\ removed' = removed \cup {e}
  /\ graph' = graph \ {e}
  /\ Visited(e)
  /\ UNCHANGED <<sample, size>>

\* The test that getSeparator reports when all call the pair dependent: one
\* of largest p-value.
LargestPValue(e, S) ==
  /\ S \in Subsets(intersections[e], size)
  /\ \A R \in Subsets(intersections[e], size) :
       PValue(sample[e][R]) <= PValue(sample[e][S])

\* Mutant: the last size overwrites the p-value of the earlier ones.
KeepLast(e) ==
  /\ e \in DOMAIN intersections
  /\ Separators(e) = {}
  /\ \E S \in SUBSET Node :
       /\ LargestPValue(e, S)
       /\ pvalues' = Set(pvalues, e, PValue(sample[e][S]))
       /\ ttests' = Set(ttests, e, Larger(Get(ttests, e, -10000), sample[e][S]))
  /\ Visited(e)
  /\ UNCHANGED <<sample, size, graph, sepset, removed>>

\* No separator: the edge stays, and the largest p-value and the largest
\* statistic seen for it are updated, each on its own.
Keep(e) ==
  /\ e \in DOMAIN intersections
  /\ Separators(e) = {}
  /\ \E S \in SUBSET Node :
       /\ LargestPValue(e, S)
       /\ pvalues' = Set(pvalues, e, Larger(Get(pvalues, e, 0), PValue(sample[e][S])))
       /\ ttests' = Set(ttests, e, Larger(Get(ttests, e, -10000), sample[e][S]))
  /\ Visited(e)
  /\ UNCHANGED <<sample, size, graph, sepset, removed>>

\* Mutant: a size is searched again for as long as it removes edges.
NextSizeRepeats ==
  /\ DOMAIN intersections = {}
  /\ size < MaxCondSet
  /\ size' = IF \E e \in DOMAIN sepset : Cardinality(sepset[e]) = size THEN size ELSE size + 1
  /\ intersections' = Snapshot(graph, size')
  /\ UNCHANGED <<sample, graph, sepset, pvalues, ttests, removed>>

\* Every edge was visited at this size.
NextSize ==
  /\ DOMAIN intersections = {}
  /\ size < MaxCondSet
  /\ size' = size + 1
  /\ intersections' = Snapshot(graph, size + 1)
  /\ UNCHANGED <<sample, graph, sepset, pvalues, ttests, removed>>

Finished == size = MaxCondSet

Done == Finished /\ UNCHANGED vars

Next ==
  \/ \E e \in Edge : Separate(e)
  \/ \E e \in Edge : Keep(e)
  \/ NextSize
  \/ Done

\* The search is a sequential loop: it takes its next step as long as it has one.
Fairness == WF_vars(Next)

Spec == Init /\ [][Next]_vars /\ Fairness
-----------------------------------------------------------------------------
\* The type of every variable: the search never goes past its last size, and
\* every property is indexed by edges.
TypeOK ==
  /\ sample \in Sample
  /\ size \in 0..MaxCondSet
  /\ graph \subseteq Edge
  /\ DOMAIN intersections \subseteq graph
  /\ \A e \in DOMAIN intersections : intersections[e] \subseteq Node \ e
  /\ DOMAIN sepset \subseteq Edge
  /\ \A e \in DOMAIN sepset : sepset[e] \subseteq Node \ e
  /\ pvalues \in [DOMAIN pvalues -> Int] /\ DOMAIN pvalues \subseteq Edge
  /\ ttests \in [DOMAIN pvalues -> Int]
  /\ removed \subseteq Edge

\* Each pair of variables is at every moment either still an edge or removed
\* with a separator; inferPDAG and getSepset read the separators of all pairs
\* that are not edges, and getRemoved lists exactly these.
SepsetsCoverRemoved ==
  /\ graph \cap DOMAIN sepset = {}
  /\ graph \cup DOMAIN sepset = Edge
  /\ removed = DOMAIN sepset

\* For a removed edge, getPValue, getTTest and getSepset report one and the
\* same test, and that test called the pair independent.
ReportedTestSeparates ==
  \A e \in DOMAIN sepset :
     /\ ttests[e] = sample[e][sepset[e]]
     /\ pvalues[e] = PValue(ttests[e])
     /\ pvalues[e] >= Alpha

\* When the search ends, each edge it kept has a p-value below the threshold,
\* no smaller than that of any test, at any size searched, given nodes that
\* are still neighbours of both ends.
KeptEdgesDependent ==
  Finished =>
     \A e \in graph, n \in 0..MaxCondSet-1 :
        \A S \in Subsets(Common(graph, e), n) :
           /\ e \in DOMAIN pvalues
           /\ PValue(sample[e][S]) <= pvalues[e]
           /\ pvalues[e] < Alpha

\* What PCOrientation assumes of the separating sets: none of the edges from
\* the pair to its separator was removed at a smaller size.
SeparatorsWereCommonNeighbours ==
  \A e \in DOMAIN sepset :
     \A x \in e, w \in sepset[e] :
        {x, w} \in DOMAIN sepset => Cardinality(sepset[{x, w}]) >= Cardinality(sepset[e])

\* The edges there were when the current size began.
GraphAtSize == graph \cup {e \in DOMAIN sepset : Cardinality(sepset[e]) = size}

\* The skeleton does not depend on the order of the visits: the search
\* implements the sweeps of StablePC.
Stable == INSTANCE StablePC WITH graph <- GraphAtSize
StableSpec == Stable!Spec

\* The search ends.
Terminates == <>Finished

\* The reading of the documentation of learnSkeleton: an edge is kept only if
\* no subset of the neighbours of its ends, of a size that is searched, makes
\* the two independent.
NeighboursDoNotSeparate ==
  Finished =>
     \A e \in graph, n \in 0..MaxCondSet-1 :
        \A S \in Subsets({w \in Node \ e : \E x \in e : {x, w} \in graph}, n) :
           ~Independent(sample[e][S])
=============================================================================
