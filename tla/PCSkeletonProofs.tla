--------------------------- MODULE PCSkeletonProofs ---------------------------
(***************************************************************************)
(* What the skeleton search guarantees for every sample: any number of     *)
(* variables, any statistics, any bound on the conditioning sets, and any  *)
(* order of the visits.                                                    *)
(*                                                                         *)
(* The key of the argument is GraphAtSize, the edges there were when the   *)
(* size began: it does not change while the size lasts, the conditioning   *)
(* nodes of an edge still to visit are the common neighbours in it, and a  *)
(* visited edge was removed exactly if it was separable in it.             *)
(*                                                                         *)
(* The second part is about the loop inside a visit (PCSearch): the        *)
(* iterator of getSeparator leaves no conditioning set out, so the loop    *)
(* does what PCSkeleton says of a visit, and what the cache forgets is     *)
(* shorter than anything still to be asked for.                            *)
(***************************************************************************)
EXTENDS PCSearch, CommonTheorems

SeparatorsTested == DOMAIN sepset \subseteq DOMAIN pvalues

\* A separator found so far is no larger than the size now searched.
SizesBounded == \A e \in DOMAIN sepset : Cardinality(sepset[e]) <= size

\* The snapshot is that of the graph when the size began.
CommonAtSize ==
  \A e \in DOMAIN intersections : intersections[e] = Common(GraphAtSize, e)

SeparableAtSize(e) ==
  \E S \in Subsets(Common(GraphAtSize, e), size) : Independent(sample[e][S])

\* An edge that is not to be visited any more at this size is settled.
SettledAtSize ==
  size < MaxCondSet =>
     \A e \in GraphAtSize \ DOMAIN intersections : e \in graph <=> ~SeparableAtSize(e)

\* The p-value of an edge still there never reaches the threshold.
KeptBelowAlpha == \A e \in graph \cap DOMAIN pvalues : pvalues[e] < Alpha

\* The part of KeptEdgesDependent that is established so far.
DependentSoFar ==
  \A e \in graph, n \in 0..MaxCondSet-1 :
     n < size \/ (n = size /\ e \notin DOMAIN intersections) =>
        \A S \in Subsets(Common(graph, e), n) :
           /\ e \in DOMAIN pvalues
           /\ PValue(sample[e][S]) <= pvalues[e]

IndInv ==
  /\ TypeOK
  /\ SepsetsCoverRemoved
  /\ ReportedTestSeparates
  /\ SeparatorsWereCommonNeighbours
  /\ SeparatorsTested
  /\ SizesBounded
  /\ CommonAtSize
  /\ SettledAtSize
  /\ KeptBelowAlpha
  /\ DependentSoFar
-----------------------------------------------------------------------------
\* A set of variables is finite.
LEMMA SizeOf ==
  ASSUME NEW S, S \subseteq Node
  PROVE  IsFiniteSet(S) /\ Cardinality(S) \in Nat
BY PCAssumption, FS_Subset, FS_CardinalityType

\* The results of a test are numbers, and a p-value is not negative.
LEMMA TestTyped ==
  ASSUME sample \in Sample, NEW e \in Edge, NEW S \in SUBSET Node
  PROVE  /\ sample[e][S] \in Int
         /\ PValue(sample[e][S]) \in Nat
         /\ Independent(sample[e][S]) <=> PValue(sample[e][S]) >= Alpha
<1>1. sample[e][S] \in Statistic
  BY DEF Sample
<1>2. Scale \in Nat
  BY PCAssumption
<1> QED
  BY <1>1, <1>2 DEF Statistic, PValue, Independent

\* What the snapshot taken at a new size holds, and of the edges it leaves
\* out: they have no conditioning set of that size.
LEMMA SnapshotFacts ==
  ASSUME NEW g, g \subseteq Edge, NEW n \in Nat
  PROVE  /\ DOMAIN Snapshot(g, n) \subseteq g
         /\ n = MaxCondSet => DOMAIN Snapshot(g, n) = {}
         /\ \A e \in DOMAIN Snapshot(g, n) : Snapshot(g, n)[e] = Common(g, e)
         /\ \A e \in g \ DOMAIN Snapshot(g, n) :
               n < MaxCondSet => Subsets(Common(g, e), n) = {}
<1>1. MaxCondSet \in Nat
  BY PCAssumption
<1>2. ASSUME NEW e \in g, n < MaxCondSet, ~(Cardinality(Common(g, e)) >= n),
             NEW S \in Subsets(Common(g, e), n)
      PROVE  FALSE
  <2>1. Common(g, e) \subseteq Node /\ S \subseteq Common(g, e) /\ Cardinality(S) = n
    BY DEF Common, Subsets
  <2>2. IsFiniteSet(Common(g, e)) /\ Cardinality(Common(g, e)) \in Nat
    BY <2>1, SizeOf
  <2>3. Cardinality(S) <= Cardinality(Common(g, e))
    BY <2>1, <2>2, FS_Subset
  <2> QED
    BY <1>2, <2>1, <2>2, <2>3
<1> QED
  BY <1>1, <1>2 DEF Snapshot

\* Removing edges only removes common neighbours.
LEMMA CommonShrinks ==
  ASSUME NEW g, NEW h, g \subseteq h, NEW e
  PROVE  /\ Common(g, e) \subseteq Common(h, e)
         /\ \A n : Subsets(Common(g, e), n) \subseteq Subsets(Common(h, e), n)
BY DEF Common, Subsets

-----------------------------------------------------------------------------
LEMMA InitInv == Init => IndInv
<1> SUFFICES ASSUME Init PROVE IndInv
  OBVIOUS
<1> USE DEF Init
<1>1. DOMAIN sepset = {} /\ DOMAIN pvalues = {} /\ DOMAIN ttests = {}
  OBVIOUS
<1>2. GraphAtSize = Edge
  BY <1>1 DEF GraphAtSize
<1>3. /\ DOMAIN intersections \subseteq Edge
      /\ \A e \in DOMAIN intersections : intersections[e] = Common(Edge, e)
      /\ \A e \in Edge \ DOMAIN intersections :
            0 < MaxCondSet => Subsets(Common(Edge, e), 0) = {}
  BY SnapshotFacts
<1>4. TypeOK
  <2>1. sample \in Sample
    BY SamplesAssumption
  <2>2. pvalues = [e \in DOMAIN pvalues |-> pvalues[e]] /\ ttests = [e \in DOMAIN pvalues |-> ttests[e]]
    BY <1>1
  <2>3. \A e \in DOMAIN intersections : intersections[e] \subseteq Node \ e
    BY <1>3 DEF Common
  <2> QED
    BY <1>1, <1>3, <2>1, <2>2, <2>3, PCAssumption DEF TypeOK
<1>5. SepsetsCoverRemoved /\ ReportedTestSeparates /\ SeparatorsWereCommonNeighbours
  BY <1>1 DEF SepsetsCoverRemoved, ReportedTestSeparates, SeparatorsWereCommonNeighbours
<1>6. SeparatorsTested /\ SizesBounded /\ KeptBelowAlpha
  BY <1>1 DEF SeparatorsTested, SizesBounded, KeptBelowAlpha
<1>7. CommonAtSize /\ SettledAtSize
  BY <1>2, <1>3 DEF CommonAtSize, SettledAtSize, SeparableAtSize
<1>8. DependentSoFar
  <2>1. \A n \in 0..MaxCondSet-1 : n \in Nat /\ (n = 0 => 0 < MaxCondSet) /\ ~(n < 0)
    BY PCAssumption
  <2> QED
    BY <1>3, <2>1 DEF DependentSoFar
<1> QED
  BY <1>4, <1>5, <1>6, <1>7, <1>8 DEF IndInv

\* Removing an edge: the test recorded is the one that separates its ends,
\* and its separator lies among the common neighbours at this size.
LEMMA SeparateInv ==
  ASSUME IndInv, NEW e \in Edge, Separate(e)
  PROVE  IndInv'
<1> USE DEF IndInv
<1> DEFINE R == DOMAIN sepset
<1>1. PICK S \in Separators(e) :
         /\ sepset' = Set(sepset, e, S)
         /\ pvalues' = Set(pvalues, e, PValue(sample[e][S]))
         /\ ttests' = Set(ttests, e, sample[e][S])
  BY DEF Separate
<1>2. /\ e \in DOMAIN intersections /\ e \in graph /\ e \notin R
      /\ graph' = graph \ {e} /\ removed' = removed \cup {e}
      /\ size' = size /\ sample' = sample
      /\ DOMAIN intersections' = DOMAIN intersections \ {e}
      /\ \A f \in DOMAIN intersections' : intersections'[f] = intersections[f]
  BY DEF Separate, Visited, TypeOK, SepsetsCoverRemoved
<1>3. /\ S \subseteq Node \ e /\ Cardinality(S) = size
      /\ S \in Subsets(Common(GraphAtSize, e), size)
      /\ Independent(sample[e][S])
  BY <1>1, <1>2 DEF Separators, Subsets, CommonAtSize, Common
<1>4. /\ DOMAIN sepset' = R \cup {e} /\ sepset'[e] = S
      /\ \A f \in R : f # e /\ sepset'[f] = sepset[f]
  BY <1>1, <1>2 DEF Set
<1>5. /\ DOMAIN pvalues' = DOMAIN pvalues \cup {e} /\ DOMAIN ttests' = DOMAIN ttests \cup {e}
      /\ pvalues'[e] = PValue(sample[e][S]) /\ ttests'[e] = sample[e][S]
      /\ \A f \in DOMAIN pvalues : f # e => pvalues'[f] = pvalues[f]
      /\ \A f \in DOMAIN ttests : f # e => ttests'[f] = ttests[f]
      /\ pvalues' = [f \in DOMAIN pvalues' |-> pvalues'[f]]
      /\ ttests' = [f \in DOMAIN ttests' |-> ttests'[f]]
  BY <1>1 DEF Set
<1>6. /\ sample[e][S] \in Int /\ PValue(sample[e][S]) \in Nat
      /\ PValue(sample[e][S]) >= Alpha
  BY <1>3, TestTyped DEF TypeOK
<1>7. DOMAIN ttests = DOMAIN pvalues
  BY DEF TypeOK
<1>8. GraphAtSize' = GraphAtSize
  BY <1>2, <1>3, <1>4 DEF GraphAtSize
<1>9. TypeOK'
  <2>1. pvalues' \in [DOMAIN pvalues' -> Int]
    BY <1>5, <1>6 DEF TypeOK
  <2>2. ttests' \in [DOMAIN pvalues' -> Int]
    BY <1>5, <1>6, <1>7 DEF TypeOK
  <2> QED
    BY <1>2, <1>3, <1>4, <1>5, <2>1, <2>2 DEF TypeOK
<1>10. SepsetsCoverRemoved'
  BY <1>2, <1>4 DEF SepsetsCoverRemoved
<1>11. ReportedTestSeparates'
  <2>1. ASSUME NEW f \in R
        PROVE  /\ ttests'[f] = sample'[f][sepset'[f]]
               /\ pvalues'[f] = PValue(ttests'[f]) /\ pvalues'[f] >= Alpha
    <3>1. f # e /\ sepset'[f] = sepset[f]
      BY <1>4
    <3>2. f \in DOMAIN pvalues /\ f \in DOMAIN ttests
      BY <1>7 DEF SeparatorsTested
    <3> QED
      BY <3>1, <3>2, <1>2, <1>5 DEF ReportedTestSeparates
  <2> QED
    BY <2>1, <1>2, <1>4, <1>5, <1>6 DEF ReportedTestSeparates
<1>12. SeparatorsWereCommonNeighbours'
  <2> SUFFICES ASSUME NEW f \in DOMAIN sepset', NEW x \in f, NEW w \in sepset'[f],
                      {x, w} \in DOMAIN sepset'
               PROVE  Cardinality(sepset'[{x, w}]) >= Cardinality(sepset'[f])
    BY DEF SeparatorsWereCommonNeighbours
  <2>1. \A h \in R : Cardinality(sepset[h]) \in Nat /\ Cardinality(sepset[h]) <= size
    BY SizeOf DEF TypeOK, SizesBounded
  <2>2. size \in Nat
    BY PCAssumption DEF TypeOK
  <2>3. CASE f \in R /\ {x, w} \in R
    BY <2>3, <1>4 DEF SeparatorsWereCommonNeighbours
  <2>4. CASE f \in R /\ {x, w} = e
    BY <2>1, <2>2, <2>4, <1>3, <1>4
  <2>5. CASE f = e
    <3>1. w \in Common(GraphAtSize, e) /\ w \notin e
      BY <2>5, <1>3, <1>4 DEF Subsets
    <3>2. {x, w} \in R /\ {x, w} \in GraphAtSize
      BY <2>5, <3>1, <1>4 DEF Common
    <3>3. Cardinality(sepset[{x, w}]) = size
      BY <3>2 DEF GraphAtSize, SepsetsCoverRemoved
    <3> QED
      BY <2>2, <2>5, <3>2, <3>3, <1>3, <1>4
  <2> QED
    BY <2>3, <2>4, <2>5, <1>4
<1>13. SeparatorsTested'
  BY <1>4, <1>5 DEF SeparatorsTested
<1>14. SizesBounded'
  <2>1. size \in Nat
    BY PCAssumption DEF TypeOK
  <2> QED
    BY <2>1, <1>2, <1>3, <1>4 DEF SizesBounded
<1>15. CommonAtSize'
  BY <1>2, <1>8 DEF CommonAtSize
<1>16. SettledAtSize'
  <2>1. \A f : SeparableAtSize(f)' <=> SeparableAtSize(f)
    BY <1>2, <1>8 DEF SeparableAtSize
  <2>2. SeparableAtSize(e)
    BY <1>3 DEF SeparableAtSize
  <2> QED
    BY <2>1, <2>2, <1>2, <1>8 DEF SettledAtSize
<1>17. KeptBelowAlpha'
  BY <1>2, <1>5 DEF KeptBelowAlpha
<1>18. DependentSoFar'
  BY <1>2, <1>5, CommonShrinks DEF DependentSoFar
<1> QED
  BY <1>9, <1>10, <1>11, <1>12, <1>13, <1>14, <1>15, <1>16, <1>17, <1>18

\* Keeping an edge: what is recorded bounds every test of this size, and none
\* of them reached the threshold.
LEMMA KeepInv ==
  ASSUME IndInv, NEW e \in Edge, Keep(e)
  PROVE  IndInv'
<1> USE DEF IndInv
<1>1. PICK S \in SUBSET Node :
         /\ LargestPValue(e, S)
         /\ pvalues' = Set(pvalues, e, Larger(Get(pvalues, e, 0), PValue(sample[e][S])))
         /\ ttests' = Set(ttests, e, Larger(Get(ttests, e, -10000), sample[e][S]))
  BY DEF Keep
<1> DEFINE p == Larger(Get(pvalues, e, 0), PValue(sample[e][S]))
           t == Larger(Get(ttests, e, -10000), sample[e][S])
<1>2. /\ e \in DOMAIN intersections /\ e \in graph /\ e \notin DOMAIN sepset
      /\ Separators(e) = {}
      /\ graph' = graph /\ removed' = removed /\ sepset' = sepset
      /\ size' = size /\ sample' = sample
      /\ DOMAIN intersections' = DOMAIN intersections \ {e}
      /\ \A f \in DOMAIN intersections' : intersections'[f] = intersections[f]
  BY DEF Keep, Visited, TypeOK, SepsetsCoverRemoved
<1>3. \A Q \in Subsets(Common(GraphAtSize, e), size) :
         /\ Q \in SUBSET Node
         /\ ~Independent(sample[e][Q])
         /\ PValue(sample[e][Q]) <= PValue(sample[e][S])
  BY <1>1, <1>2 DEF LargestPValue, Separators, CommonAtSize, Subsets, Common
<1>4. S \in Subsets(Common(GraphAtSize, e), size)
  BY <1>1, <1>2 DEF LargestPValue, CommonAtSize
<1>5. /\ sample[e][S] \in Int /\ PValue(sample[e][S]) \in Nat
      /\ PValue(sample[e][S]) < Alpha
  <2>1. Alpha \in Int
    BY PCAssumption
  <2> QED
    BY <1>3, <1>4, <2>1, TestTyped DEF TypeOK
<1>6. /\ t \in Int /\ p \in Int
      /\ PValue(sample[e][S]) <= p /\ p < Alpha
      /\ e \in DOMAIN pvalues => pvalues[e] <= p
  <2>1. Alpha \in Int
    BY PCAssumption
  <2>2. DOMAIN ttests = DOMAIN pvalues
        /\ (e \in DOMAIN pvalues => pvalues[e] \in Int /\ ttests[e] \in Int)
    BY DEF TypeOK
  <2>3. e \in DOMAIN pvalues => pvalues[e] < Alpha
    BY <1>2 DEF KeptBelowAlpha
  <2> QED
    BY <1>5, <2>1, <2>2, <2>3 DEF Larger, Get
<1>7. /\ DOMAIN pvalues' = DOMAIN pvalues \cup {e} /\ DOMAIN ttests' = DOMAIN ttests \cup {e}
      /\ pvalues'[e] = p /\ ttests'[e] = t
      /\ \A f \in DOMAIN pvalues : f # e => pvalues'[f] = pvalues[f]
      /\ \A f \in DOMAIN ttests : f # e => ttests'[f] = ttests[f]
      /\ pvalues' = [f \in DOMAIN pvalues' |-> pvalues'[f]]
      /\ ttests' = [f \in DOMAIN ttests' |-> ttests'[f]]
  BY <1>1 DEF Set
<1> HIDE DEF p, t
<1>8. GraphAtSize' = GraphAtSize
  BY <1>2 DEF GraphAtSize
<1>9. TypeOK'
  <2>1. pvalues' \in [DOMAIN pvalues' -> Int]
    BY <1>6, <1>7 DEF TypeOK
  <2>2. ttests' \in [DOMAIN pvalues' -> Int]
    BY <1>6, <1>7 DEF TypeOK
  <2> QED
    BY <1>2, <1>7, <2>1, <2>2 DEF TypeOK
<1>10. /\ SepsetsCoverRemoved' /\ SeparatorsWereCommonNeighbours'
       /\ SizesBounded' /\ SeparatorsTested'
  BY <1>2, <1>7 DEF SepsetsCoverRemoved, SeparatorsWereCommonNeighbours,
                    SizesBounded, SeparatorsTested
<1>11. ReportedTestSeparates'
  BY <1>2, <1>7 DEF ReportedTestSeparates, SeparatorsTested, TypeOK
<1>12. CommonAtSize'
  BY <1>2, <1>8 DEF CommonAtSize
<1>13. SettledAtSize'
  <2>1. \A f : SeparableAtSize(f)' <=> SeparableAtSize(f)
    BY <1>2, <1>8 DEF SeparableAtSize
  <2>2. ~SeparableAtSize(e)
    BY <1>3 DEF SeparableAtSize
  <2> QED
    BY <2>1, <2>2, <1>2, <1>8 DEF SettledAtSize
<1>14. KeptBelowAlpha'
  BY <1>2, <1>6, <1>7 DEF KeptBelowAlpha
<1>15. DependentSoFar'
  <2> SUFFICES ASSUME NEW f \in graph, NEW n \in 0..MaxCondSet-1,
                      n < size \/ (n = size /\ f \notin DOMAIN intersections'),
                      NEW Q \in Subsets(Common(graph, f), n)
               PROVE  f \in DOMAIN pvalues' /\ PValue(sample[f][Q]) <= pvalues'[f]
    BY <1>2 DEF DependentSoFar
  <2>1. CASE f # e
    BY <2>1, <1>2, <1>7 DEF DependentSoFar
  <2>2. CASE f = e /\ n = size
    <3>1. Q \in Subsets(Common(GraphAtSize, e), size)
      BY <2>2, CommonShrinks DEF GraphAtSize
    <3>2. PValue(sample[e][Q]) \in Nat /\ PValue(sample[e][Q]) <= PValue(sample[e][S])
      BY <3>1, <1>3, TestTyped DEF TypeOK
    <3> QED
      BY <2>2, <3>2, <1>5, <1>6, <1>7
  <2>3. CASE f = e /\ n < size
    <3>1. e \in DOMAIN pvalues /\ PValue(sample[e][Q]) <= pvalues[e]
      BY <2>3, <1>2 DEF DependentSoFar
    <3>2. pvalues[e] \in Int /\ PValue(sample[e][Q]) \in Nat
      BY <2>3, <3>1, TestTyped DEF TypeOK, Subsets, Common
    <3> QED
      BY <2>3, <3>1, <3>2, <1>6, <1>7
  <2> QED
    BY <2>1, <2>2, <2>3
<1> QED
  BY <1>9, <1>10, <1>11, <1>12, <1>13, <1>14, <1>15

\* The next size: the graph it begins with is the one at hand.
LEMMA NextSizeInv ==
  ASSUME IndInv, NextSize
  PROVE  IndInv' /\ GraphAtSize' = graph
<1> USE DEF IndInv
<1>1. /\ DOMAIN intersections = {} /\ size < MaxCondSet /\ size' = size + 1
      /\ intersections' = Snapshot(graph, size + 1)
      /\ sample' = sample /\ graph' = graph /\ sepset' = sepset
      /\ pvalues' = pvalues /\ ttests' = ttests /\ removed' = removed
  BY DEF NextSize
<1>2. size \in Nat /\ size + 1 \in 0..MaxCondSet /\ MaxCondSet \in Nat
  BY <1>1, PCAssumption DEF TypeOK
<1>3. \A e \in DOMAIN sepset : Cardinality(sepset[e]) \in Nat /\ Cardinality(sepset[e]) < size + 1
  BY <1>2, SizeOf DEF TypeOK, SizesBounded
<1>4. GraphAtSize' = graph
  BY <1>1, <1>2, <1>3 DEF GraphAtSize
<1>5. graph \subseteq Edge
  BY DEF TypeOK
<1>6. /\ DOMAIN intersections' \subseteq graph
      /\ size + 1 = MaxCondSet => DOMAIN intersections' = {}
      /\ \A e \in DOMAIN intersections' : intersections'[e] = Common(graph, e)
      /\ \A e \in graph \ DOMAIN intersections' :
            size + 1 < MaxCondSet => Subsets(Common(graph, e), size + 1) = {}
  <2> DEFINE n == size + 1
  <2>1. n \in Nat
    BY <1>2
  <2> HIDE DEF n
  <2>2. /\ DOMAIN Snapshot(graph, n) \subseteq graph
        /\ n = MaxCondSet => DOMAIN Snapshot(graph, n) = {}
        /\ \A e \in DOMAIN Snapshot(graph, n) : Snapshot(graph, n)[e] = Common(graph, e)
        /\ \A e \in graph \ DOMAIN Snapshot(graph, n) :
              n < MaxCondSet => Subsets(Common(graph, e), n) = {}
    BY <1>5, <2>1, SnapshotFacts
  <2> QED
    BY <2>2, <1>1 DEF n
<1>7. TypeOK'
  <2>1. \A e \in DOMAIN intersections' : intersections'[e] \subseteq Node \ e
    BY <1>6 DEF Common
  <2> QED
    BY <1>1, <1>2, <1>6, <2>1 DEF TypeOK
<1>8. /\ SepsetsCoverRemoved' /\ ReportedTestSeparates' /\ SeparatorsWereCommonNeighbours'
      /\ SeparatorsTested' /\ KeptBelowAlpha'
  BY <1>1 DEF SepsetsCoverRemoved, ReportedTestSeparates, SeparatorsWereCommonNeighbours,
              SeparatorsTested, KeptBelowAlpha
<1>9. SizesBounded'
  BY <1>1, <1>2, <1>3 DEF SizesBounded
<1>10. CommonAtSize'
  BY <1>4, <1>6 DEF CommonAtSize
<1>11. SettledAtSize'
  BY <1>1, <1>4, <1>6 DEF SettledAtSize, SeparableAtSize
<1>12. DependentSoFar'
  <2> SUFFICES ASSUME NEW e \in graph, NEW n \in 0..MaxCondSet-1,
                      n < size + 1 \/ (n = size + 1 /\ e \notin DOMAIN intersections'),
                      NEW Q \in Subsets(Common(graph, e), n)
               PROVE  e \in DOMAIN pvalues /\ PValue(sample[e][Q]) <= pvalues[e]
    BY <1>1 DEF DependentSoFar
  <2>1. n < size \/ n = size
    BY <1>2, <1>6
  <2> QED
    BY <2>1, <1>1 DEF DependentSoFar
<1> QED
  BY <1>4, <1>7, <1>8, <1>9, <1>10, <1>11, <1>12

LEMMA StutterInv == IndInv /\ UNCHANGED vars => IndInv'
BY DEF IndInv, vars, TypeOK, SepsetsCoverRemoved, ReportedTestSeparates,
       SeparatorsWereCommonNeighbours, SeparatorsTested, SizesBounded, CommonAtSize,
       SettledAtSize, SeparableAtSize, GraphAtSize, KeptBelowAlpha, DependentSoFar

LEMMA NextInv == IndInv /\ [Next]_vars => IndInv'
BY SeparateInv, KeepInv, NextSizeInv, StutterInv DEF Next, Done

LEMMA InvHolds == Spec => []IndInv
BY InitInv, NextInv, PTL DEF Spec

-----------------------------------------------------------------------------
\* Every variable of the search keeps its type: in particular it never goes
\* past its last size.
THEOREM SkeletonTyped == Spec => []TypeOK
BY InvHolds, PTL DEF IndInv

\* inferSkeleton accounts for every pair of variables at every moment: it is
\* an edge, or it was removed and its separator recorded.
THEOREM EveryPairAccountedFor == Spec => []SepsetsCoverRemoved
BY InvHolds, PTL DEF IndInv

\* What getPValue, getTTest and getSepset report for a removed edge is one
\* test, and that test found independence.
THEOREM RemovalsJustified == Spec => []ReportedTestSeparates
BY InvHolds, PTL DEF IndInv

\* The separating sets satisfy what PCOrientation assumes of them.
THEOREM SeparatorsAreCommon == Spec => []SeparatorsWereCommonNeighbours
BY InvHolds, PTL DEF IndInv

\* An edge that the search kept has the p-value of its most independent test,
\* and that is below the threshold.
THEOREM KeptEdgesJustified == Spec => []KeptEdgesDependent
<1>1. IndInv => KeptEdgesDependent
  <2> SUFFICES ASSUME IndInv, Finished, NEW e \in graph, NEW n \in 0..MaxCondSet-1,
                      NEW S \in Subsets(Common(graph, e), n)
               PROVE  /\ e \in DOMAIN pvalues
                      /\ PValue(sample[e][S]) <= pvalues[e]
                      /\ pvalues[e] < Alpha
    BY DEF KeptEdgesDependent
  <2>1. n < size
    BY PCAssumption DEF Finished
  <2>2. e \in DOMAIN pvalues /\ PValue(sample[e][S]) <= pvalues[e]
    BY <2>1 DEF IndInv, DependentSoFar
  <2> QED
    BY <2>2 DEF IndInv, KeptBelowAlpha
<1> QED
  BY InvHolds, <1>1, PTL

\* StablePC speaks of edges and of separable edges in its own instances of
\* the operators of PCData and FiniteSets.
LEMMA SameEdges == Stable!Edge = Edge
BY DEF Stable!Edge, Stable!EdgesOver, Stable!Undirected, Stable!ArcsOver,
       Edge, EdgesOver, Undirected, ArcsOver

LEMMA SameCardinality ==
  ASSUME NEW S
  PROVE  Stable!Cardinality(S) = Cardinality(S)
BY DEF Stable!Cardinality, Cardinality

LEMMA SameSeparable ==
  ASSUME NEW e
  PROVE  Stable!Separable(e, size) <=> SeparableAtSize(e)
<1>1. \A g : Stable!Common(g, e) = Common(g, e)
  BY DEF Stable!Common, Common
<1>2. \A N : Stable!Subsets(N, size) = Subsets(N, size)
  BY SameCardinality DEF Stable!Subsets, Subsets
<1>3. \A t : Stable!Independent(t) <=> Independent(t)
  BY DEF Stable!Independent, Stable!PValue, Independent, PValue
<1> QED
  BY <1>1, <1>2, <1>3 DEF Stable!Separable, SeparableAtSize

\* The skeleton is a function of the sample: in whatever order the edges are
\* visited and their separators met, the search removes the edges that the
\* sweeps of StablePC remove.
THEOREM OrderIndependent == Spec => StableSpec
<1>1. Init => Stable!Init
  <2>1. Init => DOMAIN sepset = {}
    BY DEF Init
  <2>2. Init => GraphAtSize = Edge
    BY <2>1 DEF Init, GraphAtSize
  <2> QED
    BY <2>2, SameEdges DEF Init, Stable!Init
<1>2. IndInv /\ [Next]_vars => [Stable!Sweep]_(Stable!vars)
  <2> SUFFICES ASSUME IndInv, [Next]_vars
               PROVE  Stable!Sweep \/ UNCHANGED <<sample, GraphAtSize, size>>
    BY DEF Stable!vars
  <2>1. CASE NextSize
    <3>1. /\ DOMAIN intersections = {} /\ size < MaxCondSet /\ size' = size + 1
          /\ sample' = sample
      BY <2>1 DEF NextSize
    <3>2. GraphAtSize' = graph
      BY <2>1, NextSizeInv
    <3>3. \A e \in GraphAtSize : e \in graph <=> ~SeparableAtSize(e)
      BY <3>1 DEF IndInv, SettledAtSize
    <3>4. graph = {e \in GraphAtSize : ~Stable!Separable(e, size)}
      BY <3>3, SameSeparable DEF GraphAtSize
    <3> QED
      BY <3>1, <3>2, <3>4 DEF Stable!Sweep
  <2>2. ASSUME NEW e \in Edge, Separate(e)
        PROVE  UNCHANGED <<sample, GraphAtSize, size>>
    <3>1. PICK S \in Separators(e) : sepset' = Set(sepset, e, S)
      BY <2>2 DEF Separate
    <3>2. /\ e \in DOMAIN intersections /\ e \in graph /\ e \notin DOMAIN sepset
          /\ graph' = graph \ {e} /\ size' = size /\ sample' = sample
      BY <2>2 DEF Separate, IndInv, TypeOK, SepsetsCoverRemoved
    <3>3. Cardinality(S) = size
      BY <3>1 DEF Separators, Subsets
    <3>4. /\ DOMAIN sepset' = DOMAIN sepset \cup {e} /\ sepset'[e] = S
          /\ \A f \in DOMAIN sepset : sepset'[f] = sepset[f]
      BY <3>1, <3>2 DEF Set
    <3> QED
      BY <3>2, <3>3, <3>4 DEF GraphAtSize
  <2>3. ASSUME NEW e \in Edge, Keep(e)
        PROVE  UNCHANGED <<sample, GraphAtSize, size>>
    BY <2>3 DEF Keep, GraphAtSize
  <2>4. CASE UNCHANGED vars
    BY <2>4 DEF vars, GraphAtSize
  <2> QED
    BY <2>1, <2>2, <2>3, <2>4 DEF Next, Done
<1> QED
  BY InvHolds, <1>1, <1>2, PTL DEF Spec, StableSpec, Stable!Spec

-----------------------------------------------------------------------------
\* A list of as many nodes as the set it lists has each of them once.
LEMMA ListedOnce ==
  ASSUME NEW I, I \subseteq Node,
         NEW base \in Seq(Node), ToSet(base) = I, Len(base) = Cardinality(I)
  PROVE  /\ Len(base) \in Nat
         /\ \A i \in 1..Len(base) : base[i] \in I
         /\ \A x \in I : \E i \in 1..Len(base) : base[i] = x
         /\ \A i, j \in 1..Len(base) : base[i] = base[j] => i = j
<1>1. Len(base) \in Nat /\ DOMAIN base = 1..Len(base) /\ base \in [1..Len(base) -> Node]
  OBVIOUS
<1>2. /\ \A i \in 1..Len(base) : base[i] \in I
      /\ \A x \in I : \E i \in 1..Len(base) : base[i] = x
  BY <1>1 DEF ToSet
<1>3. base \in Surjection(1..Len(base), I)
  BY <1>1, <1>2 DEF Surjection
<1>4. IsFiniteSet(1..Len(base)) /\ Cardinality(1..Len(base)) = Len(base)
  BY <1>1, FS_Interval
<1>5. base \in Injection(1..Len(base), I)
  BY <1>3, <1>4, FS_Surjection
<1> QED
  BY <1>1, <1>2, <1>5 DEF Injection, IsInjective

\* The positions of a proper iterator leave room before and after them.
LEMMA CoordsBounded ==
  ASSUME NEW len \in Nat, NEW n \in Nat, NEW c \in Coords(len, n)
  PROVE  /\ c \in [1..n -> 1..len]
         /\ \A i, j \in 1..n : i < j => c[j] - c[i] >= j - i
         /\ \A i \in 1..n : i <= c[i] /\ c[i] <= len + i - n
<1>1. /\ c \in [1..n -> 1..len]
      /\ \A i, j \in 1..n : i < j => c[j] - c[i] >= j - i
  BY DEF Coords
<1>2. ASSUME NEW i \in 1..n
      PROVE  i <= c[i] /\ c[i] <= len + i - n
  <2>1. /\ 1 \in 1..n /\ n \in 1..n /\ c[1] >= 1 /\ c[n] <= len
        /\ c[1] \in Int /\ c[n] \in Int /\ c[i] \in Int
    BY <1>1
  <2>2. i = 1 \/ c[i] - c[1] >= i - 1
    BY <1>1, <2>1
  <2>3. i = n \/ c[n] - c[i] >= n - i
    BY <1>1, <2>1
  <2> QED
    BY <2>1, <2>2, <2>3
<1> QED
  BY <1>1, <1>2

\* A set of positions has a last one.
LEMMA LastOne ==
  ASSUME NEW n \in Nat, NEW M, M \subseteq 1..n, M # {}
  PROVE  \E m \in M : \A k \in M : k <= m
<1> DEFINE T == {m..n : m \in M}
<1>1. T \subseteq FiniteSubsetsOf(1..n)
  <2> SUFFICES ASSUME NEW m \in M PROVE m..n \in FiniteSubsetsOf(1..n)
    OBVIOUS
  <2>1. m \in 1..n
    OBVIOUS
  <2>2. IsFiniteSet(m..n)
    BY <2>1, FS_Interval
  <2> QED
    BY <2>1, <2>2 DEF FiniteSubsetsOf
<1>2. PICK t \in T : \A s \in T : ~(<<s, t>> \in StrictSubsetOrdering(1..n))
  <2>1. T # {}
    OBVIOUS
  <2>2. IsWellFoundedOn(StrictSubsetOrdering(1..n), FiniteSubsetsOf(1..n))
    BY FS_StrictSubsetOrderingWellFounded
  <2> HIDE DEF T
  <2> QED
    BY <1>1, <2>1, <2>2, WFMin
<1>3. PICK m \in M : t = m..n
  OBVIOUS
<1>4. ASSUME NEW k \in M, k > m PROVE FALSE
  <2>1. k..n \in T
    OBVIOUS
  <2>2. k..n \subseteq m..n /\ m \in m..n /\ m \notin k..n
    BY <1>4
  <2>3. <<k..n, m..n>> \in StrictSubsetOrdering(1..n)
    BY <2>2, <1>4 DEF StrictSubsetOrdering
  <2> QED
    BY <1>2, <1>3, <2>1, <2>3
<1> QED
  BY <1>4

\* The lists of positions before d in the order of the iterator: the first
\* difference is an increase.
Before(c, d, n) ==
  \E p \in 1..n : c[p] < d[p] /\ \A j \in 1..n : j < p => c[j] <= d[j]

LEMMA BeforeOrSame ==
  ASSUME NEW len \in Nat, NEW n \in Nat, NEW c \in Coords(len, n), NEW d \in Coords(len, n),
         NEW m \in 0..n,
         \A j \in 1..n : j <= m => c[j] <= d[j],
         \A j \in 1..n : j > m => d[j] = len + j - n
  PROVE  c = d \/ Before(c, d, n)
<1>1. \A j \in 1..n : c[j] <= d[j]
  BY CoordsBounded
<1>2. CASE \E p \in 1..n : c[p] < d[p]
  BY <1>1, <1>2 DEF Before
<1>3. CASE \A p \in 1..n : ~(c[p] < d[p])
  <2>1. c \in [1..n -> 1..len] /\ d \in [1..n -> 1..len]
    BY CoordsBounded
  <2>2. \A p \in 1..n : c[p] = d[p]
    BY <1>1, <1>3, <2>1
  <2> QED
    BY <2>1, <2>2
<1> QED
  BY <1>2, <1>3

\* next() leaves out no list: what is before the new positions is the old
\* ones or before them, and when the enumeration ends nothing is after them.
LEMMA AdvanceSkipsNone ==
  ASSUME NEW len \in Nat, NEW n \in Nat, NEW c \in Coords(len, n),
         NEW r, r = Advance([coord |-> c, carry |-> FALSE], len, n)
  PROVE  /\ r.coord \in Coords(len, n)
         /\ r.carry \in BOOLEAN
         /\ \A e \in Coords(len, n) :
               r.carry = TRUE \/ Before(e, r.coord, n) => e = c \/ Before(e, c, n)
<1> DEFINE it == [coord |-> c, carry |-> FALSE]
           movable == Movable(it, len, n)
<1>1. /\ c \in [1..n -> 1..len]
      /\ \A i, j \in 1..n : i < j => c[j] - c[i] >= j - i
      /\ \A i \in 1..n : c[i] \in Int /\ c[i] <= len + i - n
  BY CoordsBounded
<1>2. movable = {i \in 1..n : c[i] < len + i - n}
  BY DEF Movable
<1>3. ASSUME NEW j \in 1..n, j \notin movable PROVE c[j] = len + j - n
  <2>1. ~(c[j] < len + j - n)
    BY <1>2, <1>3
  <2> HIDE DEF movable
  <2>2. c[j] \in Int /\ c[j] <= len + j - n
    BY <1>1
  <2> QED
    BY <2>1, <2>2
<1>4. CASE movable = {}
  <2>1. r = [coord |-> c, carry |-> TRUE]
    BY <1>4 DEF Advance
  <2> HIDE DEF movable
  <2>2. \A j \in 1..n : c[j] = len + j - n
    BY <1>3, <1>4
  <2>3. ASSUME NEW e \in Coords(len, n) PROVE e = c \/ Before(e, c, n)
    <3>1. 0 \in 0..n /\ \A j \in 1..n : ~(j <= 0)
      OBVIOUS
    <3> QED
      BY <2>2, <3>1, BeforeOrSame
  <2>4. r.coord = c
    BY <2>1
  <2>5. r.carry = TRUE
    BY <2>1
  <2> QED
    BY <2>3, <2>4, <2>5
<1>5. CASE movable # {}
  <2>1. PICK i \in movable :
          /\ \A k \in movable : k <= i
          /\ r = [it EXCEPT !.coord =
                    [j \in 1..n |-> IF j < i THEN it.coord[j] ELSE it.coord[i] + 1 + (j - i)]]
    <3> DEFINE last == CHOOSE m \in movable : \A k \in movable : k <= m
    <3>1. last \in movable /\ \A k \in movable : k <= last
      BY <1>2, <1>5, LastOne
    <3>2. r = [it EXCEPT !.coord =
                 [j \in 1..n |-> IF j < last THEN it.coord[j]
                                 ELSE it.coord[last] + 1 + (j - last)]]
      <4> HIDE DEF it
      <4> QED
        BY <1>5, Zenon DEF Advance, it
    <3> HIDE DEF last, movable, it
    <3> QED
      BY <3>1, <3>2
  <2> DEFINE d == [j \in 1..n |-> IF j < i THEN c[j] ELSE c[i] + 1 + (j - i)]
  <2>2. r = [coord |-> d, carry |-> FALSE]
    BY <2>1
  <2>3. i \in 1..n /\ c[i] < len + i - n /\ c[i] \in 1..len
    BY <1>1, <1>2, <2>1
  <2> HIDE DEF movable
  <2>4. \A j \in 1..n : j > i => c[j] = len + j - n
    BY <1>3, <2>1, <2>3
  <2>5. d \in Coords(len, n)
    <3>1. ASSUME NEW j \in 1..n PROVE d[j] \in 1..len
      <4>1. CASE j < i
        BY <1>1, <4>1
      <4>2. CASE ~(j < i)
        <5>1. d[j] = c[i] + 1 + (j - i)
          BY <4>2
        <5>2. c[i] \in 1..len /\ i \in Int /\ j <= n
          BY <2>3
        <5> HIDE DEF d
        <5> QED
          BY <2>3, <4>2, <5>1, <5>2
      <4> QED
        BY <4>1, <4>2
    <3>2. ASSUME NEW j \in 1..n, NEW k \in 1..n, j < k PROVE d[k] - d[j] >= k - j
      <4>1. CASE k < i
        BY <1>1, <2>3, <3>2, <4>1
      <4>2. CASE j < i /\ ~(k < i)
        <5>1. c[i] - c[j] >= i - j /\ c[j] \in Int
          BY <1>1, <2>3, <4>2
        <5> QED
          BY <2>3, <4>2, <5>1
      <4>3. CASE ~(j < i)
        BY <2>3, <3>2, <4>3
      <4> QED
        BY <3>2, <4>1, <4>2, <4>3, <2>3
    <3> QED
      BY <3>1, <3>2 DEF Coords
  <2>6. ASSUME NEW e \in Coords(len, n), Before(e, d, n)
        PROVE  e = c \/ Before(e, c, n)
    <3>1. /\ e \in [1..n -> 1..len]
          /\ \A j, k \in 1..n : j < k => e[k] - e[j] >= k - j
      BY CoordsBounded
    <3>2. PICK p \in 1..n : e[p] < d[p] /\ \A j \in 1..n : j < p => e[j] <= d[j]
      BY <2>6 DEF Before
    <3>3. CASE p < i
      <4>1. e[p] < c[p] /\ \A j \in 1..n : j < p => e[j] <= c[j]
        BY <2>3, <3>2, <3>3
      <4> QED
        BY <4>1 DEF Before
    <3>4. CASE ~(p < i)
      <4>1. e[i] <= c[i]
        <5>1. e[p] < c[i] + 1 + (p - i) /\ e[p] \in Int /\ e[i] \in Int
          BY <2>3, <3>1, <3>2, <3>4
        <5>2. p = i \/ e[p] - e[i] >= p - i
          BY <2>3, <3>1, <3>4
        <5> QED
          BY <2>3, <5>1, <5>2
      <4>2. \A j \in 1..n : j < i => e[j] <= c[j]
        BY <2>3, <3>2, <3>4
      <4>3. \A j \in 1..n : j <= i => e[j] <= c[j]
        BY <2>3, <4>1, <4>2
      <4> QED
        BY <2>3, <2>4, <4>3, BeforeOrSame
    <3> QED
      BY <3>3, <3>4
  <2> HIDE DEF d
  <2>7. r.coord = d
    BY <2>2
  <2>8. r.carry = FALSE
    BY <2>2
  <2> QED
    BY <2>5, <2>6, <2>7, <2>8
<1> QED
  BY <1>4, <1>5

\* The nodes at the first n positions that c lists.
NodesAt(base, c, n) == {base[c[i]] : i \in 1..n}

\* A list at proper positions has n nodes, all of the set.
LEMMA ListHasSize ==
  ASSUME NEW I, I \subseteq Node,
         NEW base \in Seq(Node), ToSet(base) = I, Len(base) = Cardinality(I),
         NEW n \in Nat, NEW c \in Coords(Len(base), n)
  PROVE  NodesAt(base, c, n) \in Subsets(I, n)
<1> DEFINE S == NodesAt(base, c, n)
           f == [i \in 1..n |-> base[c[i]]]
<1>1. /\ Len(base) \in Nat
      /\ \A i \in 1..Len(base) : base[i] \in I
      /\ \A i, j \in 1..Len(base) : base[i] = base[j] => i = j
  BY ListedOnce
<1>2. /\ c \in [1..n -> 1..Len(base)]
      /\ \A i, j \in 1..n : i < j => c[j] - c[i] >= j - i
  BY <1>1, CoordsBounded
<1>3. ASSUME NEW i \in 1..n, NEW j \in 1..n, c[i] = c[j] PROVE i = j
  <2>1. c[i] \in Int
    BY <1>2
  <2>2. ~(i < j) /\ ~(j < i)
    BY <1>2, <1>3, <2>1
  <2> QED
    BY <2>2
<1>4. f \in Bijection(1..n, S)
  <2>1. f \in [1..n -> S] /\ \A s \in S : \E i \in 1..n : f[i] = s
    BY DEF NodesAt
  <2>2. \A i, j \in 1..n : f[i] = f[j] => i = j
    BY <1>1, <1>2, <1>3
  <2> HIDE DEF f, S
  <2> QED
    BY <2>1, <2>2 DEF Bijection, Injection, Surjection, IsInjective
<1>5. IsFiniteSet(1..n) /\ Cardinality(1..n) = n
  BY FS_Interval
<1>6. Cardinality(S) = n
  <2>1. ExistsBijection(1..n, S)
    BY <1>4 DEF ExistsBijection
  <2> QED
    BY <1>5, <2>1, FS_Bijection
<1>7. S \subseteq I
  BY <1>1, <1>2 DEF NodesAt
<1> QED
  BY <1>6, <1>7 DEF Subsets

\* Every subset of size n is the list at some proper positions: those of its
\* nodes, in rising order.
LEMMA EverySubsetListed ==
  ASSUME NEW I, I \subseteq Node,
         NEW base \in Seq(Node), ToSet(base) = I, Len(base) = Cardinality(I),
         NEW n \in Nat, NEW S \in Subsets(I, n)
  PROVE  \E c \in Coords(Len(base), n) : NodesAt(base, c, n) = S
<1> DEFINE len == Len(base)
           P == {i \in 1..len : base[i] \in S}
           upTo(p) == {q \in P : q <= p}
           rank == [p \in P |-> Cardinality(upTo(p))]
<1>1. /\ len \in Nat
      /\ \A x \in I : \E i \in 1..len : base[i] = x
      /\ \A i, j \in 1..len : base[i] = base[j] => i = j
  BY ListedOnce
<1>2. S \subseteq I /\ Cardinality(S) = n
  BY DEF Subsets
<1>3. P \subseteq 1..len /\ IsFiniteSet(P)
  <2>1. P \subseteq 1..len /\ IsFiniteSet(1..len)
    BY <1>1, FS_Interval
  <2> QED
    BY <2>1, FS_Subset
<1>4. Cardinality(P) = n
  <2> DEFINE f == [i \in P |-> base[i]]
  <2>1. f \in [P -> S] /\ \A i, j \in P : f[i] = f[j] => i = j
    BY <1>1
  <2>2. \A x \in S : \E i \in P : f[i] = x
    BY <1>1, <1>2
  <2> HIDE DEF f, P
  <2>3. f \in Bijection(P, S)
    BY <2>1, <2>2 DEF Bijection, Injection, Surjection, IsInjective
  <2>4. ExistsBijection(P, S)
    BY <2>3 DEF ExistsBijection
  <2> QED
    BY <1>2, <1>3, <2>4, FS_Bijection
<1>5. ASSUME NEW p \in P
      PROVE  /\ IsFiniteSet(upTo(p)) /\ Cardinality(upTo(p)) \in 1..n
             /\ p \in upTo(p) /\ upTo(p) \subseteq P /\ p \in Int
  <2>1. p \in Int
    BY <1>3
  <2>2. p \in upTo(p) /\ upTo(p) \subseteq P
    BY <2>1
  <2> HIDE DEF upTo, P
  <2>3. IsFiniteSet(upTo(p)) /\ Cardinality(upTo(p)) <= n /\ Cardinality(upTo(p)) \in Nat
    BY <1>3, <1>4, <2>2, FS_Subset, FS_CardinalityType
  <2>4. Cardinality(upTo(p)) # 0
    BY <2>2, <2>3, FS_EmptySet
  <2> QED
    BY <2>1, <2>2, <2>3, <2>4
<1>6. ASSUME NEW p \in P, NEW q \in P, p < q PROVE rank[p] < rank[q]
  <2>1. p \in Int /\ q \in Int /\ \A r \in P : r \in Int
    BY <1>3
  <2>2. upTo(p) \subseteq upTo(q) /\ q \in upTo(q) /\ q \notin upTo(p)
    BY <1>6, <2>1
  <2>3. /\ rank[p] = Cardinality(upTo(p)) /\ rank[q] = Cardinality(upTo(q))
        /\ rank[p] \in 1..n /\ rank[q] \in 1..n /\ IsFiniteSet(upTo(q))
    BY <1>5
  <2> HIDE DEF upTo, rank, P
  <2>4. upTo(p) # upTo(q)
    BY <2>2
  <2>5. /\ Cardinality(upTo(p)) <= Cardinality(upTo(q))
        /\ Cardinality(upTo(q)) = Cardinality(upTo(p)) => upTo(q) = upTo(p)
    BY <2>2, <2>3, FS_Subset
  <2> QED
    BY <2>3, <2>4, <2>5
<1>7. /\ rank \in [P -> 1..n]
      /\ \A p, q \in P : rank[p] = rank[q] => p = q
      /\ \A i \in 1..n : \E p \in P : rank[p] = i
  <2>1. rank \in [P -> 1..n] /\ \A p \in P : p \in Int /\ rank[p] \in 1..n
    BY <1>5
  <2> HIDE DEF rank, P
  <2>2. ASSUME NEW p \in P, NEW q \in P, rank[p] = rank[q] PROVE p = q
    <3>1. ~(p < q) /\ ~(q < p)
      BY <1>6, <2>1, <2>2
    <3> QED
      BY <2>1, <3>1
  <2>3. rank \in Injection(P, 1..n)
    BY <2>1, <2>2 DEF Injection, IsInjective
  <2>4. IsFiniteSet(1..n) /\ Cardinality(1..n) = n
    BY FS_Interval
  <2>5. rank \in Surjection(P, 1..n)
    BY <1>4, <2>3, <2>4, FS_Injection
  <2> QED
    BY <2>1, <2>2, <2>5 DEF Surjection
<1> DEFINE c == [i \in 1..n |-> CHOOSE p \in P : rank[p] = i]
<1>8. \A i \in 1..n : c[i] \in P /\ rank[c[i]] = i /\ c[i] \in 1..len
  BY <1>3, <1>7
<1>9. c \in [1..n -> 1..len]
  BY <1>3, <1>7
<1> HIDE DEF c
<1>10. ASSUME NEW i \in 1..n, NEW j \in 1..n, i < j PROVE c[j] - c[i] >= j - i
  <2>1. /\ c[i] \in P /\ c[j] \in P /\ rank[c[i]] = i /\ rank[c[j]] = j
        /\ c[i] \in Int /\ c[j] \in Int
    <3> HIDE DEF rank, P
    <3> QED
      BY <1>1, <1>8
  <2>2. c[i] < c[j]
    <3> HIDE DEF rank, P
    <3>1. ~(c[j] < c[i]) /\ c[i] # c[j]
      BY <1>6, <1>10, <2>1
    <3> QED
      BY <2>1, <3>1
  <2>3. upTo(c[i]) \subseteq upTo(c[j])
    BY <1>3, <2>1, <2>2
  <2>4. upTo(c[j]) \ upTo(c[i]) \subseteq c[i]+1..c[j]
    <3> SUFFICES ASSUME NEW q \in P, q <= c[j], ~(q <= c[i]) PROVE q \in c[i]+1..c[j]
      OBVIOUS
    <3>1. q \in Int
      BY <1>3
    <3> QED
      BY <2>1, <3>1
  <2>5. /\ Cardinality(upTo(c[i])) = i /\ Cardinality(upTo(c[j])) = j
        /\ IsFiniteSet(upTo(c[i])) /\ IsFiniteSet(upTo(c[j]))
    BY <1>5, <2>1
  <2> HIDE DEF upTo, P, rank
  <2>6. upTo(c[j]) \cap upTo(c[i]) = upTo(c[i])
    BY <2>3
  <2>7. Cardinality(upTo(c[j]) \ upTo(c[i])) = j - i
    <3>1. Cardinality(upTo(c[j]) \ upTo(c[i]))
            = Cardinality(upTo(c[j])) - Cardinality(upTo(c[j]) \cap upTo(c[i]))
      BY <2>5, FS_Difference
    <3> QED
      BY <2>5, <2>6, <3>1
  <2>8. IsFiniteSet(c[i]+1..c[j]) /\ Cardinality(c[i]+1..c[j]) = c[j] - c[i]
    <3>1. c[i]+1 \in Int /\ ~(c[i]+1 > c[j]) /\ c[j] - (c[i]+1) + 1 = c[j] - c[i]
      BY <2>1, <2>2
    <3> QED
      BY <2>1, <3>1, FS_Interval
  <2>9. Cardinality(upTo(c[j]) \ upTo(c[i])) <= Cardinality(c[i]+1..c[j])
    BY <2>4, <2>8, FS_Subset
  <2> QED
    BY <2>1, <2>7, <2>8, <2>9
<1>11. c \in Coords(len, n)
  BY <1>9, <1>10 DEF Coords
<1>12. NodesAt(base, c, n) = S
  <2>1. \A i \in 1..n : base[c[i]] \in S
    BY <1>8
  <2>2. ASSUME NEW s \in S PROVE \E i \in 1..n : base[c[i]] = s
    <3>1. PICK k \in P : base[k] = s
      BY <1>1, <1>2
    <3> HIDE DEF rank, P
    <3>2. rank[k] \in 1..n
      BY <1>7
    <3>3. c[rank[k]] = k
      BY <1>7, <1>8, <3>2
    <3> QED
      BY <3>1, <3>2, <3>3
  <2> QED
    BY <2>1, <2>2 DEF NodesAt
<1> QED
  BY <1>11, <1>12

-----------------------------------------------------------------------------
\* The levels list the keys of the map, each at the length of its list.
WellKept(c) ==
  /\ c.strata \in [0..MaxCondSet+1 -> SUBSET c.keys]
  /\ c.keys = UNION {c.strata[n] : n \in 0..MaxCondSet+1}
  /\ \A n \in 0..MaxCondSet+1 : \A key \in c.strata[n] : Len(key[1]) = n

\* r holds what c held, and keys of lists of n variables or more.
Grown(c, r, n) ==
  /\ WellKept(r)
  /\ c.keys \subseteq r.keys
  /\ \A key \in r.keys \ c.keys : Len(key[1]) >= n

LEMMA KeyLength ==
  ASSUME NEW c, WellKept(c)
  PROVE  \A key \in c.keys : Len(key[1]) \in 0..MaxCondSet+1 /\ key \in c.strata[Len(key[1])]
BY DEF WellKept

LEMMA StoringGrows ==
  ASSUME NEW c, WellKept(c), NEW l \in Seq(Node), NEW k, NEW n \in Nat,
         n <= Len(l), Len(l) <= MaxCondSet + 1
  PROVE  Grown(c, GetLogPDF(c, l, k), n)
<1> DEFINE key == Key(l, k)
           r == [keys |-> c.keys \cup {key},
                 strata |-> [c.strata EXCEPT ![Len(l)] = @ \cup {key}]]
<1>1. CASE Len(l) < 2 \/ key \in c.keys
  <2>1. GetLogPDF(c, l, k) = c
    BY <1>1 DEF GetLogPDF, CacheSet
  <2> QED
    BY <2>1 DEF Grown
<1>2. CASE ~(Len(l) < 2) /\ key \notin c.keys
  <2>1. GetLogPDF(c, l, k) = r
    BY <1>2 DEF GetLogPDF, CacheSet
  <2>2. MaxCondSet \in Nat /\ Len(l) \in 0..MaxCondSet+1 /\ key[1] = l
    BY PCAssumption DEF Key
  <2> DEFINE M == 0..MaxCondSet+1
  <2>3. /\ c.strata \in [M -> SUBSET c.keys]
        /\ c.keys = UNION {c.strata[m] : m \in M}
        /\ \A m \in M : \A x \in c.strata[m] : Len(x[1]) = m
    BY DEF WellKept
  <2>4. r.keys = c.keys \cup {key} /\ r.strata = [c.strata EXCEPT ![Len(l)] = @ \cup {key}]
    OBVIOUS
  <2> HIDE DEF r, key
  <2>5. r.strata \in [M -> SUBSET r.keys]
    BY <2>2, <2>3, <2>4
  <2>6. \A m \in M : r.strata[m] = IF m = Len(l) THEN c.strata[m] \cup {key} ELSE c.strata[m]
    BY <2>2, <2>3, <2>4
  <2>7. r.keys = UNION {r.strata[m] : m \in M}
    <3>1. \A x \in r.keys : \E m \in M : x \in r.strata[m]
      BY <2>2, <2>3, <2>4, <2>6
    <3> QED
      BY <2>5, <3>1
  <2>8. \A m \in M : \A x \in r.strata[m] : Len(x[1]) = m
    BY <2>2, <2>3, <2>6
  <2>9. WellKept(r)
    BY <2>5, <2>7, <2>8 DEF WellKept
  <2>10. \A x \in r.keys \ c.keys : Len(x[1]) >= n
    BY <2>2, <2>4
  <2> QED
    BY <2>1, <2>4, <2>9, <2>10 DEF Grown
<1> QED
  BY <1>1, <1>2

LEMMA GrowsTwice ==
  ASSUME NEW c, NEW d, NEW e, NEW n, Grown(c, d, n), Grown(d, e, n)
  PROVE  Grown(c, e, n)
BY DEF Grown

\* A test only adds densities of the variables it conditions on and of one or
\* both of its ends.
LEMMA TestGrows ==
  ASSUME NEW c, WellKept(c), NEW e \in Edge, NEW X \in Seq(Node), Len(X) < MaxCondSet
  PROVE  Grown(c, GetLogPDFs(c, e, X), Len(X))
<1> DEFINE k == K[Len(X) + 2]
           l2 == Append(X, Ends[e][1])
           l3 == Append(X, Ends[e][2])
           l4 == Append(l2, Ends[e][2])
           c1 == GetLogPDF(c, X, k)
           c2 == GetLogPDF(c1, l2, k)
           c3 == GetLogPDF(c2, l3, k)
           c4 == GetLogPDF(c3, l4, k)
<1>1. GetLogPDFs(c, e, X) = c4
  BY DEF GetLogPDFs
<1>2. /\ Len(X) \in Nat /\ Len(X) + 1 <= MaxCondSet
      /\ \A l \in {X, l2, l3, l4} :
            l \in Seq(Node) /\ Len(X) <= Len(l) /\ Len(l) <= MaxCondSet + 1
  <2>1. Ends[e][1] \in Node /\ Ends[e][2] \in Node /\ MaxCondSet \in Nat
    BY SearchAssumption, PCAssumption
  <2> QED
    BY <2>1
<1> HIDE DEF k, l2, l3, l4
<1>3. Grown(c, c1, Len(X))
  BY <1>2, StoringGrows
<1>4. Grown(c1, c2, Len(X))
  <2>1. WellKept(c1)
    BY <1>3 DEF Grown
  <2> HIDE DEF c1
  <2> QED
    BY <1>2, <2>1, StoringGrows
<1>5. Grown(c2, c3, Len(X))
  <2>1. WellKept(c2)
    BY <1>4 DEF Grown
  <2> HIDE DEF c2
  <2> QED
    BY <1>2, <2>1, StoringGrows
<1>6. Grown(c3, c4, Len(X))
  <2>1. WellKept(c3)
    BY <1>5 DEF Grown
  <2> HIDE DEF c3
  <2> QED
    BY <1>2, <2>1, StoringGrows
<1> HIDE DEF c1, c2, c3, c4
<1>7. Grown(c, c3, Len(X))
  BY <1>3, <1>4, <1>5, GrowsTwice
<1> QED
  BY <1>1, <1>6, <1>7, GrowsTwice

\* clearLevel forgets the densities of its level, and no other.
LEMMA ClearForgets ==
  ASSUME NEW c, WellKept(c), NEW n \in 0..MaxCondSet+1
  PROVE  /\ WellKept(ClearLevel(c, n))
         /\ ClearLevel(c, n).keys = {key \in c.keys : Len(key[1]) # n}
<1> DEFINE M == 0..MaxCondSet+1
           r == [keys |-> c.keys \ c.strata[n], strata |-> [c.strata EXCEPT ![n] = {}]]
<1>1. /\ c.strata \in [M -> SUBSET c.keys]
      /\ c.keys = UNION {c.strata[m] : m \in M}
      /\ \A m \in M : \A x \in c.strata[m] : Len(x[1]) = m
  BY DEF WellKept
<1>2. ClearLevel(c, n) = r
  BY <1>1 DEF ClearLevel
<1>3. r.keys = c.keys \ c.strata[n] /\ r.strata = [c.strata EXCEPT ![n] = {}]
  OBVIOUS
<1> HIDE DEF r
<1>4. \A x \in c.keys : x \in c.strata[n] <=> Len(x[1]) = n
  BY <1>1
<1>5. \A m \in M : r.strata[m] = IF m = n THEN {} ELSE c.strata[m]
  BY <1>1, <1>3
<1>6. r.strata \in [M -> SUBSET r.keys]
  <2>1. \A m \in M : r.strata[m] \subseteq r.keys
    BY <1>1, <1>3, <1>4, <1>5
  <2> QED
    BY <1>1, <1>3, <2>1
<1>7. r.keys = UNION {r.strata[m] : m \in M}
  <2>1. \A x \in r.keys : \E m \in M : x \in r.strata[m]
    BY <1>1, <1>3, <1>5
  <2> QED
    BY <1>6, <2>1
<1>8. WellKept(r)
  BY <1>1, <1>5, <1>6, <1>7 DEF WellKept
<1> QED
  BY <1>2, <1>3, <1>4, <1>8

-----------------------------------------------------------------------------
\* The positions the running search goes through, and the result it gets at each.
Combinations == Coords(Len(search.base), size)
ResultAt(c) == sample[search.edge][NodesAt(search.base, c, size)]
Tried(c) == search.it.carry = TRUE \/ Before(c, search.it.coord, size)

SearchShape ==
  Searching =>
    /\ search \in [edge : DOMAIN intersections, base : Seq(Node),
                   it : [coord : Combinations, carry : BOOLEAN], pmax : Int, tmax : Int]
    /\ ToSet(search.base) = intersections[search.edge]
    /\ Len(search.base) = Cardinality(intersections[search.edge])

\* An edge to visit has a conditioning set of the size that is searched.
RoomForSets ==
  \A e \in DOMAIN intersections :
     size < MaxCondSet /\ size <= Cardinality(intersections[e])

\* What the running search keeps is that of largest p-value of the tests it
\* made, all of which found dependence.
LargestTried ==
  Searching =>
    /\ \A c \in Combinations :
         Tried(c) => ~Independent(ResultAt(c)) /\ PValue(ResultAt(c)) <= search.pmax
    /\ \/ search.it.carry = FALSE /\ search.pmax = -1
       \/ \E c \in Combinations : search.tmax = ResultAt(c) /\ search.pmax = PValue(ResultAt(c))

\* What was forgotten is shorter than the tests to come.
ForgottenShort ==
  /\ cache.keys \subseteq computed
  /\ \A key \in computed : Len(key[1]) \in Nat
  /\ size < MaxCondSet => \A key \in computed \ cache.keys : Len(key[1]) < size

SearchInv ==
  /\ SearchShape
  /\ RoomForSets
  /\ LargestTried
  /\ WellKept(cache)
  /\ NoUselessDensity
  /\ ForgottenShort

\* The running search, unfolded.
LEMMA Running ==
  ASSUME TypeOK, SearchShape, Searching
  PROVE  /\ search.edge \in DOMAIN intersections /\ search.edge \in Edge
         /\ intersections[search.edge] \subseteq Node
         /\ search.base \in Seq(Node)
         /\ ToSet(search.base) = intersections[search.edge]
         /\ Len(search.base) = Cardinality(intersections[search.edge])
         /\ Len(search.base) \in Nat /\ size \in Nat
         /\ search.it = [coord |-> search.it.coord, carry |-> search.it.carry]
         /\ search.it.coord \in Combinations /\ search.it.carry \in BOOLEAN
         /\ search.pmax \in Int
<1>1. /\ search \in [edge : DOMAIN intersections, base : Seq(Node),
                     it : [coord : Combinations, carry : BOOLEAN], pmax : Int, tmax : Int]
      /\ ToSet(search.base) = intersections[search.edge]
      /\ Len(search.base) = Cardinality(intersections[search.edge])
  BY DEF SearchShape
<1>2. /\ search.edge \in DOMAIN intersections /\ search.base \in Seq(Node)
      /\ search.it \in [coord : Combinations, carry : BOOLEAN]
      /\ search.pmax \in Int
  BY <1>1
<1>3. DOMAIN intersections \subseteq Edge /\ size \in Nat /\ intersections[search.edge] \subseteq Node
  BY <1>2, PCAssumption DEF TypeOK
<1> QED
  BY <1>1, <1>2, <1>3

\* The test of the running search, and the results of its tests.
LEMMA TestedAt ==
  ASSUME TypeOK, SearchShape, Searching
  PROVE  /\ Tested \in Seq(Node) /\ Len(Tested) = size
         /\ ToSet(Tested) = NodesAt(search.base, search.it.coord, size)
         /\ TestedT = ResultAt(search.it.coord)
         /\ \A c \in Combinations :
              /\ NodesAt(search.base, c, size) \in Subsets(intersections[search.edge], size)
              /\ ResultAt(c) \in Int /\ PValue(ResultAt(c)) \in Nat
              /\ Independent(ResultAt(c)) <=> PValue(ResultAt(c)) >= Alpha
<1> DEFINE d == search.it.coord
           len == Len(search.base)
<1>1. /\ size \in Nat /\ len \in Nat /\ d \in Coords(len, size)
      /\ search.base \in [1..len -> Node] /\ search.edge \in Edge
  <2>1. /\ size \in Nat /\ len \in Nat /\ d \in Coords(len, size)
        /\ search.base \in Seq(Node) /\ search.edge \in Edge
    BY Running DEF Combinations
  <2> QED
    BY <2>1
<1>2. d \in [1..size -> 1..len]
  BY <1>1, CoordsBounded
<1>3. Tested = [i \in 1..size |-> search.base[d[i]]]
  BY <1>2 DEF Tested, Current
<1>4. /\ Tested \in Seq(Node) /\ Len(Tested) = size
      /\ ToSet(Tested) = NodesAt(search.base, d, size)
  <2>1. \A i \in 1..size : search.base[d[i]] \in Node
    BY <1>1, <1>2
  <2>2. Tested \in [1..size -> Node]
    BY <1>3, <2>1
  <2>3. Tested \in Seq(Node) /\ Len(Tested) = size /\ DOMAIN Tested = 1..size
    BY <1>1, <2>2
  <2> QED
    BY <1>3, <2>3 DEF ToSet, NodesAt
<1>5. TestedT = ResultAt(d)
  BY <1>4 DEF TestedT, ResultAt
<1>6. ASSUME NEW c \in Combinations
      PROVE  /\ NodesAt(search.base, c, size) \in Subsets(intersections[search.edge], size)
             /\ ResultAt(c) \in Int /\ PValue(ResultAt(c)) \in Nat
             /\ Independent(ResultAt(c)) <=> PValue(ResultAt(c)) >= Alpha
  <2>1. NodesAt(search.base, c, size) \in Subsets(intersections[search.edge], size)
    BY Running, ListHasSize DEF Combinations
  <2>2. NodesAt(search.base, c, size) \in SUBSET Node
    BY <2>1, Running DEF Subsets
  <2>3. sample \in Sample
    BY DEF TypeOK
  <2> QED
    BY <1>1, <2>1, <2>2, <2>3, TestTyped DEF ResultAt
<1> QED
  BY <1>4, <1>5, <1>6

-----------------------------------------------------------------------------
LEMMA SearchInitInv == SearchInit => SearchInv
<1> SUFFICES ASSUME SearchInit PROVE SearchInv
  OBVIOUS
<1>1. MaxCondSet \in Nat
  BY PCAssumption
<1>2. ~Searching
  BY DEF SearchInit, Searching, Idle
<1>3. RoomForSets
  <2>1. size = 0 /\ intersections = Snapshot(Edge, 0)
    BY DEF SearchInit, Init
  <2> QED
    BY <2>1 DEF RoomForSets, Snapshot
<1>4. cache.keys = {} /\ cache.strata = [n \in 0..MaxCondSet+1 |-> {}] /\ computed = {}
  BY DEF SearchInit, EmptyCache
<1>5. WellKept(cache)
  BY <1>4 DEF WellKept
<1> QED
  BY <1>2, <1>3, <1>4, <1>5
  DEF SearchInv, SearchShape, LargestTried, NoUselessDensity, ForgottenShort

\* The parts of the invariant on the cache survive a step that does not move it.
LEMMA CacheStays ==
  ASSUME SearchInv, UNCHANGED <<size, cache, computed>>
  PROVE  WellKept(cache)' /\ NoUselessDensity' /\ ForgottenShort'
BY DEF SearchInv, WellKept, NoUselessDensity, ForgottenShort

\* A test leaves the cache as the invariant wants it, and computes nothing
\* that was computed before.
LEMMA TestKeepsCache ==
  ASSUME TypeOK, SearchInv, CallTester, UNCHANGED size
  PROVE  /\ WellKept(cache)' /\ NoUselessDensity' /\ ForgottenShort'
         /\ \A key \in cache'.keys \ cache.keys : key \notin computed
<1>1. Searching /\ TypeOK /\ SearchShape
  BY DEF CallTester, SearchInv
<1>2. Tested \in Seq(Node) /\ Len(Tested) = size /\ search.edge \in Edge /\ size < MaxCondSet
  BY <1>1, TestedAt, Running DEF SearchInv, RoomForSets
<1>3. /\ cache' = GetLogPDFs(cache, search.edge, Tested)
      /\ computed' = computed \cup cache'.keys
  BY DEF CallTester
<1>4. Grown(cache, cache', size)
  BY <1>2, <1>3, TestGrows DEF SearchInv
<1>5. /\ WellKept(cache') /\ cache.keys \subseteq cache'.keys
      /\ \A key \in cache'.keys \ cache.keys : Len(key[1]) >= size
  BY <1>4 DEF Grown
<1>6. size \in Nat /\ \A key \in cache'.keys : Len(key[1]) \in Nat
  BY <1>1, <1>5, KeyLength, Running, PCAssumption
<1>7. /\ \A key \in cache.keys : Len(key[1]) >= size
      /\ \A key \in computed : Len(key[1]) \in Nat
      /\ \A key \in computed \ cache.keys : Len(key[1]) < size
      /\ cache.keys \subseteq computed
  BY <1>2 DEF SearchInv, NoUselessDensity, ForgottenShort
<1>8. \A key \in cache'.keys \ cache.keys : key \notin computed
  BY <1>5, <1>6, <1>7
<1>9. NoUselessDensity'
  BY <1>5, <1>7 DEF NoUselessDensity
<1>10. ForgottenShort'
  BY <1>3, <1>5, <1>6, <1>7 DEF ForgottenShort
<1>11. WellKept(cache)'
  BY <1>5 DEF WellKept
<1> QED
  BY <1>8, <1>9, <1>10, <1>11

\* A search that starts has its room, and made no test yet.
LEMMA BeginStep ==
  ASSUME TypeOK, SearchInv, NEW e \in Edge, BeginSearch(e)
  PROVE  SearchInv' /\ UNCHANGED vars
<1>1. PICK base \in FromNodeSet(intersections[e]) :
        search' = [edge |-> e, base |-> base, it |-> First(size), pmax |-> -1, tmax |-> 0]
  BY DEF BeginSearch
<1>2. /\ e \in DOMAIN intersections /\ UNCHANGED vars /\ UNCHANGED <<size, cache, computed>>
      /\ size' = size /\ intersections' = intersections /\ sample' = sample
  BY DEF BeginSearch, vars
<1> DEFINE I == intersections[e]
           first == [i \in 1..size |-> i]
<1>3. I \subseteq Node /\ size \in Nat
  BY <1>2, PCAssumption DEF TypeOK
<1>4. base \in Seq(Node) /\ ToSet(base) = I /\ Len(base) = Cardinality(I) /\ Len(base) \in Nat
  <2>1. PICK l \in Listings : base = l[I]
    BY DEF FromNodeSet
  <2>2. l \in [SUBSET Node -> Seq(Node)] /\ I \in SUBSET Node
    BY <1>3, SearchAssumption
  <2> QED
    BY <2>1, <2>2, SearchAssumption
<1>5. size <= Len(base)
  BY <1>2, <1>4 DEF SearchInv, RoomForSets
<1>6. search'.edge = e /\ search'.base = base /\ search'.it = [coord |-> first, carry |-> FALSE]
      /\ search'.pmax = -1 /\ search'.tmax = 0
  BY <1>1 DEF First
<1>7. first \in Coords(Len(base), size)
  BY <1>3, <1>4, <1>5 DEF Coords
<1>8. SearchShape'
  <2>1. search' \in [edge : DOMAIN intersections, base : Seq(Node),
                     it : [coord : Coords(Len(base), size), carry : BOOLEAN], pmax : Int, tmax : Int]
    <3>1. First(size) \in [coord : Coords(Len(base), size), carry : BOOLEAN]
      BY <1>7 DEF First
    <3> QED
      BY <1>1, <1>2, <1>4, <3>1
  <2> QED
    BY <1>2, <1>4, <1>6, <2>1 DEF SearchShape, Combinations
<1>9. ASSUME NEW c \in Coords(Len(base), size)
      PROVE  ~Before(c, first, size)
  <2>1. \A p \in 1..size : p <= c[p] /\ c[p] \in Int
    BY <1>3, <1>4, CoordsBounded
  <2> QED
    BY <2>1 DEF Before
<1>10. LargestTried'
  <2>1. search'.it.carry = FALSE /\ search'.it.coord = first
    BY <1>6
  <2>2. \A c \in Combinations' : ~Tried(c)'
    BY <1>2, <1>6, <1>9, <2>1 DEF Combinations, Tried
  <2> QED
    BY <1>6, <2>1, <2>2 DEF LargestTried
<1>11. RoomForSets'
  BY <1>2 DEF SearchInv, RoomForSets
<1> QED
  BY <1>2, <1>8, <1>10, <1>11, CacheStays DEF SearchInv

\* An edge fewer to visit leaves room for the others.
LEMMA RoomStays ==
  ASSUME RoomForSets, NEW e, Visited(e), UNCHANGED size
  PROVE  RoomForSets'
BY DEF RoomForSets, Visited

\* The test that finds independence is one that Separate may choose.
LEMMA FindStep ==
  ASSUME TypeOK, SearchInv, FindSeparator
  PROVE  /\ SearchInv'
         /\ \E e \in Edge : Separate(e)
         /\ \A key \in cache'.keys \ cache.keys : key \notin computed
<1> DEFINE e == search.edge
           S == ToSet(Tested)
<1>1. CallTester /\ Searching /\ SearchShape /\ UNCHANGED size
  BY DEF FindSeparator, CallTester, SearchInv
<1>2. e \in DOMAIN intersections /\ e \in Edge /\ search.it.coord \in Combinations
  BY <1>1, Running
<1>3. S \in Subsets(intersections[e], size) /\ TestedT = sample[e][S]
  BY <1>1, <1>2, TestedAt DEF TestedT
<1>4. S \in Separators(e)
  BY <1>3 DEF Separators, FindSeparator
<1>5. Separate(e)
  BY <1>2, <1>3, <1>4 DEF Separate, FindSeparator
<1>6. ~Searching'
  BY DEF FindSeparator, Idle, Searching
<1>7. RoomForSets'
  BY <1>1, RoomStays DEF FindSeparator, SearchInv
<1> QED
  BY <1>1, <1>2, <1>5, <1>6, <1>7, TestKeepsCache DEF SearchInv, SearchShape, LargestTried

\* A test that finds dependence joins those made; the next positions leave
\* out none.
LEMMA TryStep ==
  ASSUME TypeOK, SearchInv, TryNext
  PROVE  /\ SearchInv'
         /\ UNCHANGED vars
         /\ \A key \in cache'.keys \ cache.keys : key \notin computed
<1> DEFINE c == search.it.coord
           len == Len(search.base)
           r == Advance(search.it, len, size)
           p == PValue(TestedT)
<1>1. /\ CallTester /\ Searching /\ SearchShape /\ LargestTried /\ ~Independent(TestedT)
      /\ UNCHANGED vars /\ UNCHANGED <<size, sample, intersections>>
  BY DEF TryNext, CallTester, SearchInv, vars
<1>2. /\ search.edge \in DOMAIN intersections /\ search.base \in Seq(Node)
      /\ len \in Nat /\ size \in Nat
      /\ c \in Coords(len, size) /\ search.it.carry = FALSE
      /\ search.it = [coord |-> c, carry |-> FALSE]
      /\ search.pmax \in Int
  <2>1. search.it.carry = FALSE
    BY <1>1, Running DEF CallTester, IsLast
  <2> QED
    BY <1>1, <2>1, Running DEF Combinations
<1>3. /\ TestedT = ResultAt(c) /\ TestedT \in Int /\ p \in Nat
  BY <1>1, <1>2, TestedAt DEF Combinations
<1>4. search' = [search EXCEPT !.it = r,
                               !.pmax = IF p > search.pmax THEN p ELSE search.pmax,
                               !.tmax = IF p > search.pmax THEN TestedT ELSE search.tmax]
  BY DEF TryNext
<1>5. /\ r.coord \in Coords(len, size) /\ r.carry \in BOOLEAN
      /\ \A d \in Coords(len, size) :
            r.carry = TRUE \/ Before(d, r.coord, size) => d = c \/ Before(d, c, size)
  <2>1. r = Advance([coord |-> c, carry |-> FALSE], len, size)
    BY <1>2
  <2> HIDE DEF r, c, len
  <2> QED
    BY <1>2, <2>1, AdvanceSkipsNone
<1>6. r = [coord |-> r.coord, carry |-> r.carry]
  BY <1>2 DEF Advance
<1> HIDE DEF r, p
<1>7. search \in [edge : DOMAIN intersections, base : Seq(Node),
                  it : [coord : Combinations, carry : BOOLEAN], pmax : Int, tmax : Int]
  BY <1>1 DEF SearchShape
<1>8. /\ search'.edge = search.edge /\ search'.base = search.base /\ search'.it = r
      /\ search'.pmax = (IF p > search.pmax THEN p ELSE search.pmax)
      /\ search'.tmax = (IF p > search.pmax THEN TestedT ELSE search.tmax)
  BY <1>4, <1>7
<1>9. /\ Combinations' = Combinations /\ c \in Combinations
      /\ \A d \in Combinations : ResultAt(d)' = ResultAt(d)
  BY <1>1, <1>2, <1>8 DEF Combinations, ResultAt
<1>10. SearchShape'
  <2>1. r \in [coord : Combinations, carry : BOOLEAN]
    BY <1>5, <1>6 DEF Combinations
  <2>2. search' \in [edge : DOMAIN intersections, base : Seq(Node),
                     it : [coord : Combinations, carry : BOOLEAN], pmax : Int, tmax : Int]
    <3> DEFINE pm == IF p > search.pmax THEN p ELSE search.pmax
               tm == IF p > search.pmax THEN TestedT ELSE search.tmax
    <3>1. pm \in Int /\ tm \in Int
      BY <1>2, <1>3, <1>7
    <3>2. search' = [search EXCEPT !.it = r, !.pmax = pm, !.tmax = tm]
      BY <1>4
    <3> HIDE DEF pm, tm
    <3> QED
      BY <1>7, <2>1, <3>1, <3>2
  <2> QED
    BY <1>1, <1>8, <1>9, <2>2 DEF SearchShape
<1>11. LargestTried'
  <2>1. ASSUME NEW d \in Combinations, Tried(d)'
        PROVE  ~Independent(ResultAt(d)) /\ PValue(ResultAt(d)) <= search'.pmax
    <3>1. r.carry = TRUE \/ Before(d, r.coord, size)
      BY <1>1, <1>8, <2>1 DEF Tried
    <3>2. d = c \/ Before(d, c, size)
      BY <1>5, <3>1 DEF Combinations
    <3>3. CASE d = c
      BY <1>1, <1>2, <1>3, <1>8, <3>3 DEF p
    <3>4. CASE Before(d, c, size)
      <4>1. ~Independent(ResultAt(d)) /\ PValue(ResultAt(d)) <= search.pmax
        BY <1>1, <3>4 DEF LargestTried, Tried
      <4>2. PValue(ResultAt(d)) \in Nat
        BY <1>1, TestedAt
      <4> QED
        BY <1>2, <1>3, <1>8, <4>1, <4>2
    <3> QED
      BY <3>2, <3>3, <3>4
  <2>2. \E d \in Combinations : search'.tmax = ResultAt(d) /\ search'.pmax = PValue(ResultAt(d))
    <3>1. CASE p > search.pmax
      BY <1>3, <1>8, <1>9, <3>1 DEF p
    <3>2. CASE ~(p > search.pmax)
      <4>1. search.pmax # -1
        BY <1>2, <1>3, <3>2
      <4>2. \E d \in Combinations : search.tmax = ResultAt(d) /\ search.pmax = PValue(ResultAt(d))
        BY <1>1, <4>1 DEF LargestTried
      <4> QED
        BY <1>8, <3>2, <4>2
    <3> QED
      BY <3>1, <3>2
  <2>3. \A d \in Combinations' :
          Tried(d)' => ~Independent(ResultAt(d)') /\ PValue(ResultAt(d)') <= search'.pmax
    BY <1>9, <2>1
  <2>4. \E d \in Combinations' :
          search'.tmax = ResultAt(d)' /\ search'.pmax = PValue(ResultAt(d)')
    BY <1>9, <2>2
  <2> QED
    BY <2>3, <2>4 DEF LargestTried, Independent, PValue
<1>12. RoomForSets'
  BY <1>1 DEF SearchInv, RoomForSets
<1> QED
  BY <1>1, <1>10, <1>11, <1>12, TestKeepsCache DEF SearchInv

\* When the enumeration is over every conditioning set was tried: the edge is
\* kept with the largest of their p-values, as Keep does.
LEMMA ExhaustStep ==
  ASSUME TypeOK, SearchInv, ExhaustSearch
  PROVE  /\ SearchInv'
         /\ \E e \in Edge : Keep(e)
<1> DEFINE e == search.edge
           I == intersections[e]
<1>1. /\ Searching /\ SearchShape /\ LargestTried /\ search.it.carry = TRUE
      /\ UNCHANGED size
  <2>1. Searching /\ SearchShape /\ LargestTried /\ search.it.carry /\ UNCHANGED size
    BY DEF ExhaustSearch, SearchInv, IsLast
  <2> QED
    BY <2>1, Running
<1>2. /\ e \in DOMAIN intersections /\ e \in Edge /\ I \subseteq Node /\ size \in Nat
      /\ search.base \in Seq(Node) /\ ToSet(search.base) = I /\ Len(search.base) = Cardinality(I)
  BY <1>1, Running
<1>3. ASSUME NEW S \in Subsets(I, size)
      PROVE  ~Independent(sample[e][S]) /\ PValue(sample[e][S]) <= search.pmax
  <2>1. PICK c \in Combinations : NodesAt(search.base, c, size) = S
    BY <1>2, EverySubsetListed DEF Combinations
  <2>2. ~Independent(ResultAt(c)) /\ PValue(ResultAt(c)) <= search.pmax
    BY <1>1 DEF LargestTried, Tried
  <2> QED
    BY <2>1, <2>2 DEF ResultAt
<1>4. PICK d \in Combinations : search.tmax = ResultAt(d) /\ search.pmax = PValue(ResultAt(d))
  BY <1>1 DEF LargestTried
<1> DEFINE R == NodesAt(search.base, d, size)
<1>5. R \in Subsets(I, size) /\ search.tmax = sample[e][R] /\ search.pmax = PValue(sample[e][R])
  BY <1>1, <1>4, TestedAt DEF ResultAt
<1>6. R \in SUBSET Node /\ LargestPValue(e, R)
  BY <1>2, <1>3, <1>5 DEF LargestPValue, Subsets
<1>7. Separators(e) = {}
  BY <1>3 DEF Separators
<1> HIDE DEF R
<1>8. Keep(e)
  <2>1. /\ pvalues' = Set(pvalues, e, Larger(Get(pvalues, e, 0), PValue(sample[e][R])))
        /\ ttests' = Set(ttests, e, Larger(Get(ttests, e, -10000), sample[e][R]))
        /\ Visited(e)
        /\ UNCHANGED <<sample, size, graph, sepset, removed>>
    BY <1>5 DEF ExhaustSearch
  <2> QED
    BY <1>2, <1>6, <1>7, <2>1 DEF Keep
<1>9. ~Searching'
  BY DEF ExhaustSearch, Idle, Searching
<1>10. RoomForSets' /\ WellKept(cache)' /\ NoUselessDensity' /\ ForgottenShort'
  BY <1>1, RoomStays, CacheStays DEF ExhaustSearch, SearchInv
<1> QED
  BY <1>2, <1>8, <1>9, <1>10 DEF SearchInv, SearchShape, LargestTried

\* The level forgotten when a size begins is that of the lists too short to
\* be asked for again.
LEMMA LevelStep ==
  ASSUME TypeOK, SearchInv, NextLevel
  PROVE  /\ SearchInv'
         /\ NextSize
         /\ cache'.keys \subseteq cache.keys
<1>1. /\ ~Searching /\ NextSize /\ UNCHANGED <<search, computed>>
      /\ size' = size + 1 /\ intersections' = Snapshot(graph, size + 1) /\ size < MaxCondSet
  BY DEF NextLevel, NextSize
<1>2. ~Searching'
  BY <1>1 DEF Searching
<1>3. size \in Nat /\ MaxCondSet \in Nat /\ size \in 0..MaxCondSet+1
  BY PCAssumption DEF TypeOK
<1>4. RoomForSets'
  BY <1>1, <1>3 DEF RoomForSets, Snapshot
<1>5. CASE size' < MaxCondSet
  <2>1. cache' = ClearLevel(cache, size)
    BY <1>5 DEF NextLevel
  <2>2. /\ WellKept(cache') /\ cache'.keys = {key \in cache.keys : Len(key[1]) # size}
    BY <1>3, <2>1, ClearForgets DEF SearchInv
  <2>3. /\ \A key \in cache.keys : Len(key[1]) >= size
        /\ \A key \in computed : Len(key[1]) \in Nat
        /\ \A key \in computed \ cache.keys : Len(key[1]) < size
        /\ cache.keys \subseteq computed
    BY <1>1 DEF SearchInv, NoUselessDensity, ForgottenShort
  <2>4. NoUselessDensity'
    BY <1>1, <1>3, <2>2, <2>3 DEF NoUselessDensity
  <2>5. ForgottenShort'
    BY <1>1, <1>3, <2>2, <2>3 DEF ForgottenShort
  <2>6. WellKept(cache)'
    BY <2>2 DEF WellKept
  <2> QED
    BY <1>1, <1>2, <1>4, <2>2, <2>4, <2>5, <2>6 DEF SearchInv, SearchShape, LargestTried
<1>6. CASE ~(size' < MaxCondSet)
  <2>1. cache' = cache
    BY <1>6 DEF NextLevel
  <2>2. WellKept(cache)' /\ NoUselessDensity' /\ ForgottenShort'
    BY <1>1, <1>6, <2>1 DEF SearchInv, WellKept, NoUselessDensity, ForgottenShort
  <2> QED
    BY <1>1, <1>2, <1>4, <2>1, <2>2 DEF SearchInv, SearchShape, LargestTried
<1> QED
  BY <1>5, <1>6

LEMMA SearchStutter ==
  ASSUME SearchInv, UNCHANGED searchVars
  PROVE  SearchInv'
<1>1. UNCHANGED <<sample, size, intersections, search, cache, computed>>
  BY DEF searchVars, vars
<1> QED
  BY <1>1 DEF SearchInv, SearchShape, RoomForSets, LargestTried, WellKept, NoUselessDensity,
              ForgottenShort, Searching, Combinations, Tried, ResultAt

\* Each step of the search is a visit of the skeleton search or moves none of
\* its variables, keeps the invariant, and computes no density again.
LEMMA SearchStep ==
  ASSUME IndInv, SearchInv, [SearchNext]_searchVars
  PROVE  /\ IndInv' /\ SearchInv'
         /\ Next \/ UNCHANGED vars
         /\ \A key \in cache'.keys \ cache.keys : key \notin computed
<1>1. TypeOK
  BY DEF IndInv
<1>2. /\ SearchInv'
      /\ Next \/ UNCHANGED vars
      /\ \A key \in cache'.keys \ cache.keys : key \notin computed
  <2>1. ASSUME NEW e \in Edge, BeginSearch(e)
        PROVE  SearchInv' /\ UNCHANGED vars /\ cache' = cache
    BY <1>1, <2>1, BeginStep DEF BeginSearch
  <2>2. CASE FindSeparator
    BY <1>1, <2>2, FindStep DEF Next
  <2>3. CASE TryNext
    BY <1>1, <2>3, TryStep
  <2>4. CASE ExhaustSearch
    <3>1. cache' = cache
      BY <2>4 DEF ExhaustSearch
    <3> QED
      BY <1>1, <2>4, <3>1, ExhaustStep DEF Next
  <2>5. CASE NextLevel
    BY <1>1, <2>5, LevelStep DEF Next
  <2>6. CASE UNCHANGED searchVars
    <3>1. UNCHANGED vars /\ cache' = cache
      BY <2>6 DEF searchVars
    <3> QED
      BY <2>6, <3>1, SearchStutter
  <2> QED
    BY <2>1, <2>2, <2>3, <2>4, <2>5, <2>6 DEF SearchNext, SearchDone
<1>3. IndInv'
  BY <1>2, NextInv
<1> QED
  BY <1>2, <1>3

LEMMA SearchInvHolds == SearchSpec => [](IndInv /\ SearchInv)
<1>1. SearchInit => IndInv /\ SearchInv
  BY InitInv, SearchInitInv DEF SearchInit
<1>2. IndInv /\ SearchInv /\ [SearchNext]_searchVars => (IndInv /\ SearchInv)'
  BY SearchStep
<1> QED
  BY <1>1, <1>2, PTL DEF SearchSpec

-----------------------------------------------------------------------------
\* The loop of getSeparator does what PCSkeleton says of a visit: it returns a
\* separator only if a test of the right size found one, and gives the edge up
\* only when next() has led it through every such set, with the
\* largest p-value and its statistic.  (SkeletonSpec adds fairness to this.)
THEOREM SearchImplementsVisits == SearchSpec => Init /\ [][Next]_vars
<1>1. SearchInit => Init
  BY DEF SearchInit
<1>2. IndInv /\ SearchInv /\ [SearchNext]_searchVars => [Next]_vars
  BY SearchStep
<1> QED
  BY <1>1, <1>2, SearchInvHolds, PTL DEF SearchSpec

\* The iterator of getSeparator always stands on positions of its list, and
\* lists the common neighbours of an edge that is still to visit.
THEOREM IteratorStaysInside == SearchSpec => []SearchTypeOK
<1>1. IndInv /\ SearchInv => SearchTypeOK
  <2> SUFFICES ASSUME IndInv, SearchInv PROVE SearchTypeOK
    OBVIOUS
  <2>1. TypeOK /\ SearchShape /\ cache.keys \subseteq computed
    BY DEF IndInv, SearchInv, ForgottenShort
  <2>2. Searching => /\ search.edge \in DOMAIN intersections
                     /\ search.it.coord \in Combinations
                     /\ search.it.carry \in BOOLEAN
    BY <2>1, Running
  <2> QED
    BY <2>1, <2>2 DEF SearchTypeOK, Combinations
<1> QED
  BY <1>1, SearchInvHolds, PTL

\* In the StratifiedCache of the tester every density is listed on one level.
THEOREM LevelsPartitionKeys == SearchSpec => []CacheConsistent
<1>1. SearchInv => CacheConsistent
  <2> SUFFICES ASSUME SearchInv PROVE CacheConsistent
    OBVIOUS
  <2> DEFINE M == 0..MaxCondSet+1
  <2>1. /\ cache.strata \in [M -> SUBSET cache.keys]
        /\ cache.keys = UNION {cache.strata[n] : n \in M}
        /\ \A n \in M : \A key \in cache.strata[n] : Len(key[1]) = n
    BY DEF SearchInv, WellKept
  <2>2. DOMAIN cache.strata = M
    BY <2>1
  <2> HIDE DEF M
  <2> QED
    BY <2>1, <2>2 DEF CacheConsistent
<1> QED
  BY <1>1, SearchInvHolds, PTL

\* Once inferSkeleton begins a size, the cache holds nothing shorter than the
\* lists that size conditions on.
THEOREM CacheHoldsNothingUseless == SearchSpec => []NoUselessDensity
BY SearchInvHolds, PTL DEF SearchInv

\* What clearCacheLevel forgets is not asked for again.
THEOREM NothingForgottenIsNeeded == SearchSpec => NoDensityTwice
<1>1. IndInv /\ SearchInv /\ [SearchNext]_searchVars
        => [\A key \in cache'.keys \ cache.keys : key \notin computed]_searchVars
  BY SearchStep
<1> QED
  BY <1>1, SearchInvHolds, PTL DEF SearchSpec, NoDensityTwice
=============================================================================
