---------------------------- MODULE TabuListProofs ----------------------------
(***************************************************************************)
(* The DAGs of TabuList stay legal for every number of variables, every    *)
(* limit on parents, every sample and every sequence of changes.  Each     *)
(* change is one of three moves on a graph; a lemma per move shows that    *)
(* the test that findBestChange makes before it is enough: no path may     *)
(* lead back from the head of the new arc, and the head must have room for *)
(* one more parent.  The DAG given may be past the limit: a node that is   *)
(* has no room, and so only loses parents until it is back.                *)
(*                                                                         *)
(* The second part is about the scores.  BIC is a sum over the nodes, the  *)
(* learner adds differences, one per arc: BICOfChange shows that each      *)
(* difference is the right one, ComputeScoreIsBIC that a DAG added arc by  *)
(* arc has its BIC whatever the order, and the invariant ScoreInv carries  *)
(* that through the runs.                                                  *)
(***************************************************************************)
EXTENDS TabuList, CommonTheorems, SequenceTheorems

LimitKnown == maxParents \in ParentLimits

IndInv == LimitKnown /\ StaysLegal

\* The parents of a node are those of an arc into it.
LEMMA ParentsOf ==
  ASSUME NEW A, NEW x, NEW y
  PROVE  x \in Parents(A, y) <=> <<x, y>> \in A
BY ArcEnds DEF Parents

\* In a graph over the variables they are finitely many.
LEMMA ParentsFinite ==
  ASSUME NEW A, A \subseteq Arc, NEW y
  PROVE  IsFiniteSet(Parents(A, y)) /\ Cardinality(Parents(A, y)) \in Nat
<1>1. ASSUME NEW n \in Parents(A, y)
      PROVE  n \in Node
  <2> DEFINE a == <<n, y>>
  <2>1. a \in Arc /\ a[1] = n
    BY ParentsOf
  <2> QED
    BY <2>1 DEF Arc, ArcsOver
<1> QED
  BY <1>1, InformationAssumption, FS_Subset, FS_CardinalityType

\* Fewer arcs give no node more parents and close no cycle.
LEMMA EraseLegal ==
  ASSUME LimitKnown, NEW A, WithinLimit(A), NEW B, B \subseteq A
  PROVE  WithinLimit(B)
<1>1. A \subseteq Arc /\ B \subseteq Arc /\ maxParents \in Nat
  BY TabuAssumption DEF WithinLimit, LimitKnown
<1>2. Acyclic(B)
  BY AcyclicSubset DEF WithinLimit
<1>3. ASSUME NEW y \in Node
      PROVE  Cardinality(Parents(B, y)) <= maxParents \/ Parents(B, y) \subseteq Parents(excess, y)
  <2>1. Parents(B, y) \subseteq Parents(A, y)
    BY ParentsOf DEF Parents
  <2>2. /\ Cardinality(Parents(A, y)) \in Nat /\ Cardinality(Parents(B, y)) \in Nat
        /\ Cardinality(Parents(B, y)) <= Cardinality(Parents(A, y))
    BY <1>1, <2>1, ParentsFinite, FS_Subset
  <2>3. Cardinality(Parents(A, y)) <= maxParents \/ Parents(A, y) \subseteq Parents(excess, y)
    BY DEF WithinLimit
  <2> QED
    BY <1>1, <2>1, <2>2, <2>3
<1> QED
  BY <1>1, <1>2, <1>3 DEF WithinLimit

\* An arc whose head does not lead to its tail, and has room, may be added.
LEMMA AddLegal ==
  ASSUME LimitKnown, NEW A, WithinLimit(A), NEW x \in Node, NEW y \in Node, x # y,
         ~DirectedPath(A, y, x), Cardinality(Parents(A, y)) < maxParents
  PROVE  WithinLimit(A \cup {<<x, y>>})
<1> DEFINE B == A \cup {<<x, y>>}
<1>1. B \subseteq Arc /\ A \subseteq Arc /\ maxParents \in Nat
  BY TabuAssumption DEF WithinLimit, LimitKnown, Arc, ArcsOver
<1>2. Acyclic(B)
  <2>1. PICK T : y \in T /\ x \notin T /\ ClosedUnder(T, A)
    BY NoPath
  <2>2. Acyclic(A \cup {<<n, y>> : n \in {x}})
    <3> DEFINE X == {x}
    <3>1. X \cap T = {}
      BY <2>1
    <3> HIDE DEF X
    <3>2. Acyclic(A \cup {<<n, y>> : n \in X})
      BY <2>1, <3>1, AcyclicFanIn DEF WithinLimit
    <3> QED
      BY <3>2 DEF X
  <2>3. {<<n, y>> : n \in {x}} = {<<x, y>>}
    OBVIOUS
  <2> QED
    BY <2>2, <2>3
<1>3. ASSUME NEW z \in Node
      PROVE  Cardinality(Parents(B, z)) <= maxParents \/ Parents(B, z) \subseteq Parents(excess, z)
  <2>1. CASE z = y
    <3>1. Parents(B, z) = Parents(A, z) \cup {x}
      <4>1. \A n : n \in Parents(B, z) <=> <<n, z>> \in B
        BY ParentsOf
      <4>2. \A n : n \in Parents(A, z) <=> <<n, z>> \in A
        BY ParentsOf
      <4> QED
        BY <2>1, <4>1, <4>2
    <3>2. IsFiniteSet(Parents(A, z)) /\ Cardinality(Parents(A, z)) \in Nat
      BY <1>1, ParentsFinite
    <3>3. \/ Cardinality(Parents(B, z)) = Cardinality(Parents(A, z))
          \/ Cardinality(Parents(B, z)) = Cardinality(Parents(A, z)) + 1
      <4> DEFINE P == Parents(A, z)
      <4> HIDE DEF P
      <4>1. IsFiniteSet(P)
        BY <3>2 DEF P
      <4>2. Cardinality(P \cup {x}) = Cardinality(P) \/ Cardinality(P \cup {x}) = Cardinality(P) + 1
        BY <4>1, FS_AddElement
      <4> QED
        BY <3>1, <4>2 DEF P
    <3> QED
      BY <1>1, <2>1, <3>2, <3>3
  <2>2. CASE z # y
    <3>1. \A n : n \in Parents(B, z) <=> <<n, z>> \in B
      BY ParentsOf
    <3>2. \A n : n \in Parents(A, z) <=> <<n, z>> \in A
      BY ParentsOf
    <3>3. Parents(B, z) = Parents(A, z)
      BY <2>2, <3>1, <3>2
    <3> QED
      BY <3>3 DEF WithinLimit
  <2> QED
    BY <2>1, <2>2
<1> QED
  BY <1>1, <1>2, <1>3 DEF WithinLimit

\* Every change that findBestChange may pick keeps the DAG legal.
LEMMA ChangeLegal ==
  ASSUME LimitKnown, NEW A, WithinLimit(A), NEW c \in LegalChanges(A)
  PROVE  WithinLimit(Apply(A, c))
<1>1. maxParents \in Nat
  BY TabuAssumption DEF LimitKnown
<1>2. CASE c \in Additions(A)
  <2>1. PICK a \in Arc \ A : c = Addition(a) /\ ~DirectedPath(A, a[2], a[1]) /\ HasRoom(A, a[2])
    BY <1>2 DEF Additions
  <2>2. a[1] \in Node /\ a[2] \in Node /\ a[1] # a[2] /\ a = <<a[1], a[2]>>
    BY DEF Arc, ArcsOver
  <2>3. WithinLimit(A \cup {<<a[1], a[2]>>})
    BY <1>1, <2>1, <2>2, AddLegal DEF HasRoom
  <2>4. Apply(A, c) = A \cup {<<a[1], a[2]>>}
    BY <2>1, <2>2 DEF Apply, Addition
  <2> QED
    BY <2>3, <2>4
<1>3. CASE c \in Deletions(A)
  <2>1. Apply(A, c) \subseteq A
    BY <1>3 DEF Deletions, Deletion, Apply
  <2> QED
    BY <2>1, EraseLegal
<1>4. CASE c \in Reversals(A)
  <2>1. PICK a \in A : /\ c = Reversal(a) /\ HasRoom(A, a[1])
                       /\ ~DirectedPath(A \ {a}, a[1], a[2])
    BY <1>4 DEF Reversals
  <2>2. a[1] \in Node /\ a[2] \in Node /\ a[1] # a[2] /\ A \subseteq Arc
    BY DEF WithinLimit, Arc, ArcsOver
  <2> DEFINE B == A \ {a}
  <2>3. WithinLimit(B)
    BY EraseLegal
  <2>4. Cardinality(Parents(B, a[1])) < maxParents
    <3>1. Parents(B, a[1]) \subseteq Parents(A, a[1])
      BY ParentsOf
    <3>2. /\ Cardinality(Parents(A, a[1])) \in Nat /\ Cardinality(Parents(B, a[1])) \in Nat
          /\ Cardinality(Parents(B, a[1])) <= Cardinality(Parents(A, a[1]))
      BY <2>2, <3>1, ParentsFinite, FS_Subset
    <3> QED
      BY <1>1, <2>1, <3>2 DEF HasRoom
  <2>5. WithinLimit(B \cup {<<a[2], a[1]>>})
    BY <2>1, <2>2, <2>3, <2>4, AddLegal
  <2>6. Apply(A, c) = B \cup {<<a[2], a[1]>>}
    BY <2>1 DEF Apply, Reversal, Flip
  <2> QED
    BY <2>5, <2>6
<1> QED
  BY <1>2, <1>3, <1>4 DEF LegalChanges

\* A DAG of randomDAG respects the limit.
LEMMA RandomLegal ==
  ASSUME NEW A, LegalDAG(A, maxParents)
  PROVE  WithinLimit(A)
BY DEF LegalDAG, WithinLimit
-----------------------------------------------------------------------------
\* The DAG given is within the limit but for its own excess.
LEMMA InitLegal == Init => IndInv
<1> SUFFICES ASSUME Init PROVE IndInv
  OBVIOUS
<1>1. LimitKnown /\ dag = {} /\ bestDag \subseteq Arc /\ Acyclic(bestDag)
      /\ excess = Excess(bestDag, maxParents)
  BY TabuAssumption DEF Init, LimitKnown
<1>2. ASSUME NEW y \in Node, ~(Cardinality(Parents(bestDag, y)) <= maxParents)
      PROVE  Parents(bestDag, y) \subseteq Parents(excess, y)
  <2> SUFFICES ASSUME NEW n \in Parents(bestDag, y) PROVE n \in Parents(excess, y)
    OBVIOUS
  <2> DEFINE a == <<n, y>>
  <2>1. a \in bestDag /\ a[2] = y
    BY ParentsOf
  <2>2. Cardinality(Parents(bestDag, y)) \in Nat /\ maxParents \in Nat
    BY <1>1, ParentsFinite, TabuAssumption DEF LimitKnown
  <2>3. a \in excess
    BY <1>1, <1>2, <2>1, <2>2 DEF Excess
  <2> QED
    BY <2>3, ParentsOf
<1>3. WithinLimit(bestDag)
  BY <1>1, <1>2 DEF WithinLimit
<1>4. WithinLimit(dag)
  BY <1>1, <1>3, EraseLegal
<1> QED
  BY <1>1, <1>3, <1>4 DEF IndInv, StaysLegal

LEMMA StepLegal == IndInv /\ [Next]_vars => IndInv'
<1> SUFFICES ASSUME IndInv, [Next]_vars PROVE IndInv'
  OBVIOUS
<1>0. ASSUME UNCHANGED <<maxParents, excess>>, WithinLimit(dag'), WithinLimit(bestDag')
      PROVE  IndInv'
  BY <1>0 DEF IndInv, LimitKnown, StaysLegal, WithinLimit
<1> USE DEF IndInv, StaysLegal
<1>1. CASE LearnDAG
  BY <1>0, <1>1 DEF LearnDAG, StartClimb
<1>2. ASSUME NEW c \in Change, Climb(c)
      PROVE  IndInv'
  BY <1>0, <1>2, ChangeLegal DEF Climb, Candidates
<1>3. CASE Converge
  BY <1>0, <1>3 DEF Converge
<1>4. CASE Restart
  BY <1>0, <1>4, RandomLegal DEF Restart, StartClimb
<1>5. CASE Finish
  BY <1>0, <1>5 DEF Finish
<1>6. ASSUME NEW m \in Modes, SetCMode(m)
      PROVE  IndInv'
  BY <1>0, <1>6 DEF SetCMode
<1>7. CASE UNCHANGED vars
  BY <1>0, <1>7 DEF vars
<1> QED
  BY <1>1, <1>2, <1>3, <1>4, <1>5, <1>6, <1>7 DEF Next, Learning

\* No sequence of changes closes a cycle in the DAG at hand or in the best
\* one, or gives one of their nodes more than max_parents_ parents but where
\* the DAG given did, and then none but those it gave.
THEOREM DAGStaysLegal == Spec => []StaysLegal
<1>1. IndInv => StaysLegal
  BY DEF IndInv
<1> QED
  BY InitLegal, StepLegal, <1>1, PTL DEF Spec
-----------------------------------------------------------------------------
\* The sums of f over the sets of N.
PartialSums(g, f, N) ==
  /\ g \in [SUBSET N -> Int]
  /\ g[{}] = 0
  /\ \A s \in SUBSET N : s # {} => g[s] = f[Pick(s)] + g[s \ {Pick(s)}]

\* A sum is built up element by element.
LEMMA SumUnfolds ==
  ASSUME NEW N, IsFiniteSet(N), NEW f \in [N -> Int]
  PROVE  \E g : PartialSums(g, f, N) /\ SumFunction(f) = g[N]
<1> DEFINE Body(g) == [s \in SUBSET N |->
              IF s = {} THEN 0
              ELSE f[Pick(s)] + g[s \ {Pick(s)}]]
           step == [p \in N \X Int |-> f[p[1]] + p[2]]
<1>1. step \in [N \X Int -> Int] /\ \A x \in N, v \in Int : step[<<x, v>>] = f[x] + v
  OBVIOUS
<1>2. PICK g \in [SUBSET N -> Int] :
         /\ g[{}] = 0
         /\ \A s \in SUBSET N : s # {} => g[s] = step[<<Pick(s), g[s \ {Pick(s)}]>>]
  <2> DEFINE V == Int
             base == 0
  <2>1. base \in V /\ step \in [N \X V -> V]
    BY <1>1
  <2>2. IsFiniteSet(N)
    OBVIOUS
  <2> HIDE DEF step, V, base
  <2>3. \E g : IsFold(g, N, V, base, step)
    BY <2>1, <2>2, FoldExists
  <2> QED
    BY <2>3 DEF V, base, IsFold
<1>3. \A s \in SUBSET N : s # {} => g[s] = f[Pick(s)] + g[s \ {Pick(s)}]
  <2> HIDE DEF step
  <2> SUFFICES ASSUME NEW s \in SUBSET N, s # {}
               PROVE  step[<<Pick(s), g[s \ {Pick(s)}]>>] = f[Pick(s)] + g[s \ {Pick(s)}]
    BY <1>2
  <2> QED
    BY <1>1, <1>2, PickIn
<1>4. g = Body(g)
  BY <1>2, <1>3
<1>5. SumFunction(f) = (CHOOSE h : h = Body(h))[N]
  BY DEF SumFunction, SumFunctionOnSet, FoldFunctionOnSet, MapThenFoldSet, Pick
<1> DEFINE h == CHOOSE h : h = Body(h)
<1>6. h = Body(h)
  <2> HIDE DEF Body
  <2> QED
    BY <1>4
<1>7. DOMAIN h = SUBSET N /\ \A s \in SUBSET N : h[s] = Body(h)[s]
  BY <1>6, Zenon
<1> HIDE DEF h
<1>8. h[{}] = 0 /\ \A s \in SUBSET N : s # {} => h[s] = f[Pick(s)] + h[s \ {Pick(s)}]
  BY <1>7
<1>9. \A s \in SUBSET N : h[s] \in Int
  <2> DEFINE P == {s \in SUBSET N : h[s] \in Int}
  <2>1. {} \in P
    BY <1>8
  <2>2. ASSUME NEW s \in SUBSET N, s # {}, s \ {Pick(s)} \in P
        PROVE  s \in P
    <3>1. h[s] = f[Pick(s)] + h[s \ {Pick(s)}] /\ f[Pick(s)] \in Int
      BY <1>8, <2>2, PickIn
    <3> QED
      BY <2>2, <3>1
  <2>3. SUBSET N \subseteq P
    <3> HIDE DEF P
    <3> QED
      BY <2>1, <2>2, FoldInduction
  <2> QED
    BY <2>3
<1>10. h \in [SUBSET N -> Int]
  <2>1. h = [s \in SUBSET N |-> h[s]]
    BY <1>6
  <2> QED
    BY <1>9, <2>1
<1> QED
  BY <1>5, <1>8, <1>10 DEF h, PartialSums

\* A sum of integers is an integer.
LEMMA SumTyped ==
  ASSUME NEW N, IsFiniteSet(N), NEW f \in [N -> Int]
  PROVE  SumFunction(f) \in Int
<1>1. PICK g : PartialSums(g, f, N) /\ SumFunction(f) = g[N]
  BY SumUnfolds
<1> QED
  BY <1>1 DEF PartialSums

\* A sum follows its terms.
LEMMA SumChanges ==
  ASSUME NEW N, IsFiniteSet(N), NEW f \in [N -> Int], NEW e \in [N -> Int], NEW y \in N,
         \A x \in N \ {y} : e[x] = f[x]
  PROVE  SumFunction(e) = SumFunction(f) - f[y] + e[y]
<1> DEFINE v == e[y]
<1>1. e \in [N -> Int] /\ e[y] = v /\ v \in Int /\ \A x \in N : x # y => e[x] = f[x]
  OBVIOUS
<1>2. PICK g : PartialSums(g, f, N) /\ SumFunction(f) = g[N]
  BY SumUnfolds
<1> HIDE DEF v
<1>3. PICK h : PartialSums(h, e, N) /\ SumFunction(e) = h[N]
  BY <1>1, SumUnfolds
<1> DEFINE P == {s \in SUBSET N : h[s] = g[s] + (IF y \in s THEN v - f[y] ELSE 0)}
<1>4. {} \in P
  BY <1>2, <1>3 DEF PartialSums
<1>5. ASSUME NEW s \in SUBSET N, s # {}, s \ {Pick(s)} \in P
      PROVE  s \in P
  <2> DEFINE x == Pick(s)
             u == s \ {x}
  <2>1. x \in s /\ x \in N /\ u \in SUBSET N /\ x \notin u
    BY <1>5, PickIn
  <2>2. h[s] = e[x] + h[u] /\ g[s] = f[x] + g[u]
    BY <1>2, <1>3, <1>5 DEF PartialSums
  <2>3. h[u] = g[u] + (IF y \in u THEN v - f[y] ELSE 0)
    BY <1>5
  <2>4. y \in s <=> y = x \/ y \in u
    BY <2>1
  <2>5. g[u] \in Int /\ h[u] \in Int /\ f[x] \in Int /\ f[y] \in Int
    BY <1>2, <1>3, <2>1, <1>5 DEF PartialSums
  <2> HIDE DEF x, u
  <2>6. h[s] = g[s] + (IF y \in s THEN v - f[y] ELSE 0)
    <3>1. CASE x = y
      BY <1>1, <2>1, <2>2, <2>3, <2>4, <2>5, <3>1
    <3>2. CASE x # y
      BY <1>1, <2>1, <2>2, <2>3, <2>4, <2>5, <3>2
    <3> QED
      BY <3>1, <3>2
  <2> QED
    BY <2>6
<1>6. N \in P
  <2> HIDE DEF P
  <2> QED
    BY <1>4, <1>5, FoldInduction
<1>7. g[N] \in Int /\ h[N] = g[N] + v - f[y]
  BY <1>2, <1>6 DEF PartialSums
<1>8. f[y] \in Int
  OBVIOUS
<1> QED
  BY <1>2, <1>3, <1>7, <1>8 DEF v

\* A sum of zeros is zero.
LEMMA SumOfZeros ==
  ASSUME NEW N, IsFiniteSet(N), NEW f \in [N -> Int], \A x \in N : f[x] = 0
  PROVE  SumFunction(f) = 0
<1>1. PICK g : PartialSums(g, f, N) /\ SumFunction(f) = g[N]
  BY SumUnfolds
<1> DEFINE P == {s \in SUBSET N : g[s] = 0}
<1>2. {} \in P
  BY <1>1 DEF PartialSums
<1>3. ASSUME NEW s \in SUBSET N, s # {}, s \ {Pick(s)} \in P
      PROVE  s \in P
  BY <1>1, <1>3, PickIn DEF PartialSums
<1>4. N \in P
  <2> HIDE DEF P
  <2> QED
    BY <1>2, <1>3, FoldInduction
<1> QED
  BY <1>1, <1>4

-----------------------------------------------------------------------------
\* The parents of a node are other nodes.
LEMMA ParentsTyped ==
  ASSUME NEW A, A \subseteq Arc, NEW y
  PROVE  Parents(A, y) \subseteq Node \ {y}
<1> SUFFICES ASSUME NEW n \in Parents(A, y) PROVE n \in Node \ {y}
  OBVIOUS
<1> DEFINE a == <<n, y>>
<1>1. a \in Arc /\ a[1] = n /\ a[2] = y
  BY ParentsOf
<1> QED
  BY <1>1 DEF Arc, ArcsOver

\* The arcs over the variables are finitely many.
LEMMA ArcsFinite ==
  ASSUME NEW A, A \subseteq Arc
  PROVE  IsFiniteSet(A) /\ Cardinality(A) \in Nat
<1>1. IsFiniteSet(Node \X Node)
  BY InformationAssumption, FS_Product
<1>2. A \subseteq Node \X Node
  BY DEF Arc, ArcsOver
<1> QED
  BY <1>1, <1>2, FS_Subset, FS_CardinalityType

\* The information of a node on a set of others is a number.
LEMMA InfoTyped ==
  ASSUME NEW H \in Tables, NEW y \in Node, NEW P, P \subseteq Node \ {y}
  PROVE  Info(H, y, P) \in Int
<1> DEFINE Q == P \cup {y}
           k == K[Cardinality({y}) + Cardinality(P)]
<1>1. Cardinality({y}) = 1 /\ IsFiniteSet(P) /\ Cardinality(P) \in Nat
  BY InformationAssumption, FS_Singleton, FS_Subset, FS_CardinalityType
<1>2. Cardinality(Q) = Cardinality(P) + 1
  BY <1>1, FS_AddElement
<1>3. Cardinality(Q) <= Cardinality(Node) /\ Cardinality(Node) \in Nat
  BY InformationAssumption, FS_Subset, FS_CardinalityType
<1>4. k \in {K[n] : n \in DOMAIN K}
  <2>1. Cardinality({y}) + Cardinality(P) \in 1..Cardinality(Node)
    BY <1>1, <1>2, <1>3
  <2>2. DOMAIN K = 1..Cardinality(Node)
    BY InformationAssumption
  <2> QED
    BY <2>1, <2>2
<1>5. \A S \in SUBSET Node : Entropy(H, S, k) \in Int
  <2> HIDE DEF k
  <2> QED
    BY <1>4 DEF Entropy, Tables
<1>6. {y} \in SUBSET Node /\ P \in SUBSET Node /\ {y} \cup P \in SUBSET Node
  OBVIOUS
<1> HIDE DEF k
<1>7. Entropy(H, {y}, k) \in Int /\ Entropy(H, P, k) \in Int /\ Entropy(H, {y} \cup P, k) \in Int
  BY <1>5, <1>6
<1>8. SetInformation(H, {y}, P) \in Int
  BY <1>7 DEF SetInformation, k
<1> QED
  BY <1>8 DEF Info

\* What each node knows of its parents.
NodeInfo(H, A) == [y \in Node |-> Info(H, y, Parents(A, y))]

\* It is a number for every node.
LEMMA NodeInfoTyped ==
  ASSUME NEW H \in Tables, NEW A, A \subseteq Arc
  PROVE  NodeInfo(H, A) \in [Node -> Int]
BY ParentsTyped, InfoTyped DEF NodeInfo

\* The score is what the nodes know of their parents, less the penalties.
LEMMA BICOfNodes ==
  ASSUME NEW H \in Tables, NEW A, A \subseteq Arc
  PROVE  /\ BIC(H, A) = SumFunction(NodeInfo(H, A)) - Penalty * Cardinality(A)
         /\ SumFunction(NodeInfo(H, A)) \in Int
         /\ BIC(H, A) \in Int
<1>1. BIC(H, A) = SumFunction(NodeInfo(H, A)) - Penalty * Cardinality(A)
  BY DEF BIC, NodeInfo
<1>2. SumFunction(NodeInfo(H, A)) \in Int
  BY NodeInfoTyped, SumTyped, InformationAssumption
<1>3. Cardinality(A) \in Int /\ Penalty \in Int
  BY ArcsFinite, TabuAssumption
<1> QED
  BY <1>1, <1>2, <1>3

\* The empty graph scores nothing.
LEMMA BICEmpty ==
  ASSUME NEW H \in Tables
  PROVE  BIC(H, {}) = 0
<1>1. \A y \in Node : NodeInfo(H, {})[y] = 0
  BY DEF NodeInfo, Info, Parents
<1>2. SumFunction(NodeInfo(H, {})) = 0
  BY <1>1, NodeInfoTyped, SumOfZeros, InformationAssumption
<1>3. Cardinality({}) = 0 /\ Penalty \in Int
  BY FS_EmptySet, TabuAssumption
<1> QED
  BY <1>2, <1>3, BICOfNodes

\* Two graphs that differ in the arcs into one node.
LEMMA BICOneNode ==
  ASSUME NEW H \in Tables, NEW A, A \subseteq Arc, NEW B, B \subseteq Arc, NEW y \in Node,
         \A z \in Node \ {y} : Parents(B, z) = Parents(A, z)
  PROVE  BIC(H, B) = BIC(H, A) + Info(H, y, Parents(B, y)) - Info(H, y, Parents(A, y))
                     - Penalty * (Cardinality(B) - Cardinality(A))
<1> DEFINE v == Info(H, y, Parents(B, y))
           u == Info(H, y, Parents(A, y))
           f == NodeInfo(H, A)
           g == NodeInfo(H, B)
<1>1. f \in [Node -> Int] /\ g \in [Node -> Int]
  BY NodeInfoTyped
<1>2. f[y] = u /\ g[y] = v /\ \A z \in Node \ {y} : g[z] = f[z]
  BY DEF NodeInfo
<1> HIDE DEF f, g, u, v
<1>3. v \in Int /\ u \in Int
  BY <1>1, <1>2
<1>4. SumFunction(g) = SumFunction(f) - u + v
  <2>1. SumFunction(g) = SumFunction(f) - f[y] + g[y]
    BY <1>1, <1>2, SumChanges, InformationAssumption
  <2> QED
    BY <1>2, <2>1
<1>5. /\ BIC(H, A) = SumFunction(f) - Penalty * Cardinality(A)
      /\ BIC(H, B) = SumFunction(g) - Penalty * Cardinality(B)
      /\ SumFunction(f) \in Int /\ SumFunction(g) \in Int
  BY BICOfNodes DEF f, g
<1>6. Cardinality(A) \in Int /\ Cardinality(B) \in Int /\ Penalty \in Int
  BY ArcsFinite, TabuAssumption
<1> DEFINE m == Cardinality(A)
           n == Cardinality(B)
<1> HIDE DEF m, n
<1>7. Penalty * (n - m) = Penalty * n - Penalty * m
  BY <1>6 DEF m, n
<1>8. Penalty * n \in Int /\ Penalty * m \in Int
  BY <1>6 DEF m, n
<1> QED
  BY <1>3, <1>4, <1>5, <1>7, <1>8 DEF m, n, u, v

\* The score gains what computeDeltaScoreAddition says.
LEMMA BICAddition ==
  ASSUME NEW H \in Tables, NEW A, A \subseteq Arc, NEW a \in Arc, a \notin A
  PROVE  /\ BIC(H, A \cup {a}) = BIC(H, A) + DeltaAddition(H, A, a)
         /\ DeltaAddition(H, A, a) \in Int
<1> DEFINE B == A \cup {a}
           x == a[1]
           y == a[2]
<1>1. x \in Node /\ y \in Node /\ x # y /\ a = <<x, y>> /\ B \subseteq Arc
  BY DEF Arc, ArcsOver
<1>2. ASSUME NEW z, NEW n
      PROVE  n \in Parents(B, z) <=> n \in Parents(A, z) \/ (n = x /\ z = y)
  <2>1. <<n, z>> = a <=> n = x /\ z = y
    BY <1>1
  <2>2. <<n, z>> \in B <=> <<n, z>> \in A \/ <<n, z>> = a
    OBVIOUS
  <2> HIDE DEF x, y, B
  <2> QED
    BY <2>1, <2>2, ParentsOf
<1>3. Parents(B, y) = Parents(A, y) \cup {x} /\ \A z \in Node \ {y} : Parents(B, z) = Parents(A, z)
  <2> HIDE DEF x, y, B
  <2>1. \A n : n \in Parents(B, y) <=> n \in Parents(A, y) \/ n = x
    BY <1>2
  <2>2. \A z \in Node \ {y} : \A n : n \in Parents(B, z) <=> n \in Parents(A, z)
    BY <1>2
  <2> QED
    BY <2>1, <2>2
<1>4. Cardinality(B) = Cardinality(A) + 1 /\ Cardinality(A) \in Int
  BY ArcsFinite, FS_AddElement
<1>5. BIC(H, B) = BIC(H, A) + Info(H, y, Parents(B, y)) - Info(H, y, Parents(A, y))
                  - Penalty * (Cardinality(B) - Cardinality(A))
  BY <1>1, <1>3, BICOneNode
<1>6. Penalty * (Cardinality(B) - Cardinality(A)) = Penalty /\ Penalty \in Int
  BY <1>4, TabuAssumption
<1>7. Info(H, y, Parents(B, y)) \in Int /\ Info(H, y, Parents(A, y)) \in Int
  BY <1>1, ParentsTyped, InfoTyped
<1>8. BIC(H, A) \in Int
  BY BICOfNodes
<1>9. DeltaAddition(H, A, a) = Info(H, y, Parents(B, y)) - Info(H, y, Parents(A, y)) - Penalty
  BY <1>3 DEF DeltaAddition
<1> HIDE DEF B, x, y
<1> QED
  BY <1>5, <1>6, <1>7, <1>8, <1>9 DEF B

\* And loses, or gains, what computeDeltaScoreDeletion says.
LEMMA BICDeletion ==
  ASSUME NEW H \in Tables, NEW A, A \subseteq Arc, NEW a \in A
  PROVE  /\ BIC(H, A \ {a}) = BIC(H, A) + DeltaDeletion(H, A, a)
         /\ DeltaDeletion(H, A, a) \in Int
<1> DEFINE B == A \ {a}
           x == a[1]
           y == a[2]
<1>1. a \in Arc /\ B \subseteq Arc /\ a \notin B /\ B \cup {a} = A
  OBVIOUS
<1>2. y \in Node /\ a = <<x, y>>
  BY <1>1 DEF Arc, ArcsOver
<1>3. Parents(B, y) = Parents(A, y) \ {x}
  <2>1. \A n : n \in Parents(B, y) <=> n \in Parents(A, y) /\ n # x
    <3>1. \A n : <<n, y>> \in B <=> <<n, y>> \in A /\ n # x
      BY <1>2
    <3> HIDE DEF x, y, B
    <3> QED
      BY <3>1, ParentsOf
  <2> QED
    BY <2>1
<1>4. Parents(A, y) = Parents(B, y) \cup {x}
  <2>1. x \in Parents(A, y)
    BY <1>2, ParentsOf
  <2> QED
    BY <1>3, <2>1
<1>5. BIC(H, A) = BIC(H, B) + DeltaAddition(H, B, a) /\ DeltaAddition(H, B, a) \in Int
  <2> HIDE DEF B
  <2> QED
    BY <1>1, BICAddition
<1>6. DeltaAddition(H, B, a) = Info(H, y, Parents(A, y)) - Info(H, y, Parents(B, y)) - Penalty
  BY <1>4 DEF DeltaAddition
<1>7. DeltaDeletion(H, A, a) = Info(H, y, Parents(B, y)) - Info(H, y, Parents(A, y)) + Penalty
  BY <1>3 DEF DeltaDeletion
<1>8. Info(H, y, Parents(B, y)) \in Int /\ Info(H, y, Parents(A, y)) \in Int
  BY <1>1, <1>2, ParentsTyped, InfoTyped
<1>9. BIC(H, B) \in Int /\ Penalty \in Int
  BY <1>1, BICOfNodes, TabuAssumption
<1> HIDE DEF B, x, y
<1> QED
  BY <1>5, <1>6, <1>7, <1>8, <1>9 DEF B

\* A reversal is a deletion and an addition, and what it says is their sum.
LEMMA BICReversal ==
  ASSUME NEW H \in Tables, NEW A, A \subseteq Arc, NEW a \in A, Flip(a) \notin A
  PROVE  /\ BIC(H, (A \ {a}) \cup {Flip(a)}) = BIC(H, A) + DeltaReversal(H, A, a)
         /\ DeltaReversal(H, A, a) \in Int
<1> DEFINE B == A \ {a}
           b == Flip(a)
           x == a[1]
           y == a[2]
           PX == Parents(A, x)
           PY == Parents(A, y)
<1>1. x \in Node /\ y \in Node /\ x # y /\ a = <<x, y>> /\ b = <<y, x>>
  BY DEF Arc, ArcsOver, Flip
<1>2. b \in Arc /\ b \notin B /\ B \subseteq Arc /\ b[1] = y /\ b[2] = x
  BY <1>1 DEF Arc, ArcsOver
<1>3. Parents(B, x) = PX
  <2>1. \A n : <<n, x>> \in B <=> <<n, x>> \in A
    BY <1>1
  <2>2. \A n : n \in Parents(B, x) <=> n \in Parents(A, x)
    <3> HIDE DEF B, x
    <3> QED
      BY <2>1, ParentsOf
  <2> QED
    BY <2>2
<1>4. BIC(H, B) = BIC(H, A) + DeltaDeletion(H, A, a) /\ DeltaDeletion(H, A, a) \in Int
  BY BICDeletion
<1>5. BIC(H, B \cup {b}) = BIC(H, B) + DeltaAddition(H, B, b) /\ DeltaAddition(H, B, b) \in Int
  <2> HIDE DEF B, b
  <2> QED
    BY <1>2, BICAddition
<1>6. DeltaDeletion(H, A, a) = Info(H, y, PY \ {x}) - Info(H, y, PY) + Penalty
  BY DEF DeltaDeletion
<1>7. DeltaAddition(H, B, b) = Info(H, x, PX \cup {y}) - Info(H, x, PX) - Penalty
  <2>1. DeltaAddition(H, B, b)
          = Info(H, b[2], Parents(B, b[2]) \cup {b[1]}) - Info(H, b[2], Parents(B, b[2])) - Penalty
    BY DEF DeltaAddition
  <2> QED
    BY <1>2, <1>3, <2>1
<1>8. DeltaReversal(H, A, a)
        = Info(H, x, PX \cup {y}) + Info(H, y, PY \ {x}) - Info(H, x, PX) - Info(H, y, PY)
  BY DEF DeltaReversal
<1>9. PX \subseteq Node \ {x} /\ PY \subseteq Node \ {y}
  BY ParentsTyped
<1>10. /\ Info(H, x, PX \cup {y}) \in Int /\ Info(H, y, PY \ {x}) \in Int
       /\ Info(H, x, PX) \in Int /\ Info(H, y, PY) \in Int
  BY <1>1, <1>9, InfoTyped
<1>11. BIC(H, A) \in Int /\ Penalty \in Int
  BY BICOfNodes, TabuAssumption
<1> HIDE DEF B, b, x, y, PX, PY
<1> QED
  BY <1>4, <1>5, <1>6, <1>7, <1>8, <1>10, <1>11 DEF B, b

\* In a graph without cycles no arc goes both ways.
LEMMA OneWay ==
  ASSUME NEW A, A \subseteq Arc, Acyclic(A), NEW a \in A
  PROVE  Flip(a) \notin A
<1> SUFFICES ASSUME Flip(a) \in A PROVE FALSE
  OBVIOUS
<1> DEFINE S == {a[1], a[2]}
<1>1. a = <<a[1], a[2]>> /\ Flip(a) = <<a[2], a[1]>>
  BY DEF Arc, ArcsOver, Flip
<1>2. S \subseteq ArcNodes(A) /\ S # {}
  BY DEF ArcNodes
<1>3. PICK n \in S : \A m \in S : <<m, n>> \notin A
  BY <1>2 DEF Acyclic
<1> QED
  BY <1>1, <1>3

\* What findBestChange expects of a change is what the score gains by it.
LEMMA BICOfChange ==
  ASSUME NEW H \in Tables, NEW A, A \subseteq Arc, Acyclic(A), NEW c \in LegalChanges(A)
  PROVE  /\ BIC(H, Apply(A, c)) = BIC(H, A) + Delta(H, A, c)
         /\ Delta(H, A, c) \in Int
         /\ Apply(A, c) \subseteq Arc /\ c \in Change
<1>1. CASE c \in Additions(A)
  <2>1. PICK a \in Arc \ A : c = Addition(a)
    BY <1>1 DEF Additions
  <2>2. Apply(A, c) = A \cup {a} /\ Delta(H, A, c) = DeltaAddition(H, A, a)
    BY <2>1 DEF Addition, Apply, Delta
  <2>3. c \in Change /\ Apply(A, c) \subseteq Arc
    BY <2>1, <2>2 DEF Addition, Change
  <2> QED
    BY <2>1, <2>2, <2>3, BICAddition
<1>2. CASE c \in Deletions(A)
  <2>1. PICK a \in A : c = Deletion(a)
    BY <1>2 DEF Deletions
  <2>2. Apply(A, c) = A \ {a} /\ Delta(H, A, c) = DeltaDeletion(H, A, a)
    BY <2>1 DEF Deletion, Apply, Delta
  <2> QED
    BY <2>1, <2>2, BICDeletion DEF Deletion, Change
<1>3. CASE c \in Reversals(A)
  <2>1. PICK a \in A : c = Reversal(a)
    BY <1>3 DEF Reversals
  <2>2. Apply(A, c) = (A \ {a}) \cup {Flip(a)} /\ Delta(H, A, c) = DeltaReversal(H, A, a)
    BY <2>1 DEF Reversal, Apply, Delta
  <2>3. Flip(a) \in Arc
    BY DEF Flip, Arc, ArcsOver
  <2>4. c \in Change /\ Apply(A, c) \subseteq Arc
    BY <2>1, <2>2, <2>3 DEF Reversal, Change
  <2>5. Flip(a) \notin A
    BY OneWay
  <2> QED
    BY <2>2, <2>4, <2>5, BICReversal
<1> QED
  BY <1>1, <1>2, <1>3 DEF LegalChanges

\* The score of a graph, computed arc by arc from the empty one, is its BIC in
\* whatever order the arcs come.
LEMMA ComputeScoreIsBIC ==
  ASSUME NEW H \in Tables, NEW A, A \subseteq Arc
  PROVE  ComputeScore(H, A) = BIC(H, A)
<1> DEFINE V == [arcs : SUBSET A, score : Int]
           Grown(v, a) == [arcs |-> v.arcs \cup {a}, score |-> v.score + DeltaAddition(H, v.arcs, a)]
           empty == [arcs |-> {}, score |-> 0]
           Body(f) == [s \in SUBSET A |->
              IF s = {} THEN empty ELSE Grown(f[s \ {Pick(s)}], Pick(s))]
           step == [p \in A \X V |-> Grown(p[2], p[1])]
<1>1. IsFiniteSet(A)
  BY ArcsFinite
<1>2. ASSUME NEW a \in A, NEW v \in V
      PROVE  Grown(v, a) \in V
  <2>1. v.arcs \subseteq Arc /\ v.score \in Int
    OBVIOUS
  <2>2. /\ a[2] \in Node
        /\ Parents(v.arcs, a[2]) \subseteq Node \ {a[2]}
        /\ Parents(v.arcs, a[2]) \cup {a[1]} \subseteq Node \ {a[2]}
    BY <2>1, ParentsTyped DEF Arc, ArcsOver
  <2>3. DeltaAddition(H, v.arcs, a) \in Int
    BY <2>2, InfoTyped, TabuAssumption DEF DeltaAddition
  <2> QED
    BY <2>1, <2>3
<1>3. step \in [A \X V -> V] /\ empty \in V
  BY <1>2
<1>4. \A a \in A, v \in V : step[<<a, v>>] = Grown(v, a)
  OBVIOUS
<1>5. PICK f : IsFold(f, A, V, empty, step)
  <2> HIDE DEF V, empty, step
  <2> QED
    BY <1>1, <1>3, FoldExists
<1>6. f = Body(f)
  <2> HIDE DEF V, empty, step, Grown
  <2>1. ASSUME NEW s \in SUBSET A, s # {}
        PROVE  f[s] = Grown(f[s \ {Pick(s)}], Pick(s))
    <3>1. Pick(s) \in A /\ f[s \ {Pick(s)}] \in V
      BY <1>5, <2>1, PickIn DEF IsFold
    <3> QED
      BY <1>4, <1>5, <2>1, <3>1 DEF IsFold
  <2> QED
    BY <1>5, <2>1 DEF IsFold
<1> DEFINE h == CHOOSE h : h = Body(h)
<1>7. ComputeScore(H, A) = h[A].score
  BY DEF ComputeScore, MapThenFoldSet, Pick
<1>8. h = Body(h)
  <2> HIDE DEF Body
  <2> QED
    BY <1>6
<1> HIDE DEF h
<1>9. \A s \in SUBSET A : h[s] = Body(h)[s]
  BY <1>8, Zenon
<1> DEFINE P == {s \in SUBSET A : h[s].arcs = s /\ h[s].score = BIC(H, s)}
<1>10. {} \in P
  <2>1. h[{}] = empty
    BY <1>9
  <2>2. h[{}].arcs = {} /\ h[{}].score = BIC(H, {})
    BY <2>1, BICEmpty
  <2> QED
    BY <2>2
<1>11. ASSUME NEW s \in SUBSET A, s # {}, s \ {Pick(s)} \in P
       PROVE  s \in P
  <2> DEFINE a == Pick(s)
             u == s \ {a}
  <2>1. a \in s /\ a \in Arc /\ a \notin u /\ u \subseteq Arc /\ u \cup {a} = s
    BY <1>11, PickIn
  <2>2. h[s] = Grown(h[u], a)
    BY <1>9, <1>11
  <2>3. h[u].arcs = u /\ h[u].score = BIC(H, u)
    BY <1>11
  <2> HIDE DEF a, u
  <2>4. h[s].arcs = u \cup {a} /\ h[s].score = BIC(H, u) + DeltaAddition(H, u, a)
    BY <2>2, <2>3
  <2> QED
    BY <1>11, <2>1, <2>4, BICAddition
<1>12. A \in P
  <2> HIDE DEF P
  <2> QED
    BY <1>1, <1>10, <1>11, FoldInduction
<1> QED
  BY <1>7, <1>12
-----------------------------------------------------------------------------
\* addElementTabuList keeps the list within its size, unless that is zero.
LEMMA PushTabuTyped ==
  ASSUME NEW l \in Seq(Change), TabuSize # 0 => Len(l) <= TabuSize, NEW c \in Change
  PROVE  /\ PushTabu(l, c) \in Seq(Change)
         /\ TabuSize # 0 => Len(PushTabu(l, c)) <= TabuSize
<1> DEFINE kept == IF Len(l) = TabuSize /\ l # <<>> THEN SubSeq(l, 1, Len(l) - 1) ELSE l
<1>1. TabuSize \in Nat /\ Len(l) \in Nat
  BY TabuAssumption
<1>2. kept \in Seq(Change) /\ (TabuSize # 0 => Len(kept) + 1 <= TabuSize)
  <2>1. CASE Len(l) = TabuSize /\ l # <<>>
    <3>1. Len(l) - 1 \in Nat /\ Len(l) # 0
      BY <1>1, <2>1
    <3> DEFINE n == Len(l) - 1
               t == SubSeq(l, 1, n)
    <3>2. n \in Nat /\ n = Len(l) - 1 /\ kept = t
      BY <2>1, <3>1
    <3>3. \A i \in 1..n : l[i] \in Change
      BY <1>1, <3>1
    <3>4. t \in Seq(Change) /\ Len(t) = IF 1 <= n THEN n - 1 + 1 ELSE 0
      <4> HIDE DEF n
      <4> QED
        BY <3>2, <3>3, SubSeqProperties
    <3> HIDE DEF n, t, kept
    <3>5. Len(t) = n
      BY <3>2, <3>4
    <3> QED
      BY <1>1, <2>1, <3>2, <3>4, <3>5
  <2>2. CASE ~(Len(l) = TabuSize /\ l # <<>>)
    <3>1. kept = l
      BY <2>2
    <3> QED
      BY <1>1, <2>2, <3>1
  <2> QED
    BY <2>1, <2>2
<1>3. PushTabu(l, c) = <<c>> \o kept
  BY DEF PushTabu
<1> HIDE DEF kept
<1>4. <<c>> \o kept \in Seq(Change) /\ Len(<<c>> \o kept) = 1 + Len(kept)
  BY <1>2
<1>5. Len(kept) \in Nat
  BY <1>2
<1> QED
  BY <1>1, <1>2, <1>3, <1>4, <1>5

\* What undoes a change is a change.
LEMMA UndoTyped ==
  ASSUME NEW c \in Change
  PROVE  Undo(c) \in Change
BY DEF Undo, Change, Addition, Deletion, Reversal, Flip, Arc, ArcsOver

\* The score kept is that of the DAG it is kept with: what makes the types
\* inductive, and the comparison of scores a comparison of DAGs.
ScoreInv == IndInv /\ TypeOK /\ ScoreIsBIC

\* The table that the learner reads.
LEMMA TableKnown ==
  ASSUME TypeOK
  PROVE  entropy[cmode] \in Tables
BY TabuAssumption DEF TypeOK

\* The learner starts with the score of the DAG it is given.
LEMMA InitScoreInv == Init => ScoreInv
<1> SUFFICES ASSUME Init PROVE ScoreInv
  OBVIOUS
<1>1. TypeOK
  <2>1. bestDag \subseteq Arc /\ entropy[Gaussian] \in Tables
    BY TabuAssumption DEF Init
  <2>2. bestScore \in Int
    BY <2>1, ComputeScoreIsBIC, BICOfNodes DEF Init
  <2>3. 0 \in 0..Word-1
    BY TabuAssumption
  <2>4. score \in Int /\ tabu \in Seq(Change) /\ (TabuSize # 0 => Len(tabu) <= TabuSize)
    BY TabuAssumption DEF Init
  <2>5. /\ entropy \in Entropies /\ maxParents \in ParentLimits /\ cmode \in Modes
        /\ dag \subseteq Arc /\ bestDag \subseteq Arc /\ excess \subseteq Arc
    BY <2>1, TabuAssumption DEF Init, Excess
  <2>6. /\ restart \in 0..Word-1 /\ phase \in {"idle", "climb", "loop"}
        /\ dagDone \in BOOLEAN /\ switches \in 0..MaxSwitches
    <3>1. 0 \in 0..MaxSwitches
      BY TabuAssumption
    <3> QED
      BY <2>3, <3>1, Zenon DEF Init
  <2> QED
    BY <2>2, <2>4, <2>5, <2>6 DEF TypeOK
<1>2. ScoreIsBIC
  BY <1>1, TableKnown, ComputeScoreIsBIC DEF Init, TypeOK, ScoreIsBIC
<1> QED
  BY <1>1, <1>2, InitLegal DEF ScoreInv

\* A run starts with the score of its DAG.
LEMMA StartScored ==
  ASSUME ScoreInv, NEW A, A \subseteq Arc, StartClimb(A),
         UNCHANGED <<entropy, excess, maxParents, cmode, bestDag, bestScore, dagDone, switches>>,
         restart' \in 0..Word-1
  PROVE  TypeOK' /\ ScoreIsBIC'
<1>1. dag' = A /\ score' = ComputeScore(entropy[cmode], A) /\ tabu' = <<>> /\ phase' = "climb"
  BY DEF StartClimb
<1>2. score' = BIC(entropy[cmode], A) /\ score' \in Int
  BY <1>1, TableKnown, ComputeScoreIsBIC, BICOfNodes DEF ScoreInv
<1>3. TypeOK'
  BY <1>1, <1>2, TabuAssumption DEF ScoreInv, TypeOK
<1>4. ScoreIsBIC'
  BY <1>1, <1>2 DEF ScoreInv, ScoreIsBIC
<1> QED
  BY <1>3, <1>4

\* A turn of the climb changes the score as it changes the DAG.
LEMMA ClimbScored ==
  ASSUME ScoreInv, NEW c, Climb(c)
  PROVE  /\ TypeOK' /\ ScoreIsBIC'
         /\ BIC(entropy[cmode], dag') > BIC(entropy[cmode], dag)
<1> DEFINE H == entropy[cmode]
<1>1. /\ c \in LegalChanges(dag) /\ phase = "climb" /\ Delta(H, dag, c) > 0
      /\ dag' = Apply(dag, c) /\ score' = score + Delta(H, dag, c)
      /\ tabu' = PushTabu(tabu, Undo(c))
      /\ UNCHANGED <<entropy, excess, maxParents, cmode, bestDag, bestScore, restart, phase, dagDone, switches>>
  BY DEF Climb, Candidates
<1>2. H \in Tables /\ dag \subseteq Arc /\ Acyclic(dag)
  BY TableKnown DEF ScoreInv, IndInv, StaysLegal, WithinLimit
<1> HIDE DEF H
<1>3. /\ BIC(H, dag') = BIC(H, dag) + Delta(H, dag, c)
      /\ Delta(H, dag, c) \in Int /\ dag' \subseteq Arc /\ c \in Change
  BY <1>1, <1>2, BICOfChange
<1>4. BIC(H, dag) \in Int /\ score = BIC(H, dag)
  BY <1>1, <1>2, BICOfNodes DEF ScoreInv, ScoreIsBIC, H
<1>5. tabu' \in Seq(Change) /\ (TabuSize # 0 => Len(tabu') <= TabuSize)
  BY <1>1, <1>3, UndoTyped, PushTabuTyped DEF ScoreInv, TypeOK
<1>6. TypeOK'
  BY <1>1, <1>3, <1>4, <1>5 DEF ScoreInv, TypeOK
<1>7. ScoreIsBIC'
  BY <1>1, <1>3, <1>4 DEF ScoreInv, ScoreIsBIC, H
<1>8. BIC(H, dag') > BIC(H, dag)
  BY <1>1, <1>3, <1>4
<1> QED
  BY <1>6, <1>7, <1>8 DEF H

\* Every step keeps the scores right.
LEMMA NextScoreInv == ScoreInv /\ [Next]_vars => ScoreInv'
<1> SUFFICES ASSUME ScoreInv, [Next]_vars PROVE ScoreInv'
  OBVIOUS
<1>1. IndInv'
  BY StepLegal DEF ScoreInv
<1> SUFFICES TypeOK' /\ ScoreIsBIC'
  BY <1>1 DEF ScoreInv
<1>2. CASE LearnDAG
  <2>1. 0 \in 0..Word-1
    BY TabuAssumption
  <2> QED
    BY <1>2, <2>1, StartScored DEF LearnDAG, ScoreInv, TypeOK
<1>3. ASSUME NEW c \in Change, Climb(c)
      PROVE  TypeOK' /\ ScoreIsBIC'
  BY <1>3, ClimbScored
<1>4. CASE Converge
  BY <1>4 DEF Converge, ScoreInv, TypeOK, ScoreIsBIC
<1>5. CASE Restart
  <2>1. PICK A \in SUBSET Arc : StartClimb(A)
    BY <1>5 DEF Restart
  <2>2. restart + 1 \in 0..Word-1
    <3>1. restart < (Restarts - 1) % Word /\ restart \in Nat
      BY <1>5 DEF Restart, MoreRestarts, ScoreInv, TypeOK
    <3>2. (Restarts - 1) % Word \in 0..Word-1
      BY TabuAssumption
    <3> QED
      BY <3>1, <3>2, TabuAssumption
  <2> QED
    BY <1>5, <2>1, <2>2, StartScored DEF Restart
<1>6. CASE Finish
  BY <1>6 DEF Finish, ScoreInv, TypeOK, ScoreIsBIC
<1>7. ASSUME NEW m \in Modes, SetCMode(m)
      PROVE  TypeOK' /\ ScoreIsBIC'
  BY <1>7, TabuAssumption DEF SetCMode, ScoreInv, TypeOK, ScoreIsBIC
<1>8. CASE UNCHANGED vars
  BY <1>8 DEF vars, ScoreInv, TypeOK, ScoreIsBIC
<1> QED
  BY <1>2, <1>3, <1>4, <1>5, <1>6, <1>7, <1>8 DEF Next, Learning

\* They always are.
LEMMA ScoreInvHolds == Spec => []ScoreInv
BY InitScoreInv, NextScoreInv, PTL DEF Spec

\* No step makes the best DAG worse, and the end of a run compares with it.
LEMMA BestKept ==
  ASSUME ScoreInv, [Next]_vars, switches' = 0
  PROVE  /\ BIC(entropy[cmode], bestDag') >= BIC(entropy[cmode], bestDag)
         /\ vars' # vars /\ phase' = "loop" =>
              BIC(entropy[cmode], bestDag') >= BIC(entropy[cmode], dag)
<1>1. BIC(entropy[cmode], bestDag) \in Int /\ BIC(entropy[cmode], dag) \in Int
  BY TableKnown, BICOfNodes DEF ScoreInv, TypeOK
<1>2. CASE Converge
  <2>1. switches = 0 /\ phase = "climb"
    BY <1>2 DEF Converge
  <2>2. /\ score = BIC(entropy[cmode], dag) /\ bestScore = BIC(entropy[cmode], bestDag)
    BY <2>1 DEF ScoreInv, ScoreIsBIC
  <2>3. IF score > bestScore THEN bestDag' = dag ELSE bestDag' = bestDag
    BY <1>2 DEF Converge
  <2> QED
    BY <1>1, <2>2, <2>3
<1>3. CASE UNCHANGED vars
  BY <1>1, <1>3 DEF vars
<1>4. CASE LearnDAG \/ (\E c \in Change : Climb(c)) \/ Restart \/ Finish \/ \E m \in Modes : SetCMode(m)
  <2>1. bestDag' = bestDag /\ phase' # "loop"
    BY <1>4 DEF LearnDAG, Climb, Restart, StartClimb, Finish, SetCMode
  <2> QED
    BY <1>1, <2>1
<1> QED
  BY <1>2, <1>3, <1>4 DEF Next, Learning
-----------------------------------------------------------------------------
\* The learner's variables keep their types, whatever the sample, the limits
\* and the sequence of calls; the tabu list stays within its size.
THEOREM LearnerTyped == Spec => []TypeOK
<1>1. ScoreInv => TypeOK
  BY DEF ScoreInv
<1> QED
  BY <1>1, ScoreInvHolds, PTL

\* The score that tabuListAlgo carries along, one difference at a time, is the
\* BIC score of the DAG at hand, and while the copula model is that of the
\* constructor so is the one kept with the best DAG: no drift, however long
\* the sequence of changes, for any number of variables.
THEOREM ScoreStaysBIC == Spec => []ScoreIsBIC
<1>1. ScoreInv => ScoreIsBIC
  BY DEF ScoreInv
<1> QED
  BY <1>1, ScoreInvHolds, PTL

\* Every turn of the climb improves the score of the DAG, so that the loop of
\* tabuListAlgo cannot come back to a DAG it has left.
THEOREM RunsImprove == Spec => RunImproves
<1>1. ScoreInv /\ [Next]_vars =>
        [phase = "climb" /\ phase' = "climb" =>
           BIC(entropy[cmode], dag') > BIC(entropy[cmode], dag)]_vars
  <2> SUFFICES ASSUME ScoreInv, Next, phase = "climb", phase' = "climb"
               PROVE  BIC(entropy[cmode], dag') > BIC(entropy[cmode], dag)
    OBVIOUS
  <2>1. PICK c \in Change : Climb(c)
    BY DEF Next, Learning, LearnDAG, Converge, Restart, Finish, SetCMode
  <2> QED
    BY <2>1, ClimbScored
<1> QED
  BY <1>1, ScoreInvHolds, PTL DEF Spec, RunImproves

\* While the copula model stays, updateBest keeps the best DAG of all runs.
THEOREM BestStaysBest == Spec => BestIsBest
<1>1. ScoreInv /\ [Next]_vars =>
        [switches' = 0 =>
           /\ BIC(entropy[cmode], bestDag') >= BIC(entropy[cmode], bestDag)
           /\ phase' = "loop" =>
                BIC(entropy[cmode], bestDag') >= BIC(entropy[cmode], dag)]_vars
  BY BestKept
<1> QED
  BY <1>1, ScoreInvHolds, PTL DEF Spec, BestIsBest
=============================================================================
