---------------------------- MODULE CommonTheorems ----------------------------
(***************************************************************************)
(* Facts that the proofs of several components need.                       *)
(*                                                                         *)
(* The first part is about recursion.  The induction principles of the     *)
(* library take a predicate as their parameter; here the numbers or the    *)
(* finite sets for which a claim fails are a set, which would have a least *)
(* element.                                                                *)
(*                                                                         *)
(* The second part is about directed graphs: when the checks made before   *)
(* an arc is added keep a graph free of cycles.                            *)
(***************************************************************************)
EXTENDS MixedGraphs, FiniteSetTheorems, TLAPS

\* A non-empty set of natural numbers has a least element.
LEMMA LeastNumber ==
  ASSUME NEW T, T \subseteq Nat, T # {}
  PROVE  \E n \in T : \A m \in T : n <= m
<1>1. PICK n \in T : \A m \in T : ~(<<m, n>> \in OpToRel(<, Nat))
  BY NatLessThanWellFounded, WFMin
<1>2. \A m \in T : ~(m < n)
  BY <1>1 DEF OpToRel
<1> QED
  BY <1>2

\* A function can be iterated any number of times from any start.
LEMMA IterationExists ==
  ASSUME NEW S, NEW base \in S, NEW next \in [S -> S], NEW n \in Nat
  PROVE  \E c \in [0..n -> S] :
            /\ c[0] = base
            /\ \A i \in 1..n : c[i] = next[c[i-1]]
<1> DEFINE Good(k, c) == /\ c \in [0..k -> S]
                         /\ c[0] = base
                         /\ \A i \in 1..k : c[i] = next[c[i-1]]
           Bad == {k \in Nat : ~\E c : Good(k, c)}
<1> SUFFICES ASSUME Bad # {} PROVE FALSE
  OBVIOUS
<1>1. PICK k \in Bad : \A m \in Bad : k <= m
  <2> HIDE DEF Bad
  <2>1. Bad \subseteq Nat
    BY DEF Bad
  <2> QED
    BY <2>1, LeastNumber
<1>2. k # 0
  <2> DEFINE c == [i \in 0..0 |-> base]
  <2>1. Good(0, c)
    OBVIOUS
  <2> QED
    BY <2>1
<1>3. PICK c : Good(k-1, c)
  BY <1>1, <1>2
<1> DEFINE d == [i \in 0..k |-> IF i = k THEN next[c[k-1]] ELSE c[i]]
<1>4. c[k-1] \in S /\ k \in Nat
  BY <1>2, <1>3
<1>5. d \in [0..k -> S]
  BY <1>2, <1>3, <1>4
<1>6. d[0] = base
  BY <1>2, <1>3, <1>4
<1>7. \A i \in 1..k : d[i] = next[d[i-1]]
  BY <1>2, <1>3, <1>4
<1> QED
  BY <1>1, <1>5, <1>6, <1>7

\* Among finite sets there is one that contains no other of them.
LEMMA MinimalSet ==
  ASSUME NEW S, IsFiniteSet(S), NEW T, T \subseteq SUBSET S, T # {}
  PROVE  \E t \in T : \A u \in T : u \subseteq t => u = t
<1>1. T \subseteq FiniteSubsetsOf(S)
  BY FS_FiniteSubsetsOfFinite
<1>2. PICK t \in T : \A u \in T : ~(<<u, t>> \in StrictSubsetOrdering(S))
  BY <1>1, FS_StrictSubsetOrderingWellFounded, WFMin
<1> QED
  BY <1>2 DEF StrictSubsetOrdering

\* The element that the folds of the community modules take out of a set.
Pick(S) == CHOOSE x \in S : TRUE

LEMMA PickIn ==
  ASSUME NEW S, S # {}
  PROVE  Pick(S) \in S
BY DEF Pick

\* Induction along a fold: what holds of the empty set, and of a set when it
\* holds of the set without the element picked, holds of every subset of S.
LEMMA FoldInduction ==
  ASSUME NEW S, IsFiniteSet(S), NEW P, {} \in P,
         \A s \in SUBSET S : s # {} /\ s \ {Pick(s)} \in P => s \in P
  PROVE  SUBSET S \subseteq P
<1> DEFINE Bad == (SUBSET S) \ P
<1> SUFFICES ASSUME Bad # {} PROVE FALSE
  OBVIOUS
<1>1. PICK s \in Bad : \A u \in Bad : u \subseteq s => u = s
  <2>1. Bad \subseteq SUBSET S
    OBVIOUS
  <2> HIDE DEF Bad
  <2> QED
    BY <2>1, MinimalSet
<1>2. s \in SUBSET S /\ s \notin P /\ s # {} /\ Pick(s) \in s
  BY <1>1, PickIn
<1> DEFINE u == s \ {Pick(s)}
<1>3. u \in SUBSET S /\ u \subseteq s /\ u # s
  BY <1>2
<1>4. u \in P
  <2> HIDE DEF u
  <2> QED
    BY <1>1, <1>3
<1> QED
  BY <1>2, <1>4

\* What a fold computes for every subset of S.
IsFold(f, S, V, base, step) ==
  /\ f \in [SUBSET S -> V]
  /\ f[{}] = base
  /\ \A s \in SUBSET S : s # {} => f[s] = step[<<Pick(s), f[s \ {Pick(s)}]>>]

\* A finite set can be taken apart element by element while a value is built
\* up.
LEMMA FoldExists ==
  ASSUME NEW S, IsFiniteSet(S), NEW V, NEW base \in V, NEW step \in [S \X V -> V]
  PROVE  \E f : IsFold(f, S, V, base, step)
<1> DEFINE Small(k) == {s \in SUBSET S : Cardinality(s) <= k}
           Good(k, f) == /\ f \in [Small(k) -> V]
                         /\ f[{}] = base
                         /\ \A s \in Small(k) :
                              s # {} => f[s] = step[<<Pick(s), f[s \ {Pick(s)}]>>]
           Bad == {k \in Nat : ~\E f : Good(k, f)}
<1>1. /\ \A s \in SUBSET S : IsFiniteSet(s) /\ Cardinality(s) \in Nat
      /\ \A s \in SUBSET S : Cardinality(s) = 0 => s = {}
      /\ {} \in SUBSET S /\ Cardinality({}) = 0
  BY FS_Subset, FS_CardinalityType, FS_EmptySet
<1>2. \A s \in SUBSET S : \A x \in s :
         s \ {x} \in SUBSET S /\ Cardinality(s \ {x}) = Cardinality(s) - 1
  BY <1>1, FS_RemoveElement
<1>3. Bad = {}
  <2> SUFFICES ASSUME Bad # {} PROVE FALSE
    OBVIOUS
  <2>1. PICK k \in Bad : \A m \in Bad : k <= m
    <3> HIDE DEF Bad
    <3>1. Bad \subseteq Nat
      BY DEF Bad
    <3> QED
      BY <3>1, LeastNumber
  <2>2. k \in Nat
    BY <2>1
  <2>3. k # 0
    <3> DEFINE f == [s \in Small(0) |-> base]
    <3>1. {} \in Small(0) /\ \A s \in Small(0) : s = {}
      BY <1>1
    <3>2. Good(0, f)
      BY <3>1
    <3> HIDE DEF Good, Small, f
    <3>3. 0 \notin Bad
      BY <3>2
    <3> QED
      BY <2>1, <3>3
  <2>4. k - 1 \in Nat /\ k - 1 \notin Bad
    <3> HIDE DEF Bad
    <3> QED
      BY <2>1, <2>2, <2>3
  <2>5. PICK g : Good(k - 1, g)
    BY <2>4
  <2> DEFINE f == [s \in Small(k) |->
                     IF s \in Small(k - 1) THEN g[s] ELSE step[<<Pick(s), g[s \ {Pick(s)}]>>]]
  <2>6. ASSUME NEW s \in Small(k), s # {}
        PROVE  s \ {Pick(s)} \in Small(k - 1) /\ Pick(s) \in S
    BY <1>1, <1>2, <2>2, <2>6, PickIn
  <2>7. Small(k - 1) \subseteq Small(k)
    BY <1>1, <2>2
  <2>8. {} \in Small(k - 1)
    BY <1>1, <2>4
  <2> HIDE DEF Small
  <2>9. f \in [Small(k) -> V]
    <3> SUFFICES ASSUME NEW s \in Small(k), s \notin Small(k - 1)
                 PROVE  step[<<Pick(s), g[s \ {Pick(s)}]>>] \in V
      BY <2>5
    <3>1. s # {}
      BY <2>8
    <3>2. g[s \ {Pick(s)}] \in V /\ Pick(s) \in S
      BY <2>5, <2>6, <3>1
    <3> QED
      BY <3>2
  <2>10. f[{}] = base
    BY <2>5, <2>7, <2>8
  <2>11. ASSUME NEW s \in Small(k), s # {}
         PROVE  f[s] = step[<<Pick(s), f[s \ {Pick(s)}]>>]
    BY <2>5, <2>6, <2>7, <2>11
  <2> HIDE DEF f
  <2>12. Good(k, f)
    BY <2>9, <2>10, <2>11
  <2> QED
    BY <2>1, <2>12
<1>4. PICK f : Good(Cardinality(S), f)
  BY <1>1, <1>3
<1>5. Small(Cardinality(S)) = SUBSET S
  BY FS_Subset
<1>6. IsFold(f, S, V, base, step)
  BY <1>4, <1>5 DEF IsFold
<1> QED
  BY <1>6
-----------------------------------------------------------------------------
\* An edge is the pair of two distinct nodes.
LEMMA EdgeEnds ==
  ASSUME NEW N, NEW e
  PROVE  e \in EdgesOver(N) <=> \E x, y \in N : x # y /\ e = {x, y}
<1>1. ASSUME e \in EdgesOver(N)
      PROVE  \E x, y \in N : x # y /\ e = {x, y}
  BY <1>1 DEF EdgesOver, Undirected, ArcsOver
<1>2. ASSUME NEW x \in N, NEW y \in N, x # y, e = {x, y}
      PROVE  e \in EdgesOver(N)
  <2> DEFINE a == <<x, y>>
  <2>1. a \in ArcsOver(N) /\ a[1] = x /\ a[2] = y
    BY <1>2 DEF ArcsOver
  <2> QED
    BY <1>2, <2>1 DEF EdgesOver, Undirected
<1> QED
  BY <1>1, <1>2

\* The ends of an arc are among the nodes of the graph.
LEMMA ArcEnds ==
  ASSUME NEW A, NEW m, NEW n, <<m, n>> \in A
  PROVE  m \in ArcNodes(A) /\ n \in ArcNodes(A)
<1> DEFINE a == <<m, n>>
<1>1. a \in A /\ a[1] = m /\ a[2] = n
  OBVIOUS
<1> QED
  BY <1>1 DEF ArcNodes

\* In an acyclic graph any non-empty set has an element that no arc enters
\* from inside the set, whether or not its elements carry arcs.
LEMMA AcyclicEntry ==
  ASSUME NEW A, Acyclic(A), NEW S, S # {}
  PROVE  \E n \in S : \A m \in S : <<m, n>> \notin A
<1>1. CASE S \subseteq ArcNodes(A)
  BY <1>1 DEF Acyclic
<1>2. CASE ~(S \subseteq ArcNodes(A))
  <2>1. PICK n \in S : n \notin ArcNodes(A)
    BY <1>2
  <2> QED
    BY <2>1, ArcEnds
<1> QED
  BY <1>1, <1>2

\* Erasing arcs closes no cycle.
LEMMA AcyclicSubset ==
  ASSUME NEW A, Acyclic(A), NEW B, B \subseteq A
  PROVE  Acyclic(B)
<1> SUFFICES ASSUME NEW S \in SUBSET ArcNodes(B), S # {}
             PROVE  \E n \in S : \A m \in S : <<m, n>> \notin B
  BY DEF Acyclic
<1> QED
  BY AcyclicEntry

\* A path that does not exist is witnessed by a set of nodes that holds its
\* start, misses its end, and that no arc leaves.
LEMMA NoPath ==
  ASSUME NEW A, NEW x, NEW y, ~DirectedPath(A, x, y)
  PROVE  \E T : x \in T /\ y \notin T /\ ClosedUnder(T, A)
BY DEF DirectedPath

\* Arcs into y from tails outside a set that holds y and that no arc leaves
\* keep an acyclic graph acyclic.
LEMMA AcyclicFanIn ==
  ASSUME NEW A, Acyclic(A), NEW y, NEW X, NEW T,
         y \in T, ClosedUnder(T, A), X \cap T = {}
  PROVE  Acyclic(A \cup {<<x, y>> : x \in X})
<1> DEFINE B == A \cup {<<x, y>> : x \in X}
<1> SUFFICES ASSUME NEW S \in SUBSET ArcNodes(B), S # {}
             PROVE  \E n \in S : \A m \in S : <<m, n>> \notin B
  BY DEF Acyclic
<1>1. \A m, n : <<m, n>> \in B => <<m, n>> \in A \/ (m \in X /\ n = y)
  OBVIOUS
<1>2. CASE S \ T = {}
  <2>1. PICK n \in S : \A m \in S : <<m, n>> \notin A
    BY AcyclicEntry
  <2>2. \A m \in S : m \notin X
    BY <1>2
  <2> QED
    BY <1>1, <2>1, <2>2
<1>3. CASE S \ T # {}
  <2>1. PICK n \in S \ T : \A m \in S \ T : <<m, n>> \notin A
    BY <1>3, AcyclicEntry
  <2>2. \A m \in T : <<m, n>> \notin A
    <3> SUFFICES ASSUME NEW m \in T, <<m, n>> \in A
                 PROVE  FALSE
      OBVIOUS
    <3> DEFINE a == <<m, n>>
    <3>1. a \in A /\ a[1] = m /\ a[2] = n
      OBVIOUS
    <3>2. n \in T
      BY <3>1 DEF ClosedUnder
    <3> QED
      BY <3>2
  <2>3. n # y
    OBVIOUS
  <2> QED
    BY <1>1, <2>1, <2>2, <2>3
<1> QED
  BY <1>2, <1>3

\* An arc whose head does not lead to its tail closes no cycle.
LEMMA AcyclicAddArc ==
  ASSUME NEW A, Acyclic(A), NEW u, NEW v, ~DirectedPath(A, v, u)
  PROVE  Acyclic(A \cup {<<u, v>>})
<1>1. PICK T : v \in T /\ u \notin T /\ ClosedUnder(T, A)
  BY NoPath
<1>2. Acyclic(A \cup {<<x, v>> : x \in {u}})
  <2> DEFINE X == {u}
  <2>1. X \cap T = {}
    BY <1>1
  <2> HIDE DEF X
  <2>2. Acyclic(A \cup {<<x, v>> : x \in X})
    BY <1>1, <2>1, AcyclicFanIn
  <2> QED
    BY <2>2 DEF X
<1>3. {<<x, v>> : x \in {u}} = {<<u, v>>}
  OBVIOUS
<1> QED
  BY <1>2, <1>3

\* A set that holds the start of a path and that no arc leaves holds its end.
LEMMA PathStaysIn ==
  ASSUME NEW A, NEW x, NEW y, DirectedPath(A, x, y),
         NEW T, x \in T, ClosedUnder(T, A)
  PROVE  y \in T
<1> DEFINE S == T \cap (ArcNodes(A) \cup {x, y})
<1>1. ClosedUnder(S, A)
  BY DEF ClosedUnder, ArcNodes
<1> QED
  BY <1>1 DEF DirectedPath

LEMMA PathTransitive ==
  ASSUME NEW A, NEW x, NEW y, NEW z, DirectedPath(A, x, y), DirectedPath(A, y, z)
  PROVE  DirectedPath(A, x, z)
<1> SUFFICES ASSUME NEW S \in SUBSET (ArcNodes(A) \cup {x, z}), x \in S, ClosedUnder(S, A)
             PROVE  z \in S
  BY DEF DirectedPath
<1> QED
  BY PathStaysIn

LEMMA PathOfArc ==
  ASSUME NEW A, NEW x, NEW y, <<x, y>> \in A
  PROVE  DirectedPath(A, x, y)
<1> DEFINE a == <<x, y>>
<1>1. a \in A /\ a[1] = x /\ a[2] = y
  OBVIOUS
<1> QED
  BY <1>1 DEF DirectedPath, ClosedUnder

\* A path needs none of the arcs that leave its end.
LEMMA PathBeforeEnd ==
  ASSUME NEW A, NEW B, NEW x, NEW y, DirectedPath(A, x, y),
         \A a \in A \ B : a[1] = y
  PROVE  DirectedPath(B, x, y)
<1> SUFFICES ASSUME NEW S \in SUBSET (ArcNodes(B) \cup {x, y}), x \in S, ClosedUnder(S, B), y \notin S
             PROVE  FALSE
  BY DEF DirectedPath
<1>1. ClosedUnder(S, A)
  BY DEF ClosedUnder
<1> QED
  BY <1>1, PathStaysIn

\* Of two nodes of an acyclic graph, at most one leads to the other.
LEMMA NoTwoWays ==
  ASSUME NEW A, Acyclic(A), \A a \in A : a = <<a[1], a[2]>>,
         NEW x, NEW y, x # y,
         DirectedPath(A, x, y), DirectedPath(A, y, x)
  PROVE  FALSE
<1> DEFINE S == {n \in ArcNodes(A) \cup {x} : DirectedPath(A, x, n) /\ DirectedPath(A, n, x)}
<1>1. x \in S
  BY DEF DirectedPath
<1>2. PICK n \in S : \A m \in S : <<m, n>> \notin A
  BY <1>1, AcyclicEntry
\* A node other than n that leads to n and is led to from n.
<1>3. PICK p : p # n /\ DirectedPath(A, p, n) /\ DirectedPath(A, n, p)
  <2>1. CASE n = x
    BY <2>1
  <2>2. CASE n # x
    BY <2>2
  <2> QED
    BY <2>1, <2>2
<1> DEFINE T == {m : m \in {k \in ArcNodes(A) \cup {p} : DirectedPath(A, p, k)}} \ {n}
<1>4. p \in T
  BY <1>3 DEF DirectedPath
<1>5. ~ClosedUnder(T, A)
  BY <1>3, <1>4, PathStaysIn
<1>6. PICK a \in A : a[1] \in T /\ a[2] \notin T
  BY <1>5 DEF ClosedUnder
<1>7. DirectedPath(A, p, a[1]) /\ DirectedPath(A, a[1], a[2])
  BY <1>6 DEF DirectedPath, ClosedUnder
<1>8. a[2] = n
  <2>1. a[2] \in ArcNodes(A) /\ DirectedPath(A, p, a[2])
    BY <1>7, PathTransitive DEF ArcNodes
  <2> QED
    BY <1>6, <2>1
<1>9. a[1] \in S
  <2>1. DirectedPath(A, x, n) /\ DirectedPath(A, n, x)
    OBVIOUS
  <2>2. DirectedPath(A, x, a[1])
    BY <1>3, <1>7, <2>1, PathTransitive
  <2>3. DirectedPath(A, a[1], x)
    BY <1>7, <1>8, <2>1, PathTransitive
  <2> QED
    BY <2>2, <2>3 DEF ArcNodes
<1> QED
  BY <1>2, <1>6, <1>8, <1>9
=============================================================================
