-------------------------- MODULE MIICSkeletonProofs --------------------------
(***************************************************************************)
(* What the skeleton search of ContinuousMIIC guarantees for every sample  *)
(* and every number of variables: each edge is in one place at a time, so  *)
(* that none is cut twice and sepset_.insert never meets an existing key.  *)
(*                                                                         *)
(* The step that needs an argument of its own is that findBestContributor  *)
(* finds a candidate when there is one: a finite set has a best element.   *)
(*                                                                         *)
(* A second invariant, ChainInv, follows each edge along the conditioning  *)
(* sets that it would meet alone: an entry of the heap holds one set of    *)
(* that chain, all the sets before it have failed to cut the edge, and an  *)
(* edge without entry has come to the end of its chain.                    *)
(***************************************************************************)
EXTENDS MIICSkeleton, CommonTheorems

\* The candidates that come before z.
Better(e, U, z) ==
  {w \in Candidates(e, U) :
     \/ Likelihood(e, U, w) > Likelihood(e, U, z)
     \/ Likelihood(e, U, w) = Likelihood(e, U, z) /\ w < z}

\* Between the calls nothing waits, and the heap is walked only once the
\* edges have all been visited.
Waiting ==
  /\ phase = "idle" => rank = {} /\ todo = {}
  /\ phase = "iteration" => todo = {}

\* No conditioning set holds an end of its edge.
SetsAvoidEnds == \A t \in rank : t.U \cap t.edge = {}

IndInv == TypeOK /\ EachEdgeOnce /\ Waiting /\ SetsAvoidEnds
-----------------------------------------------------------------------------
\* A likelihood is a natural number.
LEMMA LikelihoodTyped ==
  ASSUME TypeOK, NEW e \in Edge, NEW U \in SUBSET Node, NEW z \in Node
  PROVE  Likelihood(e, U, z) \in Nat
<1>1. sample.likelihood \in [Settings -> [Edge -> [SUBSET Node -> [Node -> Nat]]]]
  BY MIICAssumption DEF TypeOK
<1> QED
  BY <1>1 DEF TypeOK, Likelihood

\* Where there is a candidate, findBestContributor returns one.
LEMMA ContributorExists ==
  ASSUME TypeOK, NEW e \in Edge, NEW U \in SUBSET Node, Candidates(e, U) # {}
  PROVE  Contributor(e, U) \in Candidates(e, U)
<1> DEFINE C == Candidates(e, U)
           L(z) == Likelihood(e, U, z)
           Family == {Better(e, U, z) : z \in C}
<1>1. IsFiniteSet(C) /\ C \subseteq Node
  BY MIICAssumption, FS_Subset DEF Candidates
<1>2. \A z \in C : L(z) \in Nat /\ z \in Nat
  BY <1>1, LikelihoodTyped, MIICAssumption
<1>3. IsWellFoundedOn(StrictSubsetOrdering(C), FiniteSubsetsOf(C))
  BY <1>1, FS_StrictSubsetOrderingWellFounded
<1>4. Family \subseteq FiniteSubsetsOf(C) /\ Family # {}
  <2>1. \A z \in C : Better(e, U, z) \in SUBSET C
    BY DEF Better
  <2>2. \A T \in SUBSET C : IsFiniteSet(T)
    BY <1>1, FS_Subset
  <2> QED
    BY <2>1, <2>2 DEF FiniteSubsetsOf
<1>5. PICK D \in Family : \A B \in Family : ~(<<B, D>> \in StrictSubsetOrdering(C))
  BY <1>3, <1>4, WFMin
<1>6. PICK z \in C : D = Better(e, U, z)
  BY <1>5
<1>7. ASSUME NEW w \in C, w \in Better(e, U, z)
      PROVE  FALSE
  <2>1. Better(e, U, w) \subseteq Better(e, U, z)
    BY <1>2, <1>7 DEF Better
  <2>2. w \notin Better(e, U, w)
    BY <1>2 DEF Better
  <2>3. <<Better(e, U, w), D>> \in StrictSubsetOrdering(C)
    BY <1>6, <1>7, <2>1, <2>2 DEF StrictSubsetOrdering, Better
  <2> QED
    BY <1>5, <2>3
<1>8. \A w \in C \ {z} : L(z) > L(w) \/ (L(z) = L(w) /\ z < w)
  BY <1>2, <1>7 DEF Better
<1> QED
  BY <1>6, <1>8 DEF Contributor

\* What findBestContributor inserts is one entry for the edge at most.
LEMMA FoundTyped ==
  ASSUME TypeOK, NEW e \in Edge, NEW U \in SUBSET Node
  PROVE  /\ Found(e, U) \subseteq Entry
         /\ \A t \in Found(e, U) : t.edge = e /\ t.U = U /\ t.z \in Candidates(e, U)
         /\ \A t, u \in Found(e, U) : t = u
<1>1. CASE Candidates(e, U) = {}
  BY <1>1 DEF Found
<1>2. CASE Candidates(e, U) # {}
  <2>1. Contributor(e, U) \in Candidates(e, U)
    BY <1>2, ContributorExists
  <2>2. Contributor(e, U) \in Node
    BY <2>1 DEF Candidates
  <2>3. Likelihood(e, U, Contributor(e, U)) \in Nat
    BY <2>2, LikelihoodTyped
  <2> QED
    BY <1>2, <2>1, <2>2, <2>3 DEF Found, Entry
<1> QED
  BY <1>1, <1>2

\* Recorded adds one entry to sepset_.
LEMMA RecordedFacts ==
  ASSUME TypeOK, NEW e \in Edge, NEW U, U \subseteq Node \ e, Recorded(e, U)
  PROVE  /\ DOMAIN sepset' = DOMAIN sepset \cup {e}
         /\ \A f \in DOMAIN sepset' : sepset'[f] \subseteq Node \ f
BY DEF Recorded, TypeOK

LEMMA InitIndInv == Init => IndInv
BY MIICAssumption DEF Init, IndInv, TypeOK, EachEdgeOnce, Waiting, SetsAvoidEnds

\* An edge that initiation visits leaves todo, for the heap or for sepset_.
LEMMA InitiateIndInv ==
  ASSUME IndInv, NEW e \in Edge, Initiate(e)
  PROVE  IndInv'
<1>1. CASE Cuts(e, {})
  <2>1. /\ Recorded(e, {}) /\ graph' = graph \ {e} /\ rank' = rank
        /\ todo' = todo \ {e} /\ e \in todo /\ phase' = phase /\ phase = "initiation"
        /\ UNCHANGED <<sample, settings, calls, switches>>
    BY <1>1 DEF Initiate
  <2>2. /\ DOMAIN sepset' = DOMAIN sepset \cup {e}
        /\ \A f \in DOMAIN sepset' : sepset'[f] \subseteq Node \ f
    BY <2>1, RecordedFacts DEF IndInv
  <2>3. TypeOK'
    BY <2>1, <2>2 DEF IndInv, TypeOK
  <2>4. EachEdgeOnce'
    BY <2>1, <2>2 DEF IndInv, EachEdgeOnce, TypeOK, Candidates
  <2> QED
    BY <2>1, <2>3, <2>4 DEF IndInv, Waiting, SetsAvoidEnds
<1>2. CASE ~Cuts(e, {})
  <2>1. /\ rank' = rank \cup Found(e, {})
        /\ todo' = todo \ {e} /\ e \in todo /\ phase' = phase /\ phase = "initiation"
        /\ UNCHANGED <<sample, settings, graph, sepset, calls, switches>>
    BY <1>2 DEF Initiate
  <2>2. /\ Found(e, {}) \subseteq Entry
        /\ \A t \in Found(e, {}) : t.edge = e /\ t.U = {} /\ t.z \in Candidates(e, {})
        /\ \A t, u \in Found(e, {}) : t = u
    BY FoundTyped DEF IndInv
  <2>3. TypeOK'
    BY <2>1, <2>2 DEF IndInv, TypeOK
  <2>4. EachEdgeOnce'
    BY <2>1, <2>2 DEF IndInv, EachEdgeOnce, TypeOK, Candidates
  <2>5. SetsAvoidEnds'
    BY <2>1, <2>2 DEF IndInv, SetsAvoidEnds
  <2> QED
    BY <2>1, <2>3, <2>4, <2>5 DEF IndInv, Waiting
<1> QED
  BY <1>1, <1>2

\* An edge that is cut leaves the heap for sepset_.
LEMMA CutIndInv ==
  ASSUME IndInv, NEW t \in rank, Cut(t)
  PROVE  IndInv'
<1>1. /\ Recorded(t.edge, t.U \cup {t.z}) /\ graph' = graph \ {t.edge}
      /\ rank' = rank \ {t} /\ phase = "iteration"
      /\ UNCHANGED <<sample, settings, todo, phase, calls, switches>>
  BY DEF Cut, Pop
<1>2. t.edge \in Edge /\ t.edge \in graph /\ t.z \in Candidates(t.edge, t.U)
  BY DEF IndInv, EachEdgeOnce, TypeOK
<1>3. t.U \cup {t.z} \subseteq Node \ t.edge
  BY <1>2 DEF IndInv, EachEdgeOnce, TypeOK, Candidates, Entry, SetsAvoidEnds
<1>4. /\ DOMAIN sepset' = DOMAIN sepset \cup {t.edge}
      /\ \A f \in DOMAIN sepset' : sepset'[f] \subseteq Node \ f
  BY <1>1, <1>2, <1>3, RecordedFacts DEF IndInv
<1>5. TypeOK'
  BY <1>1, <1>2, <1>4 DEF IndInv, TypeOK
<1>6. EachEdgeOnce'
  BY <1>1, <1>2, <1>4 DEF IndInv, EachEdgeOnce, TypeOK, Candidates
<1> QED
  BY <1>1, <1>5, <1>6 DEF IndInv, Waiting, SetsAvoidEnds

\* An edge that is not cut exchanges its entry for another one, or for none.
LEMMA ExtendIndInv ==
  ASSUME IndInv, NEW t \in rank, Extend(t)
  PROVE  IndInv'
<1> DEFINE W == t.U \cup {t.z}
<1>1. /\ rank' = (rank \ {t}) \cup Found(t.edge, W) /\ phase = "iteration"
      /\ UNCHANGED <<sample, settings, graph, sepset, todo, phase, calls, switches>>
  BY DEF Extend, Pop
<1>2. t.edge \in Edge /\ t.edge \in graph \ todo /\ W \in SUBSET Node
  BY DEF IndInv, EachEdgeOnce, TypeOK, Entry
<1>3. /\ Found(t.edge, W) \subseteq Entry
      /\ \A u \in Found(t.edge, W) : u.edge = t.edge /\ u.U = W /\ u.z \in Candidates(t.edge, W)
      /\ \A u, v \in Found(t.edge, W) : u = v
  BY <1>2, FoundTyped DEF IndInv
<1>4. TypeOK'
  BY <1>1, <1>3 DEF IndInv, TypeOK
<1>5. EachEdgeOnce'
  BY <1>1, <1>2, <1>3 DEF IndInv, EachEdgeOnce, Candidates
<1>6. t.U \cap t.edge = {} /\ t.z \notin t.edge
  BY DEF IndInv, SetsAvoidEnds, EachEdgeOnce, Candidates
<1>7. SetsAvoidEnds'
  BY <1>1, <1>3, <1>6 DEF IndInv, SetsAvoidEnds
<1> QED
  BY <1>1, <1>4, <1>5, <1>7 DEF IndInv, Waiting

LEMMA NextIndInv ==
  ASSUME IndInv, [Next]_vars
  PROVE  IndInv'
<1> USE DEF IndInv
<1>1. ASSUME NEW e \in Edge, Initiate(e) PROVE IndInv'
  BY <1>1, InitiateIndInv
<1>2. CASE EndInitiation
  BY <1>2 DEF EndInitiation, TypeOK, EachEdgeOnce, Waiting, Candidates, SetsAvoidEnds
<1>3. ASSUME NEW t \in rank, Cut(t) PROVE IndInv'
  BY <1>3, CutIndInv
<1>4. ASSUME NEW t \in rank, Extend(t) PROVE IndInv'
  BY <1>4, ExtendIndInv
<1>5. CASE EndIteration
  BY <1>5 DEF EndIteration, TypeOK, EachEdgeOnce, Waiting, Candidates, SetsAvoidEnds
<1>6. CASE LearnSkeleton
  BY <1>6, MIICAssumption DEF LearnSkeleton, TypeOK, EachEdgeOnce, Waiting, Candidates, SetsAvoidEnds
<1>7. ASSUME NEW s \in Settings, Configure(s) PROVE IndInv'
  BY <1>7, MIICAssumption DEF Configure, TypeOK, EachEdgeOnce, Waiting, Candidates, SetsAvoidEnds
<1>8. CASE UNCHANGED vars
  BY <1>8 DEF vars, TypeOK, EachEdgeOnce, Waiting, Candidates, SetsAvoidEnds
<1> QED
  BY <1>1, <1>2, <1>3, <1>4, <1>5, <1>6, <1>7, <1>8 DEF Next, Learning

\* The variables of the search have their types: in particular a separator
\* never holds an end of its edge.
THEOREM SearchTyped == Spec => []TypeOK
<1>1. IndInv => TypeOK
  BY DEF IndInv
<1> QED
  BY <1>1, InitIndInv, NextIndInv, PTL DEF Spec

\* Every pair is an edge or has a separator, never both, and an edge has one
\* entry in the heap at most: for any sample, settings changed between calls
\* or not, and any number of calls.
THEOREM EdgesCutOnce == Spec => []EachEdgeOnce
<1>1. IndInv => EachEdgeOnce
  BY DEF IndInv
<1> QED
  BY <1>1, InitIndInv, NextIndInv, PTL DEF Spec
-----------------------------------------------------------------------------
\* The conditioning set that follows U, for as long as there is one.
NextSet(e, U) ==
  IF Candidates(e, U) = {} THEN U ELSE U \cup {Contributor(e, U)}

\* The recursive definition of Chain does define it: the sets start empty and
\* each follows from the one before.
LEMMA ChainUnfolds ==
  ASSUME TypeOK, NEW e \in Edge
  PROVE  /\ Chain(e) \in [Sizes -> SUBSET Node]
         /\ Chain(e)[0] = {}
         /\ \A n \in Sizes \ {0} : Chain(e)[n] = NextSet(e, Chain(e)[n-1])
<1> DEFINE N == Cardinality(Node)
           Body(c) == [n \in 0..N |->
              IF n = 0 THEN {}
              ELSE IF Candidates(e, c[n-1]) = {} THEN c[n-1]
              ELSE c[n-1] \cup {Contributor(e, c[n-1])}]
           next == [U \in SUBSET Node |-> NextSet(e, U)]
<1>1. N \in Nat
  BY MIICAssumption, FS_CardinalityType
<1>2. next \in [SUBSET Node -> SUBSET Node]
  <2> SUFFICES ASSUME NEW U \in SUBSET Node PROVE NextSet(e, U) \in SUBSET Node
    OBVIOUS
  <2> QED
    BY ContributorExists DEF NextSet, Candidates
<1>3. PICK c \in [0..N -> SUBSET Node] :
         c[0] = {} /\ \A n \in 1..N : c[n] = next[c[n-1]]
  <2> DEFINE S == SUBSET Node
             base == {}
  <2>1. base \in S /\ next \in [S -> S]
    BY <1>2
  <2> HIDE DEF next, N, S, base
  <2>2. \E c \in [0..N -> S] : c[0] = base /\ \A n \in 1..N : c[n] = next[c[n-1]]
    BY ONLY <1>1, <2>1, IterationExists, SMTT(60)
  <2> QED
    BY <2>2 DEF S, base
<1>4. c = Body(c)
  <2>1. \A n \in 0..N : c[n] = Body(c)[n]
    <3> TAKE n \in 0..N
    <3>1. CASE n = 0
      BY <1>3, <3>1
    <3>2. CASE n # 0
      <4>1. n \in 1..N /\ n - 1 \in 0..N
        BY <1>1, <3>2
      <4>2. c[n-1] \in SUBSET Node
        BY <1>3, <4>1
      <4>3. c[n] = NextSet(e, c[n-1])
        BY <1>3, <4>1, <4>2
      <4> QED
        BY <3>2, <4>3 DEF NextSet
    <3> QED
      BY <3>1, <3>2
  <2> QED
    BY <1>3, <2>1
<1>5. Chain(e) = CHOOSE d : d = Body(d)
  BY DEF Chain
<1> DEFINE d == Chain(e)
<1>6. d = Body(d)
  <2> HIDE DEF Body
  <2> QED
    BY <1>4, <1>5
<1>7. d[0] = {} /\ \A n \in 1..N : d[n] = NextSet(e, d[n-1])
  <2>1. DOMAIN d = 0..N
    BY <1>6
  <2>2. \A n \in 0..N : d[n] = Body(d)[n]
    BY <1>6, Zenon
  <2> HIDE DEF d
  <2>3. d[0] = {}
    <3>1. 0 \in 0..N
      BY <1>1
    <3>2. d[0] = Body(d)[0]
      BY <2>2, <3>1
    <3> QED
      BY <3>1, <3>2
  <2>4. ASSUME NEW n \in 1..N
        PROVE  d[n] = NextSet(e, d[n-1])
    <3>1. n \in 0..N /\ n # 0
      BY <1>1
    <3> QED
      BY <2>2, <3>1 DEF NextSet
  <2> QED
    BY <2>3, <2>4
<1>8. d \in [0..N -> SUBSET Node]
  <2> DEFINE Bad == {n \in 0..N : d[n] \notin SUBSET Node}
  <2>1. DOMAIN d = 0..N /\ d = [n \in 0..N |-> d[n]]
    BY <1>6
  <2> HIDE DEF d
  <2> SUFFICES ASSUME Bad # {} PROVE FALSE
    BY <2>1
  <2>2. PICK n \in Bad : \A m \in Bad : n <= m
    <3> HIDE DEF Bad
    <3>1. Bad \subseteq Nat
      BY <1>1 DEF Bad
    <3> QED
      BY <3>1, LeastNumber
  <2>3. n # 0
    BY <1>7
  <2>4. n - 1 \in 0..N /\ n \in 1..N
    BY <1>1, <2>3
  <2>5. d[n-1] \in SUBSET Node
    BY <1>1, <2>2, <2>4
  <2>6. d[n] = next[d[n-1]]
    BY <1>7, <2>4, <2>5
  <2> QED
    BY <1>2, <2>5, <2>6
<1> QED
  BY <1>1, <1>7, <1>8 DEF Sizes

\* The first n sets of e's chain leave it uncut, each with a contributor that
\* is likelier than not.
Resists(e, n) ==
  \A m \in 0..n-1 :
     /\ ~Cuts(e, Chain(e)[m])
     /\ Candidates(e, Chain(e)[m]) # {}
     /\ Likelihood(e, Chain(e)[m], Contributor(e, Chain(e)[m])) > Half

\* The edge e has resisted the n first sets of its chain and the one it is at.
At(e, n) == Resists(e, n) /\ ~Cuts(e, Chain(e)[n])

\* An entry of the heap holds the set its edge is at, which has as many
\* variables as the edge has resisted sets, and the likeliest contributor.
EntryOnChain(t) ==
  LET n == Cardinality(t.U)
  IN  /\ t.U = Chain(t.edge)[n]
      /\ t.z = Contributor(t.edge, t.U)
      /\ t.p = Likelihood(t.edge, t.U, t.z)
      /\ At(t.edge, n)

OnChain == \A t \in rank : EntryOnChain(t)

\* An edge that initiation has visited waits in the heap or has resisted
\* every set, down to the one that leaves no candidate.
Exhausted(e) == \E n \in Sizes : At(e, n) /\ Candidates(e, Chain(e)[n]) = {}

VisitedWait ==
  phase # "idle" =>
     \A e \in graph \ todo : Exhausted(e) \/ \E t \in rank : t.edge = e

ChainInv == IndInv /\ IsFiniteSet(rank) /\ OnChain /\ VisitedWait

\* All that a chain depends on is the sample and the settings.
LEMMA SameChain ==
  ASSUME UNCHANGED <<sample, settings>>
  PROVE  /\ \A e, U, z : Likelihood(e, U, z)' = Likelihood(e, U, z)
         /\ \A e, U : Contributor(e, U)' = Contributor(e, U)
         /\ \A e, U : Cuts(e, U)' = Cuts(e, U)
         /\ \A e : Chain(e)' = Chain(e)
<1>1. \A e, U, z : Likelihood(e, U, z)' = Likelihood(e, U, z)
  BY DEF Likelihood
<1>2. \A e, U : Cuts(e, U)' = Cuts(e, U)
  BY DEF Cuts, Info
<1>3. \A e, U : Contributor(e, U)' = Contributor(e, U)
  BY DEF Contributor, Likelihood, Candidates
<1>4. \A e : Chain(e)' = Chain(e)
  BY DEF Chain, Contributor, Likelihood, Candidates
<1> QED
  BY <1>1, <1>2, <1>3, <1>4

\* The next contributor of an entry leads to the next set of the chain.
LEMMA NextOfEntry ==
  ASSUME IndInv, NEW t \in rank, EntryOnChain(t)
  PROVE  LET n == Cardinality(t.U)
             W == t.U \cup {t.z}
         IN  /\ n \in Sizes /\ n + 1 \in Sizes
             /\ W \in SUBSET Node /\ Cardinality(W) = n + 1
             /\ W = Chain(t.edge)[n + 1]
             /\ t.p > Half => Resists(t.edge, n + 1)
<1> DEFINE n == Cardinality(t.U)
           W == t.U \cup {t.z}
<1>1. t.edge \in Edge /\ t.U \in SUBSET Node /\ t.z \in Candidates(t.edge, t.U)
  BY DEF IndInv, TypeOK, Entry, EachEdgeOnce
<1>2. IsFiniteSet(t.U) /\ n \in Nat
  <2>1. IsFiniteSet(t.U)
    BY <1>1, MIICAssumption, FS_Subset
  <2> QED
    BY <2>1, FS_CardinalityType
<1>3. W \in SUBSET Node /\ t.z \notin t.U
  BY <1>1 DEF Candidates
<1>4. Cardinality(W) = n + 1
  BY <1>2, <1>3, FS_AddElement
<1>5. n + 1 <= Cardinality(Node) /\ Cardinality(Node) \in Nat
  <2>1. Cardinality(W) <= Cardinality(Node)
    BY <1>3, MIICAssumption, FS_Subset
  <2>2. Cardinality(Node) \in Nat
    BY MIICAssumption, FS_CardinalityType
  <2> QED
    BY <1>4, <2>1, <2>2
<1>6. n \in Sizes /\ n + 1 \in Sizes \ {0} /\ (n + 1) - 1 = n
  BY <1>2, <1>5 DEF Sizes
<1>7. W = Chain(t.edge)[n + 1]
  <2>1. Chain(t.edge)[n + 1] = NextSet(t.edge, Chain(t.edge)[n])
    BY <1>1, <1>6, ChainUnfolds DEF IndInv
  <2>2. Chain(t.edge)[n] = t.U /\ t.z = Contributor(t.edge, t.U)
    BY DEF EntryOnChain
  <2> QED
    BY <1>1, <2>1, <2>2 DEF NextSet
<1>8. ASSUME t.p > Half
      PROVE  Resists(t.edge, n + 1)
  <2>1. /\ t.U = Chain(t.edge)[n] /\ ~Cuts(t.edge, t.U)
        /\ Likelihood(t.edge, t.U, Contributor(t.edge, t.U)) > Half
        /\ Resists(t.edge, n)
    BY <1>8 DEF EntryOnChain, At
  <2>2. \A m \in 0..(n + 1) - 1 : m = n \/ m \in 0..n-1
    BY <1>2
  <2> QED
    BY <1>1, <2>1, <2>2 DEF Resists
<1> QED
  BY <1>3, <1>4, <1>6, <1>7, <1>8

\* What findBestContributor inserts for the set an edge is at continues the
\* chain, and it inserts nothing only when the chain has come to its end.
LEMMA FoundOnChain ==
  ASSUME TypeOK, NEW e \in Edge, NEW n \in Sizes, NEW U \in SUBSET Node,
         U = Chain(e)[n], Cardinality(U) = n, At(e, n)
  PROVE  /\ IsFiniteSet(Found(e, U))
         /\ \A t \in Found(e, U) : EntryOnChain(t)
         /\ Exhausted(e) \/ \E t \in Found(e, U) : t.edge = e
<1>1. CASE Candidates(e, U) = {}
  <2>1. Found(e, U) = {}
    BY <1>1 DEF Found
  <2>2. Exhausted(e)
    BY <1>1 DEF Exhausted
  <2> QED
    BY <2>1, <2>2, FS_EmptySet
<1>2. CASE Candidates(e, U) # {}
  <2> DEFINE z == Contributor(e, U)
             t == [edge |-> e, z |-> z, U |-> U, p |-> Likelihood(e, U, z)]
  <2>1. Found(e, U) = {t}
    BY <1>2 DEF Found
  <2>2. t.edge = e /\ t.z = z /\ t.U = U /\ t.p = Likelihood(e, U, z)
    OBVIOUS
  <2>3. EntryOnChain(t)
    BY <2>2 DEF EntryOnChain
  <2> HIDE DEF t
  <2> QED
    BY <2>1, <2>2, <2>3, FS_Singleton
<1> QED
  BY <1>1, <1>2

\* A finite heap has a top.
LEMMA HeapTop ==
  ASSUME TypeOK, IsFiniteSet(rank), rank # {}
  PROVE  \E t \in rank : \A u \in rank : u.p <= t.p
<1> DEFINE Above(t) == {u \in rank : u.p > t.p}
           Family == {Above(t) : t \in rank}
<1>1. \A t \in rank : t.p \in Nat
  BY DEF TypeOK, Entry
<1>2. Family \subseteq FiniteSubsetsOf(rank) /\ Family # {}
  <2>1. \A T \in SUBSET rank : IsFiniteSet(T)
    BY FS_Subset
  <2> QED
    BY <2>1 DEF FiniteSubsetsOf
<1>3. PICK A \in Family : \A B \in Family : ~(<<B, A>> \in StrictSubsetOrdering(rank))
  <2>1. IsWellFoundedOn(StrictSubsetOrdering(rank), FiniteSubsetsOf(rank))
    BY FS_StrictSubsetOrderingWellFounded
  <2> HIDE DEF Family
  <2> QED
    BY <1>2, <2>1, WFMin
<1>4. PICK t \in rank : A = Above(t)
  BY <1>3
<1>5. ASSUME NEW u \in rank, u.p > t.p
      PROVE  FALSE
  <2>1. Above(u) \subseteq Above(t) /\ u \in Above(t) /\ u \notin Above(u)
    BY <1>1, <1>5
  <2>2. <<Above(u), Above(t)>> \in StrictSubsetOrdering(rank)
    BY <2>1 DEF StrictSubsetOrdering
  <2> QED
    BY <1>3, <1>4, <2>2
<1> QED
  BY <1>1, <1>5

\* What the heap says of an edge stays true while the settings stay.
LEMMA SameEntries ==
  ASSUME UNCHANGED <<sample, settings>>
  PROVE  /\ \A t : EntryOnChain(t)' = EntryOnChain(t)
         /\ \A e : Exhausted(e)' = Exhausted(e)
         /\ \A e, n : Resists(e, n)' = Resists(e, n)
<1>1. \A e, n : Resists(e, n)' = Resists(e, n)
  BY SameChain DEF Resists, Candidates
<1>2. \A e, n : At(e, n)' = At(e, n)
  BY <1>1, SameChain DEF At
<1>3. \A t : EntryOnChain(t)' = EntryOnChain(t)
  BY <1>2, SameChain DEF EntryOnChain
<1>4. \A e : Exhausted(e)' = Exhausted(e)
  BY <1>2, SameChain DEF Exhausted, Candidates
<1> QED
  BY <1>1, <1>3, <1>4

\* The empty set starts the chain.
LEMMA ChainStarts ==
  ASSUME TypeOK, NEW e \in Edge
  PROVE  0 \in Sizes /\ Chain(e)[0] = {} /\ Cardinality({}) = 0 /\ Resists(e, 0)
<1>1. Cardinality(Node) \in Nat
  BY MIICAssumption, FS_CardinalityType
<1>2. Cardinality({}) = 0
  BY FS_EmptySet
<1> QED
  BY <1>1, <1>2, ChainUnfolds DEF Sizes, Resists

\* An edge that initiation leaves uncut enters the heap with the first set of
\* its chain, or has no candidate at all.
LEMMA InitiateChainInv ==
  ASSUME ChainInv, NEW e \in Edge, Initiate(e)
  PROVE  ChainInv'
<1>1. IndInv'
  BY InitiateIndInv DEF ChainInv
<1>2. /\ UNCHANGED <<sample, settings, phase>> /\ todo' = todo \ {e}
      /\ phase = "initiation"
  BY DEF Initiate
<1>3. CASE Cuts(e, {})
  <2>1. rank' = rank /\ graph' = graph \ {e}
    BY <1>3 DEF Initiate
  <2> QED
    BY <1>1, <1>2, <2>1, SameEntries DEF ChainInv, OnChain, VisitedWait
<1>4. CASE ~Cuts(e, {})
  <2>1. rank' = rank \cup Found(e, {}) /\ graph' = graph
    BY <1>4 DEF Initiate
  <2>2. At(e, 0)
    BY <1>4, ChainStarts DEF At, ChainInv, IndInv
  <2>3. /\ IsFiniteSet(Found(e, {}))
        /\ \A t \in Found(e, {}) : EntryOnChain(t)
        /\ Exhausted(e) \/ \E t \in Found(e, {}) : t.edge = e
    BY <2>2, ChainStarts, FoundOnChain DEF ChainInv, IndInv
  <2>4. IsFiniteSet(rank')
    BY <2>1, <2>3, FS_Union DEF ChainInv
  <2>5. OnChain'
    BY <1>2, <2>1, <2>3, SameEntries DEF ChainInv, OnChain
  <2>6. VisitedWait'
    BY <1>2, <2>1, <2>3, SameEntries DEF ChainInv, VisitedWait
  <2> QED
    BY <1>1, <2>4, <2>5, <2>6 DEF ChainInv
<1> QED
  BY <1>3, <1>4

\* An edge that is cut leaves the heap, and the others are as they were.
LEMMA CutChainInv ==
  ASSUME ChainInv, NEW t \in rank, Cut(t)
  PROVE  ChainInv'
<1>1. IndInv'
  BY CutIndInv DEF ChainInv
<1>2. /\ UNCHANGED <<sample, settings, phase, todo>>
      /\ rank' = rank \ {t} /\ graph' = graph \ {t.edge}
  BY DEF Cut, Pop
<1>3. IsFiniteSet(rank')
  BY <1>2, FS_RemoveElement DEF ChainInv
<1>4. OnChain'
  BY <1>2, SameEntries DEF ChainInv, OnChain
<1>5. VisitedWait'
  BY <1>2, SameEntries DEF ChainInv, VisitedWait
<1> QED
  BY <1>1, <1>3, <1>4, <1>5 DEF ChainInv

\* An edge that resists its set goes on to the next one of its chain.
LEMMA ExtendChainInv ==
  ASSUME ChainInv, NEW t \in rank, Extend(t)
  PROVE  ChainInv'
<1> DEFINE n == Cardinality(t.U)
           W == t.U \cup {t.z}
           F == Found(t.edge, W)
<1>1. IndInv'
  BY ExtendIndInv DEF ChainInv
<1>2. /\ UNCHANGED <<sample, settings, phase, todo, graph>>
      /\ rank' = (rank \ {t}) \cup F
      /\ t.p > Half /\ ~Cuts(t.edge, W)
  BY DEF Extend, Pop
<1>3. /\ n + 1 \in Sizes /\ W \in SUBSET Node /\ Cardinality(W) = n + 1
      /\ W = Chain(t.edge)[n + 1] /\ Resists(t.edge, n + 1)
  BY <1>2, NextOfEntry DEF ChainInv, OnChain
<1>4. At(t.edge, n + 1)
  BY <1>2, <1>3 DEF At
<1>5. t.edge \in Edge
  BY DEF ChainInv, IndInv, TypeOK, Entry
<1> HIDE DEF n, W
<1>6. /\ IsFiniteSet(F) /\ \A u \in F : EntryOnChain(u)
      /\ Exhausted(t.edge) \/ \E u \in F : u.edge = t.edge
  BY <1>3, <1>4, <1>5, FoundOnChain DEF ChainInv, IndInv
<1> HIDE DEF F
<1>7. IsFiniteSet(rank')
  <2>1. IsFiniteSet(rank \ {t})
    BY FS_RemoveElement DEF ChainInv
  <2> QED
    BY <1>2, <1>6, <2>1, FS_Union
<1>8. OnChain'
  BY <1>2, <1>6, SameEntries DEF ChainInv, OnChain
<1>9. VisitedWait'
  BY <1>2, <1>6, SameEntries DEF ChainInv, VisitedWait
<1> QED
  BY <1>1, <1>7, <1>8, <1>9 DEF ChainInv

LEMMA NextChainInv ==
  ASSUME ChainInv, [Next]_vars
  PROVE  ChainInv'
<1>1. IndInv'
  BY NextIndInv DEF ChainInv
<1>2. ASSUME NEW e \in Edge, Initiate(e) PROVE ChainInv'
  BY <1>2, InitiateChainInv
<1>3. CASE EndInitiation
  <2>1. UNCHANGED <<sample, settings, graph, rank, todo>> /\ phase = "initiation"
    BY <1>3 DEF EndInitiation
  <2> QED
    BY <1>1, <2>1, SameEntries DEF ChainInv, OnChain, VisitedWait
<1>4. ASSUME NEW t \in rank, Cut(t) PROVE ChainInv'
  BY <1>4, CutChainInv
<1>5. ASSUME NEW t \in rank, Extend(t) PROVE ChainInv'
  BY <1>5, ExtendChainInv
<1>6. CASE EndIteration
  BY <1>1, <1>6, FS_EmptySet DEF EndIteration, ChainInv, OnChain, VisitedWait
<1>7. CASE LearnSkeleton
  <2>1. UNCHANGED <<sample, settings, graph, rank>> /\ todo' = graph
    BY <1>7 DEF LearnSkeleton
  <2> QED
    BY <1>1, <2>1, SameEntries DEF ChainInv, OnChain, VisitedWait
<1>8. ASSUME NEW s \in Settings, Configure(s) PROVE ChainInv'
  <2>1. rank = {} /\ rank' = {} /\ phase' = "idle"
    BY <1>8 DEF Configure, ChainInv, IndInv, Waiting
  <2> QED
    BY <1>1, <2>1, FS_EmptySet DEF ChainInv, OnChain, VisitedWait
<1>9. CASE UNCHANGED vars
  BY <1>1, <1>9, SameEntries DEF vars, ChainInv, OnChain, VisitedWait
<1> QED
  BY <1>2, <1>3, <1>4, <1>5, <1>6, <1>7, <1>8, <1>9 DEF Next, Learning

LEMMA ChainInvHolds == Spec => []ChainInv
<1>1. Init => ChainInv
  BY InitIndInv, FS_EmptySet DEF Init, ChainInv, OnChain, VisitedWait
<1> QED
  BY <1>1, NextChainInv, PTL DEF Spec
-----------------------------------------------------------------------------
\* When the loop of iteration ends, no edge that is left has a set that cuts
\* it: the heap's top is likely no more, or its chain has come to its end.
LEMMA EndsResisting ==
  ASSUME ChainInv, EndIteration, NEW e \in graph, NEW k \in Sizes
  PROVE  ~CutBy(e, k)
<1> SUFFICES ASSUME CutBy(e, k) PROVE FALSE
  OBVIOUS
<1>1. /\ k \in Nat /\ Cuts(e, Chain(e)[k])
      /\ \A m \in 0..k-1 :
           /\ Candidates(e, Chain(e)[m]) # {}
           /\ Likelihood(e, Chain(e)[m], Contributor(e, Chain(e)[m])) > Half
  BY DEF CutBy, Sizes
<1>2. ASSUME NEW n \in Nat, At(e, n)
      PROVE  n \in 0..k-1
  <2>1. \A m \in 0..n : ~Cuts(e, Chain(e)[m])
    BY <1>2 DEF At, Resists
  <2> QED
    BY <1>1, <2>1
<1>3. CASE Exhausted(e)
  <2>1. PICK n \in Sizes : At(e, n) /\ Candidates(e, Chain(e)[n]) = {}
    BY <1>3 DEF Exhausted
  <2>2. n \in Nat
    BY <2>1 DEF Sizes
  <2> QED
    BY <1>1, <1>2, <2>1, <2>2
<1>4. ASSUME NEW t \in rank, t.edge = e
      PROVE  FALSE
  <2> DEFINE n == Cardinality(t.U)
  <2>1. EntryOnChain(t)
    BY DEF ChainInv, OnChain
  <2>2. n \in Sizes
    BY <2>1, NextOfEntry DEF ChainInv
  <2>3. n \in 0..k-1
    BY <1>2, <1>4, <2>1, <2>2 DEF EntryOnChain, Sizes
  <2>4. t.p > Half
    BY <1>1, <1>4, <2>1, <2>3 DEF EntryOnChain
  <2>5. PICK u \in rank : \A v \in rank : v.p <= u.p
    BY HeapTop DEF ChainInv, IndInv
  <2>6. u.p <= Half /\ t.p <= u.p
    BY <2>5 DEF EndIteration
  <2>7. u.p \in Nat /\ t.p \in Nat /\ Half \in Nat
    BY MIICAssumption DEF ChainInv, IndInv, TypeOK, Entry
  <2> QED
    BY <2>4, <2>6, <2>7
<1> QED
  BY <1>3, <1>4 DEF ChainInv, VisitedWait, IndInv, Waiting, EndIteration

\* An edge that is removed has resisted the sets before the one recorded.
LEMMA RemovalOnChain ==
  ASSUME ChainInv, [Next]_vars, NEW e \in graph \ graph'
  PROVE  \E n \in Sizes : CutBy(e, n) /\ sepset'[e] = Chain(e)[n]
<1>1. ASSUME NEW f \in Edge, Initiate(f)
      PROVE  \E n \in Sizes : CutBy(e, n) /\ sepset'[e] = Chain(e)[n]
  <2>1. Cuts(e, {}) /\ Recorded(e, {}) /\ e \in Edge
    BY <1>1 DEF Initiate
  <2>2. sepset'[e] = {}
    BY <2>1 DEF Recorded
  <2>3. 0 \in Sizes /\ Chain(e)[0] = {}
    BY <2>1, ChainStarts DEF ChainInv, IndInv
  <2>4. CutBy(e, 0)
    BY <2>1, <2>3 DEF CutBy
  <2> QED
    BY <2>2, <2>3, <2>4
<1>2. ASSUME NEW t \in rank, Cut(t)
      PROVE  \E n \in Sizes : CutBy(e, n) /\ sepset'[e] = Chain(e)[n]
  <2> DEFINE n == Cardinality(t.U) + 1
             W == t.U \cup {t.z}
  <2>1. e = t.edge /\ Cuts(e, W) /\ Recorded(e, W) /\ t.p > Half
    BY <1>2 DEF Cut, Pop
  <2>2. n \in Sizes /\ W = Chain(e)[n] /\ Resists(e, n)
    BY <2>1, NextOfEntry DEF ChainInv, OnChain
  <2>3. sepset'[e] = W
    BY <2>1 DEF Recorded
  <2> HIDE DEF n, W
  <2> QED
    BY <2>1, <2>2, <2>3 DEF CutBy, Resists
<1> QED
  BY <1>1, <1>2 DEF Next, Learning, EndInitiation, Extend, EndIteration,
     LearnSkeleton, Configure, vars

\* An edge is only removed by its own conditioning sets, and its separator is
\* the set that cut it: the other edges and the order in which the heap gives
\* them do not matter, for any sample and any settings.
THEOREM RemovalsFollowChains == Spec => RemovedByItsChain
<1>1. ChainInv /\ [Next]_vars =>
        [\A e \in graph \ graph' : \E n \in Sizes : CutBy(e, n) /\ sepset'[e] = Chain(e)[n]]_vars
  BY RemovalOnChain
<1> QED
  BY <1>1, ChainInvHolds, PTL DEF Spec, RemovedByItsChain

\* No edge that learnSkeleton keeps has a conditioning set left that would
\* cut it under the present settings: the loop stops early only on a top that
\* is unlikely, and then every entry is.
THEOREM KeptEdgesResistAll == Spec => KeptEdgesResist
<1>1. ChainInv /\ [Next]_vars =>
        [phase # "idle" /\ phase' = "idle" => \A e \in graph', n \in Sizes : ~CutBy(e, n)]_vars
  <2> SUFFICES ASSUME ChainInv, [Next]_vars, phase # "idle", phase' = "idle",
                      NEW e \in graph', NEW n \in Sizes
               PROVE  ~CutBy(e, n)
    OBVIOUS
  <2>1. EndIteration
    BY DEF Next, Learning, Initiate, EndInitiation, Cut, Extend, Pop,
       LearnSkeleton, Configure, vars
  <2>2. graph' = graph
    BY <2>1 DEF EndIteration
  <2> QED
    BY <2>1, <2>2, EndsResisting
<1> QED
  BY <1>1, ChainInvHolds, PTL DEF Spec, KeptEdgesResist

\* Once every edge resists, learning again changes nothing under the same
\* settings: with KeptEdgesResist, the second of two calls returns the skeleton
\* and the separators of the first.
THEOREM SecondCallIdle ==
  Spec => [][(\A e \in graph, n \in Sizes : ~CutBy(e, n)) => UNCHANGED <<graph, sepset>>]_vars
<1>1. ChainInv /\ [Next]_vars =>
        [(\A e \in graph, n \in Sizes : ~CutBy(e, n)) => UNCHANGED <<graph, sepset>>]_vars
  <2> SUFFICES ASSUME ChainInv, [Next]_vars, \A e \in graph, n \in Sizes : ~CutBy(e, n)
               PROVE  UNCHANGED <<graph, sepset>>
    OBVIOUS
  <2>1. graph \ graph' = {}
    BY RemovalOnChain
  <2>2. ASSUME NEW e \in Edge, Initiate(e)
        PROVE  UNCHANGED <<graph, sepset>>
    BY <2>1, <2>2 DEF Initiate, ChainInv, IndInv, EachEdgeOnce
  <2>3. ASSUME NEW t \in rank, Cut(t)
        PROVE  FALSE
    BY <2>1, <2>3 DEF Cut, ChainInv, IndInv, EachEdgeOnce
  <2> QED
    BY <2>2, <2>3 DEF Next, Learning, EndInitiation, Extend, EndIteration,
       LearnSkeleton, Configure, vars
<1> QED
  BY <1>1, ChainInvHolds, PTL DEF Spec
=============================================================================
