-------------------------- MODULE DistributionsProofs --------------------------
(***************************************************************************)
(* The learned distributions keep meaning the same variables, for every    *)
(* graph, hash table, sample and sequence of calls.                        *)
(*                                                                         *)
(* Network: a hash set may list parents in any order, but the order it     *)
(* lists is one that a set filled by it lists again; this is what brings   *)
(* the copulas of a saved network back to their parents.                   *)
(*                                                                         *)
(* Copula: three facts about the tree survive getMarginal, where equality  *)
(* with the maximal parts of the first cliques would not show why: every   *)
(* part of a first clique lies in some clique (Covers), every clique is    *)
(* such a part (Parts) and no clique lies strictly in another (Unnested).  *)
(*                                                                         *)
(* Tree of a marginal: while getMarginal drops cliques and takes edges,    *)
(* there is always a junction tree of the cliques left that has the edges  *)
(* taken, and only edges still to be met besides (CliquesJoined and        *)
(* EdgesJoined).  A dropped clique leaves its neighbours to the one that   *)
(* holds it (DropCovered); an edge that is heaviest and closes no cycle    *)
(* can replace one of the tree (HeaviestFits), as on the path between its  *)
(* ends every separator holds what the ends share.                         *)
(*                                                                         *)
(* Order of the cliques: the nodes visited in one component are connected, *)
(* so that the next one hangs on them by one edge, and shares with them    *)
(* what the separator of this edge holds (Entered).  Nodes and edges are   *)
(* then as many for each separator (OrderCounts).                          *)
(***************************************************************************)
EXTENDS ContinuousBayesianNetwork, JunctionTreeBernsteinCopula, CommonTheorems

\* The parents as a set lists them, and before each node in the order.
DAGSound(d) ==
  /\ \A n \in DOMAIN d.parents : Listing[d.parents[n]] = d.parents[n]
  /\ \A n \in DOMAIN d.parents : d.parents[n] \in Lists
  /\ \A i \in DOMAIN d.order :
       ToSet(d.parents[d.order[i]]) \subseteq {d.order[j] : j \in 1..i-1}

\* The copulas belong to the parents as they are listed.
CopulasOf(parents, copulas) ==
  /\ DOMAIN copulas = DOMAIN parents
  /\ \A n \in DOMAIN parents : copulas[n] = Append(parents[n], n)

NetworkInv ==
  /\ DAGSound(network.dag)
  /\ CopulasOf(network.dag.parents, network.copulas)
  /\ archive.exists =>
       /\ \A n \in DOMAIN archive.parents : archive.parents[n] \in Lists
       /\ \A n \in DOMAIN archive.parents : Listing[archive.parents[n]] = archive.parents[n]
       /\ CopulasOf(archive.parents, archive.copulas)

\* What build_OTrepr_ derives from the arcs, for any topological order.
LEMMA ReprSound ==
  ASSUME NEW arcs, \A n \in DOMAIN arcs : arcs[n] \in Lists, NEW d \in NamedDAGs(arcs)
  PROVE  /\ DAGSound(d)
         /\ DOMAIN d.parents = DOMAIN arcs
         /\ \A n \in DOMAIN arcs : d.parents[n] = Listing[arcs[n]]
<1>1. PICK topo \in TopologicalOrders(arcs) : d = BuildRepr(arcs, topo)
  BY DEF NamedDAGs
<1>2. /\ d.order = topo
      /\ d.parents = [n \in DOMAIN arcs |-> Listing[arcs[n]]]
  BY <1>1 DEF BuildRepr
<1>3. \A n \in DOMAIN arcs : /\ Listing[arcs[n]] \in Lists
                             /\ ToSet(Listing[arcs[n]]) = ToSet(arcs[n])
                             /\ Listing[Listing[arcs[n]]] = Listing[arcs[n]]
  BY ListingAssumption
<1>4. /\ ToSet(topo) = DOMAIN arcs
      /\ \A i \in DOMAIN topo : ToSet(arcs[topo[i]]) \subseteq {topo[j] : j \in 1..i-1}
  BY <1>1 DEF TopologicalOrders
<1>5. \A i \in DOMAIN topo : topo[i] \in DOMAIN arcs
  BY <1>4 DEF ToSet
<1>6. \A i \in DOMAIN topo :
        ToSet(d.parents[topo[i]]) \subseteq {topo[j] : j \in 1..i-1}
  BY <1>2, <1>3, <1>4, <1>5
<1> QED
  BY <1>2, <1>3, <1>6 DEF DAGSound

\* A factory, or a caller, that reads the parents off the DAG.
LEMMA LearnedSound ==
  ASSUME NEW dag \in GivenDAGs
  PROVE  /\ DAGSound(dag)
         /\ Learned(dag).dag = dag
         /\ CopulasOf(dag.parents, Learned(dag).copulas)
<1>1. PICK arcs \in Given : dag \in NamedDAGs(arcs)
  BY DEF GivenDAGs
<1>2. \A n \in DOMAIN arcs : arcs[n] \in Lists
  BY <1>1, NetworkAssumption
<1>3. DAGSound(dag)
  BY <1>1, <1>2, ReprSound
<1> QED
  BY <1>3 DEF Learned, Scope, CopulasOf

LEMMA NetworkInitSound == NetworkInit => NetworkInv
<1> SUFFICES ASSUME NetworkInit PROVE NetworkInv
  OBVIOUS
<1>1. /\ DOMAIN network.dag.parents = {} /\ DOMAIN network.dag.order = {}
      /\ DOMAIN network.copulas = {}
      /\ ~archive.exists
  BY DEF NetworkInit, Empty, BuildRepr, Nothing
<1> QED
  BY <1>1 DEF NetworkInv, DAGSound, CopulasOf

LEMMA NetworkStepSound == NetworkInv /\ [NetworkNext]_networkVars => NetworkInv'
<1> SUFFICES ASSUME NetworkInv, [NetworkNext]_networkVars PROVE NetworkInv'
  OBVIOUS
<1>1. CASE Build \/ SetDAGAndMarginalsAndCopulas
  <2>1. PICK dag \in GivenDAGs : network' = Learned(dag)
    BY <1>1 DEF Build, SetDAGAndMarginalsAndCopulas
  <2>2. archive' = archive
    BY <1>1 DEF Build, SetDAGAndMarginalsAndCopulas
  <2>3. /\ DAGSound(network'.dag)
        /\ CopulasOf(network'.dag.parents, network'.copulas)
    BY <2>1, LearnedSound
  <2> QED
    BY <2>2, <2>3 DEF NetworkInv, DAGSound
<1>2. CASE Reject
  BY <1>2 DEF Reject, networkVars, NetworkInv, DAGSound
<1>3. CASE SaveNetwork
  <2>1. /\ network' = network
        /\ archive'.parents = network.dag.parents /\ archive'.copulas = network.copulas
    BY <1>3 DEF SaveNetwork, Stored
  <2> QED
    BY <2>1 DEF NetworkInv, DAGSound
<1>4. CASE LoadNetwork
  <2>1. PICK dag \in NamedDAGs(archive.parents) :
          network' = [dag |-> dag, copulas |-> archive.copulas, marginals |-> archive.marginals]
    BY <1>4 DEF LoadNetwork, Reloaded
  <2>2. archive' = archive /\ archive.exists
    BY <1>4 DEF LoadNetwork
  <2>3. /\ network'.dag = dag /\ network'.copulas = archive.copulas
    BY <2>1
  <2>4. /\ DAGSound(dag)
        /\ DOMAIN dag.parents = DOMAIN archive.parents
        /\ \A n \in DOMAIN archive.parents : dag.parents[n] = Listing[archive.parents[n]]
    BY <2>2, ReprSound DEF NetworkInv
  <2>5. CopulasOf(dag.parents, archive.copulas)
    BY <2>2, <2>4 DEF NetworkInv, CopulasOf
  <2> QED
    BY <2>2, <2>3, <2>4, <2>5 DEF NetworkInv, DAGSound
<1>5. CASE UNCHANGED networkVars
  BY <1>5 DEF networkVars, NetworkInv, DAGSound
<1> QED
  BY <1>1, <1>2, <1>3, <1>4, <1>5 DEF NetworkNext

\* The copula of each node stands for its parents in the order the DAG lists
\* them, then for the node, and the order of drawing has the parents first:
\* for every network, hash table, and sequence of saves and loads.
THEOREM NetworkComponentsMatch == NetworkSpec => []ComponentsMatch
<1>1. NetworkInv => ComponentsMatch
  BY DEF NetworkInv, ComponentsMatch, CopulasOf, Arguments, DAGSound
<1> QED
  BY NetworkInitSound, NetworkStepSound, <1>1, PTL DEF NetworkSpec
-----------------------------------------------------------------------------
\* Junction trees

\* No edge of E leaves X.
Closed(X, E) == \A e \in E : e \cap X # {} => e \subseteq X

\* Being joined, by cuts of any size.
LEMMA JoinedThrough ==
  ASSUME NEW E, NEW c, NEW d, Joined(E, c, d), NEW X, Closed(X, E), c \in X
  PROVE  d \in X
<1> DEFINE Y == X \cap ((UNION E) \cup {c, d})
<1>1. Y \in SUBSET ((UNION E) \cup {c, d})
  OBVIOUS
<1>2. c \in Y
  OBVIOUS
<1>3. \A e \in E : e \cap Y # {} => e \subseteq Y
  BY DEF Closed
<1> HIDE DEF Y
<1>4. d \in Y
  BY <1>1, <1>2, <1>3 DEF Joined
<1> QED
  BY <1>4 DEF Y

\* To be joined is to be on the same side of every cut.
LEMMA JoinedIf ==
  ASSUME NEW E, NEW c, NEW d, \A X : Closed(X, E) /\ c \in X => d \in X
  PROVE  Joined(E, c, d)
BY DEF Joined, Closed

\* Two nodes that are not joined are on the two sides of a cut.
LEMMA CutExists ==
  ASSUME NEW E, NEW c, NEW d, ~Joined(E, c, d)
  PROVE  \E X : Closed(X, E) /\ c \in X /\ d \notin X
BY DEF Joined, Closed

\* The other side of a cut is one too.
LEMMA OtherSide ==
  ASSUME NEW U, NEW E, \A e \in E : e \subseteq U, NEW X, Closed(X, E)
  PROVE  Closed(U \ X, E)
BY DEF Closed

\* Being joined goes both ways,
LEMMA JoinedSym ==
  ASSUME NEW E, NEW c, NEW d, Joined(E, c, d)
  PROVE  Joined(E, d, c)
<1> SUFFICES ASSUME NEW X, Closed(X, E), d \in X, c \notin X
             PROVE  FALSE
  BY JoinedIf
<1> DEFINE U == (UNION E) \cup {c, d}
<1>1. \A e \in E : e \subseteq U
  OBVIOUS
<1>2. c \in U /\ d \in U
  OBVIOUS
<1> HIDE DEF U
<1>3. Closed(U \ X, E)
  BY <1>1, OtherSide
<1> QED
  BY <1>2, <1>3, JoinedThrough

\* and on,
LEMMA JoinedTrans ==
  ASSUME NEW E, NEW b, NEW c, NEW d, Joined(E, b, c), Joined(E, c, d)
  PROVE  Joined(E, b, d)
<1> SUFFICES ASSUME NEW X, Closed(X, E), b \in X
             PROVE  d \in X
  BY JoinedIf
<1>1. c \in X
  BY JoinedThrough
<1> QED
  BY <1>1, JoinedThrough

\* and is not lost when there are more edges;
LEMMA JoinedMore ==
  ASSUME NEW E, NEW F, E \subseteq F, NEW c, NEW d, Joined(E, c, d)
  PROVE  Joined(F, c, d)
<1> SUFFICES ASSUME NEW X, Closed(X, F), c \in X
             PROVE  d \in X
  BY JoinedIf
<1>1. Closed(X, E)
  BY DEF Closed
<1> QED
  BY <1>1, JoinedThrough

\* an edge joins its ends.
LEMMA JoinedByEdge ==
  ASSUME NEW E, NEW e \in E, NEW c \in e, NEW d \in e
  PROVE  Joined(E, c, d)
BY JoinedIf DEF Closed

\* What one node is joined to is a side of a cut.
LEMMA ReachClosed ==
  ASSUME NEW U, NEW E, \A e \in E : e \subseteq U, NEW c
  PROVE  Closed({d \in U : Joined(E, c, d)}, E)
<1> SUFFICES ASSUME NEW e \in E, NEW x \in e, Joined(E, c, x), NEW y \in e
             PROVE  Joined(E, c, y)
  BY DEF Closed
<1> QED
  BY JoinedByEdge, JoinedTrans
-----------------------------------------------------------------------------
\* J joins the cliques P[c] of the nodes c of S: into a forest, in which two
\* cliques that share a variable are joined through cliques that hold it.
Through(J, P, v) == {e \in J : v \in Separator(P, e)}

JoinTree(J, S, P) ==
  /\ \A e \in J : \E c, d \in S : c # d /\ e = {c, d}
  /\ \A e \in J : Separator(P, e) # {}
  /\ \A e \in J : \A c, d \in e : c # d => ~Joined(J \ {e}, c, d)
  /\ \A c, d \in S : \A v \in P[c] \cap P[d] : Joined(Through(J, P, v), c, d)

\* The separator of the edge between two cliques.
LEMMA SeparatorOfPair ==
  ASSUME NEW P, NEW c, NEW d
  PROVE  Separator(P, {c, d}) = P[c] \cap P[d]
BY DEF Separator

\* A cut Z of J but for f holds one end of f, p, and the node x. Then no cut of the
\* edges that hold v, f excepted, comes between the two.
LEMMA SameSide ==
  ASSUME NEW S, NEW P, NEW J, JoinTree(J, S, P), NEW f \in J, NEW Z, Closed(Z, J \ {f}),
         NEW x \in Z, x \in S, NEW p \in S, f \cap Z = {p},
         NEW v \in P[x] \cap P[p],
         NEW X, Closed(X, Through(J, P, v) \ {f})
  PROVE  x \in X <=> p \in X
<1> DEFINE V == Through(J, P, v)
<1>1. Joined(V, x, p)
  BY DEF JoinTree
<1>2. V \subseteq J
  BY DEF Through
<1> HIDE DEF V
<1>3. ASSUME x \in X, p \notin X
      PROVE  FALSE
  <2>1. Closed(X \cap Z, V)
    BY <1>2, <1>3 DEF Closed, V
  <2> QED
    BY <1>1, <1>3, <2>1, JoinedThrough
<1>4. ASSUME x \notin X, p \in X
      PROVE  FALSE
  <2>1. Closed(Z \ X, V)
    BY <1>2, <1>4 DEF Closed, V
  <2> QED
    BY <1>1, <1>4, <2>1, JoinedThrough
<1> QED
  BY <1>3, <1>4

\* An edge f on the path from a to b may be replaced by one that joins a to b,
\* if these share all that f separates.
LEMMA Swap ==
  ASSUME NEW S, NEW P, NEW J, JoinTree(J, S, P), NEW f \in J, NEW a \in S, NEW b \in S,
         a # b, Joined(J, a, b), ~Joined(J \ {f}, a, b),
         Separator(P, f) \subseteq P[a] \cap P[b]
  PROVE  JoinTree((J \ {f}) \cup {{a, b}}, S, P)
<1> DEFINE e == {a, b}
           rest == J \ {f}
           K == rest \cup {e}
           R == {d \in S : Joined(rest, a, d)}
           L == S \ R
<1>1. \A g \in J : g \subseteq S
  BY DEF JoinTree
<1>2. Closed(R, rest) /\ Closed(L, rest)
  <2>1. \A g \in rest : g \subseteq S
    BY <1>1
  <2> HIDE DEF rest
  <2>2. Closed(R, rest)
    BY <2>1, ReachClosed
  <2> QED
    BY <2>1, <2>2, OtherSide
<1>3. a \in R /\ b \in L
  <2>1. Joined(rest, a, a)
    BY JoinedIf
  <2> QED
    BY <2>1
<1>4. PICK p \in S, q \in S : f = {p, q} /\ p \in R /\ q \in L
  <2>1. ~Closed(R, J)
    <3> HIDE DEF R
    <3> QED
      BY <1>3, JoinedThrough
  <2>2. f \cap R # {} /\ ~(f \subseteq R)
    BY <1>2, <2>1 DEF Closed
  <2>3. PICK c \in S, d \in S : f = {c, d}
    BY DEF JoinTree
  <2>4. ASSUME NEW x \in S, NEW y \in S, f = {x, y}, x \in R
        PROVE  y \in L
    BY <2>2, <2>4
  <2>5. c \in R \/ d \in R
    BY <2>2, <2>3
  <2> HIDE DEF R, L
  <2>6. CASE c \in R
    BY <2>3, <2>4, <2>6
  <2>7. CASE d \in R
    <3>1. f = {d, c}
      BY <2>3
    <3> QED
      BY <2>4, <2>7, <3>1
  <2> QED
    BY <2>5, <2>6, <2>7
<1>5. R \cap L = {} /\ R \subseteq S /\ L \subseteq S
  OBVIOUS
<1> HIDE DEF R, L
<1>6. e \notin rest
  <2> SUFFICES ASSUME e \in rest PROVE FALSE
    OBVIOUS
  <2> QED
    BY <1>2, <1>3, <1>5 DEF Closed
<1>7. Separator(P, f) = P[p] \cap P[q] /\ Separator(P, e) = P[a] \cap P[b]
  BY <1>4, SeparatorOfPair
<1>8. \A g \in K : \E c, d \in S : c # d /\ g = {c, d}
  BY DEF JoinTree
<1>9. \A g \in K : Separator(P, g) # {}
  BY <1>7 DEF JoinTree
<1>10. ASSUME NEW c \in S, NEW d \in S, NEW v \in P[c] \cap P[d]
       PROVE  Joined(Through(K, P, v), c, d)
  <2> SUFFICES ASSUME NEW X, Closed(X, Through(K, P, v)), c \in X
               PROVE  d \in X
    BY JoinedIf
  <2>1. Joined(Through(J, P, v), c, d)
    BY DEF JoinTree
  <2>2. Through(J, P, v) \ {f} \subseteq Through(K, P, v)
    BY DEF Through
  <2>3. Closed(X, Through(J, P, v) \ {f})
    BY <2>2 DEF Closed
  <2>4. v \in Separator(P, f) => (p \in X <=> q \in X)
    <3> SUFFICES ASSUME v \in Separator(P, f) PROVE p \in X <=> q \in X
      OBVIOUS
    <3>1. v \in P[p] /\ v \in P[q] /\ v \in P[a] /\ v \in P[b]
      BY <1>7
    <3>2. e \in Through(K, P, v)
      BY <1>7, <3>1 DEF Through
    <3>3. a \in X <=> b \in X
      BY <3>2 DEF Closed
    <3>4. f \cap R = {p} /\ f \cap L = {q}
      BY <1>4, <1>5
    <3>5. a \in X <=> p \in X
      BY <1>2, <1>3, <2>3, <3>1, <3>4, SameSide
    <3>6. b \in X <=> q \in X
      <4>1. v \in P[b] \cap P[q] /\ Closed(L, J \ {f}) /\ b \in L /\ q \in S /\ f \cap L = {q}
        BY <1>2, <1>3, <1>4, <3>1, <3>4
      <4> QED
        BY <2>3, <4>1, SameSide
    <3> QED
      BY <3>3, <3>5, <3>6
  <2>5. Closed(X, Through(J, P, v))
    <3> SUFFICES ASSUME NEW g \in Through(J, P, v), g \cap X # {}
                 PROVE  g \subseteq X
      BY DEF Closed
    <3>1. CASE g = f
      BY <1>4, <2>4, <3>1 DEF Through
    <3>2. CASE g # f
      BY <2>3, <3>2 DEF Closed
    <3> QED
      BY <3>1, <3>2
  <2> QED
    BY <2>1, <2>5, JoinedThrough
<1>11. ASSUME NEW g \in K, NEW c \in g, NEW d \in g, c # d
       PROVE  ~Joined(K \ {g}, c, d)
  <2>1. CASE g = e
    <3>1. K \ {g} = rest
      BY <1>6, <2>1
    <3>2. ~Joined(rest, a, b) /\ ~Joined(rest, b, a)
      BY JoinedSym
    <3> QED
      BY <1>11, <2>1, <3>1, <3>2
  <2>2. CASE g # e
    <3>1. g \in rest /\ g \in J
      BY <2>2
    <3>2. PICK X : Closed(X, J \ {g}) /\ c \in X /\ d \notin X
      <4>1. ~Joined(J \ {g}, c, d)
        BY <1>11, <3>1 DEF JoinTree
      <4> QED
        BY <4>1, CutExists
    <3>3. PICK Z : /\ Closed(Z, rest) /\ c \in Z /\ d \in Z
                   /\ \E x, y : e = {x, y} /\ x \in Z /\ y \notin Z
      <4>1. c \in S /\ d \in S
        BY <1>1, <1>11, <3>1
      <4>2. c \in R <=> d \in R
        BY <1>2, <1>11, <3>1 DEF Closed
      <4>3. CASE c \in R
        BY <1>2, <1>3, <1>5, <4>2, <4>3
      <4>4. CASE c \notin R
        <5>1. c \in L /\ d \in L
          BY <4>1, <4>2, <4>4 DEF L
        <5>2. e = {b, a} /\ b \in L /\ a \notin L
          BY <1>3, <1>5
        <5> QED
          BY <1>2, <5>1, <5>2
      <4> QED
        BY <4>3, <4>4
    <3>4. PICK x, y : e = {x, y} /\ x \in Z /\ y \notin Z
      BY <3>3
    <3> DEFINE Y == IF x \in X THEN Z \ X ELSE Z \cap X
    <3>5. e \cap Y = {}
      BY <3>4
    <3>6. Closed(Y, K \ {g})
      <4>1. ASSUME NEW h \in rest, h # g, h \cap Y # {}
            PROVE  h \subseteq Y
        <5>1. h \subseteq Z
          BY <3>3, <4>1 DEF Closed
        <5>2. h \cap X # {} => h \subseteq X
          BY <3>2, <4>1 DEF Closed
        <5> QED
          BY <4>1, <5>1, <5>2
      <4> HIDE DEF Y
      <4> QED
        BY <3>5, <4>1 DEF Closed
    <3>7. \/ c \in Y /\ d \notin Y
          \/ d \in Y /\ c \notin Y
      BY <3>2, <3>3
    <3> HIDE DEF Y, K
    <3> QED
      BY <3>6, <3>7, JoinedThrough, JoinedSym
  <2> QED
    BY <2>1, <2>2
<1> HIDE DEF K
<1>12. JoinTree(K, S, P)
  BY <1>8, <1>9, <1>10, <1>11 DEF JoinTree
<1> QED
  BY <1>12 DEF K

\* The edges of a junction tree over finitely many cliques are finitely many.
LEMMA JoinTreeFinite ==
  ASSUME NEW S, IsFiniteSet(S), NEW P, NEW J, JoinTree(J, S, P)
  PROVE  IsFiniteSet(J)
<1>1. J \subseteq SUBSET S
  BY DEF JoinTree
<1> QED
  BY <1>1, FS_SUBSET, FS_Subset

\* On a path that joins a to b, every edge is needed.
LEMMA PathNeeded ==
  ASSUME NEW S, NEW P, NEW J, JoinTree(J, S, P), NEW M, M \subseteq J, NEW a, NEW b,
         Joined(M, a, b), NEW f \in M, ~Joined(M \ {f}, a, b)
  PROVE  ~Joined(J \ {f}, a, b)
<1> SUFFICES ASSUME Joined(J \ {f}, a, b) PROVE FALSE
  OBVIOUS
<1> DEFINE rest == M \ {f}
           R == {d \in S \cup {a} : Joined(rest, a, d)}
           L == {d \in S \cup {b} : Joined(rest, d, b)}
<1>1. \A g \in rest : g \subseteq S
  BY DEF JoinTree
<1>2. Joined(rest, a, a) /\ Joined(rest, b, b)
  BY JoinedIf
<1> HIDE DEF rest
<1>3. Closed(R, rest) /\ a \in R
  BY <1>1, <1>2, ReachClosed
<1>4. Closed(L, rest) /\ b \in L
  <2>1. \A d : Joined(rest, d, b) <=> Joined(rest, b, d)
    BY JoinedSym
  <2> DEFINE B == {d \in S \cup {b} : Joined(rest, b, d)}
  <2>2. L = B
    BY <2>1
  <2>3. Closed(B, rest)
    BY <1>1, ReachClosed
  <2> QED
    BY <1>2, <2>2, <2>3
<1>5. b \notin R /\ R \cap L = {}
  BY JoinedTrans DEF rest
<1>6. PICK p \in S, q \in S : p # q /\ f = {p, q}
  BY DEF JoinTree
\* f has one end on each side.
<1>7. f \cap R # {} /\ f \cap L # {}
  <2>1. ~Closed(R, M) /\ ~Closed(L, M)
    <3>1. Joined(M, b, a)
      BY JoinedSym
    <3> HIDE DEF R, L
    <3> QED
      BY <1>3, <1>4, <1>5, <3>1, JoinedThrough
  <2> HIDE DEF R, L
  <2> QED
    BY <1>3, <1>4, <2>1 DEF Closed, rest
<1>8. PICK x, y : x # y /\ f = {x, y} /\ x \in R /\ y \in L
  <2> HIDE DEF R, L
  <2> QED
    BY <1>5, <1>6, <1>7
<1>9. Joined(J \ {f}, a, x) /\ Joined(J \ {f}, y, b)
  BY <1>8, JoinedMore DEF rest
<1>10. Joined(J \ {f}, x, y)
  BY <1>9, JoinedSym, JoinedTrans
<1> QED
  BY <1>8, <1>10 DEF JoinTree

\* Where cliques that share a variable are not joined by F, an edge of the
\* junction tree outside F separates them, and holds all that they share.
LEMMA PathEdge ==
  ASSUME NEW S, IsFiniteSet(S), NEW P, NEW J, JoinTree(J, S, P), NEW F,
         NEW a \in S, NEW b \in S, P[a] \cap P[b] # {}, ~Joined(F, a, b)
  PROVE  /\ Joined(J, a, b)
         /\ \E f \in J \ F : /\ ~Joined(J \ {f}, a, b)
                             /\ P[a] \cap P[b] \subseteq Separator(P, f)
<1>1. Joined(J, a, b)
  <2>1. PICK v \in P[a] \cap P[b] : TRUE
    OBVIOUS
  <2>2. Joined(Through(J, P, v), a, b)
    BY DEF JoinTree
  <2> QED
    BY <2>2, JoinedMore DEF Through
<1> DEFINE T == {M \in SUBSET J : Joined(M, a, b)}
<1>2. PICK M \in T : \A N \in T : N \subseteq M => N = M
  <2>1. T \subseteq SUBSET J /\ T # {} /\ IsFiniteSet(J)
    BY <1>1, JoinTreeFinite
  <2> HIDE DEF T
  <2> QED
    BY <2>1, MinimalSet
<1>3. PICK f \in M : f \notin F
  BY <1>2, JoinedMore
<1>4. f \in J /\ ~Joined(M \ {f}, a, b)
  BY <1>2, <1>3
<1>5. ~Joined(J \ {f}, a, b)
  BY <1>2, <1>4, PathNeeded
<1>6. ASSUME NEW v \in P[a] \cap P[b], v \notin Separator(P, f)
      PROVE  FALSE
  <2>1. Joined(Through(J, P, v), a, b)
    BY DEF JoinTree
  <2>2. Through(J, P, v) \subseteq J \ {f}
    BY <1>6 DEF Through
  <2> QED
    BY <1>5, <2>1, <2>2, JoinedMore
<1> QED
  BY <1>1, <1>3, <1>4, <1>5, <1>6
-----------------------------------------------------------------------------
\* One edge more for each edge of the heaviest spanning forest: if the edges
\* chosen so far belong to some junction tree, so do they with the heaviest of
\* the others that closes no cycle.
Exchanged(J, F, S, P, e) == \E f \in J \ F : JoinTree((J \ {f}) \cup {e}, S, P)

LEMMA HeaviestFits ==
  ASSUME NEW S, IsFiniteSet(S), NEW P, \A c \in S : IsFiniteSet(P[c]),
         NEW J, JoinTree(J, S, P), NEW F, F \subseteq J,
         NEW a \in S, NEW b \in S, a # b, P[a] \cap P[b] # {}, ~Joined(F, a, b),
         \A f \in J \ F : Cardinality(Separator(P, f)) <= Cardinality(P[a] \cap P[b])
  PROVE  Exchanged(J, F, S, P, {a, b})
<1>1. /\ Joined(J, a, b)
      /\ \E f \in J \ F : /\ ~Joined(J \ {f}, a, b)
                         /\ P[a] \cap P[b] \subseteq Separator(P, f)
  BY PathEdge
<1>2. PICK f \in J \ F : /\ ~Joined(J \ {f}, a, b)
                         /\ P[a] \cap P[b] \subseteq Separator(P, f)
  BY <1>1
<1>3. Separator(P, f) = P[a] \cap P[b]
  <2>1. PICK c \in S, d \in S : f = {c, d}
    BY DEF JoinTree
  <2>2. IsFiniteSet(Separator(P, f))
    <3>1. Separator(P, f) = P[c] \cap P[d]
      BY <2>1, SeparatorOfPair
    <3>2. IsFiniteSet(P[c])
      BY <2>1
    <3>3. IsFiniteSet(P[c] \cap P[d])
      BY <3>2, FS_Intersection
    <3> QED
      BY <3>1, <3>3
  <2>3. /\ IsFiniteSet(P[a] \cap P[b])
        /\ Cardinality(P[a] \cap P[b]) \in Nat /\ Cardinality(Separator(P, f)) \in Nat
        /\ Cardinality(P[a] \cap P[b]) <= Cardinality(Separator(P, f))
        /\ Cardinality(Separator(P, f)) = Cardinality(P[a] \cap P[b])
             => Separator(P, f) = P[a] \cap P[b]
    BY <1>2, <2>2, FS_Subset, FS_CardinalityType
  <2>4. Cardinality(Separator(P, f)) <= Cardinality(P[a] \cap P[b])
    OBVIOUS
  <2> QED
    BY <2>3, <2>4
<1>4. JoinTree((J \ {f}) \cup {{a, b}}, S, P)
  BY <1>1, <1>2, <1>3, Swap
<1> QED
  BY <1>2, <1>4 DEF Exchanged
-----------------------------------------------------------------------------
\* A clique that another one holds can go: its neighbours move to one that
\* holds it, until it is an end.
LEMMA DropCovered ==
  ASSUME NEW S, IsFiniteSet(S), NEW P, NEW J, JoinTree(J, S, P), NEW c \in S,
         P[c] = {} \/ \E d \in S \ {c} : P[c] \subseteq P[d]
  PROVE  \E K : JoinTree(K, S \ {c}, P)
<1>1. CASE P[c] = {}
  <2>1. \A g \in J : c \notin g
    <3> SUFFICES ASSUME NEW g \in J, c \in g PROVE FALSE
      OBVIOUS
    <3>1. Separator(P, g) \subseteq P[c]
      BY DEF Separator
    <3> QED
      BY <1>1, <3>1 DEF JoinTree
  <2> QED
    BY <2>1 DEF JoinTree
<1>2. CASE P[c] # {}
  <2>1. PICK d \in S \ {c} : P[c] \subseteq P[d]
    BY <1>2
  <2>2. PICK x \in S : x # c /\ {c, x} \in J /\ P[c] \subseteq P[x]
    <3> DEFINE F == {g \in J : c \notin g}
    <3>1. ~Joined(F, c, d)
      <4>1. Closed({c}, F)
        BY DEF Closed
      <4> HIDE DEF F
      <4> QED
        BY <2>1, <4>1, JoinedThrough
    <3>2. P[c] \cap P[d] = P[c] /\ d \in S
      BY <2>1
    <3>3. PICK f \in J \ F : P[c] \subseteq Separator(P, f)
      <4> HIDE DEF F
      <4>1. /\ Joined(J, c, d)
            /\ \E f \in J \ F : /\ ~Joined(J \ {f}, c, d)
                               /\ P[c] \cap P[d] \subseteq Separator(P, f)
        BY <1>2, <3>1, <3>2, PathEdge
      <4> QED
        BY <3>2, <4>1
    <3>4. f \in J /\ c \in f
      OBVIOUS
    <3>5. PICK x \in S : x # c /\ f = {c, x}
      BY <3>4 DEF JoinTree
    <3>6. Separator(P, f) = P[c] \cap P[x]
      BY <3>5, SeparatorOfPair
    <3> QED
      BY <3>3, <3>4, <3>5, <3>6
  <2> DEFINE At(K) == {g \in K : c \in g}
             Good == {K \in SUBSET SUBSET S : JoinTree(K, S, P) /\ {c, x} \in K}
             Counts == {Cardinality(At(K)) : K \in Good}
  <2>3. \A K \in Good : IsFiniteSet(At(K)) /\ Cardinality(At(K)) \in Nat
    BY JoinTreeFinite, FS_Subset, FS_CardinalityType
  <2>4. PICK K \in Good : \A M \in Good : Cardinality(At(K)) <= Cardinality(At(M))
    <3>1. J \in Good
      BY <2>2 DEF JoinTree
    <3>2. Counts \subseteq Nat /\ Counts # {}
      BY <2>3, <3>1
    <3>3. PICK n \in Counts : \A m \in Counts : n <= m
      BY <3>2, LeastNumber
    <3> QED
      BY <3>3
  <2>5. JoinTree(K, S, P) /\ {c, x} \in K
    OBVIOUS
  <2>6. At(K) = {{c, x}}
    <3> SUFFICES ASSUME NEW f \in At(K), f # {c, x} PROVE FALSE
      <4>1. {c, x} \in At(K)
        BY <2>5
      <4> HIDE DEF At
      <4> QED
        BY <4>1
    <3>1. PICK y \in S : f = {c, y} /\ y # c /\ y # x
      BY <2>5 DEF JoinTree
    <3>2. Joined(K \ {f}, x, c)
      <4>1. {c, x} \in K \ {f}
        BY <2>5
      <4> QED
        BY <4>1, JoinedByEdge
    <3>3. ~Joined(K \ {f}, c, y)
      BY <2>5, <3>1 DEF JoinTree
    <3>4. ~Joined(K \ {f}, x, y)
      BY <3>2, <3>3, JoinedSym, JoinedTrans
    <3>5. Joined(K, x, y)
      <4>1. Joined(K, x, c)
        BY <3>2, JoinedMore
      <4>2. Joined(K, c, y)
        BY <3>1, JoinedByEdge
      <4> QED
        BY <4>1, <4>2, JoinedTrans
    <3>6. Separator(P, f) \subseteq P[x] \cap P[y]
      <4>1. Separator(P, f) = P[c] \cap P[y]
        BY <3>1, SeparatorOfPair
      <4> QED
        BY <2>2, <4>1
    <3> DEFINE M == (K \ {f}) \cup {{x, y}}
    <3>7. JoinTree(M, S, P)
      BY <2>5, <3>1, <3>4, <3>5, <3>6, Swap
    <3>8. M \in Good
      BY <2>2, <2>5, <3>7
    <3>9. At(M) = At(K) \ {f}
      BY <2>2, <3>1
    <3>10. Cardinality(At(M)) = Cardinality(At(K)) - 1
      <4>1. IsFiniteSet(At(K)) /\ f \in At(K)
        BY <2>3
      <4> HIDE DEF At, M
      <4> DEFINE B == At(K)
      <4>2. IsFiniteSet(B) /\ f \in B /\ At(M) = B \ {f}
        BY <3>9, <4>1
      <4> HIDE DEF B
      <4>3. Cardinality(B \ {f}) = Cardinality(B) - 1
        BY <4>2, FS_RemoveElement
      <4> QED
        BY <4>2, <4>3 DEF B
    <3>11. Cardinality(At(K)) \in Nat /\ Cardinality(At(K)) <= Cardinality(At(M))
      <4> HIDE DEF At, M, Good
      <4> QED
        BY <2>3, <2>4, <3>8
    <3> HIDE DEF At, M
    <3> QED
      BY <3>10, <3>11
  <2> HIDE DEF Good, Counts
  <2> DEFINE N == K \ {{c, x}}
  <2>7. \A g \in N : c \notin g
    BY <2>6
  <2>8. \A g \in N : \E a, b \in S \ {c} : a # b /\ g = {a, b}
    BY <2>5, <2>7 DEF JoinTree
  <2>9. \A g \in N : Separator(P, g) # {}
    BY <2>5 DEF JoinTree
  <2>10. ASSUME NEW g \in N, NEW a \in g, NEW b \in g, a # b
         PROVE  ~Joined(N \ {g}, a, b)
    <3>1. ~Joined(K \ {g}, a, b)
      BY <2>5, <2>10 DEF JoinTree
    <3>2. N \ {g} \subseteq K \ {g}
      OBVIOUS
    <3> QED
      BY <3>1, <3>2, JoinedMore
  <2>11. ASSUME NEW a \in S \ {c}, NEW b \in S \ {c}, NEW v \in P[a] \cap P[b]
         PROVE  Joined(Through(N, P, v), a, b)
    <3> SUFFICES ASSUME NEW X, Closed(X, Through(N, P, v)), a \in X
                 PROVE  b \in X
      BY JoinedIf
    <3> DEFINE Y == IF x \in X THEN X \cup {c} ELSE X \ {c}
    <3>1. Joined(Through(K, P, v), a, b)
      BY <2>5 DEF JoinTree
    <3>2. c \in Y <=> x \in Y
      BY <2>2
    <3>3. ASSUME NEW g \in Through(K, P, v), g \cap Y # {}
          PROVE  g \subseteq Y
      <4>1. CASE g = {c, x}
        BY <3>2, <3>3, <4>1
      <4>2. CASE g # {c, x}
        <5>1. g \in Through(N, P, v) /\ c \notin g
          BY <2>7, <3>3, <4>2 DEF Through
        <5>2. g \cap X # {}
          BY <3>3, <5>1
        <5>3. g \subseteq X
          BY <5>1, <5>2 DEF Closed
        <5> QED
          BY <5>1, <5>3
      <4> QED
        BY <4>1, <4>2
    <3>4. a \in Y
      OBVIOUS
    <3>5. b \in Y => b \in X
      OBVIOUS
    <3> HIDE DEF Y
    <3>6. b \in Y
      BY <3>1, <3>3, <3>4, JoinedThrough DEF Closed
    <3> QED
      BY <3>5, <3>6
  <2> HIDE DEF N
  <2>12. JoinTree(N, S \ {c}, P)
    BY <2>8, <2>9, <2>10, <2>11 DEF JoinTree
  <2> QED
    BY <2>12
<1> QED
  BY <1>1, <1>2

\* And so can any number of cliques that the clique c holds.
LEMMA DropHeld ==
  ASSUME NEW S, IsFiniteSet(S), NEW P, NEW J, JoinTree(J, S, P), NEW c \in S,
         NEW D, D \subseteq S \ {c}, \A d \in D : P[d] \subseteq P[c]
  PROVE  \E K : JoinTree(K, S \ D, P)
<1> DEFINE Q == {s \in SUBSET D : \E K : JoinTree(K, S \ s, P)}
<1>1. {} \in Q
  <2>1. S \ {} = S
    OBVIOUS
  <2> QED
    BY <2>1
<1>2. ASSUME NEW s \in SUBSET D, s # {}, s \ {Pick(s)} \in Q
      PROVE  s \in Q
  <2> DEFINE d == Pick(s)
             U == S \ (s \ {d})
  <2>1. d \in s
    BY <1>2, PickIn
  <2>2. PICK K : JoinTree(K, U, P)
    BY <1>2
  <2>3. d \in U /\ c \in U \ {d} /\ P[d] \subseteq P[c] /\ S \ s = U \ {d}
    BY <2>1
  <2>4. IsFiniteSet(U)
    BY FS_Difference
  <2> HIDE DEF d, U
  <2>5. \E M : JoinTree(M, U \ {d}, P)
    BY <2>2, <2>3, <2>4, DropCovered
  <2> QED
    BY <2>3, <2>5
<1>3. D \in Q
  <2>1. IsFiniteSet(D)
    BY FS_Subset
  <2> HIDE DEF Q
  <2> QED
    BY <1>1, <1>2, <2>1, FoldInduction
<1> QED
  BY <1>3

\* K is a forest on the nodes U.
PairForest(K, U) ==
  /\ \A g \in K : \E c, d \in U : c # d /\ g = {c, d}
  /\ \A g \in K : \A c, d \in g : c # d => ~Joined(K \ {g}, c, d)

\* A forest has fewer edges than nodes: each edge cuts it in two.
LEMMA FewEdges ==
  ASSUME NEW S, IsFiniteSet(S), S # {}, NEW J, PairForest(J, S)
  PROVE  IsFiniteSet(J) /\ Cardinality(J) + 1 <= Cardinality(S)
<1> DEFINE Few(K, U) == IsFiniteSet(K) /\ Cardinality(K) + 1 <= Cardinality(U)
           Bad == {U \in SUBSET S : U # {} /\ \E K : PairForest(K, U) /\ ~Few(K, U)}
<1> SUFFICES ASSUME Bad # {} PROVE FALSE
  OBVIOUS
<1>1. PICK U \in Bad : \A V \in Bad : V \subseteq U => V = U
  <2>1. Bad \subseteq SUBSET S
    OBVIOUS
  <2> HIDE DEF Bad
  <2> QED
    BY <2>1, MinimalSet
<1>2. PICK K : PairForest(K, U) /\ ~Few(K, U)
  OBVIOUS
<1>3. IsFiniteSet(U) /\ U # {} /\ U \subseteq S /\ Cardinality(U) \in Nat
  BY FS_Subset, FS_CardinalityType
<1>4. \A V \in SUBSET U : V # {} /\ V # U => \A M : PairForest(M, V) => Few(M, V)
  <2> HIDE DEF Few
  <2> QED
    BY <1>1, <1>3
<1> HIDE DEF Bad
<1>5. PICK f \in K : TRUE
  <2> SUFFICES ASSUME K = {} PROVE Few(K, U)
    BY <1>2
  <2>1. IsFiniteSet(K) /\ Cardinality(K) = 0
    BY FS_EmptySet
  <2>2. Cardinality(U) # 0
    BY <1>3, FS_EmptySet
  <2> QED
    BY <1>3, <2>1, <2>2
<1>6. PICK p \in U, q \in U : p # q /\ f = {p, q}
  BY <1>2 DEF PairForest
<1>7. PICK X : Closed(X, K \ {f}) /\ p \in X /\ q \notin X
  <2>1. ~Joined(K \ {f}, p, q)
    BY <1>2, <1>6 DEF PairForest
  <2> QED
    BY <2>1, CutExists
<1> DEFINE A == U \cap X
           B == U \ X
           On(V) == {g \in K \ {f} : g \subseteq V}
<1>8. /\ A \in SUBSET U /\ A # {} /\ A # U
      /\ B \in SUBSET U /\ B # {} /\ B # U
      /\ A \cap B = {} /\ U = A \cup B
  BY <1>6, <1>7
<1>9. K = (On(A) \cup On(B)) \cup {f}
  <2> SUFFICES ASSUME NEW g \in K, g # f PROVE g \subseteq A \/ g \subseteq B
    OBVIOUS
  <2>1. g \subseteq U
    BY <1>2 DEF PairForest
  <2>2. g \cap X # {} => g \subseteq X
    BY <1>7 DEF Closed
  <2> QED
    BY <2>1, <2>2
<1>10. ASSUME NEW V \in SUBSET U
       PROVE  PairForest(On(V), V)
  <2>1. \A g \in On(V) : \E c, d \in V : c # d /\ g = {c, d}
    <3> SUFFICES ASSUME NEW g \in K, g \subseteq V
                 PROVE  \E c, d \in V : c # d /\ g = {c, d}
      OBVIOUS
    <3>1. PICK c \in U, d \in U : c # d /\ g = {c, d}
      BY <1>2 DEF PairForest
    <3> QED
      BY <3>1
  <2>2. ASSUME NEW g \in On(V), NEW c \in g, NEW d \in g, c # d
        PROVE  ~Joined(On(V) \ {g}, c, d)
    <3>1. ~Joined(K \ {g}, c, d)
      BY <1>2, <2>2 DEF PairForest
    <3>2. On(V) \ {g} \subseteq K \ {g}
      OBVIOUS
    <3> HIDE DEF On
    <3> QED
      BY <3>1, <3>2, JoinedMore
  <2> HIDE DEF On
  <2> QED
    BY <2>1, <2>2 DEF PairForest
<1> DEFINE E == On(A)
           F == On(B)
<1>11. Few(E, A) /\ Few(F, B)
  <2> HIDE DEF A, B, On, Few
  <2> QED
    BY <1>4, <1>8, <1>10
<1>12. K = (E \cup F) \cup {f} /\ f \notin E \cup F
  BY <1>9
<1> HIDE DEF A, B, E, F
<1>13. /\ IsFiniteSet(A) /\ IsFiniteSet(B)
       /\ Cardinality(A) \in Nat /\ Cardinality(B) \in Nat
       /\ Cardinality(U) = Cardinality(A) + Cardinality(B)
  <2>1. IsFiniteSet(A) /\ IsFiniteSet(B) /\ Cardinality(A) \in Nat /\ Cardinality(B) \in Nat
    BY <1>3, <1>8, FS_Subset, FS_CardinalityType
  <2>2. Cardinality(A \cup B) = Cardinality(A) + Cardinality(B) - Cardinality(A \cap B)
    BY <2>1, FS_Union
  <2> QED
    BY <1>8, <2>1, <2>2, FS_EmptySet
<1>14. /\ IsFiniteSet(E \cup F)
       /\ Cardinality(E) \in Nat /\ Cardinality(F) \in Nat
       /\ Cardinality(E \cup F) <= Cardinality(E) + Cardinality(F)
  <2>1. IsFiniteSet(E) /\ IsFiniteSet(F) /\ Cardinality(E) \in Nat /\ Cardinality(F) \in Nat
    BY <1>11, FS_CardinalityType
  <2>2. Cardinality(E \cap F) \in Nat
    BY <2>1, FS_Intersection, FS_CardinalityType
  <2>3. /\ IsFiniteSet(E \cup F)
        /\ Cardinality(E \cup F) = Cardinality(E) + Cardinality(F) - Cardinality(E \cap F)
    BY <2>1, FS_Union
  <2> QED
    BY <2>1, <2>2, <2>3
<1>15. IsFiniteSet(K) /\ Cardinality(K) = Cardinality(E \cup F) + 1
  BY <1>12, <1>14, FS_AddElement
<1>16. Cardinality(E \cup F) \in Nat
  BY <1>14, FS_CardinalityType
<1>17. Few(K, U)
  BY <1>11, <1>13, <1>14, <1>15, <1>16
<1> QED
  BY <1>2, <1>17

\* A forest with as many edges as it can have is the whole junction tree.
LEMMA FullForest ==
  ASSUME NEW S, IsFiniteSet(S), NEW P, NEW J, JoinTree(J, S, P), NEW F, F \subseteq J,
         Cardinality(F) = Cardinality(S) - 1
  PROVE  F = J
<1>1. IsFiniteSet(J) /\ IsFiniteSet(F)
  BY JoinTreeFinite, FS_Subset
<1>2. Cardinality(F) \in Nat /\ Cardinality(S) \in Nat /\ Cardinality(J) \in Nat
      /\ Cardinality(F) <= Cardinality(J)
  BY <1>1, FS_Subset, FS_CardinalityType
<1>3. S # {}
  BY <1>2, FS_EmptySet
<1>4. Cardinality(J) + 1 <= Cardinality(S)
  BY <1>3, FewEdges DEF PairForest, JoinTree
<1> QED
  BY <1>1, <1>2, <1>4, FS_Subset
-----------------------------------------------------------------------------
\* The tree of a copula against the one the session began with.
Part(C, t) == C \cap ToSet(t.names)

\* The names differ, and each is the name of a variable of some clique.
WellFormed(t) ==
  /\ IsInjective(t.names)
  /\ \A c \in Ids(t) : t.clique[c] \subseteq DOMAIN t.names
Covers(t, o) ==
  \A C \in NamedCliques(o) :
     Part(C, t) # {} => \E D \in NamedCliques(t) : Part(C, t) \subseteq D
Parts(t, o) ==
  \A D \in NamedCliques(t) : D # {} /\ \E C \in NamedCliques(o) : D = Part(C, t)
Unnested(t) == \A C, D \in NamedCliques(t) : ~StrictlyIn(C, D)

GoodTree(t, o) == WellFormed(t) /\ Covers(t, o) /\ Parts(t, o) /\ Unnested(t)

LEMMA GoodTreeExact ==
  ASSUME NEW t, NEW o, GoodTree(t, o)
  PROVE  NamedCliques(t) = MaximalSets({C \cap ToSet(t.names) : C \in NamedCliques(o)})
<1> DEFINE F == {C \cap ToSet(t.names) : C \in NamedCliques(o)}
<1>1. ASSUME NEW D \in NamedCliques(t)
      PROVE  D \in MaximalSets(F)
  <2>1. D \in F /\ D # {}
    BY DEF GoodTree, Parts, Part
  <2>2. ASSUME NEW B \in F, StrictlyIn(D, B)
        PROVE  FALSE
    <3>1. PICK A \in NamedCliques(t) : B \subseteq A
      BY <2>1, <2>2 DEF GoodTree, Covers, Part, StrictlyIn
    <3>2. StrictlyIn(D, A)
      BY <2>2, <3>1 DEF StrictlyIn
    <3> QED
      BY <3>2 DEF GoodTree, Unnested
  <2> QED
    BY <2>1, <2>2 DEF MaximalSets
<1>2. ASSUME NEW D \in MaximalSets(F)
      PROVE  D \in NamedCliques(t)
  <2>1. D \in F /\ D # {} /\ \A B \in F : ~StrictlyIn(D, B)
    BY <1>2 DEF MaximalSets
  <2>2. PICK A \in NamedCliques(t) : D \subseteq A
    BY <2>1 DEF GoodTree, Covers, Part
  <2>3. A \in F
    BY DEF GoodTree, Parts, Part
  <2> QED
    BY <2>1, <2>2, <2>3 DEF StrictlyIn
<1> QED
  BY <1>1, <1>2

LEMMA EmptyTreeGood == ASSUME NEW o PROVE GoodTree(NoTree, o)
BY DEF GoodTree, WellFormed, Covers, Parts, Unnested, Part, NoTree, NamedCliques, Ids, ToSet, IsInjective

LEMMA FirstTreeGood == ASSUME NEW t \in Trees PROVE GoodTree(t, t)
<1>1. /\ IsInjective(t.names)
      /\ UNION {t.clique[c] : c \in Ids(t)} = DOMAIN t.names
      /\ MaximalSets(NamedCliques(t)) = NamedCliques(t)
  BY CopulaAssumption DEF JunctionTree
<1>2. WellFormed(t)
  BY <1>1 DEF WellFormed
<1>3. \A C \in NamedCliques(t) : Part(C, t) = C
  BY <1>2 DEF WellFormed, NamedCliques, NamedClique, Part, ToSet
<1> QED
  BY <1>1, <1>2, <1>3 DEF GoodTree, Covers, Parts, Unnested, MaximalSets
-----------------------------------------------------------------------------
\* The loop of getMarginal over the cliques: each one met is gone or swallowed.
CliquesSound ==
  /\ target \in Seq(DOMAIN tree.names)
  /\ todo \subseteq Ids(tree) /\ DOMAIN kept \subseteq Ids(tree)
  /\ \A d \in DOMAIN kept : kept[d] = Transpose(d) /\ kept[d] # {}
  /\ \A c \in Ids(tree) \ todo :
       Transpose(c) = {} \/ \E d \in DOMAIN kept : Transpose(c) \subseteq kept[d]
  /\ \A c, d \in DOMAIN kept : ~StrictlyIn(kept[c], kept[d])

LEMMA SkipSound ==
  ASSUME CliquesSound, NEW c, SkipClique(c)
  PROVE  CliquesSound'
<1>1. /\ Transpose(c) = {} \/ \E d \in DOMAIN kept : StrictlyIn(Transpose(c), kept[d])
      /\ todo' = todo \ {c}
      /\ tree' = tree /\ target' = target /\ kept' = kept
  BY DEF SkipClique, Swallowed
<1>2. \A d : Transpose(d)' = Transpose(d)
  BY <1>1 DEF Transpose, LastGiven
<1> QED
  BY <1>1, <1>2 DEF CliquesSound, StrictlyIn

LEMMA AddSound ==
  ASSUME CliquesSound, NEW c \in todo, AddClique(c)
  PROVE  CliquesSound'
<1> DEFINE left == {d \in DOMAIN kept : ~StrictlyIn(kept[d], Transpose(c))}
<1>1. /\ Transpose(c) # {} /\ \A d \in DOMAIN kept : ~StrictlyIn(Transpose(c), kept[d])
      /\ kept' = [d \in left \cup {c} |-> IF d = c THEN Transpose(c) ELSE kept[d]]
      /\ todo' = todo \ {c}
      /\ tree' = tree /\ target' = target
  BY DEF AddClique, Swallowed
<1>2. \A d : Transpose(d)' = Transpose(d)
  BY <1>1 DEF Transpose, LastGiven
<1>3. /\ DOMAIN kept' = left \cup {c}
      /\ \A d \in DOMAIN kept' : kept'[d] = Transpose(d)
  BY <1>1 DEF CliquesSound
<1>4. \A d \in DOMAIN kept' : kept'[d] # {}
  BY <1>1, <1>3 DEF CliquesSound
<1>5. ASSUME NEW b \in Ids(tree) \ todo', Transpose(b) # {}
      PROVE  \E d \in DOMAIN kept' : Transpose(b) \subseteq kept'[d]
  <2>1. CASE b = c
    BY <1>3, <2>1
  <2>2. CASE b # c
    <3>1. PICK d \in DOMAIN kept : Transpose(b) \subseteq kept[d]
      BY <1>1, <1>5, <2>2 DEF CliquesSound
    <3>2. CASE d \in left
      BY <1>3, <3>1, <3>2 DEF CliquesSound
    <3>3. CASE d \notin left
      BY <1>3, <3>1, <3>3 DEF StrictlyIn
    <3> QED
      BY <3>2, <3>3
  <2> QED
    BY <2>1, <2>2
<1>6. ASSUME NEW b \in DOMAIN kept', NEW d \in DOMAIN kept'
      PROVE  ~StrictlyIn(kept'[b], kept'[d])
  <2>1. \A e \in left : kept'[e] = kept[e]
    BY <1>3 DEF CliquesSound
  <2>2. kept'[c] = Transpose(c) /\ ~StrictlyIn(kept'[c], kept'[c])
    BY <1>3 DEF StrictlyIn
  <2>3. CASE b \in left /\ d \in left
    BY <2>1, <2>3 DEF CliquesSound
  <2>4. CASE b \in left /\ d = c
    BY <2>1, <2>2, <2>4
  <2>5. CASE b = c /\ d \in left
    BY <1>1, <2>1, <2>2, <2>5
  <2>6. CASE b = c /\ d = c
    BY <2>2, <2>6
  <2> QED
    BY <1>3, <2>3, <2>4, <2>5, <2>6
<1>7. todo' \subseteq Ids(tree) /\ DOMAIN kept' \subseteq Ids(tree)
  BY <1>1, <1>3 DEF CliquesSound
<1> QED
  BY <1>1, <1>2, <1>3, <1>4, <1>5, <1>6, <1>7 DEF CliquesSound

\* When no clique is left, the tree returned is as good as the one it is the
\* marginal of; a name without a clique would mean an index given twice.
LEMMA MarginalGood ==
  ASSUME NEW o, GoodTree(tree, o), CliquesSound, todo = {}, Consistent(Marginal)
  PROVE  GoodTree(Marginal, o)
<1> DEFINE M == Marginal
           V == ToSet(tree.names)
           W == ToSet(M.names)
           name(j) == tree.names[target[j]]
<1>1. /\ M.names = [j \in DOMAIN target |-> name(j)]
      /\ M.clique = kept
      /\ DOMAIN target \subseteq Nat
      /\ \A j \in DOMAIN target : target[j] \in DOMAIN tree.names
  BY DEF Marginal, CliquesSound
<1>2. \A c \in DOMAIN kept : kept[c] \subseteq DOMAIN target
  BY DEF CliquesSound, Transpose
<1>3. \A j \in DOMAIN target : LastGiven(j)
  <2>1. UNION {kept[c] : c \in DOMAIN kept} = DOMAIN target
    BY <1>1 DEF Consistent, Ids
  <2>2. \A c \in DOMAIN kept : \A j \in kept[c] : LastGiven(j)
    BY DEF CliquesSound, Transpose
  <2> QED
    BY <2>1, <2>2
<1>4. \A j, k \in DOMAIN target : name(j) = name(k) => j = k
  <2> SUFFICES ASSUME NEW j \in DOMAIN target, NEW k \in DOMAIN target, name(j) = name(k)
               PROVE  j = k
    OBVIOUS
  <2>1. target[j] = target[k]
    BY <1>1 DEF GoodTree, WellFormed, IsInjective
  <2>2. j <= k /\ k <= j
    BY <1>3, <2>1 DEF LastGiven
  <2> QED
    BY <1>1, <2>2
<1>5. W = {name(j) : j \in DOMAIN target} /\ W \subseteq V
  BY <1>1 DEF ToSet
\* By name, a transposed clique is the part of the clique among the variables
\* that remain.
<1>6. ASSUME NEW c \in Ids(tree)
      PROVE  {name(j) : j \in Transpose(c)} = NamedClique(tree, c) \cap W
  <2>1. ASSUME NEW j \in DOMAIN target, name(j) \in NamedClique(tree, c)
        PROVE  j \in Transpose(c)
    <3>1. PICK v \in tree.clique[c] : name(j) = tree.names[v]
      BY <2>1 DEF NamedClique
    <3>2. v = target[j]
      BY <1>1, <3>1 DEF GoodTree, WellFormed, IsInjective
    <3> QED
      BY <1>3, <3>1, <3>2 DEF Transpose
  <2>2. \A j \in Transpose(c) : j \in DOMAIN target /\ name(j) \in NamedClique(tree, c)
    BY DEF Transpose, NamedClique
  <2> QED
    BY <1>5, <2>1, <2>2
<1>7. ASSUME NEW c \in Ids(tree), NEW d \in Ids(tree)
      PROVE  Transpose(c) \subseteq Transpose(d)
               <=> NamedClique(tree, c) \cap W \subseteq NamedClique(tree, d) \cap W
  <2>1. Transpose(c) \subseteq DOMAIN target /\ Transpose(d) \subseteq DOMAIN target
    BY DEF Transpose
  <2>2. {name(j) : j \in Transpose(c)} \subseteq {name(j) : j \in Transpose(d)}
          => Transpose(c) \subseteq Transpose(d)
    BY <1>4, <2>1
  <2> QED
    BY <1>6, <2>2
<1>8. \A d \in DOMAIN kept :
        d \in Ids(tree) /\ NamedClique(M, d) = NamedClique(tree, d) \cap W
  <2> SUFFICES ASSUME NEW d \in DOMAIN kept
               PROVE  d \in Ids(tree) /\ NamedClique(M, d) = NamedClique(tree, d) \cap W
    OBVIOUS
  <2>1. d \in Ids(tree) /\ kept[d] = Transpose(d)
    BY DEF CliquesSound
  <2>2. NamedClique(M, d) = {name(j) : j \in Transpose(d)}
    BY <1>1, <1>2, <2>1 DEF NamedClique
  <2> QED
    BY <1>6, <2>1, <2>2
<1>9. NamedCliques(M) = {NamedClique(M, d) : d \in DOMAIN kept}
  BY <1>1 DEF NamedCliques, Ids
<1> HIDE DEF M, V, W, name
<1>10. WellFormed(M)
  BY <1>1, <1>2, <1>4 DEF WellFormed, IsInjective, Ids
<1>11. Covers(M, o)
  <2> SUFFICES ASSUME NEW C \in NamedCliques(o), C \cap W # {}
               PROVE  \E D \in NamedCliques(M) : C \cap W \subseteq D
    BY DEF Covers, Part, W
  <2>1. PICK c \in Ids(tree) : C \cap V \subseteq NamedClique(tree, c)
    BY <1>5 DEF GoodTree, Covers, Part, NamedCliques, V
  <2>2. C \cap W \subseteq NamedClique(tree, c) \cap W
    BY <1>5, <2>1
  <2>3. Transpose(c) # {}
    BY <1>6, <2>2
  <2>4. PICK d \in DOMAIN kept : Transpose(c) \subseteq Transpose(d)
    BY <2>3 DEF CliquesSound
  <2> QED
    BY <1>7, <1>8, <1>9, <2>2, <2>4
<1>12. Parts(M, o)
  <2> SUFFICES ASSUME NEW d \in DOMAIN kept
               PROVE  NamedClique(M, d) # {}
                      /\ \E C \in NamedCliques(o) : NamedClique(M, d) = C \cap W
    BY <1>9 DEF Parts, Part, W
  <2>1. NamedClique(M, d) # {}
    <3>1. PICK j \in Transpose(d) : TRUE
      BY DEF CliquesSound
    <3>2. name(j) \in {name(i) : i \in Transpose(d)}
      OBVIOUS
    <3> QED
      BY <1>6, <1>8, <3>2
  <2>2. PICK C \in NamedCliques(o) : NamedClique(tree, d) = C \cap V
    BY <1>8 DEF GoodTree, Parts, Part, NamedCliques, V
  <2> QED
    BY <1>5, <1>8, <2>1, <2>2
<1>13. Unnested(M)
  <2> SUFFICES ASSUME NEW c \in DOMAIN kept, NEW d \in DOMAIN kept,
                      StrictlyIn(NamedClique(M, c), NamedClique(M, d))
               PROVE  FALSE
    BY <1>9 DEF Unnested
  <2>1. kept[c] = Transpose(c) /\ kept[d] = Transpose(d) /\ ~StrictlyIn(kept[c], kept[d])
    BY DEF CliquesSound
  <2> QED
    BY <1>7, <1>8, <2>1 DEF StrictlyIn
<1> QED
  BY <1>10, <1>11, <1>12, <1>13 DEF GoodTree, M
-----------------------------------------------------------------------------
\* Dropping the remainder leaves full bins.
LEMMA DropRemainder ==
  ASSUME NEW n \in Nat, NEW k \in Nat \ {0}
  PROVE  n - (n % k) \in Nat /\ (n - (n % k)) % k = 0
<1> DEFINE q == n \div k
           m == n - (n % k)
           p == m \div k
           r == m % k
<1>1. n = k * q + (n % k) /\ q \in Nat
  OBVIOUS
<1>2. m = k * q /\ m \in Nat
  BY <1>1
<1> HIDE DEF q, m
<1>3. m = k * p + r /\ p \in Nat /\ r \in 0..k-1
  BY <1>2
<1> HIDE DEF p, r
<1>4. k * (q - p) = r
  BY <1>1, <1>2, <1>3
<1>5. q - p = 0
  BY <1>1, <1>3, <1>4
<1>6. r = 0
  BY <1>4, <1>5
<1> QED
  BY <1>2, <1>6 DEF m, r

\* What a copula, or what was saved of one, knows of its sample.
Members ==
  {"exists", "tree", "cliques", "separators", "bins", "sample", "isCopula", "factors", "walks"}
SampleMembers == {"columns", "size", "own"}

SampleSound(c) ==
  /\ c.bins \in Nat \ {0}
  /\ DOMAIN c.sample = SampleMembers /\ c.sample.size \in Nat
  /\ c.factors = Factors(c.sample, c.bins)
  /\ c.isCopula <=> c.sample.size % c.bins = 0

LEMMA WithSampleSound ==
  ASSUME NEW c, DOMAIN c = Members, c.bins \in Nat \ {0},
         NEW s, DOMAIN s = SampleMembers, s.size \in Nat,
         NEW empirical \in BOOLEAN
  PROVE  LET d == WithSample(c, s, empirical)
         IN  /\ DOMAIN d = Members /\ SampleSound(d)
             /\ d.exists = c.exists /\ d.tree = c.tree
             /\ d.sample.columns = s.columns /\ d.sample.own = s.own
<1> DEFINE d == WithSample(c, s, empirical)
           rest == s.size % c.bins
           t == IF empirical THEN s ELSE [s EXCEPT !.size = @ - rest]
<1>1. /\ DOMAIN t = SampleMembers /\ t.columns = s.columns /\ t.own = s.own
      /\ empirical => t.size = s.size
      /\ ~empirical => t.size = s.size - rest
  BY DEF SampleMembers
<1>2. s.size - rest \in Nat /\ (s.size - rest) % c.bins = 0
  BY DropRemainder
<1>3. /\ DOMAIN d = Members
      /\ d.sample = t /\ d.bins = c.bins /\ d.factors = Factors(t, c.bins)
      /\ d.isCopula = (~empirical \/ rest = 0)
      /\ d.exists = c.exists /\ d.tree = c.tree
  BY DEF WithSample, Members
<1> HIDE DEF d, t
<1>4. SampleSound(d)
  BY <1>1, <1>2, <1>3 DEF SampleSound
<1> QED
  BY <1>1, <1>3, <1>4 DEF d

\* A sample a caller may give.
LEMMA GivenSound ==
  ASSUME NEW t, NEW s \in GivenSamples(t)
  PROVE  /\ DOMAIN s = SampleMembers /\ s.size \in Nat
         /\ s.own => s.columns = t.names
<1>1. PICK x \in Columns(t.names) \ {<<>>}, n \in {m \in Sizes : m > 1} :
        s = [columns |-> x, size |-> n, own |-> x = t.names]
  BY DEF GivenSamples
<1> QED
  BY <1>1, CopulaAssumption DEF SampleMembers

CopulaInv ==
  /\ GoodTree(held, origin)
  /\ phase = "idle" => DOMAIN kept = {}
  /\ phase = "order" => building.exists
  /\ phase \in {"cliques", "edges"} =>
       /\ copula.exists /\ ~building.exists
       /\ tree = copula.tree
       /\ CliquesSound
       /\ phase = "edges" => todo = {}
  /\ copula.exists =>
       /\ DOMAIN copula = Members /\ SampleSound(copula)
       /\ GoodTree(copula.tree, origin)
       /\ ~building.exists => copula.tree \in {held, NoTree}
       /\ copula.sample.own =>
            /\ \A v \in DOMAIN copula.tree.names : copula.tree.names[v] = copula.sample.columns[v]
            /\ ~building.exists => copula.sample.columns = held.names
  /\ building.exists =>
       /\ phase = "order"
       /\ DOMAIN building = Members /\ SampleSound(building)
       /\ building.tree = held
       /\ building.sample.own => building.sample.columns = held.names
  /\ saved.exists =>
       /\ copula.exists
       /\ DOMAIN saved.members = Members \ {"tree"} /\ SampleSound(saved.members)
       /\ saved.members.exists
       /\ GoodTree(saved.held, origin)
       /\ saved.members.sample.own => saved.members.sample.columns = saved.held.names

LEMMA CopulaInitSound == CopulaInit => CopulaInv
<1> SUFFICES ASSUME CopulaInit PROVE CopulaInv
  OBVIOUS
<1>1. /\ phase = "idle" /\ kept = <<>> /\ held = NoTree /\ origin = NoTree
      /\ ~copula.exists /\ ~building.exists /\ ~saved.exists
  BY DEF CopulaInit, TreeInit, None
<1>2. GoodTree(held, origin)
  BY <1>1, EmptyTreeGood
<1> QED
  BY <1>1, <1>2 DEF CopulaInv

\* The loops of a call leave the copula alone.
LEMMA TreeStepSound ==
  ASSUME CopulaInv, TreeStep, UNCHANGED <<copula, building, held, origin, saved>>
  PROVE  CopulaInv'
<1>1. ASSUME NEW c \in todo, SkipClique(c) \/ AddClique(c)
      PROVE  phase = "cliques" /\ phase' = phase /\ tree' = tree /\ CliquesSound'
  <2>1. phase = "cliques" /\ phase' = phase /\ tree' = tree
    BY <1>1 DEF SkipClique, AddClique
  <2>2. CliquesSound
    BY <2>1 DEF CopulaInv
  <2>3. CASE SkipClique(c)
    BY <2>1, <2>2, <2>3, SkipSound
  <2>4. CASE AddClique(c)
    BY <2>1, <2>2, <2>4, AddSound
  <2> QED
    BY <1>1, <2>1, <2>3, <2>4
<1>2. ASSUME UNCHANGED <<tree, target, todo, kept>>
      PROVE  CliquesSound' <=> CliquesSound
  BY <1>2 DEF CliquesSound, Transpose, LastGiven
<1>3. CASE SortEdges
  <2>1. /\ phase = "cliques" /\ phase' \in {"edges", "undefined"} /\ todo = {}
        /\ UNCHANGED <<tree, target, todo, kept>>
    BY <1>3 DEF SortEdges
  <2> QED
    BY <1>2, <2>1 DEF CopulaInv
<1>4. ASSUME NEW e \in sorted, TakeEdge(e)
      PROVE  CopulaInv'
  <2>1. phase = "edges" /\ UNCHANGED <<phase, tree, target, todo, kept>>
    BY <1>4 DEF TakeEdge
  <2> QED
    BY <1>2, <2>1 DEF CopulaInv
<1>5. ASSUME NEW c, ChooseRoot(c) \/ VisitNode(c)
      PROVE  CopulaInv'
  <2>1. phase = "order" /\ phase' = phase
    BY <1>5 DEF ChooseRoot, VisitNode
  <2> QED
    BY <2>1 DEF CopulaInv
<1>6. ASSUME NEW c \in todo, SkipClique(c) \/ AddClique(c)
      PROVE  CopulaInv'
  BY <1>1, <1>6 DEF CopulaInv
<1> QED
  BY <1>3, <1>4, <1>5, <1>6 DEF TreeStep

\* Another list of the cliques, whoever gives it, leaves tree and sample alone.
Relisted(c, listed, walks) == [c EXCEPT !.cliques = listed, !.walks = walks]

LEMMA RelistedSame ==
  ASSUME NEW c, DOMAIN c = Members, NEW listed, NEW walks
  PROVE  LET d == Relisted(c, listed, walks)
         IN  /\ DOMAIN d = Members /\ d.cliques = listed /\ d.walks = walks
             /\ d.exists = c.exists /\ d.tree = c.tree /\ d.separators = c.separators
             /\ d.bins = c.bins /\ d.sample = c.sample
             /\ d.isCopula = c.isCopula /\ d.factors = c.factors
BY DEF Relisted, Members

LEMMA RelistedSound ==
  ASSUME NEW c, DOMAIN c = Members, SampleSound(c), NEW listed, NEW walks
  PROVE  SampleSound(Relisted(c, listed, walks))
<1> DEFINE d == Relisted(c, listed, walks)
<1>1. /\ d.bins = c.bins /\ d.sample = c.sample
      /\ d.isCopula = c.isCopula /\ d.factors = c.factors
  BY RelistedSame
<1> HIDE DEF d
<1>2. SampleSound(d)
  BY <1>1 DEF SampleSound
<1> QED
  BY <1>2 DEF d

LEMMA ConstructSound == CopulaInv /\ Construct => CopulaInv'
<1> SUFFICES ASSUME CopulaInv, Construct PROVE CopulaInv'
  OBVIOUS
<1>1. PICK t \in Trees : \E s \in GivenSamples(t), k \in BinNumbers, empirical \in BOOLEAN :
        /\ building' = WithSample(Initialised(t, k), s, empirical)
        /\ held' = t /\ origin' = t
        /\ CallGetOrder(t)
  BY DEF Construct
<1>2. PICK s \in GivenSamples(t), k \in BinNumbers, empirical \in BOOLEAN :
        building' = WithSample(Initialised(t, k), s, empirical)
  BY <1>1
<1>3. /\ ~copula.exists /\ ~saved.exists /\ copula' = copula /\ saved' = saved
      /\ phase' = "order" /\ held' = t /\ origin' = t
  BY <1>1 DEF Construct, CallGetOrder, CopulaInv
<1> DEFINE c == Initialised(t, k)
<1>4. DOMAIN c = Members /\ c.bins \in Nat \ {0} /\ c.tree = t
  BY CopulaAssumption DEF Initialised, Members
<1>4a. c.exists
  BY DEF Initialised
<1>5. building' = WithSample(c, s, empirical)
  BY <1>2
<1> HIDE DEF c
<1>6. DOMAIN s = SampleMembers /\ s.size \in Nat /\ (s.own => s.columns = t.names)
  BY GivenSound
<1>7. /\ DOMAIN building' = Members /\ SampleSound(building')
      /\ building'.exists = c.exists
      /\ building'.tree = c.tree
      /\ building'.sample.columns = s.columns /\ building'.sample.own = s.own
  BY ONLY <1>2, <1>4, <1>5, <1>6, WithSampleSound
<1>8. GoodTree(held', origin')
  BY <1>3, FirstTreeGood
<1> QED
  BY <1>4a, <1>3, <1>4, <1>6, <1>7, <1>8 DEF CopulaInv, SampleSound

\* With an order of the caller.
LEMMA ConstructOrderedSound == CopulaInv /\ ConstructOrdered => CopulaInv'
<1> SUFFICES ASSUME CopulaInv, ConstructOrdered PROVE CopulaInv'
  OBVIOUS
<1>1. PICK t \in Trees : \E s \in GivenSamples(t), k \in BinNumbers, empirical \in BOOLEAN,
                           o \in Orders(Ids(t)) :
        /\ copula' = [WithSample(Initialised(t, k), s, empirical) EXCEPT
                         !.cliques = Listed(t, o), !.walks = Walk(t, o)]
        /\ held' = t /\ origin' = t
  BY DEF ConstructOrdered
<1>2a. PICK s \in GivenSamples(t), k \in BinNumbers, empirical \in BOOLEAN, o \in Orders(Ids(t)) :
        copula' = [WithSample(Initialised(t, k), s, empirical) EXCEPT
                     !.cliques = Listed(t, o), !.walks = Walk(t, o)]
  BY <1>1
<1> DEFINE listed == Listed(t, o)
           walks == Walk(t, o)
<1>2. copula' = [WithSample(Initialised(t, k), s, empirical) EXCEPT
                   !.cliques = listed, !.walks = walks]
  BY <1>2a
<1> HIDE DEF listed, walks
<1>3. /\ ~saved.exists /\ phase = "idle" /\ ~building.exists
      /\ UNCHANGED <<phase, tree, kept, building, saved>> /\ held' = t /\ origin' = t
  BY <1>1 DEF ConstructOrdered, Idle, treeVars, CopulaInv
<1> DEFINE c == Initialised(t, k)
<1>4. DOMAIN c = Members /\ c.bins \in Nat \ {0} /\ c.tree = t
  BY CopulaAssumption DEF Initialised, Members
<1>4a. c.exists
  BY DEF Initialised
<1>5. copula' = [WithSample(c, s, empirical) EXCEPT !.cliques = listed, !.walks = walks]
  BY <1>2
<1> HIDE DEF c
<1>6. DOMAIN s = SampleMembers /\ s.size \in Nat /\ (s.own => s.columns = t.names)
  BY GivenSound
<1> DEFINE d == WithSample(c, s, empirical)
<1>7. /\ DOMAIN d = Members /\ SampleSound(d)
      /\ d.exists = c.exists /\ d.tree = c.tree
      /\ d.sample.columns = s.columns /\ d.sample.own = s.own
  BY ONLY <1>2, <1>4, <1>6, WithSampleSound
<1>8. copula' = Relisted(d, listed, walks)
  BY <1>5 DEF Relisted
<1> HIDE DEF d
<1>9. /\ DOMAIN copula' = Members /\ copula'.exists
      /\ copula'.tree = t /\ copula'.sample = d.sample
  <2>1. /\ DOMAIN copula' = Members /\ copula'.exists = d.exists
        /\ copula'.tree = d.tree /\ copula'.sample = d.sample
    BY ONLY <1>7, <1>8, RelistedSame
  <2> QED
    BY <1>4a, <1>4, <1>7, <2>1
<1>10. SampleSound(copula')
  BY <1>7, <1>8, RelistedSound
<1>11. copula'.sample.own => copula'.sample.columns = t.names
  BY <1>6, <1>7, <1>9
<1>12. GoodTree(t, t)
  BY FirstTreeGood
<1> QED
  BY <1>3, <1>9, <1>10, <1>11, <1>12 DEF CopulaInv, SampleSound

\* The marginal copula has the names of its tree as columns, if the copula had.
LEMMA ConstructMarginalSound == CopulaInv /\ ConstructMarginal => CopulaInv'
<1> SUFFICES ASSUME CopulaInv, ConstructMarginal PROVE CopulaInv'
  OBVIOUS
<1> DEFINE c == Initialised(Marginal, copula.bins)
           s == SampleMarginal(copula.sample)
<1>1. /\ phase = "edges" /\ Consistent(Marginal) /\ phase' = "order"
      /\ building' = WithSample(c, s, TRUE)
      /\ held' = Marginal
      /\ UNCHANGED <<copula, origin, saved>>
  BY DEF ConstructMarginal, EdgesDone, CallGetOrder
<1>2. /\ copula.exists /\ ~building.exists /\ tree = copula.tree
      /\ CliquesSound /\ todo = {}
      /\ SampleSound(copula) /\ GoodTree(tree, origin)
      /\ copula.sample.own =>
           \A v \in DOMAIN tree.names : tree.names[v] = copula.sample.columns[v]
  BY <1>1 DEF CopulaInv
<1>3. GoodTree(held', origin')
  BY <1>1, <1>2, MarginalGood
<1>4. \A j \in DOMAIN target : target[j] \in DOMAIN tree.names
  BY <1>2 DEF CliquesSound
<1>5. /\ DOMAIN c = Members /\ c.bins \in Nat \ {0} /\ c.tree = Marginal /\ c.exists
      /\ DOMAIN s = SampleMembers /\ s.size \in Nat
      /\ s.own => s.columns = Marginal.names
  <2>1. s.own = copula.sample.own /\ s.columns = [j \in DOMAIN target |-> copula.sample.columns[target[j]]]
    BY <1>2 DEF SampleMarginal, SampleSound, SampleMembers
  <2>2. Marginal.names = [j \in DOMAIN target |-> tree.names[target[j]]]
    BY DEF Marginal
  <2>3. s.own => s.columns = Marginal.names
    BY <1>2, <1>4, <2>1, <2>2
  <2> QED
    BY <1>2, <2>3 DEF Initialised, Members, SampleMarginal, SampleSound, SampleMembers
<1> HIDE DEF c, s
<1>6. PICK empirical \in BOOLEAN : building' = WithSample(c, s, empirical)
  BY <1>1
<1>7. /\ DOMAIN building' = Members /\ SampleSound(building')
      /\ building'.exists = c.exists
      /\ building'.tree = c.tree
      /\ building'.sample.columns = s.columns /\ building'.sample.own = s.own
  <2>1. /\ DOMAIN c = Members /\ c.bins \in Nat \ {0}
        /\ DOMAIN s = SampleMembers /\ s.size \in Nat
    BY <1>5
  <2> QED
    BY ONLY <2>1, <1>6, WithSampleSound
<1> QED
  BY <1>1, <1>2, <1>3, <1>5, <1>7 DEF CopulaInv, SampleSound

\* The loops of getOrderMaxFirst end the construction.
LEMMA UseOrderSound == CopulaInv /\ UseOrder => CopulaInv'
<1> SUFFICES ASSUME CopulaInv, UseOrder PROVE CopulaInv'
  OBVIOUS
<1>1. /\ phase' = "idle" /\ kept' = <<>> /\ ~building'.exists
      /\ phase = "order" /\ building.exists
      /\ UNCHANGED <<held, origin, saved>>
  BY DEF UseOrder, Return, None, OrderDone, CopulaInv
<1>2. PICK listed, walks : copula' = Relisted(building, listed, walks)
  BY DEF UseOrder, Relisted
<1>3. /\ DOMAIN building = Members /\ SampleSound(building)
      /\ building.tree = held
      /\ building.sample.own => building.sample.columns = held.names
      /\ GoodTree(held, origin)
  BY <1>1 DEF CopulaInv
<1>4. /\ DOMAIN copula' = Members /\ copula'.exists /\ SampleSound(copula')
      /\ copula'.tree = building.tree /\ copula'.sample = building.sample
  BY <1>1, <1>2, <1>3, RelistedSame, RelistedSound
<1> QED
  BY <1>1, <1>3, <1>4 DEF CopulaInv, SampleSound

LEMMA SetCliquesOrderSound == CopulaInv /\ SetCliquesOrder => CopulaInv'
<1> SUFFICES ASSUME CopulaInv, SetCliquesOrder PROVE CopulaInv'
  OBVIOUS
<1>1. /\ phase = "idle" /\ copula.exists
      /\ UNCHANGED <<phase, tree, kept, building, held, origin, saved>>
  BY DEF SetCliquesOrder, Idle, treeVars
<1>2. PICK listed, walks : copula' = Relisted(copula, listed, walks)
  BY DEF SetCliquesOrder, Relisted
<1>3. DOMAIN copula = Members /\ SampleSound(copula)
  BY <1>1 DEF CopulaInv
<1>4. /\ DOMAIN copula' = Members /\ copula'.exists /\ SampleSound(copula')
      /\ copula'.tree = copula.tree /\ copula'.sample = copula.sample
  BY <1>1, <1>2, <1>3, RelistedSame, RelistedSound
<1> QED
  BY <1>1, <1>4 DEF CopulaInv, SampleSound

LEMMA SetCopulaSampleSound == CopulaInv /\ SetCopulaSample => CopulaInv'
<1> SUFFICES ASSUME CopulaInv, SetCopulaSample PROVE CopulaInv'
  OBVIOUS
<1>1. PICK s \in GivenSamples(held), empirical \in BOOLEAN :
        copula' = WithSample(copula, s, empirical)
  BY DEF SetCopulaSample
<1>2. /\ phase = "idle" /\ copula.exists /\ ~building.exists
      /\ UNCHANGED <<phase, tree, kept, building, held, origin, saved>>
  BY DEF SetCopulaSample, Idle, treeVars, CopulaInv
<1>3. DOMAIN copula = Members /\ SampleSound(copula) /\ copula.bins \in Nat \ {0}
  BY <1>2 DEF CopulaInv, SampleSound
<1>4. DOMAIN s = SampleMembers /\ s.size \in Nat /\ (s.own => s.columns = held.names)
  BY GivenSound
<1>5. /\ DOMAIN copula' = Members /\ SampleSound(copula')
      /\ copula'.exists = copula.exists /\ copula'.tree = copula.tree
      /\ copula'.sample.columns = s.columns /\ copula'.sample.own = s.own
  BY ONLY <1>1, <1>3, <1>4, WithSampleSound
<1>6. copula.tree \in {held, NoTree}
  BY <1>2 DEF CopulaInv
<1>7. DOMAIN NoTree.names = {}
  BY DEF NoTree
<1> QED
  BY <1>2, <1>4, <1>5, <1>6, <1>7 DEF CopulaInv, SampleSound

LEMMA SaveSound == CopulaInv /\ Save => CopulaInv'
<1> SUFFICES ASSUME CopulaInv, Save PROVE CopulaInv'
  OBVIOUS
<1>1. /\ copula.exists /\ phase = "idle"
      /\ saved' = [exists |-> TRUE, members |-> Persistent(copula), held |-> held]
      /\ UNCHANGED <<phase, tree, kept, copula, building, held, origin>>
  BY DEF Save, Idle, treeVars
<1>2. /\ DOMAIN copula = Members /\ SampleSound(copula)
      /\ ~building.exists /\ (copula.sample.own => copula.sample.columns = held.names)
  BY <1>1 DEF CopulaInv
<1>3. /\ saved'.members = [f \in Members \ {"tree"} |-> copula[f]] /\ saved'.held = held
  BY <1>1, <1>2 DEF Persistent
<1>4. /\ DOMAIN saved'.members = Members \ {"tree"}
      /\ saved'.members.exists = copula.exists
      /\ saved'.members.sample = copula.sample /\ saved'.members.bins = copula.bins
      /\ saved'.members.factors = copula.factors /\ saved'.members.isCopula = copula.isCopula
  BY <1>3 DEF Members
<1>5. SampleSound(saved'.members)
  BY <1>2, <1>4 DEF SampleSound
<1> QED
  BY <1>1, <1>2, <1>3, <1>4, <1>5 DEF CopulaInv, SampleSound

LEMMA LoadSound == CopulaInv /\ Load => CopulaInv'
<1> SUFFICES ASSUME CopulaInv, Load PROVE CopulaInv'
  OBVIOUS
<1>1. /\ saved.exists /\ phase = "idle" /\ held' = saved.held
      /\ copula' = [f \in DOMAIN saved.members \cup {"tree"} |->
                      IF f = "tree" THEN NoTree ELSE saved.members[f]]
      /\ UNCHANGED <<phase, tree, kept, building, origin, saved>>
  BY DEF Load, Idle, treeVars
<1>2. /\ DOMAIN saved.members = Members \ {"tree"} /\ SampleSound(saved.members)
      /\ saved.members.exists /\ ~building.exists
      /\ GoodTree(saved.held, origin)
      /\ saved.members.sample.own => saved.members.sample.columns = saved.held.names
  BY <1>1 DEF CopulaInv
<1>3. /\ DOMAIN copula' = Members /\ copula'.tree = NoTree
      /\ copula'.exists = saved.members.exists
      /\ copula'.sample = saved.members.sample /\ copula'.bins = saved.members.bins
      /\ copula'.factors = saved.members.factors /\ copula'.isCopula = saved.members.isCopula
  BY <1>1, <1>2 DEF Members
<1>4. SampleSound(copula')
  BY <1>2, <1>3 DEF SampleSound
<1>5. GoodTree(NoTree, origin) /\ DOMAIN NoTree.names = {}
  BY EmptyTreeGood DEF NoTree
<1> QED
  BY <1>1, <1>2, <1>3, <1>4, <1>5 DEF CopulaInv, SampleSound
-----------------------------------------------------------------------------
LEMMA CopulaStepSound == CopulaInv /\ [CopulaNext]_copulaVars => CopulaInv'
<1> SUFFICES ASSUME CopulaInv, [CopulaNext]_copulaVars PROVE CopulaInv'
  OBVIOUS
<1>1. CASE GetMarginal
  <2>1. PICK indices \in Seq(DOMAIN copula.tree.names) : CallGetMarginal(copula.tree, indices)
    BY <1>1 DEF GetMarginal
  <2>2. /\ phase = "idle" /\ copula.exists
        /\ UNCHANGED <<copula, building, held, origin, saved>>
    BY <1>1 DEF GetMarginal, Idle
  <2>3. /\ phase' = "cliques" /\ tree' = copula.tree /\ target' = indices
        /\ todo' = Ids(copula.tree) /\ kept' = kept /\ DOMAIN kept = {}
    BY <2>1, <2>2 DEF CallGetMarginal, CopulaInv
  <2>4. CliquesSound'
    BY <2>3 DEF CliquesSound, Ids
  <2> QED
    BY <2>2, <2>3, <2>4 DEF CopulaInv, SampleSound
<1>2. CASE GetMarginalBeyondTree
  BY <1>2 DEF GetMarginalBeyondTree, Idle, CopulaInv, SampleSound
<1>3. CASE RejectIndices
  <2>1. /\ phase' = "idle" /\ kept' = <<>> /\ ~building.exists
        /\ UNCHANGED <<copula, building, held, origin, saved>>
    BY <1>3 DEF RejectIndices, EdgesDone, Return, CopulaInv
  <2> QED
    BY <2>1 DEF CopulaInv, SampleSound
<1>4. CASE UNCHANGED copulaVars
  <2>1. CliquesSound' <=> CliquesSound
    BY <1>4 DEF copulaVars, treeVars, CliquesSound, Transpose, LastGiven
  <2> QED
    BY <1>4, <2>1 DEF copulaVars, treeVars, CopulaInv, SampleSound
<1> QED
  BY <1>1, <1>2, <1>3, <1>4, ConstructSound, ConstructOrderedSound, ConstructMarginalSound,
     UseOrderSound, SetCliquesOrderSound, SetCopulaSampleSound, SaveSound, LoadSound, TreeStepSound
     DEF CopulaNext

\* However often marginals are taken of marginals, and in whatever order
\* getMarginal meets the cliques, the cliques of the tree are by name exactly
\* the maximal parts of the cliques of the tree the session began with.
THEOREM MarginalsKeepCliques == CopulaSpec => []MarginalCliquesExact
<1>1. CopulaInv => MarginalCliquesExact
  BY GoodTreeExact DEF CopulaInv, MarginalCliquesExact
<1> QED
  BY CopulaInitSound, CopulaStepSound, <1>1, PTL DEF CopulaSpec

\* The factors and the flag isCopula_ are those of the sample, and its columns
\* the names of the tree if the caller's were, after any history of samples,
\* marginals and loads.
THEOREM SampleAlwaysFits == CopulaSpec => []SampleFits
<1>1. CopulaInv => SampleFits
  BY DEF CopulaInv, SampleFits, SampleSound, InCall
<1> QED
  BY CopulaInitSound, CopulaStepSound, <1>1, PTL DEF CopulaSpec
-----------------------------------------------------------------------------
\* The tree of a marginal is a junction tree

\* The cliques of t, renamed by the positions of the variables asked for.
Renamed(t, s) ==
  [c \in Ids(t) |->
     {j \in DOMAIN s : s[j] \in t.clique[c] /\ \A k \in DOMAIN s : s[k] = s[j] => k <= j}]

\* It is how the loop over the cliques renames one.
LEMMA RenamedTransposes ==
  ASSUME NEW c \in Ids(tree)
  PROVE  Renamed(tree, target)[c] = Transpose(c)
BY DEF Renamed, Transpose, LastGiven

\* What a tree of the session is known to be.
Sound(t) == JunctionTree(t) /\ IsFiniteSet(Ids(t))

\* Restricting every clique leaves a junction tree on all of them: the edges
\* whose ends still share something.
LEMMA RenamedJoined ==
  ASSUME NEW t, Sound(t), NEW s
  PROVE  \E J : JoinTree(J, Ids(t), Renamed(t, s))
<1> DEFINE S == Ids(t)
           P == Renamed(t, s)
           J == {e \in t.edge : Separator(P, e) # {}}
<1>1. \A e \in J : \E c, d \in S : c # d /\ e = {c, d}
  BY DEF Sound, JunctionTree
<1>2. ASSUME NEW e \in J, NEW c \in e, NEW d \in e, c # d
      PROVE  ~Joined(J \ {e}, c, d)
  <2>1. ~Joined(t.edge \ {e}, c, d)
    BY <1>2 DEF Sound, JunctionTree, Forest
  <2>2. J \ {e} \subseteq t.edge \ {e}
    OBVIOUS
  <2> HIDE DEF J
  <2> QED
    BY <2>1, <2>2, JoinedMore
<1>3. ASSUME NEW c \in S, NEW d \in S, NEW j \in P[c] \cap P[d]
      PROVE  Joined(Through(J, P, j), c, d)
  <2>1. \A b \in S : j \in P[b] <=> s[j] \in t.clique[b]
    BY <1>3 DEF Renamed
  <2> DEFINE E == {e \in t.edge : s[j] \in Separator(t.clique, e)}
  <2>2. Joined(E, c, d)
    <3>1. s[j] \in t.clique[c] \cap t.clique[d]
      BY <2>1
    <3> QED
      BY <3>1 DEF Sound, JunctionTree, RunningIntersection
  <2>3. ASSUME NEW e \in E
        PROVE  e \in Through(J, P, j)
    <3>1. PICK a \in S, b \in S : e = {a, b}
      BY DEF Sound, JunctionTree
    <3>2. Separator(t.clique, e) = t.clique[a] \cap t.clique[b] /\ Separator(P, e) = P[a] \cap P[b]
      BY <3>1, SeparatorOfPair
    <3> HIDE DEF P
    <3> QED
      BY <2>1, <3>2 DEF Through
  <2> HIDE DEF E, J, P
  <2> QED
    BY <2>2, <2>3, JoinedMore
<1>4. \A e \in J : Separator(P, e) # {}
  OBVIOUS
<1> HIDE DEF J, P
<1>5. JoinTree(J, S, P)
  BY <1>1, <1>2, <1>3, <1>4 DEF JoinTree
<1> QED
  BY <1>5 DEF P

\* A junction tree on cliques that are the same sets is one on these.
LEMMA SameCliques ==
  ASSUME NEW S, NEW P, NEW J, JoinTree(J, S, P), NEW Q, \A c \in S : Q[c] = P[c]
  PROVE  JoinTree(J, S, Q)
<1>1. \A e \in J : Separator(Q, e) = Separator(P, e)
  <2> SUFFICES ASSUME NEW e \in J PROVE Separator(Q, e) = Separator(P, e)
    OBVIOUS
  <2>1. PICK c \in S, d \in S : e = {c, d}
    BY DEF JoinTree
  <2>2. Separator(Q, e) = Q[c] \cap Q[d] /\ Separator(P, e) = P[c] \cap P[d]
    BY <2>1, SeparatorOfPair
  <2> QED
    BY <2>2
<1>2. \A v : Through(J, Q, v) = Through(J, P, v)
  BY <1>1 DEF Through
<1> QED
  BY <1>1, <1>2 DEF JoinTree

\* While the cliques are met, those that may still be kept have a junction tree.
CliquesJoined ==
  /\ DOMAIN kept \cap todo = {}
  /\ \E J : JoinTree(J, DOMAIN kept \cup todo, Renamed(tree, target))

\* While the edges are taken, those taken belong to a junction tree of the
\* cliques kept, whose other edges are still in their buckets.
EdgesJoined ==
  /\ \A e \in sorted : \E c, d \in DOMAIN kept : c # d /\ e = {c, d}
  /\ \A e \in sorted : Separator(kept, e) # {}
  /\ \E J : JoinTree(J, DOMAIN kept, kept) /\ links \subseteq J /\ J \ links \subseteq sorted

\* A clique left out, being empty or in a kept one, is not missed.
LEMMA SkipJoined ==
  ASSUME CliquesSound, IsFiniteSet(Ids(tree)), CliquesJoined, NEW c \in todo, SkipClique(c)
  PROVE  CliquesJoined'
<1> DEFINE P == Renamed(tree, target)
           S == DOMAIN kept \cup todo
<1>1. /\ UNCHANGED <<tree, target, kept>> /\ todo' = todo \ {c}
      /\ Transpose(c) = {} \/ \E d \in DOMAIN kept : StrictlyIn(Transpose(c), kept[d])
  BY DEF SkipClique, Swallowed
<1>2. /\ S \subseteq Ids(tree) /\ c \in S /\ c \notin DOMAIN kept
      /\ DOMAIN kept \cup todo' = S \ {c}
  BY <1>1 DEF CliquesSound, CliquesJoined
<1>3. P[c] = Transpose(c) /\ \A d \in DOMAIN kept : kept[d] = P[d]
  BY <1>2, RenamedTransposes DEF CliquesSound
<1>4. P[c] = {} \/ \E d \in S \ {c} : P[c] \subseteq P[d]
  BY <1>1, <1>2, <1>3 DEF StrictlyIn
<1>5. PICK J : JoinTree(J, S, P)
  BY DEF CliquesJoined
<1>6. IsFiniteSet(S)
  BY <1>2, FS_Subset
<1>7. Renamed(tree, target)' = P
  BY <1>1 DEF Renamed, Ids
<1> HIDE DEF P, S
<1>8. \E K : JoinTree(K, S \ {c}, P)
  BY <1>2, <1>4, <1>5, <1>6, DropCovered
<1>9. DOMAIN kept' \cap todo' = {}
  BY <1>1 DEF CliquesJoined
<1> QED
  BY <1>1, <1>2, <1>7, <1>8, <1>9 DEF CliquesJoined

\* Nor are those that the clique kept now holds.
LEMMA AddJoined ==
  ASSUME CliquesSound, IsFiniteSet(Ids(tree)), CliquesJoined, NEW c \in todo, AddClique(c)
  PROVE  CliquesJoined'
<1> DEFINE P == Renamed(tree, target)
           S == DOMAIN kept \cup todo
           D == {d \in DOMAIN kept : StrictlyIn(kept[d], Transpose(c))}
<1>1. /\ UNCHANGED <<tree, target>> /\ todo' = todo \ {c}
      /\ DOMAIN kept' = (DOMAIN kept \ D) \cup {c}
  BY DEF AddClique
<1>2. S \subseteq Ids(tree) /\ c \in S /\ c \notin DOMAIN kept
  BY DEF CliquesSound, CliquesJoined
<1>3. DOMAIN kept' \cup todo' = S \ D /\ DOMAIN kept' \cap todo' = {}
  BY <1>1, <1>2 DEF CliquesJoined
<1>4. P[c] = Transpose(c) /\ \A d \in DOMAIN kept : kept[d] = P[d]
  BY <1>2, RenamedTransposes DEF CliquesSound
<1>5. D \subseteq S \ {c} /\ \A d \in D : P[d] \subseteq P[c]
  BY <1>2, <1>4 DEF StrictlyIn
<1>6. PICK J : JoinTree(J, S, P)
  BY DEF CliquesJoined
<1>7. IsFiniteSet(S)
  BY <1>2, FS_Subset
<1>8. Renamed(tree, target)' = P
  BY <1>1 DEF Renamed, Ids
<1> HIDE DEF P, S, D
<1>9. \E K : JoinTree(K, S \ D, P)
  BY <1>2, <1>5, <1>6, <1>7, DropHeld
<1> QED
  BY <1>3, <1>8, <1>9 DEF CliquesJoined

\* The edges the code enumerates are the pairs of two cliques.
LEMMA PairCardinality ==
  ASSUME NEW c, NEW d
  PROVE  Cardinality({c, d}) = 2 <=> c # d
<1>1. IsFiniteSet({c}) /\ Cardinality({c}) = 1 /\ {c, d} = {c} \cup {d}
  BY FS_Singleton
<1>2. Cardinality({c} \cup {d}) = IF d \in {c} THEN Cardinality({c}) ELSE Cardinality({c}) + 1
  BY <1>1, FS_AddElement
<1> QED
  BY <1>1, <1>2

\* Every edge of a junction tree of the cliques kept is in some bucket.
LEMMA SortJoined ==
  ASSUME CliquesSound, CliquesJoined, links = {}, SortEdges
  PROVE  EdgesJoined'
<1>1. /\ todo = {} /\ sorted' = Candidates /\ UNCHANGED <<kept, links>>
  BY DEF SortEdges
<1>2. PICK J : JoinTree(J, DOMAIN kept, Renamed(tree, target))
  BY <1>1 DEF CliquesJoined
<1>3. \A d \in DOMAIN kept : kept[d] = Renamed(tree, target)[d]
  BY RenamedTransposes DEF CliquesSound
<1>4. JoinTree(J, DOMAIN kept, kept)
  BY <1>2, <1>3, SameCliques
<1>5. \A c, d : Cardinality({c, d}) = 2 <=> c # d
  BY PairCardinality
<1>6. ASSUME NEW e \in Candidates
      PROVE  \E c, d \in DOMAIN kept : c # d /\ e = {c, d}
  <2>1. PICK c \in DOMAIN kept, d \in DOMAIN kept : e = {c, d} /\ Cardinality(e) = 2
    BY DEF Candidates
  <2>2. c # d
    BY <1>5, <2>1
  <2> QED
    BY <2>1, <2>2
<1>7. \A e \in Candidates : Separator(kept, e) # {}
  BY DEF Candidates
<1>8. ASSUME NEW e \in J
      PROVE  e \in Candidates
  <2>1. PICK c \in DOMAIN kept, d \in DOMAIN kept : c # d /\ e = {c, d}
    BY <1>4 DEF JoinTree
  <2>2. Cardinality(e) = 2
    BY <1>5, <2>1
  <2>3. Separator(kept, e) # {}
    BY <1>4 DEF JoinTree
  <2> QED
    BY <2>1, <2>2, <2>3 DEF Candidates
<1> QED
  BY <1>1, <1>4, <1>6, <1>7, <1>8 DEF EdgesJoined

\* The cliques kept are sets of positions among the variables asked for.
LEMMA KeptFinite ==
  ASSUME CliquesSound, NEW c \in DOMAIN kept
  PROVE  IsFiniteSet(kept[c])
<1>1. kept[c] \subseteq DOMAIN target
  BY DEF CliquesSound, Transpose
<1>2. Len(target) \in Nat /\ DOMAIN target = 1..Len(target)
  BY DEF CliquesSound
<1>3. IsFiniteSet(DOMAIN target)
  BY <1>2, FS_Interval
<1> QED
  BY <1>1, <1>3, FS_Subset

\* Of two edges the heavier one has the larger separator.
LEMMA HeaviestSeparator ==
  ASSUME CliquesSound, EdgesJoined, NEW e \in sorted, Heaviest(e), NEW f \in sorted
  PROVE  Cardinality(Separator(kept, f)) <= Cardinality(Separator(kept, e))
<1>1. \A g \in sorted : Cardinality(Separator(kept, g)) \in Nat
  <2> SUFFICES ASSUME NEW g \in sorted PROVE Cardinality(Separator(kept, g)) \in Nat
    OBVIOUS
  <2>1. PICK c \in DOMAIN kept, d \in DOMAIN kept : g = {c, d}
    BY DEF EdgesJoined
  <2>2. IsFiniteSet(kept[c])
    BY KeptFinite
  <2>3. IsFiniteSet(kept[c] \cap kept[d])
    BY <2>2, FS_Intersection
  <2> QED
    BY <2>1, <2>3, SeparatorOfPair, FS_CardinalityType
<1>2. Bucket(f) <= Bucket(e)
  BY DEF Heaviest
<1> DEFINE m == Cardinality(Separator(kept, f))
           n == Cardinality(Separator(kept, e))
<1>3. m \in Nat /\ n \in Nat
  BY <1>1
<1>4. 2 * m + (IF f \in tree.edge THEN 1 ELSE 0) <= 2 * n + (IF e \in tree.edge THEN 1 ELSE 0)
  BY <1>2 DEF Bucket
<1> HIDE DEF m, n
<1>5. m <= n
  BY <1>3, <1>4
<1> QED
  BY <1>5 DEF m, n

\* An edge taken or dropped leaves the edges taken in a junction tree.
LEMMA TakeJoined ==
  ASSUME CliquesSound, IsFiniteSet(Ids(tree)), EdgesJoined, NEW e \in sorted, TakeEdge(e)
  PROVE  EdgesJoined'
<1> DEFINE S == DOMAIN kept
<1>1. /\ kept' = kept /\ sorted' = sorted \ {e} /\ Heaviest(e)
      /\ links' = IF \A c, d \in e : Joined(links, c, d) THEN links ELSE links \cup {e}
  BY DEF TakeEdge
<1>2. PICK J : JoinTree(J, S, kept) /\ links \subseteq J /\ J \ links \subseteq sorted
  BY DEF EdgesJoined
<1>3. PICK a \in S, b \in S : a # b /\ e = {a, b}
  BY DEF EdgesJoined
<1>4. IsFiniteSet(S) /\ \A c \in S : IsFiniteSet(kept[c])
  BY KeptFinite, FS_Subset DEF CliquesSound
<1>5. Separator(kept, e) = kept[a] \cap kept[b] /\ kept[a] \cap kept[b] # {}
  BY <1>3, SeparatorOfPair DEF EdgesJoined
<1> SUFFICES \E K : JoinTree(K, S, kept) /\ links' \subseteq K /\ K \ links' \subseteq sorted \ {e}
  BY <1>1 DEF EdgesJoined
<1>6. CASE Joined(links, a, b)
  <2>1. links' = links
    <3>1. \A c, d \in e : Joined(links, c, d)
      <4>1. Joined(links, a, a) /\ Joined(links, b, b) /\ Joined(links, b, a)
        BY <1>6, JoinedIf, JoinedSym
      <4> QED
        BY <1>3, <1>6, <4>1
    <3> QED
      BY <1>1, <3>1
  <2>2. e \notin J \ links
    <3> SUFFICES ASSUME e \in J, e \notin links PROVE FALSE
      OBVIOUS
    <3>1. links \subseteq J \ {e}
      BY <1>2
    <3>2. Joined(J \ {e}, a, b)
      BY <1>6, <3>1, JoinedMore
    <3> QED
      BY <1>2, <1>3, <3>2 DEF JoinTree
  <2> QED
    BY <1>2, <2>1, <2>2
<1>7. CASE ~Joined(links, a, b)
  <2>1. links' = links \cup {e}
    BY <1>1, <1>3, <1>7
  <2>2. CASE e \in J
    BY <1>2, <2>1, <2>2
  <2>3. CASE e \notin J
    <3>1. \A f \in J \ links : Cardinality(Separator(kept, f)) <= Cardinality(kept[a] \cap kept[b])
      BY <1>1, <1>2, <1>5, HeaviestSeparator
    <3>2. PICK f \in J \ links : JoinTree((J \ {f}) \cup {{a, b}}, S, kept)
      <4> HIDE DEF S
      <4>1. /\ IsFiniteSet(S) /\ \A c \in S : IsFiniteSet(kept[c])
            /\ JoinTree(J, S, kept) /\ links \subseteq J
        BY <1>2, <1>4
      <4>2. a \in S /\ b \in S /\ a # b /\ kept[a] \cap kept[b] # {} /\ ~Joined(links, a, b)
        BY <1>3, <1>5, <1>7
      <4>3. Exchanged(J, links, S, kept, {a, b})
        BY <3>1, <4>1, <4>2, HeaviestFits
      <4> QED
        BY <4>3 DEF Exchanged
    <3> DEFINE K == (J \ {f}) \cup {e}
    <3>3. JoinTree(K, S, kept) /\ links' \subseteq K /\ K \ links' \subseteq sorted \ {e}
      BY <1>2, <1>3, <2>1, <2>3, <3>2
    <3> QED
      BY <3>3
  <2> QED
    BY <2>2, <2>3
<1> QED
  BY <1>6, <1>7

\* When the edges are done, by number or because none is left, the ones taken
\* are the whole tree.
LEMMA MarginalJoined ==
  ASSUME CliquesSound, IsFiniteSet(Ids(tree)), EdgesJoined, EdgesDone, Consistent(Marginal)
  PROVE  Sound(Marginal)
<1> DEFINE S == DOMAIN kept
<1>1. PICK J : JoinTree(J, S, kept) /\ links \subseteq J /\ J \ links \subseteq sorted
  BY DEF EdgesJoined
<1>2. IsFiniteSet(S)
  BY FS_Subset DEF CliquesSound
<1>3. links = J
  <2>1. CASE sorted = {}
    BY <1>1, <2>1
  <2>2. CASE Cardinality(links) = Cardinality(S) - 1
    BY <1>1, <1>2, <2>2, FullForest
  <2> QED
    BY <2>1, <2>2 DEF EdgesDone
<1>4. Marginal.clique = kept /\ Marginal.edge = links /\ Ids(Marginal) = S
  BY DEF Marginal, Ids
<1> QED
  BY <1>1, <1>2, <1>3, <1>4
     DEF Sound, JunctionTree, JoinTree, Forest, RunningIntersection, Consistent, Through

\* A new sample changes neither the tree nor what was read of it.
LEMMA WithSampleTree ==
  ASSUME NEW c, DOMAIN c = Members, NEW s, NEW empirical
  PROVE  /\ WithSample(c, s, empirical).tree = c.tree
         /\ WithSample(c, s, empirical).cliques = c.cliques
         /\ WithSample(c, s, empirical).separators = c.separators
         /\ WithSample(c, s, empirical).walks = c.walks
         /\ WithSample(c, s, empirical).exists = c.exists
         /\ DOMAIN WithSample(c, s, empirical) = Members
BY DEF WithSample, Members

\* The constructors keep the tree they are given.
LEMMA MadeWith ==
  ASSUME NEW t, NEW k, NEW s, NEW empirical
  PROVE  LET d == WithSample(Initialised(t, k), s, empirical)
         IN  d.exists /\ d.tree = t /\ d.separators = Separators(t) /\ DOMAIN d = Members
<1> DEFINE c == Initialised(t, k)
<1>1. DOMAIN c = Members /\ c.exists /\ c.tree = t /\ c.separators = Separators(t)
  BY DEF Initialised, Members
<1> HIDE DEF c
<1> DEFINE d == WithSample(c, s, empirical)
<1>2. d.exists /\ d.tree = t /\ d.separators = Separators(t) /\ DOMAIN d = Members
  BY <1>1, WithSampleTree
<1> QED
  BY <1>2 DEF c

\* Every tree of the session is a junction tree, and the loops of getMarginal
\* are on their way to one.
JoinInv ==
  /\ Sound(held)
  /\ copula.exists => Sound(copula.tree)
  /\ building.exists => building.tree = held
  /\ saved.exists => Sound(saved.held)
  /\ phase \in {"idle", "cliques"} => links = {}
  /\ phase = "idle" => DOMAIN kept = {}
  /\ phase = "cliques" => CliquesJoined
  /\ phase = "edges" => EdgesJoined

\* The tree of a copula that has none.
LEMMA NoTreeSound == Sound(NoTree)
<1>1. Ids(NoTree) = {} /\ NoTree.edge = {} /\ NoTree.names = <<>>
  BY DEF NoTree, Ids
<1>2. JunctionTree(NoTree)
  BY <1>1 DEF JunctionTree, Forest, RunningIntersection
<1> QED
  BY <1>1, <1>2, FS_EmptySet DEF Sound

\* Init holds no tree.
LEMMA InitJoined == CopulaInit => JoinInv
<1> SUFFICES ASSUME CopulaInit PROVE JoinInv
  OBVIOUS
<1>1. /\ phase = "idle" /\ held = NoTree /\ links = {} /\ DOMAIN kept = {}
      /\ ~copula.exists /\ ~building.exists /\ ~saved.exists
  BY DEF CopulaInit, TreeInit, None
<1> QED
  BY <1>1, NoTreeSound DEF JoinInv

\* The loops of a call.
LEMMA TreeStepJoined ==
  ASSUME CopulaInv, JoinInv, TreeStep, UNCHANGED <<copula, building, held, origin, saved>>
  PROVE  JoinInv'
<1>1. ASSUME phase \in {"cliques", "edges"}
      PROVE  CliquesSound /\ IsFiniteSet(Ids(tree))
  BY <1>1 DEF CopulaInv, JoinInv, Sound
<1>2. ASSUME NEW c \in todo, SkipClique(c) \/ AddClique(c)
      PROVE  JoinInv'
  <2>1. phase = "cliques" /\ phase' = phase /\ links' = links
    BY <1>2 DEF SkipClique, AddClique
  <2>2. CliquesJoined'
    BY <1>1, <1>2, <2>1, SkipJoined, AddJoined DEF JoinInv
  <2> QED
    BY <2>1, <2>2 DEF JoinInv
<1>3. CASE SortEdges
  <2>1. phase = "cliques" /\ phase' \in {"edges", "undefined"}
    BY <1>3 DEF SortEdges
  <2>2. EdgesJoined'
    BY <1>1, <1>3, <2>1, SortJoined DEF JoinInv
  <2> QED
    BY <2>1, <2>2 DEF JoinInv
<1>4. ASSUME NEW e \in sorted, TakeEdge(e)
      PROVE  JoinInv'
  <2>1. phase = "edges" /\ phase' = phase
    BY <1>4 DEF TakeEdge
  <2>2. EdgesJoined'
    BY <1>1, <1>4, <2>1, TakeJoined DEF JoinInv
  <2> QED
    BY <2>1, <2>2 DEF JoinInv
<1>5. ASSUME NEW c, ChooseRoot(c) \/ VisitNode(c)
      PROVE  JoinInv'
  <2>1. phase = "order" /\ phase' = phase
    BY <1>5 DEF ChooseRoot, VisitNode
  <2> QED
    BY <2>1 DEF JoinInv
<1> QED
  BY <1>2, <1>3, <1>4, <1>5 DEF TreeStep

\* Every action of the session.
LEMMA StepJoined == CopulaInv /\ JoinInv /\ [CopulaNext]_copulaVars => JoinInv'
<1> SUFFICES ASSUME CopulaInv, JoinInv, [CopulaNext]_copulaVars PROVE JoinInv'
  OBVIOUS
<1>1. CASE Construct
  <2>1. PICK t \in Trees : \E s \in GivenSamples(t), k \in BinNumbers, empirical \in BOOLEAN :
          /\ building' = WithSample(Initialised(t, k), s, empirical)
          /\ held' = t /\ CallGetOrder(t)
    BY <1>1 DEF Construct
  <2>2. ~copula'.exists /\ ~saved'.exists /\ phase' = "order"
    BY <1>1, <2>1 DEF Construct, CallGetOrder, CopulaInv
  <2>3. Sound(held')
    BY <2>1, CopulaAssumption DEF Sound
  <2>4. building'.tree = t
    BY <2>1, MadeWith
  <2> QED
    BY <2>1, <2>2, <2>3, <2>4 DEF JoinInv
<1>2. CASE GetMarginal
  <2>1. PICK indices \in Seq(DOMAIN copula.tree.names) : CallGetMarginal(copula.tree, indices)
    BY <1>2 DEF GetMarginal
  <2>2. /\ phase = "idle" /\ copula.exists
        /\ UNCHANGED <<copula, building, held, origin, saved>>
    BY <1>2 DEF GetMarginal, Idle
  <2>3. /\ phase' = "cliques" /\ tree' = copula.tree /\ target' = indices
        /\ todo' = Ids(copula.tree) /\ kept' = kept /\ links' = links /\ DOMAIN kept = {}
    BY <2>1, <2>2 DEF CallGetMarginal, JoinInv
  <2>4. CliquesJoined'
    <3>1. DOMAIN kept' \cup todo' = Ids(tree') /\ DOMAIN kept' \cap todo' = {}
      BY <2>3
    <3>2. \E J : JoinTree(J, Ids(tree'), Renamed(tree', target'))
      <4>1. Sound(tree')
        BY <2>2, <2>3 DEF JoinInv
      <4> QED
        BY <4>1, RenamedJoined
    <3> QED
      BY <3>1, <3>2 DEF CliquesJoined
  <2> QED
    BY <2>2, <2>3, <2>4 DEF JoinInv
<1>3. CASE GetMarginalBeyondTree
  BY <1>3 DEF GetMarginalBeyondTree, Idle, JoinInv
<1>4. CASE ConstructOrdered
  <2>1. PICK t \in Trees : \E s \in GivenSamples(t), k \in BinNumbers, empirical \in BOOLEAN,
                             o \in Orders(Ids(t)) :
          /\ copula' = [WithSample(Initialised(t, k), s, empirical) EXCEPT
                          !.cliques = Listed(t, o), !.walks = Walk(t, o)]
          /\ held' = t
    BY <1>4 DEF ConstructOrdered
  <2>2. /\ ~building.exists /\ ~saved.exists /\ phase = "idle"
        /\ UNCHANGED <<phase, kept, links, building, saved>>
    BY <1>4 DEF ConstructOrdered, Idle, treeVars, CopulaInv
  <2>3. Sound(held')
    BY <2>1, CopulaAssumption DEF Sound
  <2>4. copula'.tree = t
    <3>1. PICK s \in GivenSamples(t), k \in BinNumbers, empirical \in BOOLEAN, o \in Orders(Ids(t)) :
            copula' = [WithSample(Initialised(t, k), s, empirical) EXCEPT
                         !.cliques = Listed(t, o), !.walks = Walk(t, o)]
      BY <2>1
    <3> DEFINE c == WithSample(Initialised(t, k), s, empirical)
               listed == Listed(t, o)
               walks == Walk(t, o)
    <3>2. DOMAIN c = Members /\ c.tree = t
      BY MadeWith
    <3>3. copula' = Relisted(c, listed, walks)
      BY <3>1 DEF Relisted
    <3> HIDE DEF c, listed, walks
    <3> QED
      BY <3>2, <3>3, RelistedSame
  <2> QED
    BY <2>1, <2>2, <2>3, <2>4 DEF JoinInv
<1>5. CASE RejectIndices
  <2>1. phase' = "idle" /\ kept' = <<>> /\ links' = {} /\ UNCHANGED <<copula, building, held, saved>>
    BY <1>5 DEF RejectIndices, Return
  <2> QED
    BY <2>1 DEF JoinInv
<1>6. CASE ConstructMarginal
  <2>1. /\ EdgesDone /\ Consistent(Marginal) /\ phase' = "order"
        /\ held' = Marginal /\ UNCHANGED <<copula, saved>>
        /\ building' = WithSample(Initialised(Marginal, copula.bins), SampleMarginal(copula.sample), TRUE)
    BY <1>6 DEF ConstructMarginal, CallGetOrder
  <2>2. Sound(held')
    <3>1. CliquesSound /\ IsFiniteSet(Ids(tree)) /\ EdgesJoined
      BY <2>1 DEF EdgesDone, CopulaInv, JoinInv, Sound
    <3> QED
      BY <2>1, <3>1, MarginalJoined
  <2>3. building'.tree = held'
    <3> DEFINE m == Marginal
               s == SampleMarginal(copula.sample)
    <3>1. held' = m /\ \E k, empirical : building' = WithSample(Initialised(m, k), s, empirical)
      BY <2>1
    <3> HIDE DEF m, s
    <3> QED
      BY <3>1, MadeWith
  <2> QED
    BY <2>1, <2>2, <2>3 DEF JoinInv
<1>7. CASE UseOrder
  <2>1. PICK listed, walks : copula' = Relisted(building, listed, walks)
    BY <1>7 DEF UseOrder, Relisted
  <2>2. /\ phase' = "idle" /\ kept' = <<>> /\ links' = {} /\ ~building'.exists
        /\ building.exists /\ DOMAIN building = Members
        /\ UNCHANGED <<held, saved>>
    BY <1>7 DEF UseOrder, OrderDone, Return, None, CopulaInv
  <2>3. copula'.tree = building.tree
    BY <2>1, <2>2, RelistedSame
  <2> QED
    BY <2>2, <2>3 DEF JoinInv
<1>8. CASE SetCopulaSample \/ SetCliquesOrder
  <2>1. /\ copula.exists /\ phase = "idle" /\ DOMAIN copula = Members
        /\ UNCHANGED <<phase, kept, links, building, held, saved>>
    BY <1>8 DEF SetCopulaSample, SetCliquesOrder, Idle, treeVars, CopulaInv
  <2>2. CASE SetCopulaSample
    <3>1. PICK s \in GivenSamples(held), empirical \in BOOLEAN :
            copula' = WithSample(copula, s, empirical)
      BY <2>2 DEF SetCopulaSample
    <3>2. copula'.tree = copula.tree
      BY <2>1, <3>1, WithSampleTree
    <3> QED
      BY <2>1, <3>2 DEF JoinInv
  <2>3. CASE SetCliquesOrder
    <3>1. PICK listed, walks : copula' = Relisted(copula, listed, walks)
      BY <2>3 DEF SetCliquesOrder, Relisted
    <3>2. copula'.tree = copula.tree
      BY <2>1, <3>1, RelistedSame
    <3> QED
      BY <2>1, <3>2 DEF JoinInv
  <2> QED
    BY <1>8, <2>2, <2>3
<1>9. CASE Save
  <2>1. /\ phase = "idle" /\ saved'.held = held /\ copula.exists
        /\ UNCHANGED <<phase, kept, links, copula, building, held>>
    BY <1>9 DEF Save, Idle, treeVars
  <2> QED
    BY <2>1 DEF JoinInv
<1>10. CASE Load
  <2>1. /\ phase = "idle" /\ saved.exists /\ held' = saved.held /\ copula'.tree = NoTree
        /\ UNCHANGED <<phase, kept, links, building, saved>>
    BY <1>10 DEF Load, Idle, treeVars
  <2>2. ~building.exists
    BY <2>1 DEF CopulaInv
  <2> QED
    BY <2>1, <2>2, NoTreeSound DEF JoinInv
<1>11. CASE UNCHANGED copulaVars
  <2>1. (CliquesJoined' <=> CliquesJoined) /\ (EdgesJoined' <=> EdgesJoined)
    BY <1>11 DEF copulaVars, treeVars, CliquesJoined, EdgesJoined
  <2> QED
    BY <1>11, <2>1 DEF copulaVars, treeVars, JoinInv
<1> QED
  BY <1>1, <1>2, <1>3, <1>4, <1>5, <1>6, <1>7, <1>8, <1>9, <1>10, <1>11, TreeStepJoined
     DEF CopulaNext

\* The marginal tree is a junction tree again: the heaviest edges first, each
\* unless it closes a cycle, join the parts of the cliques of a junction tree
\* so that the cliques of a variable hang together.
THEOREM MarginalsHangTogether == CopulaSpec => []MarginalIsJunctionTree
<1>1. JoinInv => MarginalIsJunctionTree
  BY DEF JoinInv, Sound, MarginalIsJunctionTree
<1> QED
  BY CopulaInitSound, CopulaStepSound, InitJoined, StepJoined, <1>1, PTL DEF CopulaSpec
-----------------------------------------------------------------------------
\* The order of the cliques

\* The edges among the nodes of M.
Within(t, M) == {e \in t.edge : e \subseteq M}

\* What is joined in the tree, and in M, is joined inside M.
Connected(t, M) ==
  \A c, d \in M : Joined(t.edge, c, d) => Joined(Within(t, M), c, d)

\* A node next to one of a connected set is next to no other, shares with all of
\* them only what it shares with that one, and leaves the set connected.
LEMMA NewEnd ==
  ASSUME NEW t, JunctionTree(t), NEW M, M \subseteq Ids(t), Connected(t, M),
         NEW x \in Ids(t) \ M, NEW p \in M, {x, p} \in t.edge
  PROVE  /\ \A q \in M : {x, q} \in t.edge => q = p
         /\ \A d \in M : t.clique[x] \cap t.clique[d] \subseteq t.clique[p]
         /\ Connected(t, M \cup {x})
<1> DEFINE e == {x, p}
           E == t.edge
<1>1. Within(t, M) \subseteq E \ {e} /\ Within(t, M) \subseteq Within(t, M \cup {x}) /\ e \in Within(t, M \cup {x})
  BY DEF Within
<1>2. ~Joined(E \ {e}, x, p)
  BY DEF JunctionTree, Forest
<1>3. Joined(E, p, x)
  BY JoinedByEdge
<1>4. ASSUME NEW d \in M, Joined(E, x, d)
      PROVE  Joined(Within(t, M), p, d)
  BY <1>3, <1>4, JoinedTrans DEF Connected
<1>5. ASSUME NEW d \in M
      PROVE  ~Joined(E \ {e}, x, d)
  <2> SUFFICES ASSUME Joined(E \ {e}, x, d) PROVE FALSE
    OBVIOUS
  <2>1. Joined(E, x, d)
    BY JoinedMore
  <2>2. Joined(E \ {e}, p, d)
    BY <1>1, <1>4, <2>1, JoinedMore
  <2> QED
    BY <1>2, <2>2, JoinedSym, JoinedTrans
<1>6. ASSUME NEW q \in M, {x, q} \in E, q # p
      PROVE  FALSE
  <2>1. {x, q} \in E \ {e}
    BY <1>6
  <2>2. Joined(E \ {e}, x, q)
    BY <2>1, JoinedByEdge
  <2> QED
    BY <1>5, <2>2
<1>7. ASSUME NEW d \in M, NEW v \in t.clique[x] \cap t.clique[d], v \notin t.clique[p]
      PROVE  FALSE
  <2> DEFINE V == {g \in E : v \in Separator(t.clique, g)}
  <2>1. Joined(V, x, d)
    BY DEF JunctionTree, RunningIntersection
  <2>2. V \subseteq E \ {e}
    <3>1. Separator(t.clique, e) = t.clique[x] \cap t.clique[p]
      BY SeparatorOfPair
    <3>2. v \notin Separator(t.clique, e)
      BY <1>7, <3>1
    <3> QED
      BY <3>2
  <2> HIDE DEF V
  <2> QED
    BY <1>5, <2>1, <2>2, JoinedMore
<1>8. ASSUME NEW c \in M \cup {x}, NEW d \in M \cup {x}, Joined(E, c, d)
      PROVE  Joined(Within(t, M \cup {x}), c, d)
  <2> DEFINE W == Within(t, M \cup {x})
  <2>1. Joined(W, x, p) /\ Joined(W, p, x)
    BY <1>1, JoinedByEdge
  <2>2. ASSUME NEW b \in M, Joined(E, x, b)
        PROVE  Joined(W, x, b) /\ Joined(W, b, x)
    <3>1. Joined(W, p, b)
      BY <1>1, <1>4, <2>2, JoinedMore
    <3> HIDE DEF W
    <3>2. Joined(W, x, b)
      BY <2>1, <3>1, JoinedTrans
    <3> QED
      BY <3>2, JoinedSym
  <2>3. CASE c \in M /\ d \in M
    BY <1>1, <1>8, <2>3, JoinedMore DEF Connected
  <2>4. CASE c = x /\ d \in M
    BY <1>8, <2>2, <2>4
  <2>5. CASE c \in M /\ d = x
    BY <1>8, <2>2, <2>5, JoinedSym
  <2>6. CASE c = x /\ d = x
    BY <2>6, JoinedIf
  <2> QED
    BY <2>3, <2>4, <2>5, <2>6
<1> QED
  BY <1>6, <1>7, <1>8 DEF Connected

\* A node joined to none of a set has nothing to do with it.
LEMMA NewRoot ==
  ASSUME NEW t, JunctionTree(t), NEW M, M \subseteq Ids(t), Connected(t, M),
         NEW x \in Ids(t) \ M, \A d \in M : ~Joined(t.edge, d, x)
  PROVE  /\ \A q \in M : {x, q} \notin t.edge
         /\ \A d \in M : t.clique[x] \cap t.clique[d] = {}
         /\ Connected(t, M \cup {x})
<1>1. ASSUME NEW d \in M
      PROVE  ~Joined(t.edge, x, d) /\ ~Joined(t.edge, d, x)
  BY JoinedSym
<1>2. \A q \in M : {x, q} \notin t.edge
  BY <1>1, JoinedByEdge
<1>3. ASSUME NEW d \in M, NEW v \in t.clique[x] \cap t.clique[d]
      PROVE  FALSE
  <2> DEFINE V == {g \in t.edge : v \in Separator(t.clique, g)}
  <2>1. Joined(V, x, d)
    BY DEF JunctionTree, RunningIntersection
  <2>2. V \subseteq t.edge
    OBVIOUS
  <2> HIDE DEF V
  <2> QED
    BY <1>1, <2>1, <2>2, JoinedMore
<1>4. Connected(t, M \cup {x})
  <2> SUFFICES ASSUME NEW c \in M \cup {x}, NEW d \in M \cup {x}, Joined(t.edge, c, d)
               PROVE  Joined(Within(t, M \cup {x}), c, d)
    BY DEF Connected
  <2>1. CASE c \in M /\ d \in M
    <3>1. Within(t, M) \subseteq Within(t, M \cup {x})
      BY DEF Within
    <3> QED
      BY <2>1, <3>1, JoinedMore DEF Connected
  <2>2. CASE c = x /\ d = x
    BY <2>2, JoinedIf
  <2> QED
    BY <1>1, <2>1, <2>2
<1> QED
  BY <1>2, <1>3, <1>4
-----------------------------------------------------------------------------
\* The edges by which the i-th node of an order hangs on earlier ones, and what
\* its clique shares with theirs.
Earlier(t, o, i) == {e \in t.edge : o[i] \in e /\ \E j \in 1..i-1 : o[j] \in e}
Shared(t, o, i) == t.clique[o[i]] \cap UNION {t.clique[o[j]] : j \in 1..i-1}

\* It begins a component and shares nothing, or hangs on one edge and shares
\* the separator of that edge.
Entered(t, o, i) ==
  \/ Earlier(t, o, i) = {} /\ Shared(t, o, i) = {}
  \/ \E e : Earlier(t, o, i) = {e} /\ Shared(t, o, i) = Separator(t.clique, e)

\* The first n nodes of a list.
First(o, n) == {o[j] : j \in 1..n}

\* A node that comes next enters with one edge, or begins a component.
LEMMA NextEnters ==
  ASSUME NEW t, JunctionTree(t), NEW o \in Seq(Ids(t)), IsInjective(o), NEW i \in DOMAIN o,
         Connected(t, First(o, i - 1)), ComesNext(t, o, i)
  PROVE  Entered(t, o, i) /\ Connected(t, First(o, i))
<1> DEFINE M == First(o, i - 1)
           x == o[i]
<1>1. /\ Len(o) \in Nat /\ DOMAIN o = 1..Len(o) /\ i \in 1..Len(o)
      /\ 1..i-1 \subseteq DOMAIN o /\ i \notin 1..i-1
  OBVIOUS
<1>2. x \in Ids(t) \ M /\ M \subseteq Ids(t)
  BY <1>1 DEF First, IsInjective
<1>3. First(o, i) = M \cup {x}
  <2>1. \A j : j \in 1..i <=> j \in 1..i-1 \/ j = i
    BY <1>1
  <2> QED
    BY <2>1 DEF First
<1>4. \A e \in t.edge : (x \in e /\ e \cap M # {}) <=> (\E q \in M : e = {x, q})
  <2> SUFFICES ASSUME NEW e \in t.edge, x \in e, NEW q \in M, q \in e PROVE e = {x, q}
    OBVIOUS
  <2>1. PICK a \in Ids(t), b \in Ids(t) : e = {a, b}
    BY DEF JunctionTree
  <2> QED
    BY <1>2, <2>1
<1>5. /\ Earlier(t, o, i) = {e \in t.edge : x \in e /\ e \cap M # {}}
      /\ Shared(t, o, i) = t.clique[x] \cap UNION {t.clique[d] : d \in M}
  <2>1. \A e : (\E j \in 1..i-1 : o[j] \in e) <=> e \cap M # {}
    BY DEF First
  <2>2. {t.clique[o[j]] : j \in 1..i-1} = {t.clique[d] : d \in M}
    BY DEF First
  <2> QED
    BY <2>1, <2>2 DEF Earlier, Shared
<1>6. (\E d \in M : Joined(t.edge, d, x)) => \E p \in M : {x, p} \in t.edge
  BY DEF ComesNext, First
<1> HIDE DEF M, x
<1>7. CASE \E p \in M : {x, p} \in t.edge
  <2>1. PICK p \in M : {x, p} \in t.edge
    BY <1>7
  <2>2. /\ \A q \in M : {x, q} \in t.edge => q = p
        /\ \A d \in M : t.clique[x] \cap t.clique[d] \subseteq t.clique[p]
        /\ Connected(t, M \cup {x})
    BY <1>2, <2>1, NewEnd DEF M
  <2>3. Earlier(t, o, i) = {{x, p}}
    <3>1. Earlier(t, o, i) = {e \in t.edge : \E q \in M : e = {x, q}}
      BY <1>4, <1>5
    <3>2. \A e \in t.edge : (\E q \in M : e = {x, q}) <=> e = {x, p}
      BY <2>1, <2>2
    <3> QED
      BY <2>1, <3>1, <3>2
  <2>4. Shared(t, o, i) = Separator(t.clique, {x, p})
    <3>1. Separator(t.clique, {x, p}) = t.clique[x] \cap t.clique[p]
      BY SeparatorOfPair
    <3>2. t.clique[x] \cap UNION {t.clique[d] : d \in M} = t.clique[x] \cap t.clique[p]
      BY <2>1, <2>2
    <3> QED
      BY <1>5, <3>1, <3>2
  <2> QED
    BY <1>3, <2>2, <2>3, <2>4 DEF Entered
<1>8. CASE ~\E p \in M : {x, p} \in t.edge
  <2>1. /\ \A d \in M : t.clique[x] \cap t.clique[d] = {}
        /\ Connected(t, M \cup {x})
    BY <1>2, <1>6, <1>8, NewRoot DEF M
  <2>2. Earlier(t, o, i) = {}
    <3>1. \A e \in t.edge : ~(x \in e /\ e \cap M # {})
      BY <1>4, <1>8
    <3> QED
      BY <1>5, <3>1
  <2>3. Shared(t, o, i) = {}
    BY <1>5, <2>1
  <2> QED
    BY <1>3, <2>1, <2>2, <2>3 DEF Entered
<1> QED
  BY <1>7, <1>8

\* So does every node of a walk: there would be a first one after which the
\* nodes so far are not connected.
LEMMA WalkEnters ==
  ASSUME NEW t, JunctionTree(t), NEW o, Walk(t, o)
  PROVE  \A i \in DOMAIN o : Entered(t, o, i)
<1>1. /\ o \in Seq(Ids(t)) /\ IsInjective(o) /\ Len(o) \in Nat /\ DOMAIN o = 1..Len(o)
      /\ \A i \in DOMAIN o : ComesNext(t, o, i)
  BY DEF Walk
<1> DEFINE Bad == {n \in 0..Len(o) : ~Connected(t, First(o, n))}
<1>2. Bad = {}
  <2> SUFFICES ASSUME Bad # {} PROVE FALSE
    OBVIOUS
  <2>1. PICK n \in Bad : \A m \in Bad : n <= m
    <3>1. Bad \subseteq Nat
      BY <1>1
    <3> HIDE DEF Bad
    <3> QED
      BY <3>1, LeastNumber
  <2>2. n # 0
    <3>1. First(o, 0) = {}
      BY DEF First
    <3>2. Connected(t, {})
      BY DEF Connected
    <3> QED
      BY <3>1, <3>2
  <2>3. n \in 1..Len(o) /\ n - 1 \in 0..Len(o) /\ n - 1 < n
    BY <1>1, <2>2
  <2>4. Connected(t, First(o, n - 1))
    BY <2>1, <2>3
  <2>5. Connected(t, First(o, n))
    BY <1>1, <2>3, <2>4, NextEnters
  <2> QED
    BY <2>5
<1>3. ASSUME NEW i \in DOMAIN o
      PROVE  Connected(t, First(o, i - 1))
  <2>1. i - 1 \in 0..Len(o)
    BY <1>1
  <2> QED
    BY <1>2, <2>1
<1> HIDE DEF Bad
<1> QED
  BY <1>1, <1>3, NextEnters

\* The order so far walks, and the nodes to visit are neighbours of those
\* visited, or the root of a new component.
OrderSound(t, o, w) ==
  /\ o \in Seq(Ids(t)) /\ IsInjective(o)
  /\ w \subseteq Ids(t) \ ToSet(o)
  /\ \A c \in ToSet(o) : Neighbours(t, c) \subseteq ToSet(o) \cup w
  /\ \/ \A x \in w : Neighbours(t, x) \cap ToSet(o) # {}
     \/ Closed(ToSet(o), t.edge) /\ \E x : w = {x}
  /\ \A i \in DOMAIN o : ComesNext(t, o, i)

\* When no node is left to visit, no edge leaves those visited, and any other
\* may be the next root.
LEMMA RootSound ==
  ASSUME NEW t, JunctionTree(t), NEW o, OrderSound(t, o, {}), NEW x \in Ids(t) \ ToSet(o)
  PROVE  OrderSound(t, o, {x})
<1>1. Closed(ToSet(o), t.edge)
  <2> SUFFICES ASSUME NEW e \in t.edge, NEW c \in e, c \in ToSet(o), NEW d \in e
               PROVE  d \in ToSet(o)
    BY DEF Closed
  <2>1. PICK a \in Ids(t), b \in Ids(t) : a # b /\ e = {a, b}
    BY DEF JunctionTree
  <2>2. d # c => e = {c, d} /\ d \in Ids(t)
    BY <2>1
  <2> QED
    BY <2>2 DEF OrderSound, Neighbours
<1> QED
  BY <1>1 DEF OrderSound

\* The nodes of an order that has one more.
LEMMA AppendSet ==
  ASSUME NEW S, NEW o \in Seq(S), IsInjective(o), NEW x \in S \ ToSet(o)
  PROVE  /\ Append(o, x) \in Seq(S) /\ IsInjective(Append(o, x))
         /\ Len(o) \in Nat /\ DOMAIN o = 1..Len(o)
         /\ DOMAIN Append(o, x) = 1..Len(o) + 1
         /\ \A i \in 1..Len(o) : Append(o, x)[i] = o[i]
         /\ Append(o, x)[Len(o) + 1] = x
         /\ ToSet(Append(o, x)) = ToSet(o) \cup {x}
<1> DEFINE u == Append(o, x)
           n == Len(o)
<1>1. /\ u \in Seq(S) /\ n \in Nat /\ DOMAIN o = 1..n /\ DOMAIN u = 1..n + 1
      /\ (\A i \in 1..n : u[i] = o[i]) /\ u[n + 1] = x
  OBVIOUS
<1> HIDE DEF u, n
<1>2. \A i \in 1..n + 1 : i \in 1..n \/ i = n + 1
  BY <1>1
<1>3. ToSet(u) = ToSet(o) \cup {x}
  <2>1. \A y : y \in ToSet(u) <=> y \in ToSet(o) \cup {x}
    BY <1>1, <1>2 DEF ToSet
  <2> QED
    BY <2>1
<1>4. IsInjective(u)
  <2> SUFFICES ASSUME NEW i \in 1..n + 1, NEW j \in 1..n + 1, u[i] = u[j] PROVE i = j
    BY <1>1 DEF IsInjective
  <2>1. \A k \in 1..n : o[k] # x
    BY <1>1 DEF ToSet
  <2> QED
    BY <1>1, <1>2, <2>1 DEF IsInjective
<1> QED
  BY <1>1, <1>3, <1>4 DEF u, n

\* Visiting a node keeps the order sound.
LEMMA VisitSound ==
  ASSUME NEW t, NEW o, NEW w, OrderSound(t, o, w), NEW x \in w
  PROVE  OrderSound(t, Append(o, x), (w \ {x}) \cup (Neighbours(t, x) \ ToSet(Append(o, x))))
<1> DEFINE M == ToSet(o)
           u == Append(o, x)
           n == Len(o)
           z == (w \ {x}) \cup (Neighbours(t, x) \ ToSet(u))
           N == M \cup {x}
<1>1. /\ u \in Seq(Ids(t)) /\ IsInjective(u)
      /\ n \in Nat /\ DOMAIN o = 1..n /\ DOMAIN u = 1..n + 1
      /\ (\A i \in 1..n : u[i] = o[i]) /\ u[n + 1] = x
      /\ ToSet(u) = N
  BY AppendSet DEF OrderSound
<1>2. x \in Ids(t) \ M /\ w \subseteq Ids(t) \ M
  BY DEF OrderSound
<1>3. M = {u[j] : j \in 1..n}
  BY <1>1 DEF ToSet
<1> HIDE DEF u, n
<1>4. \A c : Neighbours(t, c) \subseteq Ids(t)
  BY DEF Neighbours
<1> HIDE DEF M
\* The new node comes next to one it was put down for, or begins a component.
<1>5. ComesNext(t, u, n + 1)
  <2> DEFINE m == n + 1
  <2>1. 1..m-1 = 1..n /\ u[m] = x
    BY <1>1
  <2> HIDE DEF m
  <2>2. CASE Neighbours(t, x) \cap M # {}
    <3>1. \E d \in M : {x, d} \in t.edge
      BY <2>2 DEF Neighbours
    <3>2. \E k \in 1..m-1 : {u[m], u[k]} \in t.edge
      BY <1>3, <2>1, <3>1
    <3>3. ComesNext(t, u, m)
      BY <3>2 DEF ComesNext
    <3> QED
      BY <3>3 DEF m
  <2>3. CASE Closed(M, t.edge)
    <3>1. \A d \in M : ~Joined(t.edge, d, x)
      BY <1>2, <2>3, JoinedThrough
    <3>2. \A j \in 1..m-1 : ~Joined(t.edge, u[j], u[m])
      BY <1>3, <2>1, <3>1
    <3>3. ComesNext(t, u, m)
      BY <3>2 DEF ComesNext
    <3> QED
      BY <3>3 DEF m
  <2> QED
    BY <2>2, <2>3 DEF OrderSound, M
\* The others are as they were.
<1>6. ASSUME NEW i \in 1..n
      PROVE  ComesNext(t, u, i)
  <2>1. 1..i-1 \subseteq 1..n
    BY <1>1
  <2>2. u[i] = o[i] /\ \A j \in 1..i-1 : u[j] = o[j]
    BY <1>1, <2>1
  <2>3. ComesNext(t, o, i)
    BY <1>1 DEF OrderSound
  <2> QED
    BY <2>2, <2>3 DEF ComesNext
<1>7. \A i \in DOMAIN u : ComesNext(t, u, i)
  <2>1. \A i \in DOMAIN u : i \in 1..n \/ i = n + 1
    BY <1>1
  <2> QED
    BY <1>5, <1>6, <2>1
<1>8. z \subseteq Ids(t) \ N
  BY <1>1, <1>2, <1>4
<1>9. \A c \in N : Neighbours(t, c) \subseteq N \cup z
  <2>1. \A c \in M : Neighbours(t, c) \subseteq M \cup w
    BY DEF OrderSound, M
  <2> QED
    BY <1>1, <2>1
<1>10. \A y \in z : Neighbours(t, y) \cap N # {}
  <2>1. ASSUME NEW y \in w \ {x}
        PROVE  Neighbours(t, y) \cap M # {}
    BY <2>1 DEF OrderSound, M
  <2>2. ASSUME NEW y \in Neighbours(t, x)
        PROVE  x \in Neighbours(t, y)
    <3>1. {x, y} = {y, x}
      OBVIOUS
    <3> QED
      BY <1>2, <3>1 DEF Neighbours
  <2> QED
    BY <2>1, <2>2
<1> HIDE DEF N, z
<1>11. OrderSound(t, u, z)
  BY <1>1, <1>7, <1>8, <1>9, <1>10 DEF OrderSound
<1> QED
  BY <1>11 DEF u, z

\* An order begins with no node,
LEMMA StartSound == ASSUME NEW t PROVE OrderSound(t, <<>>, {})
<1>1. <<>> \in Seq(Ids(t)) /\ IsInjective(<<>>) /\ ToSet(<<>>) = {} /\ DOMAIN <<>> = {}
  BY DEF IsInjective, ToSet
<1> QED
  BY <1>1 DEF OrderSound

\* and ends as a walk.
LEMMA EndWalks ==
  ASSUME NEW t, NEW o, OrderSound(t, o, {}), Ids(t) \subseteq ToSet(o)
  PROVE  Walk(t, o)
<1>1. ToSet(o) = Ids(t)
  BY DEF OrderSound, ToSet
<1> QED
  BY <1>1 DEF OrderSound, Walk

\* The nodes that share S with earlier ones are as many as the edges whose
\* separator S is: each comes with the edge it hangs on.
LEMMA OrderCounts ==
  ASSUME NEW t, Sound(t), NEW o, Walk(t, o), NEW S, S # {}
  PROVE  Cardinality({i \in DOMAIN o : Shared(t, o, i) = S})
           = Cardinality({e \in t.edge : Separator(t.clique, e) = S})
<1> DEFINE A == {i \in DOMAIN o : Shared(t, o, i) = S}
           B == {e \in t.edge : Separator(t.clique, e) = S}
           f == [i \in A |-> CHOOSE e : Earlier(t, o, i) = {e}]
<1>1. /\ o \in Seq(Ids(t)) /\ Len(o) \in Nat /\ DOMAIN o = 1..Len(o)
      /\ \A i, j \in DOMAIN o : o[i] = o[j] => i = j
      /\ ToSet(o) = Ids(t) /\ \A i \in DOMAIN o : Entered(t, o, i)
  BY WalkEnters DEF Walk, IsInjective, Sound
<1>2. ASSUME NEW i \in A
      PROVE  Earlier(t, o, i) = {f[i]} /\ f[i] \in B
  <2>1. PICK e : Earlier(t, o, i) = {e} /\ Shared(t, o, i) = Separator(t.clique, e)
    BY <1>1 DEF Entered
  <2>2. f[i] = CHOOSE g : Earlier(t, o, i) = {g}
    OBVIOUS
  <2>3. Earlier(t, o, i) = {f[i]}
    BY <2>1, <2>2
  <2>4. f[i] = e
    BY <2>1, <2>3
  <2>5. e \in t.edge
    BY <2>1 DEF Earlier
  <2> HIDE DEF f
  <2> QED
    BY <2>1, <2>3, <2>4, <2>5
<1>3. \A e \in t.edge : \E c, d \in Ids(t) : c # d /\ e = {c, d}
  BY DEF Sound, JunctionTree
<1>4. ASSUME NEW i \in A, NEW k \in A, f[i] = f[k], i < k
      PROVE  FALSE
  <2>1. f[i] \in Earlier(t, o, i) /\ f[i] \in Earlier(t, o, k)
    BY <1>2, <1>4
  <2> HIDE DEF f
  <2>2. f[i] \in t.edge /\ o[i] \in f[i] /\ o[k] \in f[i]
    BY <2>1 DEF Earlier
  <2>3. PICK j \in 1..i-1 : o[j] \in f[i]
    BY <2>1 DEF Earlier
  <2>4. i \in 1..Len(o) /\ k \in 1..Len(o) /\ j \in 1..Len(o) /\ j # i /\ j # k
    BY <1>1, <1>4, <2>3
  <2>5. o[i] # o[j] /\ o[i] # o[k] /\ o[j] # o[k]
    BY <1>1, <1>4, <2>4
  <2> QED
    BY <1>3, <2>2, <2>3, <2>5
<1>5. ASSUME NEW e \in B
      PROVE  \E i \in A : f[i] = e
  <2>1. PICK c \in Ids(t), d \in Ids(t) : c # d /\ e = {c, d}
    BY <1>3
  <2>2. PICK a \in DOMAIN o, b \in DOMAIN o : o[a] = c /\ o[b] = d
    BY <1>1, <2>1 DEF ToSet
  <2>3. PICK i \in DOMAIN o, j \in DOMAIN o : j < i /\ o[i] \in e /\ o[j] \in e
    <3>1. a < b \/ b < a
      BY <1>1, <2>1, <2>2
    <3> QED
      BY <2>1, <2>2, <3>1
  <2>4. j \in 1..i-1
    BY <1>1, <2>3
  <2>5. e \in Earlier(t, o, i)
    BY <2>3, <2>4 DEF Earlier
  <2>6. Earlier(t, o, i) = {e} /\ Shared(t, o, i) = Separator(t.clique, e)
    BY <1>1, <2>3, <2>5 DEF Entered
  <2>7. i \in A
    BY <2>6
  <2>8. Earlier(t, o, i) = {f[i]}
    BY <1>2, <2>7
  <2> HIDE DEF f, A
  <2> QED
    BY <2>6, <2>7, <2>8
<1>6. f \in [A -> B]
  BY <1>2
<1>7. A \subseteq 1..Len(o)
  BY <1>1
<1> HIDE DEF f, A, B
<1>8. \A i, k \in A : f[i] = f[k] => i = k
  <2> SUFFICES ASSUME NEW i \in A, NEW k \in A, f[i] = f[k], i # k PROVE FALSE
    OBVIOUS
  <2>1. i < k \/ k < i
    BY <1>1, <1>7
  <2> QED
    BY <1>4, <2>1
<1>9. f \in Bijection(A, B)
  BY <1>5, <1>6, <1>8 DEF Bijection, Injection, Surjection, IsInjective
<1>10. ExistsBijection(A, B)
  BY <1>9 DEF ExistsBijection
<1>11. IsFiniteSet(A)
  <2>1. IsFiniteSet(1..Len(o))
    BY <1>1, FS_Interval
  <2> QED
    BY <1>7, <2>1, FS_Subset
<1>12. Cardinality(B) = Cardinality(A)
  BY <1>10, <1>11, FS_Bijection
<1> QED
  BY <1>12 DEF A, B

\* What getRealization goes through fits what computePDF multiplies, for a
\* sample of as many columns as there are names.
DensityFits(c, names) ==
  /\ UNION ToSet(c.cliques) = DOMAIN names
  /\ \A S : S # {} =>
       Cardinality({i \in DOMAIN c.cliques : Known(c, i) = S})
         = Cardinality({e \in DOMAIN c.separators : c.separators[e] = S})

\* The cliques of a junction tree listed by a walk.
LEMMA ListedFits ==
  ASSUME NEW t, Sound(t), NEW o, Walk(t, o),
         NEW c, c.cliques = Listed(t, o), c.separators = Separators(t)
  PROVE  DensityFits(c, t.names)
<1>1. o \in Seq(Ids(t)) /\ Len(o) \in Nat /\ DOMAIN o = 1..Len(o) /\ ToSet(o) = Ids(t)
  BY DEF Walk
<1>2. ASSUME NEW i \in DOMAIN o
      PROVE  \A j \in 1..i : o[j] \in Ids(t)
  <2>1. 1..i \subseteq DOMAIN o
    BY <1>1
  <2> QED
    BY <1>1, <2>1
<1>3. DOMAIN c.cliques = DOMAIN o /\ \A i \in DOMAIN o : c.cliques[i] = t.clique[o[i]]
  BY <1>2 DEF Listed
<1>4. UNION ToSet(c.cliques) = DOMAIN t.names
  <2>1. ToSet(c.cliques) = {t.clique[d] : d \in Ids(t)}
    BY <1>1, <1>3 DEF ToSet
  <2> QED
    BY <2>1 DEF Sound, JunctionTree
<1>5. ASSUME NEW i \in DOMAIN o
      PROVE  Known(c, i) = Shared(t, o, i)
  <2>1. 1..i-1 \subseteq DOMAIN o
    BY <1>1
  <2>2. {c.cliques[j] : j \in 1..i-1} = {t.clique[o[j]] : j \in 1..i-1}
    BY <1>3, <2>1
  <2> QED
    BY <1>3, <2>2 DEF Known, Shared
<1>6. ASSUME NEW S, S # {}
      PROVE  Cardinality({i \in DOMAIN c.cliques : Known(c, i) = S})
               = Cardinality({e \in DOMAIN c.separators : c.separators[e] = S})
  <2>1. {i \in DOMAIN c.cliques : Known(c, i) = S} = {i \in DOMAIN o : Shared(t, o, i) = S}
    BY <1>3, <1>5
  <2>2. {e \in DOMAIN c.separators : c.separators[e] = S}
          = {e \in t.edge : Separator(t.clique, e) = S}
    BY DEF Separators
  <2> QED
    BY <1>6, <2>1, <2>2, OrderCounts
<1> QED
  BY <1>4, <1>6 DEF DensityFits

\* A copula whose order walks fits its sample, if it is of the tree's variables,
\* and, when no call runs, the tree held with it, whatever its sample; so does
\* what was saved of one.  The order under way is one of the tree held now.
DensityInv ==
  /\ copula.exists /\ copula.walks /\ copula.sample.own =>
       DensityFits(copula, copula.sample.columns)
  /\ copula.exists /\ ~building.exists =>
       /\ copula.separators = Separators(held)
       /\ copula.walks => DensityFits(copula, held.names)
  /\ building.exists => building.separators = Separators(held)
  /\ saved.exists =>
       /\ saved.members.separators = Separators(saved.held)
       /\ saved.members.walks => DensityFits(saved.members, saved.held.names)
  /\ phase = "order" => tree = held /\ OrderSound(tree, order, visit)
  /\ phase \in {"idle", "cliques", "edges"} => order = <<>> /\ visit = {}

\* What fits depends on the cliques and separators only.
LEMMA SameDensity ==
  ASSUME NEW c, NEW names, DensityFits(c, names),
         NEW d, d.cliques = c.cliques, d.separators = c.separators
  PROVE  DensityFits(d, names)
<1>1. \A i : Known(d, i) = Known(c, i)
  BY DEF Known
<1> QED
  BY <1>1 DEF DensityFits

\* Init holds no copula.
LEMMA InitFits == CopulaInit => DensityInv
<1> SUFFICES ASSUME CopulaInit PROVE DensityInv
  OBVIOUS
<1>1. /\ phase = "idle" /\ order = <<>> /\ visit = {}
      /\ ~copula.exists /\ ~building.exists /\ ~saved.exists
  BY DEF CopulaInit, TreeInit, None
<1> QED
  BY <1>1 DEF DensityInv

\* The loops of a call: only those of getOrderMaxFirst touch the order.
LEMMA TreeStepFits ==
  ASSUME JoinInv, DensityInv, TreeStep, UNCHANGED <<copula, building, held, origin, saved>>
  PROVE  DensityInv'
<1>1. ASSUME phase = "cliques" \/ phase = "edges", phase' # "order", UNCHANGED <<order, visit>>
      PROVE  DensityInv'
  BY <1>1 DEF DensityInv
<1>2. ASSUME NEW c \in todo, SkipClique(c) \/ AddClique(c)
      PROVE  DensityInv'
  <2>1. phase = "cliques" /\ phase' = phase /\ UNCHANGED <<order, visit>>
    BY <1>2 DEF SkipClique, AddClique
  <2> QED
    BY <1>1, <2>1
<1>3. CASE SortEdges
  <2>1. phase = "cliques" /\ phase' \in {"edges", "undefined"} /\ UNCHANGED <<order, visit>>
    BY <1>3 DEF SortEdges
  <2> QED
    BY <1>1, <2>1
<1>4. ASSUME NEW e \in sorted, TakeEdge(e)
      PROVE  DensityInv'
  <2>1. phase = "edges" /\ phase' = phase /\ UNCHANGED <<order, visit>>
    BY <1>4 DEF TakeEdge
  <2> QED
    BY <1>1, <2>1
<1>5. ASSUME NEW c \in Unmarked, ChooseRoot(c)
      PROVE  DensityInv'
  <2>1. /\ phase = "order" /\ visit = {} /\ visit' = {c} /\ UNCHANGED <<phase, tree, order>>
        /\ c \in Ids(tree) \ ToSet(order)
    BY <1>5 DEF ChooseRoot, Unmarked
  <2>2. OrderSound(tree, order, {c})
    BY <2>1, RootSound DEF JoinInv, DensityInv, Sound
  <2> QED
    BY <2>1, <2>2 DEF DensityInv
<1>6. ASSUME NEW c \in visit, VisitNode(c)
      PROVE  DensityInv'
  <2>1. /\ phase = "order" /\ UNCHANGED <<phase, tree>> /\ order' = Append(order, c)
        /\ visit' = (visit \ {c}) \cup (Neighbours(tree, c) \ ToSet(Append(order, c)))
    BY <1>6 DEF VisitNode
  <2>2. OrderSound(tree, order', visit')
    BY <2>1, VisitSound DEF JoinInv, DensityInv, Sound
  <2> QED
    BY <2>1, <2>2 DEF DensityInv
<1> QED
  BY <1>2, <1>3, <1>4, <1>5, <1>6 DEF TreeStep

\* The order that getOrderMaxFirst gives walks the tree of the copula.
LEMMA UseOrderFits == CopulaInv /\ JoinInv /\ DensityInv /\ UseOrder => DensityInv'
<1> SUFFICES ASSUME CopulaInv, JoinInv, DensityInv, UseOrder PROVE DensityInv'
  OBVIOUS
<1>1. /\ phase' = "idle" /\ order' = <<>> /\ visit' = {} /\ ~building'.exists
      /\ UNCHANGED <<held, origin, saved>>
  BY DEF UseOrder, Return, None
<1>2. OrderSound(held, order, {}) /\ Ids(held) \subseteq ToSet(order) /\ Sound(held)
  BY DEF UseOrder, OrderDone, Unmarked, DensityInv, JoinInv
<1>3. /\ building.exists /\ DOMAIN building = Members
      /\ building.tree = held /\ building.separators = Separators(held)
      /\ building.sample.own => building.sample.columns = held.names
  BY DEF UseOrder, OrderDone, CopulaInv, DensityInv
<1>4. PICK walks : copula' = Relisted(building, Listed(held, order), walks)
  BY <1>3 DEF UseOrder, Relisted
<1>5. /\ copula'.cliques = Listed(held, order) /\ copula'.separators = Separators(held)
      /\ copula'.sample = building.sample
  BY <1>3, <1>4, RelistedSame
<1>6. DensityFits(copula', held.names)
  BY <1>2, <1>5, EndWalks, ListedFits
<1>7. copula'.sample.own => DensityFits(copula', copula'.sample.columns)
  BY <1>3, <1>5, <1>6
<1> QED
  BY <1>1, <1>5, <1>6, <1>7 DEF DensityInv

\* An order of the caller fits if it walks.
LEMMA SetCliquesOrderFits == CopulaInv /\ JoinInv /\ DensityInv /\ SetCliquesOrder => DensityInv'
<1> SUFFICES ASSUME CopulaInv, JoinInv, DensityInv, SetCliquesOrder PROVE DensityInv'
  OBVIOUS
<1>1. /\ phase = "idle" /\ copula.exists /\ ~building.exists
      /\ UNCHANGED <<phase, order, visit, tree, building, held, saved>>
  BY DEF SetCliquesOrder, Idle, treeVars, CopulaInv
<1>2. PICK o \in Orders(Ids(held)) :
        /\ Len(o) = Cardinality(Ids(copula.tree))
        /\ copula' = Relisted(copula, Listed(copula.tree, o), Walk(held, o))
  BY DEF SetCliquesOrder, Relisted
<1>3. /\ DOMAIN copula = Members /\ copula.tree \in {held, NoTree}
      /\ copula.separators = Separators(held)
      /\ copula.sample.own => copula.sample.columns = held.names
  BY <1>1 DEF CopulaInv, DensityInv
<1>4. /\ copula'.cliques = Listed(copula.tree, o) /\ copula'.walks = Walk(held, o)
      /\ copula'.separators = copula.separators /\ copula'.sample = copula.sample
  BY <1>2, <1>3, RelistedSame
<1>5. Walk(held, o) => Listed(copula.tree, o) = Listed(held, o)
  <2>1. CASE copula.tree = held
    BY <2>1
  <2>2. CASE copula.tree = NoTree /\ Walk(held, o)
    <3>1. Ids(NoTree) = {}
      BY DEF NoTree, Ids
    <3>2. Len(o) = 0
      BY <1>2, <2>2, <3>1, FS_EmptySet
    <3>3. DOMAIN o = {}
      BY <2>2, <3>2 DEF Walk
    <3> QED
      BY <3>3 DEF Listed
  <2> QED
    BY <1>3, <2>1, <2>2
<1>6. copula'.walks => DensityFits(copula', held.names)
  <2>1. Sound(held)
    BY DEF JoinInv
  <2> QED
    BY <1>3, <1>4, <1>5, <2>1, ListedFits
<1>7. copula'.walks /\ copula'.sample.own => DensityFits(copula', copula'.sample.columns)
  BY <1>3, <1>4, <1>6
<1> QED
  BY <1>1, <1>3, <1>4, <1>6, <1>7 DEF DensityInv

\* So does the order of a copula made with one.
LEMMA ConstructOrderedFits ==
  CopulaInv /\ DensityInv /\ ConstructOrdered => DensityInv'
<1> SUFFICES ASSUME CopulaInv, DensityInv, ConstructOrdered PROVE DensityInv'
  OBVIOUS
<1>1. PICK t \in Trees : \E s \in GivenSamples(t), k \in BinNumbers, empirical \in BOOLEAN,
                           o \in Orders(Ids(t)) :
        /\ copula' = [WithSample(Initialised(t, k), s, empirical) EXCEPT
                        !.cliques = Listed(t, o), !.walks = Walk(t, o)]
        /\ held' = t
  BY DEF ConstructOrdered
<1>2. PICK c, o : /\ DOMAIN c = Members /\ c.separators = Separators(t)
                  /\ copula' = Relisted(c, Listed(t, o), Walk(t, o))
  BY <1>1, MadeWith DEF Relisted
<1>3. /\ phase = "idle" /\ ~building.exists /\ ~saved.exists /\ held' = t
      /\ UNCHANGED <<phase, order, visit, tree, building, saved>>
  BY <1>1 DEF ConstructOrdered, Idle, treeVars, CopulaInv
<1>4. /\ copula'.cliques = Listed(t, o) /\ copula'.walks = Walk(t, o)
      /\ copula'.separators = Separators(t)
  BY <1>2, RelistedSame
<1>5. copula'.walks => DensityFits(copula', t.names)
  <2>1. Sound(t)
    BY CopulaAssumption DEF Sound
  <2> QED
    BY <1>4, <2>1, ListedFits
<1>6. copula'.exists /\ copula'.sample.own => copula'.sample.columns = t.names
  BY <1>3, ConstructOrderedSound DEF CopulaInv
<1>7. copula'.exists /\ copula'.walks /\ copula'.sample.own => DensityFits(copula', copula'.sample.columns)
  BY <1>5, <1>6
<1> QED
  BY <1>3, <1>4, <1>5, <1>7 DEF DensityInv

\* Every action of the session.
LEMMA StepFits == CopulaInv /\ JoinInv /\ DensityInv /\ [CopulaNext]_copulaVars => DensityInv'
<1> SUFFICES ASSUME CopulaInv, JoinInv, DensityInv, [CopulaNext]_copulaVars PROVE DensityInv'
  OBVIOUS
<1>1. CASE Construct
  <2>1. PICK t \in Trees : \E s \in GivenSamples(t), k \in BinNumbers, empirical \in BOOLEAN :
          /\ building' = WithSample(Initialised(t, k), s, empirical)
          /\ held' = t /\ CallGetOrder(t)
    BY <1>1 DEF Construct
  <2>2. /\ ~copula'.exists /\ ~saved'.exists /\ phase' = "order" /\ tree' = held'
        /\ order' = <<>> /\ visit' = {}
    BY <1>1, <2>1 DEF Construct, Idle, CallGetOrder, CopulaInv, DensityInv
  <2>3. building'.separators = Separators(t)
    BY <2>1, MadeWith
  <2> QED
    BY <2>1, <2>2, <2>3, StartSound DEF DensityInv
<1>2. CASE GetMarginal
  <2>1. PICK indices \in Seq(DOMAIN copula.tree.names) : CallGetMarginal(copula.tree, indices)
    BY <1>2 DEF GetMarginal
  <2>2. /\ phase = "idle" /\ phase' = "cliques" /\ UNCHANGED <<order, visit>>
        /\ UNCHANGED <<copula, building, held, origin, saved>>
    BY <1>2, <2>1 DEF GetMarginal, Idle, CallGetMarginal
  <2> QED
    BY <2>2 DEF DensityInv
<1>3. CASE GetMarginalBeyondTree
  BY <1>3 DEF GetMarginalBeyondTree, Idle, DensityInv
<1>4. CASE RejectIndices
  <2>1. /\ phase' = "idle" /\ order' = <<>> /\ visit' = {}
        /\ UNCHANGED <<copula, building, held, saved>>
    BY <1>4 DEF RejectIndices, Return
  <2> QED
    BY <2>1 DEF DensityInv
<1>5. CASE ConstructMarginal
  <2>1. /\ phase = "edges" /\ phase' = "order" /\ tree' = held' /\ UNCHANGED <<order, visit>>
        /\ held' = Marginal /\ UNCHANGED <<copula, saved>>
        /\ building' = WithSample(Initialised(Marginal, copula.bins), SampleMarginal(copula.sample), TRUE)
    BY <1>5 DEF ConstructMarginal, CallGetOrder, EdgesDone
  <2>2. building'.separators = Separators(held') /\ building'.exists
    <3> DEFINE m == Marginal
               s == SampleMarginal(copula.sample)
    <3>1. held' = m /\ \E k, empirical : building' = WithSample(Initialised(m, k), s, empirical)
      BY <2>1
    <3> HIDE DEF m, s
    <3> QED
      BY <3>1, MadeWith
  <2>3. order = <<>> /\ visit = {}
    BY <2>1 DEF DensityInv
  <2> HIDE DEF Marginal
  <2> QED
    BY <2>1, <2>2, <2>3, StartSound DEF DensityInv
<1>6. CASE SetCopulaSample
  <2>1. /\ copula.exists /\ phase = "idle" /\ ~building.exists /\ DOMAIN copula = Members
        /\ UNCHANGED <<phase, order, visit, tree, building, held, saved>>
    BY <1>6 DEF SetCopulaSample, Idle, treeVars, CopulaInv
  <2>2. PICK s \in GivenSamples(held), empirical \in BOOLEAN :
          copula' = WithSample(copula, s, empirical)
    BY <1>6 DEF SetCopulaSample
  <2>3. /\ copula'.cliques = copula.cliques /\ copula'.separators = copula.separators
        /\ copula'.walks = copula.walks /\ copula'.exists
    BY <2>1, <2>2, WithSampleTree
  <2>4. copula'.sample.own => copula'.sample.columns = held.names
    BY <1>6, <2>1, <2>3, SetCopulaSampleSound DEF CopulaInv
  <2>5. copula'.walks => DensityFits(copula', held.names)
    BY <2>1, <2>3, SameDensity DEF DensityInv
  <2>6. copula'.walks /\ copula'.sample.own => DensityFits(copula', copula'.sample.columns)
    BY <2>4, <2>5
  <2> QED
    BY <2>1, <2>3, <2>5, <2>6 DEF DensityInv
<1>7. CASE Save
  <2>1. /\ phase = "idle" /\ copula.exists /\ ~building.exists
        /\ saved'.held = held /\ saved'.members = Persistent(copula)
        /\ UNCHANGED <<phase, order, visit, tree, copula, building, held>>
    BY <1>7 DEF Save, Idle, treeVars, CopulaInv
  <2>2. /\ saved'.members.cliques = copula.cliques
        /\ saved'.members.separators = copula.separators
        /\ saved'.members.walks = copula.walks
    BY <2>1 DEF CopulaInv, Persistent, Members
  <2>3. copula.walks => DensityFits(saved'.members, held.names)
    BY <2>1, <2>2, SameDensity DEF DensityInv
  <2> QED
    BY <2>1, <2>2, <2>3 DEF DensityInv
<1>8. CASE Load
  <2>1. /\ phase = "idle" /\ saved.exists /\ held' = saved.held
        /\ copula' = [f \in DOMAIN saved.members \cup {"tree"} |->
                        IF f = "tree" THEN NoTree ELSE saved.members[f]]
        /\ UNCHANGED <<phase, order, visit, tree, building, saved>>
    BY <1>8 DEF Load, Idle, treeVars
  <2>2. ~building.exists /\ DOMAIN saved.members = Members \ {"tree"}
    BY <2>1 DEF CopulaInv
  <2>3. /\ copula'.cliques = saved.members.cliques
        /\ copula'.separators = saved.members.separators
        /\ copula'.walks = saved.members.walks
        /\ copula'.sample = saved.members.sample
    BY <2>1, <2>2 DEF Members
  <2>4. copula'.walks => DensityFits(copula', saved.held.names)
    BY <2>1, <2>3, SameDensity DEF DensityInv
  <2>5. copula'.sample.own => copula'.sample.columns = saved.held.names
    BY <2>1, <2>3 DEF CopulaInv
  <2>6. copula'.walks /\ copula'.sample.own => DensityFits(copula', copula'.sample.columns)
    BY <2>4, <2>5
  <2> QED
    BY <2>1, <2>2, <2>3, <2>4, <2>6 DEF DensityInv
<1>9. CASE UNCHANGED copulaVars
  BY <1>9 DEF copulaVars, treeVars, DensityInv
<1> QED
  BY <1>1, <1>2, <1>3, <1>4, <1>5, <1>6, <1>7, <1>8, <1>9, UseOrderFits, SetCliquesOrderFits,
     ConstructOrderedFits, TreeStepFits DEF CopulaNext

\* A copula whose cliques were listed by getOrderMaxFirst, or by any order of a
\* caller that walks the tree, draws from the density it evaluates: made,
\* marginalised, given other samples and orders, saved or loaded.
THEOREM SimulationFollowsDensity == CopulaSpec => []SimulatesItsDensity
<1>1. DensityInv => SimulatesItsDensity
  BY DEF DensityInv, DensityFits, SimulatesItsDensity
<1> QED
  BY CopulaInitSound, CopulaStepSound, InitJoined, StepJoined, InitFits, StepFits, <1>1, PTL
     DEF CopulaSpec
=============================================================================
