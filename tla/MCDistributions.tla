--------------------------- MODULE MCDistributions ---------------------------
(***************************************************************************)
(* Two sessions, one after the other: one with a Bayesian network, then,   *)
(* when its objects are gone, one with a junction tree copula.  They share *)
(* nothing, so that no order of their steps is lost.                       *)
(*                                                                         *)
(* Bounds, network: every DAG of three nodes, and of four where three are  *)
(* parents of one, in every order of insertion; nodes 0 and 2 of a hash    *)
(* set, and 3, share a bucket.  A DAG with a hole is refused.              *)
(*                                                                         *)
(* Bounds, copula: every junction tree on the cliques of a chain, a star,  *)
(* a chain of triples, and of two components where three cliques share a   *)
(* variable, so that an edge closes a cycle and is dropped; and one on two *)
(* cliques that share more than there are buckets for. Marginals on        *)
(* subsets in order, on one list out of order and one with an index given  *)
(* twice. Samples of one point, of full bins and of one point too many,    *)
(* over the variables of the tree, or over one more or fewer. Orders of    *)
(* the cliques that walk the tree and orders that do not.                  *)
(***************************************************************************)
EXTENDS ContinuousBayesianNetwork, JunctionTreeBernsteinCopula

VARIABLE scope  \* the session that runs
allVars == <<networkVars, copulaVars, scope>>

MCNode == 0..3
Slot(n) == IF n = 1 THEN 1 ELSE 0
MCListing ==
  [s \in Lists |-> SelectSeq(s, LAMBDA n : Slot(n) = 1) \o SelectSeq(s, LAMBDA n : Slot(n) = 0)]

FourNodes ==
  {[n \in 0..3 |-> IF n = 3 THEN s ELSE <<>>] : s \in {l \in Lists : Len(l) = 3 /\ 3 \notin ToSet(l)}}
MCGiven == DAGs(0..2) \cup FourNodes \cup {[n \in {0, 2} |-> <<>>]}

Shapes == {
  <<{1, 2}, {2, 3}, {3, 4}>>,
  <<{1, 2, 3}, {3, 4}, {2, 5}>>,
  <<{1, 2, 3}, {2, 3, 4}, {3, 4, 5}>>,
  <<{1, 2}, {1, 3}, {1, 4}, {5}>>,
  <<{1, 2, 3, 4}, {2, 3, 4, 5}>>}
Names == <<"a", "b", "c", "d", "e">>

TreesOf(shape) ==
  {t \in [names : {SubSeq(Names, 1, Cardinality(UNION ToSet(shape)))}, clique : {shape},
          edge : SUBSET {{c, d} : c, d \in DOMAIN shape}] : JunctionTree(t)}
MCTrees == UNION {TreesOf(shape) : shape \in Shapes}

MCIndices(n) ==
  {SetToSortSeq(I, <) : I \in SUBSET (1..n) \ {{}}}
    \cup {<<n, 1>>} \cup (IF n > 2 THEN {<<n, 2, n - 1>>, <<1, 3, 1>>} ELSE {})

\* The names of the tree, and one more or, where there are five, one fewer.
MCColumns(names) ==
  {names, IF Len(names) = Len(Names) THEN Front(names) ELSE Append(names, "z")}

\* In ascending order and in others, some of them walks of the tree; with a node
\* twice, with one the tree does not have, and of a wrong size.
MCOrders(ids) ==
  LET s == SetToSortSeq(ids, <)
  IN  {s, Tail(s), <<>>, <<Head(s)>> \o Reverse(Tail(s)),
       Append(Front(s), Head(s)), <<Head(s)>> \o [i \in DOMAIN Tail(s) |-> 0]}

MCInit == NetworkInit /\ CopulaInit /\ scope = "network"

\* The network and what was saved of it are gone.
CloseNetwork ==
  /\ scope = "network"
  /\ network' = Empty
  /\ archive' = Nothing
  /\ scope' = "copula"
  /\ UNCHANGED copulaVars

\* A session that saved its copula ends and another begins by loading it.
Restarted == Idle /\ saved.exists /\ copula.tree # NoTree => Load

\* A copula whose order does not walk its tree is given no columns but the
\* tree's, and no marginal is taken of it: getMarginal does not read the order.
OneOddity ==
  /\ copula'.exists => copula'.sample.own \/ copula'.walks
  /\ phase' = "cliques" => copula.walks

\* After undefined behaviour nothing can be said.
Lost == phase = "undefined" /\ UNCHANGED allVars

MCNext ==
  \/ scope = "network" /\ NetworkNext /\ UNCHANGED <<copulaVars, scope>>
  \/ CloseNetwork
  \/ scope = "copula" /\ CopulaNext /\ Restarted /\ OneOddity /\ UNCHANGED <<networkVars, scope>>
  \/ Lost

MCSpec == MCInit /\ [][MCNext]_allVars /\ WF_allVars(InCall /\ MCNext)
=============================================================================
