---------------------- MODULE ContinuousBayesianNetwork ----------------------
(***************************************************************************)
(* A ContinuousBayesianNetwork: built by ContinuousBayesianNetworkFactory  *)
(* on a given or a learned DAG, given other distributions by its caller,   *)
(* saved and loaded.  A copula is the list of the variables its components *)
(* stand for; a marginal is the variable it was estimated on.              *)
(***************************************************************************)
EXTENDS NamedDAG

CONSTANT Given  \* the DAGs a factory is given or learns, or a caller sets

ASSUME NetworkAssumption ==
  \A arcs \in Given : DOMAIN arcs \subseteq Node /\ arcs \in [DOMAIN arcs -> Lists]

VARIABLES
  network,   \* dag_, copulas_ and marginals_
  archive    \* what a study holds of a network

networkVars == <<network, archive>>

\* The network of the default constructor, on the DAG of no node.
Empty == [dag |-> BuildRepr(<<>>, <<>>), copulas |-> <<>>, marginals |-> <<>>]
Nothing == [exists |-> FALSE]

NetworkInit ==
  /\ network = Empty
  /\ archive = Nothing

\* The sample the copula of a node is estimated on: its parents, then itself.
Scope(dag, n) == Append(dag.parents[n], n)

\* The loop of buildAsContinuousBayesianNetwork over the nodes.
Learned(dag) ==
  [dag |-> dag,
   copulas |-> [n \in DOMAIN dag.parents |-> Scope(dag, n)],
   marginals |-> [n \in DOMAIN dag.parents |-> n]]

\* The NamedDAGs that were made of the given DAGs: the constructor throws on
\* ids with holes.
GivenDAGs == UNION {NamedDAGs(arcs) : arcs \in {a \in Given : Contiguous(a)}}

\* buildAsContinuousBayesianNetwork gives a new network.
Build ==
  /\ network = Empty
  /\ \E dag \in GivenDAGs : network' = Learned(dag)
  /\ UNCHANGED archive

\* The checks of setDAGAndMarginalsAndCopulas: one marginal and one copula per
\* node, and each copula of the dimension its node calls for.
Accepted(dag, copulas, marginals) ==
  /\ Cardinality(DOMAIN marginals) = Len(dag.order)
  /\ Cardinality(DOMAIN copulas) = Len(dag.order)
  /\ \A i \in DOMAIN dag.order :
       Len(copulas[dag.order[i]]) = Len(dag.parents[dag.order[i]]) + 1

\* A caller gives a DAG with the copulas and marginals of another, which do
\* not fit it: the call throws before anything is assigned.
Reject ==
  /\ \E dag \in GivenDAGs : ~Accepted(dag, network.copulas, network.marginals)
  /\ UNCHANGED networkVars

\* A caller gives a DAG with copulas of its own, the parents of each node in
\* the order getParents lists them.
SetDAGAndMarginalsAndCopulas ==
  /\ \E dag \in GivenDAGs :
       LET given == Learned(dag)
       IN  /\ Accepted(dag, given.copulas, given.marginals)
           /\ network' = given
  /\ UNCHANGED archive

SaveNetwork ==
  /\ ~archive.exists
  /\ archive' = [exists |-> TRUE, parents |-> Stored(network.dag),
                 copulas |-> network.copulas, marginals |-> network.marginals]
  /\ UNCHANGED network

\* load does not go through setDAGAndMarginalsAndCopulas: nothing is checked.
LoadNetwork ==
  /\ archive.exists
  /\ \E dag \in Reloaded(archive.parents) :
       network' = [dag |-> dag, copulas |-> archive.copulas, marginals |-> archive.marginals]
  /\ UNCHANGED archive

NetworkNext ==
  \/ Build \/ SetDAGAndMarginalsAndCopulas \/ Reject \/ SaveNetwork \/ LoadNetwork

NetworkSpec == NetworkInit /\ [][NetworkNext]_networkVars
-----------------------------------------------------------------------------
\* getRealization, computePDF and computeLogPDF: the variables whose values go
\* to the copula of a node, in this order.
Arguments(n) == Append(network.dag.parents[n], n)

\* getRealization and computePDF read, for the copula of a node, the values of
\* its parents in the order the DAG lists them now: that is the order its
\* components were made in, though hash sets were emptied and filled in
\* between, and the nodes drawn before it include all of them.
ComponentsMatch ==
  LET dag == network.dag
  IN  /\ DOMAIN network.copulas = DOMAIN dag.parents
      /\ \A n \in DOMAIN dag.parents : network.copulas[n] = Arguments(n)
      /\ \A i \in DOMAIN dag.order :
           ToSet(dag.parents[dag.order[i]]) \subseteq {dag.order[j] : j \in 1..i-1}
=============================================================================
