------------------------------- MODULE StablePC -------------------------------
(***************************************************************************)
(* What the skeleton search of ContinuousPC promises: at each size n, the  *)
(* edges that go are exactly those whose ends are independent given some   *)
(* set of n of the neighbours the two had in common when size n began.     *)
(* Nothing here depends on the order in which edges or conditioning sets   *)
(* are visited: the skeleton is a function of the sample.                  *)
(***************************************************************************)
EXTENDS PCData

CONSTANT Samples  \* the samples under study

VARIABLES
  sample,  \* the results of the tests
  graph,   \* the edges left
  size     \* the size of the conditioning sets to try next

vars == <<sample, graph, size>>

Separable(e, n) ==
  \E S \in Subsets(Common(graph, e), n) : Independent(sample[e][S])

Init ==
  /\ sample \in Samples
  /\ graph = Edge
  /\ size = 0

Sweep ==
  /\ size < MaxCondSet
  /\ graph' = {e \in graph : ~Separable(e, size)}
  /\ size' = size + 1
  /\ UNCHANGED sample

Spec == Init /\ [][Sweep]_vars
=============================================================================
