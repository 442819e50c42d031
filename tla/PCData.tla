-------------------------------- MODULE PCData --------------------------------
(***************************************************************************)
(* What the stages of the PC learner (ContinuousPC) share: the variables   *)
(* of the sample, the pairs of variables, and the result of testing a      *)
(* sample.                                                                 *)
(*                                                                         *)
(* The test statistic of a pair given a conditioning set is a fixed number *)
(* of the sample; getTTest computes it from Bernstein copula densities,    *)
(* which is outside the model.  A statistic is kept as a small integer t;  *)
(* 2 * pNormal(-|t|), which decreases in |t|, becomes Scale - |t|, so that *)
(* the two reported numbers stay tied as they are in the code.             *)
(***************************************************************************)
EXTENDS Integers, FiniteSets, MixedGraphs

CONSTANTS
  Node,        \* the variables of the sample
  MaxCondSet,  \* maxCondSet_: sizes 0 .. MaxCondSet - 1 are searched
  Alpha,       \* the threshold of the test, in ranks of p-value
  Scale        \* the rank of the p-value of t = 0

ASSUME PCAssumption ==
  /\ IsFiniteSet(Node)
  /\ MaxCondSet \in Nat
  /\ Scale \in Nat
  /\ Alpha \in 0..Scale

Edge == EdgesOver(Node)
Statistic == -Scale..Scale
Sample == [Edge -> [SUBSET Node -> Statistic]]

PValue(t) == Scale - (IF t < 0 THEN -t ELSE t)

\* Two variables that the test calls independent: p >= alpha.
Independent(t) == PValue(t) >= Alpha

\* The nodes of N adjacent to both ends of e in the graph g.
Common(g, e) == {w \in Node \ e : \A x \in e : {x, w} \in g}

\* The conditioning sets of size n that getSeparator enumerates.
Subsets(N, n) == {S \in SUBSET N : Cardinality(S) = n}
=============================================================================
