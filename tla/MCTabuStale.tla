----------------------------- MODULE MCTabuStale -----------------------------
(***************************************************************************)
(* The learner of MCTabuList with one call of setCMode, asked for the      *)
(* score it reports.  Two variables are enough: they are dependent under   *)
(* one copula model and not under the other.                               *)
(***************************************************************************)
EXTENDS TabuList

CONSTANTS a, b, Bernstein

MCK == [n \in 1..2 |-> 1]
MCEntropies ==
  {[m \in Modes |-> [k \in {1} |-> [S \in SUBSET Node |->
     IF S = Node /\ m = Gaussian THEN -3 ELSE 0]]]}

MCInitialDAGs == {{}, {<<a, b>>}}
=============================================================================
