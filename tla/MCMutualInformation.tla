------------------------ MODULE MCMutualInformation ------------------------
(***************************************************************************)
(* Bounds: three variables, each of the three forms of question about      *)
(* them, two numbers of bins (one for questions of two variables, one for  *)
(* those of three) under which a pair has different entropies, and two     *)
(* values of alpha.                                                        *)
(***************************************************************************)
EXTENDS CorrectedMutualInformation

CONSTANTS a, b, c

MCK == [n \in 1..3 |-> IF n = 3 THEN 1 ELSE 2]

\* A different entropy for each set, model and number of bins.
Weight(S) == (IF a \in S THEN 1 ELSE 0) + (IF b \in S THEN 2 ELSE 0) + (IF c \in S THEN 4 ELSE 0)

MCEntropies ==
  {[m \in CModeTypes |-> [k \in {1, 2} |-> [S \in SUBSET Node |->
      IF m = "Gaussian" THEN -Weight(S) ELSE -10 * k * Weight(S)]]]}
=============================================================================
