----------------------------- MODULE Information -----------------------------
(***************************************************************************)
(* The information that CorrectedMutualInformation computes from the       *)
(* entropies of sets of variables.  The entropy of a set is a number of    *)
(* the sample, given by a copula fitted with a number k of bins; a table H *)
(* gives it as H[k][S].  A Gaussian copula has no bins: its table does not *)
(* depend on k.                                                            *)
(***************************************************************************)
EXTENDS Integers, FiniteSets

CONSTANTS
  Node,  \* the variables of the sample
  K      \* GetK: the number of bins, by the number of variables in question

ASSUME InformationAssumption ==
  /\ IsFiniteSet(Node)
  /\ K \in [1..Cardinality(Node) -> Nat]

Tables == [{K[n] : n \in DOMAIN K} -> [SUBSET Node -> Int]]

\* computeCrossEntropy: a single variable is uniform on its ranks.
Entropy(H, S, k) == IF Cardinality(S) > 1 THEN H[k][S] ELSE 0

\* compute2PtInformation of two sets, none of them empty.
SetInformation(H, X, Y) ==
  LET k == K[Cardinality(X) + Cardinality(Y)]
  IN  Entropy(H, X, k) + Entropy(H, Y, k) - Entropy(H, X \cup Y, k)

\* compute2PtInformation of two variables given a set.
PairInformation(H, x, y, U) ==
  LET k == K[Cardinality(U) + 2]
  IN  Entropy(H, U \cup {x}, k) + Entropy(H, U \cup {y}, k)
      - Entropy(H, U \cup {x, y}, k) - Entropy(H, U, k)

\* compute3PtInformation.
TripleInformation(H, x, y, z, U) ==
  LET k == K[Cardinality(U) + 3]
      h(S) == Entropy(H, U \cup S, k)
  IN  h({x}) + h({y}) + h({z}) - h({x, y}) - h({x, z}) - h({y, z}) + h({x, y, z}) - h({})
=============================================================================
