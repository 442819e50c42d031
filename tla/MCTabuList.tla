----------------------------- MODULE MCTabuList -----------------------------
(***************************************************************************)
(* Bounds: three variables, which is enough for a cycle that no single arc *)
(* closes on its own and for a reversal that another path forbids, and at  *)
(* most one or two parents.  The entropies are those of copulas (single    *)
(* variables have none): a pair loses 0, 2 or 3 units to dependence, the   *)
(* triple one unit more than its pairs together (a collider) or, when all  *)
(* pairs are dependent, one less (a chain), so that changes tie, gain, or  *)
(* just pay the penalty.  A second mode sees the sample differently, and   *)
(* sees less with the bins it uses for three variables than for two.  The  *)
(* learner may start from any DAG, within the limit of parents or past it, *)
(* so the variables may be ordered by the strengths of their pairs.        *)
(***************************************************************************)
EXTENDS TabuList

CONSTANTS a, b, c, Bernstein, Strengths

Pair == {S \in SUBSET Node : Cardinality(S) = 2}

\* Entropies from the strength w of each pair's dependence and that of the
\* triple.
FromStrengths(w, t) ==
  [S \in SUBSET Node |-> IF S \in Pair THEN -w[S]
                         ELSE IF Cardinality(S) = 3 THEN -t ELSE 0]

Total(w) == w[{a, b}] + w[{a, c}] + w[{b, c}]
AllDependent(w) == \A p \in Pair : w[p] > 0

MCK == [n \in 1..3 |-> IF n = 3 THEN 1 ELSE 2]

\* The strength left of w when it is seen with k bins.
Seen(w, k) == IF k = 1 /\ w > 0 THEN w - 1 ELSE w

MCEntropies ==
  {[m \in Modes |-> [k \in {1, 2} |->
      IF m = Gaussian THEN FromStrengths(w, Total(w) + x)
      ELSE FromStrengths([p \in Pair |-> Seen(3 - w[p], k)], 9 - Total(w))]] :
     <<w, x>> \in {<<v, y>> \in [Pair -> Strengths] \X {-1, 1} :
                     /\ v[{a, b}] <= v[{a, c}] /\ v[{a, c}] <= v[{b, c}]
                     /\ y = 1 \/ AllDependent(v)}}

MCInitialDAGs == {A \in SUBSET Arc : Acyclic(A)}
=============================================================================
