------------------------------- MODULE TabuList -------------------------------
(***************************************************************************)
(* The score-based learner TabuList: from the initial DAG and then from    *)
(* random ones, single arc changes are applied for as long as the best one *)
(* that is not tabu improves the BIC score; the best DAG met is returned.  *)
(*                                                                         *)
(* The score is computed from the entropies of sets of variables, which    *)
(* depend on the copula model (the CMode of CorrectedMutualInformation)    *)
(* and are outside the model: the table entropy[m] holds the size of the   *)
(* sample times each entropy under mode m, as an integer.  Both            *)
(* constructors select the mode without correction of the information.     *)
(***************************************************************************)
EXTENDS Information, Sequences, Functions, MixedGraphs

CONSTANTS
  ParentLimits, \* the values of max_parents under study
  Restarts,     \* restarts_
  TabuSize,     \* tabu_list_size_
  Word,         \* OT::UnsignedInteger counts modulo Word
  Penalty,      \* half the logarithm of the size of the sample
  Modes,        \* the copula models
  Gaussian,     \* the one the constructors select
  Entropies,    \* the samples under study
  InitialDAGs,  \* the DAGs the learner may be given
  MaxSwitches   \* bound: calls of setCMode

Arc == ArcsOver(Node)

\* The graphs over the variables with at most k parents to a node: those that
\* randomDAG builds.
LegalDAG(A, k) ==
  /\ A \subseteq Arc
  /\ Acyclic(A)
  /\ \A y \in Node : Cardinality(Parents(A, y)) <= k

\* The arcs of A into nodes with more than k parents.
Excess(A, k) == {a \in A : Cardinality(Parents(A, a[2])) > k}

ASSUME TabuAssumption ==
  /\ ParentLimits \subseteq Nat /\ Restarts \in Nat /\ TabuSize \in Nat
  /\ Word \in Nat \ {0} /\ Restarts < Word
  /\ Penalty \in Int
  /\ Gaussian \in Modes
  /\ Entropies \subseteq [Modes -> Tables]
  /\ \A A \in InitialDAGs : A \subseteq Arc /\ Acyclic(A)
  /\ MaxSwitches \in Nat

VARIABLES
  entropy,    \* the entropies of the sample
  excess,     \* where the DAG it was given is past the limit (history)
  maxParents, \* max_parents_
  cmode,      \* the mode of info_
  dag,        \* the DAG of the running tabuListAlgo
  score,      \* and its score
  tabu,       \* tabu_list_, latest change first
  bestDag,    \* best_dag_
  bestScore,  \* best_score_
  restart,    \* the counter of the loop of restarts
  phase,      \* "idle", "climb" (in tabuListAlgo), "loop" (between two runs)
  dagDone,    \* dag_done_
  switches    \* calls of setCMode so far

vars == <<entropy, excess, maxParents, cmode, dag, score, tabu, bestDag, bestScore, restart,
          phase, dagDone, switches>>

Change == [type : {"addition", "deletion", "reversal"}, arc : Arc]
Addition(a) == [type |-> "addition", arc |-> a]
Deletion(a) == [type |-> "deletion", arc |-> a]
Reversal(a) == [type |-> "reversal", arc |-> a]
Flip(a) == <<a[2], a[1]>>

\* compute2PtCorrectedInformation, without correction.
Info(H, y, P) == IF P = {} THEN 0 ELSE SetInformation(H, {y}, P)

\* Mutant: an arc costs nothing.
DeltaAdditionFree(H, A, a) ==
  LET P == Parents(A, a[2])
  IN  Info(H, a[2], P \cup {a[1]}) - Info(H, a[2], P)

DeltaAddition(H, A, a) ==
  LET P == Parents(A, a[2])
  IN  Info(H, a[2], P \cup {a[1]}) - Info(H, a[2], P) - Penalty

DeltaDeletion(H, A, a) ==
  LET P == Parents(A, a[2])
  IN  Info(H, a[2], P \ {a[1]}) - Info(H, a[2], P) + Penalty

\* Mutant: the arc is scored as new without the loss of the old one.
DeltaReversalHalf(H, A, a) ==
  LET PX == Parents(A, a[1])
  IN  Info(H, a[1], PX \cup {a[2]}) - Info(H, a[1], PX)

DeltaReversal(H, A, a) ==
  LET PX == Parents(A, a[1])
      PY == Parents(A, a[2])
  IN  Info(H, a[1], PX \cup {a[2]}) + Info(H, a[2], PY \ {a[1]})
      - Info(H, a[1], PX) - Info(H, a[2], PY)

Delta(H, A, c) ==
  CASE c.type = "addition" -> DeltaAddition(H, A, c.arc)
    [] c.type = "deletion" -> DeltaDeletion(H, A, c.arc)
    [] c.type = "reversal" -> DeltaReversal(H, A, c.arc)

\* computeScore: the arcs are added one by one to an empty DAG.
ComputeScore(H, A) ==
  LET add(a, acc) == [arcs |-> acc.arcs \cup {a},
                      score |-> acc.score + DeltaAddition(H, acc.arcs, a)]
  IN  MapThenFoldSet(add, [arcs |-> {}, score |-> 0],
                     LAMBDA a : a, LAMBDA S : CHOOSE a \in S : TRUE, A).score

HasRoom(A, y) == Cardinality(Parents(A, y)) < maxParents

\* Mutant: a reversal does not look at the parents of its new head.
ReversalsUncounted(A) ==
  {Reversal(a) : a \in {b \in A : ~DirectedPath(A \ {b}, b[1], b[2])}}

\* The changes that findLegalChanges and findBestChange consider.
Additions(A) ==
  {Addition(a) : a \in {b \in Arc \ A : ~DirectedPath(A, b[2], b[1]) /\ HasRoom(A, b[2])}}
Deletions(A) == {Deletion(a) : a \in A}
Reversals(A) ==
  {Reversal(a) : a \in {b \in A : ~DirectedPath(A \ {b}, b[1], b[2]) /\ HasRoom(A, b[1])}}
LegalChanges(A) == Additions(A) \cup Deletions(A) \cup Reversals(A)

Apply(A, c) ==
  CASE c.type = "addition" -> A \cup {c.arc}
    [] c.type = "deletion" -> A \ {c.arc}
    [] c.type = "reversal" -> (A \ {c.arc}) \cup {Flip(c.arc)}

\* The change that would undo c.
Undo(c) ==
  CASE c.type = "addition" -> Deletion(c.arc)
    [] c.type = "deletion" -> Addition(c.arc)
    [] c.type = "reversal" -> Reversal(Flip(c.arc))

\* Mutant: the list is never shortened.
PushOnly(l, c) == <<c>> \o l

\* addElementTabuList: popBack does nothing to an empty list.
PushTabu(l, c) ==
  <<c>> \o (IF Len(l) = TabuSize /\ l # <<>> THEN SubSeq(l, 1, Len(l) - 1) ELSE l)

InTabu(c) == \E i \in DOMAIN tabu : tabu[i] = c

Candidates == {c \in LegalChanges(dag) : ~InTabu(c)}

\* Both constructors; they compare the DAG they are given with nothing, and
\* not with max_parents_.
Init ==
  /\ entropy \in Entropies
  /\ cmode = Gaussian
  /\ maxParents \in ParentLimits
  /\ bestDag \in InitialDAGs
  /\ excess = Excess(bestDag, maxParents)
  /\ bestScore = ComputeScore(entropy[Gaussian], bestDag)
  /\ dag = {} /\ score = 0 /\ tabu = <<>>
  /\ restart = 0 /\ phase = "idle" /\ dagDone = FALSE /\ switches = 0

SetCMode(m) ==
  /\ phase = "idle"
  /\ switches < MaxSwitches
  /\ cmode' = m
  /\ switches' = switches + 1
  /\ UNCHANGED <<entropy, excess, maxParents, dag, score, tabu, bestDag, bestScore, restart, phase, dagDone>>

\* The entry of tabuListAlgo.
StartClimb(A) ==
  /\ dag' = A
  /\ score' = ComputeScore(entropy[cmode], A)
  /\ tabu' = <<>>
  /\ phase' = "climb"

\* The first run of learnDAG; once dag_done_ is set, learnDAG only returns.
LearnDAG ==
  /\ phase = "idle"
  /\ ~dagDone
  /\ StartClimb(bestDag)
  /\ restart' = 0
  /\ UNCHANGED <<entropy, excess, maxParents, cmode, bestDag, bestScore, dagDone, switches>>

\* One turn of the loop of tabuListAlgo: a change of largest gain, if it
\* improves; among equal ones the queue may give any.
Climb(c) ==
  /\ phase = "climb"
  /\ c \in Candidates
  /\ Delta(entropy[cmode], dag, c) > 0
  /\ \A d \in Candidates : Delta(entropy[cmode], dag, d) <= Delta(entropy[cmode], dag, c)
  /\ dag' = Apply(dag, c)
  /\ score' = score + Delta(entropy[cmode], dag, c)
  /\ tabu' = PushTabu(tabu, Undo(c))
  /\ UNCHANGED <<entropy, excess, maxParents, cmode, bestDag, bestScore, restart, phase, dagDone, switches>>

\* Mutant: the DAG of the last run replaces the best one.
ConvergeLast ==
  /\ phase = "climb"
  /\ \A c \in Candidates : Delta(entropy[cmode], dag, c) <= 0
  /\ bestDag' = dag
  /\ bestScore' = IF score > bestScore THEN score ELSE bestScore
  /\ phase' = "loop"
  /\ UNCHANGED <<entropy, excess, maxParents, cmode, dag, score, tabu, restart, dagDone, switches>>

\* No change improves: tabuListAlgo returns and updateBest is called.
Converge ==
  /\ phase = "climb"
  /\ \A c \in Candidates : Delta(entropy[cmode], dag, c) <= 0
  /\ IF score > bestScore
     THEN bestScore' = score /\ bestDag' = dag
     ELSE UNCHANGED <<bestScore, bestDag>>
  /\ phase' = "loop"
  /\ UNCHANGED <<entropy, excess, maxParents, cmode, dag, score, tabu, restart, dagDone, switches>>

\* i < restarts_ - 1, in unsigned arithmetic.
MoreRestarts == restart < (Restarts - 1) % Word

\* Mutant: the loop forgets to count.
RestartUncounted ==
  /\ phase = "loop"
  /\ MoreRestarts
  /\ \E A \in SUBSET Arc : LegalDAG(A, maxParents) /\ StartClimb(A)
  /\ UNCHANGED <<restart, entropy, excess, maxParents, cmode, bestDag, bestScore, dagDone, switches>>

\* A run from randomDAG: fifty random legal changes from the empty DAG, which
\* can end on any DAG that respects the limits.
Restart ==
  /\ phase = "loop"
  /\ MoreRestarts
  /\ \E A \in SUBSET Arc : LegalDAG(A, maxParents) /\ StartClimb(A)
  /\ restart' = restart + 1
  /\ UNCHANGED <<entropy, excess, maxParents, cmode, bestDag, bestScore, dagDone, switches>>

Finish ==
  /\ phase = "loop"
  /\ ~MoreRestarts
  /\ dagDone' = TRUE
  /\ phase' = "idle"
  /\ UNCHANGED <<entropy, excess, maxParents, cmode, dag, score, tabu, bestDag, bestScore, restart, switches>>

Learning ==
  \/ LearnDAG
  \/ \E c \in Change : Climb(c)
  \/ Converge
  \/ Restart
  \/ Finish

Next == Learning \/ \E m \in Modes : SetCMode(m)

\* learnDAG is one call: once entered it runs to its end.
Fairness == WF_vars(phase # "idle" /\ Learning)

Spec == Init /\ [][Next]_vars /\ Fairness
-----------------------------------------------------------------------------
\* The type of every variable; the tabu list never outgrows its size, but for
\* size zero: an empty list has nothing to give up, so that it is only then
\* that every change is kept (addElementTabuList tests for equality).
TypeOK ==
  /\ entropy \in Entropies
  /\ excess \subseteq Arc
  /\ maxParents \in ParentLimits
  /\ cmode \in Modes
  /\ dag \subseteq Arc /\ bestDag \subseteq Arc
  /\ score \in Int /\ bestScore \in Int
  /\ tabu \in Seq(Change)
  /\ TabuSize # 0 => Len(tabu) <= TabuSize
  /\ restart \in 0..Word-1
  /\ phase \in {"idle", "climb", "loop"}
  /\ dagDone \in BOOLEAN
  /\ switches \in 0..MaxSwitches

\* A DAG in which a node has more parents than the limit only if it had all of
\* them, and too many, in the DAG given.
WithinLimit(A) ==
  /\ A \subseteq Arc
  /\ Acyclic(A)
  /\ \A y \in Node : \/ Cardinality(Parents(A, y)) <= maxParents
                     \/ Parents(A, y) \subseteq Parents(excess, y)

\* No sequence of additions, deletions and reversals, from any start, closes
\* a cycle or takes a node past max_parents_; a node that the caller's DAG has
\* past it only loses parents until it is back.
StaysLegal == WithinLimit(dag) /\ WithinLimit(bestDag)

\* The definition of the score: each node's information on its parents, less
\* the penalty of each arc.
BIC(H, A) ==
  SumFunction([y \in Node |-> Info(H, y, Parents(A, y))]) - Penalty * Cardinality(A)

\* The score carried along by the deltas of single changes is that of the DAG
\* at hand; and as long as the mode is that of the constructor, so is the
\* score kept with the best DAG.
ScoreIsBIC ==
  /\ phase # "idle" => score = BIC(entropy[cmode], dag)
  /\ switches = 0 => bestScore = BIC(entropy[cmode], bestDag)

\* Every change of a run improves the score of the DAG, so none is met twice.
RunImproves ==
  [][phase = "climb" /\ phase' = "climb" =>
       BIC(entropy[cmode], dag') > BIC(entropy[cmode], dag)]_vars

\* As long as the mode does not change, no step of the learner makes the best
\* DAG worse, and none of its runs ends on a better one than it keeps.
BestIsBest ==
  [][switches' = 0 =>
       /\ BIC(entropy[cmode], bestDag') >= BIC(entropy[cmode], bestDag)
       /\ phase' = "loop" =>
            BIC(entropy[cmode], bestDag') >= BIC(entropy[cmode], dag)]_vars

\* learnDAG returns.
LearnTerminates == phase = "climb" ~> dagDone

\* The documentation of getBestScore, "Returns the final score value": when
\* learning ends, the score reported is that of the DAG returned, under the
\* copula model that learnDAG used.
ReportedScoreIsCurrent ==
  [][dagDone' /\ ~dagDone => bestScore' = BIC(entropy[cmode], bestDag')]_vars

\* The documentation of restarts, "Number of random restarts".
RestartsRespected == restart <= Restarts
=============================================================================
