--------------------- MODULE CorrectedMutualInformation ---------------------
(***************************************************************************)
(* CorrectedMutualInformation: answers questions of information about a    *)
(* sample under a copula model (cmode_), a correction (kmode_) and its     *)
(* strength (alpha_), all of which may change between two questions.  The  *)
(* entropies it needs are kept in HCache_, under a key that holds the      *)
(* number of bins in Bernstein mode only.                                  *)
(***************************************************************************)
EXTENDS Information

CONSTANTS
  Entropies,  \* the samples under study: a table for each copula model
  Alphas      \* the values setAlpha is called with

CModeTypes == {"Gaussian", "Bernstein"}
KModeTypes == {"NoCorr", "Naive"}

\* Without bins, the table of the Gaussian copula is the same for any k.
ASSUME CMIAssumption ==
  /\ Entropies \subseteq [CModeTypes -> Tables]
  /\ \A H \in Entropies, m, n \in DOMAIN K : H["Gaussian"][K[m]] = H["Gaussian"][K[n]]
  /\ Alphas \subseteq Int

VARIABLES
  entropy,  \* the entropies of the sample
  cmode,    \* cmode_
  kmode,    \* kmode_
  alpha,    \* alpha_
  hcache,   \* HCache_
  answer    \* the last question under the present settings, and its answer

vars == <<entropy, cmode, kmode, alpha, hcache, answer>>

\* The questions: of two variables given U, of three given U, of two sets (an
\* empty one is answered 0 without a look at the cache).
Question ==
  {q \in [form : {"pair"}, x : Node, y : Node, U : SUBSET Node] :
     q.x # q.y /\ q.U \cap {q.x, q.y} = {}} \cup
  {q \in [form : {"triple"}, x : Node, y : Node, z : Node, U : SUBSET Node] :
     q.x # q.y /\ q.z \notin {q.x, q.y} /\ q.U \cap {q.x, q.y, q.z} = {}} \cup
  {q \in [form : {"sets"}, X : (SUBSET Node) \ {{}}, Y : (SUBSET Node) \ {{}}] :
     q.X \cap q.Y = {}}

NoAnswer == [q |-> [form |-> "none"], value |-> 0]

Bins(q) ==
  CASE q.form = "pair" -> K[Cardinality(q.U) + 2]
    [] q.form = "triple" -> K[Cardinality(q.U) + 3]
    [] q.form = "sets" -> K[Cardinality(q.X) + Cardinality(q.Y)]

\* The sets whose entropies enter the answer.
Terms(q) ==
  CASE q.form = "pair" -> {q.U \cup T : T \in SUBSET {q.x, q.y}}
    [] q.form = "triple" -> {q.U \cup T : T \in SUBSET {q.x, q.y, q.z}}
    [] q.form = "sets" -> {q.X, q.Y, q.X \cup q.Y}

\* The answer from a table of entropies, before correction.
Raw(T, q) ==
  CASE q.form = "pair" -> PairInformation(T, q.x, q.y, q.U)
    [] q.form = "triple" -> TripleInformation(T, q.x, q.y, q.z, q.U)
    [] q.form = "sets" -> SetInformation(T, q.X, q.Y)

\* Mutant: the number of bins is left out of the key.
GetKeyNoBins(mode, S, k) == <<S>>

\* GetKey: the variables are sorted, so the key is that of their set.
GetKey(mode, S, k) == IF mode = "Gaussian" THEN <<S>> ELSE <<S, k>>

\* HCache_ after the question: what it had, and what computeCrossEntropy had
\* to add; it answers 0 at once for less than two variables.
Filled(q) ==
  LET keys == {GetKey(cmode, S, Bins(q)) : S \in {T \in Terms(q) : Cardinality(T) > 1}}
  IN  [key \in DOMAIN hcache \cup keys |->
         IF key \in DOMAIN hcache THEN hcache[key] ELSE entropy[cmode][Bins(q)][key[1]]]

\* The table of entropies that the cache c holds for the question.
Held(c, q) ==
  [k \in {Bins(q)} |->
     [S \in {T \in Terms(q) : Cardinality(T) > 1} |-> c[GetKey(cmode, S, k)]]]

\* compute2PtPenalty and compute3PtPenalty.
Penalty(q) ==
  IF kmode = "NoCorr" THEN 0
  ELSE IF q.form = "triple" THEN -alpha ELSE alpha

Init ==
  /\ entropy \in Entropies
  /\ cmode = "Bernstein"
  /\ kmode = "Naive"
  /\ alpha \in Alphas
  /\ hcache = <<>>
  /\ answer = NoAnswer

SetCMode(m) ==
  /\ hcache' = <<>>
  /\ cmode' = m
  /\ answer' = NoAnswer
  /\ UNCHANGED <<entropy, kmode, alpha>>

SetKMode(m) ==
  /\ hcache' = <<>>
  /\ kmode' = m
  /\ answer' = NoAnswer
  /\ UNCHANGED <<entropy, cmode, alpha>>

\* The entropies do not depend on alpha and are kept.
SetAlpha(v) ==
  /\ alpha' = v
  /\ answer' = NoAnswer
  /\ UNCHANGED <<entropy, cmode, kmode, hcache>>

\* The three forms of compute2PtCorrectedInformation and
\* compute3PtCorrectedInformation.
Compute(q) ==
  /\ hcache' = Filled(q)
  /\ answer' = [q |-> q, value |-> Raw(Held(hcache', q), q) - Penalty(q)]
  /\ UNCHANGED <<entropy, cmode, kmode, alpha>>

Next ==
  \/ \E m \in CModeTypes : SetCMode(m)
  \/ \E m \in KModeTypes : SetKMode(m)
  \/ \E v \in Alphas : SetAlpha(v)
  \/ \E q \in Question : Compute(q)

Spec == Init /\ [][Next]_vars
-----------------------------------------------------------------------------
\* The type of every variable: in particular, each key of HCache_ is one that
\* GetKey makes in the present mode.
TypeOK ==
  /\ entropy \in Entropies
  /\ cmode \in CModeTypes
  /\ kmode \in KModeTypes
  /\ alpha \in Alphas
  /\ \A key \in DOMAIN hcache :
        /\ \E n \in DOMAIN K, S \in SUBSET Node : key = GetKey(cmode, S, K[n])
        /\ hcache[key] \in Int
  /\ answer.value \in Int

\* Whatever was asked and changed before, in any order, an answer is the
\* information of the sample under the present copula model with the present
\* number of bins, corrected as the present settings say: the cache never
\* hands out an entropy of another model or of other bins.
AnswersCurrent ==
  answer # NoAnswer =>
     answer.value = Raw(entropy[cmode], answer.q)
                    - (CASE kmode = "NoCorr" -> 0
                         [] kmode = "Naive" /\ answer.q.form # "triple" -> alpha
                         [] kmode = "Naive" /\ answer.q.form = "triple" -> -alpha)
=============================================================================
