-------------------------- MODULE InformationProofs --------------------------
(***************************************************************************)
(* The cache of CorrectedMutualInformation never changes an answer, for    *)
(* every sample and every sequence of questions and of changes of the      *)
(* settings.  The inductive invariant says that a key in the cache holds   *)
(* the entropy the present model gives; for a Gaussian key, which leaves   *)
(* out the bins, this is where it matters that they do not count.          *)
(***************************************************************************)
EXTENDS CorrectedMutualInformation, FiniteSetTheorems, TLAPS

Settings ==
  /\ entropy \in Entropies
  /\ cmode \in CModeTypes
  /\ kmode \in KModeTypes

\* What the cache holds is what would be computed now.
CacheSound ==
  \A n \in DOMAIN K, S \in SUBSET Node :
     GetKey(cmode, S, K[n]) \in DOMAIN hcache =>
       hcache[GetKey(cmode, S, K[n])] = entropy[cmode][K[n]][S]

IndInv == Settings /\ CacheSound /\ AnswersCurrent

\* Two variables outside a set leave room for two more in it.
LEMMA PairBins ==
  ASSUME NEW U \in SUBSET Node, NEW x \in Node, NEW y \in Node, x # y, x \notin U, y \notin U
  PROVE  /\ Cardinality(U) \in Nat /\ IsFiniteSet(U \cup {x} \cup {y})
         /\ Cardinality(U \cup {x} \cup {y}) = Cardinality(U) + 2
         /\ Cardinality(U) + 2 \in 1..Cardinality(Node)
<1>0. IsFiniteSet(Node) /\ Cardinality(Node) \in Nat
  BY InformationAssumption, FS_CardinalityType
<1>1. IsFiniteSet(U) /\ Cardinality(U) \in Nat
  BY <1>0, FS_Subset, FS_CardinalityType
<1>2. IsFiniteSet(U \cup {x}) /\ Cardinality(U \cup {x}) = Cardinality(U) + 1
  BY <1>1, FS_AddElement
<1>3. /\ IsFiniteSet(U \cup {x} \cup {y})
      /\ Cardinality(U \cup {x} \cup {y}) = Cardinality(U) + 2
  <2> DEFINE V == U \cup {x}
  <2>1. y \notin V
    OBVIOUS
  <2>2. IsFiniteSet(V) /\ Cardinality(V) = Cardinality(U) + 1
    BY <1>2
  <2> HIDE DEF V
  <2>3. IsFiniteSet(V \cup {y}) /\ Cardinality(V \cup {y}) = Cardinality(V) + 1
    BY <2>1, <2>2, FS_AddElement
  <2> QED
    BY <1>1, <2>2, <2>3 DEF V
<1>4. Cardinality(U \cup {x} \cup {y}) <= Cardinality(Node)
  BY <1>0, FS_Subset
<1> QED
  BY <1>0, <1>1, <1>3, <1>4

\* Three variables outside a set leave room for three more in it.
LEMMA TripleBins ==
  ASSUME NEW q \in Question, q.form = "triple"
  PROVE  /\ Cardinality(q.U) + 2 \in DOMAIN K
         /\ Cardinality(q.U) + 3 \in DOMAIN K
<1>0. IsFiniteSet(Node) /\ Cardinality(Node) \in Nat /\ DOMAIN K = 1..Cardinality(Node)
  BY InformationAssumption, FS_CardinalityType
<1>1. /\ q.U \in SUBSET Node /\ q.x \in Node /\ q.y \in Node /\ q.z \in Node
      /\ q.x # q.y /\ q.x # q.z /\ q.y # q.z
      /\ q.x \notin q.U /\ q.y \notin q.U /\ q.z \notin q.U
  BY DEF Question
<1> DEFINE V == q.U \cup {q.x} \cup {q.y}
<1>2. Cardinality(q.U) \in Nat /\ IsFiniteSet(V) /\ Cardinality(V) = Cardinality(q.U) + 2
  BY <1>1, PairBins
<1>3. Cardinality(V \cup {q.z}) = Cardinality(V) + 1
  <2>1. q.z \notin V
    BY <1>1
  <2> HIDE DEF V
  <2> QED
    BY <1>2, <2>1, FS_AddElement
<1>4. Cardinality(V \cup {q.z}) <= Cardinality(Node)
  BY <1>0, <1>1, FS_Subset
<1> QED
  BY <1>0, <1>2, <1>3, <1>4

\* The number of bins of a question is that of some number of variables.
LEMMA BinsKnown ==
  ASSUME NEW q \in Question
  PROVE  \E n \in DOMAIN K : Bins(q) = K[n]
<1>0. IsFiniteSet(Node) /\ Cardinality(Node) \in Nat /\ DOMAIN K = 1..Cardinality(Node)
  BY InformationAssumption, FS_CardinalityType
<1> DEFINE N == Cardinality(Node)
<1>2. CASE q.form = "pair"
  <2>1. /\ q.U \in SUBSET Node /\ q.x \in Node /\ q.y \in Node
        /\ q.x # q.y /\ q.x \notin q.U /\ q.y \notin q.U
    BY <1>2 DEF Question
  <2> QED
    BY <1>0, <1>2, <2>1, PairBins DEF Bins
<1>3. CASE q.form = "triple"
  BY <1>3, TripleBins DEF Bins
<1>4. CASE q.form = "sets"
  <2>1. /\ q.X \in SUBSET Node /\ q.Y \in SUBSET Node
        /\ q.X # {} /\ q.X \cap q.Y = {}
    BY <1>4 DEF Question
  <2>2. /\ IsFiniteSet(q.X) /\ Cardinality(q.X) \in Nat /\ Cardinality(q.X) # 0
        /\ IsFiniteSet(q.Y) /\ Cardinality(q.Y) \in Nat
    BY <1>0, <2>1, FS_Subset, FS_CardinalityType, FS_EmptySet
  <2>3. Cardinality(q.X \cup q.Y) = Cardinality(q.X) + Cardinality(q.Y)
    <3>1. Cardinality(q.X \cap q.Y) = 0
      BY <2>1, FS_EmptySet
    <3>2. Cardinality(q.X \cup q.Y)
            = Cardinality(q.X) + Cardinality(q.Y) - Cardinality(q.X \cap q.Y)
      BY ONLY <2>2, FS_Union
    <3> QED
      BY <2>2, <3>1, <3>2
  <2>4. Cardinality(q.X \cup q.Y) <= N
    BY <1>0, <2>1, FS_Subset
  <2> QED
    BY <1>0, <1>4, <2>2, <2>3, <2>4 DEF Bins
<1> QED
  BY <1>2, <1>3, <1>4 DEF Question

\* The sets in question are sets of variables.
LEMMA TermsTyped ==
  ASSUME NEW q \in Question
  PROVE  Terms(q) \subseteq SUBSET Node
BY DEF Question, Terms

\* A question leaves only sound entropies in the cache.
LEMMA FilledSound ==
  ASSUME Settings, CacheSound, NEW q \in Question, hcache' = Filled(q),
         UNCHANGED <<entropy, cmode>>
  PROVE  CacheSound'
<1> DEFINE big == {T \in Terms(q) : Cardinality(T) > 1}
           keys == {GetKey(cmode, S, Bins(q)) : S \in big}
<1>1. PICK m \in DOMAIN K : Bins(q) = K[m]
  BY BinsKnown
<1>2. hcache' = [key \in DOMAIN hcache \cup keys |->
         IF key \in DOMAIN hcache THEN hcache[key] ELSE entropy[cmode][Bins(q)][key[1]]]
  BY DEF Filled
<1> SUFFICES ASSUME NEW n \in DOMAIN K, NEW S \in SUBSET Node,
                    GetKey(cmode, S, K[n]) \in DOMAIN hcache'
             PROVE  hcache'[GetKey(cmode, S, K[n])] = entropy[cmode][K[n]][S]
  BY DEF CacheSound
<1> DEFINE key == GetKey(cmode, S, K[n])
<1>3. CASE key \in DOMAIN hcache
  BY <1>2, <1>3 DEF CacheSound
<1>4. CASE key \notin DOMAIN hcache
  <2>1. PICK T \in big : key = GetKey(cmode, T, K[m])
    BY <1>1, <1>2, <1>4
  <2>2. hcache'[key] = entropy[cmode][K[m]][key[1]]
    BY <1>1, <1>2, <1>4
  <2>3. key[1] = S
    BY DEF GetKey
  <2>4. CASE cmode = "Gaussian"
    <3>1. entropy["Gaussian"][K[m]] = entropy["Gaussian"][K[n]]
      BY CMIAssumption DEF Settings
    <3> QED
      BY <2>2, <2>3, <2>4, <3>1
  <2>5. CASE cmode # "Gaussian"
    <3>1. K[m] = K[n]
      BY <2>1, <2>5 DEF GetKey
    <3> QED
      BY <2>2, <2>3, <3>1
  <2> QED
    BY <2>4, <2>5
<1> QED
  BY <1>3, <1>4

\* From a sound cache, the table held for a question agrees with the sample.
LEMMA HeldSound ==
  ASSUME Settings, CacheSound, NEW q \in Question, hcache' = Filled(q),
         UNCHANGED <<entropy, cmode>>,
         NEW S \in Terms(q)
  PROVE  Entropy(Held(hcache', q), S, Bins(q)) = Entropy(entropy[cmode], S, Bins(q))
<1>1. PICK m \in DOMAIN K : Bins(q) = K[m]
  BY BinsKnown
<1>2. CacheSound'
  BY FilledSound
<1>3. CASE Cardinality(S) > 1
  <2>1. GetKey(cmode, S, Bins(q)) \in DOMAIN hcache'
    BY <1>3 DEF Filled
  <2>2. S \in SUBSET Node
    BY TermsTyped
  <2>3. hcache'[GetKey(cmode, S, Bins(q))] = entropy[cmode][Bins(q)][S]
    BY <1>1, <1>2, <2>1, <2>2 DEF CacheSound
  <2> QED
    BY <1>3, <2>3 DEF Entropy, Held
<1>4. CASE ~(Cardinality(S) > 1)
  BY <1>4 DEF Entropy
<1> QED
  BY <1>3, <1>4

\* So the answer computed from the cache is the one computed from the sample.
LEMMA RawSound ==
  ASSUME Settings, CacheSound, NEW q \in Question, hcache' = Filled(q),
         UNCHANGED <<entropy, cmode>>
  PROVE  Raw(Held(hcache', q), q) = Raw(entropy[cmode], q)
<1> DEFINE k == Bins(q)
           h(S) == Entropy(Held(hcache', q), S, k)
           g(S) == Entropy(entropy[cmode], S, k)
<1>1. \A S \in Terms(q) : h(S) = g(S)
  BY HeldSound
<1> HIDE DEF h, g
<1>2. CASE q.form = "pair"
  <2>1. Terms(q) = {q.U \cup T : T \in SUBSET {q.x, q.y}} /\ k = K[Cardinality(q.U) + 2]
    BY <1>2 DEF Terms, Bins
  <2>2. /\ h(q.U \cup {q.x}) = g(q.U \cup {q.x}) /\ h(q.U \cup {q.y}) = g(q.U \cup {q.y})
        /\ h(q.U \cup {q.x, q.y}) = g(q.U \cup {q.x, q.y})
    BY <1>1, <2>1
  <2>3. h(q.U) = g(q.U)
    <3>1. q.U \cup {} = q.U
      OBVIOUS
    <3> QED
      BY <1>1, <2>1, <3>1
  <2> QED
    BY <1>2, <2>1, <2>2, <2>3 DEF Raw, PairInformation, h, g
<1>3. CASE q.form = "triple"
  <2>1. Terms(q) = {q.U \cup T : T \in SUBSET {q.x, q.y, q.z}} /\ k = K[Cardinality(q.U) + 3]
    BY <1>3 DEF Terms, Bins
  <2>2. \A T \in SUBSET {q.x, q.y, q.z} : h(q.U \cup T) = g(q.U \cup T)
    BY <1>1, <2>1
  <2>3. /\ h(q.U \cup {q.x}) = g(q.U \cup {q.x}) /\ h(q.U \cup {q.y}) = g(q.U \cup {q.y})
        /\ h(q.U \cup {q.z}) = g(q.U \cup {q.z}) /\ h(q.U \cup {}) = g(q.U \cup {})
        /\ h(q.U \cup {q.x, q.y}) = g(q.U \cup {q.x, q.y})
        /\ h(q.U \cup {q.x, q.z}) = g(q.U \cup {q.x, q.z})
        /\ h(q.U \cup {q.y, q.z}) = g(q.U \cup {q.y, q.z})
        /\ h(q.U \cup {q.x, q.y, q.z}) = g(q.U \cup {q.x, q.y, q.z})
    BY <2>2
  <2> QED
    BY <1>3, <2>1, <2>3 DEF Raw, TripleInformation, h, g
<1>4. CASE q.form = "sets"
  <2>1. Terms(q) = {q.X, q.Y, q.X \cup q.Y} /\ k = K[Cardinality(q.X) + Cardinality(q.Y)]
    BY <1>4 DEF Terms, Bins
  <2> QED
    BY <1>1, <1>4, <2>1 DEF Raw, SetInformation, h, g
<1> QED
  BY <1>2, <1>3, <1>4 DEF Question

\* The entropies of the present model are integers.
LEMMA EntropyTyped ==
  ASSUME Settings, NEW n \in DOMAIN K, NEW S \in SUBSET Node
  PROVE  Entropy(entropy[cmode], S, K[n]) \in Int
<1>1. entropy[cmode] \in Tables
  BY CMIAssumption DEF Settings, CModeTypes
<1>2. entropy[cmode][K[n]] \in [SUBSET Node -> Int]
  BY <1>1 DEF Tables
<1> QED
  BY <1>2 DEF Entropy

-----------------------------------------------------------------------------
LEMMA InitSound == Init => IndInv
BY DEF Init, IndInv, Settings, CacheSound, AnswersCurrent, CModeTypes, KModeTypes

LEMMA StepSound == IndInv /\ [Next]_vars => IndInv'
<1> SUFFICES ASSUME IndInv, [Next]_vars PROVE IndInv'
  OBVIOUS
<1>1. ASSUME NEW m \in CModeTypes, SetCMode(m)
      PROVE  IndInv'
  BY <1>1 DEF SetCMode, IndInv, Settings, CacheSound, AnswersCurrent
<1>2. ASSUME NEW m \in KModeTypes, SetKMode(m)
      PROVE  IndInv'
  BY <1>2 DEF SetKMode, IndInv, Settings, CacheSound, AnswersCurrent
<1>3. ASSUME NEW v \in Alphas, SetAlpha(v)
      PROVE  IndInv'
  BY <1>3 DEF SetAlpha, IndInv, Settings, CacheSound, AnswersCurrent
<1>4. ASSUME NEW q \in Question, Compute(q)
      PROVE  IndInv'
  <2>1. /\ Settings /\ CacheSound /\ hcache' = Filled(q)
        /\ UNCHANGED <<entropy, cmode, kmode, alpha>>
        /\ answer' = [q |-> q, value |-> Raw(Held(hcache', q), q) - Penalty(q)]
    BY <1>4 DEF IndInv, Compute
  <2>2. CacheSound'
    BY <2>1, FilledSound
  <2>3. answer'.q = q /\ answer'.value = Raw(entropy[cmode], q) - Penalty(q)
    BY <2>1, RawSound
  <2>4. Settings'
    BY <2>1 DEF Settings
  <2>5. Penalty(q) = CASE kmode = "NoCorr" -> 0
                       [] kmode = "Naive" /\ q.form # "triple" -> alpha
                       [] kmode = "Naive" /\ q.form = "triple" -> -alpha
    BY <2>1 DEF Penalty, Settings, KModeTypes
  <2>6. AnswersCurrent'
    BY <2>1, <2>3, <2>5 DEF AnswersCurrent
  <2> QED
    BY <2>2, <2>4, <2>6 DEF IndInv
<1>5. CASE UNCHANGED vars
  BY <1>5 DEF vars, IndInv, Settings, CacheSound, AnswersCurrent
<1> QED
  BY <1>1, <1>2, <1>3, <1>4, <1>5 DEF Next

\* No order of questions and of changes of copula model, correction and alpha
\* makes the cache change an answer.
THEOREM CacheInvisible == Spec => []AnswersCurrent
<1>1. IndInv => AnswersCurrent
  BY DEF IndInv
<1> QED
  BY InitSound, StepSound, <1>1, PTL DEF Spec

\* An answer is an integer.
LEMMA RawTyped ==
  ASSUME Settings, NEW q \in Question
  PROVE  Raw(entropy[cmode], q) \in Int
<1>1. PICK m \in DOMAIN K : Bins(q) = K[m]
  BY BinsKnown
<1>2. \A S \in Terms(q) : Entropy(entropy[cmode], S, Bins(q)) \in Int
  BY <1>1, TermsTyped, EntropyTyped
<1> DEFINE h(S) == Entropy(entropy[cmode], S, Bins(q))
<1> HIDE DEF h
<1>3. CASE q.form = "pair"
  <2>1. Terms(q) = {q.U \cup T : T \in SUBSET {q.x, q.y}} /\ q.U \cup {} = q.U
    BY <1>3 DEF Terms
  <2>2. /\ h(q.U \cup {q.x}) \in Int /\ h(q.U \cup {q.y}) \in Int
        /\ h(q.U \cup {q.x, q.y}) \in Int /\ h(q.U \cup {}) \in Int
    BY <1>2, <2>1 DEF h
  <2> QED
    BY <1>3, <2>1, <2>2 DEF Raw, Bins, PairInformation, h
<1>4. CASE q.form = "triple"
  <2>1. Terms(q) = {q.U \cup T : T \in SUBSET {q.x, q.y, q.z}} /\ q.U \cup {} = q.U
    BY <1>4 DEF Terms
  <2>2. \A T \in SUBSET {q.x, q.y, q.z} : h(q.U \cup T) \in Int
    BY <1>2, <2>1 DEF h
  <2>3. /\ h(q.U \cup {q.x}) \in Int /\ h(q.U \cup {q.y}) \in Int
        /\ h(q.U \cup {q.z}) \in Int /\ h(q.U \cup {}) \in Int
        /\ h(q.U \cup {q.x, q.y}) \in Int /\ h(q.U \cup {q.x, q.z}) \in Int
        /\ h(q.U \cup {q.y, q.z}) \in Int /\ h(q.U \cup {q.x, q.y, q.z}) \in Int
    BY <2>2
  <2> QED
    BY <1>4, <2>1, <2>3 DEF Raw, Bins, TripleInformation, h
<1>5. CASE q.form = "sets"
  <2>1. h(q.X) \in Int /\ h(q.Y) \in Int /\ h(q.X \cup q.Y) \in Int
    BY <1>2, <1>5 DEF Terms, h
  <2> QED
    BY <1>5, <2>1 DEF Raw, Bins, SetInformation, h
<1> QED
  BY <1>3, <1>4, <1>5 DEF Question

\* A question brings only keys of the present mode, and integers.
LEMMA FilledTyped ==
  ASSUME IndInv, TypeOK, NEW q \in Question, Compute(q)
  PROVE  TypeOK'
<1>1. /\ Settings /\ CacheSound /\ hcache' = Filled(q)
      /\ UNCHANGED <<entropy, cmode, kmode, alpha>>
      /\ answer'.value = Raw(Held(hcache', q), q) - Penalty(q)
  BY DEF IndInv, Compute
<1>2. PICK m \in DOMAIN K : Bins(q) = K[m]
  BY BinsKnown
<1>3. ASSUME NEW key \in DOMAIN hcache'
      PROVE  /\ \E n \in DOMAIN K, S \in SUBSET Node : key = GetKey(cmode', S, K[n])
             /\ hcache'[key] \in Int
  <2>1. CASE key \in DOMAIN hcache
    BY <1>1, <2>1 DEF TypeOK, Filled
  <2>2. CASE key \notin DOMAIN hcache
    <3>1. PICK T \in Terms(q) : key = GetKey(cmode, T, K[m])
      BY <1>1, <1>2, <2>2 DEF Filled
    <3>2. hcache'[key] = entropy[cmode][K[m]][key[1]]
      BY <1>1, <1>2, <2>2 DEF Filled
    <3>3. key[1] = T /\ T \in SUBSET Node
      BY <3>1, TermsTyped DEF GetKey
    <3>4. entropy[cmode][K[m]][T] \in Int
      <4>1. entropy[cmode] \in Tables
        BY <1>1, CMIAssumption DEF Settings
      <4>2. entropy[cmode][K[m]] \in [SUBSET Node -> Int]
        BY <4>1 DEF Tables
      <4> QED
        BY <3>3, <4>2
    <3> QED
      BY <1>1, <3>1, <3>2, <3>3, <3>4
  <2> QED
    BY <2>1, <2>2
<1>4. answer'.value \in Int
  <2>1. Raw(Held(hcache', q), q) = Raw(entropy[cmode], q) /\ Raw(entropy[cmode], q) \in Int
    BY <1>1, RawSound, RawTyped
  <2>2. Penalty(q) \in Int
    BY CMIAssumption DEF TypeOK, Penalty
  <2> QED
    BY <1>1, <2>1, <2>2
<1> QED
  BY <1>1, <1>3, <1>4 DEF TypeOK

\* Each key in the cache is one that GetKey makes in the present mode, with an
\* entropy: a change of mode leaves none of the other mode behind.
THEOREM CacheTyped == Spec => []TypeOK
<1>1. Init => TypeOK
  BY DEF Init, TypeOK, NoAnswer, CModeTypes, KModeTypes
<1>2. IndInv /\ TypeOK /\ [Next]_vars => TypeOK'
  <2> SUFFICES ASSUME IndInv, TypeOK, [Next]_vars PROVE TypeOK'
    OBVIOUS
  <2>1. ASSUME NEW m \in CModeTypes, SetCMode(m) PROVE TypeOK'
    BY <2>1 DEF SetCMode, TypeOK, NoAnswer
  <2>2. ASSUME NEW m \in KModeTypes, SetKMode(m) PROVE TypeOK'
    BY <2>2 DEF SetKMode, TypeOK, NoAnswer
  <2>3. ASSUME NEW v \in Alphas, SetAlpha(v) PROVE TypeOK'
    BY <2>3 DEF SetAlpha, TypeOK, NoAnswer
  <2>4. ASSUME NEW q \in Question, Compute(q) PROVE TypeOK'
    BY <2>4, FilledTyped
  <2>5. CASE UNCHANGED vars
    BY <2>5 DEF vars, TypeOK
  <2> QED
    BY <2>1, <2>2, <2>3, <2>4, <2>5 DEF Next
<1> QED
  BY InitSound, StepSound, <1>1, <1>2, PTL DEF Spec
=============================================================================
