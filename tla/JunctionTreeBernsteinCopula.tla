--------------------- MODULE JunctionTreeBernsteinCopula ---------------------
(***************************************************************************)
(* A JunctionTreeBernsteinCopula from its construction on a learned tree   *)
(* through changes of sample and of clique order, marginals of marginals,  *)
(* save and load.  Its tree is kept in a NamedJunctionTree, whose loops    *)
(* run inside the constructor and inside getMarginal.                      *)
(*                                                                         *)
(* A sample is the list of its columns, named after the variables they     *)
(* were drawn from, and its number of points: the points themselves are    *)
(* left out.  The code compares neither the sample with the tree nor the   *)
(* order of the cliques with its edges, so a caller may give any; what the *)
(* copula promises depends on them, and two history variables, the fields  *)
(* own of a sample and walks of a copula, keep what was given.             *)
(***************************************************************************)
EXTENDS NamedJunctionTree

CONSTANTS
  Trees,       \* the junction trees that may be learned
  Sizes,       \* the numbers of points of the samples
  BinNumbers,  \* the numbers of bins
  Columns(_),  \* the columns of the samples a caller gives, by the names of the tree
  Orders(_),   \* the orders of the cliques a caller gives, by the nodes of the tree
  Indices(_)   \* the arguments of getMarginal, by dimension

\* No sample has fewer points than bins: dropping the remainder of such a
\* sample would leave none to rank.
ASSUME CopulaAssumption ==
  /\ \A t \in Trees :
       /\ JunctionTree(t) /\ IsFiniteSet(Ids(t))
       /\ IsInjective(t.names)
       /\ MaximalSets(NamedCliques(t)) = NamedCliques(t)
  /\ Sizes \subseteq Nat /\ BinNumbers \subseteq Nat \ {0}
  /\ \A n \in Sizes, k \in BinNumbers : n > 1 => n >= k

VARIABLES
  copula,    \* the copula the session works with
  building,  \* the copula under construction while its tree is being ordered
  held,      \* history: the tree the copula was made with, or its copy before a load
  origin,    \* history: the tree the session began with
  saved      \* what the study holds of a copula, and the tree held with it

copulaVars == <<treeVars, copula, building, held, origin, saved>>

None == [exists |-> FALSE]

CopulaInit ==
  /\ TreeInit
  /\ copula = None
  /\ building = None
  /\ held = NoTree
  /\ origin = NoTree
  /\ saved = None

\* getSeparatorsCollection, an edge naming each separator.
Separators(t) == [e \in t.edge |-> Separator(t.clique, e)]

\* update: the factors depend on the sample and on the number of bins.
Factors(s, k) == [sample |-> s, bins |-> k]

\* setCopulaSample, once the checks are passed: the remainder is dropped of
\* a sample that is not said to be an empirical copula.
WithSample(c, s, empirical) ==
  LET remainder == s.size % c.bins
      kept_ == IF empirical THEN s ELSE [s EXCEPT !.size = @ - remainder]
  IN  [c EXCEPT !.sample = kept_,
                !.isCopula = ~empirical \/ remainder = 0,
                !.factors = Factors(kept_, c.bins)]

\* The members as the constructor initialises them, before it has a sample.
Initialised(t, k) ==
  [exists |-> TRUE, tree |-> t, cliques |-> <<>>, separators |-> Separators(t),
   bins |-> k, sample |-> <<>>, isCopula |-> FALSE, factors |-> <<>>, walks |-> FALSE]

\* The cliques as setCliquesOrder lists them: an index that is no node of the
\* tree throws, and the places from its own on stay empty.
Listed(t, o) ==
  [i \in DOMAIN o |-> IF \A j \in 1..i : o[j] \in Ids(t) THEN t.clique[o[i]] ELSE {}]

Idle == phase = "idle"

\* A sample a caller gives to a copula with the tree t: anything of more than
\* one point and with a column.
GivenSamples(t) ==
  {[columns |-> x, size |-> n, own |-> x = t.names] :
     x \in Columns(t.names) \ {<<>>}, n \in {m \in Sizes : m > 1}}

\* The constructor without an order: it orders the cliques itself.
Construct ==
  /\ Idle
  /\ ~copula.exists
  /\ \E t \in Trees : \E s \in GivenSamples(t), k \in BinNumbers, empirical \in BOOLEAN :
       /\ building' = WithSample(Initialised(t, k), s, empirical)
       /\ held' = t
       /\ origin' = t
       /\ CallGetOrder(t)
  /\ UNCHANGED <<copula, saved>>

\* The constructor with an order: there is no object if setCliquesOrder throws.
ConstructOrdered ==
  /\ Idle
  /\ ~copula.exists
  /\ \E t \in Trees : \E s \in GivenSamples(t), k \in BinNumbers, empirical \in BOOLEAN,
                       o \in Orders(Ids(t)) :
       /\ Len(o) = Cardinality(Ids(t))
       /\ ToSet(o) \subseteq Ids(t)
       /\ copula' = [WithSample(Initialised(t, k), s, empirical) EXCEPT
                        !.cliques = Listed(t, o), !.walks = Walk(t, o)]
       /\ held' = t
       /\ origin' = t
  /\ UNCHANGED <<treeVars, building, saved>>

\* getOrderMaxFirst is done: the cliques are listed by its order and the
\* constructor returns.
UseOrder ==
  /\ OrderDone
  /\ Len(order) = Cardinality(Ids(building.tree))
  /\ copula' = [building EXCEPT !.cliques = Listed(building.tree, order), !.walks = TRUE]
  /\ building' = None
  /\ Return
  /\ UNCHANGED <<held, origin, saved>>

\* setCliquesOrder looks at the size of the order only; of a loaded copula,
\* which has no tree, it accepts the empty one.
SetCliquesOrder ==
  /\ Idle
  /\ copula.exists
  /\ \E o \in Orders(Ids(held)) :
       /\ Len(o) = Cardinality(Ids(copula.tree))
       /\ copula' = [copula EXCEPT !.cliques = Listed(copula.tree, o), !.walks = Walk(held, o)]
  /\ UNCHANGED <<treeVars, building, held, origin, saved>>

\* setCopulaSample with a sample of the tree's variables or of others.
SetCopulaSample ==
  /\ Idle
  /\ copula.exists
  /\ \E s \in GivenSamples(held), empirical \in BOOLEAN : copula' = WithSample(copula, s, empirical)
  /\ UNCHANGED <<treeVars, building, held, origin, saved>>

\* The marginals that are more than the uniform distribution getMarginal
\* answers with for one variable of a copula.
Asked(indices) == ~(copula.isCopula /\ Len(indices) = 1)

GetMarginal ==
  /\ Idle
  /\ copula.exists
  /\ \E indices \in Indices(Len(copula.sample.columns)) :
       /\ Asked(indices)
       /\ indices \in Seq(DOMAIN copula.tree.names)
       /\ CallGetMarginal(copula.tree, indices)
  /\ UNCHANGED <<copula, building, held, origin, saved>>

\* The tree of a loaded copula has no names, and a sample may have more columns
\* than the tree has: map_ is read out of its bounds.
GetMarginalBeyondTree ==
  /\ Idle
  /\ copula.exists
  /\ \E indices \in Indices(Len(copula.sample.columns)) :
       Asked(indices) /\ indices \notin Seq(DOMAIN copula.tree.names)
  /\ phase' = "undefined"
  /\ UNCHANGED <<tree, target, todo, kept, links, sorted, order, visit,
                 copula, building, held, origin, saved>>

\* An index was given twice: getMarginal throws.
RejectIndices ==
  /\ EdgesDone
  /\ ~Consistent(Marginal)
  /\ Return
  /\ UNCHANGED <<copula, building, held, origin, saved>>

\* Mutant: the columns keep the order of the sample.
SampleMarginalSorted(s) ==
  [s EXCEPT !.columns = SelectSeq(s.columns, LAMBDA x : \E j \in DOMAIN target : s.columns[target[j]] = x)]

\* Sample::getMarginal
SampleMarginal(s) == [s EXCEPT !.columns = [j \in DOMAIN target |-> s.columns[target[j]]]]

\* The marginal tree is there: the marginal copula is constructed on it, with
\* the same bins, and the session goes on with it.
ConstructMarginal ==
  /\ EdgesDone
  /\ Consistent(Marginal)
  /\ building' = WithSample(Initialised(Marginal, copula.bins), SampleMarginal(copula.sample), TRUE)
  /\ held' = Marginal
  /\ CallGetOrder(Marginal)
  /\ UNCHANGED <<copula, origin, saved>>

\* save: what a study keeps, without the tree.  The dimension and isCopula_
\* are members of the OpenTURNS base class, which is taken to keep them.
Persistent(c) == [f \in DOMAIN c \ {"tree"} |-> c[f]]

Save ==
  /\ Idle
  /\ copula.exists
  /\ ~saved.exists
  /\ saved' = [exists |-> TRUE, members |-> Persistent(copula), held |-> held]
  /\ UNCHANGED <<treeVars, copula, building, held, origin>>

\* load, into an object the default constructor made.
Load ==
  /\ Idle
  /\ saved.exists
  /\ copula' = [f \in DOMAIN saved.members \cup {"tree"} |->
                  IF f = "tree" THEN NoTree ELSE saved.members[f]]
  /\ held' = saved.held
  /\ UNCHANGED <<treeVars, building, origin, saved>>

CopulaNext ==
  \/ Construct \/ ConstructOrdered \/ GetMarginal \/ GetMarginalBeyondTree
  \/ SetCliquesOrder \/ SetCopulaSample \/ Save \/ Load
  \/ TreeStep /\ UNCHANGED <<copula, building, held, origin, saved>>
  \/ UseOrder \/ RejectIndices \/ ConstructMarginal

\* A call runs to its end in the thread of its caller.
InCall == phase \in {"cliques", "edges", "order"}
CopulaFairness == WF_copulaVars(InCall /\ CopulaNext)

CopulaSpec == CopulaInit /\ [][CopulaNext]_copulaVars /\ CopulaFairness
-----------------------------------------------------------------------------
\* However often marginals are taken of marginals, the cliques of their tree
\* are, by name, those parts of the first tree's cliques that no other one
\* swallows: neither the renumbering of the variables nor the order in which
\* getMarginal meets the cliques loses one or keeps one too many.  (A part that
\* two cliques have in common whole is kept twice, joined by an edge.)
MarginalCliquesExact ==
  held # NoTree =>
    NamedCliques(held) = MaximalSets({C \cap ToSet(held.names) : C \in NamedCliques(origin)})

\* And getMarginal joins them into a junction tree again, whichever edge it
\* takes first among equals: no cycle, and a variable's cliques hang together.
MarginalIsJunctionTree == held # NoTree => JunctionTree(held)

\* The variables getRealization knows already when it reaches the i-th clique.
Known(c, i) == c.cliques[i] \cap UNION {c.cliques[j] : j \in 1..i-1}

\* getRealization draws from the density computePDF evaluates: each clique in
\* turn is drawn given exactly one separator, each separator serves once and
\* every variable is drawn.  So it is for the order of getOrderMaxFirst and
\* for every order of a caller that walks the tree, whatever was saved, loaded
\* or sampled anew since; setCliquesOrder takes others, for which it need not
\* be.  (A copula of one variable uses neither cliques nor separators.)
SimulatesItsDensity ==
  copula.exists /\ copula.walks /\ copula.sample.own
    /\ ~(Len(copula.sample.columns) = 1 /\ copula.isCopula) =>
    /\ UNION ToSet(copula.cliques) = DOMAIN copula.sample.columns
    /\ \A S \in SUBSET DOMAIN copula.sample.columns : S # {} =>
         Cardinality({i \in DOMAIN copula.cliques : Known(copula, i) = S})
           = Cardinality({e \in DOMAIN copula.separators : copula.separators[e] = S})

\* The factors are those of the sample, the mixture is a copula exactly when
\* the points fill the bins, and the positions in cliques and separators mean
\* the columns of the sample if those it was given were the tree's, after any
\* history of samples, marginals and loads.
SampleFits ==
  copula.exists =>
    /\ copula.sample.own => copula.sample.columns = held.names \/ InCall
    /\ copula.factors = Factors(copula.sample, copula.bins)
    /\ copula.isCopula <=> copula.sample.size % copula.bins = 0

\* Neither loop runs for ever: a call of getMarginal or of a constructor ends.
CallsReturn == InCall ~> ~InCall
=============================================================================
