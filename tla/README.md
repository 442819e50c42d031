# A TLA+ model of otagrum

otagrum learns the structure of Bayesian networks over continuous variables and
builds distributions on them. It is a sequential C++ library: OpenTURNS gives
it samples, copulas and statistics, aGrUM gives it graphs. This directory holds
TLA+ modules that model its structure learners and the distributions built on what they learn, the TLC runs that check them on
small instances, and proofs, checked by TLAPS, of what holds for every
instance. Sources are named relative to `src/lib/src/`.

## Inventory

| Part | State it keeps | Operations | Model |
|---|---|---|---|
| `ContinuousPC` | `skel_`, `sepset_`, `pvalues_`, `ttests_`, `removed_`, `pdag_`, `dag_`, `jt_` and a flag for each stage done | learnSkeleton (inferSkeleton, testCondSetWithSize, getSeparator), learnPDAG (inferPDAG), learnDAG, learnJunctionTree (deriveMoralGraph) | `PCData`, `PCSkeleton`, `StablePC`, `PCSearch`, `PCOrientation`, `DSeparation` |
| `ContinuousTTest` | the ranked sample, `alpha_`, a cache of log-densities | isIndep, getLogPDFs, clearCacheLevel | `PCData` (results), `PCSearch` (cache) |
| `StratifiedCache` | a map and, for each level, the list of its keys | set, exists, get, clearLevel | `StratifiedCache` |
| `IndicesManip` | positions of a combination, a carry | setFirst, next, isLast, current | `IndicesManip` |
| `CorrectedMutualInformation` | `cmode_`, `kmode_`, `alpha_`, the cache `HCache_` of entropies | the setters, two- and three-point information with correction | `Information`, `CorrectedMutualInformation` |
| `TabuList` | `best_dag_`, `best_score_`, `tabu_list_`, `dag_done_` | setCMode, learnDAG (tabuListAlgo, randomDAG, updateBest) | `TabuList` |
| `ContinuousMIIC` | `skeleton_`, `sepset_`, the heap `rank_`, `initial_marks_`, `latent_couples_`, `pdag_`, `dag_` and flags | the setters, learnSkeleton (initiation, iteration), addMandatoryArc, addForbiddenArc, learnPDAG, learnDAG | `MIICSkeleton`, `MIICOrientation` |
| `Greater` | none | the orders of the heap and of the list of triples | in the two MIIC modules |
| `NamedDAG` | a DAG, its names, a topological order, the lists of parents and children | the constructors, save, load | `NamedDAG` |
| `ContinuousBayesianNetwork` and its factory | a `NamedDAG`, a marginal and a copula for each node | build, setDAGAndMarginalsAndCopulas, getRealization, densities, save, load | `ContinuousBayesianNetwork`, but for the numbers |
| `NamedJunctionTree` | a graph of cliques, names | getMarginal, getOrderMaxFirst, accessors | `JunctionTrees`, `NamedJunctionTree` |
| `JunctionTreeBernsteinCopula` and its factory | a `NamedJunctionTree`, ordered cliques, separators, a ranked sample, bins, factors, `isCopula_` | setCliquesOrder, setCopulaSample (update), getMarginal, getRealization, densities, save, load | `JunctionTreeBernsteinCopula`, but for the numbers |
| `Utils` | none | FromNodeSet; conversions of tensors | FromNodeSet in `PCSearch` |
| Python bindings, build files | | generated glue, packaging | not modelled |

How they interact. Everything is a direct call, in one thread. `ContinuousPC`
asks `ContinuousTTest` whether two variables are independent given a set;
`ContinuousTTest` fetches four densities for each test through its
`StratifiedCache`, which `ContinuousPC` tells to forget a level whenever the
size of the conditioning sets grows. `TabuList` and `ContinuousMIIC` each own a
`CorrectedMutualInformation` and forward changes of mode to it. The stages of a
learner call one another: the skeleton and what it recorded about the removed
edges (separating sets, p-values) are read again by the orientation. The two
factories learn a graph with `ContinuousPC` and build a distribution on it: a
`ContinuousBayesianNetwork` on a `NamedDAG`, a `JunctionTreeBernsteinCopula` on
a `NamedJunctionTree`, whose getMarginal gives the tree of a marginal copula and
whose getOrderMaxFirst the order in which cliques are drawn. Both distributions
are written to and read from OpenTURNS studies.

What is hard. No thread, message or crash; but (1) the order of nearly every
loop is that of a hash set or of a heap with ties, so that a result must hold
for every order, or not depend on it; (2) a graph is changed while it, or a
snapshot of it, is walked; (3) checks are made for one change and then two are
applied (v-structures, reversals); (4) values computed under one setting are
kept over a change of it (entropies, scores); (5) quantities are carried along
instead of recomputed (the score, the largest p-value, probabilities); (6)
double-headed arcs come and go while the acyclicity of the rest is relied on;
(7) positions mean variables: a copula is indexed by the order of a list of
parents or of indices that other code makes again later, after marginals,
renumbering, saves and loads.
`PROJECT.json` lists each of these as a hazard at its line, with the properties
that would catch it.

What makes each part correct:

- skeleton search of PC: a removed edge has a separating set, p-value and
  statistic that are one test of the sample; a kept edge has none that would
  separate it; the result does not depend on the order of the visits;
- orientation of PC: no cycle, no adjacency lost, the order of the queue (smaller
  p-values first) decides between conflicting v-structures, nothing missing but for a
  cycle, the v-structures and the moral graph of a DAG if there is one;
- the densities: no key computed twice, none held that no test can ask for;
- information: the cache is invisible;
- tabu search: no cycle, never more parents past the limit than the DAG given had,
  a carried score equal to the score, improvement at each step, the best of all
  runs returned, termination;
- skeleton search of MIIC: an edge is cut once, by its own chain of conditioning
  sets, and no edge is kept that its chain would cut; termination;
- orientation of MIIC: no cycle, no adjacency lost, each latent couple resolved
  to the arc reported, the v-structures of a DAG if there is one, marks obeyed;
- Bayesian network: each copula stands for the parents of its node in the order
  they are listed now, and they are drawn before the node;
- junction tree and its copula: the cliques of a marginal are the maximal parts
  of the first cliques and make a junction tree; what is drawn has the density
  that is computed, if the order of the cliques walks the tree; the factors fit the
  sample, and its columns the tree if they did when it was given.

## Modules

`MixedGraphs` holds the graphs of aGrUM as sets of edges and arcs (external: it
follows how the code uses them). A directed path exists unless a set closed
under the arcs holds its start and not its end; this form, and not a recursive
one, is what the proofs need.

**PC.** A sample is a table of test statistics, small integers; the p-value
`2 * pNormal(-|t|)`, decreasing in `|t|`, becomes `Scale - |t|` (`PCData`).
`PCSkeleton` models inferSkeleton with one step for each edge visited (the body
of the loop of testCondSetWithSize): `Separate` when some set among the
snapshot of common neighbours separates the edge, `Keep` otherwise, and
`NextSize`, which begins the next size and takes the snapshot. `StablePC` is
what the search promises: at each size all edges that are separable in the
graph as the size began go at once. `PCSearch` refines `PCSkeleton` to one step
for each test (the body of the loop of getSeparator), with the combination
iterator of `IndicesManip` and the cache of `StratifiedCache` as they are in
the code; its actions that end the visit of an edge are those of `PCSkeleton`.
`PCOrientation` models inferPDAG (`CollectTriplets` fills the queue, then
`SkipTriplet` or `OrientTriplet` for each entry popped) and deriveMoralGraph
(`DeriveMoralGraph` copies the undirected edges, then `MoraliseNode` for each node, in
any order, joins its parents to it and, under the guards of the code, to each other).
The queue's priority is the p-value of the test that separated the ends, the
smallest first: it says of that test how near it was to finding a dependence, and
nothing here takes it for more than a priority.
It is not composed with the search: it takes any skeleton with separating sets
for its missing pairs, which is more than the search can hand over, and what
`SepsetsCoverRemoved` says the search does hand over.
`DSeparation` gives the exact tests of a DAG, for the run on the neighbours.

**Information.** `Information` has the formulas over tables of entropies, by
model, number of bins and set of variables, as pure operators.
`CorrectedMutualInformation` adds the settings, the cache, and the questions as
actions; every call of `Compute` keeps its question and answer in `asked` and
`answer`. `TabuList` uses the formulas.

**TabuList.** One action for each setter call, each round of the loop of
tabuListAlgo (`Climb`, `Converge`, which includes updateBest), each `Restart` and
the return. The initial DAG is any acyclic one: neither constructor compares it with
`max_parents_`, and learnDAG may return it, so that the history variable `excess` keeps
the arcs by which it is past the limit and `StaysLegal` allows these and no others.
randomDAG is a choice among the legal DAGs (`LegalDAG`): the
random walk of findLegalChanges starts from no arc and reaches only these, and
StaysLegal covers the moves themselves. Scores are integers (the size of the sample times the
entropy); `restarts_` counts modulo `Word`.

**MIIC.** `MIICSkeleton` has one action for each edge that initiation visits,
each pop of the heap (`Cut`, `Extend`), each setter and each call of learnSkeleton, which
the code lets a caller repeat. The information left between two variables and
the likelihood of a contributor are tables of the sample, by settings.
`MIICOrientation` models addMandatoryArc, addForbiddenArc and learnPDAG: the arcs
asked for, the list of unshielded triples with their probabilities, one `Orient`
for each round of the loop (branches 1 to 5 of the code: `VStructure` with
`Pointed` for each side, `Propagation` with `PassedOn`), and one `Resolve` for each latent
couple. Probabilities are hundredths; what they are used for is their order and
whether they exceed one half. Branches 4.b and 5.b of the code are
kept in `PassedOn` but never taken: they ask that the middle node have no parent, and the
arrow that selects the branch comes from one.

**Distributions.** `NamedDAG` keeps the parents of a node as the sequence in which
aGrUM inserted them, and `Listing` is how a hash set lists what was inserted:
all that is assumed of it is that it lists the same members, and that a set
filled in the order another lists them lists them in that order again
(`ListingAssumption`). `ContinuousBayesianNetwork` has an action for the
factory, for setDAGAndMarginalsAndCopulas accepting and rejecting, for save and
for load; a copula is the list of the variables it was estimated on, and
`Arguments` the list of those it is given by getRealization and computePDF.
The copulas given by a caller follow the order of getParents, as the comment in
getRealization asks; a caller who gives them in another order is not noticed by the code.

`JunctionTrees` defines cliques, separators and what a junction tree is.
`NamedJunctionTree` has the two algorithms with one action for each round of
their loops (`SkipClique`, `AddClique`, `SortEdges`, `TakeEdge`; `ChooseRoot`,
`VisitNode`); nodes and edges are taken in any order, since hash sets give them.
`JunctionTreeBernsteinCopula` composes them with the copula that calls them:
`Construct` and `ConstructMarginal` begin a constructor, which runs
getOrderMaxFirst and ends with `UseOrder`; `ConstructOrdered` is the constructor with an
order of the caller's and `SetCliquesOrder` the setter. Both take any list of the right
length, as the code does: one that does not walk the tree, one that repeats a node, and,
of the setter, one with a node that does not exist, which throws in the middle of the loop
and leaves the rest of the places empty (`Listed`). `SetCopulaSample` and the
constructors take a sample with any columns, more or fewer than the tree has
names. What a copula was given is kept as history: `walks` says whether its order walks
its tree (`Walk`: every node once, and next to an earlier one unless it is
the first of its component), the field `own` of a sample whether its columns were the
tree's, `held` the tree it was made with, also after a load. `SimulatesItsDensity`
and the first part of `SampleFits` are claimed where these histories say so, and fail
elsewhere in the code too. `GetMarginal` starts the loops of getMarginal, and the
session goes on with the marginal, so that marginals of marginals are reached.
`Save` leaves the tree out, as the code does. Two states have no successor,
because the code's behaviour is undefined in them (`phase = "undefined"`): an
edge put past the last bucket (`NamedJunctionTree.cxx:196`) and getMarginal where an index
is past the names of the tree (line 133, `GetMarginalBeyondTree`): of a loaded copula, which
has none, or of one whose sample has more columns.

The `MC` modules and their `.cfg` files hold the instances. Definitions whose comment
begins with "Mutant" change one definition the way a slip in the code would;
each property of a passing run has one, under which TLC finds it violated.

## Runs

| Run | Instance | What it shows |
|---|---|---|
| `pc_skeleton` | 4 variables, samples with any two independences at the threshold and a weaker dependence, all sizes | the properties of the search, `StableSpec` (it implements `StablePC`), `Terminates` |
| `pc_search` | 4 variables, samples with two independences, two listings of each hash set | iterator in range, cache consistent, no key computed twice, no density held too long, `SkeletonSpec` (it implements `PCSkeleton`) |
| `pc_orientation` | every skeleton over 4 nodes and a net of 6, every pattern of separating sets, two ranks of p-value | acyclic, adjacencies, priority honoured, complete; v-structures and moral graph of a DAG recovered |
| `pc_neighbours` | exact tests of a DAG over 4 variables | violation: an edge stays though neighbours of one end separate it |
| `information` | 3 variables, two numbers of bins, all questions and settings | cache invisible |
| `tabu` | 3 variables, all patterns of pairwise strength, limits 1 and 2, any initial DAG, past the limit or not, one change of mode | acyclicity and limit, carried score, improvement, best kept, termination |
| `tabu_stale` | 2 variables | violation: the score reported after setCMode |
| `tabu_restarts` | 2 variables, words of 3 bits | violation: restarts = 0 |
| `miic_skeleton` | 4 variables, edges cut at once, at one, at two, never, at the limit, or unlikely; two calls, one change of settings | each edge once, own chain, nothing left, termination |
| `miic_orient` | every skeleton over 4 nodes, a cycle, a bull and a pan over 5, all signs and two strengths, up to three marks | acyclic, adjacencies, couples resolved, DAG recovered, forbidden arcs |
| `miic_priors` | one adjacency, one mark | violation: the arc added is the reverse of the one named |
| `distributions` | every DAG of 3 nodes in every order of insertion, with colliding hashes; junction trees on up to 4 cliques, one with a cycle to avoid, one with a separator past the buckets; samples with and without a remainder, with a column too many or too few; orders that walk the tree, do not, repeat a node, name none, or have a wrong size | components match parents through saves and loads; cliques of marginals exact and a junction tree; draws agree with densities for orders that walk; sample and factors fit; calls return |

Why the bounds are enough. Four variables are the least for which a separating
set can have two nodes, for which removing one edge changes the common
neighbours of another, and for which a level of the cache is cleared while a
later one is in use. The net of six nodes is the least skeleton in which a path
of two arcs blocks a v-structure; a cycle of five is the least in which a
double-headed arc has to be flipped, and a pan (a cycle of four and a pendant node) the least
in which the triple that adds an arc against a cycle also double-heads an arc of that
cycle. Three variables give the tabu search a cycle
that no arc closes alone and a reversal that another path forbids; the number of
restarts (2), the size of the tabu list (2) and the limit of parents reach their
limits. Two strengths, two ranks, one positive information are the least that give ties and both strict orders.
Three nodes, two of which share a bucket, are the least for which a listing differs from
the order of insertion; four cliques, three of which share a variable, the least for which
getMarginal drops an edge. In `MCDistributions` the session of the network comes before that of
the copula, because they share no state; what was saved is saved once and loaded
any number of times. `OneOddity` keeps the run small: a copula whose order does not walk
its tree has the tree's columns, and no marginal is taken of it (getMarginal does not
read the order). The proofs do without these bounds.
The bounds on calls (`MaxCalls`, `MaxSwitches`, `MaxAsked`) are guards on
the caller's actions only.

Fairness. `Terminates` and `LearnTerminates` assume weak fairness of the learner's
own steps: a call that was made runs on, being sequential code with nothing to
wait for. `CallsReturn` assumes the same of a call of getMarginal or of a
constructor of the copula (`CopulaFairness`: while `InCall`), and does not say that a
call which meets undefined behaviour comes back.
Nothing is assumed of the caller's actions (setters, calls).
Runs with `CHECK_DEADLOCK FALSE` are those of `TabuList`, `MIICSkeleton` and
`MIICOrientation`: when learning is over and the caller's bound is used up, the
system stops.

## What the violations say

- **Common neighbours only** (`ContinuousPC.cxx:185`). `g.neighbours(y) *
  g.neighbours(z)` is an intersection; the documentation says "a subset of their
  neighbors". With exact tests of a DAG, an edge remains that the PC algorithm
  as documented removes.
- **Stale score** (`TabuList.cxx:86`). setCMode does not recompute `best_score_`,
  computed by the constructors in Gaussian mode. A learner switched to Bernstein
  compares its runs with the Gaussian score of the initial DAG, and getBestScore
  may report it.
- **restarts = 0** (`TabuList.cxx:118`). `i < restarts_ - 1` wraps around.
- **Mandatory and forbidden arcs reversed** (`ContinuousMIIC.cxx:122-150`,
  385-392). The pair {head, tail} of the arc is read as (tail, head) by learnPDAG.

Met on the way and not given a run: a forbidden arc is added where its reverse
would close a cycle (branches 1.b, 1.d, 2.b, 3.b), which `ForbiddenOnlyAgainstCycle`
makes precise: the cycle is one of the graph before the triple is oriented. It may be
gone right after, as the second side of the same v-structure can double-head one of its
arcs, and the forbidden arc stays. Mandatory arcs that form a cycle are added as they are, so that
`PDAGAcyclic`, `AdjacenciesKept` and `LatentResolved` assume that the user asked for
none (`AcyclicWishes`);
two cliques that share more variables than there are cliques index past the
buckets of getMarginal; the tree of a copula is not saved, so a loaded one has no
marginals and takes no order of cliques but the empty one, which empties its cliques;
setCliquesOrder checks the size of an order and nothing else: for the chain of cliques
A - B - C taken as A, C, B getRealization draws A and C apart and has nothing of B left to
draw, which is not the density that computePDF evaluates (`JunctionTreeBernsteinCopula_doc.i` says
only "The order."); an index that does not exist throws when part of the cliques are
replaced; setCopulaSample compares a sample with nothing, not even its dimension with the
tree's; an initial DAG past `max_parents` is accepted by TabuList and may be what
learnDAG returns; compute3PtInformation takes its numbers of bins from one set of variables
and compute2PtInformation from another, so that the sums the comment at line 253 of
`CorrectedMutualInformation.cxx` is about need not cancel; a density is computed again under
another key when its variables are listed in another order; getOrderMaxFirst begins with the largest *end* of the tree, not with
"the largest clique"; a marginal tree is made of the parts of cliques only, so that two
variables that depended on each other through a removed one become independent
unless a clique held them both; the key `ContinuousBayesianNetworkFactory-UseBetaCopula` of
the code is `UseBetaFactory` in the documentation;
`ContinuousPC_doc.i` describes orienting when the middle node *is* in the separating set,
the code (line 359) does so when it is *not*.

## Proofs

Each `*Proofs` module extends the module it is about. What TLAPS checks holds
for every value of the constants that satisfies the module's `ASSUME` (finitely
many variables where cardinalities count; samples, tables and marks of the right type).

- `CommonTheorems`: what several components need. For recursion, `LeastNumber`,
  `MinimalSet` and `FoldInduction`: the library's induction principles take a predicate as
  their parameter, which the provers here cannot instantiate, but the claims needed can be
  stated of a *set*, of the numbers or the finite sets for which they hold, and this
  is enough to prove that a fold over a finite set obeys its recursion (`FoldExists`). For
  graphs, when adding arcs keeps them acyclic: `AcyclicAddArc` for one arc;
  `AcyclicFanIn` for the two arcs of a v-structure after two probes: the two closed sets
  that witness "no path" intersect in one that separates the middle node from both
  ends, so the first arc cannot open the path that the second would close.
- `PCSkeletonProofs`: `SkeletonTyped`, `EveryPairAccountedFor`, `RemovalsJustified`,
  `SeparatorsAreCommon`, `KeptEdgesJustified`, and `OrderIndependent`: the search
  implements `StablePC`. The properties are not inductive alone; the invariant
  adds that the edges there were when the size began (`GraphAtSize`, recovered from
  the graph and the sizes of the separating sets) do not change while the size
  lasts, that the snapshot is that of `GraphAtSize`, and that a visited edge was
  removed exactly if it was separable there. Then the loop inside a visit:
  `SearchImplementsVisits` (`PCSearch` implements `PCSkeleton` but for its fairness),
  `IteratorStaysInside`, `LevelsPartitionKeys`, `CacheHoldsNothingUseless`,
  `NothingForgottenIsNeeded`. That the iterator leaves no conditioning set out has two
  halves: next() skips no positions, in lexicographic order (`AdvanceSkipsNone`), and
  every set of the right size is listed at proper positions (`EverySubsetListed`, by
  ranking its nodes). The invariant says that the tests made are those at the positions
  before the present ones, that none found independence and that the largest p-value is kept;
  for the cache, that each key is on the level of its length and that what was forgotten
  is shorter than the size searched.
- `PCOrientationProofs`: `TypeCorrect`, `PDAGAcyclic`, `PDAGKeepsAdjacencies`,
  `PDAGHonoursPriority`, `PDAGMissesOnlyCycles`, `MoralGraphIsOfDAG`, `PDAGRecoversVStructures`. The invariant adds that
  the queue holds v-structures of the skeleton only and that the graph is empty until
  they are collected. A second one (`Settled`) says of every v-structure taken from the queue that
  its arcs are there or would close a cycle: the two probes for a path decide between
  them, and since arcs are never taken away the cycle stays. The
  cycle is one with arcs of smaller or equal p-values, because these were popped before. The loop of deriveMoralGraph
  has joined, at the nodes it is done with, parents and child, and any two
  parents (`Moralised`): a pair it does not marry has an edge already
  (`MarriagesComplete`). If the separating sets are those of a DAG, every arc there is belongs to a
  v-structure of that DAG (`ArcsFromVStructures`), so that no probe finds a path and none
  is refused.
- `TabuListProofs`: `DAGStaysLegal`, where a lemma for each of addition, deletion and
  reversal shows that the test findBestChange makes is enough: from whatever acyclic DAG, a node
  gains a parent only below the limit; `ScoreStaysBIC`,
  `RunsImprove`, `BestStaysBest` and `LearnerTyped`. BIC is a sum over the nodes and
  the learner adds differences: `SumChanges` says what a sum gains when one term
  changes, `BICOfChange` that the difference taken for each of the three moves is what BIC
  gains by it, and `ComputeScoreIsBIC` that computeScore, which adds the arcs of a DAG one by
  one in whatever order, arrives at its BIC. The invariant `ScoreInv` carries this through
  climbs, restarts and changes of mode: the score of the DAG at hand is its BIC under the
  mode now, that of the best one under the mode it was computed in. The type of
  the tabu list allows one entry where `tabu_list_size_` is 0: the code then has nothing
  to give up before the first push (`TabuList.cxx:484`).
- `InformationProofs`: `CacheInvisible`, from the invariant that a key in the cache
  holds the entropy under the present model, and `CacheTyped`.
- `MIICSkeletonProofs`: `SearchTyped`, `EdgesCutOnce`, `RemovalsFollowChains`,
  `KeptEdgesResistAll`, `SecondCallIdle`. An edge is in one of the list of
  initiation, the heap, `sepset_`, or settled; the first invariant adds that nothing waits
  between the calls and that a conditioning set avoids the ends of its edge. The second one
  (`ChainInv`) follows each edge along its chain, the conditioning sets it would meet if it were
  alone: an entry of the heap holds a set of the chain, none before it cut the edge, and
  an edge with no entry left has come to its end. The order of the heap, which is
  shared by all edges, thus has no influence on what is removed.
- `MIICOrientationProofs`: `OrientationTyped`, `PDAGStaysAcyclic`, `PDAGCoversSkeleton`,
  `LatentArcsKept`, `PDAGRecoversDAG`, `ForbiddenAgainstCycle`. The arcs without their reverse
  never close a cycle; each double-headed arc has its couple in `latent_couples_`, over a
  pair no other couple has; while couples are resolved, the double-headed arcs left are
  those of the couples left. As in the runs, the first properties but the typing assume
  `AcyclicWishes`. `RecoverInv` is about any DAG `G` over the skeleton that has exactly the
  v-structures the signs tell: all arcs are arcs of `G`, and a v-structure not yet there
  has its triple in the list. Triples of negative information are worked off first, and
  updateProbaTriples never takes one of them down to one half (`UpdatedTelling`), so that
  the loop cannot end, and no arrow is passed on, before all v-structures are there; an
  arrow is then passed on along `G`, since `G` has no v-structure where it could not be.
  `HeedInv` says that a mark that forbids an arc stays until that arc is added: so only the
  reverse of an arc that a v-structure asks for can be a forbidden one, and of that one the
  probe for a path has just said why. For the second side of a v-structure the probe looks at
  the graph with the first side in it; `PathBefore` shows that the path was there before.
- `DistributionsProofs`: `NetworkComponentsMatch`, `MarginalsKeepCliques`, `SampleAlwaysFits`,
  `MarginalsHangTogether`, `SimulationFollowsDensity`.
  For the network, the invariant says that every list of parents, in memory or
  saved, is one that a set filled by it would list again: so a load finds the lists
  the copulas were made for. For the cliques, equality with the maximal parts is
  not inductive; the invariant of the loop splits it in three: each part of a
  clique met so far lies in a kept one (`Covers`), each kept clique is such a part
  (`Parts`), and no kept clique lies strictly in another (`Unnested`); together
  with a lemma that maximal parts of maximal parts are maximal parts, by name, across
  the renumbering. For the sample, that dropping the remainder of a division leaves a multiple.
  For the tree of a marginal, the argument is Kruskal's, with a junction tree as the
  witness. While cliques are dropped there is always a junction tree of those that are left or still to
  come (`CliquesJoined`): a clique that lies in another lies in a neighbour of it, which
  takes over its other neighbours (`DropCovered`). While edges are taken, heaviest first,
  there is always one that has all edges taken (`EdgesJoined`): an edge that closes no
  cycle is in it, or replaces one on the path between its ends, whose separator holds
  what the ends share and so, being no heavier, is that (`HeaviestFits`, by `Swap`). In the end
  no edge of it is missing, hence the edges taken make a junction tree (`JoinInv`). For the draws, the
  nodes visited in one component of the tree are connected, so a clique shares with
  those before it just what the separator of the edge it is reached by holds (`Entered`), and the
  edges of the tree are, separator by separator, as many as the cliques that add one
  (`OrderCounts`). This is shown for any list that walks the tree, by taking its first places one by
  one (`WalkEnters`, with the least place that would not be entered from one
  before it), so that it covers an order of the caller's as well as that of getOrderMaxFirst: the density that getRealization draws from has the factors of the density that
  is computed (`DensityInv`).

The type invariants of the PC, MIIC and information modules are proved and no longer
among the runs' properties. Every safety invariant and every action property of a passing run
has its theorem.

Model-checked only: liveness, which is out of the prover's reach (`Terminates` of
`PCSkeleton`, `LearnTerminates` of `TabuList` and of `MIICSkeleton`, `CallsReturn`), and the fairness
that `SkeletonSpec` asks for; the steps of that refinement are proved
(`SearchImplementsVisits`). Of `TabuList` the proofs give half of the termination of a run, that no DAG is
met twice (`RunsImprove`). What a recursive function computes is proved only where the claim
can be a set, as `CommonTheorems` explains.

## Not modelled

The numbers: how statistics, densities and entropies come from a sample. They are
tables, so a property holds for whatever they are, and nothing is said of their
accuracy. Two assumptions on libraries that are not in this repository: that aGrUM's
hash sets list as `ListingAssumption` says, and that the base class of OpenTURNS saves
the dimension and `isCopula_` of a distribution. aGrUM's triangulation and Meek rules. Text output, traces, verbosity.
`propagatesHead` (never called), `arc_probas_` (written, never read), `getTTestWithoutCorrections` (never called),
`ContinuousPC::deriveDAG` (private, never called), `setBinNumber` (private, never called).
The conversions of tensors in `Utils`. Samples with fewer points than bins, and zero
bins (`CopulaAssumption`).

## Plan

Done: the structure learners, in order of how much rests on them, then the distributions. Next:

1. The lazy stages of `ContinuousPC` and `ContinuousMIIC` (flags, cached results, setters
   after learning, a second learnSkeleton, which clears `latent_couples_` while `pdag_`
   stays, `ContinuousMIIC.cxx:73`), composing search and orientation.
2. Proofs about these stages, with the theorems about their parts as the lemmas.
