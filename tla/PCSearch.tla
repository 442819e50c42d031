------------------------------- MODULE PCSearch -------------------------------
(***************************************************************************)
(* The skeleton search of PCSkeleton one test at a time: the loop of       *)
(* ContinuousPC::getSeparator over an IndicesCombinationIterator, each     *)
(* test fetching four copula densities through the StratifiedCache of      *)
(* ContinuousTTest, which inferSkeleton clears one level per size.         *)
(***************************************************************************)
EXTENDS PCSkeleton, IndicesManip, StratifiedCache, SequencesExt

CONSTANTS
  Listings,  \* the ways a hash table may list each set of nodes (FromNodeSet)
  Ends,      \* the ends of an edge: its first() and its second()
  K          \* GetK: the bins of a density, by dimension of the test

ASSUME SearchAssumption ==
  /\ Listings \subseteq [SUBSET Node -> Seq(Node)]
  /\ \A l \in Listings, S \in SUBSET Node : ToSet(l[S]) = S /\ Len(l[S]) = Cardinality(S)
  /\ Ends \in [Edge -> Node \X Node]
  /\ \A e \in Edge : e = {Ends[e][1], Ends[e][2]}
  /\ K \in [2..MaxCondSet+1 -> Nat]

VARIABLES
  search,    \* the running getSeparator: its edge, list of common neighbours,
             \* iterator, pmax and tmax
  cache,     \* cache_ of the tester
  computed   \* every density computed so far, forgotten or not

searchVars == <<vars, search, cache, computed>>

Idle == [edge |-> {}]
Searching == search.edge # {}

\* Utils::FromNodeSet: the lists a set of nodes may become.
FromNodeSet(S) == {l[S] : l \in Listings}

\* The key of a density: the list of its variables, in order, and k.
Key(l, k) == <<l, k>>

\* getLogPDF: the density of less than two variables is a constant; another
\* one that had to be computed is stored, at the level of its length.
GetLogPDF(c, l, k) == IF Len(l) < 2 THEN c ELSE CacheSet(c, Len(l), Key(l, k))

\* getLogPDFs: the densities of X, X+Y, X+Z and X+Y+Z, with one k.
GetLogPDFs(c, e, X) ==
  LET y == Ends[e][1]
      z == Ends[e][2]
      k == K[Len(X) + 2]
      c1 == GetLogPDF(c, X, k)
      c2 == GetLogPDF(c1, Append(X, y), k)
      c3 == GetLogPDF(c2, Append(X, z), k)
  IN  GetLogPDF(c3, Append(Append(X, y), z), k)

SearchInit ==
  /\ Init
  /\ search = Idle
  /\ cache = EmptyCache(MaxCondSet + 1)
  /\ computed = {}

\* The loop of testCondSetWithSize calls getSeparator on the next edge.
BeginSearch(e) ==
  /\ ~Searching
  /\ e \in DOMAIN intersections
  /\ \E base \in FromNodeSet(intersections[e]) :
       search' = [edge |-> e, base |-> base, it |-> First(size), pmax |-> -1, tmax |-> 0]
  /\ UNCHANGED <<vars, cache, computed>>

\* The list the running search tests now, and the statistic it gets.
Tested == Current(search.it, search.base)
TestedT == sample[search.edge][ToSet(Tested)]

CallTester ==
  /\ Searching
  /\ ~IsLast(search.it)
  /\ cache' = GetLogPDFs(cache, search.edge, Tested)
  /\ computed' = computed \cup cache'.keys

\* The test finds independence: getSeparator returns, the edge is removed.
FindSeparator ==
  /\ CallTester
  /\ Independent(TestedT)
  /\ sepset' = Set(sepset, search.edge, ToSet(Tested))
  /\ pvalues' = Set(pvalues, search.edge, PValue(TestedT))
  /\ ttests' = Set(ttests, search.edge, TestedT)
  /\ removed' = removed \cup {search.edge}
  /\ graph' = graph \ {search.edge}
  /\ Visited(search.edge)
  /\ search' = Idle
  /\ UNCHANGED <<sample, size>>

\* Mutant: the last test is kept, not that of the largest p-value.
TryNextKeepLast ==
  /\ CallTester
  /\ ~Independent(TestedT)
  /\ search' = [search EXCEPT
       !.it = Advance(@, Len(search.base), size),
       !.pmax = PValue(TestedT),
       !.tmax = TestedT]
  /\ UNCHANGED vars

\* The test finds dependence: the largest p-value so far is kept with its
\* statistic, the next list is tried.
TryNext ==
  /\ CallTester
  /\ ~Independent(TestedT)
  /\ search' = [search EXCEPT
       !.it = Advance(@, Len(search.base), size),
       !.pmax = IF PValue(TestedT) > @ THEN PValue(TestedT) ELSE @,
       !.tmax = IF PValue(TestedT) > search.pmax THEN TestedT ELSE @]
  /\ UNCHANGED vars

\* Every list was tried: the edge is kept.
ExhaustSearch ==
  /\ Searching
  /\ IsLast(search.it)
  /\ pvalues' = Set(pvalues, search.edge, Larger(Get(pvalues, search.edge, 0), search.pmax))
  /\ ttests' = Set(ttests, search.edge, Larger(Get(ttests, search.edge, -10000), search.tmax))
  /\ Visited(search.edge)
  /\ search' = Idle
  /\ UNCHANGED <<sample, size, graph, sepset, removed, cache, computed>>

\* Mutant: the level about to be used is cleared.
NextLevelTooHigh ==
  /\ ~Searching
  /\ NextSize
  /\ cache' = IF size' < MaxCondSet THEN ClearLevel(cache, size') ELSE cache
  /\ UNCHANGED <<search, computed>>

\* Mutant: the level cleared is one too low.
NextLevelTooLow ==
  /\ ~Searching
  /\ NextSize
  /\ cache' = IF size' < MaxCondSet /\ size > 0 THEN ClearLevel(cache, size - 1) ELSE cache
  /\ UNCHANGED <<search, computed>>

\* The next size begins by forgetting the level below it.
NextLevel ==
  /\ ~Searching
  /\ NextSize
  /\ cache' = IF size' < MaxCondSet THEN ClearLevel(cache, size) ELSE cache
  /\ UNCHANGED <<search, computed>>

SearchDone == Finished /\ UNCHANGED searchVars

SearchNext ==
  \/ \E e \in Edge : BeginSearch(e)
  \/ FindSeparator
  \/ TryNext
  \/ ExhaustSearch
  \/ NextLevel
  \/ SearchDone

\* As in PCSkeleton, a sequential loop.
SearchFairness == WF_searchVars(SearchNext)

SearchSpec == SearchInit /\ [][SearchNext]_searchVars /\ SearchFairness
-----------------------------------------------------------------------------
\* A running search holds a proper iterator over the list of its edge's
\* common neighbours, so that reading the base list at its positions is safe.
SearchTypeOK ==
  /\ Searching =>
       /\ search.edge \in DOMAIN intersections
       /\ search.it.coord \in Coords(Len(search.base), size)
       /\ search.it.carry \in BOOLEAN
  /\ cache.keys \subseteq computed

\* The map and the lists of keys by level agree, each key on one level.
CacheConsistent ==
  /\ cache.keys = UNION {cache.strata[n] : n \in DOMAIN cache.strata}
  /\ \A m, n \in DOMAIN cache.strata : m # n => cache.strata[m] \cap cache.strata[n] = {}

\* Forgetting a level never costs work: no key is computed twice in one search
\* of the skeleton (the key of a list in another order is another key).
NoDensityTwice ==
  [][\A key \in cache'.keys \ cache.keys : key \notin computed]_searchVars

\* And it is timely: once a size begins, no density is held over fewer
\* variables than the tests of that size condition on.
NoUselessDensity ==
  size < MaxCondSet => \A key \in cache.keys : Len(key[1]) >= size

\* The loop with its iterator finds a separator when there is one, and
\* otherwise reports the test of the largest p-value: it implements PCSkeleton.
Skeleton == INSTANCE PCSkeleton
SkeletonSpec == Skeleton!Spec
=============================================================================
