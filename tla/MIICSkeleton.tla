----------------------------- MODULE MIICSkeleton -----------------------------
(***************************************************************************)
(* The skeleton search of ContinuousMIIC: learnSkeleton, with its steps    *)
(* initiation and iteration.  Each edge gathers conditioning variables one *)
(* by one, the best contributor first, until the information left between  *)
(* its ends is negative and it is cut, or no contributor is likely enough. *)
(* A heap holds, for the edges that are neither cut nor settled, the next  *)
(* contributor and how likely it is.                                       *)
(*                                                                         *)
(* The information left and the likelihood of a contributor are numbers of *)
(* the sample and of the settings of CorrectedMutualInformation (the mode  *)
(* of the copula, the mode and strength of the correction); they are       *)
(* integers here, likelihoods being ranks and Half the rank of 0.5.        *)
(***************************************************************************)
EXTENDS Integers, FiniteSets, MixedGraphs

CONSTANTS
  Node,         \* the variables of the sample, by their ids
  Half,         \* a contributor more likely than this is worth a try
  Settings,     \* the settings of info_ under study
  Samples,      \* the samples under study
  MaxCalls,     \* bound: calls of learnSkeleton
  MaxSwitches   \* bound: calls of the setters

Edge == EdgesOver(Node)

\* info is compute2PtCorrectedInformation, and likelihood the least of the
\* two probabilities Pnv and Pb of findBestContributor.
ASSUME MIICAssumption ==
  /\ IsFiniteSet(Node) /\ Node \subseteq Nat
  /\ Half \in Nat
  /\ \A s \in Samples :
       /\ s.info \in [Settings -> [Edge -> [SUBSET Node -> Int]]]
       /\ s.likelihood \in [Settings -> [Edge -> [SUBSET Node -> [Node -> Nat]]]]
  /\ MaxCalls \in Nat /\ MaxSwitches \in Nat

VARIABLES
  sample,    \* the sample
  settings,  \* the settings of info_
  graph,     \* the edges of skeleton_
  sepset,    \* sepset_
  rank,      \* rank_, the entries of the heap
  todo,      \* the edges initiation has still to visit
  phase,     \* "idle", "initiation" or "iteration"
  calls,     \* calls of learnSkeleton so far
  switches   \* calls of the setters so far

vars == <<sample, settings, graph, sepset, rank, todo, phase, calls, switches>>

Info(e, U) == sample.info[settings][e][U]
Likelihood(e, U, z) == sample.likelihood[settings][e][U][z]

\* What a conditioning set may gain.
Candidates(e, U) == Node \ (e \cup U)

\* The likeliest candidate, the first in the order of ids among equals.
Contributor(e, U) ==
  CHOOSE z \in Candidates(e, U) :
     \A w \in Candidates(e, U) \ {z} :
        \/ Likelihood(e, U, z) > Likelihood(e, U, w)
        \/ (Likelihood(e, U, z) = Likelihood(e, U, w) /\ z < w)

\* What findBestContributor inserts: nothing when no candidate is left.
Found(e, U) ==
  IF Candidates(e, U) = {} THEN {}
  ELSE LET z == Contributor(e, U)
       IN  {[edge |-> e, z |-> z, U |-> U, p |-> Likelihood(e, U, z)]}

\* Information that cuts an edge: initiation asks <= 0, iteration < 0.
Cuts(e, U) == Info(e, U) < 0 \/ (U = {} /\ Info(e, U) = 0)

Init ==
  /\ sample \in Samples
  /\ settings \in Settings
  /\ graph = Edge
  /\ sepset = <<>>
  /\ rank = {} /\ todo = {}
  /\ phase = "idle" /\ calls = 0 /\ switches = 0

\* setCMode, setKMode, setAlpha.
Configure(s) ==
  /\ phase = "idle"
  /\ switches < MaxSwitches
  /\ settings' = s
  /\ switches' = switches + 1
  /\ UNCHANGED <<sample, graph, sepset, rank, todo, phase, calls>>

\* learnSkeleton does its work again at each call, on the edges left.
LearnSkeleton ==
  /\ phase = "idle"
  /\ calls < MaxCalls
  /\ calls' = calls + 1
  /\ todo' = graph
  /\ phase' = "initiation"
  /\ UNCHANGED <<sample, settings, graph, sepset, rank, switches>>

\* sepset_.insert for an edge that has no entry yet.
Recorded(e, U) == sepset' = [f \in DOMAIN sepset \cup {e} |-> IF f = e THEN U ELSE sepset[f]]

\* Mutant: an independent pair gets a contributor like any other.
InitiateGreedy(e) ==
  /\ phase = "initiation"
  /\ e \in todo
  /\ todo' = todo \ {e}
  /\ rank' = rank \cup Found(e, {})
  /\ IF Cuts(e, {}) THEN Recorded(e, {}) /\ graph' = graph \ {e}
     ELSE UNCHANGED <<graph, sepset>>
  /\ UNCHANGED <<sample, settings, phase, calls, switches>>

\* The body of the loop of initiation.
Initiate(e) ==
  /\ phase = "initiation"
  /\ e \in todo
  /\ todo' = todo \ {e}
  /\ IF Cuts(e, {})
     THEN Recorded(e, {}) /\ graph' = graph \ {e} /\ UNCHANGED rank
     ELSE rank' = rank \cup Found(e, {}) /\ UNCHANGED <<graph, sepset>>
  /\ UNCHANGED <<sample, settings, phase, calls, switches>>

EndInitiation ==
  /\ phase = "initiation"
  /\ todo = {}
  /\ phase' = "iteration"
  /\ UNCHANGED <<sample, settings, graph, sepset, rank, todo, calls, switches>>

\* rank_.pop(): a contributor that is on top and likelier than not.
Pop(t) ==
  /\ phase = "iteration"
  /\ t \in rank
  /\ \A u \in rank : u.p <= t.p
  /\ t.p > Half

\* Mutant: the separator is recorded without its last contributor.
CutEarly(t) ==
  /\ Pop(t)
  /\ Cuts(t.edge, t.U \cup {t.z})
  /\ Recorded(t.edge, t.U)
  /\ graph' = graph \ {t.edge}
  /\ rank' = rank \ {t}
  /\ UNCHANGED <<sample, settings, todo, phase, calls, switches>>

\* The contributor explains the rest of the information away.
Cut(t) ==
  /\ Pop(t)
  /\ Cuts(t.edge, t.U \cup {t.z})
  /\ Recorded(t.edge, t.U \cup {t.z})
  /\ graph' = graph \ {t.edge}
  /\ rank' = rank \ {t}
  /\ UNCHANGED <<sample, settings, todo, phase, calls, switches>>

\* Mutant: the contributor is not added to the set.
ExtendNot(t) ==
  /\ Pop(t)
  /\ ~Cuts(t.edge, t.U \cup {t.z})
  /\ rank' = (rank \ {t}) \cup Found(t.edge, t.U)
  /\ UNCHANGED <<sample, settings, graph, sepset, todo, phase, calls, switches>>

\* It does not: the next one is looked for.
Extend(t) ==
  /\ Pop(t)
  /\ ~Cuts(t.edge, t.U \cup {t.z})
  /\ rank' = (rank \ {t}) \cup Found(t.edge, t.U \cup {t.z})
  /\ UNCHANGED <<sample, settings, graph, sepset, todo, phase, calls, switches>>

\* Mutant: one unlikely entry ends the loop.
EndIterationEarly ==
  /\ phase = "iteration"
  /\ rank = {} \/ \E t \in rank : t.p <= Half
  /\ rank' = {}
  /\ phase' = "idle"
  /\ UNCHANGED <<sample, settings, graph, sepset, todo, calls, switches>>

\* No entry is likely enough: what remains in the heap is thrown away.
EndIteration ==
  /\ phase = "iteration"
  /\ \A t \in rank : (\A u \in rank : u.p <= t.p) => t.p <= Half
  /\ rank' = {}
  /\ phase' = "idle"
  /\ UNCHANGED <<sample, settings, graph, sepset, todo, calls, switches>>

Entry == [edge : Edge, z : Node, U : SUBSET Node, p : Nat]

Learning ==
  \/ \E e \in Edge : Initiate(e)
  \/ EndInitiation
  \/ \E t \in rank : Cut(t)
  \/ \E t \in rank : Extend(t)
  \/ EndIteration

Next == Learning \/ LearnSkeleton \/ \E s \in Settings : Configure(s)

\* learnSkeleton is one call: once entered it runs to its end.
Fairness == WF_vars(Learning)

Spec == Init /\ [][Next]_vars /\ Fairness
-----------------------------------------------------------------------------
\* The type of every variable.
TypeOK ==
  /\ sample \in Samples
  /\ settings \in Settings
  /\ graph \subseteq Edge
  /\ DOMAIN sepset \subseteq Edge
  /\ \A e \in DOMAIN sepset : sepset[e] \subseteq Node \ e
  /\ rank \subseteq Entry
  /\ todo \subseteq Edge
  /\ phase \in {"idle", "initiation", "iteration"}
  /\ calls \in 0..MaxCalls
  /\ switches \in 0..MaxSwitches

\* Every pair of variables is an edge or has a separator, and an edge is in
\* one place only: waiting for initiation, or in the heap once, with a
\* contributor that is neither one of its ends nor already in its set.  So
\* sepset_.insert never meets a key that exists, and no edge is cut twice.
EachEdgeOnce ==
  /\ graph \cap DOMAIN sepset = {}
  /\ graph \cup DOMAIN sepset = Edge
  /\ todo \subseteq graph
  /\ \A t \in rank :
       /\ t.edge \in graph \ todo
       /\ t.z \in Candidates(t.edge, t.U)
       /\ \A u \in rank : u.edge = t.edge => u = t

\* The conditioning sets that the edge e meets, were it the only one.
Chain(e) ==
  LET c[n \in 0..Cardinality(Node)] ==
        IF n = 0 THEN {}
        ELSE IF Candidates(e, c[n-1]) = {} THEN c[n-1]
        ELSE c[n-1] \cup {Contributor(e, c[n-1])}
  IN  c

\* It is cut by the n-th of them: the earlier ones did not cut it, and each
\* time the next contributor was likelier than not.
CutBy(e, n) ==
  LET c == Chain(e)
  IN  /\ Cuts(e, c[n])
      /\ \A m \in 0..n-1 :
           /\ ~Cuts(e, c[m])
           /\ Candidates(e, c[m]) # {}
           /\ Likelihood(e, c[m], Contributor(e, c[m])) > Half

Sizes == 0..Cardinality(Node)

\* An edge is removed only by its own conditioning sets, whatever the other
\* edges are and in whatever order the heap gives them, and with the set that
\* cut it as its separator.
RemovedByItsChain ==
  [][\A e \in graph \ graph' : \E n \in Sizes : CutBy(e, n) /\ sepset'[e] = Chain(e)[n]]_vars

\* Nothing is left to cut when learnSkeleton returns: each edge it keeps
\* resists all of its conditioning sets under the present settings, also when
\* earlier calls ran under others.  With RemovedByItsChain, a second call with
\* the same settings changes nothing, and the skeleton does not depend on the
\* order of the edges.
KeptEdgesResist ==
  [][phase # "idle" /\ phase' = "idle" => \A e \in graph', n \in Sizes : ~CutBy(e, n)]_vars

\* learnSkeleton returns.
LearnTerminates == phase = "initiation" ~> phase = "idle"
=============================================================================
