----------------------------- MODULE DSeparation -----------------------------
(***************************************************************************)
(* The reference the PC learner is compared with: the conditional          *)
(* independences of the distributions that are faithful to a DAG.          *)
(***************************************************************************)
EXTENDS PCData

\* The nodes of M and those with a directed path to one of them.
Ancestral(G, M) == {n \in Node : \E m \in M : DirectedPath(G, n, m)}

Moral(G) ==
  Undirected(G) \cup
  {e \in Edge : \E y \in Node : \A x \in e : <<x, y>> \in G}

\* Removing S from the graph E disconnects the ends of e.
Disconnected(E, e, S) ==
  \E T \in SUBSET (Node \ S) :
     /\ Cardinality(e \cap T) = 1
     /\ \A f \in E : f \cap S = {} => f \subseteq T \/ f \cap T = {}

\* d-separation: S disconnects e in the moral graph of their ancestors.
DSeparated(G, e, S) ==
  LET anc == Ancestral(G, e \cup S)
      above == {g \in G : g[1] \in anc /\ g[2] \in anc}
  IN  Disconnected(Moral(above), e, S)

\* A sample large enough for its tests to tell exactly the d-separations of G.
Faithful(G) ==
  [e \in Edge |-> [S \in SUBSET Node |->
     IF S \subseteq Node \ e /\ DSeparated(G, e, S) THEN 0 ELSE Scale]]
=============================================================================
