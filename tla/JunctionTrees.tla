---------------------------- MODULE JunctionTrees ----------------------------
(***************************************************************************)
(* Junction trees as NamedJunctionTree holds them, and what makes one.     *)
(*                                                                         *)
(* A tree is a record of the names of its variables, in order, the clique  *)
(* of each node of its graph, as a set of positions among the names, and   *)
(* its edges, each the set of its two ends.  "Tree" is the code's word:    *)
(* the graph may fall into several components.                             *)
(***************************************************************************)
EXTENDS Integers, SequencesExt

Ids(t) == DOMAIN t.clique
Neighbours(t, c) == {d \in Ids(t) : {c, d} \in t.edge /\ d # c}

\* gum::CliqueGraph: the separator of an edge is what its ends share.
Separator(clique, e) == {v \in UNION {clique[c] : c \in e} : \A c \in e : v \in clique[c]}

\* undirectedPath(c, d): every set that no edge of E leaves holds both or none.
Joined(E, c, d) ==
  \A S \in SUBSET ((UNION E) \cup {c, d}) :
     c \in S /\ (\A e \in E : e \cap S # {} => e \subseteq S) => d \in S

StrictlyIn(A, B) == A \subseteq B /\ A # B

\* The members of F that are not empty and lie strictly within no other one.
MaximalSets(F) == {A \in F : A # {} /\ \A B \in F : ~StrictlyIn(A, B)}

\* The clique c in terms of names, and all of them.
NamedClique(t, c) == {t.names[v] : v \in t.clique[c]}
NamedCliques(t) == {NamedClique(t, c) : c \in Ids(t)}

Forest(t) == \A e \in t.edge : \A c, d \in e : c # d => ~Joined(t.edge \ {e}, c, d)

\* Two cliques that share a variable are joined through cliques that hold it.
RunningIntersection(t) ==
  \A c, d \in Ids(t) : \A v \in t.clique[c] \cap t.clique[d] :
     Joined({e \in t.edge : v \in Separator(t.clique, e)}, c, d)

\* The i-th node of the list o comes next to an earlier one, unless it is the
\* first of its component.
ComesNext(t, o, i) ==
  \A j \in 1..i-1 : Joined(t.edge, o[j], o[i]) => \E k \in 1..i-1 : {o[i], o[k]} \in t.edge

\* A list of all nodes that walks the tree.
Walk(t, o) ==
  /\ o \in Seq(Ids(t)) /\ ToSet(o) = Ids(t) /\ IsInjective(o)
  /\ \A i \in DOMAIN o : ComesNext(t, o, i)

JunctionTree(t) ==
  /\ UNION {t.clique[c] : c \in Ids(t)} = DOMAIN t.names
  /\ \A e \in t.edge : \E c, d \in Ids(t) : c # d /\ e = {c, d}
  /\ \A e \in t.edge : Separator(t.clique, e) # {}
  /\ Forest(t)
  /\ RunningIntersection(t)
=============================================================================
