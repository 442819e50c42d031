-------------------------- MODULE NamedJunctionTree --------------------------
(***************************************************************************)
(* The two algorithms of NamedJunctionTree, one step of a loop at a time:  *)
(* getMarginal restricts every clique to the wanted variables, keeps those *)
(* that no other one swallows and joins them again by a heaviest spanning  *)
(* forest; getOrderMaxFirst lists the cliques component by component.      *)
(* Nodes and edges are met in the order of hash tables, that is in any     *)
(* order.  The callers of both are in JunctionTreeBernsteinCopula.         *)
(***************************************************************************)
EXTENDS JunctionTrees

VARIABLES
  phase,   \* the loop that runs: "idle" when no call does, "undefined" after
           \* a read or write out of the bounds of a vector
  tree,    \* *this: jt_ and map_
  target,  \* indices, the argument of getMarginal
  todo,    \* the nodes of jt_ not yet restricted
  kept,    \* m_jt: the cliques kept so far, renamed
  links,   \* m_jt: its edges
  sorted,  \* sortedEdges: the edges still in the buckets
  order,   \* res of getOrderMaxFirst; marked is the set of its elements
  visit    \* tbv: the nodes to be visited

treeVars == <<phase, tree, target, todo, kept, links, sorted, order, visit>>

NoTree == [names |-> <<>>, clique |-> <<>>, edge |-> {}]

TreeInit ==
  /\ phase = "idle"
  /\ tree = NoTree
  /\ target = <<>> /\ todo = {} /\ kept = <<>> /\ links = {} /\ sorted = {}
  /\ order = <<>> /\ visit = {}

-----------------------------------------------------------------------------
\* getMarginal

CallGetMarginal(t, indices) ==
  /\ phase' = "cliques"
  /\ tree' = t
  /\ target' = indices
  /\ todo' = Ids(t)
  /\ UNCHANGED <<kept, links, sorted, order, visit>>

\* m_ids gives an index its position among the indices, the last one if it is
\* there twice; the clique c is renamed by it.
LastGiven(j) == \A k \in DOMAIN target : target[k] = target[j] => k <= j
Transpose(c) == {j \in DOMAIN target : target[j] \in tree.clique[c] /\ LastGiven(j)}

Swallowed(c) == \E d \in DOMAIN kept : StrictlyIn(Transpose(c), kept[d])

SkipClique(c) ==
  /\ phase = "cliques"
  /\ c \in todo
  /\ Transpose(c) = {} \/ Swallowed(c)
  /\ todo' = todo \ {c}
  /\ UNCHANGED <<phase, tree, target, kept, links, sorted, order, visit>>

\* Mutant: the cliques the new one swallows stay.
AddCliqueKeepSwallowed(c) ==
  /\ phase = "cliques"
  /\ c \in todo
  /\ Transpose(c) # {} /\ ~Swallowed(c)
  /\ kept' = [d \in DOMAIN kept \cup {c} |-> IF d = c THEN Transpose(c) ELSE kept[d]]
  /\ todo' = todo \ {c}
  /\ UNCHANGED <<phase, tree, target, links, sorted, order, visit>>

\* The cliques that the new one swallows go.
AddClique(c) ==
  /\ phase = "cliques"
  /\ c \in todo
  /\ Transpose(c) # {} /\ ~Swallowed(c)
  /\ LET left == {d \in DOMAIN kept : ~StrictlyIn(kept[d], Transpose(c))}
     IN  kept' = [d \in left \cup {c} |-> IF d = c THEN Transpose(c) ELSE kept[d]]
  /\ todo' = todo \ {c}
  /\ UNCHANGED <<phase, tree, target, links, sorted, order, visit>>

\* The bucket of an edge: by size of separator, then edges of the tree first.
Bucket(e) == 2 * Cardinality(Separator(kept, e)) + (IF e \in tree.edge THEN 1 ELSE 0)
Buckets == 2 * (Cardinality(DOMAIN kept) + 1)

Candidates == {e \in {{c, d} : c, d \in DOMAIN kept} :
                 Cardinality(e) = 2 /\ Separator(kept, e) # {}}

\* There is no bucket for separators larger than the number of cliques:
\* inserting into one is undefined.
SortEdges ==
  /\ phase = "cliques"
  /\ todo = {}
  /\ phase' = IF \A e \in Candidates : Bucket(e) < Buckets THEN "edges" ELSE "undefined"
  /\ sorted' = Candidates
  /\ UNCHANGED <<tree, target, todo, kept, links, order, visit>>

EdgesDone ==
  /\ phase = "edges"
  /\ sorted = {} \/ Cardinality(links) = Cardinality(DOMAIN kept) - 1

\* Mutant: edges are taken from the lightest.
Lightest(e) == e \in sorted /\ \A f \in sorted : Bucket(f) >= Bucket(e)

Heaviest(e) == e \in sorted /\ \A f \in sorted : Bucket(f) <= Bucket(e)

\* Mutant: only an edge that was added leaves its bucket.
TakeEdgeKeepDropped(e) ==
  /\ phase = "edges"
  /\ ~EdgesDone
  /\ Heaviest(e)
  /\ IF \A c, d \in e : Joined(links, c, d)
     THEN UNCHANGED <<links, sorted>>
     ELSE links' = links \cup {e} /\ sorted' = sorted \ {e}
  /\ UNCHANGED <<phase, tree, target, todo, kept, order, visit>>

\* An edge whose ends no path joins yet is added, any other is dropped.
TakeEdge(e) ==
  /\ phase = "edges"
  /\ ~EdgesDone
  /\ Heaviest(e)
  /\ links' = IF \A c, d \in e : Joined(links, c, d) THEN links ELSE links \cup {e}
  /\ sorted' = sorted \ {e}
  /\ UNCHANGED <<phase, tree, target, todo, kept, order, visit>>

\* What is returned, unless checkConsistency finds a name without a clique.
Marginal ==
  [names |-> [j \in DOMAIN target |-> tree.names[target[j]]], clique |-> kept, edge |-> links]
Consistent(t) == UNION {t.clique[c] : c \in Ids(t)} = DOMAIN t.names

-----------------------------------------------------------------------------
\* getOrderMaxFirst

CallGetOrder(t) ==
  /\ phase' = "order"
  /\ tree' = t
  /\ target' = <<>> /\ todo' = {} /\ kept' = <<>> /\ links' = {} /\ sorted' = {}
  /\ UNCHANGED <<order, visit>>

Unmarked == Ids(tree) \ ToSet(order)
OrderDone == phase = "order" /\ visit = {} /\ Unmarked = {}

\* The roots to choose from: ends of the tree only, whatever their component.
Ends == {c \in Unmarked : Cardinality(Neighbours(tree, c)) <= 1}

ChooseRoot(c) ==
  /\ phase = "order"
  /\ visit = {}
  /\ c \in Ends
  /\ \A d \in Ends : Cardinality(tree.clique[d]) <= Cardinality(tree.clique[c])
  /\ visit' = {c}
  /\ UNCHANGED <<phase, tree, target, todo, kept, links, sorted, order>>

\* Mutant: every unmarked node may come next, not only a neighbour.
VisitAny(c) ==
  /\ phase = "order"
  /\ c \in visit
  /\ order' = Append(order, c)
  /\ visit' = Unmarked \ {c}
  /\ UNCHANGED <<phase, tree, target, todo, kept, links, sorted>>

VisitNode(c) ==
  /\ phase = "order"
  /\ c \in visit
  /\ order' = Append(order, c)
  /\ visit' = (visit \ {c}) \cup (Neighbours(tree, c) \ ToSet(order'))
  /\ UNCHANGED <<phase, tree, target, todo, kept, links, sorted>>

\* The call returns or throws, its local variables go.
Return ==
  /\ phase' = "idle"
  /\ tree' = NoTree
  /\ target' = <<>> /\ todo' = {} /\ kept' = <<>> /\ links' = {} /\ sorted' = {}
  /\ order' = <<>> /\ visit' = {}

\* A step of the call that runs.
TreeStep ==
  \/ \E c \in todo : SkipClique(c) \/ AddClique(c)
  \/ SortEdges
  \/ \E e \in sorted : TakeEdge(e)
  \/ \E c \in Unmarked : ChooseRoot(c)
  \/ \E c \in visit : VisitNode(c)
=============================================================================
