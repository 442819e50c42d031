---------------------------- MODULE MIICOrientation ----------------------------
(***************************************************************************)
(* The orientation of ContinuousMIIC: learnPDAG.  The unshielded triples   *)
(* x - z - y of the skeleton are taken one by one, those of negative       *)
(* three-point information first, then the most probable.  A negative one  *)
(* asks for x -> z <- y; a positive one with an arrow into z passes it on. *)
(* An arc may meet its reverse: the two form a double-headed arc, a latent *)
(* couple, and the end of learnPDAG keeps one of the two.                  *)
(*                                                                         *)
(* The information of a triple is an integer i: its sign is that of the    *)
(* code's I3, and |i| is 100 * (1 / (1 + exp(-N |I3|)) - 1/2), from 0 to   *)
(* 50.  Probabilities are in hundredths, rounded down.                     *)
(***************************************************************************)
EXTENDS Integers, Sequences, FiniteSets, MixedGraphs

CONSTANTS
  Node,        \* the variables, by their ids
  Learned,     \* the skeletons and informations under study
  Choosable,   \* the arcs the user may ask for or forbid
  MaxAsked     \* bound: how many times the user does so

Edge == EdgesOver(Node)
Arc == ArcsOver(Node)

\* The triples of getUnshieldedTriples: z is the middle.
Place == {p \in [x : Node, y : Node, z : Node] : p.y < p.x /\ p.z \notin {p.x, p.y}}

ASSUME MIICAssumption ==
  /\ Node \subseteq Nat
  /\ \A l \in Learned :
       /\ l.skeleton \subseteq Edge
       /\ l.info \in [Place -> -50..50]
       /\ \A p \in Place : l.info[p] \notin {-1, 1}   \* no effect in hundredths
  /\ Choosable \subseteq Arc
  /\ MaxAsked \in Nat

VARIABLES
  learned,    \* the skeleton and the information of its unshielded triples
  mandatory,  \* the arcs named in the calls of addMandatoryArc
  forbidden,  \* the arcs named in the calls of addForbiddenArc
  initial,    \* initial_marks_, "o" where there is none
  edges,      \* the undirected part of pdag_
  arcs,       \* the directed part of pdag_
  marks,      \* marks: what the end z of an arc or edge x - z carries
  latent,     \* latent_couples_
  triples,    \* proba_triples
  left,       \* how many entries of latent_couples_ are left to resolve
  phase       \* "setup", "orient", "resolve" or "done"

input == <<learned, mandatory, forbidden, initial>>
vars == <<input, edges, arcs, marks, latent, triples, left, phase>>

Rev(a) == <<a[2], a[1]>>
Larger(m, n) == IF m >= n THEN m ELSE n
Size(i) == IF i >= 0 THEN i ELSE -i
Best(t) == Larger(t.px, t.py)

\* existsDirectedPath: double-headed arcs are passed over.
Single(A) == {a \in A : Rev(a) \notin A}
Reaches(A, x, y) == DirectedPath(Single(A), x, y)
ReachesIndirectly(A, x, y) == DirectedPath(Single(A) \ {<<x, y>>}, x, y)

\* The probabilities of a triple of negative information before anything is
\* oriented, and what the more probable side passes to the other.
Initial(i) == 5000 \div (100 - Size(i))

Passed(p, i) == ((p * Size(i)) \div 100) + 50

\* updateProbaTriples, for one triple.
Updated(A, t) ==
  LET floor == IF t.i <= 0 THEN Initial(t.i) ELSE 50
  IN  IF t.i <= 0 /\ t.px = 50 /\ t.py = 50 THEN [t EXCEPT !.px = floor, !.py = floor]
      ELSE IF <<t.x, t.z>> \in A /\ t.px >= floor THEN [t EXCEPT !.py = Passed(t.px, t.i)]
      ELSE IF <<t.y, t.z>> \in A /\ t.py >= floor THEN [t EXCEPT !.px = Passed(t.py, t.i)]
      ELSE t

\* getUnshieldedTriples: two neighbours of z by undirected edges that are not
\* joined by one.
UnshieldedTriples(E, A) ==
  {Updated(A, [x |-> p.x, y |-> p.y, z |-> p.z, i |-> learned.info[p], px |-> 50, py |-> 50]) :
     p \in {q \in Place : {q.x, q.z} \in E /\ {q.y, q.z} \in E /\ {q.x, q.y} \notin E}}

\* Mutant: the other sign first.
BeforePositive(t, u) ==
  \/ t.i >= 0 /\ u.i < 0
  \/ /\ t.i < 0 <=> u.i < 0
     /\ \/ Best(t) > Best(u)
        \/ Best(t) = Best(u) /\ Size(t.i) > Size(u.i)

\* GreaterTupleOnLast.
Before(t, u) ==
  \/ t.i < 0 /\ u.i >= 0
  \/ /\ t.i < 0 <=> u.i < 0
     /\ \/ Best(t) > Best(u)
        \/ Best(t) = Best(u) /\ Size(t.i) > Size(u.i)

\* proba_triples[0]: ties are sorted in any order.
First(t) == t \in triples /\ \A u \in triples : ~Before(u, t)

Init ==
  /\ learned \in Learned
  /\ mandatory = {} /\ forbidden = {}
  /\ initial = [a \in Arc |-> "o"] /\ marks = initial
  /\ edges = {} /\ arcs = {} /\ latent = <<>> /\ triples = {}
  /\ left = 0
  /\ phase = "setup"

\* initial_marks_.insert: a second mark for the same key is refused.
Marked(key, mark) ==
  /\ phase = "setup"
  /\ Cardinality(mandatory) + Cardinality(forbidden) < MaxAsked
  /\ initial[key] = "o"
  /\ initial' = [initial EXCEPT ![key] = mark]
  /\ UNCHANGED <<learned, edges, arcs, marks, latent, triples, left, phase>>

\* addMandatoryArc and addForbiddenArc mark {head, tail}.
AddMandatoryArc(a) ==
  /\ Marked(Rev(a), ">")
  /\ mandatory' = mandatory \cup {a}
  /\ UNCHANGED forbidden

AddForbiddenArc(a) ==
  /\ Marked(Rev(a), "-")
  /\ forbidden' = forbidden \cup {a}
  /\ UNCHANGED mandatory

\* The edges whose mark is an arrow become arcs: of two opposite arrows, the
\* one that the hash table lists first.
Arrows == {a \in Arc : initial[a] = ">" /\ {a[1], a[2]} \in learned.skeleton}

\* The beginning of learnPDAG, up to its loop.
LearnPDAG ==
  /\ phase = "setup"
  /\ \E A \in SUBSET Arrows :
       /\ Undirected(A) = Undirected(Arrows)
       /\ A = Single(A)
       /\ arcs' = A
       /\ edges' = learned.skeleton \ Undirected(A)
       /\ triples' = UnshieldedTriples(edges', A)
  /\ marks' = initial
  /\ phase' = "orient"
  /\ UNCHANGED <<input, latent, left>>

\* The graph as the steps of an orientation pass it on.
Now == [edges |-> edges, arcs |-> arcs, marks |-> marks, latent |-> latent]

Removed(g, e) == [g EXCEPT !.edges = @ \ {e}]
Added(g, a) == [g EXCEPT !.arcs = @ \cup {a}, !.marks[a] = ">"]
Couple(g, a) == [g EXCEPT !.latent = Append(@, a)]
Known(g, a) == \E k \in DOMAIN g.latent : g.latent[k] \in {a, Rev(a)}

\* One side of a v-structure: x -> z unless z leads to x, then z -> x.
Pointed(g, x, z) ==
  IF ~ReachesIndirectly(g.arcs, z, x)
  THEN LET h == Added(Removed(g, {x, z}), <<x, z>>)
       IN  IF <<z, x>> \in h.arcs /\ ~Known(h, <<z, x>>) THEN Couple(h, <<z, x>>) ELSE h
  ELSE IF ~ReachesIndirectly(g.arcs, x, z)
  THEN Added(Removed(g, {x, z}), <<z, x>>)
  ELSE Removed(g, {x, z})

\* Mutant: only arrows are read as marks.
VStructureUnmarked(g, t) ==
  LET mx == g.marks[<<t.x, t.z>>]
      my == g.marks[<<t.y, t.z>>]
  IN  IF mx # ">" /\ my # ">" THEN Pointed(Pointed(g, t.x, t.z), t.y, t.z)
      ELSE IF mx = ">" /\ my # ">" THEN Pointed(g, t.y, t.z)
      ELSE IF my = ">" /\ mx # ">" THEN Pointed(g, t.x, t.z)
      ELSE g

\* The v-structure: each side that has no mark, if the other has none or an
\* arrow into z.
VStructure(g, t) ==
  LET mx == g.marks[<<t.x, t.z>>]
      my == g.marks[<<t.y, t.z>>]
  IN  IF mx = "o" /\ my = "o" THEN Pointed(Pointed(g, t.x, t.z), t.y, t.z)
      ELSE IF mx = ">" /\ my = "o" THEN Pointed(g, t.y, t.z)
      ELSE IF my = ">" /\ mx = "o" THEN Pointed(g, t.x, t.z)
      ELSE g

\* The arrow into z goes on to y, unless y leads to z; it comes from y then,
\* and where y has a parent and z has none.
Onward(g, z, y) == [Added(g, <<z, y>>) EXCEPT !.marks[<<y, z>>] = "-"]
Back(g, z, y) == Couple([Added(g, <<y, z>>) EXCEPT !.marks[<<z, y>>] = "-"], <<y, z>>)
PassedOn(g, z, y) ==
  LET h == Removed(g, {z, y})
      on == ~Reaches(h.arcs, y, z)
      back == ~Reaches(h.arcs, z, y)
  IN  IF on /\ Parents(h.arcs, y) = {} THEN Onward(h, z, y)
      ELSE IF back /\ Parents(h.arcs, z) = {} THEN Back(h, z, y)
      ELSE IF on THEN Onward(h, z, y)
      ELSE IF back THEN Back(h, z, y)
      ELSE h

Propagation(g, t) ==
  LET arrow(x, y) == /\ g.marks[<<x, t.z>>] = ">"
                     /\ g.marks[<<y, t.z>>] = "o"
                     /\ g.marks[<<t.z, y>>] # "-"
  IN  IF arrow(t.x, t.y) THEN PassedOn(g, t.z, t.y)
      ELSE IF arrow(t.y, t.x) THEN PassedOn(g, t.z, t.x)
      ELSE g

Oriented(t) == IF t.i <= 0 THEN VStructure(Now, t) ELSE Propagation(Now, t)

\* The body of the loop of learnPDAG, for the first triple.
Orient(t) ==
  /\ phase = "orient"
  /\ First(t)
  /\ Best(t) > 50
  /\ LET g == Oriented(t)
     IN  /\ edges' = g.edges /\ arcs' = g.arcs /\ marks' = g.marks /\ latent' = g.latent
         /\ triples' = {Updated(g.arcs, u) : u \in triples \ {t}}
  /\ UNCHANGED <<input, left, phase>>

\* The first triple is not likelier than not: the rest is dropped.
EndOrient ==
  /\ phase = "orient"
  /\ \A t \in triples : First(t) => Best(t) <= 50
  /\ triples' = {}
  /\ left' = Len(latent)
  /\ phase' = "resolve"
  /\ UNCHANGED <<input, edges, arcs, marks, latent>>

\* Mutant: the couple still names the arc that was erased.
FlipUnlisted(a) ==
  /\ arcs' = (arcs \ {a}) \cup {Rev(a)}
  /\ UNCHANGED latent

\* Mutant: the reverse is not put back.
FlipErases(a) ==
  /\ arcs' = arcs \ {a, Rev(a)}
  /\ latent' = [latent EXCEPT ![left] = Rev(a)]

\* Resolve a couple that must not keep its arc a, and one that may.
Flip(a) ==
  /\ arcs' = (arcs \ {a}) \cup {Rev(a)}
  /\ latent' = [latent EXCEPT ![left] = Rev(a)]

Keep(a) ==
  /\ arcs' = arcs \ {Rev(a)}
  /\ UNCHANGED latent

\* Mutant: no couple is seen to close a cycle.
ResolveBlindly ==
  /\ phase = "resolve"
  /\ left > 0
  /\ Keep(latent[left])
  /\ left' = left - 1
  /\ UNCHANGED <<input, edges, marks, triples, phase>>

\* The last couple not resolved keeps its arc, or the reverse of it where the
\* arc closes a cycle.
Resolve ==
  /\ phase = "resolve"
  /\ left > 0
  /\ LET a == latent[left]
     IN  IF Reaches(arcs \ {Rev(a)}, a[2], a[1]) THEN Flip(a) ELSE Keep(a)
  /\ left' = left - 1
  /\ UNCHANGED <<input, edges, marks, triples, phase>>

Finish ==
  /\ phase = "resolve"
  /\ left = 0
  /\ phase' = "done"
  /\ UNCHANGED <<input, edges, arcs, marks, latent, triples, left>>

Next ==
  \/ \E a \in Choosable : AddMandatoryArc(a)
  \/ \E a \in Choosable : AddForbiddenArc(a)
  \/ LearnPDAG
  \/ \E t \in triples : Orient(t)
  \/ EndOrient
  \/ Resolve
  \/ Finish

Spec == Init /\ [][Next]_vars
-----------------------------------------------------------------------------
Triple == [x : Node, y : Node, z : Node, i : -50..50, px : 50..100, py : 50..100]

Couples == {latent[k] : k \in DOMAIN latent}

\* The type of every variable; a probability stays one.
TypeOK ==
  /\ learned.skeleton \subseteq Edge /\ learned.info \in [Place -> -50..50]
  /\ mandatory \subseteq Choosable /\ forbidden \subseteq Choosable
  /\ initial \in [Arc -> {"o", ">", "-"}]
  /\ edges \subseteq Edge
  /\ arcs \subseteq Arc
  /\ marks \in [Arc -> {"o", ">", "-"}]
  /\ latent \in Seq(Arc)
  /\ triples \subseteq Triple
  /\ left \in 0..Len(latent)
  /\ phase \in {"setup", "orient", "resolve", "done"}

\* The user asked for no cycle, and for no arc together with its reverse:
\* nothing checks it.
AcyclicWishes == Acyclic(Arrows)

\* The arcs of pdag_ that are not double-headed never close a cycle, and at
\* the end none is double-headed: whatever the order of the triples, and
\* though the search for paths passes over the double-headed arcs.
PDAGAcyclic ==
  AcyclicWishes =>
    /\ Acyclic(Single(arcs))
    /\ phase = "done" => arcs = Single(arcs)

\* Orienting gains or loses no adjacency: a pair of the skeleton is joined by
\* an edge or by arcs, never both, and no other pair is.
AdjacenciesKept ==
  AcyclicWishes /\ phase # "setup" =>
    /\ edges \cup Undirected(arcs) = learned.skeleton
    /\ edges \cap Undirected(arcs) = {}

\* getLatentVariables: each couple is an arc of the PDAG, in the direction that
\* was kept.
LatentResolved == AcyclicWishes /\ phase = "done" => Couples \subseteq arcs

\* An arc whose mark forbids it is added only where, as the graph is before the
\* triple is oriented, its reverse would close a cycle.  The same triple may then
\* double-head an arc of that cycle.
ForbiddenOnlyAgainstCycle ==
  [][\A a \in arcs' \ arcs : initial[a] = "-" => ReachesIndirectly(arcs, a[1], a[2])]_vars

\* Every way to direct the edges of E: those of F away from the node that
\* CHOOSE picks, the others towards it.
Directed(E, F) ==
  LET first(e) == CHOOSE n \in e : TRUE
  IN  {a \in Arc : LET e == {a[1], a[2]} IN e \in E /\ (e \in F <=> a[1] = first(e))}

\* If the signs of the information are those of some DAG over the skeleton
\* (negative exactly at its v-structures), then without marks learnPDAG
\* directs the v-structures of every such DAG, directs no edge otherwise than
\* every such DAG does, and reports no latent couple.
RecoversDAG ==
  phase = "done" /\ mandatory = {} /\ forbidden = {} =>
    LET E == learned.skeleton
        open == {p \in Place : {p.x, p.z} \in E /\ {p.y, p.z} \in E /\ {p.x, p.y} \notin E}
        colliders == {p \in open : learned.info[p] < 0}
        sides(p) == {<<p.x, p.z>>, <<p.y, p.z>>}
        wrong(G) == ~(UNION {sides(p) : p \in colliders} \subseteq arcs /\ arcs \subseteq G)
    IN  \A F \in SUBSET E :
          LET G == Directed(E, F)
          IN  wrong(G) \/ latent # <<>> =>
                \/ \E p \in open : (sides(p) \subseteq G) # (p \in colliders)
                \/ ~Acyclic(G)

\* The documentation of addMandatoryArc: the arc is in the learned graph, if
\* its ends are adjacent at all and nothing else was asked for.
MandatoryArcsAdded ==
  phase = "done" =>
    \A a \in mandatory :
      {a[1], a[2]} \in learned.skeleton /\ Rev(a) \notin mandatory => a \in arcs
=============================================================================
