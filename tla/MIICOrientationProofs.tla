------------------------- MODULE MIICOrientationProofs -------------------------
(***************************************************************************)
(* What learnPDAG guarantees for every skeleton, every information of its  *)
(* triples, every order of ties and every choice of marks.                 *)
(*                                                                         *)
(* The arcs that are not double-headed never close a cycle: an arc is      *)
(* added only if its head does not lead to its tail by single arcs, and    *)
(* one that meets its reverse takes that one out of the single arcs.  To   *)
(* know that no double-headed arc is left at the end, the invariant says   *)
(* that each of them has its couple in latent_couples_, and that no two    *)
(* couples are over the same pair.                                         *)
(*                                                                         *)
(* If the signs of the information are those of a DAG G, every arc added   *)
(* is one of G: the triples of negative information come first, none of    *)
(* them drops to one half, and each points along G, where no path of arcs  *)
(* of G leads back.  All v-structures are there when the first arrow is    *)
(* passed on, and what is passed on along no v-structure of G is along G.  *)
(*                                                                         *)
(* A mark that forbids an arc stays until the arc is added, so that only   *)
(* the reverse of an arc a v-structure asks for can be a forbidden one.    *)
(***************************************************************************)
EXTENDS MIICOrientation, CommonTheorems, SequenceTheorems

Graph == [edges : SUBSET Edge, arcs : SUBSET Arc,
          marks : [Arc -> {"o", ">", "-"}], latent : Seq(Arc)]

\* A couple is an arc of the graph, and the only one over its pair.
Listed(g) ==
  \A k \in DOMAIN g.latent :
    /\ g.latent[k] \in g.arcs
    /\ \A j \in DOMAIN g.latent : g.latent[j] \in {g.latent[k], Rev(g.latent[k])} => j = k

Covers(g) ==
  /\ g.edges \cup Undirected(g.arcs) = learned.skeleton
  /\ g.edges \cap Undirected(g.arcs) = {}

\* What an orientation keeps of a graph.
Sound(g) ==
  /\ g \in Graph
  /\ Acyclic(Single(g.arcs))
  /\ Covers(g)
  /\ \A a \in g.arcs : g.marks[a] # "o"
  /\ \A a \in g.arcs : Rev(a) \in g.arcs => Known(g, a)
  /\ Listed(g)
-----------------------------------------------------------------------------
LEMMA ArcOf ==
  ASSUME NEW u \in Node, NEW v \in Node, u # v
  PROVE  <<u, v>> \in Arc /\ Rev(<<u, v>>) = <<v, u>>
BY DEF Arc, ArcsOver, Rev

LEMMA RevFacts ==
  ASSUME NEW a \in Arc
  PROVE  /\ a = <<a[1], a[2]>> /\ a[1] \in Node /\ a[2] \in Node /\ a[1] # a[2]
         /\ Rev(a) \in Arc /\ Rev(Rev(a)) = a /\ Rev(a) # a
         /\ Rev(a)[1] = a[2] /\ Rev(a)[2] = a[1]
BY DEF Arc, ArcsOver, Rev

LEMMA UndirectedAdd ==
  ASSUME NEW A, NEW a
  PROVE  Undirected(A \cup {a}) = Undirected(A) \cup {{a[1], a[2]}}
BY DEF Undirected

\* The single arcs after the arc <<u, v>> has been added.
LEMMA SingleAdd ==
  ASSUME NEW A \in SUBSET Arc, NEW u \in Node, NEW v \in Node, u # v
  PROVE  Single(A \cup {<<u, v>>}) \subseteq (Single(A) \ {<<v, u>>}) \cup {<<u, v>>}
<1> SUFFICES ASSUME NEW b \in Single(A \cup {<<u, v>>}), b # <<u, v>>
             PROVE  b \in Single(A) /\ b # <<v, u>>
  OBVIOUS
<1>1. b \in A /\ Rev(b) \notin A /\ Rev(b) # <<u, v>>
  BY DEF Single
<1> QED
  BY <1>1, ArcOf DEF Single

LEMMA NoIndirectPath ==
  ASSUME NEW A, NEW u, NEW v, ~Reaches(A, v, u)
  PROVE  ~ReachesIndirectly(A, v, u)
<1>1. PICK T : v \in T /\ u \notin T /\ ClosedUnder(T, Single(A))
  BY NoPath DEF Reaches
<1>2. ClosedUnder(T, Single(A) \ {<<v, u>>})
  BY <1>1 DEF ClosedUnder
<1> QED
  BY <1>1, <1>2, PathStaysIn DEF ReachesIndirectly

WithArc(g, u, v) == Added(Removed(g, {u, v}), <<u, v>>)

\* The arc u -> v in the place of an edge, where v does not lead to u.
LEMMA AddedFacts ==
  ASSUME NEW g, Sound(g), NEW u \in Node, NEW v \in Node, u # v,
         {u, v} \in learned.skeleton, ~ReachesIndirectly(g.arcs, v, u)
  PROVE  /\ WithArc(g, u, v) \in Graph
         /\ WithArc(g, u, v).edges = g.edges \ {{u, v}}
         /\ WithArc(g, u, v).arcs = g.arcs \cup {<<u, v>>}
         /\ WithArc(g, u, v).marks = [g.marks EXCEPT ![<<u, v>>] = ">"]
         /\ WithArc(g, u, v).latent = g.latent
         /\ Acyclic(Single(WithArc(g, u, v).arcs))
         /\ Covers(WithArc(g, u, v))
         /\ \A a \in WithArc(g, u, v).arcs : WithArc(g, u, v).marks[a] # "o"
<1> DEFINE h == WithArc(g, u, v)
<1> DEFINE n == <<u, v>>
<1>1. n \in Arc /\ n[1] = u /\ n[2] = v
  BY ArcOf
<1>2. g \in Graph
  BY DEF Sound
<1>3. /\ h.edges = g.edges \ {{u, v}} /\ h.arcs = g.arcs \cup {n}
      /\ h.marks = [g.marks EXCEPT ![n] = ">"] /\ h.latent = g.latent
      /\ h \in Graph
  BY <1>1, <1>2 DEF Added, Removed, Graph, WithArc
<1> HIDE DEF h
<1>4. Acyclic(Single(h.arcs))
  <2> DEFINE B == Single(g.arcs) \ {<<v, u>>}
  <2>1. Acyclic(B)
    BY AcyclicSubset DEF Sound
  <2>2. Acyclic(B \cup {n})
    BY <2>1, AcyclicAddArc DEF ReachesIndirectly
  <2>3. Single(h.arcs) \subseteq B \cup {n}
    BY <1>2, <1>3, SingleAdd DEF Graph
  <2> QED
    BY <2>2, <2>3, AcyclicSubset
<1>5. Covers(h)
  <2>1. Undirected(h.arcs) = Undirected(g.arcs) \cup {{n[1], n[2]}}
    <3> HIDE DEF n
    <3> QED
      BY <1>3, UndirectedAdd
  <2> DEFINE e == {u, v}
  <2>2. Undirected(h.arcs) = Undirected(g.arcs) \cup {e} /\ h.edges = g.edges \ {e}
    BY <1>3, <2>1
  <2>3. Covers(g) /\ e \in learned.skeleton
    BY DEF Sound
  <2> HIDE DEF e
  <2> QED
    BY <2>2, <2>3 DEF Covers
<1>6. \A a \in h.arcs : h.marks[a] # "o"
  BY <1>2, <1>3 DEF Sound, Graph
<1> QED
  BY <1>3, <1>4, <1>5, <1>6 DEF h

\* One side of a v-structure keeps the graph sound, and changes no mark but
\* those of its own pair.
LEMMA PointedSound ==
  ASSUME NEW g, Sound(g), NEW x \in Node, NEW z \in Node, x # z,
         {x, z} \in learned.skeleton, g.marks[<<x, z>>] = "o"
  PROVE  /\ Sound(Pointed(g, x, z))
         /\ \A a \in Arc : a \notin {<<x, z>>, <<z, x>>} => Pointed(g, x, z).marks[a] = g.marks[a]
<1> DEFINE p == Pointed(g, x, z)
<1>1. g \in Graph /\ <<x, z>> \notin g.arcs
  BY DEF Sound
<1>2. <<x, z>> \in Arc /\ <<z, x>> \in Arc /\ Rev(<<x, z>>) = <<z, x>> /\ Rev(<<z, x>>) = <<x, z>>
  BY ArcOf
<1>3. CASE ~ReachesIndirectly(g.arcs, z, x)
  <2> DEFINE h == WithArc(g, x, z)
             n == <<x, z>>
             r == <<z, x>>
             b == r \in h.arcs /\ ~Known(h, r)
  <2>1. /\ h \in Graph
        /\ h.arcs = g.arcs \cup {n}
        /\ h.marks = [g.marks EXCEPT ![n] = ">"]
        /\ h.latent = g.latent
        /\ Acyclic(Single(h.arcs)) /\ Covers(h)
        /\ \A a \in h.arcs : h.marks[a] # "o"
    BY <1>3, AddedFacts
  <2>2. p = IF b THEN Couple(h, r) ELSE h
    BY <1>3 DEF Pointed, WithArc
  <2> HIDE DEF h, n, r, b
  <2>3. n \in Arc /\ r \in Arc /\ Rev(n) = r /\ Rev(r) = n /\ n \notin g.arcs /\ n # r
    BY <1>1, <1>2 DEF n, r
  <2>4. \A a \in h.arcs : Rev(a) \in h.arcs => Known(g, a) \/ a \in {n, r}
    <3> SUFFICES ASSUME NEW a \in h.arcs, Rev(a) \in h.arcs, a \notin {n, r}
                 PROVE  Known(g, a)
      OBVIOUS
    <3>1. a \in Arc /\ Rev(Rev(a)) = a
      BY <2>1, RevFacts DEF Graph
    <3>2. a \in g.arcs /\ Rev(a) \in g.arcs
      BY <2>1, <2>3, <3>1
    <3> QED
      BY <3>2 DEF Sound
  <2>5. \A a \in Arc : a \notin {n, r} => h.marks[a] = g.marks[a]
    BY <1>1, <2>1 DEF Graph
  <2>6. Listed(h)
    BY <2>1 DEF Listed, Sound
  <2>7. CASE b
    <3>1. p = [h EXCEPT !.latent = Append(@, r)]
      BY <2>2, <2>7 DEF Couple
    <3>2. /\ p \in Graph /\ p.arcs = h.arcs /\ p.edges = h.edges /\ p.marks = h.marks
          /\ p.latent = Append(h.latent, r)
      <4>1. Append(h.latent, r) \in Seq(Arc)
        BY <2>1, <2>3 DEF Graph
      <4> QED
        BY <2>1, <3>1, <4>1 DEF Graph
    <3> DEFINE L == Len(h.latent)
    <3>3. /\ L \in Nat /\ DOMAIN h.latent = 1..L /\ DOMAIN p.latent = 1..(L + 1)
          /\ p.latent[L + 1] = r
          /\ \A k \in 1..L : p.latent[k] = h.latent[k]
      BY <2>1, <2>3, <3>2 DEF Graph
    <3>4. \A k \in 1..L : h.latent[k] \notin {n, r}
      BY <2>3, <2>7, <3>3 DEF b, Known
    <3>5. \A k \in 1..L : h.latent[k] \in Arc /\ Rev(Rev(h.latent[k])) = h.latent[k]
      BY <2>1, <3>3, RevFacts DEF Graph
    <3>6. Listed(p)
      BY <2>3, <2>6, <2>7, <3>2, <3>3, <3>4, <3>5 DEF Listed, b
    <3>7. \A a \in p.arcs : Rev(a) \in p.arcs => Known(p, a)
      BY <2>1, <2>3, <2>4, <3>2, <3>3 DEF Known
    <3>8. Sound(p)
      BY <2>1, <3>2, <3>6, <3>7 DEF Sound, Covers
    <3> QED
      BY <2>5, <3>2, <3>8 DEF n, r
  <2>8. CASE ~b
    <3>1. p = h
      BY <2>2, <2>8
    <3>2. \A a \in h.arcs : Rev(a) \in h.arcs => Known(h, a)
      BY <2>1, <2>3, <2>4, <2>8 DEF Known, b
    <3>3. Sound(p)
      BY <2>1, <2>6, <3>1, <3>2 DEF Sound
    <3> QED
      BY <2>5, <3>1, <3>3 DEF n, r
  <2> QED
    BY <2>7, <2>8
<1>4. CASE ReachesIndirectly(g.arcs, z, x)
  <2>1. ~ReachesIndirectly(g.arcs, x, z)
    <3> DEFINE S == Single(g.arcs)
    <3>1. \A a \in S : a = <<a[1], a[2]>>
      BY <1>1, RevFacts DEF Graph, Single
    <3>2. Acyclic(S)
      BY DEF Sound
    <3>3. DirectedPath(S, z, x)
      BY <1>4, NoIndirectPath DEF Reaches
    <3>4. ~DirectedPath(S, x, z)
      BY <3>1, <3>2, <3>3, NoTwoWays
    <3> QED
      BY <3>4, NoIndirectPath DEF Reaches
  <2> DEFINE h == WithArc(g, z, x)
             n == <<z, x>>
             r == <<x, z>>
  <2>2. /\ h \in Graph
        /\ h.arcs = g.arcs \cup {n}
        /\ h.marks = [g.marks EXCEPT ![n] = ">"]
        /\ h.latent = g.latent
        /\ Acyclic(Single(h.arcs)) /\ Covers(h)
        /\ \A a \in h.arcs : h.marks[a] # "o"
    <3>1. {z, x} \in learned.skeleton
      OBVIOUS
    <3> QED
      BY <2>1, <3>1, AddedFacts
  <2>3. p = h
    <3>1. {x, z} = {z, x}
      OBVIOUS
    <3> QED
      BY <1>4, <2>1, <3>1 DEF Pointed, WithArc
  <2> HIDE DEF h, n, r
  <2>4. n \in Arc /\ r \in Arc /\ Rev(n) = r /\ Rev(r) = n /\ r \notin g.arcs /\ n # r
    BY <1>1, <1>2 DEF n, r
  <2>5. \A a \in h.arcs : Rev(a) \in h.arcs => Known(h, a)
    <3> SUFFICES ASSUME NEW a \in h.arcs, Rev(a) \in h.arcs
                 PROVE  Known(h, a)
      OBVIOUS
    <3>1. a \in Arc /\ Rev(Rev(a)) = a
      BY <2>2, RevFacts DEF Graph
    <3>2. a \in g.arcs /\ Rev(a) \in g.arcs
      BY <2>2, <2>4, <3>1
    <3> QED
      BY <2>2, <3>2 DEF Sound, Known
  <2>6. Listed(h)
    BY <2>2 DEF Listed, Sound
  <2>7. Sound(p)
    BY <2>2, <2>3, <2>5, <2>6 DEF Sound
  <2>8. \A a \in Arc : a \notin {n, r} => h.marks[a] = g.marks[a]
    BY <1>1, <2>2 DEF Graph
  <2> QED
    BY <2>3, <2>7, <2>8 DEF n, r
<1> QED
  BY <1>3, <1>4

\* Passing the arrow on to y.
LEMMA OnwardSound ==
  ASSUME NEW g, Sound(g), NEW y \in Node, NEW z \in Node, y # z,
         {z, y} \in learned.skeleton, <<y, z>> \notin g.arcs, ~Reaches(g.arcs, y, z)
  PROVE  Sound(Onward(Removed(g, {z, y}), z, y))
<1> DEFINE h == WithArc(g, z, y)
           n == <<z, y>>
           r == <<y, z>>
           p == Onward(Removed(g, {z, y}), z, y)
<1>1. /\ h \in Graph
      /\ h.arcs = g.arcs \cup {n}
      /\ h.marks = [g.marks EXCEPT ![n] = ">"]
      /\ h.latent = g.latent
      /\ Acyclic(Single(h.arcs)) /\ Covers(h)
      /\ \A a \in h.arcs : h.marks[a] # "o"
  <2>1. ~ReachesIndirectly(g.arcs, y, z)
    BY NoIndirectPath
  <2>2. z # y
    OBVIOUS
  <2> QED
    BY <2>1, <2>2, AddedFacts
<1>2. p = [h EXCEPT !.marks[r] = "-"]
  BY DEF Onward, WithArc
<1>3. n \in Arc /\ r \in Arc /\ Rev(n) = r /\ Rev(r) = n /\ n # r
  BY ArcOf
<1>4. g \in Graph
  BY DEF Sound
<1> HIDE DEF h, n, r, p
<1>5. /\ p \in Graph /\ p.edges = h.edges /\ p.arcs = h.arcs /\ p.latent = h.latent
      /\ p.marks = [h.marks EXCEPT ![r] = "-"]
  BY <1>1, <1>2, <1>3 DEF Graph
<1>6. \A a \in p.arcs : p.marks[a] # "o"
  BY <1>1, <1>3, <1>5 DEF Graph
<1>7. \A a \in p.arcs : Rev(a) \in p.arcs => Known(p, a)
  <2> SUFFICES ASSUME NEW a \in p.arcs, Rev(a) \in p.arcs
               PROVE  Known(p, a)
    OBVIOUS
  <2>1. a \in Arc /\ Rev(Rev(a)) = a
    BY <1>5, RevFacts DEF Graph
  <2>2. a \in g.arcs /\ Rev(a) \in g.arcs
    BY <1>1, <1>3, <1>5, <2>1 DEF r
  <2> QED
    BY <1>1, <1>5, <2>2 DEF Sound, Known
<1>8. Listed(p)
  BY <1>1, <1>5 DEF Listed, Sound
<1> QED
  BY <1>1, <1>5, <1>6, <1>7, <1>8 DEF Sound, Covers, p

\* Letting it come from y: a new arc, whose couple is new as well.
LEMMA BackSound ==
  ASSUME NEW g, Sound(g), NEW y \in Node, NEW z \in Node, y # z,
         {z, y} \in learned.skeleton, <<y, z>> \notin g.arcs, ~Reaches(g.arcs, z, y)
  PROVE  Sound(Back(Removed(g, {z, y}), z, y))
<1> DEFINE h == WithArc(g, y, z)
           n == <<y, z>>
           r == <<z, y>>
           p == Back(Removed(g, {z, y}), z, y)
<1>0. {z, y} = {y, z}
  OBVIOUS
<1>1. /\ h \in Graph
      /\ h.arcs = g.arcs \cup {n}
      /\ h.marks = [g.marks EXCEPT ![n] = ">"]
      /\ h.latent = g.latent
      /\ Acyclic(Single(h.arcs)) /\ Covers(h)
      /\ \A a \in h.arcs : h.marks[a] # "o"
  <2>1. ~ReachesIndirectly(g.arcs, z, y)
    BY NoIndirectPath
  <2>2. {y, z} \in learned.skeleton
    BY <1>0
  <2> QED
    BY <2>1, <2>2, AddedFacts
<1>2. p = [[h EXCEPT !.marks[r] = "-"] EXCEPT !.latent = Append(@, n)]
  BY <1>0 DEF Back, Couple, WithArc
<1>3. n \in Arc /\ r \in Arc /\ Rev(n) = r /\ Rev(r) = n /\ n # r
  BY ArcOf
<1>4. g \in Graph
  BY DEF Sound
<1>5. n \notin g.arcs /\ r \notin g.arcs
  <2>1. r \in g.arcs => r \in Single(g.arcs)
    BY <1>3 DEF Single
  <2>2. r \notin Single(g.arcs)
    BY PathOfArc DEF Reaches
  <2> QED
    BY <2>1, <2>2
<1> HIDE DEF h, n, r, p
<1>6. Append(h.latent, n) \in Seq(Arc)
  BY <1>1, <1>3 DEF Graph
<1>7. /\ p \in Graph /\ p.edges = h.edges /\ p.arcs = h.arcs
      /\ p.latent = Append(h.latent, n)
      /\ p.marks = [h.marks EXCEPT ![r] = "-"]
  BY <1>1, <1>2, <1>3, <1>6 DEF Graph
<1>8. \A a \in p.arcs : p.marks[a] # "o"
  BY <1>1, <1>3, <1>7 DEF Graph
<1> DEFINE L == Len(h.latent)
<1>9. /\ L \in Nat /\ DOMAIN h.latent = 1..L /\ DOMAIN p.latent = 1..(L + 1)
      /\ p.latent[L + 1] = n
      /\ \A k \in 1..L : p.latent[k] = h.latent[k]
  BY <1>1, <1>3, <1>7 DEF Graph
<1>10. \A k \in 1..L : h.latent[k] \in g.arcs /\ h.latent[k] \in Arc
  BY <1>1, <1>4, <1>9 DEF Sound, Listed, Graph
<1>11. \A a \in p.arcs : Rev(a) \in p.arcs => Known(p, a)
  <2> SUFFICES ASSUME NEW a \in p.arcs, Rev(a) \in p.arcs
               PROVE  Known(p, a)
    OBVIOUS
  <2>1. a \in Arc /\ Rev(Rev(a)) = a
    BY <1>7, RevFacts DEF Graph
  <2>2. a \in g.arcs /\ Rev(a) \in g.arcs
    BY <1>1, <1>3, <1>5, <1>7, <2>1
  <2>3. PICK k \in DOMAIN g.latent : g.latent[k] \in {a, Rev(a)}
    BY <2>2 DEF Sound, Known
  <2> QED
    BY <1>1, <1>9, <2>3 DEF Known
<1>12. \A k \in 1..L : h.latent[k] \notin {n, r}
  BY <1>5, <1>10
<1>13. \A k \in 1..L : Rev(h.latent[k]) \notin {n, r}
  BY <1>3, <1>10, <1>12, RevFacts
<1>14. Listed(p)
  <2>1. Listed(h)
    BY <1>1 DEF Listed, Sound
  <2> QED
    BY <1>3, <1>7, <1>9, <1>1, <1>12, <1>13, <2>1 DEF Listed
<1> QED
  BY <1>1, <1>7, <1>8, <1>11, <1>14 DEF Sound, Covers, p

LEMMA PassedOnSound ==
  ASSUME NEW g, Sound(g), NEW y \in Node, NEW z \in Node, y # z,
         {z, y} \in learned.skeleton, g.marks[<<y, z>>] = "o"
  PROVE  Sound(PassedOn(g, z, y))
<1> DEFINE h == Removed(g, {z, y})
<1>1. g \in Graph /\ <<y, z>> \notin g.arcs
  BY DEF Sound
<1>2. h.arcs = g.arcs
  BY <1>1 DEF Removed, Graph
<1>3. ~Reaches(g.arcs, y, z) \/ ~Reaches(g.arcs, z, y)
  <2> DEFINE S == Single(g.arcs)
  <2>1. \A a \in S : a = <<a[1], a[2]>>
    BY <1>1, RevFacts DEF Graph, Single
  <2>2. Acyclic(S)
    BY DEF Sound
  <2> QED
    BY <2>1, <2>2, NoTwoWays DEF Reaches
<1>4. ~Reaches(g.arcs, y, z) => Sound(Onward(h, z, y))
  BY <1>1, OnwardSound
<1>5. ~Reaches(g.arcs, z, y) => Sound(Back(h, z, y))
  BY <1>1, BackSound
<1> QED
  BY <1>2, <1>3, <1>4, <1>5 DEF PassedOn
-----------------------------------------------------------------------------
\* Probabilities stay probabilities.
LEMMA InitialRange ==
  ASSUME NEW i \in -50..50
  PROVE  Initial(i) \in 50..100 /\ Size(i) \in 0..50
<1>1. Size(i) \in 0..50 /\ 100 - Size(i) \in 50..100
  BY DEF Size
<1>2. \A d \in 50..100 : 5000 \div d \in 50..100
  BY Z3
<1> QED
  BY <1>1, <1>2 DEF Initial

LEMMA HundredthsRange ==
  ASSUME NEW p \in 50..100, NEW s \in 0..50
  PROVE  ((p * s) \div 100) + 50 \in 50..100
<1>1. PICK m : m = p * s
  OBVIOUS
<1>2. m \in 0..5000
  BY <1>1, SMTT(20)
<1>3. (m \div 100) + 50 \in 50..100
  BY <1>2, SMT
<1> QED
  BY <1>1, <1>3

LEMMA PassedRange ==
  ASSUME NEW i \in -50..50, NEW p \in 50..100
  PROVE  Passed(p, i) \in 50..100
<1>1. Size(i) \in 0..50
  BY DEF Size
<1>2. ((p * Size(i)) \div 100) + 50 \in 50..100
  BY <1>1, HundredthsRange
<1> QED
  BY <1>2 DEF Passed

LEMMA UpdatedTyped ==
  ASSUME NEW A, NEW t \in Triple
  PROVE  /\ Updated(A, t) \in Triple
         /\ Updated(A, t).x = t.x /\ Updated(A, t).y = t.y /\ Updated(A, t).z = t.z
<1>1. t.i \in -50..50 /\ t.px \in 50..100 /\ t.py \in 50..100
  BY DEF Triple
<1>2. Initial(t.i) \in 50..100
  BY <1>1, InitialRange
<1>3. Passed(t.px, t.i) \in 50..100 /\ Passed(t.py, t.i) \in 50..100
  BY <1>1, PassedRange
<1> QED
  BY <1>2, <1>3 DEF Updated, Triple

\* The triples are unshielded triples of the skeleton.
TriplesOfSkeleton ==
  \A t \in triples :
    /\ t.x # t.y /\ t.x # t.z /\ t.y # t.z
    /\ {t.x, t.z} \in learned.skeleton /\ {t.y, t.z} \in learned.skeleton

EmptyBefore ==
  phase = "setup" => edges = {} /\ arcs = {} /\ latent = <<>> /\ triples = {}

SoundWhileOrienting == AcyclicWishes /\ phase = "orient" => Sound(Now)

\* While the couples are resolved, each double-headed arc is one of those left.
Resolving ==
  AcyclicWishes /\ phase \in {"resolve", "done"} =>
    /\ Acyclic(Single(arcs))
    /\ Covers(Now)
    /\ Listed(Now)
    /\ \A a \in arcs : Rev(a) \in arcs => \E k \in 1..left : latent[k] \in {a, Rev(a)}

NothingLeft == phase # "resolve" => left = 0

IndInv ==
  TypeOK /\ TriplesOfSkeleton /\ EmptyBefore /\ NothingLeft /\ SoundWhileOrienting /\ Resolving

\* What the steps say of the graph Now.
LEMMA NowTyped ==
  ASSUME TypeOK
  PROVE  /\ Now \in Graph
         /\ Now.edges = edges /\ Now.arcs = arcs /\ Now.marks = marks /\ Now.latent = latent
BY DEF TypeOK, Now, Graph

\* The loop's body keeps the graph sound.
LEMMA OrientedSound ==
  ASSUME TypeOK, TriplesOfSkeleton, Sound(Now), NEW t \in triples
  PROVE  Sound(Oriented(t))
<1>1. /\ t.x \in Node /\ t.y \in Node /\ t.z \in Node
      /\ t.x # t.y /\ t.x # t.z /\ t.y # t.z
      /\ {t.x, t.z} \in learned.skeleton /\ {t.y, t.z} \in learned.skeleton
  BY DEF TypeOK, Triple, TriplesOfSkeleton
<1>2. {t.z, t.x} \in learned.skeleton /\ {t.z, t.y} \in learned.skeleton
  <2>1. {t.z, t.x} = {t.x, t.z} /\ {t.z, t.y} = {t.y, t.z}
    OBVIOUS
  <2> QED
    BY <1>1, <2>1
<1> DEFINE x == t.x
           y == t.y
           z == t.z
           g == Now
<1>3. Sound(VStructure(g, t))
  <2>1. CASE g.marks[<<x, z>>] = "o" /\ g.marks[<<y, z>>] = "o"
    <3>1. /\ Sound(Pointed(g, x, z))
          /\ \A a \in Arc : a \notin {<<x, z>>, <<z, x>>} => Pointed(g, x, z).marks[a] = g.marks[a]
      BY <1>1, <2>1, PointedSound
    <3>2. <<y, z>> \in Arc /\ <<y, z>> \notin {<<x, z>>, <<z, x>>}
      BY <1>1, ArcOf
    <3>3. Pointed(g, x, z).marks[<<y, z>>] = "o"
      BY <2>1, <3>1, <3>2
    <3>4. Sound(Pointed(Pointed(g, x, z), y, z))
      BY <1>1, <3>1, <3>3, PointedSound
    <3> QED
      BY <2>1, <3>4 DEF VStructure
  <2>2. g.marks[<<x, z>>] = "o" => Sound(Pointed(g, x, z))
    BY <1>1, PointedSound
  <2>3. g.marks[<<y, z>>] = "o" => Sound(Pointed(g, y, z))
    BY <1>1, PointedSound
  <2> QED
    BY <2>1, <2>2, <2>3 DEF VStructure
<1>4. Sound(Propagation(g, t))
  <2>1. g.marks[<<y, z>>] = "o" => Sound(PassedOn(g, z, y))
    BY <1>1, <1>2, PassedOnSound
  <2>2. g.marks[<<x, z>>] = "o" => Sound(PassedOn(g, z, x))
    BY <1>1, <1>2, PassedOnSound
  <2> QED
    BY <2>1, <2>2 DEF Propagation
<1> QED
  BY <1>3, <1>4 DEF Oriented
-----------------------------------------------------------------------------
\* Whatever the user asked for, the steps keep the types.
LEMMA AddedTyped ==
  ASSUME NEW g \in Graph, NEW e, NEW a \in Arc
  PROVE  Added(Removed(g, e), a) \in Graph /\ Removed(g, e) \in Graph
BY DEF Added, Removed, Graph

LEMMA CoupleTyped ==
  ASSUME NEW g \in Graph, NEW a \in Arc
  PROVE  Couple(g, a) \in Graph
<1>1. Append(g.latent, a) \in Seq(Arc)
  BY DEF Graph
<1> QED
  BY <1>1 DEF Couple, Graph

LEMMA PointedTyped ==
  ASSUME NEW g \in Graph, NEW x \in Node, NEW z \in Node, x # z
  PROVE  Pointed(g, x, z) \in Graph
<1>1. <<x, z>> \in Arc /\ <<z, x>> \in Arc
  BY ArcOf
<1> DEFINE h == Added(Removed(g, {x, z}), <<x, z>>)
<1>2. h \in Graph /\ Added(Removed(g, {x, z}), <<z, x>>) \in Graph /\ Removed(g, {x, z}) \in Graph
  BY <1>1, AddedTyped
<1>3. Couple(h, <<z, x>>) \in Graph
  BY <1>1, <1>2, CoupleTyped
<1> QED
  BY <1>2, <1>3 DEF Pointed

LEMMA PassedOnTyped ==
  ASSUME NEW g \in Graph, NEW y \in Node, NEW z \in Node, y # z
  PROVE  PassedOn(g, z, y) \in Graph
<1> DEFINE h == Removed(g, {z, y})
<1>1. <<y, z>> \in Arc /\ <<z, y>> \in Arc
  BY ArcOf
<1>2. h \in Graph /\ Added(h, <<z, y>>) \in Graph /\ Added(h, <<y, z>>) \in Graph
  BY <1>1, AddedTyped
<1> HIDE DEF h
<1>3. Onward(h, z, y) \in Graph
  BY <1>1, <1>2 DEF Onward, Graph
<1>4. Back(h, z, y) \in Graph
  <2>1. [Added(h, <<y, z>>) EXCEPT !.marks[<<z, y>>] = "-"] \in Graph
    BY <1>1, <1>2 DEF Graph
  <2> QED
    BY <1>1, <2>1, CoupleTyped DEF Back
<1> QED
  BY <1>2, <1>3, <1>4 DEF PassedOn, h

LEMMA OrientedTyped ==
  ASSUME TypeOK, TriplesOfSkeleton, NEW t \in triples
  PROVE  Oriented(t) \in Graph
<1>1. /\ t.x \in Node /\ t.y \in Node /\ t.z \in Node
      /\ t.x # t.z /\ t.y # t.z
  BY DEF TypeOK, Triple, TriplesOfSkeleton
<1>2. Now \in Graph
  BY NowTyped
<1>3. VStructure(Now, t) \in Graph
  <2>1. Pointed(Now, t.x, t.z) \in Graph /\ Pointed(Now, t.y, t.z) \in Graph
    BY <1>1, <1>2, PointedTyped
  <2>2. Pointed(Pointed(Now, t.x, t.z), t.y, t.z) \in Graph
    BY <1>1, <2>1, PointedTyped
  <2> QED
    BY <1>2, <2>1, <2>2 DEF VStructure
<1>4. Propagation(Now, t) \in Graph
  BY <1>1, <1>2, PassedOnTyped DEF Propagation
<1> QED
  BY <1>3, <1>4 DEF Oriented

\* The triples that learnPDAG starts from.
LEMMA UnshieldedTyped ==
  ASSUME TypeOK, NEW E, E \subseteq learned.skeleton, NEW A,
         NEW t \in UnshieldedTriples(E, A)
  PROVE  /\ t \in Triple
         /\ t.x # t.y /\ t.x # t.z /\ t.y # t.z
         /\ {t.x, t.z} \in learned.skeleton /\ {t.y, t.z} \in learned.skeleton
<1>1. PICK p \in Place :
        /\ {p.x, p.z} \in E /\ {p.y, p.z} \in E
        /\ t = Updated(A, [x |-> p.x, y |-> p.y, z |-> p.z, i |-> learned.info[p], px |-> 50, py |-> 50])
  BY DEF UnshieldedTriples
<1> DEFINE r == [x |-> p.x, y |-> p.y, z |-> p.z, i |-> learned.info[p], px |-> 50, py |-> 50]
<1>2. /\ p.x \in Node /\ p.y \in Node /\ p.z \in Node
      /\ p.x # p.y /\ p.x # p.z /\ p.y # p.z
  <2>1. p.x \in Node /\ p.y \in Node /\ p.z \in Node /\ p.y < p.x /\ p.z \notin {p.x, p.y}
    BY DEF Place
  <2>2. p.x \in Nat /\ p.y \in Nat
    BY <2>1, MIICAssumption
  <2> QED
    BY <2>1, <2>2
<1>3. learned.info[p] \in -50..50
  BY DEF TypeOK
<1>4. r \in Triple /\ r.x = p.x /\ r.y = p.y /\ r.z = p.z
  BY <1>2, <1>3 DEF Triple
<1>5. t \in Triple /\ t.x = p.x /\ t.y = p.y /\ t.z = p.z
  BY <1>1, <1>4, UpdatedTyped
<1> QED
  BY <1>1, <1>2, <1>5
-----------------------------------------------------------------------------
LEMMA InitIndInv == Init => IndInv
<1> SUFFICES ASSUME Init
             PROVE  IndInv
  OBVIOUS
<1>1. TypeOK
  <2>1. learned.skeleton \subseteq Edge /\ learned.info \in [Place -> -50..50]
    BY MIICAssumption DEF Init
  <2>2. <<>> \in Seq(Arc) /\ Len(<<>>) = 0
    OBVIOUS
  <2>3. latent \in Seq(Arc) /\ left \in 0..Len(latent)
    BY <2>2 DEF Init
  <2> QED
    BY <2>1, <2>3 DEF Init, TypeOK
<1> QED
  BY <1>1 DEF Init, IndInv, TriplesOfSkeleton, EmptyBefore, NothingLeft, SoundWhileOrienting, Resolving

\* The calls before learnPDAG only touch the marks the user asks for.
LEMMA MarkedIndInv ==
  ASSUME IndInv, NEW a \in Choosable, AddMandatoryArc(a) \/ AddForbiddenArc(a)
  PROVE  IndInv'
<1>1. a \in Arc /\ Rev(a) \in Arc
  BY MIICAssumption, RevFacts
<1>2. PICK m \in {">", "-"} : Marked(Rev(a), m)
  BY DEF AddMandatoryArc, AddForbiddenArc
<1>3. /\ mandatory' \subseteq Choosable /\ forbidden' \subseteq Choosable
      /\ initial' = [initial EXCEPT ![Rev(a)] = m] /\ phase = "setup"
      /\ UNCHANGED <<learned, edges, arcs, marks, latent, triples, left, phase>>
  BY <1>2 DEF AddMandatoryArc, AddForbiddenArc, Marked, IndInv, TypeOK
<1>4. TypeOK'
  BY <1>1, <1>3 DEF IndInv, TypeOK
<1> QED
  BY <1>3, <1>4 DEF IndInv, TriplesOfSkeleton, EmptyBefore, NothingLeft, SoundWhileOrienting, Resolving

\* The beginning of learnPDAG.
LEMMA LearnIndInv ==
  ASSUME IndInv, LearnPDAG
  PROVE  IndInv'
<1>1. PICK A \in SUBSET Arrows :
        /\ Undirected(A) = Undirected(Arrows)
        /\ A = Single(A)
        /\ arcs' = A
        /\ edges' = learned.skeleton \ Undirected(A)
        /\ triples' = UnshieldedTriples(edges', A)
  BY DEF LearnPDAG
<1>2. /\ phase = "setup" /\ marks' = initial /\ phase' = "orient" /\ latent = <<>>
      /\ UNCHANGED <<learned, mandatory, forbidden, initial, latent, left>>
  BY DEF LearnPDAG, IndInv, EmptyBefore, input
<1>3. A \subseteq Arc /\ \A a \in A : initial[a] = ">" /\ {a[1], a[2]} \in learned.skeleton
  BY <1>1 DEF Arrows
<1>4. /\ triples' \subseteq Triple
      /\ \A t \in triples' :
           /\ t.x # t.y /\ t.x # t.z /\ t.y # t.z
           /\ {t.x, t.z} \in learned.skeleton /\ {t.y, t.z} \in learned.skeleton
  <2>1. edges' \subseteq learned.skeleton /\ TypeOK
    BY <1>1 DEF IndInv
  <2> QED
    BY <1>1, <2>1, UnshieldedTyped
<1>5. TypeOK'
  BY <1>1, <1>2, <1>3, <1>4 DEF IndInv, TypeOK
<1>6. AcyclicWishes' => Sound(Now)'
  <2> SUFFICES ASSUME AcyclicWishes'
               PROVE  Sound(Now)'
    OBVIOUS
  <2>1. Acyclic(Arrows)
    BY <1>2 DEF AcyclicWishes, Arrows
  <2>2. Acyclic(Single(arcs'))
    BY <1>1, <2>1, AcyclicSubset
  <2>3. /\ Now' \in Graph
        /\ Now'.edges = edges' /\ Now'.arcs = arcs' /\ Now'.marks = marks' /\ Now'.latent = latent'
    BY <1>5 DEF TypeOK, Now, Graph
  <2>4. Covers(Now)'
    <3>1. Undirected(A) \subseteq learned.skeleton
      BY <1>3 DEF Undirected
    <3> QED
      BY <1>1, <1>2, <2>3, <3>1 DEF Covers
  <2>5. \A a \in arcs' : Rev(a) \notin arcs' /\ marks'[a] # "o"
    BY <1>1, <1>2, <1>3 DEF Single
  <2>6. Listed(Now)'
    BY <1>2, <2>3 DEF Listed
  <2> QED
    BY <2>2, <2>3, <2>4, <2>5, <2>6 DEF Sound
<1> QED
  BY <1>2, <1>4, <1>5, <1>6
     DEF IndInv, TriplesOfSkeleton, EmptyBefore, NothingLeft, SoundWhileOrienting, Resolving

\* The body of the loop.
LEMMA OrientIndInv ==
  ASSUME IndInv, NEW t \in triples, Orient(t)
  PROVE  IndInv'
<1> DEFINE g == Oriented(t)
<1>1. /\ phase = "orient" /\ phase' = "orient" /\ left' = left
      /\ UNCHANGED <<learned, mandatory, forbidden, initial>>
      /\ edges' = g.edges /\ arcs' = g.arcs /\ marks' = g.marks /\ latent' = g.latent
      /\ triples' = {Updated(g.arcs, u) : u \in triples \ {t}}
  BY DEF Orient, input
<1>2. g \in Graph
  BY OrientedTyped DEF IndInv
<1> HIDE DEF g
<1>3. /\ triples' \subseteq Triple
      /\ \A v \in triples' :
           /\ v.x # v.y /\ v.x # v.z /\ v.y # v.z
           /\ {v.x, v.z} \in learned.skeleton /\ {v.y, v.z} \in learned.skeleton
  <2> SUFFICES ASSUME NEW u \in triples
               PROVE  LET v == Updated(g.arcs, u)
                      IN  /\ v \in Triple /\ v.x # v.y /\ v.x # v.z /\ v.y # v.z
                          /\ {v.x, v.z} \in learned.skeleton /\ {v.y, v.z} \in learned.skeleton
    BY <1>1
  <2>1. u \in Triple
    BY DEF IndInv, TypeOK
  <2>2. /\ Updated(g.arcs, u) \in Triple
        /\ Updated(g.arcs, u).x = u.x /\ Updated(g.arcs, u).y = u.y /\ Updated(g.arcs, u).z = u.z
    BY <2>1, UpdatedTyped
  <2> QED
    BY <2>2 DEF IndInv, TriplesOfSkeleton
<1>4. left' = 0 /\ Len(latent') \in Nat
  BY <1>1, <1>2 DEF IndInv, NothingLeft, Graph
<1>5. TypeOK'
  <2>1. left' \in 0..Len(latent')
    BY <1>4
  <2>2. edges' \subseteq Edge /\ arcs' \subseteq Arc /\ marks' \in [Arc -> {"o", ">", "-"}]
        /\ latent' \in Seq(Arc)
    BY <1>1, <1>2 DEF Graph
  <2> QED
    BY <1>1, <1>3, <2>1, <2>2 DEF IndInv, TypeOK
<1>6. Now' = g
  BY <1>1, <1>2 DEF Now, Graph
<1>7. AcyclicWishes' => Sound(Now)'
  <2> SUFFICES ASSUME AcyclicWishes'
               PROVE  Sound(Now)'
    OBVIOUS
  <2>1. AcyclicWishes
    BY <1>1 DEF AcyclicWishes, Arrows
  <2>2. Sound(g)
    BY <1>1, <2>1, OrientedSound DEF IndInv, SoundWhileOrienting, g
  <2> QED
    BY <1>1, <1>6, <2>2 DEF Sound, Covers
<1> QED
  BY <1>1, <1>3, <1>5, <1>7
     DEF IndInv, TriplesOfSkeleton, EmptyBefore, NothingLeft, SoundWhileOrienting, Resolving

LEMMA EndOrientIndInv ==
  ASSUME IndInv, EndOrient
  PROVE  IndInv'
<1>1. /\ phase = "orient" /\ phase' = "resolve" /\ left' = Len(latent) /\ triples' = {}
      /\ UNCHANGED <<learned, mandatory, forbidden, initial, edges, arcs, marks, latent>>
  BY DEF EndOrient, input
<1>2. TypeOK'
  BY <1>1 DEF IndInv, TypeOK
<1>3. Resolving'
  <2> SUFFICES ASSUME AcyclicWishes'
               PROVE  /\ Acyclic(Single(arcs)) /\ Covers(Now) /\ Listed(Now)
                      /\ \A a \in arcs : Rev(a) \in arcs =>
                           \E k \in 1..Len(latent) : latent[k] \in {a, Rev(a)}
    BY <1>1 DEF Resolving, Covers, Now, Listed
  <2>1. AcyclicWishes
    BY <1>1 DEF AcyclicWishes, Arrows
  <2>2. Sound(Now)
    BY <1>1, <2>1 DEF IndInv, SoundWhileOrienting
  <2>3. Now.arcs = arcs /\ Now.latent = latent
    BY NowTyped DEF IndInv
  <2>4. DOMAIN latent = 1..Len(latent)
    BY DEF IndInv, TypeOK
  <2> QED
    BY <2>2, <2>3, <2>4 DEF Sound, Known
<1> QED
  BY <1>1, <1>2, <1>3 DEF IndInv, TriplesOfSkeleton, EmptyBefore, NothingLeft, SoundWhileOrienting

\* Flipping a couple: its reverse is a single arc of the result, and its tail
\* does not lead to its head, since the head leads to the tail.
LEMMA FlipAcyclic ==
  ASSUME NEW A, A \subseteq Arc, Acyclic(Single(A)), NEW a \in A,
         Reaches(A \ {Rev(a)}, a[2], a[1])
  PROVE  Acyclic(Single((A \ {a}) \cup {Rev(a)}))
<1> DEFINE C == Single(A) \ {a, Rev(a)}
           r == Rev(a)
<1>1. a \in Arc /\ a = <<a[1], a[2]>> /\ r = <<a[2], a[1]>> /\ r \in Arc /\ a[1] # a[2]
  BY RevFacts DEF Rev
<1>2. Acyclic(C)
  BY AcyclicSubset
<1>3. \A b \in Single(A \ {r}) \ C : b[1] = a[1]
  <2> SUFFICES ASSUME NEW b \in Single(A \ {r}), b \notin C
               PROVE  b = a
    BY <1>1
  <2>1. b \in A /\ b # r /\ (Rev(b) \notin A \/ Rev(b) = r)
    BY DEF Single
  <2>2. Rev(b) = r => b = a
    BY <1>1, <2>1, RevFacts
  <2>3. Rev(b) \notin A => b \in Single(A)
    BY <2>1 DEF Single
  <2> QED
    BY <2>1, <2>2, <2>3
<1>4. DirectedPath(C, a[2], a[1])
  BY <1>3, PathBeforeEnd DEF Reaches
<1>5. ~DirectedPath(C, a[1], a[2])
  <2>1. \A b \in C : b = <<b[1], b[2]>>
    BY RevFacts DEF Single
  <2> QED
    BY <1>1, <1>2, <1>4, <2>1, NoTwoWays
<1>6. Acyclic(C \cup {<<a[2], a[1]>>})
  BY <1>2, <1>5, AcyclicAddArc
<1>7. Single((A \ {a}) \cup {r}) \subseteq C \cup {r}
  <2> SUFFICES ASSUME NEW b \in Single((A \ {a}) \cup {r}), b # r
               PROVE  b \in C
    OBVIOUS
  <2>1. b \in A /\ b # a /\ Rev(b) # r /\ (Rev(b) \notin A \/ Rev(b) = a)
    BY DEF Single
  <2>2. Rev(b) # a
    BY <1>1, <2>1, RevFacts
  <2> QED
    BY <2>1, <2>2 DEF Single
<1> QED
  BY <1>1, <1>6, <1>7, AcyclicSubset

\* Keeping it: it becomes a single arc, and its head does not lead to its tail.
LEMMA KeepAcyclic ==
  ASSUME NEW A, A \subseteq Arc, Acyclic(Single(A)), NEW a \in A,
         ~Reaches(A \ {Rev(a)}, a[2], a[1])
  PROVE  Acyclic(Single(A \ {Rev(a)}))
<1> DEFINE C == Single(A) \ {a, Rev(a)}
           r == Rev(a)
<1>1. a \in Arc /\ a = <<a[1], a[2]>> /\ r \in Arc /\ a # r
  BY RevFacts
<1>2. Acyclic(C)
  BY AcyclicSubset
<1>3. C \subseteq Single(A \ {r})
  BY DEF Single
<1>4. ~DirectedPath(C, a[2], a[1])
  <2>1. PICK T : a[2] \in T /\ a[1] \notin T /\ ClosedUnder(T, Single(A \ {r}))
    BY NoPath DEF Reaches
  <2>2. ClosedUnder(T, C)
    BY <1>3, <2>1 DEF ClosedUnder
  <2> QED
    BY <2>1, <2>2, PathStaysIn
<1>5. Acyclic(C \cup {<<a[1], a[2]>>})
  BY <1>2, <1>4, AcyclicAddArc
<1>6. Single(A \ {r}) \subseteq C \cup {a}
  <2> SUFFICES ASSUME NEW b \in Single(A \ {r}), b # a
               PROVE  b \in C
    OBVIOUS
  <2>1. b \in A /\ b # r /\ (Rev(b) \notin A \/ Rev(b) = r)
    BY DEF Single
  <2>2. Rev(b) # r
    BY <1>1, <2>1, RevFacts
  <2> QED
    BY <2>1, <2>2 DEF Single
<1> QED
  BY <1>1, <1>5, <1>6, AcyclicSubset

\* Resolving a couple: of its two arcs, c is kept.
LEMMA ResolveIndInv ==
  ASSUME IndInv, Resolve
  PROVE  IndInv'
<1> DEFINE a == latent[left]
           flip == Reaches(arcs \ {Rev(a)}, a[2], a[1])
           c == IF flip THEN Rev(a) ELSE a
<1>1. /\ phase = "resolve" /\ phase' = "resolve" /\ left > 0 /\ left' = left - 1
      /\ UNCHANGED <<learned, mandatory, forbidden, initial, edges, marks, triples>>
      /\ IF flip THEN Flip(a) ELSE Keep(a)
  BY DEF Resolve, input
<1>2. /\ latent \in Seq(Arc) /\ left \in 1..Len(latent) /\ DOMAIN latent = 1..Len(latent)
      /\ a \in Arc /\ arcs \subseteq Arc
  BY <1>1 DEF IndInv, TypeOK
<1> HIDE DEF flip
<1>3. c \in Arc /\ Rev(c) \in Arc /\ c # Rev(c) /\ Rev(Rev(c)) = c /\ {c, Rev(c)} = {a, Rev(a)}
  BY <1>2, RevFacts
<1>4. latent' = [latent EXCEPT ![left] = c]
  BY <1>1, <1>2 DEF Flip, Keep
<1>5. /\ latent' \in Seq(Arc) /\ Len(latent') = Len(latent)
      /\ DOMAIN latent' = 1..Len(latent)
      /\ \A k \in 1..Len(latent) : latent'[k] = IF k = left THEN c ELSE latent[k]
  BY <1>2, <1>3, <1>4
<1>6. arcs' \subseteq Arc
  BY <1>1, <1>2, RevFacts DEF Flip, Keep
<1>7. TypeOK'
  <2>1. UNCHANGED <<learned, mandatory, forbidden, initial, edges, marks, triples>>
    BY <1>1 DEF Flip, Keep
  <2>2. left' \in 0..Len(latent')
    BY <1>1, <1>2, <1>5
  <2>3. latent' \in Seq(Arc) /\ phase' = "resolve"
    BY <1>1, <1>5
  <2> QED
    BY <1>6, <2>1, <2>2, <2>3 DEF IndInv, TypeOK
<1>8. Resolving'
  <2> SUFFICES ASSUME AcyclicWishes'
               PROVE  /\ Acyclic(Single(arcs')) /\ Covers(Now)' /\ Listed(Now)'
                      /\ \A b \in arcs' : Rev(b) \in arcs' =>
                           \E k \in 1..left' : latent'[k] \in {b, Rev(b)}
    BY <1>1 DEF Resolving
  <2>1. AcyclicWishes
    BY <1>1 DEF AcyclicWishes, Arrows
  <2>2. /\ Acyclic(Single(arcs)) /\ Covers(Now) /\ Listed(Now)
        /\ \A b \in arcs : Rev(b) \in arcs => \E k \in 1..left : latent[k] \in {b, Rev(b)}
    BY <1>1, <2>1 DEF IndInv, Resolving
  <2>3. Now.edges = edges /\ Now.arcs = arcs /\ Now.latent = latent
    BY NowTyped DEF IndInv
  <2>4. Now'.edges = edges' /\ Now'.arcs = arcs' /\ Now'.latent = latent'
    BY DEF Now
  <2>5. \A k \in 1..Len(latent) :
          /\ latent[k] \in arcs
          /\ \A j \in 1..Len(latent) : latent[j] \in {latent[k], Rev(latent[k])} => j = k
    BY <1>2, <2>2, <2>3 DEF Listed
  <2>6. a \in arcs
    BY <1>2, <2>5
  <2>7. Acyclic(Single(arcs'))
    <3>1. CASE flip
      BY <1>1, <1>2, <2>2, <2>6, <3>1, FlipAcyclic DEF Flip, flip
    <3>2. CASE ~flip
      BY <1>1, <1>2, <2>2, <2>6, <3>2, KeepAcyclic DEF Keep, flip
    <3> QED
      BY <3>1, <3>2
  <2>8. arcs' = (arcs \ {Rev(c)}) \cup {c}
    BY <1>1, <1>2, <2>6, RevFacts DEF Flip, Keep
  <2> HIDE DEF c
  <2>9. Undirected(arcs') = Undirected(arcs)
    <3>1. {c[1], c[2]} = {a[1], a[2]} /\ {Rev(c)[1], Rev(c)[2]} = {a[1], a[2]}
      BY <1>2, RevFacts DEF c
    <3>2. ASSUME NEW b \in arcs' PROVE {b[1], b[2]} \in Undirected(arcs)
      BY <2>6, <2>8, <3>1 DEF Undirected
    <3>3. ASSUME NEW b \in arcs PROVE {b[1], b[2]} \in Undirected(arcs')
      BY <2>8, <3>1 DEF Undirected
    <3> QED
      BY <3>2, <3>3 DEF Undirected
  <2>10. Covers(Now)'
    BY <1>1, <2>2, <2>3, <2>4, <2>9 DEF Covers
  <2>11. \A k \in 1..Len(latent) : k # left => latent[k] \notin {c, Rev(c)}
    BY <1>2, <1>3, <2>5
  <2>12. Listed(Now)'
    <3> SUFFICES ASSUME NEW k \in 1..Len(latent)
                 PROVE  /\ latent'[k] \in arcs'
                        /\ \A j \in 1..Len(latent) : latent'[j] \in {latent'[k], Rev(latent'[k])} => j = k
      BY <1>5, <2>4 DEF Listed
    <3>1. CASE k = left
      BY <1>5, <2>8, <2>11, <3>1
    <3>2. CASE k # left
      <4>1. latent'[k] = latent[k] /\ latent[k] \in arcs'
        BY <1>5, <2>5, <2>8, <2>11, <3>2
      <4>2. c \notin {latent[k], Rev(latent[k])}
        <5>1. latent[k] \in Arc /\ Rev(Rev(latent[k])) = latent[k]
          BY <1>2, RevFacts
        <5> QED
          BY <2>11, <3>2, <5>1
      <4> QED
        BY <1>5, <2>5, <4>1, <4>2
    <3> QED
      BY <3>1, <3>2
  <2>13. \A b \in arcs' : Rev(b) \in arcs' => \E k \in 1..left' : latent'[k] \in {b, Rev(b)}
    <3> SUFFICES ASSUME NEW b \in arcs', Rev(b) \in arcs'
                 PROVE  \E k \in 1..left' : latent'[k] \in {b, Rev(b)}
      OBVIOUS
    <3>1. b \in Arc /\ Rev(Rev(b)) = b
      BY <1>6, RevFacts
    <3>2. b \notin {c, Rev(c)} /\ Rev(b) \notin {c, Rev(c)}
      BY <1>3, <2>8, <3>1
    <3>3. PICK k \in 1..left : latent[k] \in {b, Rev(b)}
      BY <2>2, <2>8, <3>2
    <3>4. latent[left] \in {c, Rev(c)}
      BY <1>3
    <3>5. k # left /\ k \in 1..left' /\ k \in 1..Len(latent)
      BY <1>1, <1>2, <3>2, <3>3, <3>4
    <3> QED
      BY <1>5, <3>3, <3>5
  <2> QED
    BY <2>7, <2>10, <2>12, <2>13
<1> QED
  BY <1>1, <1>7, <1>8 DEF IndInv, TriplesOfSkeleton, EmptyBefore, NothingLeft, SoundWhileOrienting

LEMMA FinishIndInv ==
  ASSUME IndInv, Finish
  PROVE  IndInv'
<1>1. /\ phase = "resolve" /\ phase' = "done" /\ left = 0
      /\ UNCHANGED <<learned, mandatory, forbidden, initial, edges, arcs, marks, latent, triples, left>>
  BY DEF Finish, input
<1>2. TypeOK'
  BY <1>1 DEF IndInv, TypeOK
<1>3. Resolving'
  BY <1>1 DEF IndInv, Resolving, AcyclicWishes, Arrows, Covers, Listed, Now
<1> QED
  BY <1>1, <1>2, <1>3 DEF IndInv, TriplesOfSkeleton, EmptyBefore, NothingLeft, SoundWhileOrienting

LEMMA NextIndInv ==
  ASSUME IndInv, [Next]_vars
  PROVE  IndInv'
<1>1. CASE UNCHANGED vars
  <2>1. /\ UNCHANGED <<learned, mandatory, forbidden, initial>>
        /\ UNCHANGED <<edges, arcs, marks, latent, triples, left, phase>>
    BY <1>1 DEF vars, input
  <2>2. TypeOK'
    BY <2>1 DEF IndInv, TypeOK
  <2>3. Resolving' /\ SoundWhileOrienting'
    BY <2>1 DEF IndInv, Resolving, SoundWhileOrienting, Sound, AcyclicWishes, Arrows, Covers, Listed, Now
  <2> QED
    BY <2>1, <2>2, <2>3 DEF IndInv, TriplesOfSkeleton, EmptyBefore, NothingLeft
<1>2. ASSUME NEW a \in Choosable, AddMandatoryArc(a) \/ AddForbiddenArc(a) PROVE IndInv'
  BY <1>2, MarkedIndInv
<1>3. CASE LearnPDAG
  BY <1>3, LearnIndInv
<1>4. ASSUME NEW t \in triples, Orient(t) PROVE IndInv'
  BY <1>4, OrientIndInv
<1>5. CASE EndOrient
  BY <1>5, EndOrientIndInv
<1>6. CASE Resolve
  BY <1>6, ResolveIndInv
<1>7. CASE Finish
  BY <1>7, FinishIndInv
<1> QED
  BY <1>1, <1>2, <1>3, <1>4, <1>5, <1>6, <1>7 DEF Next

LEMMA Invariance == Spec => []IndInv
BY InitIndInv, NextIndInv, PTL DEF Spec
-----------------------------------------------------------------------------
\* The variables keep their types, and the probabilities of the triples stay
\* between one half and one.
THEOREM OrientationTyped == Spec => []TypeOK
<1>1. IndInv => TypeOK
  BY DEF IndInv
<1> QED
  BY <1>1, Invariance, PTL

\* learnPDAG closes no directed cycle and leaves no double-headed arc, for
\* every skeleton, information and order of ties, unless the user asks for a
\* cycle.
THEOREM PDAGStaysAcyclic == Spec => []PDAGAcyclic
<1>1. IndInv => PDAGAcyclic
  <2> SUFFICES ASSUME IndInv, AcyclicWishes
               PROVE  /\ Acyclic(Single(arcs))
                      /\ phase = "done" => arcs = Single(arcs)
    BY DEF PDAGAcyclic
  <2>1. CASE phase = "setup"
    BY <2>1 DEF IndInv, EmptyBefore, Single, Acyclic, ArcNodes
  <2>2. CASE phase = "orient"
    BY <2>2, NowTyped DEF IndInv, SoundWhileOrienting, Sound
  <2>3. CASE phase = "resolve"
    BY <2>3 DEF IndInv, Resolving
  <2>4. CASE phase = "done"
    <3>1. Acyclic(Single(arcs)) /\ \A a \in arcs : Rev(a) \in arcs => \E k \in 1..left : TRUE
      BY <2>4 DEF IndInv, Resolving
    <3>2. left = 0
      BY <2>4 DEF IndInv, NothingLeft
    <3> QED
      BY <3>1, <3>2 DEF Single
  <2> QED
    BY <2>1, <2>2, <2>3, <2>4 DEF IndInv, TypeOK
<1> QED
  BY <1>1, Invariance, PTL

\* It loses and gains no adjacency: the two branches of the code that erase an
\* edge without adding an arc are never taken.
THEOREM PDAGCoversSkeleton == Spec => []AdjacenciesKept
<1>1. IndInv => AdjacenciesKept
  <2> SUFFICES ASSUME IndInv, AcyclicWishes, phase # "setup"
               PROVE  Covers(Now)
    BY NowTyped DEF IndInv, AdjacenciesKept, Covers
  <2>1. CASE phase = "orient"
    BY <2>1 DEF IndInv, SoundWhileOrienting, Sound
  <2>2. CASE phase \in {"resolve", "done"}
    BY <2>2 DEF IndInv, Resolving
  <2> QED
    BY <2>1, <2>2 DEF IndInv, TypeOK
<1> QED
  BY <1>1, Invariance, PTL

\* Each couple that getLatentVariables reports is an arc of the PDAG.
THEOREM LatentArcsKept == Spec => []LatentResolved
<1>1. IndInv => LatentResolved
  <2> SUFFICES ASSUME IndInv, AcyclicWishes, phase = "done"
               PROVE  \A k \in DOMAIN latent : latent[k] \in arcs
    BY DEF LatentResolved, Couples
  <2>1. Listed(Now)
    BY DEF IndInv, Resolving
  <2> QED
    BY <2>1, NowTyped DEF IndInv, Listed
<1> QED
  BY <1>1, Invariance, PTL
-----------------------------------------------------------------------------
\* The unshielded triples of the skeleton, and the arcs of a v-structure.
Open == {p \in Place : /\ {p.x, p.z} \in learned.skeleton /\ {p.y, p.z} \in learned.skeleton
                       /\ {p.x, p.y} \notin learned.skeleton}
Sides(p) == {<<p.x, p.z>>, <<p.y, p.z>>}
PlaceOf(t) == [x |-> t.x, y |-> t.y, z |-> t.z]

\* G is a DAG over the skeleton with exactly the v-structures that the signs of
\* the information tell.
Explains(G) ==
  /\ Acyclic(G)
  /\ \A u, v \in Node : u # v /\ {u, v} \in learned.skeleton => <<u, v>> \in G \/ <<v, u>> \in G
  /\ \A p \in Open : (Sides(p) \subseteq G) <=> learned.info[p] < 0

\* No arc is added against G, no couple is reported, and each mark stands for
\* an arc.
Follows(g, G) ==
  /\ g.arcs \subseteq G
  /\ g.latent = <<>>
  /\ \A a \in Arc : (g.marks[a] = ">" => a \in g.arcs) /\ (g.marks[a] = "-" => Rev(a) \in g.arcs)

\* A graph that follows an acyclic one never leads against it.
LEMMA NoWayBack ==
  ASSUME NEW G \in SUBSET Arc, Acyclic(G), NEW A, A \subseteq G, NEW u, NEW v, <<u, v>> \in G
  PROVE  ~Reaches(A, v, u) /\ ~ReachesIndirectly(A, v, u)
<1>1. u # v /\ \A a \in G : a = <<a[1], a[2]>>
  <2>1. <<u, v>> \in Arc
    OBVIOUS
  <2>2. u # v
    BY <2>1, RevFacts
  <2> QED
    BY <2>2, RevFacts
<1>2. ~DirectedPath(G, v, u)
  <2>1. DirectedPath(G, u, v)
    BY PathOfArc
  <2> QED
    BY <1>1, <2>1, NoTwoWays
<1>3. PICK T : v \in T /\ u \notin T /\ ClosedUnder(T, G)
  BY <1>2, NoPath
<1>4. ClosedUnder(T, Single(A))
  BY <1>3 DEF ClosedUnder, Single
<1>5. ~Reaches(A, v, u)
  BY <1>3, <1>4, PathStaysIn DEF Reaches
<1> QED
  BY <1>5, NoIndirectPath

\* One side of a v-structure of G.
LEMMA PointedFollows ==
  ASSUME NEW G \in SUBSET Arc, Acyclic(G), NEW g \in Graph, Follows(g, G),
         NEW x, NEW z, <<x, z>> \in G
  PROVE  /\ Pointed(g, x, z) \in Graph /\ Follows(Pointed(g, x, z), G)
         /\ Pointed(g, x, z).arcs = g.arcs \cup {<<x, z>>}
         /\ \A a \in Arc : a # <<x, z>> => Pointed(g, x, z).marks[a] = g.marks[a]
<1> DEFINE a == <<x, z>>
           h == Added(Removed(g, {x, z}), a)
<1>1. a \in Arc /\ Rev(a) = <<z, x>>
  BY DEF Rev
<1>2. ~ReachesIndirectly(g.arcs, z, x)
  BY NoWayBack DEF Follows
<1>3. /\ h.arcs = g.arcs \cup {a} /\ h.latent = g.latent
      /\ h.marks = [g.marks EXCEPT ![a] = ">"] /\ h \in Graph
  BY <1>1 DEF Added, Removed, Graph
<1>4. <<z, x>> \notin h.arcs
  <2> SUFFICES ASSUME <<z, x>> \in G PROVE FALSE
    BY <1>1, <1>3, RevFacts DEF Follows
  <2>1. x # z /\ \A b \in G : b = <<b[1], b[2]>>
    BY <1>1, RevFacts
  <2>2. DirectedPath(G, x, z) /\ DirectedPath(G, z, x)
    BY PathOfArc
  <2> QED
    BY <2>1, <2>2, NoTwoWays
<1>5. Pointed(g, x, z) = h
  BY <1>2, <1>4 DEF Pointed
<1> HIDE DEF h, a
<1>6. Follows(h, G)
  BY <1>1, <1>3 DEF Follows, Graph, a
<1>7. \A b \in Arc : b # a => h.marks[b] = g.marks[b]
  BY <1>3 DEF Graph
<1> QED
  BY <1>3, <1>5, <1>6, <1>7 DEF a

\* The arrow passed on along an arc of G.
LEMMA PassedOnFollows ==
  ASSUME NEW G \in SUBSET Arc, Acyclic(G), NEW g \in Graph, Follows(g, G),
         NEW y, NEW z, <<z, y>> \in G, NEW x, <<x, z>> \in g.arcs
  PROVE  /\ PassedOn(g, z, y).arcs = g.arcs \cup {<<z, y>>}
         /\ Follows(PassedOn(g, z, y), G)
<1> DEFINE h == Removed(g, {z, y})
           a == <<z, y>>
           p == Onward(h, z, y)
<1>1. a \in Arc /\ Rev(a) = <<y, z>> /\ Rev(a) \in Arc /\ Rev(Rev(a)) = a /\ Rev(a) # a
  <2>1. a \in Arc /\ Rev(a) = <<y, z>>
    BY DEF Rev
  <2> HIDE DEF a
  <2> QED
    BY <2>1, RevFacts
<1>2. h.arcs = g.arcs /\ h.latent = g.latent /\ h.marks = g.marks /\ h \in Graph
  BY DEF Removed, Graph
<1>3. ~Reaches(h.arcs, y, z)
  BY <1>2, NoWayBack DEF Follows
<1>4. Parents(h.arcs, z) # {}
  BY <1>2, ArcEnds DEF Parents
<1> HIDE DEF h
<1>5. PassedOn(g, z, y) = p
  BY <1>3, <1>4 DEF PassedOn, h
<1>6. /\ p.arcs = g.arcs \cup {a} /\ p.latent = g.latent
      /\ p.marks = [[g.marks EXCEPT ![a] = ">"] EXCEPT ![Rev(a)] = "-"]
  BY <1>1, <1>2 DEF Onward, Added, Graph
<1> HIDE DEF p, a
<1>7. Follows(p, G)
  <2>1. a \in G
    BY DEF a
  <2>2. /\ p.marks[Rev(a)] = "-" /\ p.marks[a] = ">"
        /\ \A b \in Arc : b \notin {a, Rev(a)} => p.marks[b] = g.marks[b]
    BY <1>1, <1>6 DEF Graph
  <2>3. ASSUME NEW b \in Arc
        PROVE  (p.marks[b] = ">" => b \in p.arcs) /\ (p.marks[b] = "-" => Rev(b) \in p.arcs)
    <3>1. CASE b = a
      BY <1>6, <2>2, <3>1
    <3>2. CASE b = Rev(a)
      BY <1>1, <1>6, <2>2, <3>2
    <3>3. CASE b \notin {a, Rev(a)}
      BY <1>6, <2>2, <3>3 DEF Follows
    <3> QED
      BY <3>1, <3>2, <3>3
  <2> QED
    BY <1>6, <2>1, <2>3 DEF Follows
<1> QED
  BY <1>5, <1>6, <1>7 DEF a

\* A triple is one of the skeleton's, likelier than not as long as its
\* information is negative, and never if it has none.
Telling(t) ==
  /\ PlaceOf(t) \in Open /\ t.i = learned.info[PlaceOf(t)]
  /\ t.i < 0 => Best(t) > 50
  /\ t.i = 0 => t.px = 50 /\ t.py = 50

\* A triple of negative information starts likelier than not.
LEMMA InitialLarge == ASSUME NEW i \in -50..50, i < 0, i # -1 PROVE Initial(i) > 50
<1>1. 100 - Size(i) \in 50..98
  BY DEF Size
<1>2. \A d \in 50..98 : 5000 \div d > 50
  BY Z3
<1> QED
  BY <1>1, <1>2 DEF Initial

\* updateProbaTriples keeps a triple telling.
LEMMA UpdatedTelling ==
  ASSUME learned \in Learned, NEW A, NEW t \in Triple, Telling(t)
  PROVE  /\ Telling(Updated(A, t)) /\ PlaceOf(Updated(A, t)) = PlaceOf(t)
         /\ Updated(A, t).i = t.i
<1> DEFINE u == Updated(A, t)
<1>1. u \in Triple /\ u.x = t.x /\ u.y = t.y /\ u.z = t.z
  BY UpdatedTyped
<1>2. t.i \in -50..50 /\ t.px \in 50..100 /\ t.py \in 50..100
  BY DEF Triple
<1>3. u.i = t.i
  BY <1>2 DEF Updated, Triple
<1>4. PlaceOf(u) = PlaceOf(t)
  BY <1>1 DEF PlaceOf
<1>5. ASSUME t.i < 0
      PROVE  Best(u) > 50
  <2>1. t.i # -1
    BY <1>5, MIICAssumption DEF Telling, Open
  <2>2. Initial(t.i) > 50 /\ Initial(t.i) \in 50..100
    BY <1>2, <1>5, <2>1, InitialLarge, InitialRange
  <2>3. Passed(t.px, t.i) \in 50..100 /\ Passed(t.py, t.i) \in 50..100
    BY <1>2, PassedRange
  <2>4. t.px > 50 \/ t.py > 50
    BY <1>2, <1>5 DEF Telling, Best, Larger
  <2>5. u.px > 50 \/ u.py > 50
    BY <1>2, <1>5, <2>2, <2>3, <2>4 DEF Updated, Triple
  <2> QED
    BY <1>1, <2>5 DEF Best, Larger, Triple
<1>6. ASSUME t.i = 0
      PROVE  u.px = 50 /\ u.py = 50
  <2>1. Initial(0) = 50
    BY DEF Initial, Size
  <2> QED
    BY <1>2, <1>6, <2>1 DEF Updated, Triple, Telling
<1> HIDE DEF u
<1>7. Telling(u)
  BY <1>3, <1>4, <1>5, <1>6 DEF Telling
<1> QED
  BY <1>3, <1>4, <1>7 DEF u

\* The order of the triples of one sign, as the order of one number.
LEMMA RankOrders ==
  ASSUME NEW b \in Nat, NEW c \in Nat, NEW r \in 0..50, NEW s \in 0..50,
         51 * (100 - b) + (50 - r) <= 51 * (100 - c) + (50 - s)
  PROVE  ~(c > b \/ (c = b /\ s > r))
<1>1. CASE c > b
  <2>1. PICK d \in Nat : c = b + 1 + d
    <3>1. c - b - 1 \in Nat /\ c = b + 1 + (c - b - 1)
      BY <1>1
    <3> QED
      BY <3>1
  <2> QED
    BY <2>1
<1>2. CASE c = b
  BY <1>2
<1> QED
  BY <1>1, <1>2

\* While a triple of negative information is left, one is first.
LEMMA NegativeFirst ==
  ASSUME triples \subseteq Triple, NEW t \in triples, t.i < 0
  PROVE  \E u \in triples : First(u) /\ u.i < 0
<1> DEFINE N == {u \in triples : u.i < 0}
           rank(u) == 51 * (100 - Best(u)) + (50 - Size(u.i))
           R == {rank(u) : u \in N}
<1>1. \A u \in triples : u.i \in -50..50 /\ Best(u) \in 50..100 /\ Size(u.i) \in 0..50
  BY DEF Triple, Best, Larger, Size
<1>2. R \subseteq Nat /\ R # {}
  BY <1>1
<1>3. PICK n \in R : \A m \in R : n <= m
  <2> HIDE DEF R
  <2> QED
    BY <1>2, LeastNumber
<1>4. PICK u \in N : \A v \in N : rank(u) <= rank(v)
  BY <1>3
<1>5. ASSUME NEW v \in triples, Before(v, u)
      PROVE  FALSE
  <2>1. v.i < 0
    BY <1>1, <1>5 DEF Before
  <2>2. rank(u) <= rank(v)
    BY <1>4, <2>1
  <2>3. Best(v) > Best(u) \/ (Best(v) = Best(u) /\ Size(v.i) > Size(u.i))
    BY <1>1, <1>5, <2>1 DEF Before
  <2>4. u \in triples
    BY <1>4
  <2>5. /\ Best(u) \in 50..100 /\ Best(v) \in 50..100
        /\ Size(u.i) \in 0..50 /\ Size(v.i) \in 0..50
    BY <1>1, <2>4
  <2>6. 51 * (100 - Best(u)) + (50 - Size(u.i)) <= 51 * (100 - Best(v)) + (50 - Size(v.i))
    BY <2>2
  <2>7. Best(u) \in Nat /\ Best(v) \in Nat
    BY <2>5
  <2> HIDE DEF rank, R, N
  <2>8. ~(Best(v) > Best(u) \/ (Best(v) = Best(u) /\ Size(v.i) > Size(u.i)))
    BY <2>5, <2>6, <2>7, RankOrders
  <2> QED
    BY <2>3, <2>8
<1> QED
  BY <1>4, <1>5 DEF First

\* Without marks, the graph follows every DAG that explains the signs, and a
\* v-structure not yet there has its triple left to orient.
RecoverInv ==
  /\ learned \in Learned
  /\ mandatory = {} /\ forbidden = {} =>
       /\ \A a \in Arc : initial[a] = "o"
       /\ phase # "setup" => \A t \in triples : Telling(t)
       /\ phase \in {"resolve", "done"} => triples = {}
       /\ phase # "setup" =>
            \A G \in SUBSET Arc : Explains(G) =>
              /\ Follows(Now, G)
              /\ \A p \in Open : learned.info[p] < 0 =>
                   Sides(p) \subseteq arcs \/ \E t \in triples : PlaceOf(t) = p

\* One pass of the loop.
LEMMA OrientedFollows ==
  ASSUME TypeOK, TriplesOfSkeleton, NEW t \in triples, First(t), Best(t) > 50,
         \A u \in triples : Telling(u),
         NEW G \in SUBSET Arc, Explains(G), Follows(Now, G),
         \A p \in Open : learned.info[p] < 0 =>
            Sides(p) \subseteq arcs \/ \E u \in triples : PlaceOf(u) = p
  PROVE  /\ Follows(Oriented(t), G)
         /\ arcs \subseteq Oriented(t).arcs
         /\ t.i < 0 => Sides(PlaceOf(t)) \subseteq Oriented(t).arcs
<1> DEFINE q == PlaceOf(t)
           x == t.x
           y == t.y
           z == t.z
<1>1. /\ x \in Node /\ y \in Node /\ z \in Node /\ x # y /\ x # z /\ y # z
      /\ {x, z} \in learned.skeleton /\ {y, z} \in learned.skeleton
      /\ t.i \in -50..50
  BY DEF TypeOK, Triple, TriplesOfSkeleton
<1>2. /\ q \in Open /\ t.i = learned.info[q]
      /\ Sides(q) = {<<x, z>>, <<y, z>>}
  BY DEF Telling, PlaceOf, Sides
<1>3. Acyclic(G) /\ Now \in Graph /\ Now.arcs = arcs /\ Now.marks = marks
  BY NowTyped DEF Explains
<1>4. <<x, z>> \in Arc /\ <<y, z>> \in Arc /\ Rev(<<x, z>>) = <<z, x>> /\ Rev(<<y, z>>) = <<z, y>>
  BY <1>1, ArcOf
<1>5. \A u, v : <<u, v>> \in G => <<v, u>> \notin G
  <2> SUFFICES ASSUME NEW u, NEW v, <<u, v>> \in G, <<v, u>> \in G PROVE FALSE
    OBVIOUS
  <2>1. <<u, v>> \in Arc /\ \A b \in G : b = <<b[1], b[2]>>
    BY RevFacts
  <2>2. u # v
    BY <2>1, RevFacts
  <2>3. DirectedPath(G, u, v) /\ DirectedPath(G, v, u)
    BY PathOfArc
  <2> QED
    BY <1>3, <2>1, <2>2, <2>3, NoTwoWays
<1> HIDE DEF q, x, y, z
<1>6. CASE t.i < 0
  <2>1. <<x, z>> \in G /\ <<y, z>> \in G
    BY <1>2, <1>6 DEF Explains
  <2>2. /\ marks[<<x, z>>] \in {"o", ">"} /\ marks[<<y, z>>] \in {"o", ">"}
        /\ marks[<<x, z>>] = ">" => <<x, z>> \in arcs
        /\ marks[<<y, z>>] = ">" => <<y, z>> \in arcs
    <3>1. <<z, x>> \notin arcs /\ <<z, y>> \notin arcs
      BY <1>3, <1>5, <2>1 DEF Follows
    <3>2. marks[<<x, z>>] \in {"o", ">", "-"} /\ marks[<<y, z>>] \in {"o", ">", "-"}
      BY <1>4 DEF TypeOK
    <3> QED
      BY <1>3, <1>4, <3>1, <3>2 DEF Follows
  <2>3. Oriented(t) = VStructure(Now, t)
    BY <1>1, <1>6 DEF Oriented
  <2> DEFINE gx == Pointed(Now, x, z)
             gy == Pointed(Now, y, z)
             gxy == Pointed(gx, y, z)
  <2>4. /\ Follows(gx, G) /\ gx \in Graph /\ gx.arcs = arcs \cup {<<x, z>>}
        /\ Follows(gy, G) /\ gy.arcs = arcs \cup {<<y, z>>}
    BY <1>3, <2>1, PointedFollows
  <2>5. Follows(gxy, G) /\ gxy.arcs = gx.arcs \cup {<<y, z>>}
    <3> HIDE DEF gx
    <3> QED
      BY <1>3, <2>1, <2>4, PointedFollows
  <2>6. Oriented(t) \in {gx, gy, gxy, Now}
    BY <2>3 DEF VStructure, x, y, z
  <2>7. /\ marks[<<x, z>>] = "o" /\ marks[<<y, z>>] = "o" => Oriented(t) = gxy
        /\ marks[<<x, z>>] = ">" /\ marks[<<y, z>>] = "o" => Oriented(t) = gy
        /\ marks[<<x, z>>] = "o" /\ marks[<<y, z>>] = ">" => Oriented(t) = gx
        /\ marks[<<x, z>>] = ">" /\ marks[<<y, z>>] = ">" => Oriented(t) = Now
    BY <1>3, <2>3 DEF VStructure, x, y, z
  <2> HIDE DEF gx, gy, gxy
  <2>8. Follows(Oriented(t), G)
    BY <2>4, <2>5, <2>6
  <2>9. {<<x, z>>, <<y, z>>} \subseteq Oriented(t).arcs /\ arcs \subseteq Oriented(t).arcs
    BY <1>3, <2>2, <2>4, <2>5, <2>7
  <2> QED
    BY <1>2, <2>8, <2>9 DEF q
<1>7. CASE t.i = 0
  BY <1>7 DEF Telling, Best, Larger
<1>8. CASE t.i > 0
  <2>1. ~({<<x, z>>, <<y, z>>} \subseteq G)
    BY <1>1, <1>2, <1>8 DEF Explains
  <2>2. Oriented(t) = Propagation(Now, t)
    BY <1>1, <1>8 DEF Oriented
  <2>3. ASSUME NEW u \in {x, y}, NEW v \in {x, y}, u # v, marks[<<u, z>>] = ">"
        PROVE  /\ Follows(PassedOn(Now, z, v), G)
               /\ PassedOn(Now, z, v).arcs = arcs \cup {<<z, v>>}
    <3>1. <<u, z>> \in arcs /\ <<u, z>> \in G
      BY <1>3, <1>4, <2>3 DEF Follows
    <3>2. <<v, z>> \notin G
      BY <2>1, <2>3, <3>1
    <3>3. <<z, v>> \in G
      <4>1. v \in Node /\ v # z /\ {v, z} \in learned.skeleton
        BY <1>1, <2>3
      <4> QED
        BY ONLY <1>1, <3>2, <4>1, Explains(G) DEF Explains
    <3>4. <<u, z>> \in Now.arcs
      BY <1>3, <3>1
    <3>5. /\ PassedOn(Now, z, v).arcs = Now.arcs \cup {<<z, v>>}
          /\ Follows(PassedOn(Now, z, v), G)
      BY <1>3, <3>3, <3>4, PassedOnFollows
    <3> QED
      BY <1>3, <3>5
  <2>4. \/ Oriented(t) = Now
        \/ marks[<<x, z>>] = ">" /\ Oriented(t) = PassedOn(Now, z, y)
        \/ marks[<<y, z>>] = ">" /\ Oriented(t) = PassedOn(Now, z, x)
    BY <1>3, <2>2 DEF Propagation, x, y, z
  <2> QED
    BY <1>1, <1>3, <1>8, <2>3, <2>4
<1> QED
  BY <1>1, <1>6, <1>7, <1>8

\* Before anything is oriented.
LEMMA UnshieldedTelling ==
  ASSUME learned \in Learned
  PROVE  /\ \A t \in UnshieldedTriples(learned.skeleton, {}) : Telling(t)
         /\ \A p \in Open : \E t \in UnshieldedTriples(learned.skeleton, {}) : PlaceOf(t) = p
<1> DEFINE T(p) == [x |-> p.x, y |-> p.y, z |-> p.z, i |-> learned.info[p], px |-> 50, py |-> 50]
<1>1. UnshieldedTriples(learned.skeleton, {}) = {Updated({}, T(p)) : p \in Open}
  BY DEF UnshieldedTriples, Open
<1>2. ASSUME NEW p \in Open
      PROVE  Telling(Updated({}, T(p))) /\ PlaceOf(Updated({}, T(p))) = p
  <2> DEFINE i == learned.info[p]
  <2>1. p \in Place /\ i \in -50..50 /\ i # -1
    BY MIICAssumption DEF Open
  <2>2. p = [x |-> p.x, y |-> p.y, z |-> p.z] /\ p.x \in Node /\ p.y \in Node /\ p.z \in Node
    BY <2>1 DEF Place
  <2>3. Initial(i) \in 50..100 /\ (i < 0 => Initial(i) > 50) /\ Initial(0) = 50
    BY <2>1, InitialRange, InitialLarge DEF Initial, Size
  <2> HIDE DEF i
  <2>4. Updated({}, T(p)) = IF i <= 0 THEN [T(p) EXCEPT !.px = Initial(i), !.py = Initial(i)] ELSE T(p)
    BY <2>1 DEF Updated, i
  <2> DEFINE u == Updated({}, T(p))
  <2>5. /\ u.x = p.x /\ u.y = p.y /\ u.z = p.z /\ u.i = i
        /\ i <= 0 => u.px = Initial(i) /\ u.py = Initial(i)
    <3>1. CASE i <= 0
      <4>1. u = [T(p) EXCEPT !.px = Initial(i), !.py = Initial(i)]
        BY <2>4, <3>1
      <4>2. T(p).x = p.x /\ T(p).y = p.y /\ T(p).z = p.z /\ T(p).i = i
        BY DEF i
      <4>3. DOMAIN T(p) = {"x", "y", "z", "i", "px", "py"}
        OBVIOUS
      <4> HIDE DEF T, u, i
      <4>4. /\ u.x = T(p).x /\ u.y = T(p).y /\ u.z = T(p).z /\ u.i = T(p).i
            /\ u.px = Initial(i) /\ u.py = Initial(i)
        BY <4>1, <4>3
      <4> QED
        BY <4>2, <4>4
    <3>2. CASE ~(i <= 0)
      <4>1. u = T(p)
        BY <2>4, <3>2
      <4> QED
        BY <3>2, <4>1 DEF i
    <3> QED
      BY <3>1, <3>2
  <2> HIDE DEF u
  <2>6. PlaceOf(u) = p
    BY <2>2, <2>5 DEF PlaceOf
  <2>7. PlaceOf(u) \in Open /\ u.i = learned.info[PlaceOf(u)]
    BY <2>5, <2>6 DEF i
  <2>8. (u.i < 0 => Best(u) > 50) /\ (u.i = 0 => u.px = 50 /\ u.py = 50)
    BY <2>1, <2>3, <2>5 DEF Best, Larger
  <2>9. Telling(u)
    BY <2>7, <2>8 DEF Telling
  <2> QED
    BY <2>6, <2>9 DEF u
<1> HIDE DEF T
<1> QED
  BY <1>1, <1>2

\* Nothing is oriented yet.
LEMMA InitRecovers == Init => RecoverInv
BY DEF Init, RecoverInv, input

\* What was learned does not change, nor does what explains it.
LEMMA SameExplanation ==
  ASSUME learned' = learned
  PROVE  Open' = Open /\ \A G : Explains(G)' <=> Explains(G)
BY DEF Explains, Open

\* Every unshielded triple is there to orient.
LEMMA LearnRecovers ==
  ASSUME IndInv, RecoverInv, LearnPDAG
  PROVE  RecoverInv'
<1>1. PICK A \in SUBSET Arrows :
        /\ A = Single(A) /\ arcs' = A
        /\ edges' = learned.skeleton \ Undirected(A)
        /\ triples' = UnshieldedTriples(edges', A)
  BY DEF LearnPDAG
<1>2. /\ phase = "setup" /\ phase' = "orient" /\ marks' = initial
      /\ UNCHANGED <<learned, mandatory, forbidden, initial, latent>>
  BY DEF LearnPDAG, input
<1>3. learned' \in Learned
  BY <1>2 DEF RecoverInv
<1> SUFFICES ASSUME mandatory = {}, forbidden = {}
             PROVE  /\ \A a \in Arc : initial[a] = "o"
                    /\ \A t \in triples' : Telling(t)'
                    /\ \A G \in SUBSET Arc : Explains(G) =>
                         /\ Follows(Now, G)'
                         /\ \A p \in Open : \E t \in triples' : PlaceOf(t) = p
  BY <1>2, <1>3, SameExplanation DEF RecoverInv
<1>4. \A a \in Arc : initial[a] = "o"
  BY DEF RecoverInv
<1>5. Arrows = {}
  BY <1>4 DEF Arrows
<1>6. arcs' = {} /\ edges' = learned.skeleton
  BY <1>1, <1>5 DEF Undirected
<1>7. triples' = UnshieldedTriples(learned.skeleton, {})
  BY <1>1, <1>6
<1>8. latent' = <<>>
  BY <1>2 DEF IndInv, EmptyBefore
<1>9. /\ \A t \in triples' : Telling(t)
      /\ \A p \in Open : \E t \in triples' : PlaceOf(t) = p
  BY <1>7, UnshieldedTelling DEF RecoverInv
<1>10. \A t \in triples' : Telling(t)'
  BY <1>2, <1>9, SameExplanation DEF Telling
<1>11. \A G : Follows(Now, G)'
  <2>1. Now' = [edges |-> edges', arcs |-> arcs', marks |-> marks', latent |-> latent']
    BY DEF Now
  <2> QED
    BY <1>2, <1>4, <1>6, <1>8, <2>1 DEF Follows
<1> QED
  BY <1>4, <1>9, <1>10, <1>11

\* One pass of the loop: a v-structure whose triple goes gets its arcs.
LEMMA OrientRecovers ==
  ASSUME IndInv, RecoverInv, NEW t \in triples, Orient(t)
  PROVE  RecoverInv'
<1> DEFINE g == Oriented(t)
<1>1. /\ phase = "orient" /\ phase' = "orient" /\ First(t) /\ Best(t) > 50
      /\ UNCHANGED <<learned, mandatory, forbidden, initial>>
      /\ edges' = g.edges /\ arcs' = g.arcs /\ marks' = g.marks /\ latent' = g.latent
      /\ triples' = {Updated(g.arcs, u) : u \in triples \ {t}}
  BY DEF Orient, input
<1> HIDE DEF g
<1>2. learned' \in Learned
  BY <1>1 DEF RecoverInv
<1> SUFFICES ASSUME mandatory = {}, forbidden = {}
             PROVE  /\ \A a \in Arc : initial[a] = "o"
                    /\ \A u \in triples' : Telling(u)'
                    /\ \A G \in SUBSET Arc : Explains(G) =>
                         /\ Follows(Now, G)'
                         /\ \A p \in Open : learned.info[p] < 0 =>
                              Sides(p) \subseteq arcs' \/ \E u \in triples' : PlaceOf(u) = p
  BY <1>1, <1>2, SameExplanation DEF RecoverInv
<1>3. /\ \A a \in Arc : initial[a] = "o"
      /\ \A u \in triples : Telling(u) /\ u \in Triple
  BY <1>1 DEF RecoverInv, IndInv, TypeOK
<1>4. \A u \in triples : Telling(Updated(g.arcs, u)) /\ PlaceOf(Updated(g.arcs, u)) = PlaceOf(u)
  BY <1>3, UpdatedTelling DEF RecoverInv
<1>5. \A u \in triples' : Telling(u)'
  BY <1>1, <1>4, SameExplanation DEF Telling
<1>6. ASSUME NEW G \in SUBSET Arc, Explains(G)
      PROVE  /\ Follows(Now, G)'
             /\ \A p \in Open : learned.info[p] < 0 =>
                  Sides(p) \subseteq arcs' \/ \E u \in triples' : PlaceOf(u) = p
  <2>1. /\ Follows(Now, G)
        /\ \A p \in Open : learned.info[p] < 0 =>
             Sides(p) \subseteq arcs \/ \E u \in triples : PlaceOf(u) = p
    BY <1>1, <1>6 DEF RecoverInv
  <2>2. /\ Follows(g, G)
        /\ arcs \subseteq g.arcs
        /\ t.i < 0 => Sides(PlaceOf(t)) \subseteq g.arcs
    BY <1>1, <1>3, <1>6, <2>1, OrientedFollows DEF IndInv, g
  <2>3. Follows(Now, G)'
    <3>1. Now' = [edges |-> edges', arcs |-> arcs', marks |-> marks', latent |-> latent']
      BY DEF Now
    <3> QED
      BY <1>1, <2>2, <3>1 DEF Follows
  <2>4. ASSUME NEW p \in Open, learned.info[p] < 0, ~(Sides(p) \subseteq arcs')
        PROVE  \E u \in triples' : PlaceOf(u) = p
    <3>1. ~(Sides(p) \subseteq arcs)
      BY <1>1, <2>2, <2>4
    <3>2. PICK u \in triples : PlaceOf(u) = p
      BY <2>1, <2>4, <3>1
    <3>3. u.i < 0
      BY <1>3, <2>4, <3>2 DEF Telling
    <3>4. u # t
      BY <1>1, <2>2, <2>4, <3>2, <3>3
    <3> QED
      BY <1>1, <1>4, <3>2, <3>4
  <2> QED
    BY <2>3, <2>4
<1> QED
  BY <1>3, <1>5, <1>6

\* The loop ends only when no triple of negative information is left.
LEMMA EndOrientRecovers ==
  ASSUME IndInv, RecoverInv, EndOrient
  PROVE  RecoverInv'
<1>1. /\ phase = "orient" /\ phase' = "resolve" /\ triples' = {}
      /\ \A t \in triples : First(t) => ~(Best(t) > 50)
      /\ UNCHANGED <<learned, mandatory, forbidden, initial, edges, arcs, marks, latent>>
  <2>1. ASSUME NEW t \in triples, First(t)
        PROVE  ~(Best(t) > 50)
    <3>1. Best(t) \in 50..100
      BY DEF IndInv, TypeOK, Triple, Best, Larger
    <3>2. Best(t) <= 50
      BY <2>1 DEF EndOrient
    <3> QED
      BY <3>1, <3>2
  <2> QED
    BY <2>1 DEF EndOrient, input
<1>2. learned' \in Learned
  BY <1>1 DEF RecoverInv
<1>3. Now' = Now
  BY <1>1 DEF Now
<1> SUFFICES ASSUME mandatory = {}, forbidden = {}
             PROVE  /\ \A a \in Arc : initial[a] = "o"
                    /\ \A G \in SUBSET Arc : Explains(G) =>
                         /\ Follows(Now, G)
                         /\ \A p \in Open : learned.info[p] < 0 => Sides(p) \subseteq arcs
  <2>1. \A G : Follows(Now, G)' <=> Follows(Now, G)
    BY <1>3 DEF Follows
  <2> QED
    BY <1>1, <1>2, <2>1, SameExplanation DEF RecoverInv
<1>4. \A t \in triples : ~(t.i < 0)
  <2> SUFFICES ASSUME NEW t \in triples, t.i < 0 PROVE FALSE
    OBVIOUS
  <2>1. PICK u \in triples : First(u) /\ u.i < 0
    BY NegativeFirst DEF IndInv, TypeOK
  <2>2. Best(u) > 50
    BY <1>1, <2>1 DEF RecoverInv, Telling
  <2> QED
    BY <1>1, <2>1, <2>2
<1>5. \A t \in triples : t.i = learned.info[PlaceOf(t)]
  BY <1>1 DEF RecoverInv, Telling
<1>6. \A p \in Open : learned.info[p] < 0 => ~\E t \in triples : PlaceOf(t) = p
  BY <1>4, <1>5
<1> QED
  BY <1>1, <1>6 DEF RecoverInv

\* No couple is there to resolve, if some DAG explains the signs.
LEMMA NextRecovers == IndInv /\ RecoverInv /\ [Next]_vars => RecoverInv'
<1> SUFFICES ASSUME IndInv, RecoverInv, [Next]_vars PROVE RecoverInv'
  OBVIOUS
<1>1. ASSUME UNCHANGED <<learned, mandatory, forbidden, initial, edges, arcs, marks, latent, triples>>,
             phase' = phase \/ (phase = "resolve" /\ phase' = "done")
      PROVE  RecoverInv'
  <2>1. Now' = Now
    BY <1>1 DEF Now
  <2>2. \A G : Follows(Now, G)' <=> Follows(Now, G)
    BY <2>1 DEF Follows
  <2>3. \A t \in triples : Telling(t)' <=> Telling(t)
    BY <1>1, SameExplanation DEF Telling
  <2> QED
    BY <1>1, <2>2, <2>3, SameExplanation DEF RecoverInv
<1>2. ASSUME NEW a \in Choosable, AddMandatoryArc(a) \/ AddForbiddenArc(a)
      PROVE  RecoverInv'
  BY <1>2 DEF AddMandatoryArc, AddForbiddenArc, Marked, RecoverInv
<1>3. CASE Resolve
  <2>1. /\ phase = "resolve" /\ phase' = "resolve" /\ left > 0
        /\ UNCHANGED <<learned, mandatory, forbidden, initial, triples>>
    BY <1>3 DEF Resolve, input
  <2>2. mandatory = {} /\ forbidden = {} => \A G \in SUBSET Arc : ~Explains(G)
    <3> SUFFICES ASSUME mandatory = {}, forbidden = {}, NEW G \in SUBSET Arc, Explains(G) PROVE FALSE
      OBVIOUS
    <3>1. latent = <<>>
      BY <2>1, NowTyped DEF RecoverInv, Follows, IndInv
    <3> QED
      BY <2>1, <3>1 DEF IndInv, TypeOK
  <2>3. \A t \in triples : Telling(t)' <=> Telling(t)
    BY <2>1, SameExplanation DEF Telling
  <2> QED
    BY <2>1, <2>2, <2>3, SameExplanation DEF RecoverInv
<1>4. CASE Finish
  BY <1>1, <1>4 DEF Finish, input
<1>5. CASE UNCHANGED vars
  BY <1>1, <1>5 DEF vars, input
<1> QED
  BY <1>2, <1>3, <1>4, <1>5, LearnRecovers, OrientRecovers, EndOrientRecovers DEF Next

\* A way to direct the skeleton that has the v-structures explains them.
LEMMA DirectedExplains ==
  ASSUME TypeOK, NEW F \in SUBSET learned.skeleton,
         Acyclic(Directed(learned.skeleton, F)),
         \A p \in Open : (Sides(p) \subseteq Directed(learned.skeleton, F)) <=> learned.info[p] < 0
  PROVE  Directed(learned.skeleton, F) \in SUBSET Arc /\ Explains(Directed(learned.skeleton, F))
<1> DEFINE G == Directed(learned.skeleton, F)
<1>1. G \subseteq Arc
  BY DEF Directed
<1>2. ASSUME NEW u \in Node, NEW v \in Node, u # v, {u, v} \in learned.skeleton
      PROVE  <<u, v>> \in G \/ <<v, u>> \in G
  <2> DEFINE e == {u, v}
             n == CHOOSE m \in e : TRUE
  <2>1. n = u \/ n = v
    OBVIOUS
  <2>2. <<u, v>> \in Arc /\ <<v, u>> \in Arc
    BY <1>2, ArcOf
  <2>3. {v, u} = {u, v}
    OBVIOUS
  <2>4. <<u, v>> \in G <=> (e \in F <=> u = n)
    BY <1>2, <2>2 DEF Directed
  <2>5. <<v, u>> \in G <=> (e \in F <=> v = n)
    BY <1>2, <2>2, <2>3 DEF Directed
  <2> HIDE DEF e, n, G
  <2>6. (u = n /\ v # n) \/ (u # n /\ v = n)
    BY ONLY <2>1, u # v
  <2>7. CASE e \in F
    BY <2>4, <2>5, <2>6, <2>7
  <2>8. CASE e \notin F
    BY <2>4, <2>5, <2>6, <2>8
  <2> QED
    BY <2>7, <2>8
<1> HIDE DEF G
<1> QED
  BY <1>1, <1>2 DEF Explains, G

\* Without marks, learnPDAG recovers whatever DAG the signs of the information
\* tell: its v-structures, no arc against it and no latent couple.
THEOREM PDAGRecoversDAG == Spec => []RecoversDAG
<1>1. IndInv /\ RecoverInv => RecoversDAG
  <2> DEFINE E == learned.skeleton
             colliders == {p \in Open : learned.info[p] < 0}
             G(F) == Directed(E, F)
             right(A) == UNION {Sides(p) : p \in colliders} \subseteq arcs /\ arcs \subseteq A
  <2> SUFFICES ASSUME IndInv, RecoverInv, phase = "done", mandatory = {}, forbidden = {},
                      NEW F \in SUBSET E, Acyclic(G(F)),
                      \A p \in Open : (Sides(p) \subseteq G(F)) <=> learned.info[p] < 0
               PROVE  right(G(F)) /\ latent = <<>>
    <3>1. RecoversDAG <=>
            (phase = "done" /\ mandatory = {} /\ forbidden = {} =>
               \A F \in SUBSET E :
                 ~right(G(F)) \/ latent # <<>> =>
                   \/ \E p \in Open : (Sides(p) \subseteq G(F)) # (p \in colliders)
                   \/ ~Acyclic(G(F)))
      BY DEF RecoversDAG, Open, Sides
    <3>2. ASSUME NEW F \in SUBSET E,
                 ~\E p \in Open : (Sides(p) \subseteq G(F)) # (p \in colliders)
          PROVE  \A p \in Open : (Sides(p) \subseteq G(F)) <=> learned.info[p] < 0
      BY <3>2
    <3> HIDE DEF E, G, right
    <3> QED
      BY <3>1, <3>2
  <2>1. /\ Directed(learned.skeleton, F) \in SUBSET Arc
        /\ Explains(Directed(learned.skeleton, F))
    BY DirectedExplains DEF IndInv
  <2>2. /\ arcs \subseteq G(F) /\ latent = <<>>
        /\ \A p \in colliders : Sides(p) \subseteq arcs
    BY <2>1, NowTyped DEF RecoverInv, Follows, IndInv
  <2> QED
    BY <2>2
<1> QED
  BY InitIndInv, NextIndInv, InitRecovers, NextRecovers, <1>1, PTL DEF Spec
-----------------------------------------------------------------------------
\* While triples are oriented, a mark that forbids an arc is kept until that
\* arc is added.
Heeded(g) == \A a \in Arc : initial[a] = "-" => g.marks[a] = "-" \/ a \in g.arcs

HeedInv == phase = "orient" => Heeded(Now)

\* One arc that has a side of a v-structure.
LEMMA PointedForbidden ==
  ASSUME NEW g \in Graph, Heeded(g), NEW x \in Node, NEW z \in Node, x # z
  PROVE  LET h == Pointed(g, x, z)
         IN  /\ Heeded(h)
             /\ h.arcs \in {g.arcs, g.arcs \cup {<<x, z>>}, g.arcs \cup {<<z, x>>}}
             /\ <<z, x>> \in h.arcs \ g.arcs => ReachesIndirectly(g.arcs, z, x)
<1> DEFINE r == Removed(g, {x, z})
           f == Added(r, <<x, z>>)
           b == Added(r, <<z, x>>)
           h == Pointed(g, x, z)
<1>1. <<x, z>> \in Arc /\ <<z, x>> \in Arc /\ <<x, z>> # <<z, x>>
  BY ArcOf, RevFacts
<1>2. /\ r.arcs = g.arcs /\ r.marks = g.marks
      /\ f.arcs = g.arcs \cup {<<x, z>>} /\ f.marks = [g.marks EXCEPT ![<<x, z>>] = ">"]
      /\ b.arcs = g.arcs \cup {<<z, x>>} /\ b.marks = [g.marks EXCEPT ![<<z, x>>] = ">"]
      /\ g.marks \in [Arc -> {"o", ">", "-"}]
  BY <1>1 DEF Removed, Added, Graph
<1>3. h \in {r, f, Couple(f, <<z, x>>)} \/ (h = b /\ ReachesIndirectly(g.arcs, z, x))
  BY DEF Pointed
<1>4. /\ Couple(f, <<z, x>>).arcs = f.arcs /\ Couple(f, <<z, x>>).marks = f.marks
  BY DEF Couple, Added, Removed, Graph
<1> HIDE DEF r, f, b, h
<1>5. Heeded(h)
  BY <1>1, <1>2, <1>3, <1>4 DEF Heeded
<1>6. h.arcs \in {g.arcs, g.arcs \cup {<<x, z>>}, g.arcs \cup {<<z, x>>}}
  BY <1>2, <1>3, <1>4
<1>7. <<z, x>> \in h.arcs \ g.arcs => ReachesIndirectly(g.arcs, z, x)
  BY <1>1, <1>2, <1>3, <1>4
<1> QED
  BY <1>5, <1>6, <1>7 DEF h

\* An arrow passed on is not put where a mark forbids it.
LEMMA PassedOnForbidden ==
  ASSUME NEW g \in Graph, Heeded(g), NEW y \in Node, NEW z \in Node, y # z,
         g.marks[<<y, z>>] = "o", g.marks[<<z, y>>] # "-"
  PROVE  LET h == PassedOn(g, z, y)
         IN  Heeded(h) /\ \A a \in h.arcs \ g.arcs : initial[a] # "-"
<1> DEFINE r == Removed(g, {z, y})
           f == Onward(r, z, y)
           b == Back(r, z, y)
           h == PassedOn(g, z, y)
<1>1. <<y, z>> \in Arc /\ <<z, y>> \in Arc /\ <<y, z>> # <<z, y>>
  BY ArcOf, RevFacts
<1>2. g.marks \in [Arc -> {"o", ">", "-"}] /\ g.arcs \subseteq Arc
  BY DEF Graph
<1>3. r.arcs = g.arcs /\ r.marks = g.marks
  BY DEF Removed, Graph
<1>4. /\ f.arcs = g.arcs \cup {<<z, y>>}
      /\ f.marks = [[g.marks EXCEPT ![<<z, y>>] = ">"] EXCEPT ![<<y, z>>] = "-"]
  BY DEF Onward, Added, Removed, Graph
<1>5. /\ b.arcs = g.arcs \cup {<<y, z>>}
      /\ b.marks = [[g.marks EXCEPT ![<<y, z>>] = ">"] EXCEPT ![<<z, y>>] = "-"]
  BY DEF Back, Couple, Added, Removed, Graph
<1>6. h \in {r, f, b}
  BY DEF PassedOn
<1> HIDE DEF r, f, b, h
<1>7. Heeded(h)
  <2>1. ASSUME NEW a \in Arc, initial[a] = "-"
        PROVE  h.marks[a] = "-" \/ a \in h.arcs
    <3>1. g.marks[a] = "-" \/ a \in g.arcs
      BY <2>1 DEF Heeded
    <3> QED
      BY <1>1, <1>2, <1>3, <1>4, <1>5, <1>6, <3>1
  <2> QED
    BY <2>1 DEF Heeded
<1>8. \A a \in h.arcs \ g.arcs : a \in {<<y, z>>, <<z, y>>}
  BY <1>3, <1>4, <1>5, <1>6
<1>9. \A a \in {<<y, z>>, <<z, y>>} \ g.arcs : initial[a] # "-"
  <2>1. ASSUME NEW a \in Arc, a \notin g.arcs, g.marks[a] # "-"
        PROVE  initial[a] # "-"
    BY <2>1 DEF Heeded
  <2>2. g.marks[<<y, z>>] # "-"
    OBVIOUS
  <2> QED
    BY <1>1, <2>1, <2>2
<1> QED
  BY <1>7, <1>8, <1>9 DEF h

\* What leads from z to y after one side of a v-structure into z has got its
\* arc, did so before.
LEMMA PathBefore ==
  ASSUME NEW A \in SUBSET Arc, NEW B, NEW x \in Node, NEW y \in Node, NEW z \in Node,
         x # y, x # z, y # z,
         \/ B = A
         \/ B = A \cup {<<x, z>>}
         \/ B = A \cup {<<z, x>>} /\ ReachesIndirectly(A, z, x),
         <<z, y>> \notin A,
         ReachesIndirectly(B, z, y)
  PROVE  ReachesIndirectly(A, z, y)
<1> SUFFICES ASSUME ~ReachesIndirectly(A, z, y) PROVE FALSE
  OBVIOUS
<1>1. PICK T : z \in T /\ y \notin T /\ ClosedUnder(T, Single(A) \ {<<z, y>>})
  BY NoPath DEF ReachesIndirectly
<1>2. ClosedUnder(T, Single(A))
  BY <1>1 DEF Single
<1>3. B = A \cup {<<z, x>>} /\ ReachesIndirectly(A, z, x) => x \in T
  <2> SUFFICES ASSUME ReachesIndirectly(A, z, x) PROVE x \in T
    OBVIOUS
  <2>1. ClosedUnder(T, Single(A) \ {<<z, x>>})
    BY <1>2 DEF ClosedUnder
  <2> QED
    BY <1>1, <2>1, PathStaysIn DEF ReachesIndirectly
<1>4. \A b \in Single(B) : b \in Single(A) \/ (b = <<x, z>> /\ z \in T) \/ (b = <<z, x>> /\ x \in T)
  BY <1>1, <1>3 DEF Single
<1>5. ClosedUnder(T, Single(B) \ {<<z, y>>})
  <2>1. ASSUME NEW b \in Single(B), b[1] \in T
        PROVE  b[2] \in T
    <3>1. CASE b \in Single(A)
      BY <1>2, <2>1, <3>1 DEF ClosedUnder
    <3>2. CASE b = <<x, z>> /\ z \in T
      BY <3>2
    <3>3. CASE b = <<z, x>> /\ x \in T
      BY <3>3
    <3> QED
      BY <1>4, <3>1, <3>2, <3>3
  <2> QED
    BY <2>1 DEF ClosedUnder
<1> QED
  BY <1>1, <1>5, PathStaysIn DEF ReachesIndirectly

\* One pass of the loop.
LEMMA OrientedForbidden ==
  ASSUME TypeOK, TriplesOfSkeleton, Heeded(Now), NEW t \in triples
  PROVE  /\ Heeded(Oriented(t))
         /\ \A a \in Oriented(t).arcs \ arcs : initial[a] = "-" => ReachesIndirectly(arcs, a[1], a[2])
<1> DEFINE x == t.x
           y == t.y
           z == t.z
           Fine(h) == /\ Heeded(h)
                      /\ \A a \in h.arcs \ arcs :
                           initial[a] = "-" => ReachesIndirectly(arcs, a[1], a[2])
<1>1. /\ x \in Node /\ y \in Node /\ z \in Node /\ x # y /\ x # z /\ y # z
  BY DEF TypeOK, Triple, TriplesOfSkeleton
<1>2. Now \in Graph /\ Now.arcs = arcs /\ Now.marks = marks /\ arcs \subseteq Arc
  BY NowTyped DEF TypeOK
<1>3. \A a \in Arc : marks[a] = "o" => initial[a] # "-" \/ a \in arcs
  BY <1>2 DEF Heeded
<1>4. Fine(Now)
  BY <1>2
<1>5. /\ <<x, z>> \in Arc /\ <<z, x>> \in Arc /\ <<y, z>> \in Arc /\ <<z, y>> \in Arc
      /\ <<z, x>>[1] = z /\ <<z, x>>[2] = x /\ <<z, y>>[1] = z /\ <<z, y>>[2] = y
  BY <1>1, ArcOf
<1> HIDE DEF x, y, z
<1>6. ASSUME NEW u \in {x, y}, marks[<<u, z>>] = "o"
      PROVE  Fine(Pointed(Now, u, z))
  <2> DEFINE h == Pointed(Now, u, z)
  <2>1. /\ Heeded(h) /\ h.arcs \in {arcs, arcs \cup {<<u, z>>}, arcs \cup {<<z, u>>}}
        /\ <<z, u>> \in h.arcs \ arcs => ReachesIndirectly(arcs, z, u)
    BY <1>1, <1>2, PointedForbidden
  <2> HIDE DEF h
  <2>2. ASSUME NEW a \in h.arcs \ arcs, initial[a] = "-"
        PROVE  ReachesIndirectly(arcs, a[1], a[2])
    <3>1. a # <<u, z>>
      BY <1>3, <1>5, <1>6, <2>2
    <3>2. a = <<z, u>>
      BY <2>1, <2>2, <3>1
    <3> QED
      BY <2>1, <2>2, <3>2
  <2> QED
    BY <2>1, <2>2 DEF h
<1>7. ASSUME marks[<<x, z>>] = "o", marks[<<y, z>>] = "o"
      PROVE  Fine(Pointed(Pointed(Now, x, z), y, z))
  <2> DEFINE g == Pointed(Now, x, z)
             h == Pointed(g, y, z)
  <2>1. /\ Heeded(g) /\ g.arcs \in {arcs, arcs \cup {<<x, z>>}, arcs \cup {<<z, x>>}}
        /\ <<z, x>> \in g.arcs \ arcs => ReachesIndirectly(arcs, z, x)
        /\ g \in Graph
    BY <1>1, <1>2, PointedForbidden, PointedTyped
  <2> HIDE DEF g
  <2>2. /\ Heeded(h) /\ h.arcs \in {g.arcs, g.arcs \cup {<<y, z>>}, g.arcs \cup {<<z, y>>}}
        /\ <<z, y>> \in h.arcs \ g.arcs => ReachesIndirectly(g.arcs, z, y)
    BY <1>1, <2>1, PointedForbidden
  <2> HIDE DEF h
  <2>3. ASSUME NEW a \in h.arcs \ arcs, initial[a] = "-"
        PROVE  ReachesIndirectly(arcs, a[1], a[2])
    <3>1. a # <<x, z>> /\ a # <<y, z>>
      BY <1>3, <1>5, <1>7, <2>3
    <3>2. CASE a \in g.arcs
      <4>1. a = <<z, x>>
        BY <2>1, <2>3, <3>1, <3>2
      <4> QED
        BY <2>1, <2>3, <3>2, <4>1
    <3>3. CASE a \notin g.arcs
      <4>1. a = <<z, y>>
        BY <2>2, <2>3, <3>1, <3>3
      <4>2. ReachesIndirectly(g.arcs, z, y) /\ <<z, y>> \notin arcs
        BY <2>2, <2>3, <3>3, <4>1
      <4>3. \/ g.arcs = arcs
            \/ g.arcs = arcs \cup {<<x, z>>}
            \/ g.arcs = arcs \cup {<<z, x>>} /\ ReachesIndirectly(arcs, z, x)
        BY <2>1
      <4>4. ReachesIndirectly(arcs, z, y)
        BY <1>1, <1>2, <4>2, <4>3, PathBefore
      <4> QED
        BY <4>1, <4>4
    <3> QED
      BY <3>2, <3>3
  <2> QED
    BY <2>2, <2>3 DEF g, h
<1>8. ASSUME NEW u \in {x, y}, marks[<<u, z>>] = "o", marks[<<z, u>>] # "-"
      PROVE  Fine(PassedOn(Now, z, u))
  <2>1. /\ Heeded(PassedOn(Now, z, u))
        /\ \A a \in PassedOn(Now, z, u).arcs \ arcs : initial[a] # "-"
    BY <1>1, <1>2, <1>8, PassedOnForbidden
  <2> QED
    BY <2>1
<1>9. \/ Oriented(t) = Now
      \/ marks[<<x, z>>] = "o" /\ marks[<<y, z>>] = "o"
           /\ Oriented(t) = Pointed(Pointed(Now, x, z), y, z)
      \/ \E u \in {x, y} : marks[<<u, z>>] = "o" /\ Oriented(t) = Pointed(Now, u, z)
      \/ \E u \in {x, y} : /\ marks[<<u, z>>] = "o" /\ marks[<<z, u>>] # "-"
                           /\ Oriented(t) = PassedOn(Now, z, u)
  <2>1. CASE t.i <= 0
    BY <1>2, <2>1 DEF Oriented, VStructure, x, y, z
  <2>2. CASE ~(t.i <= 0)
    BY <1>2, <2>2 DEF Oriented, Propagation, x, y, z
  <2> QED
    BY <2>1, <2>2
<1>10. Fine(Oriented(t))
  <2> HIDE DEF Fine
  <2> QED
    BY <1>4, <1>6, <1>7, <1>8, <1>9
<1> QED
  BY <1>10

\* The marks are heeded throughout the loop.
LEMMA NextHeeds == IndInv /\ HeedInv /\ [Next]_vars => HeedInv'
<1> SUFFICES ASSUME IndInv, HeedInv, [Next]_vars, phase' = "orient"
             PROVE  Heeded(Now)'
  BY DEF HeedInv
<1>1. CASE LearnPDAG
  BY <1>1 DEF LearnPDAG, input, Heeded, Now
<1>2. ASSUME NEW t \in triples, Orient(t)
      PROVE  Heeded(Now)'
  <2>1. Heeded(Oriented(t))
    BY <1>2, OrientedForbidden DEF IndInv, HeedInv, Orient
  <2> QED
    BY <1>2, <2>1 DEF Orient, Heeded, Now, input
<1>3. CASE UNCHANGED vars
  BY <1>3 DEF vars, input, HeedInv, Heeded, Now
<1>4. ASSUME NEW a \in Choosable, AddMandatoryArc(a) \/ AddForbiddenArc(a)
      PROVE  FALSE
  BY <1>4 DEF AddMandatoryArc, AddForbiddenArc, Marked
<1>5. ~(EndOrient \/ Resolve \/ Finish)
  BY DEF EndOrient, Resolve, Finish
<1> QED
  BY <1>1, <1>2, <1>3, <1>4, <1>5 DEF Next

\* An arc whose mark forbids it is only added against a cycle, whatever the
\* user asked for and whatever double-headed arcs have come about.
THEOREM ForbiddenAgainstCycle == Spec => ForbiddenOnlyAgainstCycle
<1> DEFINE Fine == \A a \in arcs' \ arcs : initial[a] = "-" => ReachesIndirectly(arcs, a[1], a[2])
<1>1. Init => HeedInv
  BY DEF Init, HeedInv, input
<1>2. IndInv /\ HeedInv /\ [Next]_vars => [Fine]_vars
  <2> SUFFICES ASSUME IndInv, HeedInv, Next PROVE Fine
    OBVIOUS
  <2>1. CASE LearnPDAG
    BY <2>1 DEF LearnPDAG, Arrows, input
  <2>2. ASSUME NEW t \in triples, Orient(t)
        PROVE  Fine
    <3>1. \A a \in Oriented(t).arcs \ arcs : initial[a] = "-" => ReachesIndirectly(arcs, a[1], a[2])
      BY <2>2, OrientedForbidden DEF IndInv, HeedInv, Orient
    <3> QED
      BY <2>2, <3>1 DEF Orient
  <2>3. CASE Resolve
    <3> DEFINE a == latent[left]
    <3>1. a \in Arc /\ Rev(a) \in Arc /\ Rev(a)[1] = a[2] /\ Rev(a)[2] = a[1]
      <4>1. a \in Arc
        BY <2>3 DEF Resolve, IndInv, TypeOK
      <4> HIDE DEF a
      <4> QED
        BY <4>1, RevFacts
    <3>2. \/ arcs' \subseteq arcs
          \/ arcs' \subseteq arcs \cup {Rev(a)} /\ Reaches(arcs \ {Rev(a)}, a[2], a[1])
      BY <2>3 DEF Resolve, Flip, Keep
    <3> HIDE DEF a
    <3>3. Rev(a) \notin arcs => Single(arcs \ {Rev(a)}) = Single(arcs) \ {Rev(a)}
      BY DEF Single
    <3>4. Rev(a) \notin arcs /\ Reaches(arcs \ {Rev(a)}, a[2], a[1])
            => ReachesIndirectly(arcs, Rev(a)[1], Rev(a)[2])
      <4>1. Rev(a) = <<a[2], a[1]>>
        BY DEF Rev
      <4> QED
        BY <3>1, <3>3, <4>1 DEF Reaches, ReachesIndirectly
    <3> QED
      BY <3>2, <3>4
  <2>4. ASSUME NEW a \in Choosable, AddMandatoryArc(a) \/ AddForbiddenArc(a)
        PROVE  Fine
    BY <2>4 DEF AddMandatoryArc, AddForbiddenArc, Marked
  <2>5. CASE EndOrient \/ Finish
    BY <2>5 DEF EndOrient, Finish
  <2> QED
    BY <2>1, <2>2, <2>3, <2>4, <2>5 DEF Next
<1> QED
  BY InitIndInv, NextIndInv, NextHeeds, <1>1, <1>2, PTL DEF Spec, ForbiddenOnlyAgainstCycle
=============================================================================
