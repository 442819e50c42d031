------------------------- MODULE PCOrientationProofs -------------------------
(***************************************************************************)
(* What inferPDAG and deriveMoralGraph guarantee for every sample: any     *)
(* number of variables, any skeleton, separating sets and p-values.        *)
(*                                                                         *)
(* The invariant below adds two facts to the properties of PCOrientation:  *)
(* the queue only holds triplets that CollectTriplets put there, and the   *)
(* PDAG is empty until then.  The acyclicity step rests on AcyclicFanIn:   *)
(* the two probes for a directed path give two sets closed under the arcs, *)
(* whose intersection separates the middle node from both ends at once, so *)
(* adding the first arc cannot open the path that the second would close.  *)
(* A second invariant, Settled, says what became of the triplets popped:   *)
(* they are oriented, or would close a cycle with triplets oriented before *)
(* them.  The invariant Moralised follows deriveMoralGraph node by node.   *)
(***************************************************************************)
EXTENDS PCOrientation, CommonTheorems

QueueFromSkeleton == queue \subseteq VStructures

EmptyUntilCollected == phase = "collect" => queue = {} /\ edges = {} /\ arcs = {}

\* Every arc there is while t waits came with a triplet of no larger p-value.
Before(t) ==
  {u \in VStructures : ArcsOf(u) \subseteq arcs /\ pvalue[u.ends] <= pvalue[t.ends]}

\* The arcs that a cycle would be made of which kept t out.
Support(t) == ArcsOf(t) \cup UNION {ArcsOf(u) : u \in Before(t)}

QueueOrder == \A t \in queue : arcs \subseteq UNION {ArcsOf(u) : u \in Before(t)}

IndInv ==
  /\ TypeOK
  /\ QueueFromSkeleton
  /\ EmptyUntilCollected
  /\ DirectedPartAcyclic
  /\ AdjacenciesKept
  /\ QueueOrder

\* The arcs and edges of a queued triplet: two arcs of the graph's nodes,
\* lying over edges of the skeleton.
LEMMA TripletShape ==
  ASSUME TypeOK, NEW t \in VStructures
  PROVE  /\ t.ends \in Edge /\ t.mid \in Node /\ t.mid \notin t.ends
         /\ ArcsOf(t) \subseteq Arc
         /\ Undirected(ArcsOf(t)) = EdgesOf(t)
         /\ EdgesOf(t) \subseteq skeleton
         /\ t.ends \in DOMAIN pvalue
<1>1. t.ends \in Edge /\ t.mid \in Node /\ t.mid \notin t.ends /\ t.ends \notin skeleton
  BY DEF VStructures, Triplet, Unshielded
<1>2. t.ends \subseteq Node
  BY <1>1, EdgeEnds DEF Edge
<1>3. ArcsOf(t) \subseteq Arc
  BY <1>1, <1>2 DEF ArcsOf, Arc, ArcsOver
<1>4. Undirected(ArcsOf(t)) = EdgesOf(t)
  <2>1. ASSUME NEW x \in t.ends
        PROVE  {x, t.mid} \in Undirected(ArcsOf(t))
    <3> DEFINE a == <<x, t.mid>>
    <3>1. a \in ArcsOf(t) /\ a[1] = x /\ a[2] = t.mid
      BY DEF ArcsOf
    <3> QED
      BY <3>1 DEF Undirected
  <2>2. ASSUME NEW a \in ArcsOf(t)
        PROVE  {a[1], a[2]} \in EdgesOf(t)
    BY DEF ArcsOf, EdgesOf
  <2> QED
    BY <2>1, <2>2 DEF Undirected, EdgesOf
<1>5. EdgesOf(t) \subseteq skeleton
  BY DEF EdgesOf, VStructures, Unshielded
<1> QED
  BY <1>1, <1>3, <1>4, <1>5 DEF TypeOK

\* Orienting a triplet that is not blocked closes no cycle.
LEMMA OrientKeepsAcyclic ==
  ASSUME Acyclic(arcs), NEW t, t.ends \in Edge, ~Blocked(t)
  PROVE  Acyclic(arcs \cup ArcsOf(t))
<1>1. PICK x, z \in Node : t.ends = {x, z}
  BY EdgeEnds DEF Edge
<1>2. ~DirectedPath(arcs, t.mid, x) /\ ~DirectedPath(arcs, t.mid, z)
  BY <1>1 DEF Blocked
<1>3. PICK Tx : t.mid \in Tx /\ x \notin Tx /\ ClosedUnder(Tx, arcs)
  BY <1>2, NoPath
<1>4. PICK Tz : t.mid \in Tz /\ z \notin Tz /\ ClosedUnder(Tz, arcs)
  BY <1>2, NoPath
<1> DEFINE T == Tx \cap Tz
<1>5. t.mid \in T /\ t.ends \cap T = {}
  BY <1>1, <1>3, <1>4
<1>6. ClosedUnder(T, arcs)
  BY <1>3, <1>4 DEF ClosedUnder
<1>7. Acyclic(arcs \cup {<<w, t.mid>> : w \in t.ends})
  BY <1>5, <1>6, AcyclicFanIn
<1> QED
  BY <1>7 DEF ArcsOf
-----------------------------------------------------------------------------
LEMMA InitIndInv == Init => IndInv
<1> SUFFICES ASSUME Init PROVE IndInv
  OBVIOUS
<1>1. queue = {} /\ edges = {} /\ arcs = {} /\ moral = {} /\ todo = {} /\ phase = "collect"
  BY DEF Init
<1>2. TypeOK
  BY LearnedAssumption DEF Init, TypeOK
<1>3. Acyclic(arcs)
  BY <1>1 DEF Acyclic
<1> QED
  BY <1>1, <1>2, <1>3 DEF IndInv, QueueFromSkeleton, EmptyUntilCollected,
       DirectedPartAcyclic, AdjacenciesKept, QueueOrder

\* Removing the popped triplet from the queue.
LEMMA PopStep ==
  ASSUME IndInv, NEW t \in Triplet, Pop(t), UNCHANGED <<skeleton, sepset>>
  PROVE  /\ t \in VStructures
         /\ VStructures' = VStructures
         /\ queue' \subseteq VStructures
         /\ queue' = queue \ {t}
         /\ \A u \in queue : pvalue[t.ends] <= pvalue[u.ends]
BY DEF Pop, IndInv, QueueFromSkeleton, VStructures, Unshielded, Triplet

\* Moralising leaves the PDAG alone.
LEMMA GraphUnchanged ==
  ASSUME IndInv, TypeOK', UNCHANGED <<skeleton, sepset, pvalue, queue, edges, arcs>>,
         phase # "collect", phase' # "collect"
  PROVE  IndInv'
<1>1. VStructures' = VStructures
  BY DEF VStructures, Unshielded
<1>2. QueueOrder'
  BY <1>1 DEF IndInv, QueueOrder, Before, ArcsOf
<1> QED
  BY <1>1, <1>2 DEF IndInv, QueueFromSkeleton, EmptyUntilCollected,
       DirectedPartAcyclic, AdjacenciesKept

\* The parents of a node are other nodes.
LEMMA ParentsTyped ==
  ASSUME TypeOK, NEW y, NEW p \in Parents(arcs, y)
  PROVE  p \in Node /\ p # y /\ <<p, y>> \in arcs
<1> DEFINE a == <<p, y>>
<1>1. a \in arcs
  BY DEF Parents
<1>2. a \in Arc
  BY <1>1 DEF TypeOK
<1> QED
  BY <1>1, <1>2 DEF Arc, ArcsOver

LEMMA NextIndInv == IndInv /\ [Next]_vars => IndInv'
<1> SUFFICES ASSUME IndInv, [Next]_vars PROVE IndInv'
  OBVIOUS
<1>1. CASE CollectTriplets
  <2> USE <1>1 DEF CollectTriplets
  <2>1. arcs = {}
    BY DEF IndInv, EmptyUntilCollected
  <2>2. VStructures' = VStructures /\ VStructures \subseteq Triplet
    BY DEF VStructures, Unshielded
  <2>3. TypeOK'
    BY <2>2 DEF IndInv, TypeOK
  <2>4. AdjacenciesKept'
    BY <2>1 DEF AdjacenciesKept, Undirected
  <2>5. QueueOrder'
    BY <2>1 DEF QueueOrder
  <2> QED
    BY <2>2, <2>3, <2>4, <2>5 DEF IndInv, QueueFromSkeleton, EmptyUntilCollected,
         DirectedPartAcyclic
<1>2. ASSUME NEW t \in Triplet, SkipTriplet(t)
      PROVE  IndInv'
  <2>1. Pop(t) /\ UNCHANGED <<skeleton, sepset, pvalue, edges, arcs, moral, todo, phase>>
    BY <1>2 DEF SkipTriplet
  <2>2. /\ VStructures' = VStructures /\ queue' \subseteq VStructures
        /\ queue' = queue \ {t}
    BY <2>1, PopStep
  <2>3. TypeOK'
    BY <2>1, <2>2 DEF IndInv, TypeOK
  <2>4. QueueOrder'
    BY <2>1, <2>2 DEF IndInv, QueueOrder, Before, ArcsOf
  <2> QED
    BY <2>1, <2>2, <2>3, <2>4 DEF IndInv, QueueFromSkeleton, EmptyUntilCollected,
         DirectedPartAcyclic, AdjacenciesKept, Pop
<1>3. ASSUME NEW t \in Triplet, OrientTriplet(t)
      PROVE  IndInv'
  <2>1. /\ Pop(t) /\ ~Blocked(t)
        /\ edges' = edges \ EdgesOf(t)
        /\ arcs' = arcs \cup ArcsOf(t)
        /\ UNCHANGED <<skeleton, sepset, pvalue, moral, todo, phase>>
    BY <1>3 DEF OrientTriplet
  <2>2. /\ t \in VStructures
        /\ VStructures' = VStructures /\ queue' \subseteq VStructures
        /\ queue' = queue \ {t}
        /\ \A u \in queue : pvalue[t.ends] <= pvalue[u.ends]
    BY <2>1, PopStep
  <2>3. /\ t.ends \in Edge /\ t.mid \in Node /\ t.mid \notin t.ends
        /\ ArcsOf(t) \subseteq Arc
        /\ Undirected(ArcsOf(t)) = EdgesOf(t)
        /\ EdgesOf(t) \subseteq skeleton
    BY <2>2, TripletShape DEF IndInv
  <2>4. TypeOK'
    BY <2>1, <2>2, <2>3 DEF IndInv, TypeOK
  <2>5. DirectedPartAcyclic'
    BY <2>1, <2>3, OrientKeepsAcyclic DEF IndInv, DirectedPartAcyclic
  <2>6. AdjacenciesKept'
    <3>1. phase # "collect" /\ phase' # "collect"
      BY <2>1 DEF Pop
    <3>2. Undirected(arcs') = Undirected(arcs) \cup EdgesOf(t)
      BY <2>1, <2>3 DEF Undirected
    <3>3. /\ edges' \cup Undirected(arcs') = skeleton'
          /\ edges' \cap Undirected(arcs') = {}
      BY <2>1, <2>3, <3>1, <3>2 DEF IndInv, AdjacenciesKept
    <3>4. ASSUME NEW a \in arcs', <<a[2], a[1]>> \in arcs'
          PROVE  FALSE
      <4>1. \A x \in t.ends : <<t.mid, x>> \notin arcs
        BY <2>1 DEF Blocked
      <4>2. \A b \in ArcsOf(t) : \E x \in t.ends : b = <<x, t.mid>>
        BY DEF ArcsOf
      <4>3. CASE a \in arcs /\ <<a[2], a[1]>> \in arcs
        BY <3>1, <4>3 DEF IndInv, AdjacenciesKept
      <4>4. CASE a \in ArcsOf(t)
        <5>1. PICK x \in t.ends : a = <<x, t.mid>>
          BY <4>2, <4>4
        <5>2. <<t.mid, x>> \in arcs'
          BY <3>4, <5>1
        <5>3. <<t.mid, x>> \in ArcsOf(t)
          BY <2>1, <4>1, <5>2
        <5> QED
          BY <2>3, <4>2, <5>3
      <4>5. CASE a \in arcs /\ <<a[2], a[1]>> \in ArcsOf(t)
        <5>1. PICK x \in t.ends : <<a[2], a[1]>> = <<x, t.mid>>
          BY <4>2, <4>5
        <5>2. a \in Arc
          BY <4>5 DEF IndInv, TypeOK
        <5>3. a = <<t.mid, x>>
          BY <5>1, <5>2 DEF Arc, ArcsOver
        <5> QED
          BY <4>1, <4>5, <5>3
      <4> QED
        BY <2>1, <3>4, <4>3, <4>4, <4>5
    <3> QED
      BY <3>1, <3>3, <3>4 DEF AdjacenciesKept
  <2>7. QueueOrder'
    <3> SUFFICES ASSUME NEW u \in queue', NEW a \in arcs'
                 PROVE  \E v \in Before(u)' : a \in ArcsOf(v)'
      BY DEF QueueOrder
    <3>1. u \in queue
      BY <2>2
    <3>2. \A v \in Before(u) : v \in Before(u)' /\ ArcsOf(v)' = ArcsOf(v)
      BY <2>1, <2>2 DEF Before, ArcsOf
    <3>3. t \in Before(u)' /\ ArcsOf(t)' = ArcsOf(t)
      BY <2>1, <2>2, <3>1 DEF Before, ArcsOf
    <3>4. CASE a \in arcs
      BY <3>1, <3>2, <3>4 DEF IndInv, QueueOrder
    <3>5. CASE a \in ArcsOf(t)
      BY <3>3, <3>5
    <3> QED
      BY <2>1, <3>4, <3>5
  <2> QED
    BY <2>1, <2>2, <2>4, <2>5, <2>6, <2>7 DEF IndInv, QueueFromSkeleton,
         EmptyUntilCollected, Pop
<1>4. CASE DeriveMoralGraph
  <2>1. /\ phase # "collect" /\ phase' = "moralise"
        /\ moral' = edges /\ todo' = Node
        /\ UNCHANGED <<skeleton, sepset, pvalue, queue, edges, arcs>>
    BY <1>4 DEF DeriveMoralGraph
  <2>2. TypeOK'
    BY <2>1 DEF IndInv, TypeOK
  <2> QED
    BY <2>1, <2>2, GraphUnchanged
<1>5. ASSUME NEW y \in Node, MoraliseNode(y)
      PROVE  IndInv'
  <2>1. /\ phase # "collect" /\ phase' # "collect"
        /\ phase' = phase /\ todo' = todo \ {y}
        /\ moral' = moral \cup {{p, y} : p \in Parents(arcs, y)} \cup Marriages(y)
        /\ UNCHANGED <<skeleton, sepset, pvalue, queue, edges, arcs>>
    BY <1>5 DEF MoraliseNode
  <2>2. \A p \in Parents(arcs, y) : p \in Node /\ p # y
    BY ParentsTyped DEF IndInv
  <2>3. {{p, y} : p \in Parents(arcs, y)} \subseteq Edge
    BY <2>2, EdgeEnds DEF Edge
  <2>4. Marriages(y) \subseteq Edge
    <3> SUFFICES ASSUME NEW e \in Marriages(y) PROVE e \in Edge
      OBVIOUS
    <3>1. PICK q \in Parents(arcs, y) \X Parents(arcs, y) :
                q[1] # q[2] /\ e = {q[1], q[2]}
      BY DEF Marriages
    <3> QED
      BY <2>2, <3>1, EdgeEnds DEF Edge
  <2>5. TypeOK'
    BY <2>1, <2>3, <2>4 DEF IndInv, TypeOK
  <2> QED
    BY <2>1, <2>5, GraphUnchanged
<1>6. CASE UNCHANGED vars
  BY <1>6 DEF vars, IndInv, TypeOK, QueueFromSkeleton, EmptyUntilCollected,
       DirectedPartAcyclic, AdjacenciesKept, QueueOrder, Before, VStructures,
       Unshielded, ArcsOf
<1> QED
  BY <1>1, <1>2, <1>3, <1>4, <1>5, <1>6 DEF Next, Done

LEMMA IndInvHolds == Spec => []IndInv
BY InitIndInv, NextIndInv, PTL DEF Spec
-----------------------------------------------------------------------------
\* A triplet that was popped has its arcs, or they would have closed a cycle
\* with those of triplets oriented before; arcs only come, so that they still
\* would.
Refused(t) == ~Acyclic(Support(t))

Settled ==
  /\ phase # "collect" =>
       \A t \in VStructures \ queue :
          ArcsOf(t) \subseteq arcs \/ Refused(t)
  /\ phase = "moralise" => queue = {}

\* The probes of inferPDAG are not too careful: what makes the loop drop a
\* triplet is a cycle that orienting it would close.
LEMMA BlockedClosesCycle ==
  ASSUME TypeOK, NEW t \in VStructures, Blocked(t)
  PROVE  ~Acyclic(arcs \cup ArcsOf(t))
<1> DEFINE B == arcs \cup ArcsOf(t)
<1> SUFFICES ASSUME Acyclic(B) PROVE FALSE
  OBVIOUS
<1>1. PICK x \in t.ends : <<t.mid, x>> \in arcs \/ DirectedPath(arcs, t.mid, x)
  BY DEF Blocked
<1>2. x # t.mid
  BY TripletShape
<1>3. \A a \in B : a = <<a[1], a[2]>>
  BY TripletShape DEF TypeOK, Arc, ArcsOver
<1>4. DirectedPath(B, x, t.mid)
  BY PathOfArc DEF ArcsOf
<1>5. DirectedPath(arcs, t.mid, x)
  BY <1>1, PathOfArc
<1>6. DirectedPath(B, t.mid, x)
  BY <1>5, PathBeforeEnd
<1> QED
  BY <1>2, <1>3, <1>4, <1>6, NoTwoWays

LEMMA InitSettled == Init => Settled
BY DEF Init, Settled

\* Refused stays refused while the arcs that were there are.
LEMMA RefusedStays ==
  ASSUME NEW t, Refused(t), UNCHANGED <<skeleton, sepset, pvalue>>, arcs \subseteq arcs'
  PROVE  Refused(t)'
<1>1. /\ VStructures' = VStructures
      /\ \A v : ArcsOf(v)' = ArcsOf(v)
  BY DEF VStructures, Unshielded, ArcsOf
<1>2. Before(t) \subseteq Before(t)'
  BY <1>1 DEF Before
<1>3. Support(t) \subseteq Support(t)'
  BY <1>1, <1>2 DEF Support
<1>4. ~Acyclic(Support(t)')
  BY <1>3, AcyclicSubset DEF Refused
<1> QED
  BY <1>4 DEF Refused

LEMMA NextSettled == IndInv /\ Settled /\ [Next]_vars => Settled'
<1> SUFFICES ASSUME IndInv, Settled, [Next]_vars PROVE Settled'
  OBVIOUS
<1>1. CASE CollectTriplets
  BY <1>1 DEF CollectTriplets, Settled, VStructures, Unshielded
<1>2. ASSUME NEW t \in Triplet, SkipTriplet(t)
      PROVE  Settled'
  <2>1. /\ Pop(t) /\ Blocked(t)
        /\ UNCHANGED <<skeleton, sepset, pvalue, edges, arcs, moral, todo, phase>>
    BY <1>2 DEF SkipTriplet
  <2>2. /\ t \in queue /\ t \in VStructures /\ VStructures' = VStructures
        /\ queue' = queue \ {t} /\ phase = "orient"
    BY <2>1, PopStep DEF Pop
  <2>3. Refused(t)
    <3>1. ~Acyclic(arcs \cup ArcsOf(t))
      BY <2>1, <2>2, BlockedClosesCycle DEF IndInv
    <3>2. arcs \cup ArcsOf(t) \subseteq Support(t)
      BY <2>2 DEF IndInv, QueueOrder, Support
    <3> QED
      BY <3>1, <3>2, AcyclicSubset DEF Refused
  <2>4. ASSUME NEW u \in VStructures \ queue'
        PROVE  (ArcsOf(u) \subseteq arcs)' \/ Refused(u)'
    <3>1. (ArcsOf(u) \subseteq arcs)' <=> ArcsOf(u) \subseteq arcs
      BY <2>1 DEF ArcsOf
    <3>2. Refused(u) => Refused(u)'
      BY <2>1, RefusedStays
    <3> QED
      BY <2>2, <2>3, <3>1, <3>2 DEF Settled
  <2> QED
    BY <2>1, <2>2, <2>4 DEF Settled
<1>3. ASSUME NEW t \in Triplet, OrientTriplet(t)
      PROVE  Settled'
  <2>1. /\ Pop(t)
        /\ arcs' = arcs \cup ArcsOf(t)
        /\ UNCHANGED <<skeleton, sepset, pvalue, phase>>
    BY <1>3 DEF OrientTriplet
  <2>2. /\ VStructures' = VStructures
        /\ queue' = queue \ {t} /\ phase = "orient"
    BY <2>1, PopStep DEF Pop
  <2>3. ASSUME NEW u \in VStructures \ queue'
        PROVE  (ArcsOf(u) \subseteq arcs)' \/ Refused(u)'
    <3>1. ArcsOf(u) \subseteq arcs \/ u = t => (ArcsOf(u) \subseteq arcs)'
      BY <2>1 DEF ArcsOf
    <3>2. Refused(u) => Refused(u)'
      BY <2>1, RefusedStays
    <3> QED
      BY <2>2, <3>1, <3>2 DEF Settled
  <2> QED
    BY <2>1, <2>2, <2>3 DEF Settled
<1>4. ASSUME UNCHANGED <<skeleton, sepset, pvalue, queue, arcs>>, phase # "collect",
             phase' = "moralise" => queue = {}
      PROVE  Settled'
  <2>1. VStructures' = VStructures
    BY <1>4 DEF VStructures, Unshielded
  <2>2. ASSUME NEW u \in VStructures \ queue'
        PROVE  (ArcsOf(u) \subseteq arcs)' \/ Refused(u)'
    <3>1. ArcsOf(u) \subseteq arcs => (ArcsOf(u) \subseteq arcs)'
      BY <1>4 DEF ArcsOf
    <3>2. Refused(u) => Refused(u)'
      BY <1>4, RefusedStays
    <3> QED
      BY <1>4, <3>1, <3>2 DEF Settled
  <2> QED
    BY <1>4, <2>1, <2>2 DEF Settled
<1>5. CASE UNCHANGED vars
  <2>1. CASE phase = "collect"
    BY <1>5, <2>1 DEF vars, Settled
  <2>2. CASE phase # "collect"
    BY <1>4, <1>5, <2>2 DEF vars, Settled
  <2> QED
    BY <2>1, <2>2
<1>6. CASE DeriveMoralGraph
  BY <1>4, <1>6 DEF DeriveMoralGraph
<1>7. ASSUME NEW y \in Node, MoraliseNode(y)
      PROVE  Settled'
  BY <1>4, <1>7 DEF MoraliseNode, Settled
<1> QED
  BY <1>1, <1>2, <1>3, <1>5, <1>6, <1>7 DEF Next, Done

\* The triplets before another are among the arcs.
LEMMA SupportInArcs ==
  ASSUME NEW t
  PROVE  Support(t) \subseteq arcs \cup ArcsOf(t)
BY DEF Support, Before

\* Every arc was added with a triplet that the separating sets ask for.
ArcsFromVStructures == arcs \subseteq UNION {ArcsOf(t) : t \in VStructures}

LEMMA NextArcsFromVStructures ==
  IndInv /\ ArcsFromVStructures /\ [Next]_vars => ArcsFromVStructures'
<1> SUFFICES ASSUME IndInv, ArcsFromVStructures, [Next]_vars
             PROVE  ArcsFromVStructures'
  OBVIOUS
<1>1. ASSUME UNCHANGED <<skeleton, sepset>>
      PROVE  /\ VStructures' = VStructures
             /\ \A t : ArcsOf(t)' = ArcsOf(t)
  BY <1>1 DEF VStructures, Unshielded, ArcsOf
<1>2. ASSUME UNCHANGED <<skeleton, sepset, arcs>>
      PROVE  ArcsFromVStructures'
  BY <1>1, <1>2 DEF ArcsFromVStructures
<1>3. ASSUME NEW t \in Triplet, OrientTriplet(t)
      PROVE  ArcsFromVStructures'
  <2>1. Pop(t) /\ arcs' = arcs \cup ArcsOf(t) /\ UNCHANGED <<skeleton, sepset>>
    BY <1>3 DEF OrientTriplet
  <2>2. t \in VStructures
    BY <2>1, PopStep
  <2> QED
    BY <1>1, <2>1, <2>2 DEF ArcsFromVStructures
<1> QED
  BY <1>2, <1>3 DEF Next, CollectTriplets, SkipTriplet, DeriveMoralGraph,
     MoraliseNode, Done, vars

\* An acyclic graph that has the arcs of every queued triplet leaves no room
\* for a cycle that would block one of them.
LEMMA AllOriented ==
  ASSUME TypeOK, Settled, ArcsFromVStructures, phase = "moralise",
         NEW G, Acyclic(G), \A t \in VStructures : ArcsOf(t) \subseteq G
  PROVE  arcs = UNION {ArcsOf(t) : t \in VStructures}
<1>1. arcs \subseteq G
  BY DEF ArcsFromVStructures
<1>2. ASSUME NEW t \in VStructures
      PROVE  ArcsOf(t) \subseteq arcs
  <2>1. Support(t) \subseteq G
    BY <1>1, SupportInArcs
  <2> QED
    BY <2>1, AcyclicSubset DEF Settled, Refused
<1> QED
  BY <1>2 DEF ArcsFromVStructures

\* While deriveMoralGraph goes over the nodes: the moral graph has the edges of
\* the PDAG, the arcs into the nodes it came to, without their direction, and
\* the pairs of parents of these nodes; and nothing else.
Moralised ==
  phase = "moralise" =>
     /\ edges \subseteq moral
     /\ \A y \in Node \ todo : \A p \in Parents(arcs, y) :
          {p, y} \in moral /\ \A q \in Parents(arcs, y) \ {p} : {p, q} \in moral
     /\ \A e \in moral :
          \/ e \in skeleton
          \/ \E y \in Node : \E p, q \in Parents(arcs, y) : p # q /\ e = {p, q}

LEMMA TwoElements ==
  ASSUME NEW p, NEW q, p # q
  PROVE  IsFiniteSet({p, q}) /\ Cardinality({p, q}) = 2
<1>1. IsFiniteSet({p}) /\ Cardinality({p}) = 1
  BY FS_Singleton
<1>2. q \notin {p} /\ {p} \cup {q} = {p, q}
  OBVIOUS
<1>3. IsFiniteSet({p} \cup {q}) /\ Cardinality({p} \cup {q}) = Cardinality({p}) + 1
  BY <1>1, <1>2, FS_AddElement
<1> QED
  BY <1>1, <1>2, <1>3

\* What Marriages(y) leaves out is an edge already: with two parents there is
\* more than one.
LEMMA MarriagesComplete ==
  ASSUME TypeOK, NEW y \in Node
  PROVE  /\ \A p, q \in Parents(arcs, y) : p # q => {p, q} \in edges \cup Marriages(y)
         /\ \A e \in Marriages(y) : \E p, q \in Parents(arcs, y) : p # q /\ e = {p, q}
<1> DEFINE P == Parents(arcs, y)
<1>1. ASSUME NEW p \in P, NEW q \in P, p # q
      PROVE  {p, q} \in edges \cup Marriages(y)
  <2>1. IsFiniteSet(P)
    <3>1. P \subseteq Node
      BY ParentsTyped
    <3> QED
      BY <3>1, NodeAssumption, FS_Subset
  <2>2. Cardinality(P) > 1
    <3>1. {p, q} \subseteq P /\ IsFiniteSet({p, q}) /\ Cardinality({p, q}) = 2
      BY <1>1, TwoElements
    <3> HIDE DEF P
    <3>2. Cardinality({p, q}) <= Cardinality(P)
      BY <2>1, <3>1, FS_Subset
    <3>3. Cardinality(P) \in Nat
      BY <2>1, FS_CardinalityType
    <3> QED
      BY <3>1, <3>2, <3>3
  <2> DEFINE m == <<p, q>>
  <2>3. m \in P \X P /\ m[1] = p /\ m[2] = q
    OBVIOUS
  <2> QED
    BY <1>1, <2>2, <2>3 DEF Marriages
<1>2. ASSUME NEW e \in Marriages(y)
      PROVE  \E p, q \in P : p # q /\ e = {p, q}
  BY DEF Marriages
<1> QED
  BY <1>1, <1>2

LEMMA NextMoralised == IndInv /\ Moralised /\ [Next]_vars => Moralised'
<1> SUFFICES ASSUME IndInv, Moralised, [Next]_vars PROVE Moralised'
  OBVIOUS
<1>1. CASE DeriveMoralGraph
  <2>1. edges \subseteq skeleton
    BY <1>1 DEF DeriveMoralGraph, IndInv, AdjacenciesKept
  <2> QED
    BY <1>1, <2>1 DEF DeriveMoralGraph, Moralised
<1>2. ASSUME NEW y \in Node, MoraliseNode(y)
      PROVE  Moralised'
  <2>1. /\ phase = "moralise" /\ todo' = todo \ {y}
        /\ moral' = moral \cup {{p, y} : p \in Parents(arcs, y)} \cup Marriages(y)
        /\ UNCHANGED <<skeleton, edges, arcs>>
    BY <1>2 DEF MoraliseNode
  <2>2. /\ \A p, q \in Parents(arcs, y) : p # q => {p, q} \in edges \cup Marriages(y)
        /\ \A e \in Marriages(y) : \E p, q \in Parents(arcs, y) : p # q /\ e = {p, q}
    BY MarriagesComplete DEF IndInv
  <2>3. edges \subseteq moral'
    BY <2>1 DEF Moralised
  <2>4. ASSUME NEW n \in Node \ todo', NEW p \in Parents(arcs, n)
        PROVE  /\ {p, n} \in moral'
               /\ \A q \in Parents(arcs, n) \ {p} : {p, q} \in moral'
    <3>1. CASE n = y
      BY <2>1, <2>2, <2>3, <2>4, <3>1
    <3>2. CASE n \in Node \ todo
      BY <2>1, <2>4, <3>2 DEF Moralised
    <3> QED
      BY <2>1, <3>1, <3>2
  <2>5. ASSUME NEW e \in moral'
        PROVE  \/ e \in skeleton
               \/ \E n \in Node : \E p, q \in Parents(arcs, n) : p # q /\ e = {p, q}
    <3>1. CASE e \in moral
      BY <2>1, <3>1 DEF Moralised
    <3>2. CASE e \in Marriages(y)
      BY <2>2, <3>2
    <3>3. ASSUME NEW p \in Parents(arcs, y), e = {p, y}
          PROVE  e \in skeleton
      <4> DEFINE a == <<p, y>>
      <4>1. a \in arcs /\ a[1] = p /\ a[2] = y
        BY ParentsTyped DEF IndInv
      <4>2. {a[1], a[2]} \in Undirected(arcs)
        BY <4>1 DEF Undirected
      <4>3. Undirected(arcs) \subseteq skeleton
        BY <2>1 DEF IndInv, AdjacenciesKept
      <4> QED
        BY <3>3, <4>1, <4>2, <4>3
    <3> QED
      BY <2>1, <3>1, <3>2, <3>3
  <2>6. /\ edges' = edges /\ skeleton' = skeleton
        /\ \A n : Parents(arcs, n)' = Parents(arcs, n)
    BY <2>1 DEF Parents
  <2> QED
    BY <2>3, <2>4, <2>5, <2>6 DEF Moralised
<1>3. CASE UNCHANGED vars
  BY <1>3 DEF vars, Moralised
<1>4. CASE CollectTriplets
  BY <1>4 DEF CollectTriplets, Moralised
<1>5. ASSUME NEW t \in Triplet, SkipTriplet(t) \/ OrientTriplet(t)
      PROVE  Moralised'
  BY <1>5 DEF SkipTriplet, OrientTriplet, Pop, Moralised
<1> QED
  BY <1>1, <1>2, <1>3, <1>4, <1>5 DEF Next, Done
-----------------------------------------------------------------------------
\* inferPDAG and deriveMoralGraph only build graphs over the variables of the
\* sample, without loops.
THEOREM TypeCorrect == Spec => []TypeOK
<1>1. IndInv => TypeOK
  BY DEF IndInv
<1> QED
  BY <1>1, IndInvHolds, PTL

\* However the tests conflict and whatever order the queue pops them in, the
\* directed part of the PDAG stays acyclic.
THEOREM PDAGAcyclic == Spec => []DirectedPartAcyclic
<1>1. IndInv => DirectedPartAcyclic
  BY DEF IndInv
<1> QED
  BY <1>1, IndInvHolds, PTL

\* The PDAG has exactly the adjacencies of the skeleton, each as one edge or
\* as one arc.
THEOREM PDAGKeepsAdjacencies == Spec => []AdjacenciesKept
<1>1. IndInv => AdjacenciesKept
  BY DEF IndInv
<1> QED
  BY <1>1, IndInvHolds, PTL

\* A v-structure that closes no cycle with those of p-values no larger than
\* its own is oriented: nothing popped after it, and no tie, can keep it out.
THEOREM PDAGHonoursPriority == Spec => []PriorityHonoured
<1>1. IndInv /\ Settled => PriorityHonoured
  <2> SUFFICES ASSUME IndInv, Settled, Finished, NEW t \in VStructures,
                      Acyclic(UNION {ArcsOf(u) : u \in
                        {v \in VStructures : pvalue[v.ends] <= pvalue[t.ends]}})
               PROVE  ArcsOf(t) \subseteq arcs
    BY DEF PriorityHonoured
  <2> DEFINE B == UNION {ArcsOf(u) : u \in
                    {v \in VStructures : pvalue[v.ends] <= pvalue[t.ends]}}
  <2>1. Support(t) \subseteq B
    <3>1. pvalue[t.ends] \in Nat
      BY TripletShape DEF IndInv, TypeOK
    <3> QED
      BY <3>1 DEF Support, Before
  <2> QED
    BY <2>1, AcyclicSubset DEF Settled, Refused, Finished
<1> QED
  BY InitSettled, NextSettled, <1>1, IndInvHolds, PTL DEF Spec

\* A v-structure that the separating sets ask for is missing at the end only
\* if a cycle forbade it: the two probes for a path refuse nothing else.
THEOREM PDAGMissesOnlyCycles == Spec => []MissingOnlyIfCyclic
<1>1. Settled => MissingOnlyIfCyclic
  <2> SUFFICES ASSUME Settled, Finished, NEW t \in VStructures,
                      ~(ArcsOf(t) \subseteq arcs)
               PROVE  ~Acyclic(arcs \cup ArcsOf(t))
    BY DEF MissingOnlyIfCyclic
  <2>1. Refused(t)
    BY DEF Settled, Finished
  <2>2. Support(t) \subseteq arcs \cup ArcsOf(t)
    BY SupportInArcs
  <2> QED
    BY <2>1, <2>2, AcyclicSubset DEF Refused
<1> QED
  BY InitSettled, NextSettled, <1>1, IndInvHolds, PTL DEF Spec

\* The arcs of a DAG that accounts for the separating sets.
LEMMA OrientedAsDAG ==
  ASSUME IndInv, Settled, ArcsFromVStructures, phase = "moralise",
         NEW G, AccountsFor(G)
  PROVE  /\ arcs = UNION {ArcsOf(t) : t \in VStructures}
         /\ VStructures = {t \in Triplet : Unshielded(t) /\ t.mid \notin sepset[t.ends]}
         /\ arcs \subseteq G
<1>1. VStructures = {t \in Triplet : Unshielded(t) /\ t.mid \notin sepset[t.ends]}
  BY DEF VStructures, Unshielded, Triplet, IndInv, TypeOK
<1>2. \A t \in VStructures : ArcsOf(t) \subseteq G
  BY <1>1 DEF AccountsFor
<1>3. arcs = UNION {ArcsOf(t) : t \in VStructures}
  BY <1>2, AllOriented DEF IndInv, AccountsFor
<1> QED
  BY <1>1, <1>2, <1>3

LEMMA InitArcsFromVStructures == Init => ArcsFromVStructures
BY DEF Init, ArcsFromVStructures

\* When the separating sets are those of some DAG over the skeleton, inferPDAG
\* orients exactly the v-structures of that DAG: no arc it adds on the way can
\* make its test for cycles drop a triplet that belongs to the DAG.
THEOREM PDAGRecoversVStructures == Spec => []RecoversVStructures
<1>1. IndInv /\ Settled /\ ArcsFromVStructures => RecoversVStructures
  BY OrientedAsDAG DEF RecoversVStructures, Finished
<1> QED
  BY <1>1, InitArcsFromVStructures, InitSettled, NextSettled, NextArcsFromVStructures,
     IndInvHolds, PTL DEF Spec

\* deriveMoralGraph, though it only sees the arcs of the v-structures and
\* tests for an edge but not for an arc between two parents, gives the moral
\* graph of the DAG that the separating sets come from, the same for all such
\* DAGs.
THEOREM MoralGraphIsOfDAG == Spec => []MoralGraphOfDAG
<1>1. Init => Moralised
  BY DEF Init, Moralised
<1>2. IndInv /\ Settled /\ ArcsFromVStructures /\ Moralised => MoralGraphOfDAG
  <2> SUFFICES ASSUME IndInv, Settled, ArcsFromVStructures, Moralised, Finished,
                      NEW G \in Orientations, AccountsFor(G)
               PROVE  \A e : e \in moral <=> e \in MoralGraph(G)
    BY DEF MoralGraphOfDAG
  <2>1. /\ arcs = UNION {ArcsOf(t) : t \in VStructures}
        /\ VStructures = {t \in Triplet : Unshielded(t) /\ t.mid \notin sepset[t.ends]}
        /\ arcs \subseteq G
    BY OrientedAsDAG DEF Finished
  <2>2. \A a \in G : a \in Arc /\ {a[1], a[2]} \in skeleton
    BY DEF Orientations, Pointed
  <2>3. ASSUME NEW e \in moral
        PROVE  e \in MoralGraph(G)
    <3>1. CASE e \in skeleton
      BY <3>1 DEF MoralGraph
    <3>2. ASSUME NEW y \in Node, NEW p \in Parents(arcs, y), NEW q \in Parents(arcs, y),
                 p # q, e = {p, q}
          PROVE  e \in MoralGraph(G)
      <4>1. p \in Node /\ q \in Node /\ <<p, y>> \in arcs /\ <<q, y>> \in arcs
        BY ParentsTyped DEF IndInv
      <4>2. e \in Edge
        BY <3>2, <4>1, EdgeEnds DEF Edge
      <4>3. \A x \in e : <<x, y>> \in G
        BY <2>1, <3>2, <4>1
      <4> QED
        BY <4>2, <4>3 DEF MoralGraph
    <3> QED
      BY <3>1, <3>2 DEF Moralised, Finished
  <2>4. \A n \in Node : \A p \in Parents(arcs, n) :
           {p, n} \in moral /\ \A q \in Parents(arcs, n) \ {p} : {p, q} \in moral
    BY DEF Moralised, Finished
  <2>5. ASSUME NEW e \in skeleton
        PROVE  e \in moral
    <3>1. CASE e \in edges
      BY <3>1 DEF Moralised, Finished
    <3>2. CASE e \in Undirected(arcs)
      <4>1. PICK a \in arcs : e = {a[1], a[2]}
        BY <3>2 DEF Undirected
      <4>2. a \in Node \X Node /\ a = <<a[1], a[2]>>
        BY <4>1 DEF IndInv, TypeOK, Arc, ArcsOver
      <4>3. a[1] \in Parents(arcs, a[2])
        BY <4>1, <4>2 DEF Parents, ArcNodes
      <4> QED
        BY <2>4, <4>1, <4>2, <4>3
    <3> QED
      BY <3>1, <3>2 DEF IndInv, AdjacenciesKept, Finished
  <2>6. ASSUME NEW e \in Edge, NEW y \in Node, \A x \in e : <<x, y>> \in G
        PROVE  e \in moral
    <3>1. PICK p \in Node, q \in Node : p # q /\ e = {p, q}
      BY EdgeEnds DEF Edge
    <3> DEFINE t == [ends |-> e, mid |-> y]
    <3>2. \A x \in e : x # y /\ {x, y} \in skeleton
      <4> SUFFICES ASSUME NEW x \in e PROVE x # y /\ {x, y} \in skeleton
        OBVIOUS
      <4> DEFINE a == <<x, y>>
      <4>1. a \in G /\ a[1] = x /\ a[2] = y
        BY <2>6
      <4> QED
        BY <2>2, <4>1 DEF Arc, ArcsOver
    <3>3. CASE e \notin skeleton
      <4>1. t \in Triplet /\ t.ends = e /\ t.mid = y
        BY DEF Triplet
      <4> HIDE DEF t
      <4>2. Unshielded(t)
        BY <3>2, <3>3, <4>1 DEF Unshielded
      <4>3. ArcsOf(t) \subseteq G
        BY <2>6, <4>1 DEF ArcsOf
      <4>4. t \in VStructures
        BY <2>1, <4>1, <4>2, <4>3 DEF AccountsFor
      <4>5. <<p, y>> \in arcs /\ <<q, y>> \in arcs
        BY <2>1, <3>1, <4>1, <4>4 DEF ArcsOf
      <4>6. p \in Parents(arcs, y) /\ q \in Parents(arcs, y)
        BY <4>5, ArcEnds DEF Parents
      <4> QED
        BY <2>4, <3>1, <4>6
    <3> QED
      BY <2>5, <3>3
  <2> QED
    BY <2>3, <2>5, <2>6 DEF MoralGraph
<1> QED
  BY <1>1, <1>2, InitArcsFromVStructures, InitSettled, NextSettled,
     NextArcsFromVStructures, NextMoralised, IndInvHolds, PTL DEF Spec
=============================================================================
