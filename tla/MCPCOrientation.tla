--------------------------- MODULE MCPCOrientation ---------------------------
(***************************************************************************)
(* Bounds: every skeleton over four of the nodes, and one over six, the    *)
(* net: a triangle x, y, z each of whose corners carries a pendant node.   *)
(* The net is the smallest skeleton where a directed path of two arcs can  *)
(* block a triplet: x -> y from (x, y, py), y -> z from (y, z, pz), then   *)
(* z -> x is wanted.  Over each skeleton, every way the separating sets    *)
(* can hold or miss the common neighbours of their pair (what else they    *)
(* hold is never read), and two ranks of p-value, so that ties and both    *)
(* strict orders occur.                                                    *)
(***************************************************************************)
EXTENDS PCOrientation

CONSTANTS x, y, z, px, py, pz

Small == {x, y, z, px}
Net == {{x, y}, {y, z}, {x, z}, {x, px}, {y, py}, {z, pz}}

\* The ends and the middle of the unshielded triplets of E.
UnshieldedIn(E) ==
  {t \in Triplet : t.ends \notin E /\ t.mid \notin t.ends /\ \A n \in t.ends : {n, t.mid} \in E}

LearnedOver(E) ==
  LET open == UnshieldedIn(E)
      apart == Edge \ E
  IN  {[skeleton |-> E,
        sepset |-> [e \in apart |-> {n \in Node : [ends |-> e, mid |-> n] \in held}],
        pvalue |-> [e \in apart |-> IF e \in weak THEN 2 ELSE 1]] :
          held \in SUBSET open, weak \in SUBSET {t.ends : t \in open}}

MCLearned == UNION {LearnedOver(E) : E \in SUBSET EdgesOver(Small) \cup {Net}}
=============================================================================
