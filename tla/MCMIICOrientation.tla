--------------------------- MODULE MCMIICOrientation ---------------------------
(***************************************************************************)
(* Bounds: every skeleton over four nodes, with two strengths of negative  *)
(* information and one of positive, so that ties and every order occur;    *)
(* and over five nodes the cycle, where a double-headed arc can close a    *)
(* cycle and has to be flipped, the bull, a triangle with two pendant      *)
(* nodes, and the pan, a cycle of four with one, with one strength of      *)
(* each.  The user names up to three arcs: enough to lead from 3 to 1 by   *)
(* way of 2 and to forbid 3 -> 1, to ask for an arc and for its reverse,   *)
(* or for a cycle; and in the pan to lead from 1 to 2 by way of 3 and to   *)
(* forbid 4 -> 2, which is added all the same where 4 -> 1 is there, by a  *)
(* triple that double-heads 4 -> 1 at the same time.                       *)
(***************************************************************************)
EXTENDS MIICOrientation

\* The unshielded triples of E.
UnshieldedIn(E) == {p \in Place : {p.x, p.z} \in E /\ {p.y, p.z} \in E /\ {p.x, p.y} \notin E}

LearnedOver(E, Infos) ==
  {[skeleton |-> E, info |-> [p \in Place |-> IF p \in UnshieldedIn(E) THEN f[p] ELSE 0]] :
     f \in [UnshieldedIn(E) -> Infos]}

Cycle == {{1, 2}, {2, 3}, {3, 4}, {4, 5}, {5, 1}}
Bull == {{1, 2}, {2, 3}, {1, 3}, {1, 4}, {3, 5}}
Pan == {{1, 3}, {2, 3}, {2, 4}, {1, 4}, {1, 5}}

MCLearned ==
  UNION {LearnedOver(E, {-40, -20, 30}) : E \in SUBSET EdgesOver(1..4)}
    \cup UNION {LearnedOver(E, {-40, 30}) : E \in {Cycle, Bull, Pan}}

MCChoosable == {<<1, 2>>, <<2, 3>>, <<1, 3>>, <<3, 1>>, <<2, 4>>}
=============================================================================
