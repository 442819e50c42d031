------------------------------ MODULE MCMIICPriors ------------------------------
(***************************************************************************)
(* One adjacency, between 1 and 2, and one call of addMandatoryArc or of   *)
(* addForbiddenArc.                                                        *)
(***************************************************************************)
EXTENDS MIICOrientation

MCLearned == {[skeleton |-> {{1, 2}}, info |-> [p \in Place |-> 0]]}
MCChoosable == {<<1, 2>>}
=============================================================================
