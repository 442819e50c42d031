---------------------------- MODULE MCTabuRestarts ----------------------------
(***************************************************************************)
(* The learner asked for no restarts, counting in a word of three bits:    *)
(* two variables, dependent enough for an arc.                             *)
(***************************************************************************)
EXTENDS TabuList

CONSTANTS a, b

MCK == [n \in 1..2 |-> 1]
MCEntropies ==
  {[m \in Modes |-> [k \in {1} |-> [S \in SUBSET Node |-> IF S = Node THEN -3 ELSE 0]]]}
=============================================================================
