------------------------------ MODULE MCPCSearch ------------------------------
(***************************************************************************)
(* Bounds: four variables and every size of conditioning set, so that two  *)
(* levels of the cache are cleared while they hold densities.  The samples *)
(* show one independence of any pair and a second, of a and b given c or   *)
(* given c and d, so that the iterator stops in the middle of its lists;   *)
(* the tests given b without d have larger p-values than the others, so    *)
(* that the one kept is not the last.  A hash set lists its nodes in one   *)
(* order or in the reverse.  K is the same for tests of three and of four  *)
(* variables, as GetK is for a hundred points, so that these tests share   *)
(* densities.                                                              *)
(***************************************************************************)
EXTENDS PCSearch

CONSTANTS a, b, c, d

Listed(order) == [S \in SUBSET Node |-> SelectSeq(order, LAMBDA n : n \in S)]

MCOrder == <<a, b, c, d>>
MCListings == {Listed(MCOrder), Listed(Reverse(MCOrder))}
MCEnds == [e \in Edge |-> LET l == Listed(MCOrder)[e] IN <<l[1], l[2]>>]
MCK == [n \in 2..MaxCondSet+1 |-> IF n < 3 THEN 2 ELSE 1]

Tests == {<<e, S>> \in Edge \X SUBSET Node : S \subseteq Node \ e}

SampleOf(facts) ==
  [e \in Edge |-> [S \in SUBSET Node |->
     IF <<e, S>> \in facts THEN Scale - Alpha
     ELSE IF b \in S /\ d \notin S THEN 1 - Scale ELSE Scale]]

MCSamples == {SampleOf({t, <<{a, b}, S>>}) : t \in Tests, S \in {{c}, {c, d}}}
=============================================================================
