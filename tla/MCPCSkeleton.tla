---------------------------- MODULE MCPCSkeleton ----------------------------
(***************************************************************************)
(* Bounds: four variables, every size of conditioning set (0, 1 and 2; 3   *)
(* is searched and finds no candidate).  A sample shows any two            *)
(* independences: no distribution may have just these but a finite sample  *)
(* can, and they make the outcome of a test depend on which edges are      *)
(* already gone.  These facts sit exactly on the threshold, and one        *)
(* dependence of each sample (one of each size, up to renaming) is weaker  *)
(* than the others and of opposite sign.                                   *)
(***************************************************************************)
EXTENDS PCSkeleton

CONSTANTS a, b, c, d

Tests == {<<e, S>> \in Edge \X SUBSET Node : S \subseteq Node \ e}
WeakTests == {<<{a, b}, {}>>, <<{a, b}, {c}>>, <<{a, b}, {c, d}>>}

\* The independences a sample shows, and its test with a weaker dependence.
SampleOf(facts, weak) ==
  [e \in Edge |-> [S \in SUBSET Node |->
     IF <<e, S>> \in facts THEN Scale - Alpha ELSE IF <<e, S>> = weak THEN 1 - Scale ELSE Scale]]

MCSamples ==
  {SampleOf(facts, weak) : facts \in {{t, u} : t, u \in Tests}, weak \in WeakTests}
=============================================================================
