---------------------------- MODULE MCMIICSkeleton ----------------------------
(***************************************************************************)
(* Bounds: four variables, so that an edge has two contributors and chains *)
(* of three conditioning sets; two calls of learnSkeleton and one change   *)
(* of settings.  Two edges take every two of the kinds below, a third one  *)
(* is cut by its second contributor, and the others are independent or     *)
(* strongly dependent throughout.                                          *)
(***************************************************************************)
EXTENDS MIICSkeleton

CONSTANTS Kinds, Loose, Strict

\* The information that the first, any second and the last set leave, and the
\* likelihood of a first contributor (the second one is as likely as Half + 1
\* allows): cut at once, at one, at two, never, on the limit, or unlikely.
InfoOf(kind, n) ==
  CASE kind = "independent" -> 0
    [] kind = "one" -> IF n = 1 THEN -1 ELSE 1
    [] kind = "two" -> IF n = 2 THEN -1 ELSE 1
    [] kind = "limit" -> IF n = 0 THEN 1 ELSE 0
    [] kind = "unlikely" -> IF n = 0 THEN 1 ELSE -1
    [] kind = "strong" -> 1

LikelihoodOf(kind, e, U, z) ==
  IF kind = "unlikely" THEN Half
  ELSE IF U = {} /\ z = (CHOOSE w \in Node \ e : TRUE) THEN Half + 2
  ELSE Half + 1

\* Under the strict settings every edge is like the independent ones but for
\* the strong ones.
SampleOf(kind) ==
  [info |-> [s \in Settings |-> [e \in Edge |-> [U \in SUBSET Node |->
      IF s = Strict /\ kind[e] # "strong" THEN 0 ELSE InfoOf(kind[e], Cardinality(U))]]],
   likelihood |-> [s \in Settings |-> [e \in Edge |-> [U \in SUBSET Node |-> [z \in Node |->
      LikelihoodOf(kind[e], e, U, z)]]]]]

MCSamples ==
  {SampleOf([e \in Edge |->
      IF e = {1, 2} THEN k[1] ELSE IF e = {2, 3} THEN k[2] ELSE IF e = {3, 4} THEN "two"
      ELSE IF 1 \in e THEN "strong" ELSE "independent"]) :
   k \in [1..2 -> Kinds]}
=============================================================================
