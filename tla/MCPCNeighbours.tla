--------------------------- MODULE MCPCNeighbours ---------------------------
(***************************************************************************)
(* The skeleton search on a sample whose tests are exact: they find the    *)
(* conditional independences of the DAG  a -> c <- b -> d <- c, in which   *)
(* a and d are not adjacent and {b, c} separates them.                     *)
(***************************************************************************)
EXTENDS PCSkeleton, DSeparation

CONSTANTS a, b, c, d

Truth == {<<a, c>>, <<b, c>>, <<b, d>>, <<c, d>>}
MCSamples == {Faithful(Truth)}
=============================================================================
