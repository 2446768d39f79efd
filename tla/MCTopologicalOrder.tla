------------------------- MODULE MCTopologicalOrder -------------------------
(***************************************************************************)
(* Every graph over four nodes, loops of one node included.                *)
(***************************************************************************)
EXTENDS TopologicalOrder

=============================================================================
