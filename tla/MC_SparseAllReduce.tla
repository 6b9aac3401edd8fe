------------------------- MODULE MC_SparseAllReduce -------------------------
(* Instantiates SparseAllReduce for TLC: one process drives two devices   *)
(* (grouped all-gather), the other one device (a direct call).            *)
EXTENDS SparseAllReduce, TLC

CONSTANTS p1, p2, g0, g1, g2

MCProcs == {p1, p2}
MCPlaces == (p1 :> {g0, g1}) @@ (p2 :> {g2})
=============================================================================
