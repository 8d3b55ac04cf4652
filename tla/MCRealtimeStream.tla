-------------------------- MODULE MCRealtimeStream --------------------------
(* Bounds for TLC: the two queries are interchangeable. *)
EXTENDS RealtimeStream

Symmetry == Permutations(LiveIds)

=============================================================================
