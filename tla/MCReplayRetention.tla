------------------------- MODULE MCReplayRetention -------------------------
(* Instances of ReplayRetention for TLC. *)
EXTENDS ReplayRetention, TLC

CONSTANTS r1, r2, c1, c2, k1, k2

Symmetry == Permutations(Requests) \cup Permutations(Keys)
=============================================================================
