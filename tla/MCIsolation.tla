---------------------------- MODULE MCIsolation ----------------------------
(* Instances of Isolation for TLC. *)
EXTENDS Isolation, TLC

CONSTANTS j1, j2, r1, r2, table, routine, domain

IsolationSymmetry == Permutations(Jobs) \cup Permutations(Runs)
=============================================================================
