-------------------------- MODULE MCDatabaseCopy --------------------------
(* Instances of DatabaseCopy for TLC. *)
EXTENDS DatabaseCopy, TLC

CONSTANTS j1, j2, r1, r2

CopySymmetry == Permutations(Jobs) \cup Permutations(Runs)
=============================================================================
