---------------------------- MODULE MCIngestion ----------------------------
(* Instances of Ingestion for TLC. *)
EXTENDS Ingestion

CONSTANTS c1, c2, c3, k1, e1, e2, b1, b2
=============================================================================
