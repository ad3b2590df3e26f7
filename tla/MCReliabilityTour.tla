------------------------- MODULE MCReliabilityTour -------------------------
(* Instances of ReliabilityTour for TLC. *)
EXTENDS ReliabilityTour
=============================================================================
