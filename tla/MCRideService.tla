--------------------------- MODULE MCRideService ---------------------------
(***************************************************************************)
(* Instances of RideService for TLC.  Workers are interchangeable, and so  *)
(* are drivers and passengers.                                             *)
(***************************************************************************)
EXTENDS RideService, TLC

CONSTANTS p1, p2, d1, d2, w1, w2

Symmetry == Permutations(Drivers) \cup Permutations(Workers) \cup Permutations(Passengers)

=============================================================================
