--------------------------- MODULE MCRideDispatch ---------------------------
(***************************************************************************)
(* Instances of RideDispatch for TLC: one zone, a vehicle per driver.      *)
(***************************************************************************)
EXTENDS RideDispatch, TLC

CONSTANTS p1, p2, d1, d2, v1, v2, z1, w1, w2, m1, m2, m3

MCRank == [r \in Rides |-> [z \in Zones |-> 0]]

VehicleOf == d1 :> v1 @@ d2 :> v2

\* Everybody online, in a vehicle paired to the zone.
Warm ==
  [drivers  |-> [d \in Drivers |-> [vehicle |-> VehicleOf[d], online |-> TRUE, onRide |-> FALSE]],
   vehicles |-> [v \in Vehicles |-> [zone |-> z1, fresh |-> TRUE]],
   zones    |-> Zones]

WarmOnly == {Warm}

Symmetry == Permutations(Workers) \cup Permutations(MatchIds)

=============================================================================
