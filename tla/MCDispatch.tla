----------------------------- MODULE MCDispatch -----------------------------
(***************************************************************************)
(* Instances of Dispatch for TLC.                                          *)
(***************************************************************************)
EXTENDS Dispatch, TLC

CONSTANTS r1, d1, d2, v1, v2, z1, z2, c1, c2, m1, m2, m3

\* The pickup ranks z1 before z2.
MCRank == [r \in Rides |-> [z \in Zones |-> IF z = z1 THEN 0 ELSE 1]]

VehicleOf == d1 :> v1 @@ d2 :> v2

\* Everybody online in a vehicle of their own, v1 paired to z1 and v2 to z2.
Warm ==
  [drivers  |-> [d \in Drivers |-> [vehicle |-> VehicleOf[d], online |-> TRUE, onRide |-> FALSE]],
   vehicles |-> [v \in Vehicles |-> [zone |-> IF v = v1 THEN z1 ELSE z2, fresh |-> TRUE]],
   zones    |-> Zones]

WarmOnly == {Warm}

\* A race among drivers the service knows about: nothing happens to them but
\* rides, until a restart forgets them.  MCEvents has the changing projections.
RaceSpec == DispatchInit /\ [][Matching \/ Claiming \/ Restart]_dispatchVars

Symmetry == {p @@ q : p \in Permutations(Callers), q \in Permutations(MatchIds)}

=============================================================================
