------------------------------- MODULE Parties -------------------------------
(***************************************************************************)
(* What the Ride and the Dispatch service both speak of.                   *)
(***************************************************************************)
CONSTANTS
  Rides,     \* ride ids; created in increasing order (uuid v7)
  Drivers,
  NoOne      \* null, as a driver, a vehicle or a passenger

=============================================================================
