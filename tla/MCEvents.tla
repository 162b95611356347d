------------------------------ MODULE MCEvents ------------------------------
(***************************************************************************)
(* An instance of EventDriven for TLC.                                     *)
(***************************************************************************)
EXTENDS EventDriven, TLC

CONSTANTS s1, s2, w1, w2, z1, z2, v1, r1, d1, c1, m1, m2

\* The first of two events is consumed by both services.  The first service has a
\* second subscribe() call, as Tracking has, for an event that does not occur.
MCSubscriptions == s1 :> {{1}, {}} @@ s2 :> {{1}}

MCBound == s1 :> {1} @@ s2 :> {1}

MCRank == r1 :> (z1 :> 0)

\* A service that has just started, with or without the zones loaded, and one
\* driver it comes to know about.
Empty ==
  [drivers  |-> d1 :> [vehicle |-> NoOne, online |-> FALSE, onRide |-> FALSE],
   vehicles |-> v1 :> [zone |-> None, fresh |-> TRUE],
   zones    |-> {}]

MCRegistries == {Empty, [Empty EXCEPT !.zones = {z1}]}

=============================================================================
