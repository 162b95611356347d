----------------------------- MODULE MCServices -----------------------------
(***************************************************************************)
(* An instance of Services for TLC.                                        *)
(***************************************************************************)
EXTENDS Services, TLC

CONSTANTS w1, w2, d1, d2, v1, m1, m2, m3

\* Two rides completed on one day, the first of them requested since the
\* process began, by a driver who goes online and offline.
MCPublished == 1..5

MCName == <<"ride.requested", "ride.completed", "ride.completed", "driver.online",
            "driver.offline">>

MCRideOf == <<1, 1, 2, 1, 1>>

\* A template in both languages, one in English only, and one of neither.
MCWanted == {<<"driver_assigned", "push", "ur">>, <<"driver_arrived", "sms", "ur">>,
             <<"fare_ready", "sms", "en">>}

Symmetry == Permutations(Workers)

=============================================================================
