----------------------------- MODULE RideStates -----------------------------
(***************************************************************************)
(* The pure ride state machine of the Ride service                         *)
(* (services/ride/src/domain/ride-state-machine.ts).  It has no state of   *)
(* its own: RideService persists what Transition computes.                 *)
(***************************************************************************)

RideStatus ==
  {"requested", "matching", "assigned", "arriving", "in_progress",
   "pending_payment", "payment_failed", "completed",
   "cancelled_by_passenger", "cancelled_by_driver", "cancelled_no_show",
   "no_driver_found"}

RideAction ==
  {"start_matching", "assign", "exhausted", "arrive", "start", "end",
   "payment_success", "payment_failed", "retry_payment",
   "passenger_cancel", "driver_cancel", "no_show"}

\* The transition table as a relation: <<from, action, to>>.
TRANSITIONS ==
  { <<"requested",       "start_matching",   "matching">>,
    <<"requested",       "passenger_cancel", "cancelled_by_passenger">>,
    <<"matching",        "assign",           "assigned">>,
    <<"matching",        "exhausted",        "no_driver_found">>,
    <<"matching",        "passenger_cancel", "cancelled_by_passenger">>,
    <<"assigned",        "arrive",           "arriving">>,
    <<"assigned",        "passenger_cancel", "cancelled_by_passenger">>,
    <<"assigned",        "driver_cancel",    "matching">>,
    <<"arriving",        "start",            "in_progress">>,
    <<"arriving",        "no_show",          "cancelled_no_show">>,
    <<"arriving",        "passenger_cancel", "cancelled_by_passenger">>,
    <<"arriving",        "driver_cancel",    "matching">>,
    <<"in_progress",     "end",              "pending_payment">>,
    <<"pending_payment", "payment_success",  "completed">>,
    <<"pending_payment", "payment_failed",   "payment_failed">>,
    <<"payment_failed",  "retry_payment",    "pending_payment">>,
    <<"payment_failed",  "payment_success",  "completed">> }

TERMINAL_STATES ==
  {"completed", "cancelled_by_passenger", "cancelled_by_driver",
   "cancelled_no_show", "no_driver_found"}

IsTerminal(status) == status \in TERMINAL_STATES

CanTransition(from, action) == \E t \in TRANSITIONS : t[1] = from /\ t[2] = action

\* The next status; asked for only where CanTransition holds, since the code
\* throws ILLEGAL_RIDE_TRANSITION everywhere else.
Transition(from, action) ==
  CHOOSE to \in RideStatus : <<from, action, to>> \in TRANSITIONS


=============================================================================
