---------------------------- MODULE RideService ----------------------------
(***************************************************************************)
(* The Ride service: the ride row of every ride, and the concurrent        *)
(* handlers (HTTP calls and bus deliveries) that read and rewrite it       *)
(* (services/ride/src/rides/ride.service.ts).                              *)
(*                                                                         *)
(* A handler is three separate steps, because the code awaits between them:*)
(*   Begin   loads the ride entity and passes the handler's checks;        *)
(*   Select  runs transition() and mutate() on that (by now maybe stale)   *)
(*           entity, and the ORM's save() compares it with the row;        *)
(*   Commit  writes the columns that differed, records the event in the    *)
(*           outbox, and commits -- or fails on a unique index.            *)
(* accept() has one more wait in the middle, for Dispatch's claim.         *)
(*                                                                         *)
(* Who answers the claim and who sends the events is left open here; the   *)
(* module RideDispatch connects this service with Dispatch.                *)
(***************************************************************************)
EXTENDS Naturals, Sequences, RideStates, Parties

CONSTANTS
  Passengers,
  Workers,          \* handler invocations the process runs at the same time
  MaxAutoRematch,   \* RIDE_MAX_AUTO_REMATCH
  CallerOps,        \* bound: the operations callers use (all of Ops, or fewer)
  MaxOutbox         \* bound: unsent outbox rows

ASSUME RidesAssumption == Rides \subseteq Nat
ASSUME NoOneAssumption == NoOne \notin Drivers \cup Passengers
ASSUME RematchAssumption == MaxAutoRematch \in Nat

VARIABLES
  rides,       \* table rides: the row of each ride, or NoRow
  calls,       \* what each worker is in the middle of
  outbox,      \* table outbox, the unsent rows in order
  published,   \* every event the relay has put on the bus
  won          \* <<ride, driver>> pairs whose claim was answered "won"

rideVars == <<rides, calls, outbox, published, won>>

(***************************************************************************)
(* Data                                                                    *)
(***************************************************************************)
Row == [passenger : Passengers, status : RideStatus, driver : Drivers \cup {NoOne},
        rematch : 0..MaxAutoRematch, arrived : BOOLEAN, fare : BOOLEAN]

NoRow == [status |-> "none"]

Exists(r) == rides[r] # NoRow

\* The columns a save() may write; the passenger never changes.
Columns == {"status", "driver", "rematch", "arrived", "fare"}

Event == [name : {"ride.requested", "ride.assigned", "ride.started", "ride.ended",
                  "ride.cancelled", "ride.completed"},
          ride : Rides, driver : Drivers \cup {NoOne}]

PassengerOps == {"cancel"}
DriverOps    == {"accept", "arrived", "start", "end", "no_show", "driver_cancel"}
SystemOps    == {"exhausted", "fare", "paid", "pay_failed"}
Ops          == PassengerOps \cup DriverOps \cup SystemOps

Idle == [phase |-> "idle"]

\* A request inserts a row, so it carries no snapshot.
RequestCall == [phase : {"inserting"}, who : Passengers]

RideCall == [phase : {"claiming", "loaded", "saving"}, op : Ops, ride : Rides,
             who : Drivers \cup Passengers \cup {NoOne}, snap : Row,
             cols : SUBSET Columns]

RideTypeOK ==
  /\ rides \in [Rides -> Row \cup {NoRow}]
  /\ calls \in [Workers -> {Idle} \cup RequestCall \cup RideCall]
  /\ outbox \in Seq(Event)
  /\ published \subseteq Event
  /\ won \subseteq Rides \X Drivers

(***************************************************************************)
(* The partial unique indexes of rides.  Both predicates are evaluated on  *)
(* the table a commit would leave.                                         *)
(***************************************************************************)
PassengerActive == {"requested", "matching", "assigned", "arriving", "in_progress",
                    "pending_payment", "payment_failed"}
DriverActive    == PassengerActive \ {"requested", "matching"}

UniquePassenger(table) ==
  \A r1, r2 \in Rides :
    (/\ table[r1] # NoRow /\ table[r2] # NoRow
     /\ table[r1].status \in PassengerActive /\ table[r2].status \in PassengerActive
     /\ table[r1].passenger = table[r2].passenger) => r1 = r2

UniqueDriver(table) ==
  \A r1, r2 \in Rides :
    (/\ table[r1] # NoRow /\ table[r2] # NoRow
     /\ table[r1].status \in DriverActive /\ table[r2].status \in DriverActive
     /\ table[r1].driver = table[r2].driver /\ table[r1].driver # NoOne) => r1 = r2

UniqueIndexes(table) == UniquePassenger(table) /\ UniqueDriver(table)

(***************************************************************************)
(* What a handler requires of the row it loaded, and what it makes of it.  *)
(***************************************************************************)
ActionOf ==
  [cancel |-> "passenger_cancel", accept |-> "assign", arrived |-> "arrive",
   start |-> "start", end |-> "end", no_show |-> "no_show",
   driver_cancel |-> "driver_cancel", exhausted |-> "exhausted",
   paid |-> "payment_success", pay_failed |-> "payment_failed"]

\* Variant: the cap compared with > instead of >=.
RematchOffByOne(row) == row.rematch > MaxAutoRematch

RematchExhausted(row) == row.rematch >= MaxAutoRematch

\* Ops that set the status themselves (skipTransition) or leave it alone.
SkipsTransition(op, row) ==
  op = "fare" \/ (op = "driver_cancel" /\ RematchExhausted(row))

\* requireOwned / requireDriver and the checks of each handler.
Permitted(op, who, row) ==
  CASE op = "cancel" -> row.passenger = who
    [] op = "accept" -> row.status = "matching"
    [] op = "no_show" -> row.driver = who /\ row.arrived
    [] op \in DriverOps \ {"accept", "no_show"} -> row.driver = who
    [] op = "exhausted" -> row.status = "matching"
    [] op = "fare" -> TRUE
    [] op = "paid" -> row.status # "completed"
    [] op = "pay_failed" -> row.status = "pending_payment"

Legal(op, row) == ~SkipsTransition(op, row) => CanTransition(row.status, ActionOf[op])

\* Variant: a driver's cancellation leaves arrived_at behind.
MutateKeepsArrival(op, who, row) ==
  CASE op = "accept" -> [row EXCEPT !.driver = who]
    [] op = "arrived" -> [row EXCEPT !.arrived = TRUE]
    [] op = "driver_cancel" -> [row EXCEPT !.driver = NoOne]
    [] OTHER -> row

\* Variant: at the cap the ride still goes back to matching.
MutateUncapped(op, who, row) ==
  CASE op = "accept" -> [row EXCEPT !.driver = who]
    [] op = "arrived" -> [row EXCEPT !.arrived = TRUE]
    [] op = "driver_cancel" ->
         IF RematchExhausted(row)
           THEN [row EXCEPT !.status = "matching", !.driver = NoOne, !.arrived = FALSE]
           ELSE [row EXCEPT !.driver = NoOne, !.arrived = FALSE, !.rematch = @ + 1]
    [] OTHER -> row

\* The entity after mutate().
Mutate(op, who, row) ==
  CASE op = "accept" -> [row EXCEPT !.driver = who]
    [] op = "arrived" -> [row EXCEPT !.arrived = TRUE]
    [] op = "fare" -> [row EXCEPT !.fare = TRUE]
    [] op = "driver_cancel" ->
         IF RematchExhausted(row)
           THEN [row EXCEPT !.status = "cancelled_by_driver"]
           ELSE [row EXCEPT !.driver = NoOne, !.arrived = FALSE, !.rematch = @ + 1]
    [] OTHER -> row

\* The entity save() is called with.
Image(op, who, row) ==
  LET moved == IF SkipsTransition(op, row) THEN row
               ELSE [row EXCEPT !.status = Transition(row.status, ActionOf[op])]
  IN Mutate(op, who, moved)

EventOf(name, r, d) == <<[name |-> name, ride |-> r, driver |-> d]>>

\* Variant: ride.assigned is built from the entity before mutate().
EmittedFromLoaded(op, who, r, row) ==
  CASE op = "accept" -> EventOf("ride.assigned", r, row.driver)
    [] op = "end" -> EventOf("ride.ended", r, NoOne)
    [] op = "paid" -> EventOf("ride.completed", r, row.driver)
    [] OTHER -> <<>>

\* Variant: a driver's cancellation does not ask for a re-match.
EmittedNoRematch(op, who, r, row) ==
  CASE op = "accept" -> EventOf("ride.assigned", r, who)
    [] op \in {"cancel", "exhausted"} -> EventOf("ride.cancelled", r, NoOne)
    [] OTHER -> <<>>

\* The events a handler records with its change.  ride.cancelled names no
\* driver; ride.completed names the driver of the loaded entity.
Emitted(op, who, r, row) ==
  CASE op = "accept" -> EventOf("ride.assigned", r, who)
    [] op = "start" -> EventOf("ride.started", r, NoOne)
    [] op = "end" -> EventOf("ride.ended", r, NoOne)
    [] op \in {"cancel", "no_show", "exhausted"} -> EventOf("ride.cancelled", r, NoOne)
    [] op = "driver_cancel" ->
         EventOf(IF RematchExhausted(row) THEN "ride.cancelled" ELSE "ride.requested", r, NoOne)
    [] op = "paid" -> EventOf("ride.completed", r, row.driver)
    [] OTHER -> <<>>

(***************************************************************************)
(* Actions                                                                 *)
(***************************************************************************)
RideInit ==
  /\ rides = [r \in Rides |-> NoRow]
  /\ calls = [w \in Workers |-> Idle]
  /\ outbox = <<>>
  /\ published = {}
  /\ won = {}

Said(name, r) == \E e \in published : e.name = name /\ e.ride = r

\* assertNoActiveRide: the passenger's latest ride, if any, is over.
NoActiveRide(p) ==
  \A r \in Rides :
    /\ Exists(r) /\ rides[r].passenger = p
    /\ \A q \in Rides : (Exists(q) /\ rides[q].passenger = p) => q <= r
    => IsTerminal(rides[r].status)

BeginRequest(w, p) ==
  /\ calls[w] = Idle
  /\ NoActiveRide(p)
  /\ calls' = [calls EXCEPT ![w] = [phase |-> "inserting", who |-> p]]
  /\ UNCHANGED <<rides, outbox, published, won>>

\* The transaction of requestRide: the row (already matching), and
\* ride.requested in the outbox; uq_active_ride_passenger may refuse it.
CommitRequest(w) ==
  /\ calls[w].phase = "inserting"
  /\ Len(outbox) < MaxOutbox
  /\ \E r \in Rides :
       LET row == [passenger |-> calls[w].who, status |-> "matching", driver |-> NoOne,
                   rematch |-> 0, arrived |-> FALSE, fare |-> FALSE]
           table == [rides EXCEPT ![r] = row]
       IN /\ \A q \in Rides : Exists(q) <=> q < r
          /\ IF UniqueIndexes(table)
               THEN /\ rides' = table
                    /\ outbox' = Append(outbox, [name |-> "ride.requested", ride |-> r,
                                                 driver |-> NoOne])
               ELSE UNCHANGED <<rides, outbox>>
  /\ calls' = [calls EXCEPT ![w] = Idle]
  /\ UNCHANGED <<published, won>>

\* A handler loads the row.  A handler whose checks fail changes nothing and
\* is not a step.
Begin(w, op, who, r) ==
  /\ calls[w] = Idle
  /\ op \in CallerOps
  /\ Exists(r)
  /\ Permitted(op, who, rides[r])
  /\ Legal(op, rides[r])
  /\ calls' = [calls EXCEPT ![w] =
       [phase |-> IF op = "accept" THEN "claiming" ELSE "loaded",
        op |-> op, ride |-> r, who |-> who, snap |-> rides[r], cols |-> {}]]
  /\ UNCHANGED <<rides, outbox, published, won>>

\* The answer of Dispatch to accept()'s claim, which any error turns into
\* "lost".
ClaimWon(w) ==
  /\ calls[w].phase = "claiming"
  /\ calls' = [calls EXCEPT ![w].phase = "loaded"]
  /\ won' = won \cup {<<calls[w].ride, calls[w].who>>}
  /\ UNCHANGED <<rides, outbox, published>>

\* Variant: accept() goes on although the claim was lost.
LostIgnored(w) ==
  /\ calls[w].phase = "claiming"
  /\ calls' = [calls EXCEPT ![w].phase = "loaded"]
  /\ UNCHANGED <<rides, outbox, published, won>>

ClaimLost(w) ==
  /\ calls[w].phase = "claiming"
  /\ calls' = [calls EXCEPT ![w] = Idle]
  /\ UNCHANGED <<rides, outbox, published, won>>

Changed(image, row) == {c \in Columns : image[c] # row[c]}

\* save() reloads the row and keeps the columns in which the entity differs.
Select(w) ==
  LET c == calls[w] IN
  /\ c.phase = "loaded"
  /\ calls' = [calls EXCEPT ![w].phase = "saving",
                            ![w].cols = Changed(Image(c.op, c.who, c.snap), rides[c.ride])]
  /\ UNCHANGED <<rides, outbox, published, won>>

\* The row that writing cols of image into row leaves.
Merge(row, image, cols) ==
  [f \in DOMAIN row |-> IF f \in cols THEN image[f] ELSE row[f]]

Commit(w) ==
  LET c     == calls[w]
      table == [rides EXCEPT ![c.ride] = Merge(@, Image(c.op, c.who, c.snap), c.cols)]
      event == Emitted(c.op, c.who, c.ride, c.snap)
  IN /\ c.phase = "saving"
     /\ Len(outbox) + Len(event) <= MaxOutbox
     /\ IF UniqueIndexes(table)
          THEN rides' = table /\ outbox' = outbox \o event
          ELSE UNCHANGED <<rides, outbox>>
     /\ calls' = [calls EXCEPT ![w] = Idle]
     /\ UNCHANGED <<published, won>>

\* Variant: the relay takes the newest unsent row first.
RelayNewest ==
  /\ outbox # <<>>
  /\ published' = published \cup {outbox[Len(outbox)]}
  /\ outbox' = SubSeq(outbox, 1, Len(outbox) - 1)
  /\ UNCHANGED <<rides, calls, won>>

\* The outbox relay publishes the oldest unsent row.
Relay ==
  /\ outbox # <<>>
  /\ published' = published \cup {Head(outbox)}
  /\ outbox' = Tail(outbox)
  /\ UNCHANGED <<rides, calls, won>>

(***************************************************************************)
(* The callers.  Saga events only arrive for what the other services have  *)
(* been told: Dispatch knows a requested ride, Fare and Payment an ended   *)
(* one.  Redelivery is a second Begin.                                     *)
(***************************************************************************)
PassengerCall(w) ==
  \E p \in Passengers :
    \/ BeginRequest(w, p)
    \/ \E op \in PassengerOps, r \in Rides : Begin(w, op, p, r)

DriverCall(w) ==
  \E d \in Drivers, op \in DriverOps, r \in Rides : Begin(w, op, d, r)

SagaEvent(w) ==
  \E r \in Rides :
    \/ Said("ride.requested", r) /\ Begin(w, "exhausted", NoOne, r)
    \/ /\ Said("ride.ended", r)
       /\ \E op \in {"fare", "paid", "pay_failed"} : Begin(w, op, NoOne, r)

Serve(w) ==
  \/ CommitRequest(w) \/ ClaimWon(w) \/ ClaimLost(w) \/ Select(w) \/ Commit(w)

RideNext ==
  \/ \E w \in Workers : PassengerCall(w) \/ DriverCall(w) \/ SagaEvent(w) \/ Serve(w)
  \/ Relay

RideSpec == RideInit /\ [][RideNext]_rideVars

(***************************************************************************)
(* Properties of every interleaving of handlers                            *)
(***************************************************************************)

\* Nobody is the driver of a ride without having won Dispatch's claim for that
\* very ride, whatever stale entities have been saved since (accept()).
DriverWonClaim ==
  \A r \in Rides : Exists(r) /\ rides[r].driver # NoOne => <<r, rides[r].driver>> \in won

\* When the bus has carried ride.completed with a driver, it has carried
\* ride.assigned for that driver and ride before: consumers such as the vehicle
\* authorisation never see an end without its beginning (apply() and the relay).
CompletionFollowsAssignment ==
  \A e \in published :
    e.name = "ride.completed" /\ e.driver # NoOne =>
      [name |-> "ride.assigned", ride |-> e.ride, driver |-> e.driver] \in published

\* A ride that is over changes its status by nothing but a save whose entity was
\* loaded in another status than the row has by now -- and becomes active again
\* only when that entity was still active, the cancellation having come between
\* (accept()'s await) -- or by a driver's cancellation at the cap.
OverStaysOver ==
  [][\A r \in Rides :
       Exists(r) /\ IsTerminal(rides[r].status) /\ rides'[r].status # rides[r].status =>
         \E w \in Workers :
           /\ calls[w].phase = "saving" /\ calls[w].ride = r
           /\ \/ /\ calls[w].snap.status # rides[r].status
                 /\ IsTerminal(calls[w].snap.status) => IsTerminal(rides'[r].status)
              \/ /\ calls[w].op = "driver_cancel"
                 /\ rides'[r].status = "cancelled_by_driver"]_rides

(***************************************************************************)
(* Properties of handlers that do not overlap (one worker)                 *)
(***************************************************************************)

\* The columns of one row agree with its status: a ride looking for a driver
\* has none, a ride under way has one, only a ride that was arrived at can be
\* arriving or beyond, and only an ended ride carries a fare.
RowCoherent ==
  \A r \in Rides : Exists(r) =>
    LET row == rides[r] IN
    /\ row.status = "matching" => row.driver = NoOne
    /\ row.status \in DriverActive \cup {"completed"} => row.driver # NoOne
    /\ row.status \in {"matching", "assigned"} => ~row.arrived
    /\ row.status \in {"arriving", "in_progress", "pending_payment", "payment_failed",
                       "completed", "cancelled_no_show"} => row.arrived
    /\ row.fare => row.status \in {"pending_payment", "payment_failed", "completed",
                                   "cancelled_by_driver"}

\* docs/specs.md 3: "terminal rides are immutable except payment
\* reconciliation fields".
TerminalImmutable ==
  [][\A r \in Rides : Exists(r) /\ IsTerminal(rides[r].status)
       => rides'[r].status = rides[r].status]_rides

=============================================================================
