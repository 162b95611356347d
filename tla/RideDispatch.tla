---------------------------- MODULE RideDispatch ----------------------------
(***************************************************************************)
(* The Ride and Dispatch services together: Ride's outbox events travel    *)
(* over the bus into Dispatch's queue, dispatch.exhausted travels back, and*)
(* accept() calls Dispatch's claim over HTTP, with a timeout.              *)
(*                                                                         *)
(* A worker of the Ride service is also the caller slot of its claim in    *)
(* Dispatch.  The bus delivers at least once: a service whose handler      *)
(* failed republishes the event to the exchange, and so to every queue.    *)
(***************************************************************************)
EXTENDS RideService, Dispatch, FiniteSets

CONSTANTS
  MaxCopies,       \* bound: extra deliveries of events
  MaxQueue         \* bound: events waiting for Dispatch

\* The caller slot of a worker's claim is the worker itself.
ASSUME CallersAssumption == Callers = Workers

VARIABLES
  queue,       \* dispatch.q
  copies       \* extra deliveries so far

vars == <<rideVars, dispatchVars, queue, copies>>

Init == RideInit /\ DispatchInit /\ queue = <<>> /\ copies = 0

(***************************************************************************)
(* Ride's own steps                                                        *)
(***************************************************************************)
\* A worker takes up a new call once the claim it may have given up on is gone.
RideStep(w) ==
  /\ \/ claims[w] = NoClaim /\ (PassengerCall(w) \/ DriverCall(w))
     \/ \E r \in Rides : Said("ride.ended", r)
          /\ \E op \in {"fare", "paid", "pay_failed"} : Begin(w, op, NoOne, r)
     \/ CommitRequest(w) \/ Select(w) \/ Commit(w)
  /\ UNCHANGED <<dispatchVars, queue, copies>>

\* dispatch.exhausted reaches Ride, for the first time or again.
DeliverExhausted(w) ==
  /\ \E r \in exhausted : Begin(w, "exhausted", NoOne, r)
  /\ UNCHANGED <<dispatchVars, queue, copies>>

(***************************************************************************)
(* The claim over HTTP                                                     *)
(***************************************************************************)
SendClaim(w) ==
  /\ calls[w].phase = "claiming"
  /\ Claim(w, calls[w].ride, calls[w].who)
  /\ UNCHANGED <<rideVars, queue, copies>>

ReceiveAnswer(w) ==
  /\ calls[w].phase = "claiming"
  /\ IF claims[w].phase = "won" THEN ClaimWon(w) ELSE ClaimLost(w)
  /\ Answer(w)
  /\ UNCHANGED <<queue, copies>>

\* The client gives up after 2 s; Dispatch goes on, and its answer is dropped.
Timeout(w) ==
  /\ "timeout" \in Feed
  /\ ClaimLost(w)
  /\ UNCHANGED <<dispatchVars, queue, copies>>

DropAnswer(w) ==
  /\ calls[w].phase # "claiming"
  /\ Answer(w)
  /\ UNCHANGED <<rideVars, queue, copies>>

(***************************************************************************)
(* The bus                                                                 *)
(***************************************************************************)
RelayEvent ==
  /\ Relay
  /\ Len(queue) < MaxQueue
  /\ queue' = Append(queue, Head(outbox))
  /\ UNCHANGED <<dispatchVars, copies>>

\* Some consumer failed on an event and republishes it after a delay, or the
\* relay stopped before it marked the row as sent.
Redeliver ==
  /\ copies < MaxCopies
  /\ Len(queue) < MaxQueue
  /\ \E e \in published : queue' = Append(queue, e)
  /\ copies' = copies + 1
  /\ UNCHANGED <<rideVars, dispatchVars>>

DispatchConsumes ==
  /\ queue # <<>>
  /\ LET e == Head(queue) IN
       CASE e.name = "ride.requested" -> StartMatching(e.ride, 0)
         [] e.name = "ride.cancelled" -> RideCancelled(e.ride, e.driver)
         [] e.name = "ride.completed" -> RideCompleted(e.driver)
         [] OTHER -> UNCHANGED dispatchVars
  /\ queue' = Tail(queue)
  /\ UNCHANGED <<rideVars, copies>>

(***************************************************************************)
(* Dispatch's own steps                                                    *)
(***************************************************************************)
MatchTimeout(m) ==
  /\ \E late \in 0..MaxLate : OnTimeout(m, late)
  /\ UNCHANGED <<rideVars, queue, copies>>

ClaimStep(w) ==
  /\ TryClaim(w) \/ ClaimGranted(w)
  /\ UNCHANGED <<rideVars, queue, copies>>

OtherDispatchStep ==
  /\ \/ \E r \in Rides : ExpireKey(r)
     \/ \E d \in Drivers, on \in BOOLEAN : SetOnline(d, NoOne, on)
  /\ UNCHANGED <<rideVars, queue, copies>>

\* Claims under way fail with the connection.
DispatchRestart ==
  /\ Restart
  /\ calls' = [w \in Workers |->
       IF calls[w].phase = "claiming" /\ claims[w] # NoClaim
         THEN Idle ELSE calls[w]]
  /\ UNCHANGED <<rides, outbox, published, won, queue, copies>>

-----------------------------------------------------------------------------
Next ==
  \/ \E w \in Workers :
       \/ RideStep(w) \/ DeliverExhausted(w) \/ SendClaim(w) \/ ReceiveAnswer(w)
       \/ Timeout(w) \/ DropAnswer(w) \/ ClaimStep(w)
  \/ RelayEvent \/ Redeliver \/ DispatchConsumes
  \/ \E m \in MatchIds : MatchTimeout(m)
  \/ OtherDispatchStep \/ DispatchRestart

Spec == Init /\ [][Next]_vars

\* A worker finishes the call it is in.
Work(w) ==
  \/ SendClaim(w) \/ ReceiveAnswer(w) \/ DropAnswer(w) \/ ClaimStep(w)
  \/ (CommitRequest(w) \/ Select(w) \/ Commit(w)) /\ UNCHANGED <<dispatchVars, queue, copies>>

\* Handlers finish, the relay polls, queues are drained and timers fire.
\* Nobody has to accept, cancel or ask for anything.
Fairness ==
  /\ \A w \in Workers : WF_vars(Work(w))
  /\ SF_vars(\E w \in Workers : DeliverExhausted(w))
  /\ WF_vars(RelayEvent) /\ WF_vars(DispatchConsumes)
  /\ \A m \in MatchIds : WF_vars(MatchTimeout(m))

FairSpec == Spec /\ Fairness

(***************************************************************************)
(* Properties                                                              *)
(***************************************************************************)

\* The driver of a ride is the winner of one of that ride's matches, whatever
\* answers, events and saves overtake each other.
DriverIsWinner ==
  \A r \in Rides :
    Exists(r) /\ rides[r].driver # NoOne =>
      \E m \in MatchIds : /\ matches[m] # NoMatch /\ matches[m].ride = r
                          /\ winner[m] = rides[r].driver

\* Dispatch knows that the driver of an active ride is busy, so no broadcast
\* reaches that driver (D-02, dispatch-events.consumer.ts).  It relies on the
\* bus keeping ride.completed before the requests that follow it, and on offers
\* having run out when a ride of their driver ends: claim() looks at no registry.
BusyDriverKnown ==
  \A r \in Rides :
    Exists(r) /\ rides[r].status \in DriverActive =>
      registry.drivers[rides[r].driver].onRide

\* A ride does not look for a driver for ever: it is assigned, cancelled, or
\* closed as no_driver_found (specs.md 5.3, 5.4 "never silently lost").
MatchingEnds ==
  \A r \in Rides : rides[r].status = "matching" ~> rides[r].status # "matching"

\* A driver who has no active ride becomes available to Dispatch again.
DriverReleased ==
  \A d \in Drivers :
    registry.drivers[d].onRide ~>
      \/ ~registry.drivers[d].onRide
      \/ \E r \in Rides : /\ Exists(r) /\ rides[r].driver = d
                          /\ rides[r].status \in DriverActive

=============================================================================
