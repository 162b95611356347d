----------------------------- MODULE EventDriven -----------------------------
(***************************************************************************)
(* Four parts that live on events of the bus, together: the bus itself, the*)
(* zones of Geofence, the tracker health of Tracking, and Dispatch fed by  *)
(* changing projections, which is extended for its theorems.  They share   *)
(* no state, so a behaviour of all of them is an interleaving of           *)
(* behaviours of each: focus names the one that moves, and the others stay *)
(* as they begin.                                                          *)
(***************************************************************************)
EXTENDS Dispatch, Sequences

CONSTANTS
  Workers, MaxFaults,
  Events, Consumers, Bound, Subscriptions,                       \* the bus
  MaxAttempts, Prefetch, BatchSize,
  ZoneIds, MaxZoneCalls,                                         \* Geofence
  Interval, Stale, Dead, Skew, TrackerTime, MaxPings             \* Tracking

\* Events are numbered by their creation; queues are bound to events there are,
\* those of the service's subscribe() calls.
ASSUME BusAssumption ==
  /\ Events \subseteq Nat /\ IsFiniteSet(Events)
  /\ Bound \in [Consumers -> SUBSET Events]
  /\ Subscriptions \in [Consumers -> SUBSET SUBSET Events]
  /\ \A s \in Consumers : Bound[s] = UNION Subscriptions[s]
  /\ MaxAttempts \in Nat \ {0} /\ BatchSize \in Nat \ {0} /\ Prefetch \in Nat
  /\ MaxFaults \in Nat

\* A tracker is not stale before a sample is due (configuration.ts: a sample
\* every 30 s, stale after 60 s).
ASSUME TrackerAssumption ==
  /\ Interval \in Nat /\ Stale \in Nat /\ Dead \in Nat /\ Skew \in Nat
  /\ TrackerTime \in Nat /\ MaxPings \in Nat
  /\ Interval <= Stale + 1

ASSUME ZonesAssumption == MaxZoneCalls \in Nat

VARIABLES
  focus,
  outbox, fetched, unmarked, subscribed, queue, busy, delayed, handled, dead, unhandled,
  dropped, failures, busFaults,
  zones, zoneVersions, pairings, activeZones, vehicleToZone, announced, zoneCalls,
  zonesOverlapped, cut, count, zoneFaults,
  clock, mapped, live, health, sampled, ingests, scan, heard, scanned, trackerDisturbed,
  pings, trackerFaults

bus == <<outbox, fetched, unmarked, subscribed, queue, busy, delayed, handled, dead,
         unhandled, dropped, failures, busFaults>>
zoning == <<zones, zoneVersions, pairings, activeZones, vehicleToZone, announced, zoneCalls,
            zonesOverlapped, cut, count, zoneFaults>>
tracker == <<clock, mapped, live, health, sampled, ingests, scan, heard, scanned,
             trackerDisturbed, pings, trackerFaults>>
vars == <<focus, bus, zoning, tracker, dispatchVars>>

Bus == INSTANCE EventBus WITH Services <- Consumers, faults <- busFaults

Zoning == INSTANCE Zones WITH
  MaxCalls <- MaxZoneCalls, calls <- zoneCalls, overlapped <- zonesOverlapped,
  faults <- zoneFaults

Tracker == INSTANCE Trackers WITH
  Pings <- Workers, MaxTime <- TrackerTime, now <- clock, disturbed <- trackerDisturbed,
  faults <- trackerFaults

TypeOK ==
  CASE focus = "bus" -> Bus!TypeOK
    [] focus = "zoning" -> Zoning!TypeOK
    [] focus = "tracker" -> Tracker!TypeOK
    [] focus = "matching" -> DispatchTypeOK

Init ==
  /\ focus \in {"bus", "zoning", "tracker", "matching"}
  /\ Bus!Init /\ Zoning!Init /\ Tracker!Init /\ DispatchInit
  /\ focus # "matching" => registry = EmptyRegistry

Next ==
  /\ UNCHANGED focus
  /\ \/ focus = "bus" /\ Bus!Next /\ UNCHANGED <<zoning, tracker, dispatchVars>>
     \/ focus = "zoning" /\ Zoning!Next /\ UNCHANGED <<bus, tracker, dispatchVars>>
     \/ focus = "tracker" /\ Tracker!Next /\ UNCHANGED <<bus, zoning, dispatchVars>>
     \/ focus = "matching" /\ DispatchNext /\ UNCHANGED <<bus, zoning, tracker>>

Spec == Init /\ [][Next]_vars

\* The fairness of the bus and of Dispatch's timers, when they are what moves.
FairSpec ==
  /\ Spec
  /\ WF_bus(focus = "bus" /\ Bus!Relay)
  /\ \A s \in Consumers :
       /\ WF_bus(focus = "bus" /\ Bus!Subscribe(s))
       /\ WF_bus(focus = "bus" /\ Bus!Consume(s))
       /\ WF_bus(focus = "bus" /\ Bus!Finish(s))
       /\ WF_bus(focus = "bus" /\ Bus!Timer(s))
  /\ \A m \in MatchIds :
       WF_dispatchVars(focus = "matching" /\ \E late \in 0..MaxLate : OnTimeout(m, late))

NothingLost == focus = "bus" => Bus!NothingLost
GivenUpAfterRetries == focus = "bus" => Bus!GivenUpAfterRetries
Delivered == Bus!Delivered
ZonesCoherent == focus = "zoning" => Zoning!PairingsCoherent /\ Zoning!RegistryAgrees
DispatchAgrees == focus = "tracker" => Tracker!DispatchAgrees

=============================================================================
