------------------------------ MODULE Dispatch ------------------------------
(***************************************************************************)
(* The Dispatch service: matching rounds with timers, the first-accept-wins*)
(* claim in Redis, and the in-memory projections that feed them            *)
(* (services/dispatch/src).                                                *)
(*                                                                         *)
(* Everything but the claim keys is process memory: a restart forgets it.  *)
(* claim() awaits Redis between its checks and its effects, so a claim is  *)
(* a call with phases (sent, granted, then won or lost), and timers,       *)
(* cancellations and other claims run in between.  Match objects have an   *)
(* identity of their own because a callback keeps the object it was made   *)
(* for, whatever the map `active` says by then.                            *)
(*                                                                         *)
(* Time is in units of the offer window's resolution: only the comparison  *)
(* of a match's age with the waiting cap reads it.                         *)
(***************************************************************************)
EXTENDS Naturals, FiniteSets, Parties

CONSTANTS
  Vehicles, Zones,
  Callers,         \* claim requests the process serves at the same time
  MatchIds,        \* bound: the match objects ever created
  None,            \* null, as a match or zone
  Rank,            \* Rank[r][z]: position of z among all zones by distance to r's pickup
  InitialZones, MaxZones,   \* DISPATCH_INITIAL_ZONES, DISPATCH_MAX_ZONES
  OfferTime, MaxTotalWait,  \* DISPATCH_OFFER_S, DISPATCH_MAX_TOTAL_WAIT_S
  MaxLate,         \* bound: how late a timer fires or an event is delivered
  Registries,      \* bound: the projections at the start
  Feed             \* bound: the kinds of outside events that happen

ASSUME NullAssumption ==
  NoOne \notin Drivers \cup Vehicles /\ None \notin MatchIds \cup Zones
ASSUME RankAssumption == Rank \in [Rides -> [Zones -> Nat]]
ASSUME TimeAssumption ==
  /\ OfferTime \in Nat \ {0} /\ MaxTotalWait \in Nat /\ MaxLate \in Nat
  /\ InitialZones \in Nat /\ MaxZones \in Nat

VARIABLES
  matches,     \* the match objects by identity, or NoMatch
  active,      \* the map active: the match a ride id leads to, or None
  claimKey,    \* Redis ride:{id}:claim
  claims,       \* claim() invocations
  registry,    \* DriverRegistry and ZoneCache
  winner,      \* history: who was told to have won each match
  exhausted    \* history: rides dispatch.exhausted was published for

dispatchVars == <<matches, active, claimKey, claims, registry, winner, exhausted>>

(***************************************************************************)
(* Data                                                                    *)
(***************************************************************************)
\* ends collects every reason resolve() was called for, {} meaning unresolved.
Match == [ride : Rides, zones : SUBSET Zones, round : Nat, age : Nat,
          offered : SUBSET Drivers, timer : BOOLEAN,
          ends : SUBSET {"won", "exhausted", "cancelled", "crashed"}]

NoMatch == [timer |-> FALSE, ends |-> {}]

DriverState  == [vehicle : Vehicles \cup {NoOne}, online : BOOLEAN, onRide : BOOLEAN]
VehicleState == [zone : Zones \cup {None}, fresh : BOOLEAN]

Registry == [drivers : [Drivers -> DriverState], vehicles : [Vehicles -> VehicleState],
             zones : SUBSET Zones]

EmptyRegistry ==
  [drivers  |-> [d \in Drivers |-> [vehicle |-> NoOne, online |-> FALSE, onRide |-> FALSE]],
   vehicles |-> [v \in Vehicles |-> [zone |-> None, fresh |-> TRUE]],
   zones    |-> {}]

ASSUME RegistriesAssumption == Registries \subseteq Registry

NoClaim == [phase |-> "idle"]

InFlight == {"sent", "granted"}

Call == [phase : {"sent", "granted", "won"}, ride : Rides, driver : Drivers, match : MatchIds]
LostCall == [phase : {"lost"}, ride : Rides, driver : Drivers]

DispatchTypeOK ==
  /\ matches \in [MatchIds -> Match \cup {NoMatch}]
  /\ active \in [Rides -> MatchIds \cup {None}]
  /\ claimKey \in [Rides -> Drivers \cup {NoOne}]
  /\ claims \in [Callers -> {NoClaim} \cup Call \cup LostCall]
  /\ registry \in Registry
  /\ winner \in [MatchIds -> Drivers \cup {NoOne}]
  /\ exhausted \subseteq Rides
  /\ \A m \in MatchIds : matches[m].timer => matches[m].ends = {}

Created(m)    == matches[m] # NoMatch
Unresolved(m) == Created(m) /\ matches[m].ends = {}

(***************************************************************************)
(* Zones and eligibility                                                   *)
(***************************************************************************)
\* The zones of a round: the nearest InitialZones + (round - 1) of those the
\* match ranked, at most MaxZones.
ZonesForRound(r, ranked, round) ==
  {z \in ranked :
     LET nearer == Cardinality({y \in ranked : Rank[r][y] < Rank[r][z]})
     IN nearer < InitialZones + (round - 1) /\ nearer < MaxZones}

EligibleInZones(zoneIds) ==
  {d \in Drivers :
     LET s == registry.drivers[d] IN
     /\ s.online /\ ~s.onRide /\ s.vehicle # NoOne
     /\ registry.vehicles[s.vehicle].zone \in zoneIds
     /\ registry.vehicles[s.vehicle].fresh}

HasAssignment(d) ==
  LET v == registry.drivers[d].vehicle
  IN v # NoOne /\ registry.vehicles[v].zone # None

ShouldContinue(age) == age + OfferTime <= MaxTotalWait

(***************************************************************************)
(* Matching                                                                *)
(***************************************************************************)
DispatchInit ==
  /\ matches = [m \in MatchIds |-> NoMatch]
  /\ active = [r \in Rides |-> None]
  /\ claimKey = [r \in Rides |-> NoOne]
  /\ claims = [c \in Callers |-> NoClaim]
  /\ registry \in Registries
  /\ winner = [m \in MatchIds |-> NoOne]
  /\ exhausted = {}

\* match after its next round's broadcast, at the given age, with a new timer.
RunRound(match, age) ==
  LET round == match.round + 1
  IN [match EXCEPT !.round = round, !.age = age, !.timer = TRUE,
        !.offered = @ \cup EligibleInZones(ZonesForRound(match.ride, match.zones, round))]

\* resolve(): the object ends, and the map forgets whatever match the ride has.
\* Variant: resolve() without clearTimeout.
ResolvedTimerLeft(match, why) == [match EXCEPT !.ends = @ \cup {why}]

Resolved(match, why) == [match EXCEPT !.ends = @ \cup {why}, !.timer = FALSE]

Resolve(m, why) ==
  /\ matches' = [matches EXCEPT ![m] = Resolved(@, why)]
  /\ active' = [active EXCEPT ![matches[m].ride] = None]

\* Variant: startMatching() without its check of the active matches.
StartMatchingRepeated(r, late) ==
  /\ registry.zones # {}
  /\ \E m \in MatchIds :
       /\ ~Created(m)
       /\ matches' = [matches EXCEPT ![m] =
            RunRound([ride |-> r, zones |-> registry.zones, round |-> 0, age |-> late,
                      offered |-> {}, timer |-> FALSE, ends |-> {}], late)]
       /\ active' = [active EXCEPT ![r] = m]
  /\ UNCHANGED <<claimKey, claims, registry, winner, exhausted>>

\* ride.requested, delivered `late` after it happened.  A ride that already
\* has an active match is left alone.
StartMatching(r, late) ==
  /\ \/ /\ active[r] # None
        /\ UNCHANGED <<matches, active, exhausted>>
     \/ /\ active[r] = None /\ registry.zones = {}
        /\ exhausted' = exhausted \cup {r}
        /\ UNCHANGED <<matches, active>>
     \/ /\ active[r] = None /\ registry.zones # {}
        /\ \E m \in MatchIds :
             /\ ~Created(m)
             /\ matches' = [matches EXCEPT ![m] =
                  RunRound([ride |-> r, zones |-> registry.zones, round |-> 0, age |-> late,
                            offered |-> {}, timer |-> FALSE, ends |-> {}], late)]
             /\ active' = [active EXCEPT ![r] = m]
        /\ UNCHANGED exhausted
  /\ UNCHANGED <<claimKey, claims, registry, winner>>

\* Variant: the last window closes without exhaust().
OnTimeoutForgotten(m, late) ==
  LET age == matches[m].age + OfferTime + late
  IN /\ matches[m].timer /\ ShouldContinue(age)
     /\ matches' = [matches EXCEPT ![m] = RunRound(matches[m], age)]
     /\ UNCHANGED <<active, exhausted, claimKey, claims, registry, winner>>

\* The offer window of m is over, `late` after it should have been.  exhaust()
\* looks the ride up again and resolves the match it finds, m or not.
OnTimeout(m, late) ==
  LET match == matches[m]
      age   == match.age + OfferTime + late
  IN /\ match.timer
     /\ IF ShouldContinue(age)
          THEN /\ matches' = [matches EXCEPT ![m] = RunRound(match, age)]
               /\ UNCHANGED <<active, exhausted>>
          ELSE /\ matches' = [n \in MatchIds |->
                    IF n = active[match.ride] THEN Resolved(matches[n], "exhausted")
                    ELSE IF n = m THEN [match EXCEPT !.timer = FALSE] ELSE matches[n]]
               /\ active' = [active EXCEPT ![match.ride] = None]
               /\ exhausted' = exhausted \cup {match.ride}
     /\ UNCHANGED <<claimKey, claims, registry, winner>>

\* ride.cancelled, with the driver it names (NoOne when it names none).
RideCancelled(r, d) ==
  /\ IF active[r] # None THEN Resolve(active[r], "cancelled") ELSE UNCHANGED <<matches, active>>
  /\ registry' = IF d = NoOne THEN registry
                 ELSE [registry EXCEPT !.drivers[d].onRide = FALSE]
  /\ UNCHANGED <<claimKey, claims, winner, exhausted>>

RideCompleted(d) ==
  /\ registry' = IF d = NoOne THEN registry
                 ELSE [registry EXCEPT !.drivers[d].onRide = FALSE]
  /\ UNCHANGED <<matches, active, claimKey, claims, winner, exhausted>>

(***************************************************************************)
(* claim()                                                                 *)
(***************************************************************************)
\* Variant: claim() does not look at who the match was offered to.
ClaimUnoffered(c, r, d) ==
  /\ claims[c] = NoClaim /\ active[r] # None
  /\ claims' = [claims EXCEPT ![c] =
       [phase |-> "sent", ride |-> r, driver |-> d, match |-> active[r]]]
  /\ UNCHANGED <<matches, active, claimKey, registry, winner, exhausted>>

Claim(c, r, d) ==
  LET m == active[r]
      open == m # None /\ (m # None => matches[m].ends = {} /\ d \in matches[m].offered)
  IN /\ claims[c] = NoClaim
     /\ claims' = [claims EXCEPT ![c] =
          IF open THEN [phase |-> "sent", ride |-> r, driver |-> d, match |-> m]
                  ELSE [phase |-> "lost", ride |-> r, driver |-> d]]
     /\ UNCHANGED <<matches, active, claimKey, registry, winner, exhausted>>

Lose(c) ==
  claims' = [claims EXCEPT ![c] = [phase |-> "lost", ride |-> claims[c].ride,
                                 driver |-> claims[c].driver]]

\* Variant: SET without NX.
TryClaimOverwrites(c) ==
  /\ claims[c].phase = "sent"
  /\ claimKey' = [claimKey EXCEPT ![claims[c].ride] = claims[c].driver]
  /\ claims' = [claims EXCEPT ![c].phase = "granted"]
  /\ UNCHANGED <<matches, active, registry, winner, exhausted>>

\* Redis executes SET key driver NX PX 5000.
TryClaim(c) ==
  LET r == claims[c].ride IN
  /\ claims[c].phase = "sent"
  /\ IF claimKey[r] = NoOne
       THEN /\ claimKey' = [claimKey EXCEPT ![r] = claims[c].driver]
            /\ claims' = [claims EXCEPT ![c].phase = "granted"]
       ELSE /\ Lose(c)
            /\ UNCHANGED claimKey
  /\ UNCHANGED <<matches, active, registry, winner, exhausted>>

\* Variant: the winner is not marked as being on a ride.
ClaimGrantedStillFree(c) ==
  /\ claims[c].phase = "granted" /\ HasAssignment(claims[c].driver)
  /\ Resolve(claims[c].match, "won")
  /\ winner' = [winner EXCEPT ![claims[c].match] = claims[c].driver]
  /\ claims' = [claims EXCEPT ![c].phase = "won"]
  /\ UNCHANGED <<registry, claimKey, exhausted>>

\* claim() resumes after a successful SET, on the match it found before.
ClaimGranted(c) ==
  LET m == claims[c].match
      d == claims[c].driver
  IN /\ claims[c].phase = "granted"
     /\ IF HasAssignment(d)
          THEN /\ Resolve(m, "won")
               /\ registry' = [registry EXCEPT !.drivers[d].onRide = TRUE]
               /\ winner' = [winner EXCEPT ![m] = d]
               /\ claims' = [claims EXCEPT ![c].phase = "won"]
          ELSE /\ Lose(c)
               /\ UNCHANGED <<matches, active, registry, winner>>
     /\ UNCHANGED <<claimKey, exhausted>>

\* Redis does not answer: the request fails, whether or not the SET was done.
ClaimFails(c) ==
  /\ "redis" \in Feed
  /\ claims[c].phase \in InFlight
  /\ Lose(c)
  /\ UNCHANGED <<matches, active, claimKey, registry, winner, exhausted>>

\* The HTTP response leaves the process.
Answer(c) ==
  /\ claims[c].phase \in {"won", "lost"}
  /\ claims' = [claims EXCEPT ![c] = NoClaim]
  /\ UNCHANGED <<matches, active, claimKey, registry, winner, exhausted>>

\* An assumption about time that no code makes good: the key's time to live (5 s)
\* is longer than a claim spends between its checks and its effects, with Redis
\* or the process stalled or the connection being restored in between.
KeyOutlastsClaims == "slow" \notin Feed

UnderWay(r) == \E c \in Callers : claims[c].phase \in InFlight /\ claims[c].ride = r

\* The key's time to live ends.
ExpireKey(r) ==
  /\ claimKey[r] # NoOne
  /\ KeyOutlastsClaims => ~UnderWay(r)
  /\ claimKey' = [claimKey EXCEPT ![r] = NoOne]
  /\ UNCHANGED <<matches, active, claims, registry, winner, exhausted>>

(***************************************************************************)
(* The projections, and a restart                                          *)
(***************************************************************************)
Observe(kind, new) ==
  /\ kind \in Feed
  /\ registry' = new
  /\ UNCHANGED <<matches, active, claimKey, claims, winner, exhausted>>

\* driver.status.changed
SetOnline(d, v, online) ==
  LET known == registry.drivers[d]
  IN Observe("status",
       [registry EXCEPT !.drivers[d] =
          [known EXCEPT !.online = online, !.vehicle = IF v = NoOne THEN known.vehicle ELSE v]])

\* vehicle.updated
SetVehicleZone(v, z) == Observe("pairing", [registry EXCEPT !.vehicles[v].zone = z])

\* vehicle.location.updated, tracker.stale
SetTracker(v, fresh) == Observe("tracker", [registry EXCEPT !.vehicles[v].fresh = fresh])

\* zone.updated, and the retries at startup; a failed fetch changes nothing.
RefreshZones(zs) == Observe("zones", [registry EXCEPT !.zones = zs])

\* The process stops and starts: timers, matches, claims and projections are
\* gone, the claim keys are not.
Restart ==
  /\ "restart" \in Feed
  /\ matches' = [m \in MatchIds |->
       IF Unresolved(m) THEN [matches[m] EXCEPT !.ends = {"crashed"}, !.timer = FALSE]
                        ELSE matches[m]]
  /\ active' = [r \in Rides |-> None]
  /\ claims' = [c \in Callers |-> NoClaim]
  /\ registry' = EmptyRegistry
  /\ UNCHANGED <<claimKey, winner, exhausted>>

(***************************************************************************)
(* Dispatch with any callers: rides are requested, cancelled and claimed,  *)
(* and events repeated, in any order.                                      *)
(***************************************************************************)
Matching ==
  \/ \E r \in Rides, late \in 0..MaxLate : StartMatching(r, late)
  \/ \E m \in MatchIds, late \in 0..MaxLate : OnTimeout(m, late)
  \/ \E r \in Rides : RideCancelled(r, NoOne)
  \/ \E d \in Drivers : RideCompleted(d)

Claiming ==
  \/ \E c \in Callers, r \in Rides, d \in Drivers : Claim(c, r, d)
  \/ \E c \in Callers : TryClaim(c) \/ ClaimGranted(c) \/ ClaimFails(c) \/ Answer(c)
  \/ \E r \in Rides : ExpireKey(r)

Projecting ==
  \/ \E d \in Drivers, v \in Vehicles \cup {NoOne}, on \in BOOLEAN : SetOnline(d, v, on)
  \/ \E v \in Vehicles, z \in Zones : SetVehicleZone(v, z)
  \/ \E v \in Vehicles, fresh \in BOOLEAN : SetTracker(v, fresh)
  \/ \E zs \in SUBSET Zones : RefreshZones(zs)

DispatchNext == Matching \/ Claiming \/ Projecting \/ Restart

DispatchSpec == DispatchInit /\ [][DispatchNext]_dispatchVars

\* setTimeout callbacks run, in a process that stays up.
DispatchFairSpec ==
  /\ DispatchSpec
  /\ \A m \in MatchIds : WF_dispatchVars(\E late \in 0..MaxLate : OnTimeout(m, late))

(***************************************************************************)
(* Properties                                                              *)
(***************************************************************************)

\* The first accepted driver wins a match for good, whatever claims, timers,
\* cancellations, Redis errors and restarts do (specs.md 5.4) -- as long as no
\* claim key expires under a claim that has met it.
FAW == INSTANCE FirstAcceptWins WITH
  offered <- [m \in MatchIds |-> IF Created(m) THEN matches[m].offered ELSE {}]

FirstAcceptWins == FAW!AbstractSpec

\* Why the above holds: a claim that is still under way on a match that has
\* been won finds the ride's key taken, so it cannot win as well.
WonMatchIsGuarded ==
  KeyOutlastsClaims =>
    \A c \in Callers :
      claims[c].phase \in InFlight =>
        /\ claims[c].phase = "granted" => claimKey[claims[c].ride] # NoOne
        /\ winner[claims[c].match] # NoOne =>
             claims[c].phase = "sent" /\ claimKey[claims[c].ride] # NoOne

\* Every match ends: its timer does not run for ever, even when it is no
\* longer the ride's active match and nothing can resolve it.
MatchEnds == \A m \in MatchIds : matches[m].timer ~> ~matches[m].timer

\* A match that was won after it had ended otherwise: claim() resolves the match
\* it found before its await, and resolve() then forgets whatever match the ride
\* has by now.
WonLate(m) == "won" \in matches[m].ends /\ matches[m].ends # {"won"}

\* However often ride.requested is repeated, overtaken or asked for again by a
\* re-match, a ride has one running match at most (startMatching) -- unless one
\* of its matches has been won late.
OneRunningMatch ==
  KeyOutlastsClaims =>
    \A m, n \in MatchIds :
      matches[m].timer /\ matches[n].timer /\ matches[m].ride = matches[n].ride /\ m # n =>
        \E k \in MatchIds : Created(k) /\ matches[k].ride = matches[m].ride /\ WonLate(k)

=============================================================================
