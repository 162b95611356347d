--------------------------- MODULE DispatchProofs ---------------------------
(***************************************************************************)
(* Theorems about Dispatch for any number of rides, drivers, zones, claims *)
(* and matches: the first accepted driver wins a match for good.           *)
(***************************************************************************)
EXTENDS Dispatch, TLAPS

USE NullAssumption, TimeAssumption

-----------------------------------------------------------------------------
(***************************************************************************)
(* The inductive invariant.                                                *)
(***************************************************************************)

\* A claim under way is about a match of its ride that was offered to its
\* driver.
CallsOnMatches ==
  \A c \in Callers : claims[c].phase \in InFlight =>
    /\ Created(claims[c].match)
    /\ matches[claims[c].match].ride = claims[c].ride
    /\ claims[c].driver \in matches[claims[c].match].offered

ActiveOnMatches ==
  \A r \in Rides : active[r] # None => Created(active[r]) /\ matches[active[r]].ride = r

\* A match with a winner is over, so that no new claim gets past the checks.
WinnersEnded ==
  \A m \in MatchIds : winner[m] # NoOne => Created(m) /\ "won" \in matches[m].ends

\* While keys outlast claims, one claim of a ride at a time has its SET granted
\* and not yet handled.
GrantedApart ==
  KeyOutlastsClaims =>
    \A c, b \in Callers :
      claims[c].phase = "granted" /\ claims[b].phase = "granted" /\ claims[c].ride = claims[b].ride
        => c = b

DispatchInv ==
  /\ DispatchTypeOK /\ CallsOnMatches /\ ActiveOnMatches
  /\ WinnersEnded /\ GrantedApart /\ WonMatchIsGuarded

-----------------------------------------------------------------------------
(***************************************************************************)
(* Types of the helpers.                                                   *)
(***************************************************************************)
LEMMA NoMatchIsNoMatch == NoMatch \notin Match
BY DEF NoMatch, Match

\* A round yields a match that was offered to more drivers.
LEMMA RunRoundType ==
  ASSUME NEW match \in Match, match.ends = {}, NEW age \in Nat
  PROVE  /\ RunRound(match, age) \in Match
         /\ RunRound(match, age).ride = match.ride
         /\ RunRound(match, age).ends = {}
         /\ match.offered \subseteq RunRound(match, age).offered
<1>1. \A zs : EligibleInZones(zs) \subseteq Drivers
  BY DEF EligibleInZones
<1>2. match.round + 1 \in Nat
  BY DEF Match
<1> DEFINE more == EligibleInZones(ZonesForRound(match.ride, match.zones, match.round + 1))
<1>3. RunRound(match, age) = [match EXCEPT !.round = match.round + 1, !.age = age, !.timer = TRUE,
                                           !.offered = @ \cup more]
  BY DEF RunRound
<1>4. more \subseteq Drivers
  BY <1>1
<1> HIDE DEF more
<1>5. QED
  BY <1>2, <1>3, <1>4, ZenonT(40) DEF Match

LEMMA ResolvedType ==
  ASSUME NEW match \in Match, NEW why \in {"won", "exhausted", "cancelled", "crashed"}
  PROVE  /\ Resolved(match, why) \in Match
         /\ Resolved(match, why).ride = match.ride
         /\ Resolved(match, why).offered = match.offered
         /\ Resolved(match, why).ends = match.ends \cup {why}
         /\ Resolved(match, why).timer = FALSE
BY DEF Resolved, Match

\* Every registry update leaves a registry.
LEMMA RideUpdate ==
  ASSUME NEW reg \in Registry, NEW d \in Drivers, NEW b \in BOOLEAN
  PROVE  [reg EXCEPT !.drivers[d].onRide = b] \in Registry
<1> DEFINE new == [reg.drivers[d] EXCEPT !.onRide = b]
<1>1. new \in DriverState
  BY DEF Registry, DriverState
<1>2. [reg EXCEPT !.drivers[d].onRide = b] = [reg EXCEPT !.drivers[d] = new]
  OBVIOUS
<1> HIDE DEF new
<1>3. QED
  BY <1>1, <1>2 DEF Registry

LEMMA OnlineUpdate ==
  ASSUME NEW reg \in Registry, NEW d \in Drivers, NEW b \in BOOLEAN,
         NEW v \in Vehicles \cup {NoOne}
  PROVE  [reg EXCEPT !.drivers[d] =
            [reg.drivers[d] EXCEPT !.online = b,
               !.vehicle = IF v = NoOne THEN reg.drivers[d].vehicle ELSE v]] \in Registry
<1> DEFINE new == [reg.drivers[d] EXCEPT !.online = b,
                     !.vehicle = IF v = NoOne THEN reg.drivers[d].vehicle ELSE v]
<1>1. reg.drivers[d] \in DriverState
  BY DEF Registry
<1>2. new \in DriverState
  BY <1>1 DEF DriverState
<1> HIDE DEF new
<1>3. [reg EXCEPT !.drivers[d] = new] \in Registry
  BY <1>2 DEF Registry
<1>4. QED
  BY <1>3 DEF new

LEMMA ZoneUpdate ==
  ASSUME NEW reg \in Registry, NEW v \in Vehicles, NEW z \in Zones
  PROVE  [reg EXCEPT !.vehicles[v].zone = z] \in Registry
<1> DEFINE new == [reg.vehicles[v] EXCEPT !.zone = z]
<1>1. new \in VehicleState
  BY DEF Registry, VehicleState
<1>2. [reg EXCEPT !.vehicles[v].zone = z] = [reg EXCEPT !.vehicles[v] = new]
  OBVIOUS
<1> HIDE DEF new
<1>3. QED
  BY <1>1, <1>2 DEF Registry

LEMMA TrackerUpdate ==
  ASSUME NEW reg \in Registry, NEW v \in Vehicles, NEW b \in BOOLEAN
  PROVE  [reg EXCEPT !.vehicles[v].fresh = b] \in Registry
<1> DEFINE new == [reg.vehicles[v] EXCEPT !.fresh = b]
<1>1. new \in VehicleState
  BY DEF Registry, VehicleState
<1>2. [reg EXCEPT !.vehicles[v].fresh = b] = [reg EXCEPT !.vehicles[v] = new]
  OBVIOUS
<1> HIDE DEF new
<1>3. QED
  BY <1>1, <1>2 DEF Registry

-----------------------------------------------------------------------------
(***************************************************************************)
(* Matches are created once and only gather offers and ends.               *)
(***************************************************************************)
Grows ==
  \A m \in MatchIds : Created(m) =>
    /\ matches'[m] # NoMatch /\ matches'[m].ride = matches[m].ride
    /\ matches[m].offered \subseteq matches'[m].offered
    /\ matches[m].ends \subseteq matches'[m].ends

\* A step that does not touch claims, keys and winners.
LEMMA MatchStep ==
  ASSUME DispatchInv, Grows,
         matches' \in [MatchIds -> Match \cup {NoMatch}],
         \A m \in MatchIds : matches'[m].timer => matches'[m].ends = {},
         active' \in [Rides -> MatchIds \cup {None}], ActiveOnMatches',
         registry' \in Registry, exhausted' \subseteq Rides,
         UNCHANGED <<claimKey, claims, winner>>
  PROVE  DispatchInv'
<1>1. DispatchTypeOK'
  BY DEF DispatchInv, DispatchTypeOK
<1>2. CallsOnMatches'
  <2>1. \A c \in Callers : claims[c].phase \in InFlight => claims[c].match \in MatchIds
    BY DEF DispatchInv, DispatchTypeOK, Call, LostCall, NoClaim, InFlight
  <2>2. QED
    BY <2>1 DEF DispatchInv, CallsOnMatches, Grows, Created
<1>3. WinnersEnded' /\ GrantedApart' /\ WonMatchIsGuarded'
  BY DEF DispatchInv, WinnersEnded, GrantedApart, WonMatchIsGuarded, Grows, Created
<1>4. QED
  BY <1>1, <1>2, <1>3 DEF DispatchInv

LEMMA DispatchInvInit == DispatchInit => DispatchInv
<1> SUFFICES ASSUME DispatchInit PROVE DispatchInv
  OBVIOUS
<1>1. registry \in Registry
  BY RegistriesAssumption DEF DispatchInit
<1>2. DispatchTypeOK
  BY <1>1 DEF DispatchInit, DispatchTypeOK, NoMatch
<1>3. QED
  BY <1>2 DEF DispatchInit, DispatchInv, CallsOnMatches, ActiveOnMatches, WinnersEnded, GrantedApart,
              WonMatchIsGuarded, InFlight, NoClaim, Created

\* What the invariant says of single matches and claims.
LEMMA Facts ==
  ASSUME DispatchInv
  PROVE  /\ matches \in [MatchIds -> Match \cup {NoMatch}]
         /\ \A m \in MatchIds : Created(m) => matches[m] \in Match
         /\ \A m \in MatchIds : matches[m].timer => Created(m) /\ matches[m].ends = {}
         /\ active \in [Rides -> MatchIds \cup {None}]
         /\ \A r \in Rides : active[r] # None =>
              active[r] \in MatchIds /\ Created(active[r]) /\ matches[active[r]].ride = r
         /\ claims \in [Callers -> {NoClaim} \cup Call \cup LostCall]
         /\ \A c \in Callers : claims[c].phase \in InFlight => claims[c] \in Call
         /\ registry \in Registry /\ exhausted \subseteq Rides
BY DEF DispatchInv, DispatchTypeOK, ActiveOnMatches, Created, NoMatch, NoClaim, Call, LostCall, InFlight

LEMMA StartMatchingInv ==
  ASSUME DispatchInv, NEW r \in Rides, NEW late \in 0..MaxLate, StartMatching(r, late)
  PROVE  DispatchInv'
<1>1. CASE UNCHANGED <<matches, active>>
  <2>1. Grows /\ ActiveOnMatches'
    BY <1>1, Facts DEF Grows, Created, DispatchInv, ActiveOnMatches
  <2>2. exhausted' \subseteq Rides
    BY Facts DEF StartMatching
  <2>3. QED
    BY <1>1, <2>1, <2>2, Facts, MatchStep DEF StartMatching
<1>2. CASE ~UNCHANGED <<matches, active>>
  <2> DEFINE new == [ride |-> r, zones |-> registry.zones, round |-> 0, age |-> late,
                     offered |-> {}, timer |-> FALSE, ends |-> {}]
             match == RunRound(new, late)
  <2>1. PICK m \in MatchIds :
          /\ ~Created(m)
          /\ matches' = [matches EXCEPT ![m] = match]
          /\ active' = [active EXCEPT ![r] = m]
    BY <1>2 DEF StartMatching
  <2>2. UNCHANGED <<claimKey, claims, registry, winner, exhausted>>
    BY <1>2 DEF StartMatching
  <2>3. new \in Match /\ new.ends = {} /\ new.ride = r /\ late \in Nat
    BY Facts DEF Match, Registry
  <2> HIDE DEF new
  <2>4. match \in Match /\ match.ride = r /\ match.ends = {}
    BY <2>3, RunRoundType
  <2> HIDE DEF match
  <2>5. /\ matches' \in [MatchIds -> Match \cup {NoMatch}]
        /\ matches'[m] = match /\ \A n \in MatchIds \ {m} : matches'[n] = matches[n]
    BY <2>1, <2>4, Facts
  <2>6. Grows
    BY <2>1, <2>5 DEF Grows, Created
  <2>7. \A n \in MatchIds : matches'[n].timer => matches'[n].ends = {}
    BY <2>4, <2>5, Facts
  <2>8. active' \in [Rides -> MatchIds \cup {None}] /\ ActiveOnMatches'
    <3>1. /\ active' \in [Rides -> MatchIds \cup {None}]
          /\ active'[r] = m /\ \A q \in Rides \ {r} : active'[q] = active[q]
      BY <2>1, Facts
    <3>2. \A q \in Rides : active'[q] # None =>
             matches'[active'[q]] # NoMatch /\ matches'[active'[q]].ride = q
      <4> TAKE q \in Rides
      <4>1. CASE q = r
        BY <2>4, <2>5, <3>1, <4>1, NoMatchIsNoMatch
      <4>2. CASE q # r
        BY <2>1, <2>5, <3>1, <4>2, Facts DEF Created
      <4>3. QED
        BY <4>1, <4>2
    <3>3. QED
      BY <3>1, <3>2 DEF ActiveOnMatches, Created
  <2>9. QED
    BY <2>2, <2>5, <2>6, <2>7, <2>8, Facts, MatchStep
<1>3. QED
  BY <1>1, <1>2

LEMMA OnTimeoutInv ==
  ASSUME DispatchInv, NEW m \in MatchIds, NEW late \in 0..MaxLate, OnTimeout(m, late)
  PROVE  DispatchInv'
<1> DEFINE match == matches[m]
           age == match.age + OfferTime + late
<1>1. match \in Match /\ match.ends = {} /\ match.timer /\ Created(m) /\ age \in Nat
  BY Facts DEF OnTimeout, Match
<1>2. UNCHANGED <<claimKey, claims, registry, winner>>
  BY DEF OnTimeout
<1>3. CASE ShouldContinue(age)
  <2>1. matches' = [matches EXCEPT ![m] = RunRound(match, age)] /\ UNCHANGED <<active, exhausted>>
    BY <1>3 DEF OnTimeout
  <2> DEFINE next == RunRound(match, age)
  <2>2. /\ next \in Match /\ next.ride = match.ride /\ next.ends = {}
        /\ match.offered \subseteq next.offered
    BY <1>1, RunRoundType
  <2> HIDE DEF next
  <2>3. /\ matches' \in [MatchIds -> Match \cup {NoMatch}]
        /\ matches'[m] = next /\ \A n \in MatchIds \ {m} : matches'[n] = matches[n]
    BY <2>1, <2>2, Facts DEF next
  <2>4. Grows
    BY <1>1, <2>2, <2>3, NoMatchIsNoMatch DEF Grows, Created
  <2>5. \A n \in MatchIds : matches'[n].timer => matches'[n].ends = {}
    BY <2>2, <2>3, Facts
  <2>6. ActiveOnMatches'
    BY <2>1, <2>4, Facts DEF Grows, ActiveOnMatches, Created
  <2>7. QED
    BY <1>2, <2>1, <2>3, <2>4, <2>5, <2>6, Facts, MatchStep
<1>4. CASE ~ShouldContinue(age)
  <2>1. /\ matches' = [n \in MatchIds |->
             IF n = active[match.ride] THEN Resolved(matches[n], "exhausted")
             ELSE IF n = m THEN [match EXCEPT !.timer = FALSE] ELSE matches[n]]
        /\ active' = [active EXCEPT ![match.ride] = None]
        /\ exhausted' = exhausted \cup {match.ride}
    BY <1>4 DEF OnTimeout
  <2>2. match.ride \in Rides
    BY <1>1 DEF Match
  <2>3. \A n \in MatchIds :
          \/ matches'[n] = matches[n] /\ n # m
          \/ /\ Created(n) /\ matches'[n] \in Match /\ matches'[n].ride = matches[n].ride
             /\ matches'[n].offered = matches[n].offered /\ ~matches'[n].timer
             /\ matches[n].ends \subseteq matches'[n].ends
    <3> TAKE n \in MatchIds
    <3>1. CASE n = active[match.ride]
      <4>1. Created(n) /\ matches[n] \in Match
        BY <2>2, <3>1, Facts
      <4>2. matches'[n] = Resolved(matches[n], "exhausted")
        BY <2>1, <3>1
      <4>3. QED
        BY <4>1, <4>2, ResolvedType, ZenonT(40)
    <3>2. CASE n # active[match.ride] /\ n = m
      <4>1. matches'[n] = [match EXCEPT !.timer = FALSE]
        BY <2>1, <3>2
      <4>2. QED
        BY <1>1, <3>2, <4>1, ZenonT(40) DEF Match
    <3>3. CASE n # active[match.ride] /\ n # m
      BY <2>1, <3>3
    <3>4. QED
      BY <3>1, <3>2, <3>3
  <2>4. matches' \in [MatchIds -> Match \cup {NoMatch}]
    <3>1. \A n \in MatchIds : matches'[n] \in Match \cup {NoMatch}
      BY <2>3, Facts
    <3>2. QED
      BY <2>1, <3>1
  <2>5. Grows
    BY <2>3, NoMatchIsNoMatch DEF Grows, Created
  <2>6. \A n \in MatchIds : matches'[n].timer => matches'[n].ends = {}
    BY <2>3, Facts
  <2>7. active' \in [Rides -> MatchIds \cup {None}] /\ ActiveOnMatches'
    BY <2>1, <2>2, <2>5, Facts DEF Grows, ActiveOnMatches, Created
  <2>8. exhausted' \subseteq Rides
    BY <2>1, <2>2, Facts
  <2>9. QED
    BY <1>2, <2>4, <2>5, <2>6, <2>7, <2>8, Facts, MatchStep
<1>5. QED
  BY <1>3, <1>4

LEMMA RideCancelledInv ==
  ASSUME DispatchInv, NEW r \in Rides, NEW d \in Drivers \cup {NoOne}, RideCancelled(r, d)
  PROVE  DispatchInv'
<1>1. UNCHANGED <<claimKey, claims, winner, exhausted>> /\ registry' \in Registry
  <2>1. registry \in Registry
    BY Facts
  <2>2. CASE d = NoOne
    BY <2>1, <2>2 DEF RideCancelled
  <2>3. CASE d # NoOne
    BY <2>1, <2>3, RideUpdate DEF RideCancelled
  <2>4. QED
    BY <2>2, <2>3 DEF RideCancelled
<1>2. CASE active[r] = None
  <2>1. UNCHANGED <<matches, active>>
    BY <1>2 DEF RideCancelled
  <2>2. Grows /\ ActiveOnMatches'
    BY <2>1, Facts DEF Grows, Created, DispatchInv, ActiveOnMatches
  <2>3. QED
    BY <1>1, <2>1, <2>2, Facts, MatchStep
<1>3. CASE active[r] # None
  <2> DEFINE m == active[r]
             next == Resolved(matches[m], "cancelled")
  <2>1. m \in MatchIds /\ Created(m) /\ matches[m] \in Match /\ matches[m].ride = r
    BY <1>3, Facts
  <2>2. /\ next \in Match /\ next.ride = r /\ next.offered = matches[m].offered
        /\ matches[m].ends \subseteq next.ends /\ next.timer = FALSE
    BY <2>1, ResolvedType
  <2>3. matches' = [matches EXCEPT ![m] = next] /\ active' = [active EXCEPT ![r] = None]
    BY <1>3, <2>1 DEF RideCancelled, Resolve
  <2> HIDE DEF next, m
  <2>4. /\ matches' \in [MatchIds -> Match \cup {NoMatch}]
        /\ matches'[m] = next /\ \A n \in MatchIds \ {m} : matches'[n] = matches[n]
    BY <2>1, <2>2, <2>3, Facts
  <2>5. Grows
    BY <2>1, <2>2, <2>4, NoMatchIsNoMatch DEF Grows, Created
  <2>6. \A n \in MatchIds : matches'[n].timer => matches'[n].ends = {}
    BY <2>2, <2>4, Facts
  <2>7. active' \in [Rides -> MatchIds \cup {None}] /\ ActiveOnMatches'
    BY <2>3, <2>5, Facts DEF Grows, ActiveOnMatches, Created
  <2>8. QED
    BY <1>1, <2>4, <2>5, <2>6, <2>7, Facts, MatchStep
<1>4. QED
  BY <1>2, <1>3

\* A step of the registry alone.
LEMMA RegistryStep ==
  ASSUME DispatchInv, registry' \in Registry,
         UNCHANGED <<matches, active, claimKey, claims, winner, exhausted>>
  PROVE  DispatchInv'
<1>1. Grows /\ ActiveOnMatches'
  BY Facts DEF Grows, Created, DispatchInv, ActiveOnMatches
<1>2. QED
  BY <1>1, Facts, MatchStep

LEMMA RestartInv ==
  ASSUME DispatchInv, Restart
  PROVE  DispatchInv'
<1>1. /\ matches' = [m \in MatchIds |->
           IF Unresolved(m) THEN [matches[m] EXCEPT !.ends = {"crashed"}, !.timer = FALSE]
                            ELSE matches[m]]
      /\ active' = [r \in Rides |-> None] /\ claims' = [c \in Callers |-> NoClaim]
      /\ registry' = EmptyRegistry /\ UNCHANGED <<claimKey, winner, exhausted>>
  BY DEF Restart
<1>2. \A m \in MatchIds :
        \/ matches'[m] = matches[m] /\ ~matches[m].timer
        \/ /\ Created(m) /\ matches'[m] \in Match /\ ~matches'[m].timer /\ matches[m].ends = {}
  <2> TAKE m \in MatchIds
  <2>1. CASE Unresolved(m)
    <3>1. matches[m] \in Match /\ matches[m].ends = {} /\ Created(m)
      BY <2>1, Facts DEF Unresolved
    <3>2. matches'[m] = [matches[m] EXCEPT !.ends = {"crashed"}, !.timer = FALSE]
      BY <1>1, <2>1
    <3>3. QED
      BY <3>1, <3>2, ZenonT(40) DEF Match
  <2>2. CASE ~Unresolved(m)
    BY <1>1, <2>2, Facts DEF Unresolved
  <2>3. QED
    BY <2>1, <2>2
<1>3. matches' \in [MatchIds -> Match \cup {NoMatch}]
  <2>1. \A m \in MatchIds : matches'[m] \in Match \cup {NoMatch}
    BY <1>2, Facts
  <2>2. QED
    BY <1>1, <2>1
<1>4. EmptyRegistry \in Registry
  BY DEF EmptyRegistry, Registry, DriverState, VehicleState
<1>5. DispatchTypeOK'
  BY <1>1, <1>2, <1>3, <1>4 DEF DispatchInv, DispatchTypeOK
<1>6. WinnersEnded'
  BY <1>1, <1>2 DEF DispatchInv, WinnersEnded, Created
<1>7. QED
  BY <1>1, <1>5, <1>6 DEF DispatchInv, CallsOnMatches, ActiveOnMatches, GrantedApart,
                          WonMatchIsGuarded, NoClaim, InFlight

-----------------------------------------------------------------------------
(***************************************************************************)
(* claim()                                                                 *)
(***************************************************************************)

\* A step of one claim that leaves matches, projections and winners alone.
LEMMA ClaimStepInv ==
  ASSUME DispatchInv, NEW c \in Callers, NEW call \in {NoClaim} \cup Call \cup LostCall,
         claims' = [claims EXCEPT ![c] = call],
         claimKey' \in [Rides -> Drivers \cup {NoOne}],
         \A r \in Rides : claimKey[r] # NoOne => claimKey'[r] # NoOne,
         call.phase \in InFlight =>
           /\ Created(call.match) /\ matches[call.match].ride = call.ride
           /\ call.driver \in matches[call.match].offered
           /\ KeyOutlastsClaims => winner[call.match] = NoOne,
         call.phase = "granted" =>
           /\ claimKey[call.ride] = NoOne /\ claimKey'[call.ride] # NoOne,
         UNCHANGED <<matches, active, registry, winner, exhausted>>
  PROVE  DispatchInv'
<1>1. \A b \in Callers : claims'[b] = IF b = c THEN call ELSE claims[b]
  BY Facts
<1>2. \A b \in Callers : claims[b].phase \in InFlight => claims[b].ride \in Rides
  BY Facts DEF Call
<1>3. DispatchTypeOK'
  BY DEF DispatchInv, DispatchTypeOK
<1>4. CallsOnMatches' /\ ActiveOnMatches' /\ WinnersEnded'
  BY <1>1 DEF DispatchInv, CallsOnMatches, ActiveOnMatches, WinnersEnded, Created
<1>5. WonMatchIsGuarded'
  BY <1>1, <1>2 DEF DispatchInv, WonMatchIsGuarded
<1>6. GrantedApart'
  BY <1>1 DEF DispatchInv, GrantedApart, WonMatchIsGuarded, InFlight
<1>7. QED
  BY <1>3, <1>4, <1>5, <1>6 DEF DispatchInv

LEMMA LoseInv ==
  ASSUME DispatchInv, NEW c \in Callers, claims[c].phase \in InFlight, Lose(c),
         UNCHANGED <<matches, active, claimKey, registry, winner, exhausted>>
  PROVE  DispatchInv'
<1> DEFINE call == [phase |-> "lost", ride |-> claims[c].ride, driver |-> claims[c].driver]
<1>1. call \in LostCall /\ call.phase \notin InFlight /\ call.phase # "granted"
  BY Facts DEF Call, LostCall, InFlight
<1>2. claims' = [claims EXCEPT ![c] = call]
  BY DEF Lose
<1>3. claimKey \in [Rides -> Drivers \cup {NoOne}]
  BY DEF DispatchInv, DispatchTypeOK
<1> HIDE DEF call
<1>4. QED
  BY <1>1, <1>2, <1>3, ClaimStepInv

LEMMA ClaimBegunInv ==
  ASSUME DispatchInv, NEW c \in Callers, NEW r \in Rides, NEW d \in Drivers, Claim(c, r, d)
  PROVE  DispatchInv'
<1> DEFINE m == active[r]
           open == m # None /\ (m # None => matches[m].ends = {} /\ d \in matches[m].offered)
           call == IF open THEN [phase |-> "sent", ride |-> r, driver |-> d, match |-> m]
                           ELSE [phase |-> "lost", ride |-> r, driver |-> d]
<1>1. claims' = [claims EXCEPT ![c] = call]
  BY DEF Claim
<1>2. UNCHANGED <<matches, active, claimKey, registry, winner, exhausted>>
  BY DEF Claim
<1>3. claimKey \in [Rides -> Drivers \cup {NoOne}]
  BY DEF DispatchInv, DispatchTypeOK
<1>4. CASE open
  <2>1. m \in MatchIds /\ Created(m) /\ matches[m].ride = r /\ d \in matches[m].offered
    BY <1>4, Facts
  <2>2. winner[m] = NoOne
    BY <1>4, <2>1 DEF DispatchInv, WinnersEnded
  <2> DEFINE sent == [phase |-> "sent", ride |-> r, driver |-> d, match |-> m]
  <2>3. /\ sent \in Call /\ sent.phase # "granted" /\ sent.match = m /\ sent.ride = r
        /\ sent.driver = d
    BY <2>1 DEF Call
  <2>4. claims' = [claims EXCEPT ![c] = sent]
    BY <1>1, <1>4
  <2> HIDE DEF sent
  <2>5. QED
    BY <1>2, <1>3, <2>1, <2>2, <2>3, <2>4, ClaimStepInv
<1>5. CASE ~open
  <2> DEFINE lost == [phase |-> "lost", ride |-> r, driver |-> d]
  <2>1. lost \in LostCall /\ lost.phase \notin InFlight /\ lost.phase # "granted"
    BY DEF LostCall, InFlight
  <2>2. claims' = [claims EXCEPT ![c] = lost]
    BY <1>1, <1>5
  <2> HIDE DEF lost
  <2>3. QED
    BY <1>2, <1>3, <2>1, <2>2, ClaimStepInv
<1>6. QED
  BY <1>4, <1>5

LEMMA TryClaimInv ==
  ASSUME DispatchInv, NEW c \in Callers, TryClaim(c)
  PROVE  DispatchInv'
<1> DEFINE r == claims[c].ride
<1>1. /\ claims[c] \in Call /\ claims[c].phase = "sent" /\ r \in Rides /\ claims[c].driver \in Drivers
      /\ claims[c].phase \in InFlight
      /\ UNCHANGED <<matches, active, registry, winner, exhausted>>
  BY Facts DEF TryClaim, Call, InFlight
<1>2. CASE claimKey[r] = NoOne
  <2> DEFINE call == [claims[c] EXCEPT !.phase = "granted"]
  <2>1. claimKey' = [claimKey EXCEPT ![r] = claims[c].driver] /\ claims' = [claims EXCEPT ![c] = call]
    BY <1>2, Facts DEF TryClaim
  <2>2. /\ claimKey' \in [Rides -> Drivers \cup {NoOne}] /\ claimKey'[r] # NoOne
        /\ \A q \in Rides : claimKey[q] # NoOne => claimKey'[q] # NoOne
    BY <1>1, <2>1 DEF DispatchInv, DispatchTypeOK
  <2>3. /\ call \in Call /\ call.ride = r /\ call.match = claims[c].match
        /\ call.driver = claims[c].driver /\ call.phase = "granted"
    BY <1>1 DEF Call
  <2>4. KeyOutlastsClaims => winner[claims[c].match] = NoOne
    BY <1>1, <1>2 DEF DispatchInv, WonMatchIsGuarded
  <2>5. /\ Created(claims[c].match) /\ matches[claims[c].match].ride = r
        /\ claims[c].driver \in matches[claims[c].match].offered
    BY <1>1 DEF DispatchInv, CallsOnMatches
  <2> HIDE DEF call
  <2>6. QED
    BY <1>1, <1>2, <2>1, <2>2, <2>3, <2>4, <2>5, ClaimStepInv
<1>3. CASE claimKey[r] # NoOne
  BY <1>1, <1>3, LoseInv DEF TryClaim
<1>4. QED
  BY <1>2, <1>3

LEMMA AnswerInv ==
  ASSUME DispatchInv, NEW c \in Callers, Answer(c)
  PROVE  DispatchInv'
<1>1. NoClaim.phase \notin InFlight /\ NoClaim.phase # "granted" /\ NoClaim \in {NoClaim}
  BY DEF NoClaim, InFlight
<1>2. claimKey \in [Rides -> Drivers \cup {NoOne}]
  BY DEF DispatchInv, DispatchTypeOK
<1>3. QED
  BY <1>1, <1>2, ClaimStepInv DEF Answer

\* Why nobody else is left to win: a granted claim is alone on its ride's key.
LEMMA ClaimGrantedInv ==
  ASSUME DispatchInv, NEW c \in Callers, ClaimGranted(c)
  PROVE  DispatchInv'
<1> DEFINE m == claims[c].match
           d == claims[c].driver
<1>1. /\ claims[c] \in Call /\ claims[c].phase = "granted" /\ claims[c].phase \in InFlight
      /\ m \in MatchIds /\ d \in Drivers /\ claims[c].ride \in Rides
      /\ Created(m) /\ matches[m] \in Match /\ matches[m].ride = claims[c].ride
      /\ KeyOutlastsClaims => claimKey[claims[c].ride] # NoOne
  BY Facts DEF ClaimGranted, Call, InFlight, DispatchInv, CallsOnMatches, WonMatchIsGuarded
<1>2. CASE ~HasAssignment(d)
  BY <1>1, <1>2, LoseInv DEF ClaimGranted
<1>3. CASE HasAssignment(d)
  <2> DEFINE next == Resolved(matches[m], "won")
             call == [claims[c] EXCEPT !.phase = "won"]
  <2>1. /\ matches' = [matches EXCEPT ![m] = next]
        /\ active' = [active EXCEPT ![claims[c].ride] = None]
        /\ registry' = [registry EXCEPT !.drivers[d].onRide = TRUE]
        /\ winner' = [winner EXCEPT ![m] = d]
        /\ claims' = [claims EXCEPT ![c] = call]
        /\ UNCHANGED <<claimKey, exhausted>>
    BY <1>1, <1>3, Facts DEF ClaimGranted, Resolve
  <2>2. /\ next \in Match /\ next.ride = claims[c].ride /\ next.offered = matches[m].offered
        /\ next.ends = matches[m].ends \cup {"won"} /\ next.timer = FALSE
    BY <1>1, ResolvedType
  <2>3. call \in Call /\ call.phase = "won" /\ call.phase \notin InFlight
    BY <1>1 DEF Call, InFlight
  <2> HIDE DEF next, call
  <2>4. /\ matches' \in [MatchIds -> Match \cup {NoMatch}]
        /\ matches'[m] = next /\ \A n \in MatchIds \ {m} : matches'[n] = matches[n]
    BY <1>1, <2>1, <2>2, Facts
  <2>5. /\ winner' \in [MatchIds -> Drivers \cup {NoOne}]
        /\ \A n \in MatchIds : winner'[n] = IF n = m THEN d ELSE winner[n]
    BY <1>1, <2>1 DEF DispatchInv, DispatchTypeOK
  <2>6. \A b \in Callers : claims'[b] = IF b = c THEN call ELSE claims[b]
    BY <2>1, Facts
  <2>7. Grows
    BY <1>1, <2>2, <2>4, NoMatchIsNoMatch DEF Grows, Created
  <2>8. DispatchTypeOK'
    <3>1. registry' \in Registry
      BY <1>1, <2>1, Facts, RideUpdate
    <3>2. claims' \in [Callers -> {NoClaim} \cup Call \cup LostCall]
      BY <2>1, <2>3, Facts
    <3>3. active' \in [Rides -> MatchIds \cup {None}]
      BY <1>1, <2>1, Facts
    <3>4. \A n \in MatchIds : matches'[n].timer => matches'[n].ends = {}
      BY <2>2, <2>4, Facts
    <3>5. QED
      BY <2>1, <2>4, <2>5, <3>1, <3>2, <3>3, <3>4 DEF DispatchInv, DispatchTypeOK
  <2>9. CallsOnMatches'
    <3>1. \A b \in Callers : claims'[b].phase \in InFlight =>
            claims'[b] = claims[b] /\ claims[b].match \in MatchIds
      BY <2>3, <2>6, Facts DEF Call
    <3>2. QED
      BY <2>7, <3>1 DEF DispatchInv, CallsOnMatches, Grows, Created
  <2>10. ActiveOnMatches'
    BY <1>1, <2>1, <2>7, Facts DEF Grows, ActiveOnMatches, Created
  <2>11. WinnersEnded'
    BY <1>1, <2>2, <2>4, <2>5, NoMatchIsNoMatch DEF DispatchInv, WinnersEnded, Created
  <2>12. GrantedApart'
    BY <2>3, <2>6, <1>1 DEF DispatchInv, GrantedApart, InFlight
  <2>13. WonMatchIsGuarded'
    <3>1. ASSUME KeyOutlastsClaims
          PROVE  \A b \in Callers \ {c} : claims[b].phase \in InFlight /\ claims[b].match = m =>
                   claims[b].phase = "sent" /\ claimKey[claims[b].ride] # NoOne
      <4> SUFFICES ASSUME NEW b \in Callers \ {c}, claims[b].phase \in InFlight, claims[b].match = m
                   PROVE  claims[b].phase = "sent" /\ claimKey[claims[b].ride] # NoOne
        OBVIOUS
      <4>1. claims[b].ride = claims[c].ride
        BY <1>1 DEF DispatchInv, CallsOnMatches
      <4>2. claims[b].phase # "granted"
        BY <1>1, <3>1, <4>1 DEF DispatchInv, GrantedApart
      <4>3. QED
        BY <1>1, <3>1, <4>1, <4>2 DEF InFlight
    <3>2. \A b \in Callers : claims'[b].phase \in InFlight => b # c /\ claims'[b] = claims[b]
      BY <2>3, <2>6
    <3>3. UNCHANGED claimKey
      BY <2>1
    <3>4. \A b \in Callers : claims'[b].phase \in InFlight => claims[b].match \in MatchIds
      BY <3>2, Facts DEF Call
    <3>5. QED
      BY <2>5, <3>1, <3>2, <3>3, <3>4 DEF DispatchInv, WonMatchIsGuarded
  <2>14. QED
    BY <2>8, <2>9, <2>10, <2>11, <2>12, <2>13 DEF DispatchInv
<1>4. QED
  BY <1>2, <1>3

LEMMA ExpireKeyInv ==
  ASSUME DispatchInv, NEW r \in Rides, ExpireKey(r)
  PROVE  DispatchInv'
<1>1. /\ claimKey' = [claimKey EXCEPT ![r] = NoOne]
      /\ KeyOutlastsClaims =>
           \A c \in Callers : claims[c].phase \in InFlight => claims[c].ride # r
      /\ UNCHANGED <<matches, active, claims, registry, winner, exhausted>>
  BY DEF ExpireKey, UnderWay
<1>2. DispatchTypeOK'
  BY <1>1 DEF DispatchInv, DispatchTypeOK
<1>3. WonMatchIsGuarded'
  <2>1. KeyOutlastsClaims => \A c \in Callers : claims[c].phase \in InFlight =>
          claims[c].ride \in Rides /\ claimKey'[claims[c].ride] = claimKey[claims[c].ride]
    BY <1>1, Facts DEF Call, DispatchInv, DispatchTypeOK
  <2>2. QED
    BY <1>1, <2>1 DEF DispatchInv, WonMatchIsGuarded
<1>4. QED
  BY <1>1, <1>2, <1>3 DEF DispatchInv, CallsOnMatches, ActiveOnMatches, WinnersEnded,
                          GrantedApart, Created

-----------------------------------------------------------------------------
(***************************************************************************)
(* The steps of the service, whoever feeds it: to RideDispatch the event   *)
(* ride.cancelled might also name a driver.                                *)
(***************************************************************************)
DispatchStep ==
  DispatchNext \/ \E r \in Rides, d \in Drivers : RideCancelled(r, d)

LEMMA DispatchInvStep == DispatchInv /\ [DispatchStep]_dispatchVars => DispatchInv'
<1> SUFFICES ASSUME DispatchInv, [DispatchStep]_dispatchVars PROVE DispatchInv'
  OBVIOUS
<1>1. CASE Matching
  <2>1. ASSUME NEW d \in Drivers, RideCompleted(d)
        PROVE  DispatchInv'
    <3>1. registry' \in Registry
      <4>1. registry' = registry \/ registry' = [registry EXCEPT !.drivers[d].onRide = FALSE]
        BY <2>1 DEF RideCompleted
      <4>2. [registry EXCEPT !.drivers[d].onRide = FALSE] \in Registry
        BY Facts, RideUpdate
      <4>3. QED
        BY <4>1, <4>2, Facts
    <3>2. QED
      BY <2>1, <3>1, RegistryStep DEF RideCompleted
  <2>2. QED
    BY <1>1, <2>1, StartMatchingInv, OnTimeoutInv, RideCancelledInv DEF Matching
<1>2. CASE Claiming
  <2>1. ASSUME NEW c \in Callers, ClaimFails(c)
        PROVE  DispatchInv'
    BY <2>1, LoseInv DEF ClaimFails
  <2>2. QED
    BY <1>2, <2>1, ClaimBegunInv, TryClaimInv, ClaimGrantedInv, AnswerInv, ExpireKeyInv DEF Claiming
<1>3. CASE Projecting
  <2>1. registry' \in Registry
    <3>1. registry \in Registry
      BY Facts
    <3>2. ASSUME NEW d \in Drivers, NEW v \in Vehicles \cup {NoOne}, NEW on \in BOOLEAN,
                 SetOnline(d, v, on)
          PROVE  registry' \in Registry
      BY <3>1, <3>2, OnlineUpdate DEF SetOnline, Observe
    <3>3. ASSUME NEW v \in Vehicles, NEW z \in Zones, SetVehicleZone(v, z)
          PROVE  registry' \in Registry
      BY <3>1, <3>3, ZoneUpdate DEF SetVehicleZone, Observe
    <3>4. ASSUME NEW v \in Vehicles, NEW fresh \in BOOLEAN, SetTracker(v, fresh)
          PROVE  registry' \in Registry
      BY <3>1, <3>4, TrackerUpdate DEF SetTracker, Observe
    <3>5. ASSUME NEW zs \in SUBSET Zones, RefreshZones(zs)
          PROVE  registry' \in Registry
      BY <3>1, <3>5 DEF RefreshZones, Observe, Registry
    <3>6. QED
      BY <1>3, <3>2, <3>3, <3>4, <3>5 DEF Projecting
  <2>2. UNCHANGED <<matches, active, claimKey, claims, winner, exhausted>>
    BY <1>3 DEF Projecting, SetOnline, SetVehicleZone, SetTracker, RefreshZones, Observe
  <2>3. QED
    BY <2>1, <2>2, RegistryStep
<1>4. CASE Restart
  BY <1>4, RestartInv
<1>5. CASE UNCHANGED dispatchVars
  BY <1>5, Facts, RegistryStep DEF dispatchVars
<1>6. QED
  BY <1>1, <1>2, <1>3, <1>4, <1>5, RideCancelledInv DEF DispatchStep, DispatchNext

LEMMA DispatchInvNext == DispatchInv /\ [DispatchNext]_dispatchVars => DispatchInv'
BY DispatchInvStep DEF DispatchStep

\* Every reachable state is well typed; a match whose timer runs is unresolved.
THEOREM DispatchTypeCorrect == DispatchSpec => []DispatchTypeOK
<1>1. DispatchSpec => []DispatchInv
  BY DispatchInvInit, DispatchInvNext, PTL DEF DispatchSpec
<1>2. DispatchInv => DispatchTypeOK
  BY DEF DispatchInv
<1>3. QED
  BY <1>1, <1>2, PTL

\* No claim under way on a match that has been won can win as well, while keys
\* outlast claims.
THEOREM WonMatchStaysGuarded == DispatchSpec => []WonMatchIsGuarded
<1>1. DispatchSpec => []DispatchInv
  BY DispatchInvInit, DispatchInvNext, PTL DEF DispatchSpec
<1>2. DispatchInv => WonMatchIsGuarded
  BY DEF DispatchInv
<1>3. QED
  BY <1>1, <1>2, PTL

-----------------------------------------------------------------------------
(***************************************************************************)
(* What a step does to offers and winners: nothing (it may end matches),   *)
(* one round of one undecided match, or one win.                           *)
(***************************************************************************)
OnlyEnds ==
  \A m \in MatchIds :
    \/ matches'[m] = matches[m]
    \/ /\ Created(m) /\ matches'[m] # NoMatch /\ ~matches'[m].timer
       /\ matches'[m].offered = matches[m].offered /\ matches'[m].ride = matches[m].ride

RoundOf(m) ==
  /\ winner[m] = NoOne
  /\ matches'[m] \in Match
  /\ Created(m) => /\ matches[m].offered \subseteq matches'[m].offered
                   /\ matches'[m].ride = matches[m].ride
  /\ \A n \in MatchIds \ {m} : matches'[n] = matches[n]

WinOf(m, d) ==
  /\ KeyOutlastsClaims => winner[m] = NoOne
  /\ Created(m) /\ d \in matches[m].offered
  /\ winner' = [winner EXCEPT ![m] = d]

LEMMA StartMatchingShape ==
  ASSUME DispatchInv, NEW r \in Rides, NEW late \in 0..MaxLate, StartMatching(r, late)
  PROVE  UNCHANGED winner /\ (OnlyEnds \/ \E m \in MatchIds : RoundOf(m))
<1>1. CASE UNCHANGED matches
  BY <1>1 DEF StartMatching, OnlyEnds
<1>2. CASE ~UNCHANGED matches
  <2> DEFINE new == [ride |-> r, zones |-> registry.zones, round |-> 0, age |-> late,
                     offered |-> {}, timer |-> FALSE, ends |-> {}]
             match == RunRound(new, late)
  <2>1. PICK m \in MatchIds : ~Created(m) /\ matches' = [matches EXCEPT ![m] = match]
    BY <1>2 DEF StartMatching
  <2>2. new \in Match /\ new.ends = {} /\ late \in Nat
    BY Facts DEF Match, Registry
  <2> HIDE DEF new
  <2>3. match \in Match
    BY <2>2, RunRoundType
  <2> HIDE DEF match
  <2>4. winner[m] = NoOne
    BY <2>1 DEF DispatchInv, WinnersEnded
  <2>5. RoundOf(m)
    BY <2>1, <2>3, <2>4, Facts DEF RoundOf
  <2>6. QED
    BY <2>5 DEF StartMatching
<1>3. QED
  BY <1>1, <1>2

LEMMA OnTimeoutShape ==
  ASSUME DispatchInv, NEW m \in MatchIds, NEW late \in 0..MaxLate, OnTimeout(m, late)
  PROVE  UNCHANGED winner /\ (OnlyEnds \/ RoundOf(m))
<1> DEFINE match == matches[m]
           age == match.age + OfferTime + late
<1>1. match \in Match /\ match.ends = {} /\ Created(m) /\ age \in Nat
  BY Facts DEF OnTimeout, Match
<1>2. CASE ShouldContinue(age)
  <2> DEFINE next == RunRound(match, age)
  <2>1. matches' = [matches EXCEPT ![m] = next]
    BY <1>2 DEF OnTimeout
  <2>2. /\ next \in Match /\ match.offered \subseteq next.offered
        /\ next.ride = match.ride
    BY <1>1, RunRoundType
  <2>3. winner[m] = NoOne
    BY <1>1 DEF DispatchInv, WinnersEnded
  <2> HIDE DEF next
  <2>4. QED
    BY <2>1, <2>2, <2>3, Facts DEF RoundOf, OnTimeout
<1>3. CASE ~ShouldContinue(age)
  <2>1. matches' = [n \in MatchIds |->
             IF n = active[match.ride] THEN Resolved(matches[n], "exhausted")
             ELSE IF n = m THEN [match EXCEPT !.timer = FALSE] ELSE matches[n]]
    BY <1>3 DEF OnTimeout
  <2>2. match.ride \in Rides
    BY <1>1 DEF Match
  <2>3. ASSUME NEW n \in MatchIds, n = active[match.ride]
        PROVE  /\ Created(n) /\ matches'[n] # NoMatch /\ ~matches'[n].timer
               /\ matches'[n].offered = matches[n].offered
               /\ matches'[n].ride = matches[n].ride
    <3>1. Created(n) /\ matches[n] \in Match
      BY <2>2, <2>3, Facts
    <3>2. matches'[n] = Resolved(matches[n], "exhausted")
      BY <2>1, <2>3
    <3>3. QED
      BY <3>1, <3>2, ResolvedType, NoMatchIsNoMatch, ZenonT(40)
  <2>4. ASSUME m # active[match.ride]
        PROVE  /\ matches'[m] # NoMatch /\ ~matches'[m].timer
               /\ matches'[m].offered = match.offered /\ matches'[m].ride = match.ride
    <3>1. matches'[m] = [match EXCEPT !.timer = FALSE] /\ matches'[m] \in Match
      BY <1>1, <2>1, <2>4 DEF Match
    <3>2. QED
      BY <1>1, <3>1, NoMatchIsNoMatch DEF Match
  <2>5. OnlyEnds
    BY <1>1, <2>1, <2>3, <2>4 DEF OnlyEnds
  <2>6. QED
    BY <2>5 DEF OnTimeout
<1>4. QED
  BY <1>2, <1>3

\* Ending the match that a ride or a claim leads to.
LEMMA ResolveShape ==
  ASSUME DispatchInv, NEW m \in MatchIds, Created(m),
         NEW why \in {"won", "exhausted", "cancelled", "crashed"}, Resolve(m, why)
  PROVE  OnlyEnds
<1> DEFINE next == Resolved(matches[m], why)
<1>1. matches[m] \in Match
  BY Facts
<1>2. /\ next \in Match /\ ~next.timer /\ next.offered = matches[m].offered
      /\ next.ride = matches[m].ride
  BY <1>1, ResolvedType
<1>3. matches' = [matches EXCEPT ![m] = next]
  BY DEF Resolve
<1> HIDE DEF next
<1>4. QED
  BY <1>2, <1>3, Facts, NoMatchIsNoMatch DEF OnlyEnds

LEMMA RestartShape ==
  ASSUME DispatchInv, Restart
  PROVE  UNCHANGED winner /\ OnlyEnds
<1>1. ASSUME NEW m \in MatchIds, Unresolved(m)
      PROVE  /\ Created(m) /\ matches'[m] # NoMatch /\ ~matches'[m].timer
             /\ matches'[m].offered = matches[m].offered
             /\ matches'[m].ride = matches[m].ride
  <2>1. Created(m) /\ matches[m] \in Match
    BY <1>1, Facts DEF Unresolved
  <2>2. matches'[m] = [matches[m] EXCEPT !.ends = {"crashed"}, !.timer = FALSE]
    BY <1>1 DEF Restart
  <2>3. matches'[m] \in Match
    BY <2>1, <2>2 DEF Match
  <2>4. QED
    BY <2>1, <2>2, <2>3, NoMatchIsNoMatch DEF Match
<1>2. \A m \in MatchIds : ~Unresolved(m) => matches'[m] = matches[m]
  BY DEF Restart
<1>3. QED
  BY <1>1, <1>2 DEF OnlyEnds, Restart

LEMMA ClaimGrantedShape ==
  ASSUME DispatchInv, NEW c \in Callers, ClaimGranted(c)
  PROVE  OnlyEnds /\ (UNCHANGED winner \/ \E m \in MatchIds, d \in Drivers : WinOf(m, d))
<1>1. CASE ~HasAssignment(claims[c].driver)
  BY <1>1 DEF ClaimGranted, OnlyEnds
<1>2. CASE HasAssignment(claims[c].driver)
  <2> DEFINE m == claims[c].match
             d == claims[c].driver
  <2>1. /\ claims[c].phase = "granted" /\ claims[c].phase \in InFlight
        /\ m \in MatchIds /\ d \in Drivers
    BY Facts DEF ClaimGranted, Call, InFlight
  <2>2. /\ Created(m) /\ d \in matches[m].offered
        /\ KeyOutlastsClaims => winner[m] = NoOne
    BY <2>1 DEF DispatchInv, CallsOnMatches, WonMatchIsGuarded
  <2>3. Resolve(m, "won") /\ winner' = [winner EXCEPT ![m] = d]
    BY <1>2 DEF ClaimGranted
  <2> HIDE DEF m, d
  <2>4. OnlyEnds
    BY <2>1, <2>2, <2>3, ResolveShape
  <2>5. QED
    BY <2>1, <2>2, <2>3, <2>4 DEF WinOf
<1>3. QED
  BY <1>1, <1>2

LEMMA StepShape ==
  ASSUME DispatchInv, [DispatchStep]_dispatchVars
  PROVE  \/ OnlyEnds /\ UNCHANGED winner
         \/ UNCHANGED winner /\ \E m \in MatchIds : RoundOf(m)
         \/ OnlyEnds /\ \E m \in MatchIds, d \in Drivers : WinOf(m, d)
<1>1. CASE UNCHANGED <<matches, winner>>
  BY <1>1 DEF OnlyEnds
<1>0. ASSUME NEW r \in Rides, NEW d, RideCancelled(r, d)
      PROVE  OnlyEnds /\ UNCHANGED winner
  <2>1. CASE active[r] = None
    BY <1>0, <2>1 DEF RideCancelled, OnlyEnds
  <2>2. CASE active[r] # None
    <3>1. active[r] \in MatchIds /\ Created(active[r]) /\ Resolve(active[r], "cancelled")
      BY <1>0, <2>2, Facts DEF RideCancelled
    <3>2. OnlyEnds
      BY <3>1, ResolveShape
    <3>3. QED
      BY <1>0, <3>2 DEF RideCancelled
  <2>3. QED
    BY <2>1, <2>2
<1>2. CASE Matching
  BY <1>0, <1>1, <1>2, StartMatchingShape, OnTimeoutShape DEF Matching, RideCompleted
<1>3. CASE Claiming
  BY <1>1, <1>3, ClaimGrantedShape DEF Claiming, Claim, TryClaim, ClaimFails, Answer, ExpireKey
<1>4. CASE Projecting
  BY <1>1, <1>4 DEF Projecting, SetOnline, SetVehicleZone, SetTracker, RefreshZones, Observe
<1>5. CASE Restart
  BY <1>5, RestartShape
<1>6. QED
  BY <1>0, <1>1, <1>2, <1>3, <1>4, <1>5 DEF DispatchStep, DispatchNext, dispatchVars

-----------------------------------------------------------------------------
Offered == [m \in MatchIds |-> IF Created(m) THEN matches[m].offered ELSE {}]

LEMMA InitRefines == DispatchInit => FAW!AbstractInit
BY DEF DispatchInit, FAW!AbstractInit, Created

LEMMA StepRefines ==
  ASSUME KeyOutlastsClaims, DispatchInv, DispatchInv', [DispatchStep]_dispatchVars
  PROVE  [FAW!AbstractNext]_<<Offered, winner>>
<1>1. OnlyEnds => UNCHANGED Offered
  BY DEF OnlyEnds, Offered, Created
<1>2. CASE OnlyEnds /\ UNCHANGED winner
  BY <1>1, <1>2
<1>3. CASE UNCHANGED winner /\ \E m \in MatchIds : RoundOf(m)
  <2>1. PICK m \in MatchIds : RoundOf(m)
    BY <1>3
  <2> DEFINE more == matches'[m].offered
  <2>2. more \in SUBSET Drivers /\ matches'[m] # NoMatch
    BY <2>1, NoMatchIsNoMatch DEF RoundOf, Match
  <2>3. Offered' = [Offered EXCEPT ![m] = @ \cup more]
    BY <2>1, <2>2 DEF Offered, RoundOf, Created
  <2> HIDE DEF more
  <2>4. FAW!Offer(m)
    BY <1>3, <2>1, <2>2, <2>3 DEF FAW!Offer, Offered, RoundOf
  <2>5. QED
    BY <2>4 DEF FAW!AbstractNext
<1>4. CASE OnlyEnds /\ \E m \in MatchIds, d \in Drivers : WinOf(m, d)
  <2>1. PICK m \in MatchIds, d \in Drivers : WinOf(m, d)
    BY <1>4
  <2>2. FAW!Win(m, d)
    BY <1>1, <1>4, <2>1 DEF FAW!Win, Offered, WinOf
  <2>3. QED
    BY <2>2 DEF FAW!AbstractNext
<1>5. QED
  BY <1>2, <1>3, <1>4, StepShape

\* Dispatch implements FirstAcceptWins: of the drivers a match was offered to,
\* the first accepted one wins it, and no claim, timer, cancellation, Redis
\* error or restart ever names another -- as long as no claim key expires under
\* a claim that has met it, which the 5 s of claim.store.ts do not guarantee.
THEOREM ImplementsFirstAcceptWins ==
  ASSUME KeyOutlastsClaims
  PROVE  DispatchSpec => FirstAcceptWins
<1>1. DispatchInv /\ DispatchInv' /\ [DispatchNext]_dispatchVars => [FAW!AbstractNext]_<<Offered, winner>>
  BY StepRefines DEF DispatchStep
<1>2. DispatchSpec => FAW!AbstractInit /\ [][FAW!AbstractNext]_<<Offered, winner>>
  BY <1>1, InitRefines, DispatchInvInit, DispatchInvNext, PTL DEF DispatchSpec
<1>3. QED
  BY <1>2, PTL DEF FirstAcceptWins, FAW!AbstractSpec, Offered

-----------------------------------------------------------------------------
(***************************************************************************)
(* The running matches of a ride.  A match that has not ended is its ride's*)
(* active one, unless a late winner made resolve() forget it.              *)
(***************************************************************************)
LateWin(r) == \E k \in MatchIds : Created(k) /\ matches[k].ride = r /\ WonLate(k)

UnendedActive ==
  \A m \in MatchIds, r \in Rides :
    Unresolved(m) /\ matches[m].ride = r => active[r] = m \/ LateWin(r)

\* Whoever won a match is known, so that no match is won twice.
WonHasWinner ==
  \A m \in MatchIds : Created(m) /\ "won" \in matches[m].ends => winner[m] # NoOne

RunInv == WonHasWinner /\ UnendedActive

LEMMA RunInvInit == DispatchInit => RunInv
BY DEF DispatchInit, RunInv, WonHasWinner, UnendedActive, Unresolved, Created

\* A late win is never undone.
LEMMA LateWinStays ==
  ASSUME DispatchInv, Grows, NEW r \in Rides, LateWin(r)
  PROVE  LateWin(r)'
<1>1. PICK k \in MatchIds : Created(k) /\ matches[k].ride = r /\ WonLate(k)
  BY DEF LateWin
<1>2. matches'[k] # NoMatch /\ matches'[k].ride = r /\ matches[k].ends \subseteq matches'[k].ends
  BY <1>1 DEF Grows
<1>3. "won" \in matches'[k].ends /\ matches'[k].ends # {"won"}
  BY <1>1, <1>2 DEF WonLate
<1>4. QED
  BY <1>2, <1>3 DEF LateWin, WonLate, Created

\* A step about one ride: the other rides keep their active match and gain no
\* match, and a match of r that has not ended is active after the step, or was
\* one that had been forgotten before.
LEMMA AboutOneRide ==
  ASSUME DispatchInv, UnendedActive, Grows, NEW r \in Rides,
         \A m \in MatchIds : Unresolved(m)' =>
            /\ matches'[m].ride \in Rides
            /\ matches'[m].ride # r => Unresolved(m) /\ matches[m].ride = matches'[m].ride
            /\ matches'[m].ride = r =>
                 \/ active'[r] = m
                 \/ Unresolved(m) /\ matches[m].ride = r /\ active[r] # m
                 \/ LateWin(r)',
         \A q \in Rides : q # r => active'[q] = active[q]
  PROVE  UnendedActive'
<1> SUFFICES ASSUME NEW m \in MatchIds, NEW q \in Rides, Unresolved(m)', matches'[m].ride = q
             PROVE  active'[q] = m \/ LateWin(q)'
  BY DEF UnendedActive
<1>1. CASE q # r
  <2>1. Unresolved(m) /\ matches[m].ride = q /\ active'[q] = active[q]
    BY <1>1
  <2>2. active[q] = m \/ LateWin(q)
    BY <2>1 DEF UnendedActive
  <2>3. QED
    BY <2>1, <2>2, LateWinStays
<1>2. CASE q = r
  <2>1. Unresolved(m) /\ matches[m].ride = r /\ active[r] # m => LateWin(r)
    BY DEF UnendedActive
  <2>2. QED
    BY <1>2, <2>1, LateWinStays
<1>3. QED
  BY <1>1, <1>2

LEMMA StartMatchingRun ==
  ASSUME DispatchInv, RunInv, NEW r \in Rides, NEW late \in 0..MaxLate, StartMatching(r, late)
  PROVE  RunInv'
<1>1. CASE UNCHANGED <<matches, active>>
  BY <1>1 DEF StartMatching, RunInv, WonHasWinner, UnendedActive, Unresolved, Created, LateWin, WonLate
<1>2. CASE ~UNCHANGED <<matches, active>>
  <2> DEFINE new == [ride |-> r, zones |-> registry.zones, round |-> 0, age |-> late,
                     offered |-> {}, timer |-> FALSE, ends |-> {}]
             match == RunRound(new, late)
  <2>1. PICK m \in MatchIds :
          /\ ~Created(m) /\ active[r] = None
          /\ matches' = [matches EXCEPT ![m] = match]
          /\ active' = [active EXCEPT ![r] = m]
    BY <1>2 DEF StartMatching
  <2>2. UNCHANGED winner
    BY DEF StartMatching
  <2>3. new \in Match /\ new.ends = {} /\ new.ride = r /\ late \in Nat
    BY Facts DEF Match, Registry
  <2> HIDE DEF new
  <2>4. match \in Match /\ match.ride = r /\ match.ends = {}
    BY <2>3, RunRoundType
  <2> HIDE DEF match
  <2>5. matches'[m] = match /\ \A n \in MatchIds \ {m} : matches'[n] = matches[n]
    BY <2>1, Facts
  <2>6. /\ active'[r] = m /\ \A q \in Rides \ {r} : active'[q] = active[q]
    BY <2>1, Facts
  <2>7. Grows
    BY <2>1, <2>5 DEF Grows, Created
  <2>8. WonHasWinner'
    BY <2>2, <2>4, <2>5 DEF RunInv, WonHasWinner, Created
  <2>9. \A n \in MatchIds \ {m} : Unresolved(n)' =>
          /\ Unresolved(n) /\ matches'[n].ride \in Rides /\ matches[n].ride = matches'[n].ride
          /\ n # None
    BY <2>5, Facts, NullAssumption DEF Unresolved, Created, Match
  <2>10. UnendedActive'
    BY <2>1, <2>4, <2>5, <2>6, <2>7, <2>9, AboutOneRide DEF RunInv
  <2>11. QED
    BY <2>8, <2>10 DEF RunInv
<1>3. QED
  BY <1>1, <1>2

LEMMA OnTimeoutRun ==
  ASSUME DispatchInv, RunInv, NEW m \in MatchIds, NEW late \in 0..MaxLate, OnTimeout(m, late)
  PROVE  RunInv'
<1> DEFINE match == matches[m]
           age == match.age + OfferTime + late
           r == match.ride
<1>1. match \in Match /\ match.ends = {} /\ match.timer /\ Created(m) /\ age \in Nat /\ r \in Rides
  BY Facts DEF OnTimeout, Match
<1>2. UNCHANGED winner
  BY DEF OnTimeout
<1>3. CASE ShouldContinue(age)
  <2> DEFINE next == RunRound(match, age)
  <2>1. matches' = [matches EXCEPT ![m] = next] /\ UNCHANGED active
    BY <1>3 DEF OnTimeout
  <2>2. /\ next \in Match /\ next.ride = r /\ next.ends = {}
        /\ match.offered \subseteq next.offered
    BY <1>1, RunRoundType
  <2> HIDE DEF next
  <2>3. matches'[m] = next /\ \A n \in MatchIds \ {m} : matches'[n] = matches[n]
    BY <2>1, Facts
  <2>4. Grows
    BY <1>1, <2>2, <2>3, NoMatchIsNoMatch DEF Grows, Created
  <2>5. \A n \in MatchIds : Unresolved(n)' =>
          Unresolved(n) /\ matches'[n].ride \in Rides /\ matches[n].ride = matches'[n].ride
    BY <1>1, <2>2, <2>3, Facts DEF Unresolved, Created, Match
  <2>6. WonHasWinner'
    BY <1>2, <2>2, <2>3 DEF RunInv, WonHasWinner, Created
  <2> HIDE DEF r, match
  <2>7. UnendedActive'
    BY <1>1, <2>1, <2>4, <2>5, AboutOneRide DEF RunInv
  <2>8. QED
    BY <2>6, <2>7 DEF RunInv
<1>4. CASE ~ShouldContinue(age)
  <2>1. /\ matches' = [n \in MatchIds |->
             IF n = active[r] THEN Resolved(matches[n], "exhausted")
             ELSE IF n = m THEN [match EXCEPT !.timer = FALSE] ELSE matches[n]]
        /\ active' = [active EXCEPT ![r] = None]
    BY <1>4 DEF OnTimeout
  <2>2. ASSUME NEW n \in MatchIds
        PROVE  \/ /\ n = active[r] /\ Created(n) /\ matches'[n] # NoMatch
                  /\ matches'[n].ride = matches[n].ride /\ matches'[n].offered = matches[n].offered
                  /\ matches'[n].ends = matches[n].ends \cup {"exhausted"}
               \/ /\ n # active[r] /\ (Created(n) <=> matches'[n] # NoMatch)
                  /\ matches'[n].ends = matches[n].ends
                  /\ Created(n) => /\ matches'[n].ride = matches[n].ride
                                   /\ matches'[n].offered = matches[n].offered
    <3>1. CASE n = active[r]
      <4>1. Created(n) /\ matches[n] \in Match
        BY <1>1, <3>1, Facts
      <4>2. matches'[n] = Resolved(matches[n], "exhausted")
        BY <2>1, <3>1
      <4>3. /\ matches'[n] \in Match /\ matches'[n].ride = matches[n].ride
            /\ matches'[n].offered = matches[n].offered
            /\ matches'[n].ends = matches[n].ends \cup {"exhausted"}
        BY <4>1, <4>2, ResolvedType, ZenonT(40)
      <4>4. QED
        BY <3>1, <4>1, <4>3, NoMatchIsNoMatch
    <3>2. CASE n # active[r] /\ n = m
      <4>1. matches'[n] = [match EXCEPT !.timer = FALSE]
        BY <2>1, <3>2
      <4>2. matches'[n] \in Match
        BY <1>1, <4>1 DEF Match
      <4>3. QED
        BY <1>1, <3>2, <4>1, <4>2, NoMatchIsNoMatch DEF Match
    <3>3. CASE n # active[r] /\ n # m
      BY <2>1, <3>3 DEF Created
    <3>4. QED
      BY <3>1, <3>2, <3>3
  <2>3. Grows
    BY <2>2 DEF Grows
  <2>4. WonHasWinner'
    BY <1>2, <2>2 DEF RunInv, WonHasWinner, Created
  <2>5. ASSUME NEW n \in MatchIds, Unresolved(n)'
        PROVE  /\ Unresolved(n) /\ n # active[r] /\ matches[n].ride \in Rides
               /\ matches[n].ride = matches'[n].ride
    <3>1. matches'[n] # NoMatch /\ matches'[n].ends = {}
      BY <2>5 DEF Unresolved, Created
    <3>2. n # active[r] /\ Unresolved(n) /\ matches[n].ride = matches'[n].ride
      BY <2>2, <3>1 DEF Unresolved
    <3>3. QED
      BY <3>2, Facts DEF Unresolved, Match
  <2>6. \A q \in Rides : q # r => active'[q] = active[q]
    BY <2>1, Facts
  <2> HIDE DEF r
  <2>7. UnendedActive'
    BY <1>1, <2>3, <2>5, <2>6, AboutOneRide DEF RunInv
  <2>8. QED
    BY <2>4, <2>7 DEF RunInv
<1>5. QED
  BY <1>3, <1>4

\* resolve() of a match: by a cancellation of its ride, or by a claim.
LEMMA ResolveRun ==
  ASSUME DispatchInv, UnendedActive, NEW m \in MatchIds, Created(m),
         NEW why \in {"won", "exhausted", "cancelled", "crashed"}, Resolve(m, why),
         NEW r \in Rides, matches[m].ride = r,
         matches[m].ends # {} => active[r] = m \/ LateWin(r)'
  PROVE  UnendedActive'
<1> DEFINE next == Resolved(matches[m], why)
<1>1. matches[m] \in Match
  BY Facts
<1>2. /\ next \in Match /\ next.offered = matches[m].offered /\ next.ride = r
      /\ next.ends = matches[m].ends \cup {why}
  BY <1>1, ResolvedType
<1>3. matches' = [matches EXCEPT ![m] = next] /\ active' = [active EXCEPT ![r] = None]
  BY DEF Resolve
<1> HIDE DEF next
<1>4. matches'[m] = next /\ \A n \in MatchIds \ {m} : matches'[n] = matches[n]
  BY <1>3, Facts
<1>5. \A q \in Rides : q # r => active'[q] = active[q]
  BY <1>3, Facts
<1>6. Grows
  BY <1>2, <1>4, NoMatchIsNoMatch DEF Grows, Created
<1>7. \A n \in MatchIds : Unresolved(n)' =>
        n # m /\ Unresolved(n) /\ matches'[n].ride \in Rides /\ matches'[n].ride = matches[n].ride
  BY <1>2, <1>4, Facts DEF Unresolved, Created, Match
<1>8. \A n \in MatchIds : Unresolved(n)' /\ matches'[n].ride = r =>
        active[r] # n \/ LateWin(r)'
  <2>1. CASE matches[m].ends = {}
    <3>1. Unresolved(m)
      BY <2>1 DEF Unresolved
    <3>2. active[r] = m \/ LateWin(r)
      BY <3>1 DEF UnendedActive
    <3>3. QED
      BY <1>1, <1>6, <1>7, <3>2, LateWinStays
  <2>2. CASE matches[m].ends # {}
    BY <1>7, <2>2
  <2>3. QED
    BY <2>1, <2>2
<1>9. QED
  BY <1>5, <1>6, <1>7, <1>8, AboutOneRide

LEMMA RideCancelledRun ==
  ASSUME DispatchInv, RunInv, NEW r \in Rides, NEW d, RideCancelled(r, d)
  PROVE  RunInv'
<1>1. CASE active[r] = None
  <2>1. UNCHANGED <<matches, active, winner>>
    BY <1>1 DEF RideCancelled
  <2>2. QED
    BY <2>1 DEF RunInv, WonHasWinner, UnendedActive, Unresolved, Created, LateWin, WonLate
<1>2. CASE active[r] # None
  <2> DEFINE m == active[r]
  <2>1. m \in MatchIds /\ Created(m) /\ matches[m] \in Match /\ matches[m].ride = r
    BY <1>2, Facts
  <2>2. Resolve(m, "cancelled") /\ UNCHANGED winner
    BY <1>2 DEF RideCancelled
  <2>3. UnendedActive'
    BY <2>1, <2>2, ResolveRun DEF RunInv
  <2>4. WonHasWinner'
    <3>1. matches'[m] = Resolved(matches[m], "cancelled")
            /\ \A n \in MatchIds \ {m} : matches'[n] = matches[n]
      BY <2>1, <2>2, Facts DEF Resolve
    <3>2. Resolved(matches[m], "cancelled").ends = matches[m].ends \cup {"cancelled"}
      BY <2>1, ResolvedType
    <3>3. QED
      BY <2>1, <2>2, <3>1, <3>2 DEF RunInv, WonHasWinner, Created
  <2>5. QED
    BY <2>3, <2>4 DEF RunInv
<1>3. QED
  BY <1>1, <1>2

\* A driver wins: late, if the match had ended before.
LEMMA ClaimGrantedRun ==
  ASSUME KeyOutlastsClaims, DispatchInv, RunInv, NEW c \in Callers, ClaimGranted(c)
  PROVE  RunInv'
<1>1. CASE ~HasAssignment(claims[c].driver)
  <2>1. UNCHANGED <<matches, active, winner>>
    BY <1>1 DEF ClaimGranted
  <2>2. QED
    BY <2>1 DEF RunInv, WonHasWinner, UnendedActive, Unresolved, Created, LateWin, WonLate
<1>2. CASE HasAssignment(claims[c].driver)
  <2> DEFINE m == claims[c].match
             d == claims[c].driver
  <2>0. PICK r \in Rides : r = matches[m].ride
    BY Facts DEF ClaimGranted, Call, InFlight, DispatchInv, CallsOnMatches
  <2>1. /\ claims[c].phase = "granted" /\ claims[c].phase \in InFlight
        /\ m \in MatchIds /\ d \in Drivers
    BY Facts DEF ClaimGranted, Call, InFlight
  <2>2. Created(m) /\ winner[m] = NoOne /\ matches[m] \in Match
    BY <2>1, Facts DEF DispatchInv, CallsOnMatches, WonMatchIsGuarded
  <2>3. Resolve(m, "won") /\ winner' = [winner EXCEPT ![m] = d]
    BY <1>2 DEF ClaimGranted
  <2>4. d # NoOne /\ winner'[m] = d /\ \A n \in MatchIds \ {m} : winner'[n] = winner[n]
    BY <2>1, <2>3, NullAssumption DEF DispatchInv, DispatchTypeOK
  <2>5. /\ matches'[m] = Resolved(matches[m], "won")
        /\ \A n \in MatchIds \ {m} : matches'[n] = matches[n]
    BY <2>1, <2>3, Facts DEF Resolve
  <2>6. /\ matches'[m].ends = matches[m].ends \cup {"won"} /\ matches'[m].ride = r
        /\ matches'[m] # NoMatch
    BY <2>0, <2>2, <2>5, ResolvedType, NoMatchIsNoMatch
  <2>7. matches[m].ends # {} => LateWin(r)'
    <3>1. "won" \notin matches[m].ends
      BY <2>1, <2>2 DEF RunInv, WonHasWinner
    <3>2. QED
      BY <2>1, <2>6, <3>1 DEF LateWin, WonLate, Created
  <2>8. WonHasWinner'
    BY <2>4, <2>5 DEF RunInv, WonHasWinner, Created
  <2> HIDE DEF m
  <2>9. UnendedActive'
    BY <2>0, <2>1, <2>2, <2>3, <2>7, ResolveRun DEF RunInv
  <2>10. QED
    BY <2>8, <2>9 DEF RunInv
<1>3. QED
  BY <1>1, <1>2

LEMMA RestartRun ==
  ASSUME DispatchInv, RunInv, Restart
  PROVE  RunInv'
<1>1. ASSUME NEW m \in MatchIds, Unresolved(m)
      PROVE  matches'[m].ends = {"crashed"}
  <2>1. matches[m] \in Match
    BY <1>1, Facts DEF Unresolved
  <2>2. matches'[m] = [matches[m] EXCEPT !.ends = {"crashed"}, !.timer = FALSE]
    BY <1>1 DEF Restart
  <2>3. QED
    BY <2>1, <2>2 DEF Match
<1>2. \A m \in MatchIds : ~Unresolved(m) => matches'[m] = matches[m]
  BY DEF Restart
<1>3. UNCHANGED winner
  BY DEF Restart
<1>4. QED
  BY <1>1, <1>2, <1>3 DEF RunInv, WonHasWinner, UnendedActive, Unresolved, Created

LEMMA RunInvStep ==
  ASSUME KeyOutlastsClaims, DispatchInv, RunInv, [DispatchStep]_dispatchVars
  PROVE  RunInv'
<1>1. CASE UNCHANGED <<matches, active, winner>>
  BY <1>1 DEF RunInv, WonHasWinner, UnendedActive, Unresolved, Created, LateWin, WonLate
<1>2. CASE Matching
  BY <1>1, <1>2, StartMatchingRun, OnTimeoutRun, RideCancelledRun DEF Matching, RideCompleted
<1>3. CASE Claiming
  BY <1>1, <1>3, ClaimGrantedRun DEF Claiming, Claim, TryClaim, ClaimFails, Answer, ExpireKey
<1>4. CASE Projecting
  BY <1>1, <1>4 DEF Projecting, SetOnline, SetVehicleZone, SetTracker, RefreshZones, Observe
<1>5. CASE Restart
  BY <1>5, RestartRun
<1>6. QED
  BY <1>1, <1>2, <1>3, <1>4, <1>5, RideCancelledRun DEF DispatchStep, DispatchNext, dispatchVars

LEMMA RunIsOne == DispatchInv /\ RunInv => OneRunningMatch
<1> SUFFICES ASSUME DispatchInv, RunInv, NEW m \in MatchIds, NEW n \in MatchIds,
                    matches[m].timer, matches[n].timer, matches[m].ride = matches[n].ride, m # n
             PROVE  LateWin(matches[m].ride)
  BY DEF OneRunningMatch, LateWin
<1>1. Unresolved(m) /\ Unresolved(n) /\ matches[m].ride \in Rides
  BY Facts DEF Unresolved, Match
<1>2. QED
  BY <1>1 DEF RunInv, UnendedActive

\* However often and in whatever order rides are requested, cancelled, claimed
\* and timed out, and across restarts, two matches of a ride run at the same
\* time only after one of its matches has been won late.
THEOREM OneMatchRuns == DispatchSpec => []OneRunningMatch
<1>1. CASE KeyOutlastsClaims
  <2>1. DispatchInv /\ RunInv /\ [DispatchNext]_dispatchVars => RunInv'
    BY <1>1, RunInvStep DEF DispatchStep
  <2>2. DispatchSpec => [](DispatchInv /\ RunInv)
    BY <2>1, DispatchInvInit, DispatchInvNext, RunInvInit, PTL DEF DispatchSpec
  <2>3. QED
    BY <2>2, RunIsOne, PTL
<1>2. CASE ~KeyOutlastsClaims
  <2>1. OneRunningMatch
    BY <1>2 DEF OneRunningMatch
  <2>2. QED
    BY <2>1, PTL
<1>3. QED
  BY <1>1, <1>2

=============================================================================
