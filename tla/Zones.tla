-------------------------------- MODULE Zones --------------------------------
(***************************************************************************)
(* Zones and the pairing of vehicles with them in the Geofence service     *)
(* (zones.service.ts), with the cache the detector and Dispatch read       *)
(* (zone-registry.service.ts).  A boundary is named by its version.        *)
(*                                                                         *)
(* Every write is a transaction followed by a change of the cache: a       *)
(* reload, which reads the zones and then the pairings, or setPairing().   *)
(* The transaction of a pairing updates the open pairings it sees and then *)
(* inserts the new one (READ COMMITTED).  A call's phases:                 *)
(*   saving      an update has loaded its zone                             *)
(*   pairing     pairVehicle() has found the zone                          *)
(*   inserting   its transaction has closed the pairings it saw            *)
(*   setting     it has committed, setPairing() is next                    *)
(*   reloading   the zones are read next                                   *)
(*   zonesRead   the zones are read; pairingsRead: so are the pairings     *)
(***************************************************************************)
EXTENDS Naturals, Sequences, FiniteSets

CONSTANTS
  ZoneIds, Vehicles,
  Workers,      \* bound: calls at the same time
  MaxCalls,     \* bound: calls ever started
  MaxFaults     \* bound: failed calls and restarts

VARIABLES
  zones,         \* table zones
  zoneVersions,  \* table zone_versions: the versions of each zone
  pairings,      \* table vehicle_zone_pairings
  activeZones,   \* ZoneRegistry.zones: the version cached for each active zone
  vehicleToZone, \* ZoneRegistry.vehicleToZone
  announced,     \* the last vehicle.updated of each vehicle
  calls,
  overlapped,    \* history: two calls overlapped
  cut,           \* history: a call failed in the middle
  count, faults

vars == <<zones, zoneVersions, pairings, activeZones, vehicleToZone, announced,
          calls, overlapped, cut, count, faults>>

Absent == [status |-> "absent", version |-> 0]
Zone == [status : {"active", "inactive"}, version : 1..(MaxCalls + 1)]
NoZone == "none"

Pairing == [vehicle : Vehicles, zone : ZoneIds, open : BOOLEAN]

Idle == [phase |-> "idle"]

tables == <<zones, zoneVersions, pairings, announced>>
cache  == <<activeZones, vehicleToZone>>
ghosts == <<overlapped, cut, count, faults>>

TypeOK ==
  /\ zones \in [ZoneIds -> Zone \cup {Absent}]
  /\ zoneVersions \in [ZoneIds -> Seq(1..(MaxCalls + 1))]
  /\ pairings \in Seq(Pairing)
  /\ activeZones \in [ZoneIds -> 0..(MaxCalls + 1)]
  /\ vehicleToZone \in [Vehicles -> ZoneIds \cup {NoZone}]
  /\ announced \in [Vehicles -> ZoneIds \cup {NoZone}]
  /\ \A w \in Workers : calls[w].phase \in
       {"idle", "saving", "pairing", "inserting", "setting", "reloading", "zonesRead", "pairingsRead"}
  /\ overlapped \in BOOLEAN /\ cut \in BOOLEAN
  /\ count \in 0..MaxCalls /\ faults \in 0..MaxFaults

Init ==
  /\ zones = [z \in ZoneIds |-> Absent]
  /\ zoneVersions = [z \in ZoneIds |-> <<>>]
  /\ pairings = <<>>
  /\ activeZones = [z \in ZoneIds |-> 0]
  /\ vehicleToZone = [v \in Vehicles |-> NoZone] /\ announced = vehicleToZone
  /\ calls = [w \in Workers |-> Idle]
  /\ overlapped = FALSE /\ cut = FALSE /\ count = 0 /\ faults = 0

Enter(w, call) == calls' = [calls EXCEPT ![w] = call]

Begin(w, call) ==
  /\ calls[w] = Idle /\ count < MaxCalls
  /\ count' = count + 1
  /\ Enter(w, call)
  /\ overlapped' = (overlapped \/ \E o \in Workers : calls[o] # Idle)
  /\ UNCHANGED <<cut, faults>>

(***************************************************************************)
(* Zones                                                                   *)
(***************************************************************************)
\* The zone and its first version are inserted with zone.updated.
Create(w, z) ==
  /\ zones[z] = Absent
  /\ Begin(w, [phase |-> "reloading"])
  /\ zones' = [zones EXCEPT ![z] = [status |-> "active", version |-> 1]]
  /\ zoneVersions' = [zoneVersions EXCEPT ![z] = <<1>>]
  /\ UNCHANGED <<pairings, announced, cache>>

\* update() loads the zone; it changes its status or its boundary.
LoadZone(w, z, change) ==
  /\ zones[z] # Absent
  /\ Begin(w, [phase |-> "saving", zone |-> z, entity |->
       IF change = "boundary" THEN [zones[z] EXCEPT !.version = zones[z].version + 1]
                              ELSE [zones[z] EXCEPT !.status = change],
       boundary |-> change = "boundary"])
  /\ UNCHANGED <<tables, cache>>

\* The new version is inserted and the columns that differ from the row are
\* saved: an entity loaded before another update takes its status back.
SaveZone(w) ==
  LET c == calls[w] IN
  /\ c.phase = "saving"
  /\ zones' = [zones EXCEPT ![c.zone] = c.entity]
  /\ zoneVersions' = IF c.boundary
       THEN [zoneVersions EXCEPT ![c.zone] = Append(zoneVersions[c.zone], c.entity.version)]
       ELSE zoneVersions
  /\ Enter(w, [phase |-> "reloading"])
  /\ UNCHANGED <<pairings, announced, cache, ghosts>>

(***************************************************************************)
(* Pairings                                                                *)
(***************************************************************************)
OpenOf(v) == {i \in DOMAIN pairings : pairings[i].vehicle = v /\ pairings[i].open}

PairVehicle(w, v, z) ==
  /\ zones[z] # Absent
  /\ Begin(w, [phase |-> "pairing", vehicle |-> v, zone |-> z])
  /\ UNCHANGED <<tables, cache>>

ClosePairings(w) ==
  LET c == calls[w] IN
  /\ c.phase = "pairing"
  /\ Enter(w, [phase |-> "inserting", vehicle |-> c.vehicle, zone |-> c.zone,
               closing |-> OpenOf(c.vehicle)])
  /\ UNCHANGED <<tables, cache, ghosts>>

\* Variant: the open pairing of the vehicle stays open.
CommitPairingKept(w) ==
  LET c == calls[w] IN
  /\ c.phase = "inserting"
  /\ pairings' = Append(pairings, [vehicle |-> c.vehicle, zone |-> c.zone, open |-> TRUE])
  /\ announced' = [announced EXCEPT ![c.vehicle] = c.zone]
  /\ Enter(w, [phase |-> "setting", vehicle |-> c.vehicle, zone |-> c.zone])
  /\ UNCHANGED <<zones, zoneVersions, cache, ghosts>>

\* The transaction commits, with vehicle.updated for Dispatch.
CommitPairing(w) ==
  LET c == calls[w] IN
  /\ c.phase = "inserting"
  /\ pairings' = Append(
       [i \in DOMAIN pairings |->
          [pairings[i] EXCEPT !.open = pairings[i].open /\ i \notin c.closing]],
       [vehicle |-> c.vehicle, zone |-> c.zone, open |-> TRUE])
  /\ announced' = [announced EXCEPT ![c.vehicle] = c.zone]
  /\ Enter(w, [phase |-> "setting", vehicle |-> c.vehicle, zone |-> c.zone])
  /\ UNCHANGED <<zones, zoneVersions, cache, ghosts>>

SetPairing(w) ==
  /\ calls[w].phase = "setting"
  /\ vehicleToZone' = [vehicleToZone EXCEPT ![calls[w].vehicle] = calls[w].zone]
  /\ Enter(w, Idle)
  /\ UNCHANGED <<tables, activeZones, ghosts>>

(***************************************************************************)
(* The registry                                                            *)
(***************************************************************************)
\* The active zones, with the version of each.
Active == [z \in ZoneIds |-> IF zones[z].status = "active" THEN zones[z].version ELSE 0]

\* The zone of a vehicle's open pairing, the last one if there are two.
Paired ==
  [v \in Vehicles |->
     IF OpenOf(v) = {} THEN NoZone
     ELSE pairings[CHOOSE i \in OpenOf(v) : \A j \in OpenOf(v) : j <= i].zone]

ReadZones(w) ==
  /\ calls[w].phase = "reloading"
  /\ Enter(w, [phase |-> "zonesRead", active |-> Active])
  /\ UNCHANGED <<tables, cache, ghosts>>

ReadPairings(w) ==
  /\ calls[w].phase = "zonesRead"
  /\ activeZones' = calls[w].active
  /\ Enter(w, [phase |-> "pairingsRead", paired |-> Paired])
  /\ UNCHANGED <<tables, vehicleToZone, ghosts>>

EndReload(w) ==
  /\ calls[w].phase = "pairingsRead"
  /\ vehicleToZone' = calls[w].paired
  /\ Enter(w, Idle)
  /\ UNCHANGED <<tables, activeZones, ghosts>>

\* A query fails: a transaction is rolled back, a reload is not repeated.
Fail(w) ==
  /\ calls[w].phase \notin {"idle", "setting"} /\ faults < MaxFaults
  /\ Enter(w, Idle)
  /\ cut' = TRUE /\ faults' = faults + 1
  /\ UNCHANGED <<tables, cache, overlapped, count>>

\* The process restarts and reloads before it serves.
Restart ==
  /\ faults < MaxFaults /\ faults' = faults + 1
  /\ calls' = [w \in Workers |-> Idle]
  /\ activeZones' = Active /\ vehicleToZone' = Paired
  /\ UNCHANGED <<tables, overlapped, cut, count>>

-----------------------------------------------------------------------------
Handler(w) ==
  \/ \E z \in ZoneIds :
       \/ Create(w, z)
       \/ \E change \in {"active", "inactive", "boundary"} : LoadZone(w, z, change)
       \/ \E v \in Vehicles : PairVehicle(w, v, z)
  \/ SaveZone(w) \/ ClosePairings(w) \/ CommitPairing(w) \/ SetPairing(w)
  \/ ReadZones(w) \/ ReadPairings(w) \/ EndReload(w) \/ Fail(w)

Next == Restart \/ \E w \in Workers : Handler(w)

Spec == Init /\ [][Next]_vars

(***************************************************************************)
(* Properties                                                              *)
(***************************************************************************)
Quiet == \A w \in Workers : calls[w] = Idle

\* While calls do not overlap, a vehicle has one open pairing, the one
\* Dispatch was told of, and the versions of a zone are numbered without gap or
\* repetition (specs.md 6.1, 6.2).
PairingsCoherent ==
  ~overlapped =>
    /\ \A v \in Vehicles :
         /\ Cardinality(OpenOf(v)) <= 1
         /\ Paired[v] = announced[v]
    /\ \A z \in ZoneIds : zoneVersions[z] = [i \in 1..zones[z].version |-> i]

\* While calls neither overlap nor fail, the cache that watches every ping
\* agrees with the tables between calls (specs.md 6.2 "takes effect
\* immediately").
RegistryAgrees ==
  ~overlapped /\ ~cut /\ Quiet => activeZones = Active /\ vehicleToZone = Paired

=============================================================================
