-------------------------------- MODULE Fleet --------------------------------
(***************************************************************************)
(* The Driver service: drivers, their vehicles, suspensions and            *)
(* driver.status.changed (drivers.service.ts, driver-events.consumer.ts).  *)
(* A driver is approved whatever documents there are, so those are left    *)
(* out; the rows of vehicles matter to Tracking only (Trackers).           *)
(*                                                                         *)
(* A handler loads a driver, changes the entity and saves it: save() writes*)
(* the columns in which the entity differs from the row by then.  The      *)
(* handlers of on-trip events look a driver up by the Auth user id among   *)
(* the primary keys, find nobody and swallow the error, so a driver is     *)
(* never "on_trip" here and they are no action.                            *)
(***************************************************************************)
EXTENDS Naturals, FiniteSets

CONSTANTS
  Drivers, Vehicles,
  Workers,         \* bound: handlers at the same time
  None,
  MaxSuspensions,  \* bound: open suspensions of a driver
  MaxCalls,        \* bound: handlers ever started
  MaxFaults        \* bound: handlers that stop in the middle

VARIABLES
  drivers,      \* table drivers, or NoDriver
  provisioned,  \* the drivers the Auth service has a user for
  assignments,  \* the open driver_vehicle_assignments
  suspensions,  \* how many open suspensions each driver has
  expired,      \* drivers whose licence has expired
  announced,    \* the drivers the last driver.status.changed calls online
  calls,
  overlapped,   \* history: drivers and vehicles on which two calls overlapped
  cut,          \* history: drivers a call on whom stopped in the middle
  count, faults

vars == <<drivers, provisioned, assignments, suspensions, expired,
          announced, calls, overlapped, cut, count, faults>>

Driver == [status : {"pending", "approved", "suspended"}, online : {"offline", "online"},
           vehicle : Vehicles \cup {None}]

NoDriver == [status |-> "none"]

NewDriver == [status |-> "pending", online |-> "offline", vehicle |-> None]

Idle == [op |-> "idle"]

DriverOps == {"onboard", "approve", "reject", "assign", "online", "offline", "suspend", "lift"}

\* A call: its operation, the driver and vehicle it is about, the next step, the
\* driver it has loaded, and the open assignments its transaction has closed.
Call == [op : DriverOps \cup {"escalate", "vehicle"}, driver : Drivers \cup {None},
         vehicle : Vehicles \cup {None}, step : {"load", "check", "save", "closing", "commit", "publish"},
         entity : Driver \cup {NoDriver}, closing : SUBSET (Drivers \X Vehicles)]

Exists(d) == drivers[d] # NoDriver

TypeOK ==
  /\ drivers \in [Drivers -> Driver \cup {NoDriver}]
  /\ provisioned \subseteq Drivers
  /\ assignments \subseteq Drivers \X Vehicles
  /\ suspensions \in [Drivers -> 0..MaxSuspensions]
  /\ expired \subseteq Drivers /\ announced \subseteq Drivers /\ cut \subseteq Drivers
  /\ calls \in [Workers -> Call \cup {Idle}]
  /\ overlapped \subseteq Drivers \cup Vehicles
  /\ count \in 0..MaxCalls /\ faults \in 0..MaxFaults

\* Some drivers have been onboarded.
Init ==
  /\ drivers \in [Drivers -> {NoDriver, NewDriver}]
  /\ provisioned = {d \in Drivers : Exists(d)}
  /\ assignments = {} /\ suspensions = [d \in Drivers |-> 0]
  /\ expired = {} /\ announced = {}
  /\ calls = [w \in Workers |-> Idle]
  /\ overlapped = {} /\ cut = {} /\ count = 0 /\ faults = 0

\* What the calls under way are about.
Subjects == UNION {{calls[w].driver, calls[w].vehicle} : w \in {w \in Workers : calls[w] # Idle}}

Begin(w, op, d, v, step, entity) ==
  /\ calls[w] = Idle /\ count < MaxCalls /\ count' = count + 1
  /\ calls' = [calls EXCEPT ![w] =
       [op |-> op, driver |-> d, vehicle |-> v, step |-> step, entity |-> entity,
        closing |-> {}]]
  /\ overlapped' = overlapped \cup (({d, v} \ {None}) \cap Subjects)

At(w, ops, step) == calls[w] # Idle /\ calls[w].op \in ops /\ calls[w].step = step

Goto(w, step) == calls' = [calls EXCEPT ![w].step = step]

Leave(w) == calls' = [calls EXCEPT ![w] = Idle]

(***************************************************************************)
(* Onboarding                                                              *)
(***************************************************************************)
\* No driver has the phone; Auth provisions a user, or the call times out.
Onboard(w, d) ==
  /\ ~Exists(d)
  /\ Begin(w, "onboard", d, None, "load", NoDriver)
  /\ UNCHANGED <<drivers, provisioned, assignments, suspensions, expired, announced, cut, faults>>

ProvisionDriver(w) ==
  /\ At(w, {"onboard"}, "load")
  /\ provisioned' = provisioned \cup {calls[w].driver}
  /\ Goto(w, "save")
  /\ UNCHANGED <<drivers, assignments, suspensions, expired, announced, overlapped, cut, count,
                 faults>>

\* The row is inserted, unless the phone is taken by now.
InsertDriver(w) ==
  LET d == calls[w].driver IN
  /\ At(w, {"onboard"}, "save")
  /\ drivers' = IF Exists(d) THEN drivers ELSE [drivers EXCEPT ![d] = NewDriver]
  /\ Leave(w)
  /\ UNCHANGED <<provisioned, assignments, suspensions, expired, announced, overlapped, cut,
                 count, faults>>

(***************************************************************************)
(* Operations on a driver: get() and, for each operation, what follows     *)
(***************************************************************************)
Open(d) == suspensions[d] > 0

\* get() loads the driver; going online and offline decide later.
Load(w, op, d, v) ==
  /\ Exists(d)
  /\ Begin(w, op, d, v, IF op = "online" THEN "check" ELSE "save", drivers[d])
  /\ UNCHANGED <<drivers, provisioned, assignments, suspensions, expired, announced, cut, faults>>

CanGoOnline(entity, suspended, licenceExpired) ==
  entity.status = "approved" /\ entity.vehicle # None /\ ~suspended /\ ~licenceExpired

\* setOnline(true) counts the open suspensions and decides.
CheckEligible(w) ==
  LET d == calls[w].driver IN
  /\ At(w, {"online"}, "check")
  /\ IF CanGoOnline(calls[w].entity, Open(d), d \in expired) THEN Goto(w, "save") ELSE Leave(w)
  /\ UNCHANGED <<drivers, provisioned, assignments, suspensions, expired, announced, overlapped,
                 cut, count, faults>>

\* Variant: a suspended driver stays online.
ChangedStaysOnline(c) ==
  CASE c.op \in {"approve", "lift"}     -> [c.entity EXCEPT !.status = "approved"]
    [] c.op = "reject"                  -> [c.entity EXCEPT !.status = "pending"]
    [] c.op = "assign"                  -> [c.entity EXCEPT !.vehicle = c.vehicle]
    [] c.op \in {"online", "offline"}   -> [c.entity EXCEPT !.online = c.op]
    [] c.op \in {"suspend", "escalate"} -> [c.entity EXCEPT !.status = "suspended"]

\* The entity each operation saves.
Changed(c) ==
  CASE c.op \in {"approve", "lift"}     -> [c.entity EXCEPT !.status = "approved"]
    [] c.op = "reject"                  -> [c.entity EXCEPT !.status = "pending"]
    [] c.op = "assign"                  -> [c.entity EXCEPT !.vehicle = c.vehicle]
    [] c.op \in {"online", "offline"}   -> [c.entity EXCEPT !.online = c.op]
    [] c.op \in {"suspend", "escalate"} -> [c.entity EXCEPT !.status = "suspended",
                                                            !.online = "offline"]

Save(w) == drivers' = [drivers EXCEPT ![calls[w].driver] = Changed(calls[w])]

\* Variant: only going offline is announced.
SaveDriverUnannounced(w) ==
  /\ At(w, {"approve", "reject", "online", "offline"}, "save") \/ At(w, {"lift"}, "publish")
  /\ Save(w)
  /\ IF calls[w].op = "offline" THEN Goto(w, "publish") ELSE Leave(w)
  /\ UNCHANGED <<provisioned, assignments, suspensions, expired, announced, overlapped, cut,
                 count, faults>>

\* approve(), reject(), the end of liftSuspension(), and setOnline().
SaveDriver(w) ==
  /\ At(w, {"approve", "reject", "online", "offline"}, "save") \/ At(w, {"lift"}, "publish")
  /\ Save(w)
  /\ IF calls[w].op \in {"online", "offline"} THEN Goto(w, "publish") ELSE Leave(w)
  /\ UNCHANGED <<provisioned, assignments, suspensions, expired, announced, overlapped, cut,
                 count, faults>>

\* publishStatus() records driver.status.changed on its own.
PublishStatus(w) ==
  LET d == calls[w].driver IN
  /\ At(w, {"online", "offline"}, "publish")
  /\ announced' = IF calls[w].op = "online" THEN announced \cup {d} ELSE announced \ {d}
  /\ Leave(w)
  /\ UNCHANGED <<drivers, provisioned, assignments, suspensions, expired, overlapped, cut, count,
                 faults>>

(***************************************************************************)
(* assignVehicle(): a transaction of four statements under READ COMMITTED, *)
(* without an index on open assignments.  What it closed and inserted shows*)
(* when it commits; an update that waits for a row another transaction has *)
(* closed sees nothing newer after the wait, as if it had not waited.      *)
(***************************************************************************)
CloseOfDriver(w) ==
  /\ At(w, {"assign"}, "save")
  /\ calls' = [calls EXCEPT ![w].step = "closing",
                            ![w].closing = {a \in assignments : a[1] = calls[w].driver}]
  /\ UNCHANGED <<drivers, provisioned, assignments, suspensions, expired, announced, overlapped,
                 cut, count, faults>>

\* Variant: only the driver's open assignment is closed.
CloseOfVehicleSkipped(w) ==
  /\ At(w, {"assign"}, "closing")
  /\ Goto(w, "commit")
  /\ UNCHANGED <<drivers, provisioned, assignments, suspensions, expired, announced, overlapped,
                 cut, count, faults>>

CloseOfVehicle(w) ==
  /\ At(w, {"assign"}, "closing")
  /\ calls' = [calls EXCEPT ![w].step = "commit",
       ![w].closing = calls[w].closing \cup {a \in assignments : a[2] = calls[w].vehicle}]
  /\ UNCHANGED <<drivers, provisioned, assignments, suspensions, expired, announced, overlapped,
                 cut, count, faults>>

\* The assignment is inserted and the driver saved; the row of the other driver, if
\* there is one, keeps its vehicle.
AssignVehicle(w) ==
  LET c == calls[w] IN
  /\ At(w, {"assign"}, "commit")
  /\ assignments' = (assignments \ c.closing) \cup {<<c.driver, c.vehicle>>}
  /\ Save(w) /\ Leave(w)
  /\ UNCHANGED <<provisioned, suspensions, expired, announced, overlapped, cut, count, faults>>

\* suspend()'s transaction; it records driver.suspended alone.
Suspend(w) ==
  LET d == calls[w].driver IN
  /\ At(w, {"suspend", "escalate"}, "save") /\ suspensions[d] < MaxSuspensions
  /\ suspensions' = [suspensions EXCEPT ![d] = suspensions[d] + 1]
  /\ Save(w) /\ Leave(w)
  /\ UNCHANGED <<provisioned, assignments, expired, announced, overlapped, cut, count, faults>>

\* liftSuspension() closes every open suspension before it saves the driver.
CloseSuspensions(w) ==
  /\ At(w, {"lift"}, "save")
  /\ suspensions' = [suspensions EXCEPT ![calls[w].driver] = 0]
  /\ Goto(w, "publish")
  /\ UNCHANGED <<drivers, provisioned, assignments, expired, announced, overlapped, cut, count,
                 faults>>

\* geofence.violation.escalated: the driver assigned to the vehicle is found,
\* then loaded, and suspended unless that is so already.
FindAssigned(w, d, v) ==
  /\ <<d, v>> \in assignments
  /\ Begin(w, "escalate", d, v, "load", NoDriver)
  /\ UNCHANGED <<drivers, provisioned, assignments, suspensions, expired, announced, cut, faults>>

LoadAssigned(w) ==
  LET d == calls[w].driver IN
  /\ At(w, {"escalate"}, "load")
  /\ IF drivers[d].status = "suspended" THEN Leave(w)
       ELSE calls' = [calls EXCEPT ![w].step = "save", ![w].entity = drivers[d]]
  /\ UNCHANGED <<drivers, provisioned, assignments, suspensions, expired, announced, overlapped,
                 cut, count, faults>>

\* The database, the Auth service or the process fails in the middle.
Stop(w) ==
  /\ calls[w] # Idle /\ faults < MaxFaults
  /\ Leave(w)
  /\ cut' = cut \cup {calls[w].driver}
  /\ faults' = faults + 1
  /\ UNCHANGED <<drivers, provisioned, assignments, suspensions, expired, announced, overlapped,
                 count>>

ExpireLicence(d) ==
  /\ Exists(d) /\ d \notin expired /\ count < MaxCalls
  /\ count' = count + 1
  /\ expired' = expired \cup {d}
  /\ UNCHANGED <<drivers, provisioned, assignments, suspensions, announced, calls, overlapped,
                 cut, faults>>

-----------------------------------------------------------------------------
Handler(w) ==
  \/ \E d \in Drivers :
       \/ Onboard(w, d)
       \/ \E op \in DriverOps \ {"onboard", "assign"} : Load(w, op, d, None)
       \/ \E v \in Vehicles : Load(w, "assign", d, v) \/ FindAssigned(w, d, v)
  \/ ProvisionDriver(w) \/ InsertDriver(w) \/ CheckEligible(w) \/ SaveDriver(w)
  \/ PublishStatus(w) \/ CloseOfDriver(w) \/ CloseOfVehicle(w) \/ AssignVehicle(w)
  \/ Suspend(w) \/ CloseSuspensions(w) \/ LoadAssigned(w) \/ Stop(w)

Next ==
  \/ \E w \in Workers : Handler(w)
  \/ \E d \in Drivers : ExpireLicence(d)

Spec == Init /\ [][Next]_vars

(***************************************************************************)
(* Properties                                                              *)
(***************************************************************************)

\* While the calls on a driver do not overlap, a driver online has a vehicle
\* and no open suspension, wherever a call may stop (D-02, A-09).  He may be
\* pending again: reject() leaves him online.
OnlineIsFit ==
  \A d \in Drivers \ overlapped :
    Exists(d) /\ drivers[d].online = "online" =>
      drivers[d].vehicle # None /\ ~Open(d)

\* While the calls on a driver and a vehicle do not overlap, neither has two
\* open assignments, whatever the overlapping calls on others commit, and the
\* driver's current vehicle is the assigned one (drivers.service.ts:109 "closing any
\* prior open assignment for either side"); nothing holds overlapping calls apart.
PairingExclusive ==
  \A a \in assignments :
    {a[1], a[2]} \cap overlapped = {} =>
      /\ drivers[a[1]].vehicle = a[2]
      /\ \A b \in assignments : a # b => a[1] # b[1] /\ a[2] # b[2]

\* Unless calls overlapped or one stopped in between, a driver who is online
\* has been announced, so Dispatch can offer him rides (D-02).
OnlineIsAnnounced ==
  \A d \in Drivers \ (overlapped \cup cut \cup Subjects) :
    Exists(d) /\ drivers[d].online = "online" => d \in announced

=============================================================================
