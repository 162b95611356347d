------------------------------- MODULE Billing -------------------------------
(***************************************************************************)
(* From the end of a ride to its fare: the Tracking service binds the GPS  *)
(* points between ride.started and ride.ended to the ride                  *)
(* (history-buffer.service.ts, trail.service.ts), and the Fare service,    *)
(* which consumes ride.ended as well, asks it for the distance             *)
(* (fare-calculation.service.ts, tracking.client.ts) and prices it with    *)
(* the configuration of the ride's start (fare-config.service.ts).         *)
(*                                                                         *)
(* One ride of one vehicle; a GPS point is named by its time, a trail is   *)
(* the set of its points.  occurred_at is the time at which the relay      *)
(* publishes an event, not that of the ride's columns.                     *)
(***************************************************************************)
EXTENDS Naturals, Sequences, FiniteSets

CONSTANTS
  Handlers,     \* bound: messages Fare handles at the same time
  Finalizers,   \* bound: messages Tracking handles at the same time
  Admins,       \* bound: administrators creating configurations at once
  MaxAttempts,  \* maxRetries of the bus
  MaxTime,      \* bound on the clock
  MaxPoints,    \* bound on GPS points
  MaxConfigs,   \* bound on configurations
  MaxFaults     \* bound: repeated publications, lost batches or retries, failed
                \*   calls, restarts

VARIABLES
  now,
  buffer, logged,   \* GPS points in memory, in table gps_logs
  ride,             \* the ride's started_at and ended_at, or Never
  published,        \* messages the bus has for Tracking: <<name, occurred_at>>
  ended,            \* how many ride.ended are in Fare's queue, by failed attempts
  delayed,          \* how many wait in Fare's memory to be published again
  openTrail,        \* openTrails: the start of the ride's trail, or Never
  slices,           \* table trail_slices
  tracking,         \* what each handler of Tracking is in the middle of
  fares,            \* what each handler of Fare is in the middle of
  calculations,     \* table fare_calculations
  configs,          \* table fare_configs: when each version takes effect
  creating,         \* what each administrator's call is in the middle of
  announced,        \* history: fare.calculated events recorded
  dead,             \* history: ride.ended is in the dead-letter queue
  lost,             \* history: a delayed ride.ended was never published again
  faults

vars == <<now, buffer, logged, ride, published, ended, delayed, openTrail, slices, tracking,
          fares, calculations, configs, creating, announced, dead, lost, faults>>

gps     == <<buffer, logged>>
trail   == <<openTrail, slices, tracking>>
pricing == <<configs, creating>>
queue   == <<ended, delayed, dead, lost>>
fare    == <<queue, fares, calculations, announced>>

Times == 0..MaxTime
Never == MaxTime + 1
Idle == [phase |-> "idle"]

TripEvents == {"ride.started", "ride.ended", "ride.completed"}

Slice == [from : Times, to : Times, points : SUBSET Times]

TypeOK ==
  /\ now \in Times /\ buffer \subseteq Times /\ logged \subseteq Times
  /\ ride \in [started : Times \cup {Never}, ended : Times \cup {Never}]
  /\ published \subseteq TripEvents \X Times
  /\ ended \in [0..(MaxAttempts - 1) -> Nat] /\ delayed \in [1..(MaxAttempts - 1) -> Nat]
  /\ openTrail \in Times \cup {Never}
  /\ slices \subseteq Slice /\ Cardinality(slices) <= 1
  /\ \A h \in Finalizers : tracking[h].phase \in {"idle", "reading", "saving"}
  /\ \A h \in Handlers :
       /\ fares[h].phase \in {"idle", "pricing", "measuring", "saving"}
       /\ fares[h].phase = "saving" => fares[h].points \subseteq Times
  /\ calculations \subseteq [version : DOMAIN configs, points : SUBSET Times]
  /\ configs \in Seq(Times) /\ Len(configs) <= MaxConfigs
  /\ creating \in [Admins -> [version : Nat, from : Times] \cup {Idle}]
  /\ announced \in Nat /\ {dead, lost} \subseteq BOOLEAN /\ faults \in 0..MaxFaults

\* The first configuration is seeded by the migration.
Init ==
  /\ now = 0 /\ buffer = {} /\ logged = {}
  /\ ride = [started |-> Never, ended |-> Never]
  /\ published = {}
  /\ ended = [a \in 0..(MaxAttempts - 1) |-> 0] /\ delayed = [a \in 1..(MaxAttempts - 1) |-> 0]
  /\ openTrail = Never /\ slices = {}
  /\ tracking = [h \in Finalizers |-> Idle] /\ fares = [h \in Handlers |-> Idle]
  /\ calculations = {}
  /\ configs = <<0>> /\ creating = [a \in Admins |-> Idle]
  /\ announced = 0 /\ dead = FALSE /\ lost = FALSE /\ faults = 0

\* A transaction that creates a configuration is over within a unit of time.
Tick ==
  /\ now < MaxTime /\ \A a \in Admins : creating[a] = Idle
  /\ now' = now + 1
  /\ UNCHANGED <<gps, ride, published, trail, fare, pricing, faults>>

(***************************************************************************)
(* GPS points                                                              *)
(***************************************************************************)
\* A ping of the vehicle; one with the time of another is ignored.
Add ==
  /\ now \notin buffer \cup logged /\ Cardinality(buffer \cup logged) < MaxPoints
  /\ buffer' = buffer \cup {now}
  /\ UNCHANGED <<now, logged, ride, published, trail, fare, pricing, faults>>

\* The timer inserts the batch.
Flush ==
  /\ buffer # {}
  /\ logged' = logged \cup buffer /\ buffer' = {}
  /\ UNCHANGED <<now, ride, published, trail, fare, pricing, faults>>

\* The insert fails, and the batch is lost.
FlushFails ==
  /\ buffer # {} /\ faults < MaxFaults
  /\ buffer' = {} /\ faults' = faults + 1
  /\ UNCHANGED <<now, logged, ride, published, trail, fare, pricing>>

(***************************************************************************)
(* The ride and its events                                                 *)
(***************************************************************************)
StartRide ==
  /\ ride.started = Never
  /\ ride' = [ride EXCEPT !.started = now]
  /\ UNCHANGED <<now, gps, published, trail, fare, pricing, faults>>

EndRide ==
  /\ ride.started < now /\ ride.ended = Never
  /\ ride' = [ride EXCEPT !.ended = now]
  /\ UNCHANGED <<now, gps, published, trail, fare, pricing, faults>>

\* The relay publishes an event of the ride; it may do so twice.
Publish(name) ==
  /\ \/ name = "ride.started" /\ ride.started # Never
     \/ name = "ride.ended" /\ ride.ended # Never
     \/ name = "ride.completed" /\ calculations # {}
  /\ IF \E m \in published : m[1] = name
       THEN faults < MaxFaults /\ faults' = faults + 1
       ELSE UNCHANGED faults
  /\ published' = published \cup {<<name, now>>}
  /\ ended' = IF name = "ride.ended" THEN [ended EXCEPT ![0] = ended[0] + 1] ELSE ended
  /\ UNCHANGED <<now, gps, ride, trail, delayed, fares, calculations, announced, dead, lost,
                 pricing>>

(***************************************************************************)
(* Tracking: the trail                                                     *)
(***************************************************************************)
\* ride.started opens the trail at the time of the event; a message stays for
\* the copies the bus may deliver.
OpenTrail(m) ==
  /\ m[1] = "ride.started"
  /\ openTrail' = m[2]
  /\ UNCHANGED <<now, gps, ride, published, slices, tracking, fare, pricing, faults>>

\* ride.ended or ride.completed, of a trail that is open: finalize() looks for the
\* ride's slice.
Finalize(h, m) ==
  /\ m[1] # "ride.started" /\ tracking[h] = Idle
  /\ openTrail # Never
  /\ IF slices = {}
       THEN /\ tracking' = [tracking EXCEPT ![h] =
                              [phase |-> "reading", from |-> openTrail, to |-> m[2]]]
            /\ UNCHANGED openTrail
       ELSE openTrail' = Never /\ UNCHANGED tracking
  /\ UNCHANGED <<now, gps, ride, published, slices, fare, pricing, faults>>

\* There is none: the points between are read.
ReadPoints(h) ==
  LET c == tracking[h] IN
  /\ c.phase = "reading"
  /\ tracking' = [tracking EXCEPT ![h] =
       [phase |-> "saving", from |-> c.from, to |-> c.to,
        points |-> {p \in logged : c.from <= p /\ p <= c.to}]]
  /\ UNCHANGED <<now, gps, ride, published, openTrail, slices, fare, pricing, faults>>

\* One slice of a ride is inserted (uq_trail_ride); a second insert fails and
\* leaves the trail open for the retry.
SaveSlice(h) ==
  LET c == tracking[h] IN
  /\ c.phase = "saving"
  /\ IF slices = {}
       THEN /\ slices' = {[from |-> c.from, to |-> c.to, points |-> c.points]}
            /\ openTrail' = Never
       ELSE UNCHANGED <<slices, openTrail>>
  /\ tracking' = [tracking EXCEPT ![h] = Idle]
  /\ UNCHANGED <<now, gps, ride, published, fare, pricing, faults>>

\* The process restarts: the points in memory and the open trails are gone.
RestartTracking ==
  /\ faults < MaxFaults /\ faults' = faults + 1
  /\ buffer' = {} /\ openTrail' = Never
  /\ tracking' = [h \in Finalizers |-> Idle]
  /\ UNCHANGED <<now, logged, ride, published, slices, fare, pricing>>

(***************************************************************************)
(* Fare: the calculation                                                   *)
(***************************************************************************)
Step(h, call) == fares' = [fares EXCEPT ![h] = call]

\* onRideEnded() finds a calculation and is done, or goes on.
BeginFare(h, attempts) ==
  /\ fares[h] = Idle /\ ended[attempts] > 0
  /\ ended' = [ended EXCEPT ![attempts] = ended[attempts] - 1]
  /\ IF calculations # {} THEN UNCHANGED fares
       ELSE Step(h, [phase |-> "pricing", attempts |-> attempts])
  /\ UNCHANGED <<now, gps, ride, published, trail, delayed, calculations, announced, dead, lost,
                 pricing, faults>>

\* The configurations that activeAt() may return: the latest in effect.
ActiveAt(at) ==
  {v \in DOMAIN configs : /\ configs[v] <= at
                          /\ \A u \in DOMAIN configs : configs[u] <= at => configs[u] <= configs[v]}

Price(h, version) ==
  /\ fares[h].phase = "pricing" /\ version \in ActiveAt(ride.started)
  /\ Step(h, [phase |-> "measuring", attempts |-> fares[h].attempts, version |-> version])
  /\ UNCHANGED <<now, gps, ride, published, trail, queue, calculations, announced, pricing,
                 faults>>

\* Tracking answers with the distance of the slice.
Measure(h) ==
  /\ fares[h].phase = "measuring"
  /\ \E slice \in slices :
       Step(h, [phase |-> "saving", attempts |-> fares[h].attempts,
                version |-> fares[h].version, points |-> slice.points])
  /\ UNCHANGED <<now, gps, ride, published, trail, queue, calculations, announced, pricing,
                 faults>>

\* Variant: the last failure leaves nothing behind.
RejectedSilently(h) ==
  LET attempts == fares[h].attempts + 1 IN
  /\ IF attempts >= MaxAttempts
       THEN UNCHANGED delayed
       ELSE delayed' = [delayed EXCEPT ![attempts] = delayed[attempts] + 1]
  /\ Step(h, Idle)
  /\ UNCHANGED <<ended, dead, lost>>

\* The handler throws: the event is acked and waits in memory to be published
\* again, or goes to the dead-letter queue.
Rejected(h) ==
  LET attempts == fares[h].attempts + 1 IN
  /\ IF attempts >= MaxAttempts
       THEN dead' = TRUE /\ UNCHANGED delayed
       ELSE delayed' = [delayed EXCEPT ![attempts] = delayed[attempts] + 1] /\ UNCHANGED dead
  /\ Step(h, Idle)
  /\ UNCHANGED <<ended, lost>>

\* The delay is over; Tracking, which has the event already, receives it as well.
Retry(attempts) ==
  /\ delayed[attempts] > 0
  /\ delayed' = [delayed EXCEPT ![attempts] = delayed[attempts] - 1]
  /\ ended' = [ended EXCEPT ![attempts] = ended[attempts] + 1]
  /\ UNCHANGED <<now, gps, ride, published, trail, fares, calculations, announced, dead, lost,
                 pricing, faults>>

\* The connection is down when the delay is over.
RetryLost(attempts) ==
  /\ delayed[attempts] > 0 /\ faults < MaxFaults
  /\ delayed' = [delayed EXCEPT ![attempts] = delayed[attempts] - 1]
  /\ lost' = TRUE /\ faults' = faults + 1
  /\ UNCHANGED <<now, gps, ride, published, trail, ended, fares, calculations, announced, dead,
                 pricing>>

\* The process restarts: what was not acked is delivered again, what waited in
\* memory is gone.
RestartFare ==
  /\ faults < MaxFaults /\ faults' = faults + 1
  /\ ended' = [a \in DOMAIN ended |->
       ended[a] + Cardinality({h \in Handlers : fares[h] # Idle /\ fares[h].attempts = a})]
  /\ fares' = [h \in Handlers |-> Idle]
  /\ delayed' = [a \in DOMAIN delayed |-> 0]
  /\ lost' = (lost \/ \E a \in DOMAIN delayed : delayed[a] > 0)
  /\ UNCHANGED <<now, gps, ride, published, trail, calculations, announced, dead, pricing>>

\* Variant: without the unique index on the ride.
SaveFareAgain(h) ==
  LET c == fares[h] IN
  /\ c.phase = "saving"
  /\ calculations' = calculations \cup {[version |-> c.version, points |-> c.points]}
  /\ announced' = announced + 1
  /\ Step(h, Idle)
  /\ UNCHANGED <<now, gps, ride, published, trail, queue, pricing, faults>>

\* The calculation and fare.calculated are inserted, once for a ride
\* (uq_fare_calc_ride).
SaveFare(h) ==
  LET c == fares[h] IN
  /\ c.phase = "saving"
  /\ IF calculations = {}
       THEN /\ calculations' = {[version |-> c.version, points |-> c.points]}
            /\ announced' = announced + 1
            /\ Step(h, Idle) /\ UNCHANGED queue
       ELSE Rejected(h) /\ UNCHANGED <<calculations, announced>>
  /\ UNCHANGED <<now, gps, ride, published, trail, pricing, faults>>

\* Tracking has no slice yet.
TrailMissing(h) ==
  /\ fares[h].phase = "measuring" /\ slices = {}
  /\ Rejected(h)
  /\ UNCHANGED <<now, gps, ride, published, trail, calculations, announced, pricing, faults>>

\* A query fails, or Tracking does not answer within 2 s.
FareFails(h) ==
  /\ fares[h] # Idle /\ faults < MaxFaults
  /\ Rejected(h) /\ faults' = faults + 1
  /\ UNCHANGED <<now, gps, ride, published, trail, calculations, announced, pricing>>

(***************************************************************************)
(* Fare: the configurations                                                *)
(***************************************************************************)
\* create() reads the latest version and takes the time.
ReadLatest(a) ==
  /\ creating[a] = Idle /\ Len(configs) < MaxConfigs
  /\ creating' = [creating EXCEPT ![a] = [version |-> Len(configs) + 1, from |-> now]]
  /\ UNCHANGED <<now, gps, ride, published, trail, fare, configs, faults>>

\* The next version is inserted, unless it exists (uq_fare_configs_version).
InsertConfig(a) ==
  /\ creating[a] # Idle
  /\ configs' = IF creating[a].version = Len(configs) + 1
                  THEN Append(configs, creating[a].from) ELSE configs
  /\ creating' = [creating EXCEPT ![a] = Idle]
  /\ UNCHANGED <<now, gps, ride, published, trail, fare, faults>>

-----------------------------------------------------------------------------
Points == Add \/ Flush \/ FlushFails

Trip == StartRide \/ EndRide \/ \E name \in TripEvents : Publish(name)

Next ==
  \/ Tick \/ Points \/ Trip \/ RestartTracking \/ RestartFare
  \/ \E m \in published : OpenTrail(m) \/ \E h \in Finalizers : Finalize(h, m)
  \/ \E h \in Finalizers : ReadPoints(h) \/ SaveSlice(h)
  \/ \E attempts \in DOMAIN delayed : Retry(attempts) \/ RetryLost(attempts)
  \/ \E h \in Handlers :
       \/ \E attempts \in DOMAIN ended : BeginFare(h, attempts)
       \/ \E version \in DOMAIN configs : Price(h, version)
       \/ Measure(h) \/ SaveFare(h) \/ TrailMissing(h) \/ FareFails(h)
  \/ \E a \in Admins : ReadLatest(a) \/ InsertConfig(a)

Spec == Init /\ [][Next]_vars

(***************************************************************************)
(* Properties                                                              *)
(***************************************************************************)

\* However often ride.ended is delivered, a ride gets one calculation and one
\* fare.calculated, over the points of its one trail and with a configuration
\* that was and remains the one in effect at its start, whatever is created
\* later (fare-calculation.service.ts:24 "active at ride START time").
FaredOnce ==
  /\ announced = IF calculations = {} THEN 0 ELSE 1
  /\ \A c, d \in calculations : c = d
  /\ \A c \in calculations :
       /\ \E slice \in slices : c.points = slice.points
       /\ c.version \in ActiveAt(ride.started)

Waiting == \/ \E a \in DOMAIN ended : ended[a] > 0
           \/ \E a \in DOMAIN delayed : delayed[a] > 0
           \/ \E h \in Handlers : fares[h] # Idle

\* A ride whose end was published is priced, or its event is still at work, waits
\* for its retry or is in the dead-letter queue (fare-calculation.service.ts:62
\* "rather than silently"); only a copy that waited in the memory of a process that
\* restarted, or lost its connection, leaves it without a fare and without a trace.
NotForgotten ==
  (\E m \in published : m[1] = "ride.ended") /\ ~Waiting => calculations # {} \/ dead \/ lost

=============================================================================
