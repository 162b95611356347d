# ITMS: a TLA+ model of its services

ITMS is a ride-hailing backend: twelve NestJS services in `src/services`, each with its own
PostgreSQL schema, that talk over a RabbitMQ topic exchange (`src/libs/events`), a few internal
HTTP calls, and Redis. This directory holds TLA+ modules of these services, the TLC configurations that check them, and machine-checked proofs.

Paths below are relative to `src/`; `RS`, `MS` and `PS` stand for
`services/ride/src/rides/ride.service.ts`, `services/dispatch/src/matching/matching.service.ts`
and `services/payment/src/payments/payments.service.ts`.

## 1. The system

### Ride (`services/ride`)
* **State.** Table `rides` (status, driver, vehicle, arrived_at, rematch_count, fare, ...) with two
  partial unique indexes (one active ride per passenger, one per driver), `ride_transitions`
  (audit), `outbox`.
* **Operations.** HTTP: `requestRide`, `cancel` (passenger), `accept`, `arrived`, `start`, `end`,
  `noShow`, `driverCancel`, `rate`, `raiseSos`. Bus: `onDispatchExhausted`, `onFareCalculated`,
  `onPaymentCompleted`, `onPaymentFailed`.
* **Shape.** Every handler loads an entity with `findOne`, checks it, and hands it to
  `apply()`, which computes `transition()`, mutates the entity and calls the ORM's `save()` in a
  transaction with the outbox insert. There is no lock and no version column. `save()` reloads the
  row, and writes the columns in which the *loaded* entity differs from it. So handlers of
  one ride that overlap can write stale columns back.
* **Hard.** Overlapping handlers; `accept` waits for an HTTP answer between check and save; the
  re-match cap; saga events that arrive late or twice.
* **Correct when** a passenger and a driver have one active ride; whoever is the driver won the claim;
  terminal rides stay terminal; columns agree with the status; a matching ride does not match for ever.

### Dispatch (`services/dispatch`)
* **State.** All in process memory: the map `active` of matches with their timers, `DriverRegistry`
  (who is online, paired, on a ride, whose tracker is fresh), `ZoneCache`. In Redis: the key
  `ride:{id}:claim` with 5 s to live.
* **Operations.** `startMatching` (ride.requested), `runRound`/`onTimeout` (setTimeout), `claim`
  (HTTP from Ride), `resolve`, `cancelMatch` (ride.cancelled), registry updates
  (driver.status.changed, vehicle.updated, vehicle.location.updated, tracker.stale, zone.updated,
  ride.completed, ride.cancelled), restart.
* **Hard.** `claim` awaits Redis between its checks and its effects; a match object outlives its entry
  in the map; the key expires; a restart forgets everything but the key.
* **Correct when** exactly the first accepted driver wins a match, every match ends, one match per
  ride runs.

### Payment (`services/payment`)
* **State.** Tables `payable_rides`, `payments` (unique: idempotency key `pay:{ride}:{attempt}`,
  gateway reference, one success per ride), `refunds`, `outbox`; the gateway's own transactions.
* **Operations.** `onFareCalculated`, `pay`, `cashReceived`, `handleCallback`, `markSucceeded`,
  `markFailed`.
* **Hard.** Attempts are counted, inserted, charged and saved in separate awaits; callbacks overtake
  the reply of `initiate`; callbacks are repeated; a callback without a known reference is matched by ride; and the
  endpoint is public (`payments.controller.ts:47`), its verification always true (`stub.gateway.ts:21`, `:36`).
* **Correct when** a ride has one success and one `payment.completed`; nothing completes for a ride nobody reported
  as paid; the retry cap holds; a success stays a success.

### Event bus and outbox (`libs/events`)
* **State.** Per service the table `outbox`; the topic exchange and a durable queue per consuming service
  in RabbitMQ; retry timers in process memory.
* **Operations.** The relay's `tick` (publish unsent rows by `created_at`, mark each), `subscribe`'s delivery,
  acknowledgement, retry and dead-lettering.
* **Hard.** A crash between publishing and marking repeats an event. A failed event is acknowledged first and
  republished after a delay kept in a timer, and to the whole exchange, so that other services see it again
  and a restart in the delay loses it. The attempts header travels with the copy. The channel confirms nothing. The first
  of a service's `subscribe()` calls starts to consume, and a message without a handler is acknowledged.
* **Correct when** what is recorded is handled by every bound service, given up after the retries, or lost in a known way.

### Tracking and Fare (`services/tracking`, `services/fare`)
* **State.** Live locations (Redis) and tracker health (table); the device registry, the buffer of GPS points and
  the open trails in memory; the tables of points and trail slices. Fare: configurations and calculations.
* **Operations.** Pings over MQTT; the health scan; ride.started and ride.ended in Tracking; ride.ended in Fare, which
  asks Tracking for the distance over HTTP; the creation of configurations.
* **Hard.** Both services consume ride.ended independently, so Fare may ask before the trail is stored; a restart
  loses open trails and unflushed points; scans and pings write the same row.
* **Correct when** each ended ride gets one fare of its trail and of the configuration of its start, or is visibly given
  up; Dispatch takes a tracker for stale exactly when it is.

### Geofence (`services/geofence`)
* **State.** Tables `zones`, `zone_versions`, `vehicle_zone_pairings`, `movement_passes`, `violations`; caches of
  zones and pairings; the hysteresis state of each vehicle and the rides in progress, in memory.
* **Operations.** Zone and pairing management, passes, the detector on each location event, acknowledge / resolve /
  escalate.
* **Hard.** The detector decides on state it stores only after two awaits; caches are changed after the commit.
* **Correct when** an open violation is the one that is tracked, opened after the full dwell; caches and tables agree.

### Driver, Passenger, Auth
* **Driver.** Tables `drivers`, `driver_vehicle_assignments`, `suspensions`. Provisioning (calls Auth), approval, assignment,
  suspension and its lifting, the online toggle, licence expiry. Status events are recorded outside the
  transaction that changes the driver.
* **Passenger.** Profile (created over Auth), block, saved methods, the projection of completed rides.
* **Auth.** Codes, users, devices, refresh token families, the login of administrators.
* **Hard.** Every handler loads, changes and saves an entity without a lock; creations ask another service first.
* **Correct when** who is online may drive and is announced; pairings exclude each other; a block holds; one token per
  family is live; codes are bounded and open one login.

### Notification, Document, Admin reporting
* **Notification** logs a message, hands it to a provider, settles the row and publishes the outcome; **Document** keeps a
  row per upload and publishes its completion. Both publish without an outbox.
* **Admin reporting** counts events in projections, deduplicated by `(event_id, projection)`.
* **Correct when** what was done is what the rows and the events say; nothing is counted twice.

### The others
The shared libraries (geometry, errors, guards), the three applications, which are arbitrary callers here, and the
deployment files.

### How a ride flows
`requestRide` inserts the row and ride.requested; Dispatch opens a match and offers it to eligible
drivers round by round; a driver's `accept` asks Dispatch's `claim` over HTTP and, if it won, saves
the assignment; `arrived`, `start`, `end`; ride.ended makes Tracking and Fare compute the fare;
fare.calculated makes the ride payable; payment.completed ends it. If the match runs out, dispatch.exhausted
closes the ride. If the driver cancels, the ride goes back to matching, at most
`RIDE_MAX_AUTO_REMATCH` times.

## 2. The modules

| Module | Models |
| --- | --- |
| `Parties` | the rides and drivers Ride and Dispatch both speak of |
| `RideStates` | the pure transition table of the ride state machine |
| `RideService` | the ride rows, overlapping handlers, unique indexes, outbox |
| `Dispatch` | matches, timers, rounds, claim over Redis, projections, restart |
| `FirstAcceptWins` | the abstract promise of matching |
| `RideDispatch` | the two services composed: bus, redelivery, the HTTP claim with its timeout |
| `Payments` | payment attempts, callbacks, the gateway as an environment |
| `SerialPayments` | the same, its handlers optionally taken one at a time |
| `EventBus` | outbox, relay, exchange, queues, retries, dead letters, restarts |
| `Trackers` | ingestion of a tracker's pings, live layer, health scan, what Dispatch hears |
| `Zones` | zones, versions, pairings, and the caches behind them |
| `Violations` | the violation detector, authorisations, the handling of violations |
| `Billing` | the trail and the fare of a ride, configurations |
| `Reporting` | the projections of Admin reporting |
| `RefreshTokens`, `Logins` | token families; codes, registration, provisioning, devices |
| `Fleet` | drivers, assignments, suspensions, online status |
| `Passengers` | profile, block, saved methods, ride history |
| `Documents`, `Notifications` | uploads; messages and their log |
| `EventDriven` | `EventBus`, `Zones`, `Trackers` and `Dispatch` (which it extends), side by side |
| `Services` | the parts that keep records of their own, side by side |
| `RideServiceProofs` | theorems about `RideService` |
| `DispatchProofs` | theorems about `Dispatch`, its refinement of `FirstAcceptWins` among them |
| `RideDispatchProofs` | theorems about the composition, on top of those of its two parts |
| `PaymentsProofs` | theorems about `Payments` and `SerialPayments` |
| `EventDrivenProofs` | theorems about `EventBus`, `Trackers` and `Zones`, in `EventDriven`, on top of those of `Dispatch` |
| `AuthProofs` | theorems about `RefreshTokens` and `Logins`, in `Services` |
| `FleetProofs` | theorems about `Fleet` and `Passengers`, in `Services` |
| `RecordProofs` | theorems about `Billing`, `Documents`, `Notifications`, `Violations` and `Reporting`, and the types of all of `Services` |
| `MC*` | instances for TLC |

Definitions marked `Variant` are plausible wrong versions of the definition that follows them; no
specification uses them. They show which mistake each property would catch.

### RideService
One variable per table plus `calls` (what each concurrent handler is in the middle of) and the
histories `published` and `won`. A handler is `Begin` (findOne, ownership and status checks, and
`canTransition`, which throws before anything is written), for `accept` a
wait for `ClaimWon` or `ClaimLost`, then `Select` (save's reload and comparison: the column set is
fixed here) and `Commit` (the UPDATE of those columns, the outbox row and the unique indexes). These are the
points between which the code awaits. A handler refused by a check changes nothing and is not
a step. `Permitted` holds the guards, `ActionOf` the state-machine action, `Mutate` the callback of
`apply()`, `Emitted` its event. `driverCancel` at the cap passes `skipTransition`, which is
`SkipsTransition`. Timestamps, the fare's amount and the vehicle are reduced to whether they are set
(the vehicle changes together with the driver and is left out). A failed commit leaves the row alone.
Lock waits need no step of their own: they delay `Commit`.

### Dispatch
Match objects have an identity (`MatchIds`), because callbacks keep a reference to the object while
`active` may lead to another one. `RunRound` is the broadcast to eligible drivers and the new timer,
`OnTimeout` expands or exhausts, `Resolve` is `resolve()` (and deletes the map's entry of the ride,
whichever match that is). A claim goes through `Claim` (checks on `active` and
`offered`), `TryClaim` (Redis executes SET NX PX), `ClaimGranted` (the continuation after the await),
and `Answer`. `ClaimFails` is a Redis error before or after the SET. `ExpireKey` is the key's
5 s. Nothing in the code keeps it from ending under a claim that has met it; `"slow" \in Feed` lets it, and
`KeyOutlastsClaims` names the assumption that it does not, which the runs make and the theorems state.
Time is only an age per match, in units of half an offer window, with timers up to `MaxLate` late.

### FirstAcceptWins
Offers only grow while nobody has won; one offered driver wins; nothing changes after. `Dispatch`
implements it under the mapping `offered[m] <- matches[m].offered`, `winner <- winner`.

### RideDispatch
Extends both `RideService` and `Dispatch`: their variables and actions are its own, and every action names the part it
leaves alone. Ride's worker is the caller slot of its claim (`CallersAssumption`). `queue` is `dispatch.q`;
`Redeliver` puts any published event in it again; `Timeout` is the HTTP client's 2 s limit, after which the
claim goes on in Dispatch and its answer is dropped; `DispatchRestart` cuts claims under way. A
worker starts its next call only when the claim it abandoned is gone, which reuses the slot and
bounds the abandoned claims by the workers.

### Payments
`calls` carries the entity a handler loaded or created; it is that entity, status included, that is saved
later. Saving is again two steps, `Select` and `Commit`, for all three places that save: the pending branch of `pay`,
`markSucceeded` and `markFailed`. The gateway is external and not trusted: `Callback` may name any ride and any transaction, at
any time, repeatedly and with either outcome, because the code accepts that of anybody (against `docs/specs.md` 8.1). The
history `reported` keeps which rides and transactions have been called paid, by a reply or a callback.
`SerialPayments` adds `serial`, chosen in the initial state: if it is true, no handler begins while
another is under way, which is what two of the properties need.

### The smaller services
Their modules share a shape. A row of a table is a record or `No...`; `calls` says what each concurrent handler
has read and is about to write; an operation is one action up to its first await and one for each
later write; `Stop` or a similar action ends a call anywhere (database error, bus error, end of the
process). `overlapped` and the like are histories: they record that the code's unlocked read-then-write was exercised by
two calls on the same row, so that a property can say what holds without it. Where a property holds under every overlap
(`NeverOvercounted`, `RegisteredOnce`, `GivenUpAfterRetries`, `FaredOnce`, the bound on saved methods up to the
additions that overlapped), it is stated so.

* **EventBus.** A message is an event with its x-attempts header. `Relay...` is a tick's publish, mark or end, `RelayFails`
  its end in the middle, `RelayPublishLost` a message the broker never gets. `Subscribe` is one call of a service's
  `onModuleInit`; from the first on, `Deliver` takes up to `Prefetch` messages with a handler and `AckUnhandled` drops the others
  (only Tracking has two calls: `trail.service.ts:36`, `device-registry.service.ts:16`). `Finish` is a handler's success or failure;
  `Timer` republishes to all services bound, `TimerLost` to nobody; `Restart` returns unacknowledged messages to the
  queue, drops the timers and the subscriptions. Queues and bindings are there from an earlier start, as they are durable. The outbox
  is read by `created_at`, which is the start of a transaction, so rows become visible in any order.
* **Trackers.** One vehicle. A ping is read, written to the live layer and to `tracker_health`, then throttled and
  published; the scan reads all rows, saves the whole entity and publishes `tracker.stale`. The throttle compares the tracker's own
  timestamps, which may be up to `Skew` ahead, with the interval. Dispatch's view is the last event it heard.
* **Zones.** A boundary is its version number. Transactions are split where READ COMMITTED lets another in; cache reloads are
  split between their two queries.
* **Violations.** One vehicle; geometry is reduced to inside or outside. The state is stored after the authorisation query and
  after the insert or update of a violation. Rides, passes and the return window authorise; a restart
  forgets the state and the rides, not the rows. `dwelt` and `closings` in a violation are histories.
* **Billing.** A GPS point is its time, a trail its set of points. Ride only publishes start and end, with the
  publication time, not the ride's columns, as `occurred_at`. `ReadPoints`, `Finalize` and `SaveSlice` are Tracking's
  handler; `BeginFare`, `Price`, `Measure`, `SaveFare` are Fare's, `TrailMissing` the 404 that makes it retry. A rejected copy waits
  in `delayed`, Fare's memory, until `Retry`; `RestartFare` and `RetryLost` (a broken connection) lose it, recorded in `lost`.
* **Reporting.** One row per table: one day, zone, driver and method. Each projection is a transaction that inserts
  into `processed_events`, reads, and saves.
* **RefreshTokens, Logins.** `rotate()` finds, revokes and mints in separate statements. `RevokeFamily` changes no row: its
  criteria hold `revokedAt: undefined` (`token.service.ts:61`), a comparison with no value, which is true of no row. `verify()` compares before it saves
  the attempt; registration runs into the unique phone.
* **Fleet, Passengers.** `save()` writes the columns that differ from the row by then, as in `RideService`. `assignVehicle` is
  a transaction of four statements under READ COMMITTED: `CloseOfDriver`, `CloseOfVehicle` (each sees the rows committed
  by then) and `AssignVehicle`, the insert, save and commit.
* **Documents, Notifications.** Publication is a step of its own after the save.

`EventDriven` and `Services` put several of these modules under one run. The modules share no variable, so a behaviour of all of
them is an interleaving of behaviours of each, and a property of one depends on its own part only: `focus`, chosen in
the initial state, names the part that moves. Nothing is lost, and the state spaces add instead of multiplying.
`MCEvents` and `MCServices` give them their constants for TLC.

## 3. What the runs check

Passing runs:

| Run | Question | Bounds |
| --- | --- | --- |
| `ride_overlap` | do claims, the cap, the order of events and the end of a ride survive any two overlapping handlers? | 1 ride, 1 driver, 2 handlers, 1 re-match, 2 unsent events |
| `dispatch_race` | does only the first accepted driver win, and does a ride have one running match, with two claims, repeated requests, cancellations, timers, late callbacks, key expiry, Redis errors and restarts? | 1 ride, 2 drivers in 2 zones, 2 claims, 3 matches |
| `rd_faults` | is the driver of a ride always a winner of its match, and does a ride that is over change only by a stale save or at the cap, with HTTP timeouts, restarts and a repeated event? | 1 ride, 2 drivers, 2 handlers, 2 matches |
| `rd_ends` | does a ride stop matching, with a re-match, drivers going offline and overlapping handlers? | 1 ride, 1 driver, 2 handlers, 3 matches |
| `rd_trip` | do the columns agree, and is a busy driver known to Dispatch, over all operations of two successive trips? | 2 rides, 2 drivers, 1 handler, 3 matches |
| `pay_overlap` | is a ride's payment reported by somebody, within the cap, and undone only by a stale save, for overlapping pay, cash and callbacks; and is a success final and announced once when handlers do not overlap? | 3 payments, every gateway answer, any callback; 1 ride and 2 handlers, or 2 rides and 1 at a time (`serial`) |
| `events` | is every recorded event delivered, given up only after the retries, or lost in a known way; do zones and caches, trackers and Dispatch agree; does every match end from a cold start while every projection changes? | 2 events, one of them bound, 2 services, one with 2 subscriptions, 1 retry; 2 zones, 1 vehicle, 4 calls; 2 pings over 4 time units, sampled every 2, stale after 1, up to 2 ahead; 1 ride, 1 driver, 2 matches; 1 fault each |
| `services` | do nine record-keeping parts keep their promises with overlapping and interrupted calls? | 2 calls at a time, 2 drivers or 1 vehicle, phone, user, ride; 3 tokens, 2 codes, 3 methods, 2 configurations, 3 finalizations, 3 messages; 1 fault each |

`ride_overlap` and `dispatch_race` check `RideTypeOK` and `DispatchTypeOK`, the type invariants, under those names because
`RideDispatch` has both. `events` checks `TypeOK` and `NothingLost`, `GivenUpAfterRetries`, `Delivered` of `EventBus`; `ZonesCoherent` is
`PairingsCoherent` and `RegistryAgrees` of `Zones`; `DispatchAgrees` of `Trackers`; `MatchEnds` of `Dispatch`. `OverStaysOver` names the two ways in which a ride that is over changes;
`CompletedWasReported` and `SuccessUndoneByStale` say the same kind of thing of payments. `services`
checks `TypeOK` and, per part: `ProjectionsAgree` (`ExactlyOnce`, `NeverOvercounted`), `ViolationsSound` (`OpenIsTracked`,
`DwellRespected`), `OneLiveToken`, `AccountsSound` (`RegisteredOnce`, `OneActiveDevice`), `CodesBounded`, `OnlineIsFit`,
`PairingExclusive`, `OnlineIsAnnounced`, `PassengerKept`, `FaredOnce`, `NotForgotten`, `AnnouncedAsStored` (of `Documents`, and
`DeliveryLogged` of `Notifications`). `dispatch_race` leaves the projections alone but for restarts (`RaceSpec`); the
`events` run lets them change.

Why these bounds are enough: the hazards are between two handlers (of one row) or one handler and a
timer, event or callback, so two workers and one or two rows exhibit them. A third payment is what a
retry after the cap needs, a third match what a re-match after an exhausted match needs, two drivers
what a lost race needs. In the smaller services two calls at a time on one row are what an unlocked read-then-write needs,
and one fault is what a stop between two writes needs; the second event, which nobody consumes, is what makes the relay's batch and
the order of its rows count; one retry shows a republished copy reaching the other service, a third token a rotation followed by reuse, two
configurations one before and one after the ride's start. `MaxOutbox` and `MaxQueue` delay a commit or the relay: events still
overtake handlers, and the two places of the outbox in `ride_overlap` let the order of its events matter. In `rd_ends` callers do not cancel: two handlers can then ask for more matches than
`MatchIds` has, and the bound, not the code, would stop the ride. Its one driver is still busy for
Dispatch when the ride he gave up is matched again (the finding of `rd_released`), so that match always runs out;
a re-match that another driver wins is part of `rd_trip`. `CHECK_DEADLOCK FALSE` is said
because all rides end, all attempts are used up or all match ids are spent, and nothing is left to do.

Runs that find a disagreement with the documents:

| Run | What it shows |
| --- | --- |
| `ride_terminal` | `docs/specs.md` 3 calls terminal rides immutable. At the re-match cap `driverCancel` skips the state machine from *any* status, so the driver of a completed ride can make it `cancelled_by_driver` (RS:252) |
| `rd_lost_timeout` | `docs/specs.md` 5.4: the round re-opens if the winner is not assigned, no request is silently lost. When the claim takes over 2 s, Ride reports "lost" but Dispatch has resolved the match: no timer, no claim, and the ride stays matching |
| `rd_released` | `docs/specs.md` 5.3: drivers without an active ride are eligible. ride.cancelled never carries `driver_id`, which the consumer needs to release the driver (`dispatch-events.consumer.ts:46`), so the driver of a cancelled ride stays busy for Dispatch |
| `pay_stale_reply` | `docs/specs.md` 8.2: never two successful payments. `pay()`'s pending branch saves the entity it created before `initiate`; a callback that succeeded meanwhile is undone, and a second success is recorded |

### Further behaviours the models have
They follow from the same definitions and can be seen by checking the named formula on a small
instance. They are described here so that nobody takes the passing runs for more than they say.
* A ride that is over can come back: `accept` loads a matching ride, waits for the claim, the passenger cancels, the stale entity is
  saved as assigned (RS:136-147). `OverStaysOver` names this, and the cancellation at the cap, as the only ways.
* A claim that meets the key and then waits for Redis longer than the key lives is granted beside another one: with `"slow"` in `Feed` TLC
  finds two winners of one match in ten states. The code takes 5 s for enough (`claim.store.ts:35`).
* `claim` does not look again at whether the driver is online or on a ride (MS:114): a driver offered two
  rides can win both. The second assignment meets the driver's unique index, and its ride stays
  matching with a resolved match. If he has finished the first ride by then, the assignment is saved, and the ride.completed of
  the first, still queued, makes Dispatch count him as free (two passengers show it): `BusyDriverKnown` needs that offers
  have run out when a ride of their driver ends.
* A claim that resumes after its match was exhausted still wins it (the reason `ends` is a
  set); the ride may already be closed.
* `resolve()` by such a late winner deletes the entry of a newer match of the ride; a repeated
  ride.requested then starts a second running match (MS:165). `OneRunningMatch` therefore exempts rides
  with a match won late.
* An offered driver without a paired vehicle passes the SET and then loses, and blocks the others
  until the key expires.
* A ride.completed delivered again after the driver took the next ride marks a busy driver free:
  `BusyDriverKnown` needs single, ordered delivery as well, which `libs/events` does not promise.
* A declined callback that is repeated is matched by ride to the *next* pending attempt, if its own
  reference was never stored, and fails it (PS:132).
* Two charges can succeed for one ride. The second is not recorded as a success, and nothing refunds it.
* The callback endpoint is public and both gateways' `verifyCallback` is `true`, while `docs/specs.md` 8.1 asks for verified callbacks:
  whatever a callback reports is believed. `CompletedWasReported` therefore says no more than its name.
* An event is lost without any fault when it waits for a service that subscribes in several calls and arrives between the first one and its
  own (`event-bus.service.ts:109`), as after a restart of Tracking. It is lost with a fault when the connection breaks after `publish()`, which
  confirms nothing (`:65`), or in the delay of a retry (`:139`).
* No queue is bound to the dead-letter exchange (`libs/events/src/event-bus.service.ts:51`, `:95`): what is
  dead-lettered there disappears unless the broker is configured elsewhere.
* `driver.suspended` (`drivers.service.ts:202`, `:282`) is consumed by nobody and comes without a
  `driver.status.changed`, so Dispatch keeps offering rides to a driver suspended while online, against D-02 in
  `docs/specs.md:47`.
* ride.cancelled carries no vehicle, so Geofence's `markRideEnded` is never called for a cancelled ride and its vehicle stays
  authorised until a restart.
* A tracker first scanned after the dead cutoff goes from ok to dead without `tracker.stale`; a late ping or the throttle delays the
  recovery: the throttle counts in the tracker's timestamps (`sampling-throttle.ts:17`), which may be up to a minute ahead
  (`ping.ts:63`), so a ping from the future suppresses correctly dated samples, and Dispatch can keep a tracker that has
  recovered out for the skew and an interval more. A scan's save can overwrite a newer ping. The device registry is lost on restart, and pings of
  unknown devices are dropped. The exceptions in `DispatchAgrees` are these.
* A restart of Tracking during a ride loses its trail; Fare then gives up after the retries and the ride stays without a fare
  (`NotForgotten` counts that as given up, dead-lettered). A restart of Fare in the delay of a retry
  leaves the ride without a fare and without a trace. Points not flushed when ride.ended arrives are missing from the trail.
* Two overlapping `pairVehicle` calls can leave two open pairings: no index forbids it. Two overlapping `create` calls of
  a fare configuration cannot, since the version is unique; one fails. Two overlapping `assignVehicle` calls can leave two open
  assignments of a driver or a vehicle, for the same reason.
* `reject()` leaves an approved driver who is online as he is (`drivers.service.ts:104`): pending and online.
* A reused refresh token is refused, but its family is not revoked, against the comment at `token.service.ts:51`: the update's criteria
  match no row, and the live token stays valid.
* Two refreshes with one token that overlap leave a family with two live tokens, and overlapping attempts at a code count
  once; a stale save can make a consumed code usable again.
* A stale profile save can undo a block. Removing the default method leaves none. The Passenger service names its users by
  its own ids and rides by Auth's, so the rides projected are never listed and the unsettled ride is never set;
  the handler of payment.failed does nothing.
* Drivers are looked up by the Auth id among primary keys in the on-trip handlers, which find nobody.
* A repeated `notify` sends again: nothing identifies a message. A file counts as clean as soon as it is finalized, by a stub.

### Fairness
`DispatchFairSpec` of `Dispatch`: weak fairness of each match's `OnTimeout`; Node runs expired timers, in
a process that stays up (no restart in those runs). `FairSpec` of `RideDispatch` adds: a handler finishes
what it began (database and HTTP calls return), the relay polls, Dispatch drains its queue, and
dispatch.exhausted is delivered. The last is strong fairness because only the model has a
limited number of workers; in the process a delivery never waits for another handler. It is needed
once per exhausted match. No fairness is assumed of passengers, drivers, redelivery or key expiry.
In `EventDriven`, weak fairness of the bus: the relay polls on a timer, the broker delivers, a handler returns or throws, a
retry timer fires. Handlers may fail every time and restarts are bounded, not fair. `MatchEnds` uses Dispatch's own
fairness. `Payments` and `RideService` on its own state no liveness: a customer may never pay.

## 4. What is proved

All proofs hold for every value of the constants that meets the modules' named assumptions: the
nulls are distinct from the values, the caps are naturals, Ride's workers are the callers of Dispatch
(`CallersAssumption`), and for the smaller parts `BusAssumption`, `ZonesAssumption`, `SessionAssumption`, `AccessAssumption`,
`FleetAssumption`, `BillingAssumption`, `MediaAssumption`, `NoticeAssumption`, `ProfileAssumption`, `ReportingAssumption` and
`DetectorAssumption`, which say that bounds are naturals, finite sets finite and nulls no values. `TrackerAssumption` says besides that a sample is due before a
tracker is stale (30 s and 60 s by default, `services/tracking/src/config/configuration.ts:61`). TLC evaluates each of them in the runs.

Some theorems have a hypothesis, named in the statement: `KeyOutlastsClaims` (no claim key expires under a claim that has met it;
Redis and the process may be slower than that, and then the conclusion is false), which every run makes, and `[]HandlersApart` (no
two handlers are at work on one ride), which `rd_trip` meets. `OneRunningMatch` has the first as a premise of its own.

| Theorem | Property | Says |
| --- | --- | --- |
| `RideServiceProofs!RideTypeCorrect` | `RideTypeOK` | rows stay rows; the re-match counter stays within its cap |
| `RideServiceProofs!DriverWonItsClaim` | `DriverWonClaim` | whoever is the driver won the claim for that ride |
| `RideServiceProofs!CompletionAfterAssignment` | `CompletionFollowsAssignment` | no ride.completed with a driver before his ride.assigned |
| `RideServiceProofs!RowsStayCoherent` | `RowCoherent` | columns agree with the status, if handlers of a ride do not overlap |
| `RideServiceProofs!OverRidesStayOver` | `OverStaysOver` | under any overlap, a ride that is over changes only by a stale save or a driver's cancellation at the cap |
| `DispatchProofs!DispatchTypeCorrect` | `DispatchTypeOK` | a match whose timer runs is unresolved |
| `DispatchProofs!WonMatchStaysGuarded` | `WonMatchIsGuarded` | a claim that is still under way on a won match cannot win as well, while keys outlast claims |
| `DispatchProofs!ImplementsFirstAcceptWins` | `FirstAcceptWins` | `Dispatch` implements `FirstAcceptWins`, if keys outlast claims |
| `DispatchProofs!OneMatchRuns` | `OneRunningMatch` | a ride has one running match, however often it is requested, but for a match won late |
| `RideDispatchProofs!CompletionAfterAssignmentTogether` | `CompletionFollowsAssignment` | as for Ride alone, with Dispatch in place of arbitrary answers |
| `RideDispatchProofs!OverRidesStayOverTogether` | `OverStaysOver` | as for Ride alone, with timeouts, restarts and repeated events |
| `RideDispatchProofs!RowsStayCoherentTogether` | `RowCoherent` | as for Ride alone, if handlers of a ride do not overlap |
| `RideDispatchProofs!FirstAcceptWinsTogether` | `FirstAcceptWins` | the composition implements `FirstAcceptWins`, if keys outlast claims |
| `RideDispatchProofs!DriverIsTheWinner` | `DriverIsWinner` | the driver in Ride's row is the winner of a match of that ride in Dispatch, if keys outlast claims |
| `RideDispatchProofs!OneMatchRunsTogether` | `OneRunningMatch` | the same as `OneMatchRuns`, with any repetition of events and any overlap of handlers |
| `PaymentsProofs!TypeCorrect` | `TypeOK` | only inserted payments complete |
| `PaymentsProofs!CompletionWasReported` | `CompletedWasReported` | no digital completion of a ride that nobody, gateway or caller, has reported as paid |
| `PaymentsProofs!OnlyStaleUndoes` | `SuccessUndoneByStale` | a success is undone only by a save of an entity loaded before it |
| `PaymentsProofs!RetryCapHolds` | `RetriesCapped` | overlapping `pay` calls do not exceed the cap |
| `PaymentsProofs!SuccessFinalInTurn` | `SuccessIsFinal` | a success is never undone, for handlers one at a time |
| `EventDrivenProofs!NothingLostOnTheBus` | `NothingLost` | what was sent is handled, dead or on its way, but for what a fault dropped and what a service with several subscriptions acknowledged between them |
| `EventDrivenProofs!GivenUpAfterOwnRetries` | `GivenUpAfterRetries` | giving up takes one's own failures, not those of other services, unless a copy was acknowledged unhandled |
| `EventDrivenProofs!DispatchHearsTheTracker` | `DispatchAgrees` | Dispatch takes a tracker for stale exactly when it is |
| `EventDrivenProofs!ZonesAndRegistryCoherent` | `ZonesCoherent` | one open pairing per vehicle, the announced one; gapless versions; caches follow the tables |
| `EventDrivenProofs!EventDrivenTypeCorrect` | `TypeOK` | the bus, the zones, the trackers and Dispatch stay well typed: prefetch within its limit, bound events only, caches that name zones |
| `AuthProofs!OneLiveTokenAlways` | `OneLiveToken` | one live refresh token per family whose rotations do not overlap |
| `AuthProofs!AccountsStaySound` | `AccountsSound` | one registration per phone, one active device per driver |
| `AuthProofs!CodesStayBounded` | `CodesBounded` | guesses at a code and codes in a window are bounded, a code opens one login |
| `FleetProofs!OnlineIsFitAlways` | `OnlineIsFit` | who is online has a vehicle and no open suspension |
| `FleetProofs!PairingExclusiveAlways` | `PairingExclusive` | a driver and a vehicle no calls overlapped on have no other open assignment, and it is the current one |
| `FleetProofs!OnlineIsAnnouncedAlways` | `OnlineIsAnnounced` | who is online has been announced |
| `FleetProofs!PassengerKeptAlways` | `PassengerKept` | a block stays, and saved methods keep their bound and one default |
| `RecordProofs!FaredOnceAlways` | `FaredOnce` | one calculation, over one trail, with the configuration of the start |
| `RecordProofs!NoRideForgotten` | `NotForgotten` | an ended ride is priced, being priced, dead-lettered, or its copy was lost from Fare's memory |
| `RecordProofs!AnnouncedAsStoredAlways` | `AnnouncedAsStored` | documents and notifications are announced as they are stored |
| `RecordProofs!ViolationsSoundAlways` | `ViolationsSound` | an open violation is the tracked one, opened after the full dwell, and closed once |
| `RecordProofs!ProjectionsAgreeAlways` | `ProjectionsAgree` | no counter ever exceeds what was processed, and it is exact where transactions did not overlap |
| `RecordProofs!ServicesTypeCorrect` | `TypeOK` | all nine record-keeping parts of `Services` stay well typed, whatever overlaps or stops |

The properties of the smaller services speak of phones, families, drivers, rows and so on no two calls have overlapped on; that is part
of each property (section 3), not of the theorem.

### The arguments
* **Ride, types.** `RideTypeOK` is not inductive: the entity a call saves is a row only if the call passed its checks on
  the snapshot it carries (else the state machine has no next status, and the counter might pass its cap).
  `TypeInv` adds `CallsChecked` and `CallsOnRows`. The cap holds although it is read and written apart because
  the *same* snapshot is checked and incremented.
* **Ride, rides that are over.** `OverImage`: of the operations whose checks pass on a ride that is over, a fare leaves the status alone and
  the rest is a driver's cancellation at the cap. So when a save changes the status of such a ride, either it is that one, or the entity was
  loaded in another status than the row has by then (`OverStep`); and one loaded as over stays over.
* **Ride, the driver column.** `DriverWonClaim` is not inductive either: a stale save may put back any driver its
  snapshot names. `ClaimInv` adds that every snapshot in flight names a winner (`SnapshotDriverWon`) and that an
  `accept` past its claim is made by one (`AcceptorWon`). `ImageDriver` says where the driver of a saved entity can come
  from: the snapshot, the acceptor, or nobody.
* **Dispatch, one winner.** A match object does not say that it has been won until the claim resumes, so what keeps
  a second claim out is the key. `DispatchInv` says that granted claims of one ride exclude each other
  (`GrantedApart`), that they hold a key, that a won match is resolved, which stops new claims (`WinnersEnded`), and
  that claims are about matches of their ride that were offered to their driver (`CallsOnMatches`). The parts about keys have
  `KeyOutlastsClaims` as their premise; the types do not need it.
* **Dispatch, refinement.** `StepShape` sorts the steps: those that at most end matches, one round of one match
  without a winner, and one win by a driver it was offered to. The first stutter under the mapping, the second are
  `Offer`, the third `Win`.
* **Dispatch, one running match.** `RunInv`: a match that has not ended is the one the map leads to, unless the ride has a match won late
  (`UnendedActive`), in which case `resolve()` may have deleted another's entry; and a match that ended by a win has a winner
  (`WonHasWinner`), so that no second win of it, which could do the same, is granted. Two running matches of a ride would both be the one
  the map leads to. Neither repeated requests nor restarts disturb this, so the composition has it as it is.
* **Payment, reports.** A completion is decided several steps before it is recorded, about an entity that was
  matched by reference or by ride. `PayInv` carries the decision along: a call that may record a digital
  success has heard of it for its ride or attempt (`Coherent`, `Succeeding`, `Heard`), and a reference stored with an attempt is its own or came
  with a report about the ride (`RefsCoherent`). `Grows` collects what every step keeps.
* **Payment, undone successes.** No call carries an entity that was loaded as succeeded to another status: only `markFailed` would, and it
  checks the entity (a part of `Coherent`). So a save that undoes a success has an older snapshot (`StaleStep`).
* **Payment, the cap.** The number counted by a handler is within the cap (`AttemptsNumbered`), and the idempotency
  index keeps the numbers of a ride apart (`IndexesHold`); numbering is an injection into `1..MaxDigitalRetries`.
  This needs that finitely many payments exist (`PaymentIdsAssumption`), else they could not be counted.
* **Ride, the order of events.** What ride.completed names is the driver of an entity that may be stale, so the property is not
  inductive. `AssignmentsTold`: whoever is the driver in a row, or in a snapshot in flight, has had ride.assigned recorded, published or
  still in the outbox. `OutboxOrdered`: in the outbox a ride.completed has its ride.assigned before it, or on the bus already. The relay
  takes the outbox from its head.
* **Ride, handlers apart.** With two handlers on a ride `RowCoherent` is false (section 3), so the theorems assume
  `[]HandlersApart`: no two calls that have loaded a ride are at work on it. That is what the run `rd_trip` has with one worker; the
  hypothesis allows any number of workers on different rides. Under it `SerialInv` holds: an entity is the row it was loaded from until its
  handler commits, so the commit replaces the row by what the state machine makes of it; and a ride whose ride.ended was recorded
  has ended, which is when a fare may arrive (`EndedRides`).
* **The composition.** Each step of `RideDispatch` is a step of Ride or leaves it alone (`RideSide`), and one of Dispatch or leaves it alone
  (`DispatchSide`); so the invariants of the two carry over, and their theorems with them. `LinkInv` links the two: a claim belongs to
  the call that waits for it (`ClaimsLinked`), a claim answered "won" has a match of its ride with its driver as winner (`WonClaims`),
  and so has every pair in Ride's `won` (`WinsKnown`), for good (`WinsStay`). With `ClaimInv` (a row's driver is in `won`) this
  gives `DriverIsWinner`, whatever was lost, late or delivered again, while keys outlast claims.
* **Payment, one at a time.** `SerialInv` of `PaymentsProofs`: the entity of the handler at work is the row it will be saved to (`Current`), so a save
  changes a status only from what the handler checked.
* **The bus.** Queues hold several copies of an event, and a handler's end removes one, so the invariant counts. `SentIsHeld`: what was
  published, marked as sent or not, has ended at every service bound to it, was dropped or acknowledged there, or has a copy there; `LossExplained` says
  what the second takes. `TriesCovered`: a copy with n attempts
  behind it, *wherever* it is, was preceded by copies with 0 to n - 1; these reached every service bound to the event, and each has failed
  on them or has them still. So when an event is dead at a service and no copy is left there, its own failures reach the limit. A copy
  acknowledged unhandled breaks the count for that service and event, which is the exemption of the property. The
  lemmas before it say what appending, removing and republishing do to the counts.
* **Trackers.** `TrackerInv` follows a ping and a scan by their next step (`PingKnows`, `ScanKnows`): what is read is the row until it is saved, and
  between the save and the event Dispatch's view is one event behind (`HeardFollows`). That a recovery is published needs arithmetic on the
  throttle: a tracker that is not ok has been silent longer than `Stale`, so its next ping is an interval after the last sample, which is
  why `TrackerAssumption` is needed.
* **Zones.** `ZoneInv` says of the call at work what it has read (`ZoneKnows`): the version it will write, the pairings it will close, and, for
  a cache reload between its two queries, the zones it has read. One open pairing per vehicle is a statement about
  positions in the table; the lemmas turn it into the cardinality the property counts.
* **Refresh tokens.** `FamilySound`, for a family no two rotations overlapped on: one of them at most is at work on it; if it is about to revoke the
  token it found, no other is live; if it is about to mint, none is. A reused token changes nothing, since the update matches no row.
* **Logins.** `RegisteredOnce` holds under every overlap because the phone is unique. For a phone its calls never overlapped on: each code's row
  counts the comparisons made, but for the one the call at work is about to save (`CodeSound`); a call that has counted the codes of
  the window may still add one (`WindowSound`); a login that has deactivated the devices finds none active (`DeviceSound`). Sets of codes
  and devices are compared by cardinality.
* **Fleet.** `FleetInv`: the one call on a driver nobody overlapped on carries the row as it is. Going online is decided on that
  entity, counts the suspensions, and saves later; nothing else can have moved in between. `OnlineIsAnnounced` has the publishing call itself as the exception.
  An assignment commits what its transaction has found to close: `Knows` says that it has found the open assignments of its driver,
  `VehicleInv` those of its vehicle, each as long as no call overlapped on that side. Calls on others may meanwhile commit anything else.
* **Passengers.** `StatusKept`: the entity of a profile update carries the status that was decided, as long as no two saves overlapped. The bound on
  methods counts the additions under way with the methods (`Bounded`): each was admitted below the bound or is in the excess.
* **Fares.** `FaredOnce` holds under every overlap: the ride is unique in the table of calculations, and fare.calculated is recorded in the
  same transaction. That the configuration chosen *remains* one in effect at the start needs time: a calculation comes after the ride's end, hence
  after its start (`Underway`), and a configuration that is being created takes effect now (`CreatedNow`), later than that start. `NotForgotten`
  is inductive with it: whoever gives a message up puts it in Fare's memory or in the dead-letter queue, and a restart or a lost connection that empties the memory is recorded.
* **Documents, notifications.** A publishing step comes after the save it announces; the row it announces must not change in between.
  `UploadInv` and `NoticeInv` say what the calls under way know about their rows.
* **Violations.** The detector stores its state after two awaits. `DecisionHolds`: what a handler decided on (no violation open and the dwell over, or
  the open one) is still so when it stores, as long as nothing disturbed the detector; `SinceStreak` ties the `since` of its memory to the
  first unexcused position, which `DwellRespected` is about.
* **Projections.** A counter is compared with the number of entries in `processed_events` that stand for it (`Tally`). `RowSound`: never above, and
  equal for a table whose transactions did not overlap; `EntitySound`, `SaveSound`: the same of the entity in a transaction and of the columns its
  save will write. Two transactions of one key exclude each other by the primary key (`Apart`).
* **Types of the smaller services.** The invariants above establish of a type only what they need. What they leave open is carried by an
  invariant of its own per part (`BusRest`, `ZoneRest`, `SessionsRest`, `FleetRest`, ...). Most of it says what a call under way
  may carry until it writes it; three parts need an argument. The relay's batch (`BatchType`) is the set of unsent events in the order
  of creation, defined by counting earlier ones: that each place is taken is the pigeonhole principle, since ranks are an injection of the set into as many places.
  A zone's version is bounded by the calls before it, also for boundary updates that overlap (`VersionsBound`). The cache of pairings
  takes the last open pairing of a vehicle, which exists however many overlapping calls left open (`PairedType`).

### Only model-checked
* Liveness (`MatchEnds`, `MatchingEnds`, `Delivered`), which is beyond the prover: fairness and ENABLED.
* `BusyDriverKnown` and `CompletedOnceSerially`. Beyond their runs' bounds both need conditions nothing in the code provides: the first single
  delivery and that a driver's offers have run out when his ride ends (`claim` does not look at the registry), the second that payment handlers do
  not overlap. The runs show what holds without those faults.

Every other property the passing runs check is a theorem.

## 5. Not modelled
* **Ride:** `rate`, `raiseSos` and the audit rows, which write tables nothing else reads; the socket gateway, which pushes copies of
  committed state.
* **Data:** fare formulas and distances, zone geometry, rendered texts, URLs, hashes and signatures. The models keep whether
  a value is there and which row or version it came from.
* **Auth:** the login of administrators (password, TOTP). Its challenge is a signed token, so it keeps no state before it
  issues a pair, which is `IssuePair`. The bootstrap script runs once.
* **Driver:** documents (approval does not look at them) and the records of vehicles. **Passenger:** the unsettled ride, which no
  reachable call sets.
* **Admin reporting:** the audit log (append only) and the reports (queries).
* **Shared libraries, applications, infrastructure:** no state of the services, or configuration.

That no ride.requested is replayed after a restart of Dispatch is modelled (the match is gone); that a ride is matched
again is nowhere promised, so no property asks for it.

## 6. Plan
1. **Done:** Ride, Dispatch, their composition, Payment; the bus; every other service but the parts listed above. Their most
   important safety properties are proved (section 4).
2. **Done:** every safety property the passing runs check is a theorem, but for two (section 4, only model-checked).
3. **Proofs left:** `BusyDriverKnown`, and `OneRunningMatch` without its exemption, need the code to change first
   (an identity for events, a second look at the registry in `claim`).
4. **Ride's rest:** `rate`, `raiseSos`, the audit trail as a path of the transition table.
