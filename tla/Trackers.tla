------------------------------- MODULE Trackers -------------------------------
(***************************************************************************)
(* The tracker of one vehicle: the ingest of its pings into the live layer,*)
(* the table of tracker health and the sampled vehicle.location.updated    *)
(* (mqtt-ingest.service.ts, ping.ts, tracking.service.ts), and the scan    *)
(* that notices its silence and publishes tracker.stale                    *)
(* (tracker-health.service.ts).  Both events are published directly, and   *)
(* Dispatch offers rides to the vehicle according to the last of the two.  *)
(* Positions are left out; the GPS points are in Billing.                  *)
(***************************************************************************)
EXTENDS Naturals

CONSTANTS
  Pings,       \* bound: messages of the tracker ingested at the same time
  Interval,    \* sampling.publishIntervalSeconds
  Stale, Dead, \* health.staleSeconds, health.deadSeconds
  Skew,        \* how far a timestamp may be ahead of the clock
  MaxTime,     \* bound on the clock
  MaxPings,    \* bound: pings that reach the pipeline
  MaxFaults    \* bound: failed queries and publications, restarts

VARIABLES
  now,
  mapped,     \* deviceToVehicle knows the device
  live,       \* the hash of the live layer: the ping's ts and its expiry, or NoFix
  health,     \* the row of tracker_health, or NoRow
  sampled,    \* lastPublished of the throttle: 0 none, else the time + 1
  ingests,    \* what each message is in the middle of
  scan,       \* what the scan is in the middle of
  heard,      \* the last of the two events about the vehicle that was published
  scanned,    \* history: when the last scan that finished began
  disturbed,  \* history: see Disturbed
  pings, faults

vars == <<now, mapped, live, health, sampled, ingests, scan, heard, scanned, disturbed,
          pings, faults>>

Times == 0..MaxTime
Stamps == 0..(MaxTime + Skew)

NoRow == [status |-> "none"]
NoFix == [ts |-> 0, until |-> 0]
Row == [status : {"ok", "stale", "dead"}, lastPing : Stamps]
Idle == [step |-> "idle"]

Ingest == [step : {"live", "touch", "publish"}, ts : Stamps]
Scan == [step : {"dead", "find"}, at : Times] \cup
        [step : {"save", "publish"}, at : Times, lastPing : Stamps]

TypeOK ==
  /\ now \in Times /\ mapped \in BOOLEAN
  /\ live \in [ts : Stamps, until : 0..(MaxTime + Dead)]
  /\ health \in Row \cup {NoRow}
  /\ sampled \in 0..(MaxTime + Skew + 1)
  /\ ingests \in [Pings -> Ingest \cup {Idle}]
  /\ scan \in Scan \cup {Idle}
  /\ heard \in {"none", "vehicle.location.updated", "tracker.stale"}
  /\ scanned \in Times /\ disturbed \in BOOLEAN
  /\ pings \in 0..MaxPings /\ faults \in 0..MaxFaults

Init ==
  /\ now = 0 /\ mapped = FALSE
  /\ live = NoFix /\ health = NoRow /\ sampled = 0
  /\ ingests = [p \in Pings |-> Idle] /\ scan = Idle
  /\ heard = "none" /\ scanned = 0 /\ disturbed = FALSE
  /\ pings = 0 /\ faults = 0

Busy == {p \in Pings : ingests[p] # Idle}

\* History: from now on health and Dispatch may disagree, because of `cause`.
Disturbed(cause) == disturbed' = (disturbed \/ cause)

Fault == faults < MaxFaults /\ faults' = faults + 1

\* A query or a publication takes less than a unit of time.
Tick ==
  /\ now < MaxTime /\ Busy = {} /\ scan = Idle
  /\ now' = now + 1
  /\ UNCHANGED <<mapped, live, health, sampled, ingests, scan, heard, scanned, disturbed,
                 pings, faults>>

\* vehicle.updated of the onboarding maps the device to the vehicle.
OnVehicleUpdated ==
  /\ ~mapped /\ mapped' = TRUE
  /\ UNCHANGED <<now, live, health, sampled, ingests, scan, heard, scanned, disturbed,
                 pings, faults>>

(***************************************************************************)
(* Ingest                                                                  *)
(***************************************************************************)
Step(p, ingest) == ingests' = [ingests EXCEPT ![p] = ingest]

\* normalize(): a timestamp too far ahead is replaced by the time of arrival.
Normalized(ts) == IF ts > now + Skew THEN now ELSE ts

\* A ping with a usable fix of a mapped device; others are dropped.  One that
\* is late, by the clock or after a newer one (the throttle compares the
\* tracker's own times), or that arrives during a scan or another ping, disturbs.
OnMessage(p, ts) ==
  /\ mapped /\ ingests[p] = Idle /\ pings < MaxPings
  /\ pings' = pings + 1
  /\ Step(p, [step |-> "live", ts |-> Normalized(ts)])
  /\ Disturbed(\/ ts < now \/ Busy # {} \/ scan # Idle
               \/ (health # NoRow /\ Normalized(ts) < health.lastPing))
  /\ UNCHANGED <<now, mapped, live, health, sampled, scan, heard, scanned, faults>>

UpsertLive(p) ==
  /\ ingests[p].step = "live"
  /\ live' = [ts |-> ingests[p].ts, until |-> now + Dead]
  /\ Step(p, [ingests[p] EXCEPT !.step = "touch"])
  /\ UNCHANGED <<now, mapped, health, sampled, scan, heard, scanned, disturbed, pings, faults>>

ShouldPublish(ts) == sampled = 0 \/ ts + 1 >= sampled + Interval

\* touchHealth() makes the tracker ok; a sample is due, or the ping is over.
TouchHealth(p) ==
  LET ts == ingests[p].ts IN
  /\ ingests[p].step = "touch"
  /\ health' = [status |-> "ok", lastPing |-> ts]
  /\ IF ShouldPublish(ts)
       THEN sampled' = ts + 1 /\ Step(p, [ingests[p] EXCEPT !.step = "publish"])
       ELSE UNCHANGED sampled /\ Step(p, Idle)
  /\ UNCHANGED <<now, mapped, live, scan, heard, scanned, disturbed, pings, faults>>

PublishLocation(p) ==
  /\ ingests[p].step = "publish"
  /\ heard' = "vehicle.location.updated"
  /\ Step(p, Idle)
  /\ UNCHANGED <<now, mapped, live, health, sampled, scan, scanned, disturbed, pings, faults>>

\* A query or the publication fails, and the rest of the ping is lost.
IngestFails(p) ==
  /\ ingests[p] # Idle /\ Fault
  /\ Step(p, Idle) /\ Disturbed(TRUE)
  /\ UNCHANGED <<now, mapped, live, health, sampled, scan, heard, scanned, pings>>

(***************************************************************************)
(* The scan                                                                *)
(***************************************************************************)
\* The timer fires.  A silence of Dead at the first scan disturbs.
BeginScan ==
  /\ scan = Idle
  /\ scan' = [step |-> "dead", at |-> now]
  /\ Disturbed(Busy # {} \/ (health # NoRow /\ health.status = "ok" /\ health.lastPing + Dead < now))
  /\ UNCHANGED <<now, mapped, live, health, sampled, ingests, heard, scanned, pings, faults>>

\* Variant: dead from the stale cutoff on.
MarkDeadEarly ==
  /\ scan.step = "dead"
  /\ health' = IF health # NoRow /\ health.lastPing + Stale < scan.at
                 THEN [health EXCEPT !.status = "dead"] ELSE health
  /\ scan' = [scan EXCEPT !.step = "find"]
  /\ UNCHANGED <<now, mapped, live, sampled, ingests, heard, scanned, disturbed, pings, faults>>

\* Every tracker silent since the dead cutoff is dead, without an event.
MarkDead ==
  /\ scan.step = "dead"
  /\ health' = IF health # NoRow /\ health.lastPing + Dead < scan.at
                 THEN [health EXCEPT !.status = "dead"] ELSE health
  /\ scan' = [scan EXCEPT !.step = "find"]
  /\ UNCHANGED <<now, mapped, live, sampled, ingests, heard, scanned, disturbed, pings, faults>>

FindStale ==
  /\ scan.step = "find"
  /\ IF health # NoRow /\ health.status = "ok" /\ health.lastPing + Stale < scan.at
       THEN /\ scan' = [step |-> "save", at |-> scan.at, lastPing |-> health.lastPing]
            /\ UNCHANGED scanned
       ELSE scan' = Idle /\ scanned' = scan.at
  /\ UNCHANGED <<now, mapped, live, health, sampled, ingests, heard, disturbed, pings, faults>>

\* save() writes what differs from the row by now: the status, and over a newer
\* ping also the old time.
SaveStale ==
  /\ scan.step = "save"
  /\ health' = [status |-> "stale", lastPing |-> scan.lastPing]
  /\ scan' = [scan EXCEPT !.step = "publish"]
  /\ UNCHANGED <<now, mapped, live, sampled, ingests, heard, scanned, disturbed, pings, faults>>

PublishStale ==
  /\ scan.step = "publish"
  /\ heard' = "tracker.stale"
  /\ scan' = Idle /\ scanned' = scan.at
  /\ UNCHANGED <<now, mapped, live, health, sampled, ingests, disturbed, pings, faults>>

\* A query or the publication fails; the rest of the scan is skipped.
ScanFails ==
  /\ scan # Idle /\ Fault
  /\ scan' = Idle /\ Disturbed(scan.step = "publish")
  /\ UNCHANGED <<now, mapped, live, health, sampled, ingests, heard, scanned, pings>>

\* The process restarts: throttle and device map are empty, and nothing that
\* was under way goes on.
Restart ==
  /\ Fault
  /\ mapped' = FALSE /\ sampled' = 0
  /\ ingests' = [p \in Pings |-> Idle] /\ scan' = Idle
  /\ Disturbed(Busy # {} \/ scan.step = "publish")
  /\ UNCHANGED <<now, live, health, heard, scanned, pings>>

-----------------------------------------------------------------------------
Next ==
  \/ Tick \/ OnVehicleUpdated \/ Restart
  \/ \E p \in Pings :
       \/ \E ts \in {now, now + Skew, now + Skew + 1} \cup {t \in Times : t + 1 = now} :
            OnMessage(p, ts)
       \/ UpsertLive(p) \/ TouchHealth(p) \/ PublishLocation(p) \/ IngestFails(p)
  \/ BeginScan \/ MarkDead \/ FindStale \/ SaveStale \/ PublishStale \/ ScanFails

Spec == Init /\ [][Next]_vars

(***************************************************************************)
(* Properties                                                              *)
(***************************************************************************)

\* Between pings and scans, and unless a call failed in the middle, two of
\* them overlapped, a ping came late or was dated before the one that preceded
\* it, or the first scan came only after the dead cutoff, Dispatch takes the
\* tracker for stale exactly when its row says stale or dead, through throttling,
\* timestamps ahead of the clock and restarts: no silence goes unannounced and
\* no recovered tracker stays excluded
\* (tracker-health.service.ts:10-11 "A vehicle going stale is excluded from
\* dispatch"); and a row that a scan has left ok was not silent for long.
DispatchAgrees ==
  Busy = {} /\ scan = Idle /\ ~disturbed /\ health # NoRow =>
    /\ heard = IF health.status = "ok" THEN "vehicle.location.updated" ELSE "tracker.stale"
    /\ health.status = "ok" => scanned <= health.lastPing + Stale

=============================================================================
