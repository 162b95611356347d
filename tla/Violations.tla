------------------------------ MODULE Violations ------------------------------
(***************************************************************************)
(* Zone violations of one vehicle in the Geofence service: the detector    *)
(* with its hysteresis (violation-detector.service.ts, violation-decider), *)
(* who authorises a vehicle to be outside (authorization.service.ts), and  *)
(* the administrators' handling (violations.service.ts).  Vehicles do not  *)
(* influence each other.                                                   *)
(*                                                                         *)
(* The handler of a position decides on the state it finds after the       *)
(* authorisation and stores the next state after the insert or the update  *)
(* of a violation, so the handlers of two positions interleave (20         *)
(* messages in flight).  A call's phases:                                  *)
(*   authorizing   the movement passes are being counted                   *)
(*   opening       the violation's transaction is next                     *)
(*   closing       the open violation is looked up next                    *)
(*   saving        a loaded violation is saved next, with its event        *)
(***************************************************************************)
EXTENDS Naturals, Sequences, FiniteSets

CONSTANTS
  Workers,        \* bound: handlers at the same time
  Dwell,          \* hysteresis.dwellSeconds
  ReturnWindow,   \* hysteresis.returnWindowMinutes
  MaxTime,        \* bound on the clock
  MaxViolations,  \* bound
  MaxSteps,       \* bound: positions, administrators' calls, events and passes
  MaxFaults       \* bound: failed transactions and restarts

VARIABLES
  now,         \* the clock
  monitored,   \* the vehicle is paired to an active zone
  onRide,      \* onActiveRide knows the vehicle
  endedAt,     \* lastRideEndedAt, or Never
  passes,      \* the times covered by movement passes
  geo,         \* the detector's state of the vehicle
  violations,  \* table violations, with the events recorded for each
  calls,
  streak,      \* history: when the first of the unexcused positions was, or Never
  disturbed,   \* history: position handlers overlapped, or the process restarted
  steps, faults

vars == <<now, monitored, onRide, endedAt, passes, geo, violations, calls,
          streak, disturbed, steps, faults>>

Times == 0..MaxTime
Never == MaxTime + 1

\* VehicleGeoState without the distance: pendingOutsideSince, openViolationId.
GeoState == [since : Times \cup {Never}, open : 0..MaxViolations]
InitialGeoState == [since |-> Never, open |-> 0]

Statuses == {"open", "auto_closed", "acknowledged", "resolved", "escalated"}
Violation == [status : Statuses, openedAt : Times, dwelt : Times, closings : Nat]

Idle == [phase |-> "idle"]

Call ==
  [phase : {"authorizing"}, at : Times, outside : BOOLEAN, excused : BOOLEAN] \cup
  [phase : {"opening"}, at : Times, state : GeoState] \cup
  [phase : {"closing"}, id : 1..MaxViolations] \cup
  [phase : {"saving"}, id : 1..MaxViolations, status : Statuses, detector : BOOLEAN]

TypeOK ==
  /\ now \in Times /\ endedAt \in Times \cup {Never} /\ streak \in Times \cup {Never}
  /\ monitored \in BOOLEAN /\ onRide \in BOOLEAN /\ disturbed \in BOOLEAN
  /\ passes \subseteq Times
  /\ geo \in GeoState
  /\ violations \in Seq(Violation) /\ Len(violations) <= MaxViolations
  /\ calls \in [Workers -> Call \cup {Idle}]
  /\ steps \in 0..MaxSteps /\ faults \in 0..MaxFaults

Init ==
  /\ now = 0 /\ monitored \in BOOLEAN /\ onRide = FALSE
  /\ endedAt = Never /\ passes = {}
  /\ geo = InitialGeoState /\ violations = <<>>
  /\ calls = [w \in Workers |-> Idle]
  /\ streak = Never /\ disturbed = FALSE /\ steps = 0 /\ faults = 0

Enter(w, call) == calls' = [calls EXCEPT ![w] = call]

rides == <<onRide, endedAt>>
rest  == <<now, monitored, passes>>

StepTaken == steps < MaxSteps /\ steps' = steps + 1

\* A handler of a position is under way.
Locating(w) ==
  \/ calls[w].phase \in {"authorizing", "opening", "closing"}
  \/ calls[w].phase = "saving" /\ calls[w].detector

Tick ==
  /\ now < MaxTime /\ now' = now + 1
  /\ UNCHANGED <<monitored, rides, passes, geo, violations, calls, streak, disturbed, steps,
                 faults>>

\* The registry learns of a pairing, or of a zone made active or inactive.
SetMonitored ==
  /\ monitored' = ~monitored
  /\ StepTaken
  /\ UNCHANGED <<now, rides, passes, geo, violations, calls, streak, disturbed, faults>>

(***************************************************************************)
(* Authorisation                                                           *)
(***************************************************************************)
\* ride.assigned and ride.started; they may be late or repeated.
MarkRideActive ==
  /\ onRide' = TRUE
  /\ StepTaken
  /\ UNCHANGED <<rest, endedAt, geo, violations, calls, streak, disturbed, faults>>

\* ride.completed: the only event of an ended ride that names the vehicle.
MarkRideEnded ==
  /\ onRide' = FALSE /\ endedAt' = now
  /\ StepTaken
  /\ UNCHANGED <<rest, geo, violations, calls, streak, disturbed, faults>>

GrantPass(to) ==
  /\ to > now /\ to \notin passes
  /\ passes' = passes \cup (now..to)
  /\ StepTaken
  /\ UNCHANGED <<now, monitored, rides, geo, violations, calls, streak, disturbed, faults>>

\* What isAuthorized() knows before it counts the passes.
InMemory(at) == onRide \/ (endedAt \in Times /\ at <= endedAt + ReturnWindow)

(***************************************************************************)
(* The detector                                                            *)
(***************************************************************************)
\* onLocation() begins; a position may be older than the last one.
OnLocation(w, at, outside) ==
  /\ calls[w] = Idle /\ monitored /\ at <= now
  /\ Enter(w, [phase |-> "authorizing", at |-> at, outside |-> outside,
               excused |-> InMemory(at)])
  /\ disturbed' = (disturbed \/ \E o \in Workers : Locating(o))
  /\ StepTaken
  /\ UNCHANGED <<rest, rides, geo, violations, streak, faults>>

\* decide(): what to do about a position, and the next state without the id of
\* a violation opened now.
Decide(at, outside, authorized, state) ==
  LET since == IF state.since = Never THEN at ELSE state.since
      due   == at >= since + Dwell
  IN CASE ~outside -> [action |-> IF state.open # 0 THEN "close" ELSE "none",
                       state |-> InitialGeoState]
       [] outside /\ authorized -> [action |-> "none", state |-> [state EXCEPT !.since = Never]]
       [] outside /\ ~authorized /\ state.open # 0 -> [action |-> "none", state |-> state]
       [] OTHER -> [action |-> IF due THEN "open" ELSE "none",
                    state |-> [since |-> since, open |-> 0]]

\* The passes are counted, and the position is decided on the state of now.
Decided(w) ==
  LET c == calls[w]
      authorized == c.excused \/ c.at \in passes
      d == Decide(c.at, c.outside, authorized, geo) IN
  /\ c.phase = "authorizing"
  /\ CASE d.action = "open"  -> Enter(w, [phase |-> "opening", at |-> c.at, state |-> d.state])
       [] d.action = "close" -> Enter(w, [phase |-> "closing", id |-> geo.open])
       [] OTHER -> Enter(w, Idle)
  /\ geo' = IF d.action = "none" THEN d.state ELSE geo
  /\ streak' = IF authorized \/ ~c.outside THEN Never
               ELSE IF streak = Never THEN c.at ELSE streak
  /\ UNCHANGED <<rest, rides, violations, disturbed, steps, faults>>

\* Variant: the state does not learn the id of the violation.
OpenViolationUntracked(w) ==
  LET c == calls[w] IN
  /\ c.phase = "opening" /\ Len(violations) < MaxViolations
  /\ violations' = Append(violations,
       [status |-> "open", openedAt |-> c.at, closings |-> 0,
        dwelt |-> IF streak <= c.at THEN c.at - streak ELSE 0])
  /\ geo' = c.state
  /\ Enter(w, Idle)
  /\ UNCHANGED <<rest, rides, streak, disturbed, steps, faults>>

\* The violation and geofence.violation.detected are inserted, then the state
\* is stored.
OpenViolation(w) ==
  LET c == calls[w] IN
  /\ c.phase = "opening" /\ Len(violations) < MaxViolations
  /\ violations' = Append(violations,
       [status |-> "open", openedAt |-> c.at, closings |-> 0,
        dwelt |-> IF streak <= c.at THEN c.at - streak ELSE 0])
  /\ geo' = [c.state EXCEPT !.open = Len(violations) + 1]
  /\ Enter(w, Idle)
  /\ UNCHANGED <<rest, rides, streak, disturbed, steps, faults>>

\* closeViolation() finds the violation; unless it is open nothing is left to
\* do but storing the state.
FindViolation(w) ==
  LET id == calls[w].id IN
  /\ calls[w].phase = "closing"
  /\ \/ /\ violations[id].status = "open"
        /\ Enter(w, [phase |-> "saving", id |-> id, status |-> "auto_closed", detector |-> TRUE])
        /\ UNCHANGED geo
     \/ /\ violations[id].status # "open"
        /\ Enter(w, Idle) /\ geo' = InitialGeoState
  /\ UNCHANGED <<rest, rides, violations, streak, disturbed, steps, faults>>

(***************************************************************************)
(* The administrators                                                      *)
(***************************************************************************)
\* acknowledge() takes open violations alone, resolve() all but resolved ones,
\* escalate() any.
Load(w, id, status) ==
  /\ calls[w] = Idle /\ status \in {"acknowledged", "resolved", "escalated"}
  /\ status = "acknowledged" => violations[id].status = "open"
  /\ status = "resolved" => violations[id].status # "resolved"
  /\ Enter(w, [phase |-> "saving", id |-> id, status |-> status, detector |-> FALSE])
  /\ StepTaken
  /\ UNCHANGED <<rest, rides, geo, violations, streak, disturbed, faults>>

\* A loaded violation is saved with its new status, whatever it is by now; the
\* detector records geofence.violation.closed with it and stores its state.
SaveViolation(w) ==
  LET c == calls[w] IN
  /\ c.phase = "saving"
  /\ violations' = [violations EXCEPT
       ![c.id].status = c.status,
       ![c.id].closings = IF c.detector THEN violations[c.id].closings + 1
                                        ELSE violations[c.id].closings]
  /\ geo' = IF c.detector THEN InitialGeoState ELSE geo
  /\ Enter(w, Idle)
  /\ UNCHANGED <<rest, rides, streak, disturbed, steps, faults>>

\* A query or a transaction fails; the bus delivers a position once more.
Fail(w) ==
  /\ calls[w] # Idle /\ faults < MaxFaults
  /\ Enter(w, Idle)
  /\ faults' = faults + 1
  /\ UNCHANGED <<rest, rides, geo, violations, streak, disturbed, steps>>

\* The process restarts and forgets rides and states.
Restart ==
  /\ faults < MaxFaults /\ faults' = faults + 1
  /\ onRide' = FALSE /\ endedAt' = Never
  /\ geo' = InitialGeoState /\ streak' = Never
  /\ calls' = [w \in Workers |-> Idle]
  /\ disturbed' = TRUE
  /\ UNCHANGED <<rest, violations, steps>>

-----------------------------------------------------------------------------
Authorisations == MarkRideActive \/ MarkRideEnded \/ \E to \in Times : GrantPass(to)

Next ==
  \/ Tick \/ SetMonitored \/ Authorisations \/ Restart
  \/ \E w \in Workers :
       \/ \E at \in Times, outside \in BOOLEAN : OnLocation(w, at, outside)
       \/ Decided(w) \/ OpenViolation(w) \/ FindViolation(w)
       \/ \E id \in DOMAIN violations, status \in Statuses : Load(w, id, status)
       \/ SaveViolation(w) \/ Fail(w)

Spec == Init /\ [][Next]_vars

(***************************************************************************)
(* Properties                                                              *)
(***************************************************************************)
Detecting == \E w \in Workers : Locating(w)

\* While positions are handled one at a time, an open violation is the one the
\* detector will close when the vehicle returns, so there is one at most and it
\* is announced as closed at most once; failures and administrators do not
\* matter (violation-detector.service.ts:96-104).
OpenIsTracked ==
  ~disturbed =>
    \A id \in DOMAIN violations :
      /\ violations[id].status = "open" /\ ~Detecting => geo.open = id
      /\ violations[id].closings <= 1

\* While positions are handled one at a time, a violation is opened only after
\* positions outside, without ride, return window or pass, over the whole dwell
\* time, also when positions arrive late (specs.md 6.3, 6.4).
DwellRespected ==
  ~disturbed => \A id \in DOMAIN violations : violations[id].dwelt >= Dwell

=============================================================================
