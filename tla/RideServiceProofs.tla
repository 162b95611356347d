------------------------- MODULE RideServiceProofs -------------------------
(***************************************************************************)
(* Theorems about RideService for any number of rides, passengers, drivers *)
(* and concurrent handlers.                                                *)
(***************************************************************************)
EXTENDS RideService, SequenceTheorems, TLAPS

USE RidesAssumption, NoOneAssumption, RematchAssumption

-----------------------------------------------------------------------------
(***************************************************************************)
(* Lemmas about the state machine and the row a handler makes.             *)
(***************************************************************************)

\* The transition table leads from statuses to statuses.
LEMMA TransitionTable ==
  \A t \in TRANSITIONS : t[1] \in RideStatus /\ t[2] \in RideAction /\ t[3] \in RideStatus
BY SMT DEF TRANSITIONS, RideStatus, RideAction

\* transition() returns a status of the table whenever the action is allowed.
LEMMA TransitionType ==
  ASSUME NEW from, NEW action, CanTransition(from, action)
  PROVE  /\ Transition(from, action) \in RideStatus
         /\ <<from, action, Transition(from, action)>> \in TRANSITIONS
<1>1. PICK t \in TRANSITIONS : t[1] = from /\ t[2] = action
  BY DEF CanTransition
<1>2. t = <<from, action, t[3]>> /\ t[3] \in RideStatus
  BY <1>1, SMT DEF TRANSITIONS, RideStatus
<1>3. \E to \in RideStatus : <<from, action, to>> \in TRANSITIONS
  BY <1>1, <1>2
<1>4. QED
  BY <1>3 DEF Transition

\* The absent row is no row.
LEMMA NoRowIsNoRow == NoRow \notin Row
BY DEF NoRow, Row, RideStatus

\* What a handler that passed its checks saves is again a row.
LEMMA ImageType ==
  ASSUME NEW op \in Ops, NEW row \in Row, NEW who \in Drivers \cup Passengers \cup {NoOne},
         op \in DriverOps => who \in Drivers,
         Permitted(op, who, row), Legal(op, row)
  PROVE  Image(op, who, row) \in Row
<1> DEFINE moved == IF SkipsTransition(op, row) THEN row
                    ELSE [row EXCEPT !.status = Transition(row.status, ActionOf[op])]
<1>1. moved \in Row /\ moved.rematch = row.rematch
  <2>1. CASE SkipsTransition(op, row)
    BY <2>1
  <2>2. CASE ~SkipsTransition(op, row)
    <3>1. Transition(row.status, ActionOf[op]) \in RideStatus
      BY <2>2, TransitionType DEF Legal
    <3>2. QED
      BY <2>2, <3>1 DEF Row
  <2>3. QED
    BY <2>1, <2>2
<1>2. Mutate(op, who, moved) \in Row
  <2>1. CASE op = "accept"
    BY <1>1, <2>1 DEF Mutate, Row, DriverOps
  <2>2. CASE op = "arrived"
    BY <1>1, <2>2 DEF Mutate, Row
  <2>3. CASE op = "fare"
    BY <1>1, <2>3 DEF Mutate, Row
  <2>4. CASE op = "driver_cancel"
    <3>1. CASE RematchExhausted(moved)
      BY <1>1, <2>4, <3>1 DEF Mutate, Row, RideStatus
    <3>2. CASE ~RematchExhausted(moved)
      <4>1. moved.rematch + 1 \in 0..MaxAutoRematch
        BY <1>1, <3>2 DEF RematchExhausted, Row
      <4>2. QED
        BY <1>1, <2>4, <3>2, <4>1 DEF Mutate, Row
    <3>3. QED
      BY <3>1, <3>2
  <2>5. CASE op \notin {"accept", "arrived", "fare", "driver_cancel"}
    BY <1>1, <2>5 DEF Mutate
  <2>6. QED
    BY <2>1, <2>2, <2>3, <2>4, <2>5
<1>3. QED
  BY <1>2 DEF Image

\* A save that writes any set of the entity's columns leaves a row.
LEMMA MergeType ==
  ASSUME NEW row \in Row, NEW image \in Row, NEW cols \in SUBSET Columns
  PROVE  /\ Merge(row, image, cols) \in Row
         /\ Merge(row, image, cols).driver \in {row.driver, image.driver}
BY DEF Merge, Row, Columns

\* A handler records at most one event, about its own ride.
LEMMA EmittedType ==
  ASSUME NEW op \in Ops, NEW row \in Row, NEW who \in Drivers \cup Passengers \cup {NoOne},
         NEW r \in Rides, op \in DriverOps => who \in Drivers
  PROVE  Emitted(op, who, r, row) \in Seq(Event)
<1>1. \A name \in {"ride.requested", "ride.assigned", "ride.started", "ride.ended",
                   "ride.cancelled", "ride.completed"}, d \in Drivers \cup {NoOne} :
        EventOf(name, r, d) \in Seq(Event)
  BY DEF EventOf, Event
<1>2. row.driver \in Drivers \cup {NoOne}
  BY DEF Row
<1>3. CASE op = "accept"
  BY <1>1, <1>3 DEF Emitted, DriverOps
<1>4. CASE op = "paid"
  BY <1>1, <1>2, <1>4 DEF Emitted
<1>5. CASE op = "driver_cancel"
  BY <1>1, <1>5 DEF Emitted
<1>6. CASE op \in {"start", "end", "cancel", "no_show", "exhausted"}
  BY <1>1, <1>6 DEF Emitted
<1>7. CASE op \notin {"accept", "paid", "driver_cancel", "start", "end", "cancel",
                      "no_show", "exhausted"}
  BY <1>7 DEF Emitted
<1>8. QED
  BY <1>3, <1>4, <1>5, <1>6, <1>7

-----------------------------------------------------------------------------
(***************************************************************************)
(* The steps of the service, whoever calls it: RideDispatch has other      *)
(* callers than RideNext, and the same handlers.                           *)
(***************************************************************************)
Begins(w) ==
  \/ \E p \in Passengers : BeginRequest(w, p)
  \/ \E op \in Ops, who \in Drivers \cup Passengers \cup {NoOne}, r \in Rides :
       /\ op \in DriverOps => who \in Drivers
       /\ op \in {"fare", "paid", "pay_failed"} => Said("ride.ended", r)
       /\ Begin(w, op, who, r)

\* Handlers may fail before they have written anything.
Abandon ==
  \E lost \in SUBSET Workers :
    /\ calls' = [w \in Workers |-> IF w \in lost THEN Idle ELSE calls[w]]
    /\ UNCHANGED <<rides, outbox, published, won>>

HandlerStep == (\E w \in Workers : Begins(w) \/ Serve(w)) \/ Relay \/ Abandon

LEMMA NextIsHandlerStep == RideNext => HandlerStep
<1>1. ASSUME NEW w \in Workers, PassengerCall(w)
      PROVE  Begins(w)
  BY <1>1 DEF PassengerCall, Begins, PassengerOps, DriverOps, Ops
<1>2. ASSUME NEW w \in Workers, DriverCall(w)
      PROVE  Begins(w)
  BY <1>2 DEF DriverCall, Begins, DriverOps, Ops
<1>3. ASSUME NEW w \in Workers, SagaEvent(w)
      PROVE  Begins(w)
  BY <1>3 DEF SagaEvent, Begins, SystemOps, DriverOps, Ops
<1>4. QED
  BY <1>1, <1>2, <1>3 DEF RideNext, HandlerStep

-----------------------------------------------------------------------------
(***************************************************************************)
(* Type correctness.  It needs that a call in flight passed its checks on  *)
(* the entity it carries, since only then is the entity it saves a row.    *)
(***************************************************************************)
CallChecked(c) ==
  c.phase \in {"claiming", "loaded", "saving"} =>
    /\ c.phase = "claiming" => c.op = "accept"
    /\ c.op \in DriverOps => c.who \in Drivers
    /\ Permitted(c.op, c.who, c.snap)
    /\ Legal(c.op, c.snap)

CallsChecked == \A w \in Workers : CallChecked(calls[w])

Calling == {"claiming", "loaded", "saving"}

CallsOnRows == \A w \in Workers : calls[w].phase \in Calling => Exists(calls[w].ride)

TypeInv == RideTypeOK /\ CallsChecked /\ CallsOnRows

\* A worker in one of the three phases holds a call on a ride.
LEMMA PhaseOfCall ==
  ASSUME RideTypeOK, NEW w \in Workers
  PROVE  /\ calls[w].phase \in Calling => calls[w] \in RideCall
         /\ calls[w].phase = "inserting" => calls[w] \in RequestCall
BY DEF RideTypeOK, Idle, RequestCall, RideCall, Calling

\* What one worker's step has to establish: rows stay rows and calls stay
\* checked.
LEMMA WorkerStep ==
  ASSUME TypeInv,
         NEW w \in Workers, NEW c \in {Idle} \cup RequestCall \cup RideCall,
         calls' = [calls EXCEPT ![w] = c],
         CallChecked(c), c.phase \in Calling => rides'[c.ride] # NoRow,
         rides' \in [Rides -> Row \cup {NoRow}],
         \A r \in Rides : Exists(r) => rides'[r] # NoRow,
         outbox' \in Seq(Event), published' \subseteq Event, won' \subseteq Rides \X Drivers
  PROVE  TypeInv'
<1>1. RideTypeOK'
  BY DEF TypeInv, RideTypeOK
<1>2. \A v \in Workers : calls'[v] = IF v = w THEN c ELSE calls[v]
  BY DEF TypeInv, RideTypeOK
<1>3. CallsChecked'
  <2>1. \A v \in Workers : CallChecked(calls'[v])
    BY <1>2 DEF TypeInv, CallsChecked
  <2>2. QED
    BY <2>1 DEF CallsChecked, CallChecked
<1>4. CallsOnRows'
  <2> SUFFICES ASSUME NEW v \in Workers, calls'[v].phase \in Calling
               PROVE  rides'[calls'[v].ride] # NoRow
    BY DEF CallsOnRows, Exists
  <2>1. CASE v = w
    BY <1>2, <2>1
  <2>2. CASE v # w
    BY <1>2, <2>2, PhaseOfCall DEF TypeInv, CallsOnRows, RideCall, Calling
  <2>3. QED
    BY <2>1, <2>2
<1>5. QED
  BY <1>1, <1>3, <1>4 DEF TypeInv

LEMMA TypeInit == RideInit => TypeInv
BY DEF RideInit, TypeInv, RideTypeOK, CallsChecked, CallsOnRows, CallChecked, Idle, Calling

LEMMA IdleIsChecked == Idle \in {Idle} /\ CallChecked(Idle) /\ Idle.phase \notin Calling
BY DEF Idle, CallChecked, Calling

LEMMA TypeInvStep == TypeInv /\ [HandlerStep]_rideVars => TypeInv'
<1> SUFFICES ASSUME TypeInv, [HandlerStep]_rideVars PROVE TypeInv'
  OBVIOUS
<1>0. /\ rides \in [Rides -> Row \cup {NoRow}] /\ outbox \in Seq(Event)
      /\ published \subseteq Event /\ won \subseteq Rides \X Drivers
  BY DEF TypeInv, RideTypeOK
<1>1. ASSUME NEW w \in Workers, NEW p \in Passengers, BeginRequest(w, p)
      PROVE  TypeInv'
  <2> DEFINE c == [phase |-> "inserting", who |-> p]
  <2>1. c \in RequestCall /\ CallChecked(c) /\ c.phase \notin Calling
    BY DEF RequestCall, CallChecked, Calling
  <2>2. calls' = [calls EXCEPT ![w] = c] /\ UNCHANGED <<rides, outbox, published, won>>
    BY <1>1 DEF BeginRequest
  <2> HIDE DEF c
  <2>3. QED
    BY <1>0, <2>1, <2>2, WorkerStep DEF Exists
<1>2. ASSUME NEW w \in Workers, CommitRequest(w)
      PROVE  TypeInv'
  <2>1. calls[w] \in RequestCall
    BY <1>2, PhaseOfCall DEF CommitRequest, TypeInv
  <2> DEFINE row == [passenger |-> calls[w].who, status |-> "matching", driver |-> NoOne,
                     rematch |-> 0, arrived |-> FALSE, fare |-> FALSE]
  <2>2. row \in Row
    BY <2>1 DEF RequestCall, Row, RideStatus
  <2> HIDE DEF row
  <2>3. \E r \in Rides :
          \/ /\ rides' = [rides EXCEPT ![r] = row]
             /\ outbox' = Append(outbox, [name |-> "ride.requested", ride |-> r,
                                          driver |-> NoOne])
          \/ UNCHANGED <<rides, outbox>>
    BY <1>2 DEF CommitRequest, row
  <2>4. rides' \in [Rides -> Row \cup {NoRow}] /\ \A r \in Rides : Exists(r) => rides'[r] # NoRow
    BY <1>0, <2>2, <2>3, NoRowIsNoRow DEF Exists
  <2>5. outbox' \in Seq(Event)
    <3>1. \A r \in Rides :
            Append(outbox, [name |-> "ride.requested", ride |-> r, driver |-> NoOne])
              \in Seq(Event)
      <4>1. \A r \in Rides : [name |-> "ride.requested", ride |-> r, driver |-> NoOne] \in Event
        BY DEF Event
      <4>2. QED
        BY <1>0, <4>1, AppendProperties
    <3>2. (\E r \in Rides : outbox' = Append(outbox, [name |-> "ride.requested", ride |-> r,
                                                      driver |-> NoOne]))
          \/ outbox' = outbox
      BY <2>3
    <3>3. QED
      BY <1>0, <3>1, <3>2, Zenon
  <2>6. calls' = [calls EXCEPT ![w] = Idle] /\ UNCHANGED <<published, won>>
    BY <1>2 DEF CommitRequest
  <2>7. QED
    BY <1>0, <2>4, <2>5, <2>6, WorkerStep, IdleIsChecked
<1>3. ASSUME NEW w \in Workers, NEW op \in Ops, NEW r \in Rides,
             NEW who \in Drivers \cup Passengers \cup {NoOne},
             op \in DriverOps => who \in Drivers, Begin(w, op, who, r)
      PROVE  TypeInv'
  <2>1. rides[r] \in Row /\ Exists(r)
    BY <1>0, <1>3 DEF Begin, Exists
  <2> DEFINE c == [phase |-> IF op = "accept" THEN "claiming" ELSE "loaded",
                   op |-> op, ride |-> r, who |-> who, snap |-> rides[r], cols |-> {}]
  <2>2. c \in RideCall /\ CallChecked(c) /\ c.ride = r
    BY <1>3, <2>1 DEF Begin, RideCall, CallChecked
  <2>3. calls' = [calls EXCEPT ![w] = c] /\ UNCHANGED <<rides, outbox, published, won>>
    BY <1>3 DEF Begin
  <2> HIDE DEF c
  <2>4. QED
    BY <1>0, <2>1, <2>2, <2>3, WorkerStep DEF Exists
<1>4. ASSUME NEW w \in Workers, ClaimWon(w)
      PROVE  TypeInv'
  <2>1. calls[w] \in RideCall /\ calls[w].who \in Drivers /\ Exists(calls[w].ride)
    BY <1>4, PhaseOfCall
       DEF ClaimWon, TypeInv, CallsChecked, CallsOnRows, CallChecked, DriverOps, Calling
  <2> DEFINE c == [calls[w] EXCEPT !.phase = "loaded"]
  <2>2. c \in RideCall /\ CallChecked(c) /\ c.ride = calls[w].ride
    BY <1>4, <2>1 DEF ClaimWon, RideCall, TypeInv, CallsChecked, CallChecked
  <2>3. calls' = [calls EXCEPT ![w] = c] /\ UNCHANGED <<rides, outbox, published>>
    BY <1>4 DEF ClaimWon, TypeInv, RideTypeOK
  <2>4. won' \subseteq Rides \X Drivers
    BY <1>0, <1>4, <2>1 DEF ClaimWon, RideCall
  <2> HIDE DEF c
  <2>5. QED
    BY <1>0, <2>1, <2>2, <2>3, <2>4, WorkerStep DEF Exists
<1>5. ASSUME NEW w \in Workers, ClaimLost(w)
      PROVE  TypeInv'
  <2>1. calls' = [calls EXCEPT ![w] = Idle] /\ UNCHANGED <<rides, outbox, published, won>>
    BY <1>5 DEF ClaimLost
  <2>2. QED
    BY <1>0, <2>1, WorkerStep, IdleIsChecked DEF Exists
<1>6. ASSUME NEW w \in Workers, Select(w)
      PROVE  TypeInv'
  <2>1. calls[w] \in RideCall /\ Exists(calls[w].ride)
    BY <1>6, PhaseOfCall DEF Select, TypeInv, CallsOnRows, Calling
  <2> DEFINE cols == Changed(Image(calls[w].op, calls[w].who, calls[w].snap),
                             rides[calls[w].ride])
             c == [calls[w] EXCEPT !.phase = "saving", !.cols = cols]
  <2>2. cols \in SUBSET Columns
    BY DEF Changed
  <2> HIDE DEF cols
  <2>3. c \in RideCall /\ CallChecked(c) /\ c.ride = calls[w].ride
    BY <1>6, <2>1, <2>2 DEF Select, RideCall, TypeInv, CallsChecked, CallChecked
  <2>4. calls' = [calls EXCEPT ![w] = c] /\ UNCHANGED <<rides, outbox, published, won>>
    BY <1>6 DEF Select, cols, TypeInv, RideTypeOK
  <2> HIDE DEF c
  <2>5. QED
    BY <1>0, <2>1, <2>3, <2>4, WorkerStep DEF Exists
<1>7. ASSUME NEW w \in Workers, Commit(w)
      PROVE  TypeInv'
  <2> DEFINE c == calls[w]
             image == Image(c.op, c.who, c.snap)
             event == Emitted(c.op, c.who, c.ride, c.snap)
  <2>1. c \in RideCall /\ Exists(c.ride) /\ CallChecked(c) /\ c.phase = "saving"
    BY <1>7, PhaseOfCall DEF Commit, TypeInv, CallsChecked, CallsOnRows, Calling
  <2>2. /\ c.op \in Ops /\ c.ride \in Rides /\ c.snap \in Row /\ c.cols \in SUBSET Columns
        /\ c.who \in Drivers \cup Passengers \cup {NoOne}
        /\ c.op \in DriverOps => c.who \in Drivers
        /\ Permitted(c.op, c.who, c.snap) /\ Legal(c.op, c.snap)
    BY <2>1 DEF RideCall, CallChecked
  <2>3. image \in Row
    BY <2>2, ImageType
  <2>4. event \in Seq(Event)
    BY <2>2, EmittedType
  <2>5. /\ \/ /\ rides' = [rides EXCEPT ![c.ride] = Merge(@, image, c.cols)]
              /\ outbox' = outbox \o event
           \/ UNCHANGED <<rides, outbox>>
        /\ calls' = [calls EXCEPT ![w] = Idle] /\ UNCHANGED <<published, won>>
    BY <1>7 DEF Commit
  <2>6. Merge(rides[c.ride], image, c.cols) \in Row
    BY <1>0, <2>1, <2>2, <2>3, MergeType DEF Exists
  <2> HIDE DEF c, image, event
  <2>7. /\ rides' \in [Rides -> Row \cup {NoRow}]
        /\ \A r \in Rides : Exists(r) => rides'[r] # NoRow
    BY <1>0, <2>2, <2>5, <2>6, NoRowIsNoRow DEF Exists
  <2>8. outbox' \in Seq(Event)
    <3>1. outbox \o event \in Seq(Event)
      BY <1>0, <2>4, ConcatProperties
    <3>2. outbox' = outbox \o event \/ outbox' = outbox
      BY <2>5
    <3>3. QED
      BY <1>0, <3>1, <3>2, Zenon
  <2>9. QED
    BY <1>0, <2>5, <2>7, <2>8, WorkerStep, IdleIsChecked
<1>8. CASE Relay
  <2>1. outbox' \in Seq(Event) /\ published' \subseteq Event
    BY <1>0, <1>8 DEF Relay
  <2>2. QED
    BY <1>8, <2>1 DEF Relay, TypeInv, RideTypeOK, CallsChecked, CallChecked, CallsOnRows, Exists
<1>9. CASE UNCHANGED rideVars
  BY <1>9 DEF rideVars, TypeInv, RideTypeOK, CallsChecked, CallChecked, CallsOnRows, Exists
<1>10. QED
  <2>1. ASSUME NEW w \in Workers, Begins(w)
        PROVE  TypeInv'
    BY <1>1, <1>3, <2>1 DEF Begins
  <2>2. ASSUME NEW w \in Workers, Serve(w)
        PROVE  TypeInv'
    BY <1>2, <1>4, <1>5, <1>6, <1>7, <2>2 DEF Serve
  <2>3. CASE Abandon
    BY <2>3, IdleIsChecked
       DEF Abandon, TypeInv, RideTypeOK, CallsChecked, CallChecked, CallsOnRows, Exists
  <2>4. QED
    BY <1>8, <1>9, <2>1, <2>2, <2>3 DEF HandlerStep

LEMMA TypeNext == TypeInv /\ [RideNext]_rideVars => TypeInv'
BY TypeInvStep, NextIsHandlerStep

\* Every reachable state is well typed: no interleaving of handlers saves
\* anything that is not a row, or a re-match count beyond the cap.
THEOREM RideTypeCorrect == RideSpec => []RideTypeOK
<1>1. RideSpec => []TypeInv
  BY TypeInit, TypeNext, PTL DEF RideSpec
<1>2. TypeInv => RideTypeOK
  BY DEF TypeInv
<1>3. QED
  BY <1>1, <1>2, PTL
-----------------------------------------------------------------------------
(***************************************************************************)
(* What becomes of a ride that is over.  Handlers overlap freely here: a   *)
(* save may write a status its entity had before the ride was over.        *)
(***************************************************************************)

\* A handler admitted to a ride that is over keeps it over: only the saga's
\* fare, which leaves the status alone, and a driver's cancellation at the cap
\* pass their checks.
LEMMA OverImage ==
  ASSUME NEW op \in Ops, NEW row \in Row, NEW who,
         IsTerminal(row.status), Legal(op, row)
  PROVE  \/ op = "fare" /\ Image(op, who, row).status = row.status
         \/ op = "driver_cancel" /\ Image(op, who, row).status = "cancelled_by_driver"
<1>1. SkipsTransition(op, row)
  <2>1. \A action : ~CanTransition(row.status, action)
    BY SMT DEF CanTransition, TRANSITIONS, IsTerminal, TERMINAL_STATES
  <2>2. QED
    BY <2>1 DEF Legal
<1>2. Image(op, who, row) = Mutate(op, who, row)
  BY <1>1 DEF Image
<1>3. CASE op = "fare"
  BY <1>2, <1>3 DEF Mutate, Row
<1>4. CASE op = "driver_cancel" /\ RematchExhausted(row)
  BY <1>2, <1>4 DEF Mutate, Row
<1>5. QED
  BY <1>1, <1>3, <1>4 DEF SkipsTransition

\* The step that changes the status of a ride that is over is the save of a
\* stale entity, or a driver's cancellation at the cap.
LEMMA OverStep ==
  ASSUME TypeInv, [HandlerStep]_rideVars,
         NEW r \in Rides, Exists(r), IsTerminal(rides[r].status),
         rides'[r].status # rides[r].status
  PROVE  \E w \in Workers :
           /\ calls[w].phase = "saving" /\ calls[w].ride = r
           /\ \/ /\ calls[w].snap.status # rides[r].status
                 /\ IsTerminal(calls[w].snap.status) => IsTerminal(rides'[r].status)
              \/ /\ calls[w].op = "driver_cancel"
                 /\ rides'[r].status = "cancelled_by_driver"
<1>0. rides \in [Rides -> Row \cup {NoRow}] /\ rides[r] \in Row
  BY DEF TypeInv, RideTypeOK, Exists
<1>1. ASSUME NEW w \in Workers, CommitRequest(w)
      PROVE  rides'[r] = rides[r]
  BY <1>0, <1>1 DEF CommitRequest
<1>2. ASSUME NEW w \in Workers, Begins(w) \/ ClaimWon(w) \/ ClaimLost(w) \/ Select(w)
      PROVE  rides'[r] = rides[r]
  BY <1>2 DEF Begins, BeginRequest, Begin, ClaimWon, ClaimLost, Select
<1>3. PICK w \in Workers : Commit(w)
  BY <1>1, <1>2 DEF HandlerStep, Serve, Relay, Abandon, rideVars
<1>4. PICK c : c = calls[w]
  OBVIOUS
<1>5. /\ c \in RideCall /\ c.phase = "saving" /\ c.ride \in Rides /\ c.snap \in Row
      /\ c.op \in Ops /\ Legal(c.op, c.snap)
  BY <1>3, <1>4, PhaseOfCall
     DEF Commit, TypeInv, CallsChecked, CallChecked, Calling, RideCall
<1>6. PICK image : image = Image(c.op, c.who, c.snap)
  OBVIOUS
<1>7. /\ c.ride = r
      /\ rides'[r] = Merge(rides[r], image, c.cols)
  BY <1>0, <1>3, <1>4, <1>5, <1>6 DEF Commit
<1>8. rides'[r].status = image.status
  BY <1>0, <1>7 DEF Merge, Row
<1>9. IsTerminal(c.snap.status) =>
        \/ c.op = "fare" /\ image.status = c.snap.status
        \/ c.op = "driver_cancel" /\ image.status = "cancelled_by_driver"
  BY <1>5, <1>6, OverImage
<1>10. IsTerminal("cancelled_by_driver")
  BY DEF IsTerminal, TERMINAL_STATES
<1>11. \/ /\ c.snap.status # rides[r].status
          /\ IsTerminal(c.snap.status) => IsTerminal(rides'[r].status)
       \/ /\ c.op = "driver_cancel"
          /\ rides'[r].status = "cancelled_by_driver"
  BY <1>8, <1>9, <1>10
<1>12. QED
  BY <1>4, <1>5, <1>7, <1>11

\* However handlers overlap, a ride that is over changes its status only by the
\* save of an entity loaded before it was over, or loaded in another terminal
\* status, or by a driver's cancellation at the cap.
THEOREM OverRidesStayOver == RideSpec => OverStaysOver
<1> DEFINE Over ==
      \A r \in Rides :
        Exists(r) /\ IsTerminal(rides[r].status) /\ rides'[r].status # rides[r].status =>
          \E w \in Workers :
            /\ calls[w].phase = "saving" /\ calls[w].ride = r
            /\ \/ /\ calls[w].snap.status # rides[r].status
                  /\ IsTerminal(calls[w].snap.status) => IsTerminal(rides'[r].status)
               \/ /\ calls[w].op = "driver_cancel"
                  /\ rides'[r].status = "cancelled_by_driver"
<1>1. RideSpec => []TypeInv
  BY TypeInit, TypeNext, PTL DEF RideSpec
<1>2. TypeInv /\ [RideNext]_rideVars => [Over]_rides
  BY OverStep, NextIsHandlerStep
<1>3. QED
  BY <1>1, <1>2, PTL DEF RideSpec, OverStaysOver

-----------------------------------------------------------------------------
(***************************************************************************)
(* The driver column.  A stale save may put an old driver back in the row, *)
(* so the invariant also speaks of the entities in flight: whoever is      *)
(* named in one of them has won the claim for that ride.                   *)
(***************************************************************************)
SnapshotDriverWon ==
  \A w \in Workers :
    calls[w].phase \in Calling /\ calls[w].snap.driver # NoOne =>
      <<calls[w].ride, calls[w].snap.driver>> \in won

AcceptorWon ==
  \A w \in Workers :
    calls[w].phase \in {"loaded", "saving"} /\ calls[w].op = "accept" =>
      <<calls[w].ride, calls[w].who>> \in won

ClaimInv == DriverWonClaim /\ SnapshotDriverWon /\ AcceptorWon

\* The driver of a saved entity is the one it was loaded with, the accepting
\* one, or nobody.
LEMMA ImageDriver ==
  ASSUME NEW op \in Ops, NEW row \in Row, NEW who \in Drivers \cup Passengers \cup {NoOne}
  PROVE  /\ Image(op, who, row).driver \in {row.driver, who, NoOne}
         /\ Image(op, who, row).driver = who => op = "accept" \/ who \in {row.driver, NoOne}
<1> DEFINE moved == IF SkipsTransition(op, row) THEN row
                    ELSE [row EXCEPT !.status = Transition(row.status, ActionOf[op])]
<1>1. /\ moved.driver = row.driver
      /\ DOMAIN moved = {"passenger", "status", "driver", "rematch", "arrived", "fare"}
  BY DEF Row
<1> HIDE DEF moved
<1>2. Mutate(op, who, moved).driver = IF op = "accept" THEN who
        ELSE IF op = "driver_cancel" /\ ~RematchExhausted(moved) THEN NoOne ELSE row.driver
  BY <1>1 DEF Mutate
<1>3. Image(op, who, row) = Mutate(op, who, moved)
  BY DEF Image, moved
<1>4. QED
  BY <1>2, <1>3

LEMMA ClaimInit == RideInit => ClaimInv
BY DEF RideInit, ClaimInv, DriverWonClaim, SnapshotDriverWon, AcceptorWon, Idle, Calling, Exists

LEMMA ClaimInvStep == TypeInv /\ ClaimInv /\ [HandlerStep]_rideVars => ClaimInv'
<1> SUFFICES ASSUME TypeInv, ClaimInv, [HandlerStep]_rideVars PROVE ClaimInv'
  OBVIOUS
<1>0. /\ rides \in [Rides -> Row \cup {NoRow}]
      /\ calls \in [Workers -> {Idle} \cup RequestCall \cup RideCall]
  BY DEF TypeInv, RideTypeOK
<1>1. ASSUME NEW w \in Workers, NEW p \in Passengers, BeginRequest(w, p)
      PROVE  ClaimInv'
  BY <1>0, <1>1
     DEF BeginRequest, ClaimInv, DriverWonClaim, SnapshotDriverWon, AcceptorWon, Calling, Exists
<1>2. ASSUME NEW w \in Workers, CommitRequest(w)
      PROVE  ClaimInv'
  <2>1. DriverWonClaim'
    <3> DEFINE row == [passenger |-> calls[w].who, status |-> "matching", driver |-> NoOne,
                       rematch |-> 0, arrived |-> FALSE, fare |-> FALSE]
    <3>0. (\E q \in Rides : rides' = [rides EXCEPT ![q] = row]) \/ UNCHANGED rides
      BY <1>2 DEF CommitRequest
    <3>1. \A r \in Rides : rides'[r] = rides[r] \/ rides'[r].driver = NoOne
      <4>1. row.driver = NoOne
        OBVIOUS
      <4> HIDE DEF row
      <4>2. QED
        BY <1>0, <3>0, <4>1
    <3>2. UNCHANGED won
      BY <1>2 DEF CommitRequest
    <3>3. QED
      BY <3>1, <3>2 DEF ClaimInv, DriverWonClaim, Exists
  <2>2. SnapshotDriverWon' /\ AcceptorWon'
    BY <1>0, <1>2 DEF CommitRequest, ClaimInv, SnapshotDriverWon, AcceptorWon, Idle, Calling
  <2>3. QED
    BY <2>1, <2>2 DEF ClaimInv
<1>3. ASSUME NEW w \in Workers, NEW op, NEW who, NEW r \in Rides, Begin(w, op, who, r)
      PROVE  ClaimInv'
  <2>1. DriverWonClaim'
    BY <1>3 DEF Begin, ClaimInv, DriverWonClaim, Exists
  <2>2. SnapshotDriverWon'
    BY <1>0, <1>3 DEF Begin, ClaimInv, DriverWonClaim, SnapshotDriverWon
  <2>3. AcceptorWon'
    BY <1>0, <1>3 DEF Begin, ClaimInv, AcceptorWon
  <2>4. QED
    BY <2>1, <2>2, <2>3 DEF ClaimInv
<1>4. ASSUME NEW w \in Workers, ClaimWon(w)
      PROVE  ClaimInv'
  <2>1. won \subseteq won' /\ <<calls[w].ride, calls[w].who>> \in won' /\ UNCHANGED rides
    BY <1>4 DEF ClaimWon
  <2>2. calls' = [calls EXCEPT ![w].phase = "loaded"] /\ calls[w] \in RideCall
    BY <1>4, PhaseOfCall DEF ClaimWon, TypeInv, Calling
  <2>3. \A v \in Workers : calls'[v] = IF v = w THEN [calls[w] EXCEPT !.phase = "loaded"]
                                               ELSE calls[v]
    BY <1>0, <2>2
  <2>4. DriverWonClaim'
    BY <2>1 DEF ClaimInv, DriverWonClaim, Exists
  <2>5. SnapshotDriverWon'
    BY <1>4, <2>1, <2>2, <2>3 DEF ClaimWon, ClaimInv, SnapshotDriverWon, RideCall, Calling
  <2>6. AcceptorWon'
    BY <2>1, <2>2, <2>3 DEF ClaimInv, AcceptorWon, RideCall
  <2>7. QED
    BY <2>4, <2>5, <2>6 DEF ClaimInv
<1>5. ASSUME NEW w \in Workers, ClaimLost(w)
      PROVE  ClaimInv'
  BY <1>0, <1>5
     DEF ClaimLost, ClaimInv, DriverWonClaim, SnapshotDriverWon, AcceptorWon, Idle, Calling, Exists
<1>6. ASSUME NEW w \in Workers, Select(w)
      PROVE  ClaimInv'
  <2>1. \A v \in Workers : /\ calls'[v].phase \in Calling => calls[v].phase \in Calling
                           /\ calls'[v].phase \in {"loaded", "saving"} =>
                                calls[v].phase \in {"loaded", "saving"}
                           /\ calls[v].phase \in Calling =>
                                /\ calls'[v].ride = calls[v].ride /\ calls'[v].op = calls[v].op
                                /\ calls'[v].who = calls[v].who /\ calls'[v].snap = calls[v].snap
    <3>1. calls[w] \in RideCall /\ calls[w].phase = "loaded"
      BY <1>6, PhaseOfCall DEF Select, TypeInv, Calling
    <3>2. \A v \in Workers : v # w => calls'[v] = calls[v]
      BY <1>0, <1>6 DEF Select
    <3>3. PICK cols : calls'[w] = [calls[w] EXCEPT !.phase = "saving", !.cols = cols]
      BY <1>0, <1>6 DEF Select
    <3>4. QED
      BY <3>1, <3>2, <3>3, ZenonT(40) DEF RideCall, Calling
  <2>2. UNCHANGED <<rides, won>>
    BY <1>6 DEF Select
  <2>3. QED
    BY <2>1, <2>2 DEF ClaimInv, DriverWonClaim, SnapshotDriverWon, AcceptorWon, Exists, Calling
<1>7. ASSUME NEW w \in Workers, Commit(w)
      PROVE  ClaimInv'
  <2> DEFINE c == calls[w]
             image == Image(c.op, c.who, c.snap)
  <2>1. /\ c \in RideCall /\ c.phase = "saving" /\ CallChecked(c)
        /\ rides[c.ride] \in Row /\ Exists(c.ride)
    BY <1>0, <1>7, PhaseOfCall
       DEF Commit, TypeInv, CallsChecked, CallsOnRows, Exists, Calling, RideCall
  <2>2. image \in Row
    BY <2>1, ImageType DEF RideCall, CallChecked
  <2>3. image.driver # NoOne => <<c.ride, image.driver>> \in won
    <3>1. /\ image.driver \in {c.snap.driver, c.who, NoOne}
          /\ image.driver = c.who => c.op = "accept" \/ c.who \in {c.snap.driver, NoOne}
      BY <2>1, ImageDriver DEF RideCall
    <3>2. c.snap.driver # NoOne => <<c.ride, c.snap.driver>> \in won
      BY <2>1 DEF ClaimInv, SnapshotDriverWon, Calling
    <3>3. c.op = "accept" => <<c.ride, c.who>> \in won
      BY <2>1 DEF ClaimInv, AcceptorWon
    <3> HIDE DEF image, c
    <3>4. QED
      BY <3>1, <3>2, <3>3
  <2>4. /\ \/ rides' = [rides EXCEPT ![c.ride] = Merge(@, image, c.cols)]
           \/ UNCHANGED rides
        /\ calls' = [calls EXCEPT ![w] = Idle] /\ UNCHANGED won
    BY <1>7 DEF Commit
  <2>5. Merge(rides[c.ride], image, c.cols).driver \in {rides[c.ride].driver, image.driver}
    BY <2>1, <2>2, MergeType DEF RideCall
  <2>6. DriverWonClaim'
    <3> HIDE DEF image, c
    <3> SUFFICES ASSUME NEW r \in Rides, rides'[r] # NoRow, rides'[r].driver # NoOne
                 PROVE  <<r, rides'[r].driver>> \in won
      BY <2>4 DEF DriverWonClaim, Exists
    <3>1. CASE rides'[r] = rides[r]
      BY <3>1 DEF ClaimInv, DriverWonClaim, Exists
    <3>2. CASE r = c.ride /\ rides'[r] = Merge(rides[c.ride], image, c.cols)
      BY <2>1, <2>3, <2>5, <3>2 DEF ClaimInv, DriverWonClaim
    <3>3. QED
      BY <1>0, <2>4, <3>1, <3>2
  <2>7. SnapshotDriverWon' /\ AcceptorWon'
    <3> HIDE DEF image
    <3>1. QED
      BY <1>0, <2>4 DEF ClaimInv, SnapshotDriverWon, AcceptorWon, Idle, Calling
  <2>8. QED
    BY <2>6, <2>7 DEF ClaimInv
<1>8. CASE Relay
  BY <1>8 DEF Relay, ClaimInv, DriverWonClaim, SnapshotDriverWon, AcceptorWon, Exists
<1>9. CASE UNCHANGED rideVars
  BY <1>9 DEF rideVars, ClaimInv, DriverWonClaim, SnapshotDriverWon, AcceptorWon, Exists
<1>10. CASE Abandon
  BY <1>10 DEF Abandon, ClaimInv, DriverWonClaim, SnapshotDriverWon, AcceptorWon, Exists, Idle,
     Calling
<1>11. QED
  BY <1>1, <1>2, <1>3, <1>4, <1>5, <1>6, <1>7, <1>8, <1>9, <1>10
     DEF HandlerStep, Begins, Serve

LEMMA ClaimNext == TypeInv /\ ClaimInv /\ [RideNext]_rideVars => ClaimInv'
BY ClaimInvStep, NextIsHandlerStep

\* Whoever is the driver of a ride won Dispatch's claim for it, in every
\* interleaving of stale and fresh saves.
THEOREM DriverWonItsClaim == RideSpec => []DriverWonClaim
<1>1. RideSpec => [](TypeInv /\ ClaimInv)
  BY TypeInit, TypeNext, ClaimInit, ClaimNext, PTL DEF RideSpec
<1>2. ClaimInv => DriverWonClaim
  BY DEF ClaimInv
<1>3. QED
  BY <1>1, <1>2, PTL

-----------------------------------------------------------------------------
(***************************************************************************)
(* The events.  ride.completed names the driver of an entity; whoever is   *)
(* named in a row or in an entity has had ride.assigned recorded, and the  *)
(* relay keeps the order of the outbox.                                    *)
(***************************************************************************)
AssignedEvent(r, d) == [name |-> "ride.assigned", ride |-> r, driver |-> d]

Told(r, d) == \/ AssignedEvent(r, d) \in published
              \/ \E i \in DOMAIN outbox : outbox[i] = AssignedEvent(r, d)

AssignmentsTold ==
  /\ \A r \in Rides : Exists(r) /\ rides[r].driver # NoOne => Told(r, rides[r].driver)
  /\ \A w \in Workers : calls[w].phase \in Calling /\ calls[w].snap.driver # NoOne =>
       Told(calls[w].ride, calls[w].snap.driver)

OutboxOrdered ==
  \A i \in DOMAIN outbox :
    outbox[i].name = "ride.completed" /\ outbox[i].driver # NoOne =>
      \/ AssignedEvent(outbox[i].ride, outbox[i].driver) \in published
      \/ \E j \in 1..(i - 1) : outbox[j] = AssignedEvent(outbox[i].ride, outbox[i].driver)

EventsInv == CompletionFollowsAssignment /\ AssignmentsTold /\ OutboxOrdered

LEMMA EventsInit == RideInit => EventsInv
BY DEF RideInit, EventsInv, CompletionFollowsAssignment, AssignmentsTold, OutboxOrdered,
       Idle, Calling, Exists

\* A handler records at most one event: ride.assigned of the driver it accepts,
\* ride.completed of the driver of its entity, or one of neither name.
LEMMA EmittedEvents ==
  ASSUME NEW op, NEW who, NEW r, NEW row
  PROVE  /\ Len(Emitted(op, who, r, row)) \in {0, 1}
         /\ \A i \in DOMAIN Emitted(op, who, r, row) :
              LET e == Emitted(op, who, r, row)[i] IN
              /\ e.ride = r
              /\ e.name = "ride.completed" => op = "paid" /\ e.driver = row.driver
              /\ e.name = "ride.ended" => op = "end"
         /\ op = "accept" => Emitted(op, who, r, row) = <<AssignedEvent(r, who)>>
BY DEF Emitted, EventOf, AssignedEvent

\* What appending to the outbox does to what has been told.
LEMMA OutboxGrows ==
  ASSUME TypeInv, EventsInv, UNCHANGED published, outbox' \in Seq(Event),
         Len(outbox) <= Len(outbox'),
         \A i \in 1..Len(outbox) : outbox'[i] = outbox[i],
         \A i \in (Len(outbox) + 1)..Len(outbox') :
           outbox'[i].name = "ride.completed" /\ outbox'[i].driver # NoOne =>
             Told(outbox'[i].ride, outbox'[i].driver)
  PROVE  /\ \A r, d : Told(r, d) => Told(r, d)'
         /\ CompletionFollowsAssignment' /\ OutboxOrdered'
<1>0. outbox \in Seq(Event) /\ Len(outbox) \in Nat /\ Len(outbox') \in Nat
  BY DEF TypeInv, RideTypeOK
<1>1. ASSUME NEW r, NEW d, Told(r, d)
      PROVE  Told(r, d)'
  BY <1>0, <1>1 DEF Told, AssignedEvent
<1>2. CompletionFollowsAssignment'
  BY DEF EventsInv, CompletionFollowsAssignment
<1>3. ASSUME NEW i \in DOMAIN outbox', outbox'[i].name = "ride.completed",
             outbox'[i].driver # NoOne
      PROVE  \/ AssignedEvent(outbox'[i].ride, outbox'[i].driver) \in published'
             \/ \E j \in 1..(i - 1) :
                  outbox'[j] = AssignedEvent(outbox'[i].ride, outbox'[i].driver)
  <2>1. CASE i \in 1..Len(outbox)
    <3>1. \/ AssignedEvent(outbox[i].ride, outbox[i].driver) \in published
          \/ \E j \in 1..(i - 1) : outbox[j] = AssignedEvent(outbox[i].ride, outbox[i].driver)
      BY <1>0, <1>3, <2>1 DEF EventsInv, OutboxOrdered
    <3>2. QED
      BY <1>0, <2>1, <3>1
  <2>2. CASE i \in (Len(outbox) + 1)..Len(outbox')
    <3>1. Told(outbox'[i].ride, outbox'[i].driver)
      BY <1>3, <2>2
    <3>2. QED
      BY <1>0, <2>2, <3>1 DEF Told
  <2>3. QED
    BY <1>0, <1>3, <2>1, <2>2
<1>4. QED
  BY <1>1, <1>2, <1>3 DEF OutboxOrdered

\* What the relay does to it.
LEMMA OutboxRelayed ==
  ASSUME TypeInv, EventsInv, Relay
  PROVE  /\ \A r, d : Told(r, d) => Told(r, d)'
         /\ CompletionFollowsAssignment' /\ OutboxOrdered'
<1>0. /\ outbox \in Seq(Event) /\ outbox # <<>> /\ Len(outbox) \in Nat /\ Len(outbox) > 0
      /\ published' = published \cup {outbox[1]} /\ outbox' = Tail(outbox)
      /\ Len(outbox') = Len(outbox) - 1
      /\ \A i \in 1..Len(outbox') : outbox'[i] = outbox[i + 1]
  BY DEF TypeInv, RideTypeOK, Relay
<1>1. ASSUME NEW r, NEW d, Told(r, d)
      PROVE  Told(r, d)'
  <2>1. CASE AssignedEvent(r, d) \in published
    BY <1>0, <2>1 DEF Told, AssignedEvent
  <2>2. CASE \E i \in DOMAIN outbox : outbox[i] = AssignedEvent(r, d)
    <3>1. PICK i \in 1..Len(outbox) : outbox[i] = AssignedEvent(r, d)
      BY <1>0, <2>2
    <3>2. CASE i = 1
      BY <1>0, <3>1, <3>2 DEF Told, AssignedEvent
    <3>3. CASE i # 1
      <4>1. i - 1 \in 1..Len(outbox') /\ outbox'[i - 1] = AssignedEvent(r, d)
        BY <1>0, <3>1, <3>3
      <4>2. i - 1 \in DOMAIN outbox'
        BY <1>0, <4>1
      <4>3. QED
        BY <4>1, <4>2 DEF Told, AssignedEvent
    <3>4. QED
      BY <3>2, <3>3
  <2>3. QED
    BY <1>1, <2>1, <2>2 DEF Told
<1>2. CompletionFollowsAssignment'
  <2>1. outbox[1].name = "ride.completed" /\ outbox[1].driver # NoOne =>
          AssignedEvent(outbox[1].ride, outbox[1].driver) \in published
    BY <1>0 DEF EventsInv, OutboxOrdered
  <2>2. QED
    BY <1>0, <2>1 DEF EventsInv, CompletionFollowsAssignment, AssignedEvent
<1>3. ASSUME NEW i \in 1..Len(outbox'), outbox'[i].name = "ride.completed",
             outbox'[i].driver # NoOne
      PROVE  \/ AssignedEvent(outbox'[i].ride, outbox'[i].driver) \in published'
             \/ \E j \in 1..(i - 1) :
                  outbox'[j] = AssignedEvent(outbox'[i].ride, outbox'[i].driver)
  <2> DEFINE a == AssignedEvent(outbox'[i].ride, outbox'[i].driver)
  <2>1. i + 1 \in DOMAIN outbox /\ outbox'[i] = outbox[i + 1]
    BY <1>0
  <2>2. a \in published \/ \E j \in 1..i : outbox[j] = a
    BY <1>3, <2>1 DEF EventsInv, OutboxOrdered
  <2>3. CASE a \in published
    BY <1>0, <2>3
  <2>4. CASE \E j \in 1..i : outbox[j] = a
    <3>1. PICK j \in 1..i : outbox[j] = a
      BY <2>4
    <3> HIDE DEF a
    <3>2. CASE j = 1
      BY <1>0, <3>1, <3>2 DEF a
    <3>3. CASE j # 1
      <4>1. j - 1 \in 1..(i - 1) /\ j - 1 \in 1..Len(outbox') /\ outbox'[j - 1] = outbox[j]
        BY <1>0, <3>1, <3>3
      <4>2. QED
        BY <3>1, <4>1 DEF a
    <3>4. QED
      BY <3>2, <3>3
  <2>5. QED
    BY <2>2, <2>3, <2>4
<1>4. DOMAIN outbox' = 1..Len(outbox')
  BY <1>0
<1>5. QED
  BY <1>1, <1>2, <1>3, <1>4 DEF OutboxOrdered

LEMMA EventsInvStep == TypeInv /\ EventsInv /\ [HandlerStep]_rideVars => EventsInv'
<1> SUFFICES ASSUME TypeInv, EventsInv, [HandlerStep]_rideVars PROVE EventsInv'
  OBVIOUS
<1>0. /\ rides \in [Rides -> Row \cup {NoRow}] /\ outbox \in Seq(Event)
      /\ calls \in [Workers -> {Idle} \cup RequestCall \cup RideCall]
      /\ Idle.phase \notin Calling
  BY DEF TypeInv, RideTypeOK, Idle, Calling
<1>1. TypeInv' /\ outbox' \in Seq(Event)
  BY TypeInvStep DEF TypeInv, RideTypeOK
\* Steps that leave the rows and the outbox alone.
<1>2. ASSUME UNCHANGED <<rides, outbox, published>>,
             \A v \in Workers : calls'[v].phase \in Calling =>
               \/ calls[v].phase \in Calling /\ calls'[v].ride = calls[v].ride
                    /\ calls'[v].snap = calls[v].snap
               \/ calls'[v].ride \in Rides /\ Exists(calls'[v].ride)
                    /\ calls'[v].snap = rides[calls'[v].ride]
      PROVE  EventsInv'
  <2>1. \A r, d : Told(r, d)' <=> Told(r, d)
    BY <1>2 DEF Told, AssignedEvent
  <2>2. AssignmentsTold'
    BY <1>2, <2>1 DEF EventsInv, AssignmentsTold, Exists
  <2>3. QED
    BY <1>2, <2>2 DEF EventsInv, CompletionFollowsAssignment, OutboxOrdered, AssignedEvent
<1>3. ASSUME NEW w \in Workers, NEW p \in Passengers, BeginRequest(w, p)
      PROVE  EventsInv'
  BY <1>0, <1>2, <1>3 DEF BeginRequest, Calling
<1>4. ASSUME NEW w \in Workers, NEW op, NEW who, NEW r \in Rides, Begin(w, op, who, r)
      PROVE  EventsInv'
  <2>1. \A v \in Workers : \/ v # w /\ calls'[v] = calls[v]
                           \/ v = w /\ calls'[v].ride = r /\ calls'[v].snap = rides[r]
    BY <1>0, <1>4 DEF Begin
  <2>2. UNCHANGED <<rides, outbox, published>> /\ Exists(r)
    BY <1>4 DEF Begin
  <2>3. QED
    BY <1>2, <2>1, <2>2
<1>5. ASSUME NEW w \in Workers, ClaimWon(w) \/ ClaimLost(w) \/ Select(w)
      PROVE  EventsInv'
  <2>1. UNCHANGED <<rides, outbox, published>>
    BY <1>5 DEF ClaimWon, ClaimLost, Select
  <2>2. \A v \in Workers \ {w} : calls'[v] = calls[v]
    BY <1>0, <1>5 DEF ClaimWon, ClaimLost, Select
  <2>3. calls[w] \in RideCall /\ calls[w].phase \in Calling
    BY <1>5, PhaseOfCall DEF ClaimWon, ClaimLost, Select, TypeInv, Calling
  <2>4. calls'[w].phase \in Calling => calls'[w].ride = calls[w].ride /\ calls'[w].snap = calls[w].snap
    <3>1. CASE ClaimWon(w)
      BY <1>0, <2>3, <3>1 DEF ClaimWon, RideCall
    <3>2. CASE ClaimLost(w)
      BY <1>0, <3>2 DEF ClaimLost
    <3>3. CASE Select(w)
      <4>1. PICK cols : calls'[w] = [calls[w] EXCEPT !.phase = "saving", !.cols = cols]
        BY <1>0, <3>3 DEF Select
      <4>2. QED
        BY <2>3, <4>1 DEF RideCall
    <3>4. QED
      BY <1>5, <3>1, <3>2, <3>3
  <2>5. QED
    BY <1>2, <2>1, <2>2, <2>3, <2>4
<1>6. ASSUME NEW w \in Workers, CommitRequest(w)
      PROVE  EventsInv'
  <2> DEFINE row == [passenger |-> calls[w].who, status |-> "matching", driver |-> NoOne,
                     rematch |-> 0, arrived |-> FALSE, fare |-> FALSE]
  <2>1. PICK r \in Rides :
          \/ /\ rides' = [rides EXCEPT ![r] = row]
             /\ outbox' = Append(outbox, [name |-> "ride.requested", ride |-> r,
                                          driver |-> NoOne])
          \/ UNCHANGED <<rides, outbox>>
    BY <1>6 DEF CommitRequest
  <2>2. calls' = [calls EXCEPT ![w] = Idle] /\ UNCHANGED published
    BY <1>6 DEF CommitRequest
  <2>3. /\ Len(outbox) <= Len(outbox')
        /\ \A i \in 1..Len(outbox) : outbox'[i] = outbox[i]
        /\ \A i \in (Len(outbox) + 1)..Len(outbox') : outbox'[i].name # "ride.completed"
    <3> HIDE DEF row
    <3> DEFINE e == [name |-> "ride.requested", ride |-> r, driver |-> NoOne]
    <3>1. e.name # "ride.completed"
      OBVIOUS
    <3>2. outbox' = Append(outbox, e) \/ outbox' = outbox
      BY <2>1
    <3> HIDE DEF e
    <3>3. QED
      BY <1>0, <3>1, <3>2
  <2>4. (\A q, d : Told(q, d) => Told(q, d)') /\ CompletionFollowsAssignment' /\ OutboxOrdered'
    BY <1>1, <2>2, <2>3, OutboxGrows
  <2>5. \A q \in Rides : rides'[q] = rides[q] \/ rides'[q].driver = NoOne
    <3>1. row.driver = NoOne
      OBVIOUS
    <3> HIDE DEF row
    <3>2. QED
      BY <1>0, <2>1, <3>1
  <2>6. AssignmentsTold'
    <3>1. \A v \in Workers : calls'[v].phase \in Calling => calls'[v] = calls[v]
      BY <1>0, <2>2
    <3>2. QED
      BY <2>4, <2>5, <3>1 DEF EventsInv, AssignmentsTold, Exists
  <2>7. QED
    BY <2>4, <2>6 DEF EventsInv
<1>7. ASSUME NEW w \in Workers, Commit(w)
      PROVE  EventsInv'
  <2>0. PICK c : c = calls[w]
    OBVIOUS
  <2> DEFINE image == Image(c.op, c.who, c.snap)
             event == Emitted(c.op, c.who, c.ride, c.snap)
  <2>1. /\ c \in RideCall /\ c.phase = "saving" /\ CallChecked(c) /\ c.phase \in Calling
        /\ rides[c.ride] \in Row /\ Exists(c.ride)
    BY <1>0, <1>7, <2>0, PhaseOfCall
       DEF Commit, TypeInv, CallsChecked, CallsOnRows, Exists, Calling, RideCall
  <2>2. /\ c.op \in Ops /\ c.ride \in Rides /\ c.snap \in Row /\ c.cols \in SUBSET Columns
        /\ c.who \in Drivers \cup Passengers \cup {NoOne}
        /\ c.op \in DriverOps => c.who \in Drivers
    BY <2>1 DEF RideCall, CallChecked
  <2>3. image \in Row
    BY <2>1, <2>2, ImageType DEF CallChecked
  <2>4. event \in Seq(Event)
    BY <2>2, EmittedType
  <2>5. /\ Len(event) \in {0, 1}
        /\ \A i \in DOMAIN event : /\ event[i].ride = c.ride
                                   /\ event[i].name = "ride.completed" =>
                                        event[i].driver = c.snap.driver
        /\ c.op = "accept" => event = <<AssignedEvent(c.ride, c.who)>>
    BY EmittedEvents
  <2>6. calls' = [calls EXCEPT ![w] = Idle] /\ UNCHANGED published
    BY <1>7 DEF Commit
  <2>7. CASE UNCHANGED <<rides, outbox>>
    <3>1. \A v \in Workers : calls'[v].phase \in Calling => calls'[v] = calls[v]
      BY <1>0, <2>6
    <3>2. QED
      BY <1>2, <2>6, <2>7, <3>1
  <2>8. CASE /\ rides' = [rides EXCEPT ![c.ride] = Merge(@, image, c.cols)]
             /\ outbox' = outbox \o event
    <3>1. c.snap.driver # NoOne => Told(c.ride, c.snap.driver)
      BY <2>0, <2>1 DEF EventsInv, AssignmentsTold
    <3>2. Merge(rides[c.ride], image, c.cols).driver \in {rides[c.ride].driver, image.driver}
      BY <2>1, <2>2, <2>3, MergeType
    <3>3. /\ image.driver \in {c.snap.driver, c.who, NoOne}
          /\ image.driver = c.who => c.op = "accept" \/ c.who \in {c.snap.driver, NoOne}
      BY <2>2, ImageDriver
    <3> HIDE DEF image, event
    <3>4. /\ Len(outbox') = Len(outbox) + Len(event)
          /\ \A i \in 1..Len(outbox) : outbox'[i] = outbox[i]
          /\ \A i \in (Len(outbox) + 1)..Len(outbox') :
               i - Len(outbox) \in DOMAIN event /\ outbox'[i] = event[i - Len(outbox)]
      BY <1>0, <2>4, <2>8
    <3>5. \A i \in (Len(outbox) + 1)..Len(outbox') :
            outbox'[i].name = "ride.completed" /\ outbox'[i].driver # NoOne =>
              Told(outbox'[i].ride, outbox'[i].driver)
      BY <2>5, <3>1, <3>4
    <3>6. Len(outbox) <= Len(outbox')
      BY <1>0, <2>4, <3>4
    <3>7. (\A q, d : Told(q, d) => Told(q, d)') /\ CompletionFollowsAssignment' /\ OutboxOrdered'
      BY <1>1, <2>6, <3>4, <3>5, <3>6, OutboxGrows
    <3>8. image.driver # NoOne => Told(c.ride, image.driver)'
      <4>1. CASE c.op = "accept" /\ image.driver = c.who
        <5>1. Len(event) = 1 /\ event[1] = AssignedEvent(c.ride, c.who)
          BY <2>5, <4>1
        <5>2. Len(outbox) + 1 \in 1..Len(outbox') /\ outbox'[Len(outbox) + 1] = event[1]
          <6>1. Len(outbox) \in Nat
            BY <1>0
          <6>2. Len(outbox) + 1 - Len(outbox) = 1
            BY <6>1
          <6>3. QED
            BY <3>4, <5>1, <6>1, <6>2
        <5>3. Len(outbox) + 1 \in DOMAIN outbox'
          BY <1>1, <5>2
        <5>4. QED
          BY <4>1, <5>1, <5>2, <5>3 DEF Told, AssignedEvent
      <4>2. CASE image.driver = c.snap.driver
        BY <3>1, <3>7, <4>2
      <4>3. QED
        BY <3>3, <4>1, <4>2
    <3>9. AssignmentsTold'
      <4>1. \A v \in Workers : calls'[v].phase \in Calling => calls'[v] = calls[v]
        BY <1>0, <2>6
      <4>2. \A q \in Rides : q # c.ride => rides'[q] = rides[q]
        BY <1>0, <2>8
      <4>3. ASSUME NEW d, d = rides'[c.ride].driver, d # NoOne
            PROVE  Told(c.ride, d)'
        <5>1. rides'[c.ride] = Merge(rides[c.ride], image, c.cols)
          BY <1>0, <2>2, <2>8
        <5>2. CASE d = image.driver
          BY <3>8, <4>3, <5>2
        <5>3. CASE d = rides[c.ride].driver
          BY <2>1, <2>2, <3>7, <4>3, <5>3 DEF EventsInv, AssignmentsTold
        <5>4. QED
          BY <3>2, <4>3, <5>1, <5>2, <5>3
      <4>4. QED
        BY <3>7, <4>1, <4>2, <4>3 DEF EventsInv, AssignmentsTold, Exists
    <3>10. QED
      BY <3>7, <3>9 DEF EventsInv
  <2>9. QED
    BY <1>7, <2>0, <2>7, <2>8 DEF Commit
<1>8. CASE Relay
  <2>1. AssignmentsTold'
    BY <1>8, OutboxRelayed DEF Relay, EventsInv, AssignmentsTold, Exists
  <2>2. QED
    BY <1>8, <2>1, OutboxRelayed DEF EventsInv
<1>9. CASE UNCHANGED rideVars
  BY <1>2, <1>9 DEF rideVars
<1>10. CASE Abandon
  BY <1>0, <1>2, <1>10 DEF Abandon
<1>11. QED
  BY <1>3, <1>4, <1>5, <1>6, <1>7, <1>8, <1>9, <1>10 DEF HandlerStep, Begins, Serve

LEMMA EventsNext == TypeInv /\ EventsInv /\ [RideNext]_rideVars => EventsInv'
BY EventsInvStep, NextIsHandlerStep

\* The bus never carries ride.completed of a driver before ride.assigned of
\* that driver and ride, in every interleaving of stale and fresh saves.
THEOREM CompletionAfterAssignment == RideSpec => []CompletionFollowsAssignment
<1>1. RideSpec => [](TypeInv /\ EventsInv)
  BY TypeInit, TypeNext, EventsInit, EventsNext, PTL DEF RideSpec
<1>2. EventsInv => CompletionFollowsAssignment
  BY DEF EventsInv
<1>3. QED
  BY <1>1, <1>2, PTL

-----------------------------------------------------------------------------
(***************************************************************************)
(* Handlers that do not overlap.  While every ride has one handler at a    *)
(* time, an entity is the row it was loaded from until its handler         *)
(* commits, so a commit replaces the row by what transition() and mutate() *)
(* make of it.                                                             *)
(***************************************************************************)
HandlersApart ==
  \A u, v \in Workers :
    calls[u].phase \in Calling /\ calls[v].phase \in Calling /\ calls[u].ride = calls[v].ride
      => u = v

Coherent(row) ==
  /\ row.status = "matching" => row.driver = NoOne
  /\ row.status \in DriverActive \cup {"completed"} => row.driver # NoOne
  /\ row.status \in {"matching", "assigned"} => ~row.arrived
  /\ row.status \in {"arriving", "in_progress", "pending_payment", "payment_failed",
                     "completed", "cancelled_no_show"} => row.arrived
  /\ row.fare => row.status \in {"pending_payment", "payment_failed", "completed",
                                 "cancelled_by_driver"}

\* The statuses a ride can have once it was ended.
EndedStatus == {"pending_payment", "payment_failed", "completed", "cancelled_by_driver"}

EntitiesFresh ==
  \A w \in Workers : calls[w].phase \in Calling =>
    /\ calls[w].snap = rides[calls[w].ride]
    /\ calls[w].phase = "saving" =>
         calls[w].cols = Changed(Image(calls[w].op, calls[w].who, calls[w].snap), calls[w].snap)
    /\ calls[w].op = "fare" => calls[w].snap.status \in EndedStatus

EndRecorded(r) ==
  \/ Said("ride.ended", r)
  \/ \E i \in DOMAIN outbox : outbox[i].name = "ride.ended" /\ outbox[i].ride = r

EndedRides ==
  \A r \in Rides : EndRecorded(r) => Exists(r) /\ rides[r].status \in EndedStatus

SerialInv == RowCoherent /\ EntitiesFresh /\ EndedRides

LEMMA SerialInit == RideInit => SerialInv
BY DEF RideInit, SerialInv, RowCoherent, EntitiesFresh, EndedRides, EndRecorded, Said,
       Idle, Calling, Exists

\* RowCoherent, row by row.
LEMMA RowsCoherent == RowCoherent <=> \A r \in Rides : Exists(r) => Coherent(rides[r])
BY DEF RowCoherent, Coherent

\* What a permitted operation makes of a coherent row.
LEMMA ImageCoherent ==
  ASSUME NEW op \in Ops, NEW row \in Row, NEW who \in Drivers \cup Passengers \cup {NoOne},
         op \in DriverOps => who \in Drivers,
         Permitted(op, who, row), Legal(op, row), Coherent(row),
         op = "fare" => row.status \in EndedStatus
  PROVE  /\ Coherent(Image(op, who, row))
         /\ row.status \in EndedStatus => Image(op, who, row).status \in EndedStatus
         /\ IsTerminal(row.status) => IsTerminal(Image(op, who, row).status)
         /\ op = "end" => Image(op, who, row).status \in EndedStatus
<1> DEFINE to == Transition(row.status, ActionOf[op])
           moved == IF SkipsTransition(op, row) THEN row ELSE [row EXCEPT !.status = to]
<1>1. Image(op, who, row) = Mutate(op, who, moved)
  BY DEF Image
<1>2. ~SkipsTransition(op, row) => <<row.status, ActionOf[op], to>> \in TRANSITIONS
  BY TransitionType DEF Legal
<1>3. SkipsTransition(op, row) <=> (op = "fare" \/ (op = "driver_cancel" /\ RematchExhausted(row)))
  BY DEF SkipsTransition
<1> HIDE DEF to
<1>4. CASE op = "fare"
  <2>1. Image(op, who, row) = [row EXCEPT !.fare = TRUE]
    BY <1>1, <1>3, <1>4 DEF Mutate
  <2>2. QED
    BY <1>4, <2>1 DEF Row, Coherent, EndedStatus, IsTerminal
<1>5. CASE op = "driver_cancel" /\ RematchExhausted(row)
  <2>1. Image(op, who, row) = [row EXCEPT !.status = "cancelled_by_driver"]
    BY <1>1, <1>3, <1>5 DEF Mutate
  <2>2. QED
    BY <1>5, <2>1 DEF Row, Coherent, EndedStatus, DriverActive, PassengerActive,
       IsTerminal, TERMINAL_STATES
<1>6. ASSUME ~SkipsTransition(op, row)
      PROVE  moved = [row EXCEPT !.status = to] /\ <<row.status, ActionOf[op], to>> \in TRANSITIONS
  BY <1>2, <1>6
<1>7. CASE op = "driver_cancel" /\ ~RematchExhausted(row)
  <2>1. ~SkipsTransition(op, row) /\ ActionOf[op] = "driver_cancel"
    BY <1>3, <1>7 DEF ActionOf
  <2>2. row.status \in {"assigned", "arriving"} /\ to = "matching"
    BY <1>6, <2>1 DEF TRANSITIONS
  <2>3. ~RematchExhausted(moved) /\ moved = [row EXCEPT !.status = to]
    BY <1>6, <1>7, <2>1 DEF RematchExhausted, Row
  <2>4. Image(op, who, row) =
          [row EXCEPT !.status = to, !.driver = NoOne, !.arrived = FALSE, !.rematch = @ + 1]
    BY <1>1, <1>7, <2>3 DEF Mutate, Row
  <2>5. QED
    BY <1>7, <2>2, <2>4 DEF Row, Coherent, EndedStatus, DriverActive, PassengerActive,
       IsTerminal, TERMINAL_STATES
<1>8. CASE op = "accept"
  <2>1. ~SkipsTransition(op, row) /\ ActionOf[op] = "assign"
    BY <1>3, <1>8 DEF ActionOf
  <2>2. row.status = "matching" /\ to = "assigned"
    BY <1>6, <2>1 DEF TRANSITIONS
  <2>3. Image(op, who, row) = [row EXCEPT !.status = to, !.driver = who] /\ who # NoOne
    BY <1>1, <1>6, <1>8, <2>1 DEF Mutate, Row, DriverOps
  <2>4. QED
    BY <1>8, <2>2, <2>3 DEF Row, Coherent, EndedStatus, DriverActive, PassengerActive,
       IsTerminal, TERMINAL_STATES
<1>9. CASE op = "arrived"
  <2>1. ~SkipsTransition(op, row) /\ ActionOf[op] = "arrive"
    BY <1>3, <1>9 DEF ActionOf
  <2>2. row.status = "assigned" /\ to = "arriving"
    BY <1>6, <2>1 DEF TRANSITIONS
  <2>3. Image(op, who, row) = [row EXCEPT !.status = to, !.arrived = TRUE]
    BY <1>1, <1>6, <1>9, <2>1 DEF Mutate, Row
  <2>4. QED
    BY <1>9, <2>2, <2>3 DEF Row, Coherent, EndedStatus, DriverActive, PassengerActive,
       IsTerminal, TERMINAL_STATES
<1>10. CASE op \in {"cancel", "start", "end", "no_show", "exhausted", "paid", "pay_failed"}
  <2>1. ~SkipsTransition(op, row)
    BY <1>3, <1>10
  <2>2. Image(op, who, row) = [row EXCEPT !.status = to]
    BY <1>1, <1>6, <1>10, <2>1 DEF Mutate
  <2>3. /\ op = "cancel" => row.status \in {"requested", "matching", "assigned", "arriving"}
                            /\ to = "cancelled_by_passenger"
        /\ op = "start" => row.status = "arriving" /\ to = "in_progress"
        /\ op = "end" => row.status = "in_progress" /\ to = "pending_payment"
        /\ op = "no_show" => row.status = "arriving" /\ to = "cancelled_no_show"
        /\ op = "exhausted" => row.status = "matching" /\ to = "no_driver_found"
        /\ op = "paid" => row.status \in {"pending_payment", "payment_failed"}
                          /\ to = "completed"
        /\ op = "pay_failed" => row.status = "pending_payment" /\ to = "payment_failed"
    BY <1>6, <2>1 DEF TRANSITIONS, ActionOf
  <2>4. QED
    BY <1>10, <2>2, <2>3 DEF Row, Coherent, EndedStatus, DriverActive, PassengerActive,
       IsTerminal, TERMINAL_STATES
<1>11. QED
  BY <1>4, <1>5, <1>7, <1>8, <1>9, <1>10 DEF Ops, PassengerOps, DriverOps, SystemOps

\* A ride gets a driver by accept only, and is requested anew for one that had
\* a driver.
LEMMA ImageStatus ==
  ASSUME NEW op \in Ops, NEW row \in Row, NEW who, Legal(op, row)
  PROVE  /\ Image(op, who, row).status \in DriverActive =>
              row.status \in DriverActive \/ op = "accept"
         /\ op = "driver_cancel" /\ ~RematchExhausted(row) =>
              row.status \in DriverActive /\ Image(op, who, row).status = "matching"
<1> DEFINE to == Transition(row.status, ActionOf[op])
           moved == IF SkipsTransition(op, row) THEN row ELSE [row EXCEPT !.status = to]
<1>1. Image(op, who, row) = Mutate(op, who, moved)
  BY DEF Image
<1>2. ~SkipsTransition(op, row) => <<row.status, ActionOf[op], to>> \in TRANSITIONS
  BY TransitionType DEF Legal
<1> HIDE DEF to
<1>3. /\ moved.status = IF SkipsTransition(op, row) THEN row.status ELSE to
      /\ moved.rematch = row.rematch
  BY DEF Row
<1>4. Mutate(op, who, moved).status =
        IF op = "driver_cancel" /\ RematchExhausted(row) THEN "cancelled_by_driver"
        ELSE moved.status
  BY <1>3 DEF Mutate, RematchExhausted, Row
<1> HIDE DEF moved
<1>5. CASE SkipsTransition(op, row)
  BY <1>1, <1>3, <1>4, <1>5 DEF SkipsTransition, DriverActive, PassengerActive
<1>6. CASE ~SkipsTransition(op, row)
  <2>1. Image(op, who, row).status = to /\ op # "fare"
    BY <1>1, <1>3, <1>4, <1>6 DEF SkipsTransition
  <2>2. CASE op = "driver_cancel"
    <3>1. row.status \in {"assigned", "arriving"} /\ to = "matching"
      BY <1>2, <1>6, <2>2 DEF TRANSITIONS, ActionOf
    <3>2. QED
      BY <2>1, <3>1 DEF DriverActive, PassengerActive
  <2>3. CASE op \in Ops \ {"driver_cancel", "fare"}
    <3>1. to \in DriverActive => row.status \in DriverActive \/ op = "accept"
      BY <1>2, <1>6, <2>3 DEF TRANSITIONS, ActionOf, Ops, PassengerOps, DriverOps, SystemOps,
         DriverActive, PassengerActive
    <3>2. QED
      BY <2>1, <2>3, <3>1
  <2>4. QED
    BY <2>1, <2>2, <2>3
<1>7. QED
  BY <1>5, <1>6

\* A driver stays with the ride while it is his, and a ride is paid after it ended.
LEMMA ImageKeepsDriver ==
  ASSUME NEW op \in Ops, NEW row \in Row, NEW who \in Drivers \cup Passengers \cup {NoOne},
         Legal(op, row)
  PROVE  /\ Image(op, who, row).status \in DriverActive =>
              \/ op = "accept" /\ Image(op, who, row).driver = who
              \/ row.status \in DriverActive /\ Image(op, who, row).driver = row.driver
         /\ op = "paid" => /\ row.status \in {"pending_payment", "payment_failed"}
                           /\ Image(op, who, row).status = "completed"
<1> DEFINE to == Transition(row.status, ActionOf[op])
           moved == IF SkipsTransition(op, row) THEN row ELSE [row EXCEPT !.status = to]
<1>1. Image(op, who, row) = Mutate(op, who, moved)
  BY DEF Image
<1>2. ~SkipsTransition(op, row) => <<row.status, ActionOf[op], to>> \in TRANSITIONS
  BY TransitionType DEF Legal
<1> HIDE DEF to
<1>3. /\ moved.status = IF SkipsTransition(op, row) THEN row.status ELSE to
      /\ moved.rematch = row.rematch /\ moved.driver = row.driver
      /\ DOMAIN moved = {"passenger", "status", "driver", "rematch", "arrived", "fare"}
  BY DEF Row
<1> HIDE DEF moved
<1>4. Mutate(op, who, moved).driver = IF op = "accept" THEN who
        ELSE IF op = "driver_cancel" /\ ~RematchExhausted(row) THEN NoOne ELSE row.driver
  BY <1>3 DEF Mutate, RematchExhausted
<1>5. Image(op, who, row).status \in DriverActive =>
        \/ op = "accept" /\ Image(op, who, row).driver = who
        \/ row.status \in DriverActive /\ Image(op, who, row).driver = row.driver
  <2>1. CASE op = "accept"
    BY <1>1, <1>4, <2>1
  <2>2. CASE op = "driver_cancel" /\ ~RematchExhausted(row)
    BY <2>2, ImageStatus DEF DriverActive, PassengerActive
  <2>3. CASE op # "accept" /\ ~(op = "driver_cancel" /\ ~RematchExhausted(row))
    BY <1>1, <1>4, <2>3, ImageStatus
  <2>4. QED
    BY <2>1, <2>2, <2>3
<1>6. ASSUME op = "paid"
      PROVE  /\ row.status \in {"pending_payment", "payment_failed"}
             /\ Image(op, who, row).status = "completed"
  <2>1. ~SkipsTransition(op, row) /\ ActionOf[op] = "payment_success"
    BY <1>6 DEF SkipsTransition, ActionOf
  <2>2. row.status \in {"pending_payment", "payment_failed"} /\ to = "completed"
    BY <1>2, <2>1 DEF TRANSITIONS
  <2>3. Image(op, who, row) = moved
    BY <1>1, <1>6 DEF Mutate
  <2>4. QED
    BY <1>3, <2>1, <2>2, <2>3
<1>7. QED
  BY <1>5, <1>6

\* Writing the columns that differ from the row itself leaves the whole entity;
\* no operation touches the passenger.
LEMMA MergeOfChanged ==
  ASSUME NEW op, NEW who, NEW row \in Row, Image(op, who, row) \in Row
  PROVE  Merge(row, Image(op, who, row), Changed(Image(op, who, row), row)) = Image(op, who, row)
<1> DEFINE moved == IF SkipsTransition(op, row) THEN row
                    ELSE [row EXCEPT !.status = Transition(row.status, ActionOf[op])]
<1>1. moved.passenger = row.passenger
  BY DEF Row
<1>2. Mutate(op, who, moved).passenger = row.passenger
  BY <1>1 DEF Mutate, Row
<1>3. Image(op, who, row).passenger = row.passenger
  BY <1>2 DEF Image
<1> DEFINE image == Image(op, who, row)
<1>4. image \in Row /\ image.passenger = row.passenger
  BY <1>3
<1> HIDE DEF image
<1>5. \A f \in DOMAIN row : f = "passenger" \/ f \in Columns
  BY DEF Row, Columns
<1>6. DOMAIN image = DOMAIN row
  BY <1>4 DEF Row
<1>7. \A f \in DOMAIN row : (IF f \in Changed(image, row) THEN image[f] ELSE row[f]) = image[f]
  BY <1>4, <1>5 DEF Changed
<1>8. image = [f \in DOMAIN image |-> image[f]]
  BY <1>4 DEF Row
<1>9. Merge(row, image, Changed(image, row)) = image
  BY <1>6, <1>7, <1>8 DEF Merge
<1>10. QED
  BY <1>9 DEF image

\* A commit of a fresh entity replaces the row by the entity, or fails.
LEMMA SerialCommit ==
  ASSUME TypeInv, SerialInv, NEW w \in Workers, Commit(w)
  PROVE  \E c \in RideCall, image \in Row :
           /\ c = calls[w] /\ c.phase \in Calling /\ c.ride \in Rides /\ Exists(c.ride)
           /\ Coherent(image)
           /\ rides[c.ride].status \in EndedStatus => image.status \in EndedStatus
           /\ c.op = "end" => image.status \in EndedStatus
           /\ \/ UNCHANGED <<rides, outbox>>
              \/ /\ rides' = [rides EXCEPT ![c.ride] = image]
                 /\ outbox' = outbox \o Emitted(c.op, c.who, c.ride, c.snap)
<1>1. PICK c : c = calls[w]
  OBVIOUS
<1>2. /\ c \in RideCall /\ c.phase = "saving" /\ c.phase \in Calling /\ CallChecked(c)
      /\ c.ride \in Rides /\ Exists(c.ride) /\ rides \in [Rides -> Row \cup {NoRow}]
  BY <1>1, PhaseOfCall
     DEF Commit, TypeInv, RideTypeOK, CallsChecked, CallsOnRows, Calling, RideCall
<1>3. /\ c.snap = rides[c.ride] /\ c.snap \in Row
      /\ c.cols = Changed(Image(c.op, c.who, c.snap), c.snap)
      /\ c.op = "fare" => c.snap.status \in EndedStatus
  BY <1>1, <1>2 DEF SerialInv, EntitiesFresh, RideCall
<1>4. /\ c.op \in Ops /\ c.who \in Drivers \cup Passengers \cup {NoOne}
      /\ c.op \in DriverOps => c.who \in Drivers
      /\ Permitted(c.op, c.who, c.snap) /\ Legal(c.op, c.snap)
  BY <1>2 DEF CallChecked, RideCall
<1>5. PICK image : image = Image(c.op, c.who, c.snap)
  OBVIOUS
<1>6. image \in Row
  BY <1>3, <1>4, <1>5, ImageType
<1>7. Coherent(c.snap)
  BY <1>2, <1>3, RowsCoherent DEF SerialInv
<1>8. /\ Coherent(image)
      /\ c.snap.status \in EndedStatus => image.status \in EndedStatus
      /\ c.op = "end" => image.status \in EndedStatus
  BY <1>3, <1>4, <1>5, <1>7, ImageCoherent
<1>9. Merge(rides[c.ride], Image(c.op, c.who, c.snap), c.cols) = image
  BY <1>3, <1>5, <1>6, MergeOfChanged
<1>10. \/ UNCHANGED <<rides, outbox>>
       \/ /\ rides' = [rides EXCEPT ![c.ride] = image]
          /\ outbox' = outbox \o Emitted(c.op, c.who, c.ride, c.snap)
  BY <1>1, <1>2, <1>9 DEF Commit
<1>11. QED
  BY <1>1, <1>2, <1>3, <1>6, <1>8, <1>10

\* Steps that leave the rows and the outbox alone, and the entities fresh.
LEMMA SerialKept ==
  ASSUME SerialInv, UNCHANGED <<rides, outbox, published>>,
         \A v \in Workers : calls'[v].phase \in Calling =>
           \/ calls[v].phase \in Calling /\ calls'[v] = calls[v]
           \/ /\ calls'[v].snap = rides[calls'[v].ride]
              /\ calls'[v].phase = "saving" =>
                   calls'[v].cols =
                     Changed(Image(calls'[v].op, calls'[v].who, calls'[v].snap), calls'[v].snap)
              /\ calls'[v].op = "fare" => calls'[v].snap.status \in EndedStatus
  PROVE  SerialInv'
<1>1. EntitiesFresh'
  BY DEF SerialInv, EntitiesFresh
<1>2. RowCoherent'
  BY DEF SerialInv, RowCoherent, Exists
<1>3. EndedRides'
  BY DEF SerialInv, EndedRides, EndRecorded, Said, Exists
<1>4. QED
  BY <1>1, <1>2, <1>3 DEF SerialInv

LEMMA SerialInvStep ==
  TypeInv /\ SerialInv /\ HandlersApart /\ [HandlerStep]_rideVars => SerialInv'
<1> SUFFICES ASSUME TypeInv, SerialInv, HandlersApart, [HandlerStep]_rideVars PROVE SerialInv'
  OBVIOUS
<1>0. /\ rides \in [Rides -> Row \cup {NoRow}] /\ outbox \in Seq(Event)
      /\ calls \in [Workers -> {Idle} \cup RequestCall \cup RideCall]
      /\ Idle.phase \notin Calling
  BY DEF TypeInv, RideTypeOK, Idle, Calling
<1>1. ASSUME NEW w \in Workers, NEW p \in Passengers, BeginRequest(w, p)
      PROVE  SerialInv'
  BY <1>0, <1>1, SerialKept DEF BeginRequest, Calling
<1>2. ASSUME NEW w \in Workers, NEW op, NEW who, NEW r \in Rides, Begin(w, op, who, r),
             op \in {"fare", "paid", "pay_failed"} => Said("ride.ended", r)
      PROVE  SerialInv'
  <2>1. UNCHANGED <<rides, outbox, published>>
    BY <1>2 DEF Begin
  <2>2. \A v \in Workers \ {w} : calls'[v] = calls[v]
    BY <1>0, <1>2 DEF Begin
  <2>3. /\ calls'[w].snap = rides[calls'[w].ride] /\ calls'[w].phase # "saving"
        /\ calls'[w].ride = r /\ calls'[w].op = op
    BY <1>0, <1>2 DEF Begin
  <2>4. op = "fare" => rides[r].status \in EndedStatus
    BY <1>2 DEF SerialInv, EndedRides, EndRecorded
  <2>5. QED
    BY <2>1, <2>2, <2>3, <2>4, SerialKept
<1>3. ASSUME NEW w \in Workers, ClaimLost(w)
      PROVE  SerialInv'
  BY <1>0, <1>3, SerialKept DEF ClaimLost
<1>4. ASSUME NEW w \in Workers, ClaimWon(w) \/ Select(w)
      PROVE  SerialInv'
  <2>0. UNCHANGED <<rides, outbox, published>>
    BY <1>4 DEF ClaimWon, Select
  <2>1. calls[w] \in RideCall /\ calls[w].phase \in Calling
    BY <1>4, PhaseOfCall DEF ClaimWon, Select, TypeInv, Calling
  <2>2. \A v \in Workers \ {w} : calls'[v] = calls[v]
    BY <1>0, <1>4 DEF ClaimWon, Select
  <2>3. /\ calls[w].snap = rides[calls[w].ride]
        /\ calls[w].op = "fare" => calls[w].snap.status \in EndedStatus
    BY <2>1 DEF SerialInv, EntitiesFresh
  <2>4. CASE ClaimWon(w)
    <3>1. calls'[w] = [calls[w] EXCEPT !.phase = "loaded"]
      BY <1>0, <2>4 DEF ClaimWon
    <3>2. QED
      BY <2>0, <2>1, <2>2, <2>3, <3>1, SerialKept DEF RideCall
  <2>5. CASE Select(w)
    <3>1. PICK cols : /\ cols = Changed(Image(calls[w].op, calls[w].who, calls[w].snap),
                                        rides[calls[w].ride])
                      /\ calls'[w] = [calls[w] EXCEPT !.phase = "saving", !.cols = cols]
      BY <1>0, <2>5 DEF Select
    <3>2. /\ calls'[w].op = calls[w].op /\ calls'[w].who = calls[w].who
          /\ calls'[w].ride = calls[w].ride /\ calls'[w].snap = calls[w].snap
          /\ calls'[w].cols = cols
      BY <2>1, <3>1 DEF RideCall
    <3>3. calls'[w].cols =
            Changed(Image(calls'[w].op, calls'[w].who, calls'[w].snap), calls'[w].snap)
      BY <2>3, <3>1, <3>2
    <3>4. QED
      BY <2>0, <2>2, <2>3, <3>2, <3>3, SerialKept
  <2>6. QED
    BY <1>4, <2>4, <2>5
<1>5. ASSUME NEW w \in Workers, CommitRequest(w)
      PROVE  SerialInv'
  <2> DEFINE row == [passenger |-> calls[w].who, status |-> "matching", driver |-> NoOne,
                     rematch |-> 0, arrived |-> FALSE, fare |-> FALSE]
  <2>1. PICK r \in Rides :
          /\ \A q \in Rides : Exists(q) <=> q < r
          /\ \/ /\ rides' = [rides EXCEPT ![r] = row]
                /\ outbox' = Append(outbox, [name |-> "ride.requested", ride |-> r,
                                             driver |-> NoOne])
             \/ UNCHANGED <<rides, outbox>>
    BY <1>5 DEF CommitRequest
  <2>2. calls' = [calls EXCEPT ![w] = Idle] /\ UNCHANGED published
    BY <1>5 DEF CommitRequest
  <2>3. ~Exists(r)
    BY <2>1
  <2>4. \A q \in Rides : Exists(q) => rides'[q] = rides[q]
    BY <1>0, <2>1, <2>3
  <2>5. Coherent(row)
    BY DEF Coherent, DriverActive, PassengerActive
  <2>6. \A q \in Rides : rides'[q] # rides[q] => rides'[q] = row
    <3> HIDE DEF row
    <3>1. QED
      BY <1>0, <2>1
  <2> HIDE DEF row
  <2>7. RowCoherent'
    <3>1. \A q \in Rides : rides'[q] # NoRow => Coherent(rides'[q])
      BY <2>5, <2>6, RowsCoherent DEF SerialInv, Exists
    <3>2. QED
      BY <3>1 DEF RowCoherent, Coherent, Exists
  <2>8. EntitiesFresh'
    <3>1. \A v \in Workers : calls'[v].phase \in Calling =>
            calls'[v] = calls[v] /\ calls[v].ride \in Rides /\ Exists(calls[v].ride)
      BY <1>0, <2>2, PhaseOfCall DEF TypeInv, CallsOnRows, RideCall
    <3>2. QED
      BY <2>4, <3>1, ZenonT(40) DEF SerialInv, EntitiesFresh
  <2>9. EndedRides'
    <3>1. \A q \in Rides : EndRecorded(q)' => EndRecorded(q)
      <4>1. CASE UNCHANGED outbox
        BY <2>2, <4>1 DEF EndRecorded, Said
      <4>2. CASE outbox' = Append(outbox, [name |-> "ride.requested", ride |-> r,
                                           driver |-> NoOne])
        BY <1>0, <2>2, <4>2 DEF EndRecorded, Said
      <4>3. QED
        BY <2>1, <4>1, <4>2
    <3>2. QED
      BY <2>4, <3>1 DEF SerialInv, EndedRides, Exists
  <2>10. QED
    BY <2>7, <2>8, <2>9 DEF SerialInv
<1>6. ASSUME NEW w \in Workers, Commit(w)
      PROVE  SerialInv'
  <2>1. PICK c \in RideCall, image \in Row :
           /\ c = calls[w] /\ c.phase \in Calling /\ c.ride \in Rides /\ Exists(c.ride)
           /\ Coherent(image)
           /\ rides[c.ride].status \in EndedStatus => image.status \in EndedStatus
           /\ c.op = "end" => image.status \in EndedStatus
           /\ \/ UNCHANGED <<rides, outbox>>
              \/ /\ rides' = [rides EXCEPT ![c.ride] = image]
                 /\ outbox' = outbox \o Emitted(c.op, c.who, c.ride, c.snap)
    BY <1>6, SerialCommit
  <2>2. calls' = [calls EXCEPT ![w] = Idle] /\ UNCHANGED published
    BY <1>6 DEF Commit
  <2>3. CASE UNCHANGED <<rides, outbox>>
    BY <1>0, <2>2, <2>3, SerialKept
  <2>4. CASE /\ rides' = [rides EXCEPT ![c.ride] = image]
             /\ outbox' = outbox \o Emitted(c.op, c.who, c.ride, c.snap)
    <3>1. \A q \in Rides : rides'[q] = IF q = c.ride THEN image ELSE rides[q]
      BY <1>0, <2>4
    <3>2. RowCoherent'
      <4>1. \A q \in Rides : rides'[q] # NoRow => Coherent(rides'[q])
        BY <2>1, <3>1, RowsCoherent DEF SerialInv, Exists
      <4>2. QED
        BY <4>1 DEF RowCoherent, Coherent, Exists
    <3>3. EntitiesFresh'
      <4>1. \A v \in Workers : calls'[v].phase \in Calling =>
              /\ calls'[v] = calls[v] /\ v # w /\ calls[v].ride \in Rides
              /\ calls[v].ride # c.ride
        BY <1>0, <2>1, <2>2, PhaseOfCall DEF TypeInv, HandlersApart, RideCall
      <4>2. \A v \in Workers : calls'[v].phase \in Calling =>
              calls'[v] = calls[v] /\ rides'[calls[v].ride] = rides[calls[v].ride]
        BY <3>1, <4>1
      <4>3. QED
        BY <4>2, ZenonT(40) DEF SerialInv, EntitiesFresh
    <3>4. EndedRides'
      <4>1. \A i \in DOMAIN Emitted(c.op, c.who, c.ride, c.snap) :
              LET e == Emitted(c.op, c.who, c.ride, c.snap)[i] IN
              e.name = "ride.ended" => e.ride = c.ride /\ c.op = "end"
        BY EmittedEvents
      <4>2. Emitted(c.op, c.who, c.ride, c.snap) \in Seq(Event)
        BY <2>1, EmittedType DEF RideCall, TypeInv, CallsChecked, CallChecked
      <4>3. PICK event : event = Emitted(c.op, c.who, c.ride, c.snap)
        OBVIOUS
      <4>4. \A i \in DOMAIN outbox' :
              \/ i \in DOMAIN outbox /\ outbox'[i] = outbox[i]
              \/ i - Len(outbox) \in DOMAIN event /\ outbox'[i] = event[i - Len(outbox)]
        BY <1>0, <2>4, <4>2, <4>3
      <4>5. \A q \in Rides : EndRecorded(q)' => (EndRecorded(q) \/ (q = c.ride /\ c.op = "end"))
        BY <2>2, <4>1, <4>3, <4>4 DEF EndRecorded, Said
      <4>6. \A q \in Rides : EndRecorded(q) => q = c.ride \/ rides'[q] = rides[q]
        BY <3>1
      <4>7. image # NoRow
        BY NoRowIsNoRow
      <4>8. QED
        BY <2>1, <3>1, <4>5, <4>7 DEF SerialInv, EndedRides, Exists
    <3>5. QED
      BY <3>2, <3>3, <3>4 DEF SerialInv
  <2>5. QED
    BY <2>1, <2>3, <2>4
<1>7. CASE Relay
  <2>1. UNCHANGED <<rides, calls>> /\ published' = published \cup {outbox[1]}
        /\ outbox' = Tail(outbox) /\ 1 \in DOMAIN outbox
    BY <1>0, <1>7 DEF Relay
  <2>2. RowCoherent' /\ EntitiesFresh'
    BY <2>1 DEF SerialInv, RowCoherent, EntitiesFresh, Exists
  <2>3. \A i \in DOMAIN outbox' : i + 1 \in DOMAIN outbox /\ outbox'[i] = outbox[i + 1]
    BY <1>0, <2>1
  <2>4. \A q \in Rides : EndRecorded(q)' => EndRecorded(q)
    BY <2>1, <2>3 DEF EndRecorded, Said
  <2>5. EndedRides'
    BY <2>1, <2>4 DEF SerialInv, EndedRides, Exists
  <2>6. QED
    BY <2>2, <2>5 DEF SerialInv
<1>8. CASE UNCHANGED rideVars
  BY <1>8, SerialKept DEF rideVars
<1>9. CASE Abandon
  BY <1>0, <1>9, SerialKept DEF Abandon
<1>10. QED
  BY <1>1, <1>2, <1>3, <1>4, <1>5, <1>6, <1>7, <1>8, <1>9 DEF HandlerStep, Begins, Serve

LEMMA SerialNext ==
  TypeInv /\ SerialInv /\ HandlersApart /\ [RideNext]_rideVars => SerialInv'
BY SerialInvStep, NextIsHandlerStep

\* In an execution in which no two handlers work on the same ride at a time,
\* the columns of every row agree with its status.
THEOREM RowsStayCoherent == RideSpec /\ []HandlersApart => []RowCoherent
<1>1. RideSpec /\ []HandlersApart => [](TypeInv /\ SerialInv)
  BY TypeInit, TypeNext, SerialInit, SerialNext, PTL DEF RideSpec
<1>2. SerialInv => RowCoherent
  BY DEF SerialInv
<1>3. QED
  BY <1>1, <1>2, PTL

=============================================================================
