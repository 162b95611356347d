------------------------------ MODULE FleetProofs ------------------------------
(***************************************************************************)
(* Theorems about the Driver service: who may be online, which vehicle is  *)
(* whose, and what Dispatch has been told; and about the Passenger service:*)
(* how many methods are saved, and that a block stays.                     *)
(***************************************************************************)
EXTENDS Services, FiniteSetTheorems, TLAPS

USE FleetAssumption

\* A call on driver d is at work.
On(w, d) == driverCalls[w] # Drive!Idle /\ driverCalls[w].driver = d

\* A call that has loaded its driver and will save him, or go on to.
Loaded(call) ==
  \/ call.op # "onboard" /\ call.step \in {"check", "save", "closing", "commit"}
  \/ call.op = "lift" /\ call.step = "publish"

\* Which steps an operation has.
CallTyped(call) ==
  /\ call.driver \in Drivers
  /\ call.op = "assign" => call.vehicle \in Vehicles
  /\ call.op \in Drive!DriverOps \cup {"escalate"}
  /\ call.step = "load" => call.op \in {"onboard", "escalate"}
  /\ Loaded(call) => call.entity \in Drive!Driver /\ drivers[call.driver] # Drive!NoDriver
  /\ call.op = "escalate" => drivers[call.driver] # Drive!NoDriver
  /\ call.step = "publish" => call.op \in {"online", "offline", "lift"}

FleetTyped ==
  /\ drivers \in [Drivers -> Drive!Driver \cup {Drive!NoDriver}]
  /\ suspensions \in [Drivers -> Nat]
  /\ driverCalls \in [Workers -> Drive!Call \cup {Drive!Idle}]
  /\ \A w \in Workers : driverCalls[w] # Drive!Idle => CallTyped(driverCalls[w])

\* Only drivers who have been onboarded have open assignments.
Paired ==
  /\ assignments \subseteq Drivers \X Vehicles
  /\ \A a \in assignments : drivers[a[1]] # Drive!NoDriver

\* What the one call on a driver knows of him.
Knows(w, d) ==
  /\ Loaded(driverCalls[w]) => driverCalls[w].entity = drivers[d]
  /\ driverCalls[w].op = "online" /\ driverCalls[w].step = "save" =>
       driverCalls[w].entity.vehicle # None /\ suspensions[d] = 0
  /\ driverCalls[w].op \in {"online", "offline"} /\ driverCalls[w].step = "publish" =>
       drivers[d].online = driverCalls[w].op
  /\ driverCalls[w].op = "assign" /\ driverCalls[w].step \in {"closing", "commit"} =>
       \A a \in assignments : a[1] = d => a \in driverCalls[w].closing

IsOnline(d) == drivers[d] # Drive!NoDriver /\ drivers[d].online = "online"

\* A driver no two calls have overlapped on.
DriverSound(d) ==
  /\ \A w, o \in Workers : On(w, d) /\ On(o, d) => w = o
  /\ \A w \in Workers : On(w, d) => Knows(w, d)
  /\ IsOnline(d) => drivers[d].vehicle # None /\ suspensions[d] = 0
  /\ \A a \in assignments : a[1] = d => drivers[d].vehicle = a[2]
  /\ IsOnline(d) /\ d \notin driversCut =>
       \/ d \in online
       \/ \E w \in Workers :
            On(w, d) /\ driverCalls[w].op = "online" /\ driverCalls[w].step = "publish"

FleetInv == FleetTyped /\ Paired /\ \A d \in Drivers \ driversOverlapped : DriverSound(d)

-----------------------------------------------------------------------------
(***************************************************************************)
(* What the steps share                                                    *)
(***************************************************************************)
\* The call of worker w, on driver d, begins, goes on or ends.
Moves(w, d, call) ==
  /\ driverCalls' = [driverCalls EXCEPT ![w] = call]
  /\ call # Drive!Idle => call.driver = d
  /\ driversOverlapped \subseteq driversOverlapped'
  /\ \/ driverCalls[w] # Drive!Idle /\ driverCalls[w].driver = d
     \/ /\ driverCalls[w] = Drive!Idle
        /\ \A o \in Workers : On(o, d) => d \in driversOverlapped'

\* Nothing is changed of the other drivers; an assignment may be closed.
Elsewhere(d) ==
  /\ \A e \in Drivers \ {d} :
       /\ drivers'[e] = drivers[e] /\ suspensions'[e] = suspensions[e]
       /\ e \in online' <=> e \in online
       /\ e \in driversCut' <=> e \in driversCut
  /\ \A a \in assignments' : a[1] # d => a \in assignments

LEMMA CallsMoved ==
  ASSUME FleetInv, NEW w \in Workers, NEW d, NEW call, Moves(w, d, call)
  PROVE  /\ driverCalls'[w] = call
         /\ \A o \in Workers \ {w} : driverCalls'[o] = driverCalls[o]
BY DEF FleetInv, FleetTyped, Moves

LEMMA TypedMoves ==
  ASSUME FleetInv, NEW w \in Workers, NEW d, NEW call, Moves(w, d, call),
         drivers' \in [Drivers -> Drive!Driver \cup {Drive!NoDriver}],
         \A e \in Drivers : drivers[e] # Drive!NoDriver => drivers'[e] # Drive!NoDriver,
         suspensions' \in [Drivers -> Nat],
         call \in Drive!Call \cup {Drive!Idle},
         call # Drive!Idle => CallTyped(call)'
  PROVE  FleetTyped'
<1>1. driverCalls \in [Workers -> Drive!Call \cup {Drive!Idle}]
  BY DEF FleetInv, FleetTyped
<1>2. driverCalls' \in [Workers -> Drive!Call \cup {Drive!Idle}]
  BY <1>1 DEF Moves
<1>3. /\ driverCalls'[w] = call
      /\ \A o \in Workers \ {w} : driverCalls'[o] = driverCalls[o]
  BY CallsMoved
<1>4. ASSUME NEW o \in Workers, NEW c, c = driverCalls'[o], c # Drive!Idle
      PROVE  CallTyped(c)'
  <2>1. CASE o = w
    BY <1>3, <1>4, <2>1
  <2>2. CASE o # w
    <3>1. c = driverCalls[o]
      BY <1>3, <1>4, <2>2
    <3>2. CallTyped(c)
      BY <1>4, <3>1 DEF FleetInv, FleetTyped, CallTyped, Loaded
    <3>3. QED
      BY <3>2 DEF CallTyped, Loaded
  <2>3. QED
    BY <2>1, <2>2
<1>5. \A o \in Workers : driverCalls'[o] # Drive!Idle => CallTyped(driverCalls[o])'
  BY <1>4 DEF CallTyped, Loaded
<1>6. QED
  BY <1>2, <1>5 DEF FleetTyped, Drive!Idle, Drive!NoDriver

\* The driver whose call moves is sound if what the call knows next is right; the
\* others stay as they were.
LEMMA DriverMoves ==
  ASSUME FleetInv, NEW w \in Workers, NEW d \in Drivers, NEW call, Moves(w, d, call),
         Elsewhere(d), FleetTyped', Paired',
         d \notin driversOverlapped' =>
           /\ call # Drive!Idle => Knows(w, d)'
           /\ IsOnline(d)' => drivers'[d].vehicle # None /\ suspensions'[d] = 0
           /\ \A a \in assignments' : a[1] = d => drivers'[d].vehicle = a[2]
           /\ IsOnline(d)' /\ d \notin driversCut' =>
                \/ d \in online'
                \/ call # Drive!Idle /\ call.op = "online" /\ call.step = "publish"
  PROVE  FleetInv'
<1>1. /\ driverCalls'[w] = call
      /\ \A o \in Workers \ {w} : driverCalls'[o] = driverCalls[o]
      /\ driversOverlapped \subseteq driversOverlapped'
  <2>1. driversOverlapped \subseteq driversOverlapped'
    BY DEF Moves
  <2>2. QED
    BY <2>1, CallsMoved
<1>2. ASSUME NEW e \in Drivers \ driversOverlapped', e # d
      PROVE  DriverSound(e)'
  <2>1. DriverSound(e)
    BY <1>1, <1>2 DEF FleetInv
  <2>2. ~On(w, e) /\ ~On(w, e)'
    BY <1>1, <1>2 DEF Moves, On, Drive!Idle
  <2>3. \A o \in Workers : On(o, e)' <=> On(o, e)
    BY <1>1, <2>2 DEF On, Drive!Idle
  <2>4. \A o \in Workers : On(o, e) => driverCalls'[o] = driverCalls[o]
    BY <1>1, <2>2
  <2>5. drivers'[e] = drivers[e] /\ suspensions'[e] = suspensions[e]
        /\ (IsOnline(e)' <=> IsOnline(e))
    BY <1>2 DEF Elsewhere, IsOnline, Drive!NoDriver
  <2>6. \A o \in Workers : On(o, e)' => Knows(o, e)'
    <3>1. \A a \in assignments' : a[1] = e => a \in assignments
      BY <1>2 DEF Elsewhere
    <3>2. TAKE o \in Workers
    <3>3. HAVE On(o, e)'
    <3>4. /\ Knows(o, e) /\ driverCalls'[o] = driverCalls[o]
      BY <2>1, <2>3, <2>4, <3>3 DEF DriverSound
    <3>5. QED
      BY <2>5, <3>1, <3>4 DEF Knows, Loaded
  <2>7. \A a \in assignments' : a[1] = e => drivers'[e].vehicle = a[2]
    BY <1>2, <2>1, <2>5 DEF DriverSound, Elsewhere
  <2>8. IsOnline(e)' /\ e \notin driversCut' =>
          \/ e \in online'
          \/ \E o \in Workers :
               On(o, e)' /\ driverCalls'[o].op = "online" /\ driverCalls'[o].step = "publish"
    BY <1>2, <2>1, <2>3, <2>4, <2>5 DEF DriverSound, Elsewhere
  <2>9. QED
    BY <2>1, <2>3, <2>5, <2>6, <2>7, <2>8 DEF DriverSound
<1>3. ASSUME d \notin driversOverlapped'
      PROVE  DriverSound(d)'
  <2>1. \A o \in Workers \ {w} : ~On(o, d)'
    <3>1. \A o \in Workers \ {w} : On(o, d)' => On(o, d)
      BY <1>1 DEF On, Drive!Idle
    <3>2. CASE On(w, d)
      <4>1. DriverSound(d)
        BY <1>1, <1>3 DEF FleetInv
      <4>2. QED
        BY <3>1, <3>2, <4>1 DEF DriverSound
    <3>3. CASE ~On(w, d)
      BY <1>3, <3>1, <3>3 DEF Moves, On
    <3>4. QED
      BY <3>2, <3>3
  <2>2. On(w, d)' <=> call # Drive!Idle
    BY <1>1 DEF On, Moves, Drive!Idle
  <2>3. \A o \in Workers : On(o, d)' => Knows(o, d)'
    BY <1>3, <2>1, <2>2
  <2>4. IsOnline(d)' /\ d \notin driversCut' =>
          \/ d \in online'
          \/ \E o \in Workers :
               On(o, d)' /\ driverCalls'[o].op = "online" /\ driverCalls'[o].step = "publish"
    BY <1>1, <1>3, <2>2
  <2>5. QED
    BY <1>3, <2>1, <2>3, <2>4 DEF DriverSound
<1>4. \A e \in Drivers \ driversOverlapped' : DriverSound(e)'
  BY <1>2, <1>3
<1>5. QED
  BY <1>4 DEF FleetInv


\* What an operation changes in the entity it saves.
LEMMA ChangedFields ==
  ASSUME NEW c, c.entity \in Drive!Driver,
         c.op \in (Drive!DriverOps \cup {"escalate"}) \ {"onboard"},
         c.op = "assign" => c.vehicle \in Vehicles
  PROVE  /\ Drive!Changed(c) \in Drive!Driver
         /\ Drive!Changed(c) # Drive!NoDriver
         /\ c.op # "assign" => Drive!Changed(c).vehicle = c.entity.vehicle
         /\ c.op = "assign" => Drive!Changed(c).vehicle = c.vehicle
         /\ c.op \in {"online", "offline"} => Drive!Changed(c).online = c.op
         /\ c.op \in {"suspend", "escalate"} => Drive!Changed(c).online = "offline"
         /\ c.op \in {"approve", "lift", "reject", "assign"} =>
              Drive!Changed(c).online = c.entity.online
<1>1. CASE c.op \in {"approve", "lift"}
  BY <1>1 DEF Drive!Changed, Drive!Driver, Drive!NoDriver
<1>2. CASE c.op = "reject"
  BY <1>2 DEF Drive!Changed, Drive!Driver, Drive!NoDriver
<1>3. CASE c.op = "assign"
  BY <1>3 DEF Drive!Changed, Drive!Driver, Drive!NoDriver
<1>4. CASE c.op \in {"online", "offline"}
  BY <1>4 DEF Drive!Changed, Drive!Driver, Drive!NoDriver
<1>5. CASE c.op \in {"suspend", "escalate"}
  BY <1>5 DEF Drive!Changed, Drive!Driver, Drive!NoDriver
<1>6. QED
  BY <1>1, <1>2, <1>3, <1>4, <1>5 DEF Drive!DriverOps

\* A call that begins overlaps with those on the same driver.
LEMMA BeginMoves ==
  ASSUME FleetInv, NEW w \in Workers, NEW op, NEW d \in Drivers, NEW v, NEW step, NEW entity,
         Drive!Begin(w, op, d, v, step, entity)
  PROVE  Moves(w, d, [op |-> op, driver |-> d, vehicle |-> v, step |-> step,
                      entity |-> entity, closing |-> {}])
<1>1. ASSUME NEW o \in Workers, On(o, d)
      PROVE  d \in driversOverlapped'
  <2>1. d \in Drive!Subjects
    BY <1>1 DEF On, Drive!Subjects
  <2>2. QED
    BY <2>1 DEF Drive!Begin
<1>2. QED
  BY <1>1 DEF Moves, Drive!Begin, Drive!Idle

\* A call that only looks at the tables and goes on, or gives up.
LEMMA LookingOn ==
  ASSUME FleetInv, NEW w \in Workers, NEW d \in Drivers, NEW call, Moves(w, d, call),
         UNCHANGED <<drivers, assignments, suspensions, online, driversCut>>,
         call \in Drive!Call \cup {Drive!Idle},
         call # Drive!Idle => CallTyped(call)',
         d \notin driversOverlapped' => (call # Drive!Idle => Knows(w, d)'),
         driverCalls[w] # Drive!Idle =>
           ~(driverCalls[w].op = "online" /\ driverCalls[w].step = "publish")
  PROVE  FleetInv'
<1>1. drivers \in [Drivers -> Drive!Driver \cup {Drive!NoDriver}] /\ suspensions \in [Drivers -> Nat]
  BY DEF FleetInv, FleetTyped
<1>2. FleetTyped'
  BY <1>1, TypedMoves
<1>3. Paired'
  BY DEF FleetInv, Paired, Drive!NoDriver
<1>4. Elsewhere(d)
  BY DEF Elsewhere
<1>5. ASSUME d \notin driversOverlapped'
      PROVE  /\ IsOnline(d)' => drivers'[d].vehicle # None /\ suspensions'[d] = 0
             /\ \A a \in assignments' : a[1] = d => drivers'[d].vehicle = a[2]
             /\ IsOnline(d)' /\ d \notin driversCut' => d \in online'
  <2>1. DriverSound(d)
    BY <1>5 DEF FleetInv, Moves
  <2>2. IsOnline(d)' <=> IsOnline(d)
    BY DEF IsOnline, Drive!NoDriver
  <2>3. ASSUME NEW o \in Workers, On(o, d), driverCalls[o].op = "online",
               driverCalls[o].step = "publish"
        PROVE  FALSE
    BY <1>5, <2>1, <2>3 DEF DriverSound, Moves, On
  <2>4. QED
    BY <2>1, <2>2, <2>3 DEF DriverSound
<1>6. QED
  BY <1>2, <1>3, <1>4, <1>5, DriverMoves


-----------------------------------------------------------------------------
(***************************************************************************)
(* The calls that begin                                                    *)
(***************************************************************************)
LEMMA OnboardStep ==
  ASSUME FleetInv, NEW w \in Workers, NEW d \in Drivers, Drive!Onboard(w, d)
  PROVE  FleetInv'
<1>1. PICK call : call = [op |-> "onboard", driver |-> d, vehicle |-> None, step |-> "load",
                          entity |-> Drive!NoDriver, closing |-> {}]
  OBVIOUS
<1>2. Moves(w, d, call)
  BY <1>1, BeginMoves DEF Drive!Onboard
<1>3. driverCalls'[w] = call
  BY <1>2, CallsMoved
<1>4. call \in Drive!Call
  BY <1>1 DEF Drive!Call, Drive!DriverOps
<1>5. CallTyped(call)'
  BY <1>1 DEF CallTyped, Loaded, Drive!DriverOps
<1>6. Knows(w, d)'
  BY <1>1, <1>3 DEF Knows, Loaded
<1>7. UNCHANGED <<drivers, assignments, suspensions, online, driversCut>> /\ driverCalls[w] = Drive!Idle
  BY DEF Drive!Onboard, Drive!Begin
<1>8. QED
  BY <1>2, <1>4, <1>5, <1>6, <1>7, LookingOn

LEMMA LoadStep ==
  ASSUME FleetInv, NEW w \in Workers, NEW d \in Drivers, NEW v \in Vehicles \cup {None},
         NEW op \in Drive!DriverOps \ {"onboard"}, op = "assign" => v \in Vehicles,
         Drive!Load(w, op, d, v)
  PROVE  FleetInv'
<1>1. PICK step : step = IF op = "online" THEN "check" ELSE "save"
  OBVIOUS
<1>2. PICK call : call = [op |-> op, driver |-> d, vehicle |-> v, step |-> step,
                          entity |-> drivers[d], closing |-> {}]
  OBVIOUS
<1>3. Moves(w, d, call)
  BY <1>1, <1>2, BeginMoves DEF Drive!Load
<1>4. driverCalls'[w] = call
  BY <1>3, CallsMoved
<1>5. drivers[d] \in Drive!Driver
  BY DEF FleetInv, FleetTyped, Drive!Load, Drive!Exists
<1>6. call \in Drive!Call
  BY <1>1, <1>2, <1>5 DEF Drive!Call
<1>7. UNCHANGED <<drivers, assignments, suspensions, online, driversCut>> /\ driverCalls[w] = Drive!Idle
  BY DEF Drive!Load, Drive!Begin
<1>8. CallTyped(call)'
  BY <1>1, <1>2, <1>5, <1>7 DEF CallTyped, Loaded, Drive!DriverOps, Drive!Load, Drive!Exists
<1>9. Knows(w, d)'
  BY <1>1, <1>2, <1>4, <1>7 DEF Knows, Loaded
<1>10. QED
  BY <1>3, <1>6, <1>7, <1>8, <1>9, LookingOn

LEMMA FindAssignedStep ==
  ASSUME FleetInv, NEW w \in Workers, NEW d \in Drivers, NEW v \in Vehicles,
         Drive!FindAssigned(w, d, v)
  PROVE  FleetInv'
<1>1. PICK call : call = [op |-> "escalate", driver |-> d, vehicle |-> v, step |-> "load",
                          entity |-> Drive!NoDriver, closing |-> {}]
  OBVIOUS
<1>2. Moves(w, d, call)
  BY <1>1, BeginMoves DEF Drive!FindAssigned
<1>3. driverCalls'[w] = call
  BY <1>2, CallsMoved
<1>4. call \in Drive!Call
  BY <1>1 DEF Drive!Call
<1>5. drivers'[d] # Drive!NoDriver
  BY DEF FleetInv, Paired, Drive!FindAssigned
<1>6. CallTyped(call)'
  BY <1>1, <1>5 DEF CallTyped, Loaded, Drive!DriverOps
<1>7. Knows(w, d)'
  BY <1>1, <1>3 DEF Knows, Loaded
<1>8. UNCHANGED <<drivers, assignments, suspensions, online, driversCut>> /\ driverCalls[w] = Drive!Idle
  BY DEF Drive!FindAssigned, Drive!Begin
<1>9. QED
  BY <1>2, <1>4, <1>6, <1>7, <1>8, LookingOn

-----------------------------------------------------------------------------
(***************************************************************************)
(* The calls that go on                                                    *)
(***************************************************************************)
LEMMA AtWork ==
  ASSUME FleetInv, NEW w \in Workers, driverCalls[w] # Drive!Idle
  PROVE  /\ CallTyped(driverCalls[w]) /\ driverCalls[w] \in Drive!Call
         /\ driverCalls[w].driver \in Drivers
         /\ driverCalls[w].driver \notin driversOverlapped =>
              DriverSound(driverCalls[w].driver) /\ Knows(w, driverCalls[w].driver)
<1>1. CallTyped(driverCalls[w]) /\ driverCalls[w] \in Drive!Call
  BY DEF FleetInv, FleetTyped
<1>2. driverCalls[w].driver \in Drivers
  BY <1>1 DEF CallTyped
<1>3. ASSUME driverCalls[w].driver \notin driversOverlapped
      PROVE  DriverSound(driverCalls[w].driver) /\ Knows(w, driverCalls[w].driver)
  <2>1. DriverSound(driverCalls[w].driver)
    BY <1>2, <1>3 DEF FleetInv
  <2>2. On(w, driverCalls[w].driver)
    BY DEF On
  <2>3. QED
    BY <2>1, <2>2 DEF DriverSound
<1>4. QED
  BY <1>1, <1>2, <1>3

LEMMA GoingMoves ==
  ASSUME FleetInv, NEW w \in Workers, driverCalls[w] # Drive!Idle, NEW call,
         call # Drive!Idle => call.driver = driverCalls[w].driver,
         driverCalls' = [driverCalls EXCEPT ![w] = call], UNCHANGED driversOverlapped
  PROVE  Moves(w, driverCalls[w].driver, call)
BY DEF Moves

LEMMA IdleMoves ==
  ASSUME FleetInv, NEW w \in Workers, driverCalls[w] # Drive!Idle,
         Drive!Leave(w), UNCHANGED driversOverlapped
  PROVE  Moves(w, driverCalls[w].driver, Drive!Idle)
BY GoingMoves DEF Drive!Leave

LEMMA GotoMoves ==
  ASSUME FleetInv, NEW w \in Workers, driverCalls[w] # Drive!Idle, NEW step, NEW call,
         call = [driverCalls[w] EXCEPT !.step = step],
         Drive!Goto(w, step), UNCHANGED driversOverlapped
  PROVE  /\ Moves(w, driverCalls[w].driver, call)
         /\ step \in {"load", "check", "save", "closing", "commit", "publish"} =>
              call \in Drive!Call
         /\ call.driver = driverCalls[w].driver /\ call.op = driverCalls[w].op
         /\ call.vehicle = driverCalls[w].vehicle /\ call.entity = driverCalls[w].entity
         /\ call.step = step /\ call.closing = driverCalls[w].closing
<1>1. driverCalls[w] \in Drive!Call
  BY AtWork
<1>2. /\ step \in {"load", "check", "save", "closing", "commit", "publish"} =>
              call \in Drive!Call
      /\ call.driver = driverCalls[w].driver /\ call.op = driverCalls[w].op
      /\ call.vehicle = driverCalls[w].vehicle /\ call.entity = driverCalls[w].entity
      /\ call.step = step /\ call.closing = driverCalls[w].closing
  BY <1>1 DEF Drive!Call
<1>3. driverCalls' = [driverCalls EXCEPT ![w] = call]
  BY DEF Drive!Goto
<1>4. QED
  BY <1>2, <1>3, GoingMoves

LEMMA ProvisionStep ==
  ASSUME FleetInv, NEW w \in Workers, Drive!ProvisionDriver(w)
  PROVE  FleetInv'
<1>1. /\ driverCalls[w] # Drive!Idle /\ driverCalls[w].op = "onboard" /\ driverCalls[w].step = "load"
      /\ Drive!Goto(w, "save")
      /\ UNCHANGED <<drivers, assignments, suspensions, online, driversOverlapped, driversCut>>
  BY DEF Drive!ProvisionDriver, Drive!At
<1>2. PICK d \in Drivers : d = driverCalls[w].driver
  BY <1>1, AtWork
<1>3. PICK call : call = [driverCalls[w] EXCEPT !.step = "save"]
  OBVIOUS
<1>4. /\ Moves(w, d, call) /\ call \in Drive!Call /\ call.driver = d /\ call.op = "onboard"
      /\ call.step = "save"
  BY <1>1, <1>2, <1>3, GotoMoves
<1>5. driverCalls'[w] = call
  BY <1>4, CallsMoved
<1>6. CallTyped(call)'
  BY <1>4 DEF CallTyped, Loaded, Drive!DriverOps
<1>7. Knows(w, d)'
  BY <1>4, <1>5 DEF Knows, Loaded
<1>8. QED
  BY <1>1, <1>4, <1>6, <1>7, LookingOn

LEMMA CheckStep ==
  ASSUME FleetInv, NEW w \in Workers, Drive!CheckEligible(w)
  PROVE  FleetInv'
<1>1. /\ driverCalls[w] # Drive!Idle /\ driverCalls[w].op = "online" /\ driverCalls[w].step = "check"
      /\ UNCHANGED <<drivers, assignments, suspensions, online, driversOverlapped, driversCut>>
  BY DEF Drive!CheckEligible, Drive!At
<1>2. PICK d \in Drivers : d = driverCalls[w].driver
  BY <1>1, AtWork
<1>3. CASE Drive!Leave(w)
  <2>1. Moves(w, d, Drive!Idle)
    BY <1>1, <1>2, <1>3, IdleMoves
  <2>2. QED
    BY <1>1, <2>1, LookingOn
<1>4. CASE Drive!CanGoOnline(driverCalls[w].entity, Drive!Open(d), d \in expired)
           /\ Drive!Goto(w, "save")
  <2>1. PICK call : call = [driverCalls[w] EXCEPT !.step = "save"]
    OBVIOUS
  <2>2. /\ Moves(w, d, call) /\ call \in Drive!Call /\ call.driver = d /\ call.op = "online"
        /\ call.step = "save" /\ call.entity = driverCalls[w].entity
    BY <1>1, <1>2, <1>4, <2>1, GotoMoves
  <2>3. driverCalls'[w] = call
    BY <2>2, CallsMoved
  <2>4. CallTyped(driverCalls[w])
    BY <1>1, AtWork
  <2>5. CallTyped(call)'
    BY <1>1, <1>2, <2>2, <2>4 DEF CallTyped, Loaded
  <2>6. suspensions[d] = 0 /\ call.entity.vehicle # None
    <3>1. suspensions[d] \in Nat
      BY DEF FleetInv, FleetTyped
    <3>2. QED
      BY <1>4, <2>2, <3>1 DEF Drive!CanGoOnline, Drive!Open
  <2>7. d \notin driversOverlapped' => Knows(w, d)'
    <3>1. d \notin driversOverlapped => Knows(w, d)
      BY <1>1, <1>2, AtWork
    <3>2. QED
      BY <1>1, <2>2, <2>3, <2>6, <3>1 DEF Knows, Loaded
  <2>8. QED
    BY <1>1, <2>2, <2>5, <2>7, LookingOn
<1>5. QED
  BY <1>2, <1>3, <1>4 DEF Drive!CheckEligible


LEMMA LoadAssignedStep ==
  ASSUME FleetInv, NEW w \in Workers, Drive!LoadAssigned(w)
  PROVE  FleetInv'
<1>1. /\ driverCalls[w] # Drive!Idle /\ driverCalls[w].op = "escalate"
      /\ driverCalls[w].step = "load"
      /\ UNCHANGED <<drivers, assignments, suspensions, online, driversOverlapped, driversCut>>
  BY DEF Drive!LoadAssigned, Drive!At
<1>2. PICK d \in Drivers : d = driverCalls[w].driver
  BY <1>1, AtWork
<1>3. CASE Drive!Leave(w)
  <2>1. Moves(w, d, Drive!Idle)
    BY <1>1, <1>2, <1>3, IdleMoves
  <2>2. QED
    BY <1>1, <2>1, LookingOn
<1>4. CASE driverCalls' = [driverCalls EXCEPT ![w].step = "save", ![w].entity = drivers[d]]
  <2>1. PICK call : call = [driverCalls[w] EXCEPT !.step = "save", !.entity = drivers[d]]
    OBVIOUS
  <2>2. CallTyped(driverCalls[w]) /\ driverCalls[w] \in Drive!Call
    BY <1>1, AtWork
  <2>3. drivers[d] \in Drive!Driver /\ drivers[d] # Drive!NoDriver
    BY <1>1, <1>2, <2>2 DEF FleetInv, FleetTyped, CallTyped
  <2>4. /\ call \in Drive!Call /\ call.driver = d /\ call.op = "escalate"
        /\ call.step = "save" /\ call.entity = drivers[d]
    BY <1>1, <1>2, <2>1, <2>2, <2>3 DEF Drive!Call
  <2>5. driverCalls' = [driverCalls EXCEPT ![w] = call]
    BY <1>4, <2>1
  <2>6. Moves(w, d, call)
    BY <1>1, <1>2, <2>4, <2>5, GoingMoves
  <2>7. driverCalls'[w] = call
    BY <2>6, CallsMoved
  <2>8. CallTyped(call)'
    BY <1>1, <2>3, <2>4 DEF CallTyped, Loaded, Drive!DriverOps
  <2>9. Knows(w, d)'
    BY <1>1, <2>4, <2>7 DEF Knows, Loaded
  <2>10. QED
    BY <1>1, <2>4, <2>6, <2>8, <2>9, LookingOn
<1>5. QED
  BY <1>2, <1>3, <1>4 DEF Drive!LoadAssigned

LEMMA StopStep ==
  ASSUME FleetInv, NEW w \in Workers, Drive!Stop(w)
  PROVE  FleetInv'
<1>1. /\ driverCalls[w] # Drive!Idle /\ Drive!Leave(w)
      /\ UNCHANGED <<drivers, assignments, suspensions, online, driversOverlapped>>
  BY DEF Drive!Stop
<1>2. PICK d \in Drivers : d = driverCalls[w].driver
  BY <1>1, AtWork
<1>3. Moves(w, d, Drive!Idle)
  BY <1>1, <1>2, IdleMoves
<1>4. FleetTyped'
  <2>1. drivers \in [Drivers -> Drive!Driver \cup {Drive!NoDriver}] /\ suspensions \in [Drivers -> Nat]
    BY DEF FleetInv, FleetTyped
  <2>2. QED
    BY <1>1, <1>3, <2>1, TypedMoves
<1>5. Paired'
  BY <1>1 DEF FleetInv, Paired, Drive!NoDriver
<1>6. Elsewhere(d) /\ d \in driversCut'
  BY <1>1, <1>2 DEF Elsewhere, Drive!Stop
<1>7. ASSUME d \notin driversOverlapped'
      PROVE  /\ IsOnline(d)' => drivers'[d].vehicle # None /\ suspensions'[d] = 0
             /\ \A a \in assignments' : a[1] = d => drivers'[d].vehicle = a[2]
  <2>1. DriverSound(d)
    BY <1>1, <1>2, <1>7, AtWork
  <2>2. QED
    BY <1>1, <2>1 DEF DriverSound, IsOnline, Drive!NoDriver
<1>8. QED
  BY <1>3, <1>4, <1>5, <1>6, <1>7, DriverMoves

LEMMA InsertStep ==
  ASSUME FleetInv, NEW w \in Workers, Drive!InsertDriver(w)
  PROVE  FleetInv'
<1>1. /\ driverCalls[w] # Drive!Idle /\ Drive!Leave(w)
      /\ driverCalls[w].op = "onboard" /\ driverCalls[w].step = "save"
      /\ UNCHANGED <<assignments, suspensions, online, driversOverlapped, driversCut>>
  BY DEF Drive!InsertDriver, Drive!At
<1>2. PICK d \in Drivers : d = driverCalls[w].driver
  BY <1>1, AtWork
<1>3. Moves(w, d, Drive!Idle)
  BY <1>1, <1>2, IdleMoves
<1>4. CASE Drive!Exists(d)
  <2>1. UNCHANGED drivers
    BY <1>2, <1>4 DEF Drive!InsertDriver
  <2>2. QED
    BY <1>1, <1>3, <2>1, LookingOn
<1>5. CASE ~Drive!Exists(d)
  <2>1. drivers' = [drivers EXCEPT ![d] = Drive!NewDriver]
    BY <1>2, <1>5 DEF Drive!InsertDriver
  <2>2. drivers \in [Drivers -> Drive!Driver \cup {Drive!NoDriver}] /\ suspensions \in [Drivers -> Nat]
    BY DEF FleetInv, FleetTyped
  <2>3. /\ Drive!NewDriver \in Drive!Driver /\ Drive!NewDriver # Drive!NoDriver
        /\ Drive!NewDriver.online # "online"
    BY DEF Drive!NewDriver, Drive!Driver, Drive!NoDriver
  <2>4. /\ drivers' \in [Drivers -> Drive!Driver \cup {Drive!NoDriver}]
        /\ drivers'[d] = Drive!NewDriver /\ \A e \in Drivers \ {d} : drivers'[e] = drivers[e]
    BY <2>1, <2>2, <2>3
  <2>5. \A e \in Drivers : drivers[e] # Drive!NoDriver => drivers'[e] # Drive!NoDriver
    BY <2>3, <2>4
  <2>6. FleetTyped'
    BY <1>1, <1>3, <2>2, <2>4, <2>5, TypedMoves
  <2>7. Paired'
    <3>1. \A a \in assignments : a[1] \in Drivers /\ drivers'[a[1]] # Drive!NoDriver
      BY <2>5 DEF FleetInv, Paired
    <3>2. QED
      BY <1>1, <3>1 DEF FleetInv, Paired, Drive!NoDriver
  <2>8. Elsewhere(d)
    BY <1>1, <2>4 DEF Elsewhere
  <2>9. \A a \in assignments' : a[1] # d
    BY <1>1, <1>5 DEF FleetInv, Paired, Drive!Exists
  <2>10. ~IsOnline(d)'
    BY <2>3, <2>4 DEF IsOnline
  <2>11. QED
    BY <1>3, <2>6, <2>7, <2>8, <2>9, <2>10, DriverMoves
<1>6. QED
  BY <1>4, <1>5


-----------------------------------------------------------------------------
(***************************************************************************)
(* The calls that save                                                     *)
(***************************************************************************)
LEMMA Saved ==
  ASSUME FleetInv, NEW w \in Workers, driverCalls[w] # Drive!Idle, Loaded(driverCalls[w]),
         Drive!Save(w), NEW d, d = driverCalls[w].driver, NEW saved,
         saved = Drive!Changed(driverCalls[w])
  PROVE  /\ drivers' \in [Drivers -> Drive!Driver \cup {Drive!NoDriver}]
         /\ drivers'[d] = saved /\ saved \in Drive!Driver /\ saved # Drive!NoDriver
         /\ \A e \in Drivers \ {d} : drivers'[e] = drivers[e]
         /\ \A e \in Drivers : drivers[e] # Drive!NoDriver => drivers'[e] # Drive!NoDriver
<1>1. CallTyped(driverCalls[w]) /\ driverCalls[w] \in Drive!Call /\ d \in Drivers
  BY AtWork
<1>2. saved \in Drive!Driver /\ saved # Drive!NoDriver
  <2>1. PICK c : c = driverCalls[w]
    OBVIOUS
  <2>2. /\ c.entity \in Drive!Driver /\ c.op \in (Drive!DriverOps \cup {"escalate"}) \ {"onboard"}
        /\ c.op = "assign" => c.vehicle \in Vehicles
    BY <1>1, <2>1 DEF CallTyped, Loaded
  <2>3. QED
    BY <2>1, <2>2, ChangedFields
<1>3. drivers' = [drivers EXCEPT ![d] = saved]
  BY DEF Drive!Save
<1>4. drivers \in [Drivers -> Drive!Driver \cup {Drive!NoDriver}]
  BY DEF FleetInv, FleetTyped
<1>5. QED
  BY <1>1, <1>2, <1>3, <1>4

LEMMA SavedFields ==
  ASSUME FleetInv, NEW w \in Workers, driverCalls[w] # Drive!Idle, Loaded(driverCalls[w]),
         NEW saved, saved = Drive!Changed(driverCalls[w])
  PROVE  /\ driverCalls[w].op # "assign" => saved.vehicle = driverCalls[w].entity.vehicle
         /\ driverCalls[w].op = "assign" => saved.vehicle = driverCalls[w].vehicle
         /\ driverCalls[w].op \in {"online", "offline"} => saved.online = driverCalls[w].op
         /\ driverCalls[w].op \in {"suspend", "escalate"} => saved.online = "offline"
         /\ driverCalls[w].op \in {"approve", "lift", "reject", "assign"} =>
              saved.online = driverCalls[w].entity.online
<1>1. PICK c : c = driverCalls[w]
  OBVIOUS
<1>2. CallTyped(driverCalls[w])
  BY AtWork
<1>3. /\ c.entity \in Drive!Driver /\ c.op \in (Drive!DriverOps \cup {"escalate"}) \ {"onboard"}
      /\ c.op = "assign" => c.vehicle \in Vehicles
  BY <1>1, <1>2 DEF CallTyped, Loaded
<1>4. QED
  BY <1>1, <1>3, ChangedFields

\* Open assignments still pair when those who have them are still there.
LEMMA StillPaired ==
  ASSUME FleetInv, UNCHANGED assignments,
         \A e \in Drivers : drivers[e] # Drive!NoDriver => drivers'[e] # Drive!NoDriver
  PROVE  Paired'
<1>1. \A a \in assignments : a[1] \in Drivers /\ drivers'[a[1]] # Drive!NoDriver
  BY DEF FleetInv, Paired
<1>2. QED
  BY <1>1 DEF FleetInv, Paired, Drive!NoDriver

LEMMA SuspendStep ==
  ASSUME FleetInv, NEW w \in Workers, Drive!Suspend(w)
  PROVE  FleetInv'
<1>1. /\ driverCalls[w] # Drive!Idle /\ Drive!Leave(w) /\ Drive!Save(w)
      /\ driverCalls[w].op \in {"suspend", "escalate"} /\ driverCalls[w].step = "save"
      /\ UNCHANGED <<assignments, online, driversOverlapped, driversCut>>
  BY DEF Drive!Suspend, Drive!At
<1>2. PICK d \in Drivers : d = driverCalls[w].driver
  BY <1>1, AtWork
<1>3. PICK saved : saved = Drive!Changed(driverCalls[w])
  OBVIOUS
<1>4. Loaded(driverCalls[w])
  BY <1>1 DEF Loaded
<1>5. /\ drivers' \in [Drivers -> Drive!Driver \cup {Drive!NoDriver}]
      /\ drivers'[d] = saved /\ \A e \in Drivers \ {d} : drivers'[e] = drivers[e]
      /\ \A e \in Drivers : drivers[e] # Drive!NoDriver => drivers'[e] # Drive!NoDriver
  BY <1>1, <1>2, <1>3, <1>4, Saved
<1>6. saved.online = "offline" /\ saved.vehicle = driverCalls[w].entity.vehicle
  BY <1>1, <1>3, <1>4, SavedFields
<1>7. Moves(w, d, Drive!Idle)
  BY <1>1, <1>2, IdleMoves
<1>8. /\ suspensions' \in [Drivers -> Nat]
      /\ \A e \in Drivers \ {d} : suspensions'[e] = suspensions[e]
  BY <1>2 DEF Drive!Suspend, FleetInv, FleetTyped
<1>9. FleetTyped'
  BY <1>5, <1>7, <1>8, TypedMoves
<1>10. Paired'
  BY <1>1, <1>5, StillPaired
<1>11. Elsewhere(d)
  BY <1>1, <1>5, <1>8 DEF Elsewhere
<1>12. ~IsOnline(d)'
  BY <1>5, <1>6 DEF IsOnline
<1>13. d \notin driversOverlapped' => \A a \in assignments' : a[1] = d => drivers'[d].vehicle = a[2]
  <2>1. d \notin driversOverlapped => DriverSound(d) /\ Knows(w, d)
    BY <1>1, <1>2, AtWork
  <2>2. QED
    BY <1>1, <1>4, <1>5, <1>6, <2>1 DEF DriverSound, Knows
<1>14. QED
  BY <1>7, <1>9, <1>10, <1>11, <1>12, <1>13, DriverMoves

LEMMA CloseStep ==
  ASSUME FleetInv, NEW w \in Workers, Drive!CloseSuspensions(w)
  PROVE  FleetInv'
<1>1. /\ driverCalls[w] # Drive!Idle /\ Drive!Goto(w, "publish")
      /\ driverCalls[w].op = "lift" /\ driverCalls[w].step = "save"
      /\ UNCHANGED <<drivers, assignments, online, driversOverlapped, driversCut>>
  BY DEF Drive!CloseSuspensions, Drive!At
<1>2. PICK d \in Drivers : d = driverCalls[w].driver
  BY <1>1, AtWork
<1>3. PICK call : call = [driverCalls[w] EXCEPT !.step = "publish"]
  OBVIOUS
<1>4. /\ Moves(w, d, call) /\ call \in Drive!Call /\ call.driver = d /\ call.op = "lift"
      /\ call.step = "publish" /\ call.entity = driverCalls[w].entity
  BY <1>1, <1>2, <1>3, GotoMoves
<1>5. driverCalls'[w] = call
  BY <1>4, CallsMoved
<1>6. CallTyped(driverCalls[w])
  BY <1>1, AtWork
<1>7. CallTyped(call)'
  BY <1>1, <1>2, <1>4, <1>6 DEF CallTyped, Loaded
<1>8. suspensions \in [Drivers -> Nat]
  BY DEF FleetInv, FleetTyped
<1>9. suspensions' = [suspensions EXCEPT ![d] = 0]
  BY <1>2 DEF Drive!CloseSuspensions
<1>10. /\ suspensions' \in [Drivers -> Nat] /\ suspensions'[d] = 0
       /\ \A e \in Drivers \ {d} : suspensions'[e] = suspensions[e]
  BY <1>8, <1>9
<1>11. drivers \in [Drivers -> Drive!Driver \cup {Drive!NoDriver}]
  BY DEF FleetInv, FleetTyped
<1>12. FleetTyped'
  BY <1>1, <1>4, <1>7, <1>10, <1>11, TypedMoves
<1>13. Paired' /\ Elsewhere(d)
  BY <1>1, <1>10, StillPaired DEF Elsewhere
<1>14. ASSUME d \notin driversOverlapped'
       PROVE  /\ Knows(w, d)'
              /\ IsOnline(d)' => drivers'[d].vehicle # None
              /\ \A a \in assignments' : a[1] = d => drivers'[d].vehicle = a[2]
              /\ IsOnline(d)' /\ d \notin driversCut' => d \in online'
  <2>1. DriverSound(d) /\ Knows(w, d)
    BY <1>1, <1>2, <1>14, AtWork
  <2>2. IsOnline(d)' <=> IsOnline(d)
    BY <1>1 DEF IsOnline, Drive!NoDriver
  <2>3. Knows(w, d)'
    BY <1>1, <1>4, <1>5, <2>1 DEF Knows, Loaded
  <2>4. ASSUME NEW o \in Workers, On(o, d), driverCalls[o].op = "online"
        PROVE  FALSE
    BY <1>1, <1>2, <2>1, <2>4 DEF DriverSound, On
  <2>5. QED
    BY <1>1, <2>1, <2>2, <2>3, <2>4 DEF DriverSound
<1>15. QED
  BY <1>4, <1>10, <1>12, <1>13, <1>14, DriverMoves


LEMMA SaveStep ==
  ASSUME FleetInv, NEW w \in Workers, Drive!SaveDriver(w)
  PROVE  FleetInv'
<1>1. /\ driverCalls[w] # Drive!Idle /\ Drive!Save(w)
      /\ UNCHANGED <<assignments, suspensions, online, driversOverlapped, driversCut>>
  BY DEF Drive!SaveDriver, Drive!At
<1>2. \/ /\ driverCalls[w].op \in {"approve", "reject"} /\ driverCalls[w].step = "save"
         /\ Drive!Leave(w)
      \/ /\ driverCalls[w].op \in {"online", "offline"} /\ driverCalls[w].step = "save"
         /\ Drive!Goto(w, "publish")
      \/ /\ driverCalls[w].op = "lift" /\ driverCalls[w].step = "publish"
         /\ Drive!Leave(w)
  BY DEF Drive!SaveDriver, Drive!At
<1>3. PICK d \in Drivers : d = driverCalls[w].driver
  BY <1>1, AtWork
<1>4. PICK saved : saved = Drive!Changed(driverCalls[w])
  OBVIOUS
<1>5. Loaded(driverCalls[w]) /\ driverCalls[w].op \in {"approve", "reject", "online", "offline", "lift"}
  BY <1>2 DEF Loaded
<1>6. /\ drivers' \in [Drivers -> Drive!Driver \cup {Drive!NoDriver}]
      /\ drivers'[d] = saved /\ saved # Drive!NoDriver
      /\ \A e \in Drivers \ {d} : drivers'[e] = drivers[e]
      /\ \A e \in Drivers : drivers[e] # Drive!NoDriver => drivers'[e] # Drive!NoDriver
  BY <1>1, <1>3, <1>4, <1>5, Saved
<1>7. /\ saved.vehicle = driverCalls[w].entity.vehicle
      /\ driverCalls[w].op \in {"online", "offline"} => saved.online = driverCalls[w].op
      /\ driverCalls[w].op \in {"approve", "lift", "reject"} =>
           saved.online = driverCalls[w].entity.online
  BY <1>1, <1>4, <1>5, SavedFields
<1>8. Paired' /\ Elsewhere(d)
  BY <1>1, <1>6, StillPaired DEF Elsewhere
<1>9. suspensions' \in [Drivers -> Nat]
  BY <1>1 DEF FleetInv, FleetTyped
<1>10. ASSUME d \notin driversOverlapped'
       PROVE  /\ driverCalls[w].entity = drivers[d] /\ DriverSound(d) /\ Knows(w, d)
              /\ \A a \in assignments' : a[1] = d => drivers'[d].vehicle = a[2]
  <2>1. DriverSound(d) /\ Knows(w, d)
    BY <1>1, <1>3, <1>10, AtWork
  <2>2. driverCalls[w].entity = drivers[d]
    BY <1>5, <2>1 DEF Knows
  <2>3. QED
    BY <1>1, <1>6, <1>7, <2>1, <2>2 DEF DriverSound
<1>11. CASE driverCalls[w].op \in {"online", "offline"}
  <2>1. driverCalls[w].step = "save" /\ Drive!Goto(w, "publish")
    BY <1>2, <1>11
  <2>2. PICK call : call = [driverCalls[w] EXCEPT !.step = "publish"]
    OBVIOUS
  <2>3. /\ Moves(w, d, call) /\ call \in Drive!Call /\ call.driver = d
        /\ call.op = driverCalls[w].op /\ call.step = "publish"
    BY <1>1, <1>3, <2>1, <2>2, GotoMoves
  <2>4. driverCalls'[w] = call
    BY <2>3, CallsMoved
  <2>5. CallTyped(call)'
    BY <1>11, <2>3 DEF CallTyped, Loaded, Drive!DriverOps
  <2>6. FleetTyped'
    BY <1>6, <1>9, <2>3, <2>5, TypedMoves
  <2>7. Knows(w, d)'
    BY <1>6, <1>7, <1>11, <2>3, <2>4 DEF Knows, Loaded
  <2>8. IsOnline(d)' => call.op = "online"
    BY <1>6, <1>7, <1>11, <2>3 DEF IsOnline
  <2>9. ASSUME d \notin driversOverlapped', IsOnline(d)'
        PROVE  drivers'[d].vehicle # None /\ suspensions'[d] = 0
    BY <1>1, <1>6, <1>7, <1>10, <2>1, <2>3, <2>8, <2>9 DEF Knows
  <2>10. d \notin driversOverlapped' =>
           \A a \in assignments' : a[1] = d => drivers'[d].vehicle = a[2]
    BY <1>10
  <2>11. call # Drive!Idle
    BY <2>3 DEF Drive!Call, Drive!Idle
  <2>12. QED
    BY <1>8, <2>3, <2>6, <2>7, <2>8, <2>9, <2>10, <2>11, DriverMoves
<1>12. CASE driverCalls[w].op \in {"approve", "reject", "lift"}
  <2>1. Drive!Leave(w)
    BY <1>2, <1>12
  <2>2. Moves(w, d, Drive!Idle)
    BY <1>1, <1>3, <2>1, IdleMoves
  <2>3. FleetTyped'
    BY <1>6, <1>9, <2>2, TypedMoves
  <2>4. ASSUME d \notin driversOverlapped', IsOnline(d)'
        PROVE  /\ drivers'[d].vehicle # None /\ suspensions'[d] = 0
               /\ d \notin driversCut' => d \in online'
    <3>1. DriverSound(d) /\ driverCalls[w].entity = drivers[d]
      BY <1>10, <2>4
    <3>2. IsOnline(d)
      <4>1. drivers[d] # Drive!NoDriver
        BY <1>1, <1>3, <1>5, AtWork DEF CallTyped
      <4>2. QED
        BY <1>6, <1>7, <1>12, <2>4, <3>1, <4>1 DEF IsOnline
    <3>3. ASSUME NEW o \in Workers, On(o, d), driverCalls[o].op = "online"
          PROVE  FALSE
      BY <1>1, <1>3, <1>12, <3>1, <3>3 DEF DriverSound, On
    <3>4. QED
      BY <1>1, <1>6, <1>7, <3>1, <3>2, <3>3 DEF DriverSound
  <2>5. QED
    BY <1>8, <1>10, <2>2, <2>3, <2>4, DriverMoves
<1>13. QED
  BY <1>5, <1>11, <1>12

LEMMA PublishStep ==
  ASSUME FleetInv, NEW w \in Workers, Drive!PublishStatus(w)
  PROVE  FleetInv'
<1>1. /\ driverCalls[w] # Drive!Idle /\ Drive!Leave(w)
      /\ driverCalls[w].op \in {"online", "offline"} /\ driverCalls[w].step = "publish"
      /\ UNCHANGED <<drivers, assignments, suspensions, driversOverlapped, driversCut>>
  BY DEF Drive!PublishStatus, Drive!At
<1>2. PICK d \in Drivers : d = driverCalls[w].driver
  BY <1>1, AtWork
<1>3. online' = IF driverCalls[w].op = "online" THEN online \cup {d} ELSE online \ {d}
  BY <1>2 DEF Drive!PublishStatus
<1>4. Moves(w, d, Drive!Idle)
  BY <1>1, <1>2, IdleMoves
<1>5. drivers \in [Drivers -> Drive!Driver \cup {Drive!NoDriver}] /\ suspensions \in [Drivers -> Nat]
  BY DEF FleetInv, FleetTyped
<1>6. FleetTyped'
  BY <1>1, <1>4, <1>5, TypedMoves
<1>7. Paired' /\ Elsewhere(d)
  <2>1. Paired'
    BY <1>1, StillPaired
  <2>2. Elsewhere(d)
    BY <1>1, <1>3 DEF Elsewhere
  <2>3. QED
    BY <2>1, <2>2
<1>8. ASSUME d \notin driversOverlapped'
      PROVE  /\ IsOnline(d)' => drivers'[d].vehicle # None /\ suspensions'[d] = 0
             /\ \A a \in assignments' : a[1] = d => drivers'[d].vehicle = a[2]
             /\ IsOnline(d)' => d \in online'
  <2>1. DriverSound(d) /\ Knows(w, d)
    BY <1>1, <1>2, <1>8, AtWork
  <2>2. IsOnline(d)' <=> IsOnline(d)
    BY <1>1 DEF IsOnline, Drive!NoDriver
  <2>3. IsOnline(d) => driverCalls[w].op = "online"
    BY <1>1, <2>1 DEF Knows, IsOnline
  <2>4. QED
    BY <1>1, <1>3, <2>1, <2>2, <2>3 DEF DriverSound
<1>9. QED
  BY <1>4, <1>6, <1>7, <1>8, DriverMoves

\* An assignVehicle() goes on, having closed what it closes of the driver.
Assigning(w, d, call, step, closing) ==
  /\ driverCalls[w] # Drive!Idle /\ driverCalls[w].op = "assign" /\ d = driverCalls[w].driver
  /\ driverCalls[w].step \in {"save", "closing"} /\ step \in {"closing", "commit"}
  /\ call = [driverCalls[w] EXCEPT !.step = step, !.closing = closing]
  /\ driverCalls' = [driverCalls EXCEPT ![w] = call]
  /\ closing \in SUBSET (Drivers \X Vehicles)
  /\ d \notin driversOverlapped => \A a \in assignments : a[1] = d => a \in closing
  /\ UNCHANGED <<drivers, assignments, suspensions, online, driversOverlapped, driversCut>>

LEMMA AssigningStep ==
  ASSUME FleetInv, NEW w \in Workers, NEW d \in Drivers, NEW call, NEW step, NEW closing,
         Assigning(w, d, call, step, closing)
  PROVE  FleetInv'
<1>1. /\ driverCalls[w] # Drive!Idle /\ driverCalls[w].op = "assign" /\ d = driverCalls[w].driver
      /\ driverCalls[w].step \in {"save", "closing"} /\ step \in {"closing", "commit"}
      /\ call = [driverCalls[w] EXCEPT !.step = step, !.closing = closing]
      /\ driverCalls' = [driverCalls EXCEPT ![w] = call]
      /\ closing \in SUBSET (Drivers \X Vehicles)
      /\ d \notin driversOverlapped => \A a \in assignments : a[1] = d => a \in closing
      /\ UNCHANGED <<drivers, assignments, suspensions, online, driversOverlapped, driversCut>>
  BY DEF Assigning
<1>2. CallTyped(driverCalls[w]) /\ driverCalls[w] \in Drive!Call
  BY <1>1, AtWork
<1>3. /\ call \in Drive!Call /\ call.driver = d /\ call.op = "assign" /\ call.step = step
      /\ call.vehicle = driverCalls[w].vehicle /\ call.entity = driverCalls[w].entity
      /\ call.closing = closing
  BY <1>1, <1>2 DEF Drive!Call
<1>4. Moves(w, d, call)
  BY <1>1, <1>3, GoingMoves
<1>5. driverCalls'[w] = call
  BY <1>1 DEF FleetInv, FleetTyped
<1>6. CallTyped(call)'
  BY <1>1, <1>2, <1>3 DEF CallTyped, Loaded
<1>7. d \notin driversOverlapped' => Knows(w, d)'
  <2>1. d \notin driversOverlapped => Knows(w, d)
    BY <1>1, AtWork
  <2>2. QED
    BY <1>1, <1>3, <1>5, <2>1 DEF Knows, Loaded
<1>8. QED
  BY <1>1, <1>3, <1>4, <1>6, <1>7, LookingOn

\* assignVehicle() notes the driver's open assignments, then the vehicle's.
LEMMA CloseOfDriverStep ==
  ASSUME FleetInv, NEW w \in Workers, Drive!CloseOfDriver(w)
  PROVE  FleetInv'
<1>1. /\ driverCalls[w] # Drive!Idle /\ driverCalls[w].op = "assign"
      /\ driverCalls[w].step = "save"
      /\ UNCHANGED <<drivers, assignments, suspensions, online, driversOverlapped, driversCut>>
  BY DEF Drive!CloseOfDriver, Drive!At
<1>2. PICK d \in Drivers : d = driverCalls[w].driver
  BY <1>1, AtWork
<1>3. PICK closing : closing = {a \in assignments : a[1] = d}
  OBVIOUS
<1>4. PICK call : call = [driverCalls[w] EXCEPT !.step = "closing", !.closing = closing]
  OBVIOUS
<1>5. driverCalls' = [driverCalls EXCEPT ![w] = call]
  BY <1>2, <1>3, <1>4 DEF Drive!CloseOfDriver
<1>6. closing \in SUBSET (Drivers \X Vehicles)
  BY <1>3 DEF FleetInv, Paired
<1>7. Assigning(w, d, call, "closing", closing)
  BY <1>1, <1>2, <1>3, <1>4, <1>5, <1>6 DEF Assigning
<1>8. QED
  BY <1>7, AssigningStep

LEMMA CloseOfVehicleStep ==
  ASSUME FleetInv, NEW w \in Workers, Drive!CloseOfVehicle(w)
  PROVE  FleetInv'
<1>1. /\ driverCalls[w] # Drive!Idle /\ driverCalls[w].op = "assign"
      /\ driverCalls[w].step = "closing"
      /\ UNCHANGED <<drivers, assignments, suspensions, online, driversOverlapped, driversCut>>
  BY DEF Drive!CloseOfVehicle, Drive!At
<1>2. PICK d \in Drivers : d = driverCalls[w].driver
  BY <1>1, AtWork
<1>3. PICK v : v = driverCalls[w].vehicle
  OBVIOUS
<1>4. PICK closing : closing = driverCalls[w].closing \cup {a \in assignments : a[2] = v}
  OBVIOUS
<1>5. PICK call : call = [driverCalls[w] EXCEPT !.step = "commit", !.closing = closing]
  OBVIOUS
<1>6. driverCalls' = [driverCalls EXCEPT ![w] = call]
  BY <1>3, <1>4, <1>5 DEF Drive!CloseOfVehicle
<1>7. closing \in SUBSET (Drivers \X Vehicles)
  <2>1. driverCalls[w].closing \in SUBSET (Drivers \X Vehicles)
    BY <1>1, AtWork DEF Drive!Call
  <2>2. QED
    BY <1>4, <2>1 DEF FleetInv, Paired
<1>8. d \notin driversOverlapped => \A a \in assignments : a[1] = d => a \in closing
  <2>1. d \notin driversOverlapped => Knows(w, d)
    BY <1>1, <1>2, AtWork
  <2>2. QED
    BY <1>1, <1>4, <2>1 DEF Knows
<1>9. Assigning(w, d, call, "commit", closing)
  BY <1>1, <1>2, <1>5, <1>6, <1>7, <1>8 DEF Assigning
<1>10. QED
  BY <1>9, AssigningStep

LEMMA AssignStep ==
  ASSUME FleetInv, NEW w \in Workers, Drive!AssignVehicle(w)
  PROVE  FleetInv'
<1>1. /\ driverCalls[w] # Drive!Idle /\ Drive!Leave(w) /\ Drive!Save(w)
      /\ driverCalls[w].op = "assign" /\ driverCalls[w].step = "commit"
      /\ UNCHANGED <<suspensions, online, driversOverlapped, driversCut>>
  BY DEF Drive!AssignVehicle, Drive!At
<1>2. PICK d \in Drivers : d = driverCalls[w].driver
  BY <1>1, AtWork
<1>3. PICK saved : saved = Drive!Changed(driverCalls[w])
  OBVIOUS
<1>4. Loaded(driverCalls[w])
  BY <1>1 DEF Loaded
<1>5. PICK v \in Vehicles : v = driverCalls[w].vehicle
  BY <1>1, AtWork DEF CallTyped
<1>6. assignments' = (assignments \ driverCalls[w].closing) \cup {<<d, v>>}
  BY <1>2, <1>5 DEF Drive!AssignVehicle
<1>7. /\ drivers' \in [Drivers -> Drive!Driver \cup {Drive!NoDriver}]
      /\ drivers'[d] = saved /\ saved # Drive!NoDriver
      /\ \A e \in Drivers \ {d} : drivers'[e] = drivers[e]
      /\ \A e \in Drivers : drivers[e] # Drive!NoDriver => drivers'[e] # Drive!NoDriver
  BY <1>1, <1>2, <1>3, <1>4, Saved
<1>8. saved.vehicle = v /\ saved.online = driverCalls[w].entity.online
  BY <1>1, <1>3, <1>4, <1>5, SavedFields
<1>9. v # None
  BY <1>5
<1>10. Moves(w, d, Drive!Idle)
  BY <1>1, <1>2, IdleMoves
<1>11. suspensions' \in [Drivers -> Nat]
  BY <1>1 DEF FleetInv, FleetTyped
<1>12. FleetTyped'
  BY <1>7, <1>10, <1>11, TypedMoves
<1>13. \A a \in assignments' :
         (a \in assignments /\ a \notin driverCalls[w].closing) \/ a = <<d, v>>
  BY <1>6
<1>14. <<d, v>> \in Drivers \X Vehicles /\ <<d, v>>[1] = d /\ <<d, v>>[2] = v
  OBVIOUS
<1>15. Paired'
  <2>1. assignments' \subseteq Drivers \X Vehicles
    BY <1>6, <1>14 DEF FleetInv, Paired
  <2>2. \A a \in assignments' : drivers'[a[1]] # Drive!NoDriver
    <3>1. \A a \in assignments : a[1] \in Drivers /\ drivers[a[1]] # Drive!NoDriver
      BY DEF FleetInv, Paired
    <3>2. QED
      BY <1>7, <1>13, <1>14, <3>1
  <2>3. QED
    BY <2>1, <2>2 DEF Paired, Drive!NoDriver
<1>16. Elsewhere(d)
  BY <1>1, <1>7, <1>13, <1>14 DEF Elsewhere
<1>17. d \notin driversOverlapped' => \A a \in assignments' : a[1] = d => drivers'[d].vehicle = a[2]
  <2>1. d \notin driversOverlapped => Knows(w, d)
    BY <1>1, <1>2, AtWork
  <2>2. d \notin driversOverlapped =>
          \A a \in assignments : a[1] = d => a \in driverCalls[w].closing
    BY <1>1, <2>1 DEF Knows
  <2>3. QED
    BY <1>1, <1>7, <1>8, <1>13, <1>14, <2>2
<1>18. ASSUME d \notin driversOverlapped', IsOnline(d)'
       PROVE  /\ drivers'[d].vehicle # None /\ suspensions'[d] = 0
              /\ d \notin driversCut' => d \in online'
  <2>1. DriverSound(d) /\ Knows(w, d)
    BY <1>1, <1>2, <1>18, AtWork
  <2>2. driverCalls[w].entity = drivers[d] /\ drivers[d] # Drive!NoDriver
    BY <1>1, <1>2, <1>4, <2>1, AtWork DEF Knows, CallTyped
  <2>3. IsOnline(d)
    BY <1>7, <1>8, <1>18, <2>2 DEF IsOnline
  <2>4. ASSUME NEW o \in Workers, On(o, d), driverCalls[o].op = "online"
        PROVE  FALSE
    BY <1>1, <1>2, <2>1, <2>4 DEF DriverSound, On
  <2>5. QED
    BY <1>1, <1>7, <1>8, <1>9, <2>1, <2>3, <2>4 DEF DriverSound
<1>19. QED
  BY <1>10, <1>12, <1>15, <1>16, <1>17, <1>18, DriverMoves

LEMMA FleetStill ==
  ASSUME FleetInv,
         UNCHANGED <<drivers, assignments, suspensions, online, driverCalls,
                     driversOverlapped, driversCut>>
  PROVE  FleetInv'
<1>1. FleetTyped' /\ Paired'
  BY DEF FleetInv, FleetTyped, CallTyped, Loaded, Paired, Drive!Idle, Drive!NoDriver
<1>2. \A d \in Drivers \ driversOverlapped : DriverSound(d)'
  BY DEF FleetInv, DriverSound, On, Knows, Loaded, IsOnline, Drive!Idle, Drive!NoDriver
<1>3. QED
  BY <1>1, <1>2 DEF FleetInv

-----------------------------------------------------------------------------
(***************************************************************************)
(* The theorems                                                            *)
(***************************************************************************)
LEMMA FleetInvInit ==
  ASSUME Drive!Init
  PROVE  FleetInv
<1>1. FleetTyped
  <2>1. Drive!NewDriver \in Drive!Driver
    BY DEF Drive!NewDriver, Drive!Driver
  <2>2. QED
    BY <2>1 DEF Drive!Init, FleetTyped
<1>2. Paired
  BY DEF Drive!Init, Paired
<1>3. ASSUME NEW d \in Drivers
      PROVE  DriverSound(d)
  <2>1. \A w \in Workers : ~On(w, d)
    BY DEF Drive!Init, On
  <2>2. ~IsOnline(d)
    BY DEF Drive!Init, IsOnline, Drive!NewDriver
  <2>3. QED
    BY <2>1, <2>2 DEF DriverSound, Drive!Init
<1>4. QED
  BY <1>1, <1>2, <1>3 DEF FleetInv

LEMMA FleetInvNext ==
  ASSUME FleetInv, Drive!Next
  PROVE  FleetInv'
<1>1. ASSUME NEW w \in Workers, Drive!Handler(w)
      PROVE  FleetInv'
  <2>1. ASSUME NEW d \in Drivers, NEW op \in Drive!DriverOps \ {"onboard", "assign"},
               Drive!Load(w, op, d, None)
        PROVE  FleetInv'
    BY <2>1, LoadStep
  <2>2. ASSUME NEW d \in Drivers, NEW v \in Vehicles, Drive!Load(w, "assign", d, v)
        PROVE  FleetInv'
    BY <2>2, LoadStep DEF Drive!DriverOps
  <2>3. QED
    BY <1>1, <2>1, <2>2, OnboardStep, FindAssignedStep, ProvisionStep, InsertStep, CheckStep,
       SaveStep, PublishStep, CloseOfDriverStep, CloseOfVehicleStep, AssignStep, SuspendStep, CloseStep, LoadAssignedStep, StopStep
       DEF Drive!Handler
<1>2. ASSUME NEW d \in Drivers, Drive!ExpireLicence(d)
      PROVE  FleetInv'
  BY <1>2, FleetStill DEF Drive!ExpireLicence
<1>3. QED
  BY <1>1, <1>2 DEF Drive!Next

-----------------------------------------------------------------------------
(***************************************************************************)
(* The vehicle's side: a call that commits an assignment knows the open one*)
(* of its vehicle, if no other call is about the vehicle.                  *)
(***************************************************************************)
OnVehicle(w, v) == driverCalls[w] # Drive!Idle /\ driverCalls[w].vehicle = v

\* A vehicle no two calls have overlapped on.
VehicleSound(v) ==
  /\ \A w, o \in Workers : OnVehicle(w, v) /\ OnVehicle(o, v) => w = o
  /\ \A a, b \in assignments : a[2] = v /\ b[2] = v => a = b
  /\ \A w \in Workers :
       OnVehicle(w, v) /\ driverCalls[w].step = "commit" =>
         \A a \in assignments : a[2] = v => a \in driverCalls[w].closing

VehicleInv == \A v \in Vehicles \ driversOverlapped : VehicleSound(v)

\* The call of worker w begins, goes on or ends: what becomes of the assignments of
\* a vehicle, and what it knows of them when it is about to commit.
LEMMA VehicleMoves ==
  ASSUME FleetInv, VehicleInv, NEW w \in Workers, NEW call,
         driverCalls' = [driverCalls EXCEPT ![w] = call],
         driversOverlapped \subseteq driversOverlapped',
         call # Drive!Idle =>
           \/ driverCalls[w] # Drive!Idle /\ driverCalls[w].vehicle = call.vehicle
           \/ \A v \in Vehicles, o \in Workers :
                call.vehicle = v /\ OnVehicle(o, v) => v \in driversOverlapped',
         \A a \in assignments' : a \in assignments \/ OnVehicle(w, a[2]),
         \A v \in Vehicles \ driversOverlapped' :
           /\ \A a, b \in assignments' : a[2] = v /\ b[2] = v => a = b
           /\ call # Drive!Idle /\ call.vehicle = v /\ call.step = "commit" =>
                \A a \in assignments' : a[2] = v => a \in call.closing
  PROVE  VehicleInv'
<1>1. driverCalls'[w] = call /\ \A o \in Workers \ {w} : driverCalls'[o] = driverCalls[o]
  BY DEF FleetInv, FleetTyped
<1>2. ASSUME NEW v \in Vehicles \ driversOverlapped'
      PROVE  VehicleSound(v)'
  <2>1. VehicleSound(v) /\ v \notin driversOverlapped'
    BY <1>2 DEF VehicleInv
  <2>2. \A o \in Workers \ {w} : OnVehicle(o, v)' <=> OnVehicle(o, v)
    BY <1>1 DEF OnVehicle, Drive!Idle
  <2>3. OnVehicle(w, v)' => \A o \in Workers \ {w} : ~OnVehicle(o, v)
    <3>1. OnVehicle(w, v)' => call # Drive!Idle /\ call.vehicle = v
      BY <1>1 DEF OnVehicle, Drive!Idle
    <3>2. QED
      BY <2>1, <3>1 DEF VehicleSound, OnVehicle
  <2>4. \A x, o \in Workers : OnVehicle(x, v)' /\ OnVehicle(o, v)' => x = o
    BY <2>1, <2>2, <2>3 DEF VehicleSound
  <2>5. ASSUME NEW x \in Workers, OnVehicle(x, v)', driverCalls'[x].step = "commit",
               NEW a \in assignments', a[2] = v
        PROVE  a \in driverCalls'[x].closing
    <3>1. CASE x = w
      BY <1>1, <1>2, <2>5, <3>1 DEF OnVehicle, Drive!Idle
    <3>2. CASE x # w
      <4>1. OnVehicle(x, v) /\ driverCalls'[x] = driverCalls[x]
        BY <1>1, <2>2, <2>5, <3>2
      <4>2. ~OnVehicle(w, v)
        BY <2>1, <3>2, <4>1 DEF VehicleSound
      <4>3. a \in assignments
        BY <2>5, <4>2
      <4>4. QED
        BY <2>1, <2>5, <4>1, <4>3 DEF VehicleSound
    <3>3. QED
      BY <3>1, <3>2
  <2>6. QED
    BY <1>2, <2>4, <2>5 DEF VehicleSound
<1>3. QED
  BY <1>2 DEF VehicleInv

\* A call that begins on vehicle v, or on none.
LEMMA VehicleBegins ==
  ASSUME FleetInv, VehicleInv, NEW w \in Workers, NEW op, NEW d,
         NEW v \in Vehicles \cup {None}, NEW step, step # "commit", NEW entity,
         Drive!Begin(w, op, d, v, step, entity), UNCHANGED assignments
  PROVE  VehicleInv'
<1>1. PICK call : call = [op |-> op, driver |-> d, vehicle |-> v, step |-> step,
                          entity |-> entity, closing |-> {}]
  OBVIOUS
<1>2. /\ driverCalls' = [driverCalls EXCEPT ![w] = call]
      /\ driversOverlapped' = driversOverlapped \cup (({d, v} \ {None}) \cap Drive!Subjects)
  BY <1>1 DEF Drive!Begin
<1>3. ASSUME NEW u \in Vehicles, NEW o \in Workers, call.vehicle = u, OnVehicle(o, u)
      PROVE  u \in driversOverlapped'
  <2>1. u \in Drive!Subjects
    BY <1>3 DEF OnVehicle, Drive!Subjects
  <2>2. u = v /\ u # None
    BY <1>1, <1>3
  <2>3. QED
    BY <1>2, <2>1, <2>2
<1>4. driversOverlapped \subseteq driversOverlapped' /\ call.step # "commit"
  BY <1>1, <1>2
<1>5. \A u \in Vehicles \ driversOverlapped' :
        /\ \A a, b \in assignments' : a[2] = u /\ b[2] = u => a = b
        /\ call # Drive!Idle /\ call.vehicle = u /\ call.step = "commit" =>
             \A a \in assignments' : a[2] = u => a \in call.closing
  BY <1>4 DEF VehicleInv, VehicleSound
<1>6. \A u \in Vehicles, o \in Workers :
        call.vehicle = u /\ OnVehicle(o, u) => u \in driversOverlapped'
  BY <1>3
<1>7. QED
  BY <1>2, <1>4, <1>5, <1>6, VehicleMoves

\* A call that goes on about the same vehicle, or ends, and commits no assignment.
LEMMA VehicleGoesOn ==
  ASSUME FleetInv, VehicleInv, NEW w \in Workers, driverCalls[w] # Drive!Idle,
         UNCHANGED <<assignments, driversOverlapped>>,
         \/ Drive!Leave(w)
         \/ \E step \in {"save", "publish"} : Drive!Goto(w, step)
         \/ \E step \in {"save", "closing"} : \E x, y :
              driverCalls' = [driverCalls EXCEPT ![w] =
                [driverCalls[w] EXCEPT !.step = step, !.entity = x, !.closing = y]]
  PROVE  VehicleInv'
<1>1. driverCalls[w] \in Drive!Call
  BY AtWork
<1>2. PICK call :
        /\ driverCalls' = [driverCalls EXCEPT ![w] = call]
        /\ call # Drive!Idle => call.vehicle = driverCalls[w].vehicle /\ call.step # "commit"
  <2>1. CASE Drive!Leave(w)
    BY <2>1 DEF Drive!Leave
  <2>2. ASSUME NEW step \in {"save", "publish"}, Drive!Goto(w, step)
        PROVE  \E call :
                 /\ driverCalls' = [driverCalls EXCEPT ![w] = call]
                 /\ call # Drive!Idle =>
                      call.vehicle = driverCalls[w].vehicle /\ call.step # "commit"
    <3>1. PICK call : call = [driverCalls[w] EXCEPT !.step = step]
      OBVIOUS
    <3>2. call.vehicle = driverCalls[w].vehicle /\ call.step # "commit"
      BY <1>1, <3>1 DEF Drive!Call
    <3>3. QED
      BY <2>2, <3>1, <3>2 DEF Drive!Goto
  <2>3. ASSUME NEW step \in {"save", "closing"}, NEW x, NEW y,
               driverCalls' = [driverCalls EXCEPT ![w] =
                 [driverCalls[w] EXCEPT !.step = step, !.entity = x, !.closing = y]]
        PROVE  \E call :
                 /\ driverCalls' = [driverCalls EXCEPT ![w] = call]
                 /\ call # Drive!Idle =>
                      call.vehicle = driverCalls[w].vehicle /\ call.step # "commit"
    <3>1. PICK call : call = [driverCalls[w] EXCEPT !.step = step, !.entity = x, !.closing = y]
      OBVIOUS
    <3>2. call.vehicle = driverCalls[w].vehicle /\ call.step # "commit"
      BY <1>1, <3>1 DEF Drive!Call
    <3>3. QED
      BY <2>3, <3>1, <3>2
  <2>4. QED
    BY <2>1, <2>2, <2>3
<1>3. \A u \in Vehicles \ driversOverlapped' :
        \A a, b \in assignments' : a[2] = u /\ b[2] = u => a = b
  BY DEF VehicleInv, VehicleSound
<1>4. QED
  BY <1>2, <1>3, VehicleMoves

LEMMA VehicleLooked ==
  ASSUME FleetInv, VehicleInv, NEW w \in Workers, Drive!CloseOfVehicle(w)
  PROVE  VehicleInv'
<1>1. /\ driverCalls[w] # Drive!Idle
      /\ UNCHANGED <<assignments, driversOverlapped>>
  BY DEF Drive!CloseOfVehicle, Drive!At
<1>2. PICK v : v = driverCalls[w].vehicle
  OBVIOUS
<1>3. PICK closing : closing = driverCalls[w].closing \cup {a \in assignments : a[2] = v}
  OBVIOUS
<1>4. PICK call : call = [driverCalls[w] EXCEPT !.step = "commit", !.closing = closing]
  OBVIOUS
<1>5. call.vehicle = v /\ call.closing = closing
  BY <1>1, <1>2, <1>4, AtWork DEF Drive!Call
<1>6. driverCalls' = [driverCalls EXCEPT ![w] = call]
  BY <1>2, <1>3, <1>4 DEF Drive!CloseOfVehicle
<1>7. \A u \in Vehicles \ driversOverlapped' :
        /\ \A a, b \in assignments' : a[2] = u /\ b[2] = u => a = b
        /\ call # Drive!Idle /\ call.vehicle = u /\ call.step = "commit" =>
             \A a \in assignments' : a[2] = u => a \in call.closing
  BY <1>1, <1>3, <1>5 DEF VehicleInv, VehicleSound
<1>8. QED
  BY <1>1, <1>2, <1>5, <1>6, <1>7, VehicleMoves

LEMMA VehicleAssigned ==
  ASSUME FleetInv, VehicleInv, NEW w \in Workers, Drive!AssignVehicle(w)
  PROVE  VehicleInv'
<1>1. /\ driverCalls[w] # Drive!Idle /\ driverCalls[w].step = "commit" /\ Drive!Leave(w)
      /\ UNCHANGED driversOverlapped
  BY DEF Drive!AssignVehicle, Drive!At
<1>2. PICK d, v : d = driverCalls[w].driver /\ v = driverCalls[w].vehicle
  OBVIOUS
<1>3. \A a \in assignments' :
        (a \in assignments /\ a \notin driverCalls[w].closing) \/ a = <<d, v>>
  BY <1>2 DEF Drive!AssignVehicle
<1>4. <<d, v>>[2] = v /\ OnVehicle(w, v)
  BY <1>1, <1>2 DEF OnVehicle
<1>5. \A a \in assignments' : a \in assignments \/ OnVehicle(w, a[2])
  BY <1>3, <1>4
<1>6. ASSUME NEW u \in Vehicles \ driversOverlapped',
             NEW a \in assignments', NEW b \in assignments', a[2] = u, b[2] = u
      PROVE  a = b
  <2>1. VehicleSound(u)
    BY <1>1, <1>6 DEF VehicleInv
  <2>2. CASE u = v
    <3>1. \A c \in assignments : c[2] = v => c \in driverCalls[w].closing
      BY <1>1, <1>4, <2>1, <2>2 DEF VehicleSound
    <3>2. QED
      BY <1>3, <1>6, <2>2, <3>1
  <2>3. CASE u # v
    <3>1. a \in assignments /\ b \in assignments
      BY <1>3, <1>4, <1>6, <2>3
    <3>2. QED
      BY <1>6, <2>1, <3>1 DEF VehicleSound
  <2>4. QED
    BY <2>2, <2>3
<1>7. driverCalls' = [driverCalls EXCEPT ![w] = Drive!Idle]
  BY <1>1 DEF Drive!Leave
<1>8. \A u \in Vehicles \ driversOverlapped' :
        \A a, b \in assignments' : a[2] = u /\ b[2] = u => a = b
  BY <1>6
<1>9. QED
  BY <1>1, <1>5, <1>7, <1>8, VehicleMoves

LEMMA VehicleStill ==
  ASSUME VehicleInv, UNCHANGED <<assignments, driverCalls, driversOverlapped>>
  PROVE  VehicleInv'
BY DEF VehicleInv, VehicleSound, OnVehicle, Drive!Idle

LEMMA VehicleInvNext ==
  ASSUME FleetInv, VehicleInv, Drive!Next
  PROVE  VehicleInv'
<1>1. ASSUME NEW w \in Workers, Drive!Handler(w)
      PROVE  VehicleInv'
  <2>1. ASSUME NEW d \in Drivers, Drive!Onboard(w, d)
        PROVE  VehicleInv'
    BY <2>1, VehicleBegins DEF Drive!Onboard
  <2>2. ASSUME NEW d \in Drivers, NEW v \in Vehicles \cup {None}, NEW op, Drive!Load(w, op, d, v)
        PROVE  VehicleInv'
    <3>1. PICK step : step = IF op = "online" THEN "check" ELSE "save"
      OBVIOUS
    <3>2. /\ step # "commit" /\ UNCHANGED assignments
          /\ Drive!Begin(w, op, d, v, step, drivers[d])
      BY <2>2, <3>1 DEF Drive!Load
    <3>3. QED
      BY <3>2, VehicleBegins
  <2>3. ASSUME NEW d \in Drivers, NEW v \in Vehicles, Drive!FindAssigned(w, d, v)
        PROVE  VehicleInv'
    BY <2>3, VehicleBegins DEF Drive!FindAssigned
  <2>4. CASE \/ Drive!ProvisionDriver(w) \/ Drive!InsertDriver(w) \/ Drive!CheckEligible(w)
             \/ Drive!SaveDriver(w) \/ Drive!PublishStatus(w) \/ Drive!Suspend(w)
             \/ Drive!CloseSuspensions(w) \/ Drive!Stop(w)
    <3>1. /\ driverCalls[w] # Drive!Idle /\ UNCHANGED <<assignments, driversOverlapped>>
          /\ Drive!Leave(w) \/ Drive!Goto(w, "save") \/ Drive!Goto(w, "publish")
      BY <2>4 DEF Drive!ProvisionDriver, Drive!InsertDriver, Drive!CheckEligible,
         Drive!SaveDriver, Drive!PublishStatus, Drive!Suspend, Drive!CloseSuspensions,
         Drive!Stop, Drive!At
    <3>2. QED
      BY <3>1, VehicleGoesOn
  <2>5. CASE Drive!CloseOfDriver(w)
    <3>1. PICK closing : closing = {a \in assignments : a[1] = driverCalls[w].driver}
      OBVIOUS
    <3>2. driverCalls[w] # Drive!Idle /\ UNCHANGED <<assignments, driversOverlapped>>
      BY <2>5 DEF Drive!CloseOfDriver, Drive!At
    <3>3. PICK x : x = driverCalls[w].entity
      OBVIOUS
    <3>4. [driverCalls[w] EXCEPT !.step = "closing", !.closing = closing] =
            [driverCalls[w] EXCEPT !.step = "closing", !.entity = x, !.closing = closing]
      BY <3>2, <3>3, AtWork DEF Drive!Call
    <3>5. driverCalls' = [driverCalls EXCEPT ![w] =
            [driverCalls[w] EXCEPT !.step = "closing", !.entity = x, !.closing = closing]]
      BY <2>5, <3>1, <3>4 DEF Drive!CloseOfDriver
    <3>6. QED
      BY <3>2, <3>5, VehicleGoesOn
  <2>6. CASE Drive!LoadAssigned(w)
    <3>1. driverCalls[w] # Drive!Idle /\ UNCHANGED <<assignments, driversOverlapped>>
      BY <2>6 DEF Drive!LoadAssigned, Drive!At
    <3>2. PICK x, y : x = drivers[driverCalls[w].driver] /\ y = driverCalls[w].closing
      OBVIOUS
    <3>3. [driverCalls[w] EXCEPT !.step = "save", !.entity = x] =
            [driverCalls[w] EXCEPT !.step = "save", !.entity = x, !.closing = y]
      BY <3>1, <3>2, AtWork DEF Drive!Call
    <3>4. \/ Drive!Leave(w)
          \/ driverCalls' = [driverCalls EXCEPT ![w] =
               [driverCalls[w] EXCEPT !.step = "save", !.entity = x, !.closing = y]]
      BY <2>6, <3>2, <3>3 DEF Drive!LoadAssigned
    <3>5. QED
      BY <3>1, <3>4, VehicleGoesOn
  <2>7. QED
    BY <1>1, <2>1, <2>2, <2>3, <2>4, <2>5, <2>6, VehicleLooked, VehicleAssigned
       DEF Drive!Handler
<1>2. ASSUME NEW d \in Drivers, Drive!ExpireLicence(d)
      PROVE  VehicleInv'
  BY <1>2, VehicleStill DEF Drive!ExpireLicence
<1>3. QED
  BY <1>1, <1>2 DEF Drive!Next

-----------------------------------------------------------------------------
LEMMA FleetInvSound ==
  ASSUME FleetInv, VehicleInv
  PROVE  Drive!OnlineIsFit /\ Drive!PairingExclusive /\ Drive!OnlineIsAnnounced
<1>1. Drive!OnlineIsFit
  <2>1. SUFFICES ASSUME NEW d \in Drivers \ driversOverlapped,
                        Drive!Exists(d), drivers[d].online = "online"
                 PROVE  drivers[d].vehicle # None /\ ~Drive!Open(d)
    BY DEF Drive!OnlineIsFit
  <2>2. DriverSound(d)
    BY DEF FleetInv
  <2>3. QED
    BY <2>1, <2>2 DEF DriverSound, IsOnline, Drive!Exists, Drive!Open
<1>2. Drive!PairingExclusive
  <2>1. \A a \in assignments : a[1] \in Drivers
    BY DEF FleetInv, Paired
  <2>2. ASSUME NEW a \in assignments, {a[1], a[2]} \cap driversOverlapped = {}
        PROVE  /\ drivers[a[1]].vehicle = a[2]
               /\ \A b \in assignments : a # b => a[1] # b[1] /\ a[2] # b[2]
    <3>1. DriverSound(a[1]) /\ VehicleSound(a[2])
      BY <2>1, <2>2 DEF FleetInv, VehicleInv, Paired
    <3>2. drivers[a[1]].vehicle = a[2]
      BY <3>1 DEF DriverSound
    <3>3. ASSUME NEW b \in assignments, a[1] = b[1] \/ a[2] = b[2]
          PROVE  a = b
      <4>1. a[2] = b[2]
        BY <3>1, <3>3 DEF DriverSound
      <4>2. QED
        BY <3>1, <4>1 DEF VehicleSound
    <3>4. QED
      BY <3>2, <3>3
  <2>3. QED
    BY <2>2 DEF Drive!PairingExclusive
<1>3. Drive!OnlineIsAnnounced
  <2>1. SUFFICES ASSUME NEW d \in Drivers \ (driversOverlapped \cup driversCut \cup Drive!Subjects),
                        Drive!Exists(d), drivers[d].online = "online"
                 PROVE  d \in online
    BY DEF Drive!OnlineIsAnnounced
  <2>2. DriverSound(d)
    BY DEF FleetInv
  <2>3. \A w \in Workers : ~On(w, d)
    BY DEF On, Drive!Subjects
  <2>4. QED
    BY <2>1, <2>2, <2>3 DEF DriverSound, IsOnline, Drive!Exists
<1>4. QED
  BY <1>1, <1>2, <1>3

LEMMA FleetAlways == Spec => [](focus = "fleet" => FleetInv /\ VehicleInv)
<1>1. Init => (focus = "fleet" => FleetInv /\ VehicleInv)
  <2>1. Drive!Init => VehicleInv
    BY DEF Drive!Init, VehicleInv, VehicleSound, OnVehicle
  <2>2. QED
    BY <2>1, FleetInvInit DEF Init
<1>2. (focus = "fleet" => FleetInv /\ VehicleInv) /\ [Next]_vars
        => (focus = "fleet" => FleetInv /\ VehicleInv)'
  <2>1. SUFFICES ASSUME focus = "fleet", FleetInv, VehicleInv, Next \/ UNCHANGED vars
                 PROVE  FleetInv' /\ VehicleInv'
    BY DEF Next, vars
  <2>2. CASE Next
    BY <2>1, <2>2, FleetInvNext, VehicleInvNext DEF Next
  <2>3. CASE UNCHANGED vars
    BY <2>1, <2>3, FleetStill, VehicleStill DEF vars, fleet
  <2>4. QED
    BY <2>1, <2>2, <2>3
<1>3. QED
  BY <1>1, <1>2, PTL DEF Spec

\* While the calls on a driver do not overlap, a driver online has a vehicle and no
\* open suspension, wherever a call on him may stop (drivers.service.ts:
\* setOnline, assignVehicle, suspend).
THEOREM OnlineIsFitAlways == Spec => []OnlineIsFit
<1>1. (focus = "fleet" => FleetInv /\ VehicleInv) => OnlineIsFit
  BY FleetInvSound DEF OnlineIsFit
<1>2. QED
  BY <1>1, FleetAlways, PTL

\* A driver and a vehicle assigned to each other, on neither of which two calls ever
\* overlapped, have no other open assignment, and the vehicle is the driver's current
\* one, whatever overlapping transactions on others commit; nothing in the code keeps
\* calls from overlapping, and then two assignments may be open (drivers.service.ts:
\* assignVehicle).
THEOREM PairingExclusiveAlways == Spec => []PairingExclusive
<1>1. (focus = "fleet" => FleetInv /\ VehicleInv) => PairingExclusive
  BY FleetInvSound DEF PairingExclusive
<1>2. QED
  BY <1>1, FleetAlways, PTL

\* A driver who is online has been announced as such, unless calls on him
\* overlapped, one is at work, or one stopped before it announced him
\* (drivers.service.ts: publishStatus).
THEOREM OnlineIsAnnouncedAlways == Spec => []OnlineIsAnnounced
<1>1. (focus = "fleet" => FleetInv /\ VehicleInv) => OnlineIsAnnounced
  BY FleetInvSound DEF OnlineIsAnnounced
<1>2. QED
  BY <1>1, FleetAlways, PTL


-----------------------------------------------------------------------------
(***************************************************************************)
(* Passengers: a method that is being added counts as one that is saved.   *)
(***************************************************************************)
Defaults == {m \in methods : m.isDefault}

Adders == {w \in Workers : passengerCalls[w].op = "add"}

DefaultAdders == {w \in Adders : passengerCalls[w].isDefault}

Bounded ==
  /\ IsFiniteSet(methods) /\ IsFiniteSet(Adders)
  /\ Cardinality(methods) + Cardinality(Adders) <= MaxSavedMethods + excess
  /\ Cardinality(Defaults) + Cardinality(DefaultAdders) <= 1 + excess

\* A call that will save the row, with the entity it has changed.
Saves(w) == passengerCalls[w].op \in Profiles!Saving

\* Before there is a row nothing is saved; while no two calls that save overlapped,
\* the one at work has the decided status, unless it is to decide.
StatusKept ==
  /\ passenger = Profiles!NoPassenger =>
       decided = "active" /\ \A w \in Workers : ~Saves(w)
  /\ ~profileOverlapped =>
       /\ passenger # Profiles!NoPassenger => passenger.status = decided
       /\ \A w, o \in Workers : Saves(w) /\ Saves(o) => w = o
       /\ \A w \in Workers :
            passengerCalls[w].op = "update" => passengerCalls[w].entity.status = decided

ProfileInv == Profiles!TypeOK /\ Bounded /\ StatusKept

\* The call of worker w begins, goes on or ends.
ProfileMoves(w, call) ==
  /\ passengerCalls' = [passengerCalls EXCEPT ![w] = call]
  /\ call \in Profiles!Call \cup {Profiles!Idle}

LEMMA ProfileCallsMoved ==
  ASSUME ProfileInv, NEW w \in Workers, NEW call, ProfileMoves(w, call)
  PROVE  /\ passengerCalls' \in [Workers -> Profiles!Call \cup {Profiles!Idle}]
         /\ passengerCalls'[w] = call
         /\ \A o \in Workers \ {w} : passengerCalls'[o] = passengerCalls[o]
BY DEF ProfileInv, Profiles!TypeOK, ProfileMoves

LEMMA ProfileTypes ==
  ASSUME ProfileInv, NEW w \in Workers
  PROVE  /\ passengerCalls[w] # Profiles!Idle => passengerCalls[w] \in Profiles!Call
         /\ passengerCalls[w].op # "idle" => passengerCalls[w] # Profiles!Idle
         /\ passengerCalls[w].op = "add" => passengerCalls[w].isDefault \in BOOLEAN
         /\ passengerCalls[w].op \in {"phone", "insert"} =>
              passengerCalls[w] \in [op : {"phone", "insert"}, name : Names]
         /\ Saves(w) => passengerCalls[w].entity \in Profiles!Passenger
         /\ passengerCalls[w].op = "project" => passengerCalls[w].ride \in PastRides
BY DEF ProfileInv, Profiles!TypeOK, Profiles!Call, Profiles!Idle, Saves, Profiles!Saving

LEMMA NoPassengerOther == Profiles!NoPassenger \notin Profiles!Passenger
BY DEF Profiles!NoPassenger, Profiles!Passenger

\* Methods that go, and calls that add none.
LEMMA BoundedShrinks ==
  ASSUME ProfileInv, methods' \subseteq methods, UNCHANGED excess,
         NEW w \in Workers, NEW call, ProfileMoves(w, call), call.op # "add"
  PROVE  Bounded'
<1>1. Adders' \subseteq Adders /\ DefaultAdders' \subseteq DefaultAdders
  BY ProfileCallsMoved DEF Adders, DefaultAdders
<1>2. Defaults' \subseteq Defaults
  BY DEF Defaults
<1>3. /\ IsFiniteSet(methods) /\ IsFiniteSet(Adders)
      /\ IsFiniteSet(Defaults) /\ IsFiniteSet(DefaultAdders)
  BY FS_Subset DEF ProfileInv, Bounded, Defaults, DefaultAdders
<1>4. /\ IsFiniteSet(methods') /\ IsFiniteSet(Adders')
      /\ IsFiniteSet(Defaults') /\ IsFiniteSet(DefaultAdders')
  BY <1>1, <1>2, <1>3, FS_Subset
<1>5. /\ Cardinality(methods') <= Cardinality(methods)
      /\ Cardinality(Adders') <= Cardinality(Adders)
      /\ Cardinality(Defaults') <= Cardinality(Defaults)
      /\ Cardinality(DefaultAdders') <= Cardinality(DefaultAdders)
  BY <1>1, <1>2, <1>3, FS_Subset
<1>6. /\ Cardinality(methods') \in Nat /\ Cardinality(methods) \in Nat
      /\ Cardinality(Adders') \in Nat /\ Cardinality(Adders) \in Nat
      /\ Cardinality(Defaults') \in Nat /\ Cardinality(Defaults) \in Nat
      /\ Cardinality(DefaultAdders') \in Nat /\ Cardinality(DefaultAdders) \in Nat
  BY <1>3, <1>4, FS_CardinalityType
<1>7. excess \in Nat /\ MaxSavedMethods \in Nat
  BY ProfileAssumption DEF ProfileInv, Profiles!TypeOK
<1>8. QED
  BY <1>4, <1>5, <1>6, <1>7 DEF ProfileInv, Bounded

\* A call that leaves the row and its decision alone.
LEMMA StatusStays ==
  ASSUME ProfileInv, UNCHANGED <<passenger, decided>>,
         NEW w \in Workers, NEW call, ProfileMoves(w, call), call.op \notin Profiles!Saving,
         ~profileOverlapped' => ~profileOverlapped
  PROVE  StatusKept'
<1>1. \A o \in Workers : Saves(o)' => Saves(o) /\ passengerCalls'[o] = passengerCalls[o]
  BY ProfileCallsMoved DEF Saves
<1>2. \A o \in Workers : passengerCalls'[o].op = "update" =>
        passengerCalls[o].op = "update" /\ passengerCalls'[o] = passengerCalls[o]
  BY ProfileCallsMoved DEF Profiles!Saving
<1>3. QED
  BY <1>1, <1>2 DEF ProfileInv, StatusKept, Profiles!NoPassenger

LEMMA ProfileTyped ==
  ASSUME ProfileInv, NEW w \in Workers, NEW call, ProfileMoves(w, call),
         passenger' \in Profiles!Passenger \cup {Profiles!NoPassenger},
         methods' \subseteq [id : MethodIds, isDefault : BOOLEAN],
         \A m, n \in methods' : m.id = n.id => m = n,
         history' \subseteq PastRides,
         decided' \in Profiles!Statuses, profileOverlapped' \in BOOLEAN, excess' \in Nat,
         passengerCount' \in 0..MaxPassengerCalls, passengerFaults' \in 0..MaxFaults
  PROVE  Profiles!TypeOK'
<1>1. passengerCalls' \in [Workers -> Profiles!Call \cup {Profiles!Idle}]
  BY ProfileCallsMoved
<1>2. QED
  BY <1>1 DEF Profiles!TypeOK, Profiles!Passenger, Profiles!NoPassenger, Profiles!Call, Profiles!Idle,
              Profiles!Statuses

LEMMA ProfileBegins ==
  ASSUME ProfileInv, NEW w \in Workers, NEW call \in Profiles!Call, Profiles!Begin(w, call)
  PROVE  /\ ProfileMoves(w, call) /\ passengerCalls[w] = Profiles!Idle
         /\ UNCHANGED <<passenger, methods, history, decided, passengerFaults>>
         /\ passengerCount' \in 0..MaxPassengerCalls
BY ProfileAssumption
   DEF ProfileInv, Profiles!TypeOK, Profiles!Begin, ProfileMoves, Profiles!tables

LEMMA ProfileLeaves ==
  ASSUME ProfileInv, NEW w \in Workers, Profiles!Leave(w)
  PROVE  /\ ProfileMoves(w, Profiles!Idle)
         /\ UNCHANGED <<profileOverlapped, excess, passengerCount, passengerFaults>>
BY DEF Profiles!Leave, ProfileMoves

\* The steps that change neither the row nor the limits: a call moves, and methods
\* and rides of the history may come or go.
LEMMA ProfileGoesOn ==
  ASSUME ProfileInv, NEW w \in Workers, NEW call, ProfileMoves(w, call),
         call.op \notin Profiles!Saving, call.op # "add",
         UNCHANGED <<passenger, decided, profileOverlapped, excess>>,
         methods' \subseteq methods, history' \subseteq PastRides,
         passengerCount' \in 0..MaxPassengerCalls, passengerFaults' \in 0..MaxFaults
  PROVE  ProfileInv'
<1>1. Bounded' /\ StatusKept'
  BY BoundedShrinks, StatusStays
<1>2. /\ methods' \subseteq [id : MethodIds, isDefault : BOOLEAN]
      /\ \A m, n \in methods' : m.id = n.id => m = n
  BY DEF ProfileInv, Profiles!TypeOK
<1>3. Profiles!TypeOK'
  BY <1>2, ProfileTyped DEF ProfileInv, Profiles!TypeOK
<1>4. QED
  BY <1>1, <1>3 DEF ProfileInv

LEMMA CompleteProfileStep ==
  ASSUME ProfileInv, NEW w \in Workers, NEW name \in Names, Profiles!CompleteProfile(w, name)
  PROVE  ProfileInv'
<1>1. PICK call : call = [op |-> "phone", name |-> name]
  OBVIOUS
<1>2. call \in Profiles!Call
  BY <1>1 DEF Profiles!Call
<1>3. Profiles!Begin(w, call) /\ UNCHANGED <<profileOverlapped, excess>>
  BY <1>1 DEF Profiles!CompleteProfile
<1>4. /\ ProfileMoves(w, call)
      /\ UNCHANGED <<passenger, methods, history, decided, passengerFaults>>
      /\ passengerCount' \in 0..MaxPassengerCalls
  BY <1>2, <1>3, ProfileBegins
<1>5. QED
  BY <1>1, <1>3, <1>4, ProfileGoesOn DEF ProfileInv, Profiles!TypeOK, Profiles!Saving

LEMMA FindProfileStep ==
  ASSUME ProfileInv, NEW w \in Workers, Profiles!FindProfile(w)
  PROVE  ProfileInv'
<1>1. PICK call : call = IF Profiles!Registered THEN Profiles!Idle
                         ELSE [passengerCalls[w] EXCEPT !.op = "insert"]
  OBVIOUS
<1>2. passengerCalls[w] \in [op : {"phone", "insert"}, name : Names]
  BY ProfileTypes DEF Profiles!FindProfile
<1>3. call \in Profiles!Call \cup {Profiles!Idle} /\ call.op \in {"insert", "idle"}
  BY <1>1, <1>2 DEF Profiles!Call, Profiles!Idle
<1>4. /\ ProfileMoves(w, call)
      /\ UNCHANGED <<passenger, methods, history, decided, profileOverlapped, excess,
                     passengerCount, passengerFaults>>
  BY <1>1, <1>3 DEF Profiles!FindProfile, ProfileMoves, Profiles!tables
<1>5. QED
  BY <1>3, <1>4, ProfileGoesOn DEF ProfileInv, Profiles!TypeOK, Profiles!Saving

\* A profile that is inserted is active, which is what was decided before.
LEMMA InsertProfileStep ==
  ASSUME ProfileInv, NEW w \in Workers, Profiles!InsertProfile(w)
  PROVE  ProfileInv'
<1>1. /\ ProfileMoves(w, Profiles!Idle)
      /\ UNCHANGED <<profileOverlapped, excess, passengerCount, passengerFaults>>
  BY ProfileLeaves DEF Profiles!InsertProfile
<1>2. UNCHANGED <<methods, history, decided>>
  BY DEF Profiles!InsertProfile
<1>3. CASE Profiles!Registered
  <2>1. UNCHANGED passenger
    BY <1>3 DEF Profiles!InsertProfile
  <2>2. QED
    BY <1>1, <1>2, <2>1, ProfileGoesOn
       DEF ProfileInv, Profiles!TypeOK, Profiles!Saving, Profiles!Idle
<1>4. CASE ~Profiles!Registered
  <2>1. passengerCalls[w].name \in Names
    BY ProfileTypes DEF Profiles!InsertProfile
  <2>2. passenger' = [name |-> passengerCalls[w].name, status |-> "active"]
    BY <1>4 DEF Profiles!InsertProfile
  <2>3. passenger' \in Profiles!Passenger /\ passenger'.status = "active"
    BY <2>1, <2>2 DEF Profiles!Passenger, Profiles!Statuses
  <2>4. passenger = Profiles!NoPassenger
    BY <1>4 DEF Profiles!Registered
  <2>5. \A o \in Workers : ~Saves(o) /\ ~Saves(o)'
    BY <1>1, <2>4, ProfileCallsMoved
       DEF ProfileInv, StatusKept, Saves, Profiles!Idle, Profiles!Saving
  <2>6. StatusKept'
    BY <1>1, <1>2, <2>3, <2>4, <2>5, NoPassengerOther
       DEF ProfileInv, StatusKept, Saves, Profiles!Saving, Profiles!NoPassenger
  <2>7. Bounded'
    BY <1>1, <1>2, BoundedShrinks DEF Profiles!Idle
  <2>8. Profiles!TypeOK'
    BY <1>1, <1>2, <2>3, ProfileTyped DEF ProfileInv, Profiles!TypeOK
  <2>9. QED
    BY <2>6, <2>7, <2>8 DEF ProfileInv
<1>5. QED
  BY <1>3, <1>4

\* A call that will save the row begins, alone or overlapping.
LEMMA BeginSaveStep ==
  ASSUME ProfileInv, NEW w \in Workers, NEW op \in Profiles!Saving,
         NEW entity \in Profiles!Passenger,
         op = "update" => entity.status = passenger.status,
         Profiles!BeginSave(w, op, entity)
  PROVE  ProfileInv'
<1>1. PICK call : call = [op |-> op, entity |-> entity]
  OBVIOUS
<1>2. call \in Profiles!Call
  BY <1>1 DEF Profiles!Call, Profiles!Saving
<1>3. /\ Profiles!Begin(w, call) /\ UNCHANGED excess /\ passenger # Profiles!NoPassenger
      /\ profileOverlapped' = (profileOverlapped \/ \E o \in Workers : Saves(o))
  BY <1>1 DEF Profiles!BeginSave, Profiles!Registered, Profiles!UnderWay, Saves
<1>4. /\ ProfileMoves(w, call)
      /\ UNCHANGED <<passenger, methods, history, decided, passengerFaults>>
      /\ passengerCount' \in 0..MaxPassengerCalls
  BY <1>2, <1>3, ProfileBegins
<1>5. StatusKept'
  <2>1. ASSUME ~profileOverlapped'
        PROVE  /\ passenger.status = decided
               /\ \A o \in Workers \ {w} : ~Saves(o)'
    <3>1. ~profileOverlapped /\ \A o \in Workers : ~Saves(o)
      BY <1>3, <2>1
    <3>2. QED
      BY <1>3, <1>4, <3>1, ProfileCallsMoved DEF Saves, ProfileInv, StatusKept
  <2>2. passengerCalls'[w] = call
    BY <1>4, ProfileCallsMoved
  <2>3. ASSUME ~profileOverlapped', NEW o \in Workers, passengerCalls'[o].op = "update"
        PROVE  passengerCalls'[o].entity.status = decided'
    <3>1. o = w
      BY <2>1, <2>3 DEF Saves, Profiles!Saving
    <3>2. QED
      BY <1>1, <1>4, <2>1, <2>2, <2>3, <3>1
  <2>4. passenger' # Profiles!NoPassenger
    BY <1>3, <1>4
  <2>5. QED
    BY <1>4, <2>1, <2>3, <2>4 DEF StatusKept, Profiles!NoPassenger
<1>6. Bounded'
  BY <1>1, <1>3, <1>4, BoundedShrinks DEF Profiles!Saving
<1>7. profileOverlapped' \in BOOLEAN
  BY <1>3 DEF ProfileInv, Profiles!TypeOK
<1>8. Profiles!TypeOK'
  BY <1>3, <1>4, <1>7, ProfileTyped DEF ProfileInv, Profiles!TypeOK
<1>9. QED
  BY <1>5, <1>6, <1>8 DEF ProfileInv

LEMMA ChangeProfileStep ==
  ASSUME ProfileInv, NEW w \in Workers,
         \/ \E name \in Names : Profiles!UpdateProfile(w, name)
         \/ \E status \in Profiles!Statuses : Profiles!BlockUnblock(w, status)
  PROVE  ProfileInv'
<1>1. passenger \in Profiles!Passenger
  BY DEF ProfileInv, Profiles!TypeOK, Profiles!UpdateProfile, Profiles!BlockUnblock,
         Profiles!BeginSave, Profiles!Registered
<1>2. ASSUME NEW name \in Names, Profiles!UpdateProfile(w, name)
      PROVE  ProfileInv'
  <2>1. PICK entity : entity = [passenger EXCEPT !.name = name]
    OBVIOUS
  <2>2. entity \in Profiles!Passenger /\ entity.status = passenger.status
    BY <1>1, <2>1 DEF Profiles!Passenger
  <2>3. QED
    BY <1>2, <2>1, <2>2, BeginSaveStep DEF Profiles!UpdateProfile, Profiles!Saving
<1>3. ASSUME NEW status \in Profiles!Statuses, Profiles!BlockUnblock(w, status)
      PROVE  ProfileInv'
  <2>1. PICK entity : entity = [passenger EXCEPT !.status = status]
    OBVIOUS
  <2>2. entity \in Profiles!Passenger
    BY <1>1, <2>1 DEF Profiles!Passenger
  <2>3. QED
    BY <1>3, <2>1, <2>2, BeginSaveStep DEF Profiles!BlockUnblock, Profiles!Saving
<1>4. QED
  BY <1>2, <1>3

LEMMA SavePassengerStep ==
  ASSUME ProfileInv, NEW w \in Workers, Profiles!SavePassenger(w)
  PROVE  ProfileInv'
<1>1. PICK entity : entity = passengerCalls[w].entity
  OBVIOUS
<1>2. /\ Saves(w) /\ passenger' = entity /\ UNCHANGED <<methods, history>>
      /\ decided' = IF passengerCalls[w].op = "block" THEN entity.status ELSE decided
  BY <1>1 DEF Profiles!SavePassenger, Saves
<1>3. /\ ProfileMoves(w, Profiles!Idle)
      /\ UNCHANGED <<profileOverlapped, excess, passengerCount, passengerFaults>>
  BY ProfileLeaves DEF Profiles!SavePassenger
<1>4. entity \in Profiles!Passenger /\ entity.status \in Profiles!Statuses
  BY <1>1, <1>2, ProfileTypes DEF Profiles!Passenger
<1>5. passenger' # Profiles!NoPassenger
  BY <1>2, <1>4, NoPassengerOther
<1>6. StatusKept'
  <2>1. passenger' # Profiles!NoPassenger'
    BY <1>5 DEF Profiles!NoPassenger
  <2>2. ASSUME ~profileOverlapped'
        PROVE  /\ entity.status = decided'
               /\ \A o \in Workers : ~Saves(o)'
    <3>1. ~profileOverlapped
      BY <1>3, <2>2
    <3>2. \A o \in Workers \ {w} : ~Saves(o)
      BY <1>2, <3>1 DEF ProfileInv, StatusKept
    <3>3. \A o \in Workers : ~Saves(o)'
      BY <1>3, <3>2, ProfileCallsMoved DEF Saves, Profiles!Idle, Profiles!Saving
    <3>4. passengerCalls[w].op = "block" \/ passengerCalls[w].op = "update"
      BY <1>2 DEF Saves, Profiles!Saving
    <3>5. QED
      BY <1>1, <1>2, <3>1, <3>3, <3>4 DEF ProfileInv, StatusKept
  <2>3. QED
    BY <1>2, <2>1, <2>2 DEF StatusKept, Saves, Profiles!Saving
<1>7. Bounded'
  BY <1>2, <1>3, BoundedShrinks DEF Profiles!Idle
<1>8. decided' \in Profiles!Statuses
  BY <1>2, <1>4 DEF ProfileInv, Profiles!TypeOK
<1>9. Profiles!TypeOK'
  BY <1>2, <1>3, <1>4, <1>8, ProfileTyped DEF ProfileInv, Profiles!TypeOK
<1>10. QED
  BY <1>6, <1>7, <1>9 DEF ProfileInv

\* The methods and those being added, counted together, are below the limit, or
\* another call is adding and the excess grows.
LEMMA AddSavedMethodStep ==
  ASSUME ProfileInv, NEW w \in Workers, Profiles!AddSavedMethod(w)
  PROVE  ProfileInv'
<1>1. PICK call : call = [op |-> "add", isDefault |-> methods = {}]
  OBVIOUS
<1>2. call \in Profiles!Call
  <2>1. (methods = {}) \in BOOLEAN
    OBVIOUS
  <2>2. QED
    BY <1>1, <2>1 DEF Profiles!Call
<1>3. /\ Profiles!Begin(w, call) /\ UNCHANGED profileOverlapped
      /\ Profiles!Cardinality(methods) < MaxSavedMethods
      /\ excess' = IF Adders # {} THEN excess + 1 ELSE excess
  BY <1>1 DEF Profiles!AddSavedMethod, Profiles!UnderWay, Adders
<1>4. /\ ProfileMoves(w, call) /\ passengerCalls[w] = Profiles!Idle
      /\ UNCHANGED <<passenger, methods, history, decided, passengerFaults>>
      /\ passengerCount' \in 0..MaxPassengerCalls
  BY <1>2, <1>3, ProfileBegins
<1>5. StatusKept'
  BY <1>1, <1>3, <1>4, StatusStays DEF Profiles!Saving
<1>6. excess \in Nat /\ excess' \in Nat /\ MaxSavedMethods \in Nat
  BY <1>3, ProfileAssumption DEF ProfileInv, Profiles!TypeOK
<1>7. Profiles!TypeOK'
  BY <1>3, <1>4, <1>6, ProfileTyped DEF ProfileInv, Profiles!TypeOK
<1>8. Bounded'
  <2>1. w \notin Adders /\ w \notin DefaultAdders
    BY <1>4 DEF Adders, DefaultAdders, Profiles!Idle
  <2>2. Adders' = Adders \cup {w}
    BY <1>1, <1>4, ProfileCallsMoved DEF Adders
  <2>3. DefaultAdders' = IF methods = {} THEN DefaultAdders \cup {w} ELSE DefaultAdders
    <3>1. \A o \in Workers \ {w} : o \in DefaultAdders' <=> o \in DefaultAdders
      BY <1>4, ProfileCallsMoved DEF Adders, DefaultAdders
    <3>2. w \in DefaultAdders' <=> methods = {}
      <4>1. passengerCalls'[w] = call
        BY <1>4, ProfileCallsMoved
      <4>2. call.isDefault = (methods = {})
        BY <1>1, Zenon
      <4>3. w \in DefaultAdders' <=> passengerCalls'[w].isDefault
        BY <2>2 DEF DefaultAdders
      <4>4. QED
        BY <4>1, <4>2, <4>3, Zenon
    <3>3. DefaultAdders' \subseteq Workers /\ DefaultAdders \subseteq Workers
      BY DEF DefaultAdders, Adders
    <3>4. QED
      BY <2>1, <3>1, <3>2, <3>3
  <2>4. /\ IsFiniteSet(methods) /\ IsFiniteSet(Adders)
        /\ IsFiniteSet(Defaults) /\ IsFiniteSet(DefaultAdders)
    BY FS_Subset DEF ProfileInv, Bounded, Defaults, DefaultAdders
  <2>5. IsFiniteSet(Adders') /\ Cardinality(Adders') = Cardinality(Adders) + 1
    BY <2>1, <2>2, <2>4, FS_AddElement
  <2>6. Cardinality(DefaultAdders') =
          IF methods = {} THEN Cardinality(DefaultAdders) + 1 ELSE Cardinality(DefaultAdders)
    BY <2>1, <2>3, <2>4, FS_AddElement
  <2>7. /\ Cardinality(methods) \in Nat /\ Cardinality(Adders) \in Nat
        /\ Cardinality(Defaults) \in Nat /\ Cardinality(DefaultAdders) \in Nat
    BY <2>4, FS_CardinalityType
  <2>8. Cardinality(methods) < MaxSavedMethods
    BY <1>3 DEF Profiles!Cardinality, Cardinality
  <2>9. Adders = {} => Cardinality(Adders) = 0 /\ Cardinality(DefaultAdders) = 0
    BY FS_EmptySet DEF DefaultAdders
  <2>10. methods = {} => Cardinality(Defaults) = 0
    BY FS_EmptySet DEF Defaults
  <2>11. UNCHANGED Defaults
    BY <1>4 DEF Defaults
  <2>12. Cardinality(methods') + Cardinality(Adders') <= MaxSavedMethods + excess'
    BY <1>3, <1>4, <1>6, <2>5, <2>7, <2>8, <2>9 DEF ProfileInv, Bounded
  <2>13. Cardinality(Defaults') + Cardinality(DefaultAdders') <= 1 + excess'
    BY <1>3, <1>6, <2>6, <2>7, <2>9, <2>10, <2>11 DEF ProfileInv, Bounded
  <2>14. QED
    BY <1>4, <2>4, <2>5, <2>12, <2>13 DEF Bounded
<1>9. QED
  BY <1>5, <1>7, <1>8 DEF ProfileInv

LEMMA InsertMethodStep ==
  ASSUME ProfileInv, NEW w \in Workers, NEW id \in MethodIds, Profiles!InsertMethod(w, id)
  PROVE  ProfileInv'
<1>1. PICK m : m = [id |-> id, isDefault |-> passengerCalls[w].isDefault]
  OBVIOUS
<1>2. /\ passengerCalls[w].op = "add" /\ \A n \in methods : n.id # id
      /\ methods' = methods \cup {m} /\ UNCHANGED <<passenger, history, decided>>
  BY <1>1 DEF Profiles!InsertMethod
<1>3. /\ ProfileMoves(w, Profiles!Idle)
      /\ UNCHANGED <<profileOverlapped, excess, passengerCount, passengerFaults>>
  BY ProfileLeaves DEF Profiles!InsertMethod
<1>4. StatusKept'
  BY <1>2, <1>3, StatusStays DEF Profiles!Idle, Profiles!Saving
<1>5. m \in [id : MethodIds, isDefault : BOOLEAN] /\ m.id = id
  BY <1>1, <1>2, ProfileTypes
<1>6. /\ methods' \subseteq [id : MethodIds, isDefault : BOOLEAN]
      /\ \A k, n \in methods' : k.id = n.id => k = n
  BY <1>2, <1>5 DEF ProfileInv, Profiles!TypeOK
<1>7. Profiles!TypeOK'
  BY <1>2, <1>3, <1>6, ProfileTyped DEF ProfileInv, Profiles!TypeOK
<1>8. Bounded'
  <2>1. m \notin methods /\ m \notin Defaults
    BY <1>2, <1>5 DEF Defaults
  <2>2. w \in Adders /\ (w \in DefaultAdders <=> m.isDefault)
    BY <1>1, <1>2 DEF Adders, DefaultAdders
  <2>3. Adders' = Adders \ {w} /\ DefaultAdders' = DefaultAdders \ {w}
    BY <1>3, ProfileCallsMoved DEF Adders, DefaultAdders, Profiles!Idle
  <2>4. Defaults' = IF m.isDefault THEN Defaults \cup {m} ELSE Defaults
    BY <1>2 DEF Defaults
  <2>5. /\ IsFiniteSet(methods) /\ IsFiniteSet(Adders)
        /\ IsFiniteSet(Defaults) /\ IsFiniteSet(DefaultAdders)
    BY FS_Subset DEF ProfileInv, Bounded, Defaults, DefaultAdders
  <2>6. /\ IsFiniteSet(methods') /\ Cardinality(methods') = Cardinality(methods) + 1
        /\ IsFiniteSet(Adders') /\ Cardinality(Adders') = Cardinality(Adders) - 1
    BY <1>2, <2>1, <2>2, <2>3, <2>5, FS_AddElement, FS_RemoveElement
  <2>7. /\ Cardinality(methods) \in Nat /\ Cardinality(Adders) \in Nat
        /\ Cardinality(Defaults) \in Nat /\ Cardinality(DefaultAdders) \in Nat
    BY <2>5, FS_CardinalityType
  <2>8. excess \in Nat /\ excess' = excess /\ MaxSavedMethods \in Nat
    BY <1>3, ProfileAssumption DEF ProfileInv, Profiles!TypeOK
  <2>9. Cardinality(Defaults') + Cardinality(DefaultAdders')
          = Cardinality(Defaults) + Cardinality(DefaultAdders)
    <3>1. CASE m.isDefault
      <4>1. /\ Cardinality(Defaults') = Cardinality(Defaults) + 1
            /\ Cardinality(DefaultAdders') = Cardinality(DefaultAdders) - 1
        BY <2>1, <2>2, <2>3, <2>4, <2>5, <3>1, FS_AddElement, FS_RemoveElement
      <4>2. QED
        BY <2>7, <4>1
    <3>2. CASE ~m.isDefault
      <4>1. Defaults' = Defaults /\ DefaultAdders' = DefaultAdders
        BY <2>2, <2>3, <2>4, <3>2
      <4>2. QED
        BY <4>1
    <3>3. QED
      BY <3>1, <3>2
  <2>10. Cardinality(methods') + Cardinality(Adders') <= MaxSavedMethods + excess'
    BY <2>6, <2>7, <2>8 DEF ProfileInv, Bounded
  <2>11. Cardinality(Defaults') + Cardinality(DefaultAdders') <= 1 + excess'
    BY <2>8, <2>9 DEF ProfileInv, Bounded
  <2>12. QED
    BY <2>6, <2>10, <2>11 DEF Bounded
<1>9. QED
  BY <1>4, <1>7, <1>8 DEF ProfileInv

LEMMA RemoveMethodStep ==
  ASSUME ProfileInv, NEW w \in Workers,
         \/ \E id \in MethodIds : Profiles!RemoveSavedMethod(w, id)
         \/ Profiles!DeleteMethod(w)
  PROVE  ProfileInv'
<1>1. ASSUME NEW id \in MethodIds, Profiles!RemoveSavedMethod(w, id)
      PROVE  ProfileInv'
  <2>1. PICK call : call = [op |-> "remove", method |-> id]
    OBVIOUS
  <2>2. call \in Profiles!Call
    BY <2>1 DEF Profiles!Call
  <2>3. Profiles!Begin(w, call) /\ UNCHANGED <<profileOverlapped, excess>>
    BY <1>1, <2>1 DEF Profiles!RemoveSavedMethod
  <2>4. /\ ProfileMoves(w, call)
        /\ UNCHANGED <<passenger, methods, history, decided, passengerFaults>>
        /\ passengerCount' \in 0..MaxPassengerCalls
    BY <2>2, <2>3, ProfileBegins
  <2>5. QED
    BY <2>1, <2>3, <2>4, ProfileGoesOn DEF ProfileInv, Profiles!TypeOK, Profiles!Saving
<1>2. CASE Profiles!DeleteMethod(w)
  <2>1. /\ ProfileMoves(w, Profiles!Idle)
        /\ UNCHANGED <<profileOverlapped, excess, passengerCount, passengerFaults>>
    BY <1>2, ProfileLeaves DEF Profiles!DeleteMethod
  <2>2. methods' \subseteq methods /\ UNCHANGED <<passenger, history, decided>>
    BY <1>2 DEF Profiles!DeleteMethod
  <2>3. QED
    BY <2>1, <2>2, ProfileGoesOn
       DEF ProfileInv, Profiles!TypeOK, Profiles!Saving, Profiles!Idle
<1>3. QED
  BY <1>1, <1>2

LEMMA HistoryStep ==
  ASSUME ProfileInv, NEW w \in Workers,
         \/ \E r \in PastRides : Profiles!UpsertHistory(w, r)
         \/ Profiles!SaveHistory(w)
         \/ Profiles!CallFails(w)
  PROVE  ProfileInv'
<1>1. ASSUME NEW r \in PastRides, Profiles!UpsertHistory(w, r)
      PROVE  ProfileInv'
  <2>1. PICK call : call = [op |-> "project", ride |-> r, found |-> r \in history]
    OBVIOUS
  <2>2. call \in Profiles!Call
    <3>1. (r \in history) \in BOOLEAN
      OBVIOUS
    <3>2. QED
      BY <2>1, <3>1 DEF Profiles!Call
  <2>3. Profiles!Begin(w, call) /\ UNCHANGED <<profileOverlapped, excess>>
    BY <1>1, <2>1 DEF Profiles!UpsertHistory
  <2>4. /\ ProfileMoves(w, call)
        /\ UNCHANGED <<passenger, methods, history, decided, passengerFaults>>
        /\ passengerCount' \in 0..MaxPassengerCalls
    BY <2>2, <2>3, ProfileBegins
  <2>5. QED
    BY <2>1, <2>3, <2>4, ProfileGoesOn DEF ProfileInv, Profiles!TypeOK, Profiles!Saving
<1>2. CASE Profiles!SaveHistory(w)
  <2>1. /\ ProfileMoves(w, Profiles!Idle)
        /\ UNCHANGED <<profileOverlapped, excess, passengerCount, passengerFaults>>
    BY <1>2, ProfileLeaves DEF Profiles!SaveHistory
  <2>2. passengerCalls[w].ride \in PastRides
    BY <1>2, ProfileTypes DEF Profiles!SaveHistory
  <2>3. history' \subseteq PastRides /\ UNCHANGED <<passenger, methods, decided>>
    BY <1>2, <2>2 DEF Profiles!SaveHistory, ProfileInv, Profiles!TypeOK
  <2>4. QED
    BY <2>1, <2>3, ProfileGoesOn DEF ProfileInv, Profiles!TypeOK, Profiles!Saving, Profiles!Idle
<1>3. CASE Profiles!CallFails(w)
  <2>1. /\ ProfileMoves(w, Profiles!Idle)
        /\ UNCHANGED <<passenger, methods, history, decided, profileOverlapped, excess,
                       passengerCount>>
    BY <1>3 DEF Profiles!CallFails, ProfileMoves, Profiles!tables
  <2>2. passengerFaults' \in 0..MaxFaults
    BY <1>3, ProfileAssumption DEF Profiles!CallFails, ProfileInv, Profiles!TypeOK
  <2>3. QED
    BY <2>1, <2>2, ProfileGoesOn DEF ProfileInv, Profiles!TypeOK, Profiles!Saving, Profiles!Idle
<1>4. QED
  BY <1>1, <1>2, <1>3

LEMMA ProfileInvInit == Profiles!Init => ProfileInv
<1> SUFFICES ASSUME Profiles!Init
             PROVE  ProfileInv
  OBVIOUS
<1>1. Profiles!TypeOK
  <2>1. passengerCalls \in [Workers -> Profiles!Call \cup {Profiles!Idle}]
    BY DEF Profiles!Init
  <2>2. /\ passenger \in Profiles!Passenger \cup {Profiles!NoPassenger}
        /\ methods \subseteq [id : MethodIds, isDefault : BOOLEAN]
        /\ \A m, n \in methods : m.id = n.id => m = n
        /\ history \subseteq PastRides
    BY DEF Profiles!Init
  <2>3. decided \in Profiles!Statuses /\ profileOverlapped \in BOOLEAN /\ excess \in Nat
    BY DEF Profiles!Init, Profiles!Statuses
  <2>4. passengerCount \in 0..MaxPassengerCalls /\ passengerFaults \in 0..MaxFaults
    BY ProfileAssumption DEF Profiles!Init
  <2>5. QED
    BY <2>1, <2>2, <2>3, <2>4 DEF Profiles!TypeOK
<1>2. Defaults = {} /\ Adders = {} /\ DefaultAdders = {} /\ methods = {} /\ excess = 0
  BY DEF Profiles!Init, Defaults, Adders, DefaultAdders, Profiles!Idle
<1>3. Bounded
  BY <1>2, FS_EmptySet, ProfileAssumption DEF Bounded
<1>4. StatusKept
  BY DEF Profiles!Init, StatusKept, Saves, Profiles!Saving, Profiles!Idle
<1>5. QED
  BY <1>1, <1>3, <1>4 DEF ProfileInv

LEMMA ProfileInvNext ==
  ASSUME ProfileInv, Profiles!Next
  PROVE  ProfileInv'
<1>1. PICK w \in Workers :
        \/ \E name \in Names : Profiles!CompleteProfile(w, name) \/ Profiles!UpdateProfile(w, name)
        \/ \E status \in Profiles!Statuses : Profiles!BlockUnblock(w, status)
        \/ Profiles!FindProfile(w) \/ Profiles!InsertProfile(w) \/ Profiles!SavePassenger(w)
        \/ Profiles!AddSavedMethod(w) \/ Profiles!DeleteMethod(w)
        \/ \E id \in MethodIds : Profiles!InsertMethod(w, id) \/ Profiles!RemoveSavedMethod(w, id)
        \/ \E r \in PastRides : Profiles!UpsertHistory(w, r)
        \/ Profiles!SaveHistory(w) \/ Profiles!CallFails(w)
  BY DEF Profiles!Next
<1>2. CASE \/ \E name \in Names : Profiles!CompleteProfile(w, name) \/ Profiles!UpdateProfile(w, name)
           \/ \E status \in Profiles!Statuses : Profiles!BlockUnblock(w, status)
           \/ Profiles!FindProfile(w) \/ Profiles!InsertProfile(w) \/ Profiles!SavePassenger(w)
  BY <1>2, CompleteProfileStep, ChangeProfileStep, FindProfileStep, InsertProfileStep,
     SavePassengerStep
<1>3. CASE \/ Profiles!AddSavedMethod(w) \/ Profiles!DeleteMethod(w)
           \/ \E id \in MethodIds :
                Profiles!InsertMethod(w, id) \/ Profiles!RemoveSavedMethod(w, id)
  BY <1>3, AddSavedMethodStep, InsertMethodStep, RemoveMethodStep
<1>4. CASE \/ \E r \in PastRides : Profiles!UpsertHistory(w, r)
           \/ Profiles!SaveHistory(w) \/ Profiles!CallFails(w)
  BY <1>4, HistoryStep
<1>5. QED
  BY <1>1, <1>2, <1>3, <1>4

LEMMA ProfileStill ==
  ASSUME ProfileInv, UNCHANGED profiles
  PROVE  ProfileInv'
<1>1. Profiles!TypeOK'
  BY DEF ProfileInv, profiles, Profiles!TypeOK, Profiles!Passenger, Profiles!NoPassenger, Profiles!Call,
         Profiles!Idle, Profiles!Statuses
<1>2. Bounded'
  BY DEF ProfileInv, profiles, Bounded, Defaults, Adders, DefaultAdders
<1>3. StatusKept'
  BY DEF ProfileInv, profiles, StatusKept, Saves, Profiles!Saving, Profiles!NoPassenger
<1>4. QED
  BY <1>1, <1>2, <1>3 DEF ProfileInv

LEMMA ProfileSide == [Next]_vars => UNCHANGED profiles \/ Profiles!Next
BY DEF Next, vars, profiles

LEMMA ProfileAlways == Spec => []ProfileInv
<1>1. Init => ProfileInv
  BY ProfileInvInit DEF Init
<1>2. ProfileInv /\ [Next]_vars => ProfileInv'
  BY ProfileSide, ProfileInvNext, ProfileStill
<1>3. QED
  BY <1>1, <1>2, PTL DEF Spec

\* A passenger has no more saved methods, and no more default ones, than the limits
\* and what calls that overlapped added, and an administrator's block or unblock
\* stays while no two calls that save the row overlap, with calls that stop
\* anywhere (passengers.service.ts addSavedMethod, removeSavedMethod,
\* completeProfile, updateProfile, block and unblock).
THEOREM PassengerKeptAlways == Spec => []PassengerKept
<1>1. ProfileInv => PassengerKept
  <2> SUFFICES ASSUME ProfileInv
               PROVE  Profiles!MethodsBounded /\ Profiles!BlockHolds
    BY DEF PassengerKept, Profiles!PassengerKept
  <2>1. IsFiniteSet(Adders) /\ IsFiniteSet(DefaultAdders)
        /\ IsFiniteSet(methods) /\ IsFiniteSet(Defaults)
    BY FS_Subset DEF ProfileInv, Bounded, DefaultAdders, Defaults
  <2>2. /\ Cardinality(Adders) \in Nat /\ Cardinality(DefaultAdders) \in Nat
        /\ Cardinality(methods) \in Nat /\ Cardinality(Defaults) \in Nat
    BY <2>1, FS_CardinalityType
  <2>3. Cardinality(methods) <= MaxSavedMethods + excess /\ Cardinality(Defaults) <= 1 + excess
    BY <2>2, ProfileAssumption DEF ProfileInv, Bounded, Profiles!TypeOK
  <2>4. Profiles!Cardinality(methods) = Cardinality(methods)
        /\ Profiles!Cardinality(Defaults) = Cardinality(Defaults)
    BY DEF Profiles!Cardinality, Cardinality
  <2>5. Profiles!MethodsBounded
    BY <2>3, <2>4 DEF Profiles!MethodsBounded, Defaults
  <2>6. Profiles!BlockHolds
    BY DEF Profiles!BlockHolds, Profiles!Registered, ProfileInv, StatusKept
  <2>7. QED
    BY <2>5, <2>6
<1>2. QED
  BY <1>1, ProfileAlways, PTL


-----------------------------------------------------------------------------
(***************************************************************************)
(* The types of the two parts                                              *)
(***************************************************************************)
FleetRest ==
  /\ provisioned \subseteq Drivers /\ suspensions \in [Drivers -> 0..MaxSuspensions]
  /\ expired \subseteq Drivers /\ online \subseteq Drivers /\ driversCut \subseteq Drivers
  /\ driversOverlapped \subseteq Drivers \cup Vehicles
  /\ driverCount \in 0..MaxDriverCalls /\ driverFaults \in 0..MaxFaults

\* A call begins on a driver, and on a vehicle or none.
LEMMA FleetBegins ==
  ASSUME FleetRest, NEW w, NEW op, NEW d \in Drivers, NEW v \in Vehicles \cup {None},
         NEW step, NEW entity, Drive!Begin(w, op, d, v, step, entity),
         UNCHANGED <<provisioned, suspensions, expired, online, driversCut, driverFaults>>
  PROVE  FleetRest'
<1>1. driversOverlapped' \subseteq Drivers \cup Vehicles
  BY DEF FleetRest, Drive!Begin
<1>2. driverCount' \in 0..MaxDriverCalls
  BY FleetAssumption DEF FleetRest, Drive!Begin
<1>3. QED
  BY <1>1, <1>2 DEF FleetRest

LEMMA FleetRestStep ==
  ASSUME FleetInv, FleetRest, Drive!Next
  PROVE  FleetRest'
<1>1. ASSUME NEW w \in Workers, NEW d \in Drivers,
             \/ Drive!Onboard(w, d)
             \/ \E op \in Drive!DriverOps \ {"onboard", "assign"} : Drive!Load(w, op, d, None)
             \/ \E v \in Vehicles : Drive!Load(w, "assign", d, v) \/ Drive!FindAssigned(w, d, v)
      PROVE  FleetRest'
  BY <1>1, FleetBegins DEF Drive!Onboard, Drive!Load, Drive!FindAssigned
<1>2. ASSUME NEW w \in Workers, driverCalls[w] # Drive!Idle
      PROVE  driverCalls[w].driver \in Drivers
  BY <1>2 DEF FleetInv, FleetTyped, CallTyped
<1>3. ASSUME NEW w \in Workers,
             \/ Drive!InsertDriver(w) \/ Drive!CheckEligible(w) \/ Drive!SaveDriver(w)
             \/ Drive!CloseOfDriver(w) \/ Drive!CloseOfVehicle(w)
             \/ Drive!AssignVehicle(w) \/ Drive!LoadAssigned(w)
      PROVE  FleetRest'
  BY <1>3 DEF FleetRest, Drive!InsertDriver, Drive!CheckEligible, Drive!SaveDriver,
     Drive!CloseOfDriver, Drive!CloseOfVehicle, Drive!AssignVehicle, Drive!LoadAssigned
<1>4. ASSUME NEW w \in Workers, Drive!ProvisionDriver(w) \/ Drive!PublishStatus(w) \/ Drive!Stop(w)
      PROVE  FleetRest'
  <2>1. driverCalls[w].driver \in Drivers
    BY <1>2, <1>4 DEF Drive!ProvisionDriver, Drive!PublishStatus, Drive!Stop, Drive!At
  <2>2. CASE Drive!ProvisionDriver(w) \/ Drive!PublishStatus(w)
    BY <2>1, <2>2 DEF FleetRest, Drive!ProvisionDriver, Drive!PublishStatus
  <2>3. CASE Drive!Stop(w)
    <3>1. driverFaults' \in 0..MaxFaults
      BY <2>3, ProfileAssumption DEF FleetRest, Drive!Stop
    <3>2. QED
      BY <2>1, <2>3, <3>1 DEF FleetRest, Drive!Stop
  <2>4. QED
    BY <1>4, <2>2, <2>3
<1>5. ASSUME NEW w \in Workers, Drive!Suspend(w) \/ Drive!CloseSuspensions(w)
      PROVE  FleetRest'
  <2>1. driverCalls[w].driver \in Drivers
    BY <1>2, <1>5 DEF Drive!Suspend, Drive!CloseSuspensions, Drive!At
  <2>2. suspensions[driverCalls[w].driver] \in 0..MaxSuspensions
    BY <2>1 DEF FleetRest
  <2>3. suspensions' \in [Drivers -> 0..MaxSuspensions]
    BY <1>5, <2>1, <2>2, FleetAssumption DEF FleetRest, Drive!Suspend, Drive!CloseSuspensions
  <2>4. QED
    BY <1>5, <2>3 DEF FleetRest, Drive!Suspend, Drive!CloseSuspensions
<1>6. ASSUME NEW d \in Drivers, Drive!ExpireLicence(d)
      PROVE  FleetRest'
  <2>1. driverCount' \in 0..MaxDriverCalls
    BY <1>6, FleetAssumption DEF FleetRest, Drive!ExpireLicence
  <2>2. QED
    BY <1>6, <2>1 DEF FleetRest, Drive!ExpireLicence
<1>7. QED
  BY <1>1, <1>3, <1>4, <1>5, <1>6 DEF Drive!Next, Drive!Handler

LEMMA FleetType == Spec => [](focus = "fleet" => Drive!TypeOK)
<1>1. Init => FleetRest
  BY FleetAssumption, ProfileAssumption DEF Init, Drive!Init, FleetRest
<1>2. (focus = "fleet" => FleetInv) /\ FleetRest /\ [Next]_vars => FleetRest'
  <2> SUFFICES ASSUME focus = "fleet" => FleetInv, FleetRest, [Next]_vars
               PROVE  FleetRest'
    OBVIOUS
  <2>1. (focus = "fleet" /\ Drive!Next) \/ UNCHANGED fleet
    BY DEF Next, vars
  <2>2. QED
    BY <2>1, FleetRestStep DEF fleet, FleetRest
<1>3. (focus = "fleet" => FleetInv) /\ FleetRest => (focus = "fleet" => Drive!TypeOK)
  BY DEF FleetInv, FleetTyped, Paired, FleetRest, Drive!TypeOK
<1>4. QED
  BY <1>1, <1>2, <1>3, FleetAlways, PTL DEF Spec

LEMMA ProfilesType == Spec => []Profiles!TypeOK
<1>1. ProfileInv => Profiles!TypeOK
  BY DEF ProfileInv
<1>2. QED
  BY <1>1, ProfileAlways, PTL

=============================================================================
