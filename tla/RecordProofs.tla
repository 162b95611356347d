----------------------------- MODULE RecordProofs -----------------------------
(***************************************************************************)
(* Theorems about what is stored once and announced as it is stored: the   *)
(* fare of a ride, documents and notifications, the violation a vehicle    *)
(* has open, and the counters of the reporting projections.  The types of  *)
(* all parts of Services come together here.                               *)
(***************************************************************************)
EXTENDS AuthProofs, FleetProofs, SequenceTheorems

USE BillingAssumption, MediaAssumption, NoticeAssumption

-----------------------------------------------------------------------------
(***************************************************************************)
(* Fares: one calculation, with the trail and the configuration it should  *)
(* have, and no ride that just lacks one.                                  *)
(***************************************************************************)
\* The time since the ride started is past: no configuration that is still to be
\* inserted can be in effect at the start.
Underway == ride.started \in Nat /\ ride.started < clock

FaresTyped ==
  /\ clock \in Nat /\ clock <= BillingTime
  /\ fares = [h \in Workers |-> fares[h]] /\ DOMAIN creating = Admins
  /\ ended \in [0..(MaxAttempts - 1) -> Nat] /\ delayed \in [1..(MaxAttempts - 1) -> Nat]
  /\ configs \in Seq(Nat)
  /\ \A h \in Workers : fares[h] # Fares!Idle => fares[h].attempts \in 0..(MaxAttempts - 1)

\* The ride's columns, and what there is only once it ended.
EndedAfterStart ==
  /\ ride = [started |-> ride.started, ended |-> ride.ended]
  /\ ride.started = Fares!Never \/ ride.started \in 0..clock
  /\ ride.ended # Fares!Never => Underway
  /\ \A h \in Workers : fares[h] # Fares!Idle => Underway
  /\ \A a \in DOMAIN ended : ended[a] > 0 => Underway
  /\ \A a \in DOMAIN delayed : delayed[a] > 0 => Underway
  /\ calculations # {} => Underway

\* A configuration that is being created takes effect now.
CreatedNow == \A a \in Admins : creating[a] # Fares!Idle => creating[a].from = clock

\* What a calculation at work has read stays what it should have read.
MeasuredRight ==
  /\ \A s, t \in slices : s = t
  /\ \A h \in Workers :
       /\ fares[h].phase \in {"measuring", "saving"} =>
            fares[h].version \in Fares!ActiveAt(ride.started)
       /\ fares[h].phase = "saving" => \E s \in slices : fares[h].points = s.points

FareInv ==
  /\ FaresTyped /\ EndedAfterStart /\ CreatedNow /\ MeasuredRight
  /\ Fares!FaredOnce /\ Fares!NotForgotten

LEMMA FareInit == Fares!Init => FareInv
BY DEF Fares!Init, FareInv, FaresTyped, EndedAfterStart, CreatedNow, MeasuredRight,
       Fares!FaredOnce, Fares!NotForgotten, Fares!Idle, Fares!Never

-----------------------------------------------------------------------------
(***************************************************************************)
(* What the steps share                                                    *)
(***************************************************************************)
\* What the invariant speaks of, less the clock and the ride.
kept == <<published, ended, delayed, slices, fares, calculations, configs, creating, announced,
          dead, lost>>

\* A configuration that takes effect later does not displace one in effect.
LEMMA ActiveKept ==
  ASSUME configs \in Seq(Nat), NEW at \in Nat, NEW from \in Nat, at < from,
         configs' = configs \/ configs' = Append(configs, from)
  PROVE  Fares!ActiveAt(at) \subseteq Fares!ActiveAt(at)'
<1>1. CASE configs' = configs
  BY <1>1 DEF Fares!ActiveAt
<1>2. CASE configs' = Append(configs, from)
  <2>1. /\ DOMAIN configs' = DOMAIN configs \cup {Len(configs) + 1}
        /\ \A v \in DOMAIN configs : configs'[v] = configs[v] /\ configs[v] \in Nat
        /\ configs'[Len(configs) + 1] = from
    BY <1>2
  <2>2. ~(from <= at)
    OBVIOUS
  <2>3. QED
    BY <2>1, <2>2 DEF Fares!ActiveAt
<1>3. QED
  BY <1>1, <1>2

\* The clock and the ride's columns move, and nothing else that matters.
LEMMA TimeMoves ==
  ASSUME FareInv, UNCHANGED kept, clock' \in Nat, clock <= clock', clock' <= BillingTime,
         clock' = clock \/ \A a \in Admins : creating[a] = Fares!Idle,
         ride' = [started |-> ride'.started, ended |-> ride'.ended],
         Underway => ride'.started = ride.started,
         ride'.started = Fares!Never \/ ride'.started \in 0..clock',
         ride'.ended # Fares!Never => Underway
  PROVE  FareInv'
<1>1. Underway => Underway'
  BY DEF FareInv, FaresTyped, Underway
<1>2. FaresTyped'
  BY DEF FareInv, FaresTyped, kept, Fares!Idle
<1>3. EndedAfterStart'
  BY <1>1 DEF FareInv, EndedAfterStart, kept, Fares!Idle, Fares!Never
<1>4. CreatedNow'
  BY DEF FareInv, CreatedNow, kept, Fares!Idle
<1>5. MeasuredRight'
  <2>1. \A h \in Workers : fares[h].phase \in {"measuring", "saving"} => Underway
    BY DEF FareInv, EndedAfterStart, Fares!Idle
  <2>2. QED
    BY <2>1 DEF FareInv, MeasuredRight, kept, Fares!ActiveAt
<1>6. Fares!FaredOnce'
  BY DEF FareInv, EndedAfterStart, Fares!FaredOnce, kept, Fares!ActiveAt
<1>7. Fares!NotForgotten'
  BY DEF FareInv, Fares!NotForgotten, kept, Fares!Waiting, Fares!Idle
<1>8. QED
  BY <1>2, <1>3, <1>4, <1>5, <1>6, <1>7 DEF FareInv

-----------------------------------------------------------------------------
(***************************************************************************)
(* One lemma per group of actions                                          *)
(***************************************************************************)
LEMMA QuietSteps ==
  ASSUME FareInv,
         \/ Fares!Tick \/ Fares!Points \/ Fares!StartRide \/ Fares!EndRide
         \/ Fares!RestartTracking
         \/ \E m \in published : Fares!OpenTrail(m) \/ \E h \in Workers : Fares!Finalize(h, m)
         \/ \E h \in Workers : Fares!ReadPoints(h)
         \/ UNCHANGED billing
  PROVE  FareInv'
<1>0. /\ ride = [started |-> ride.started, ended |-> ride.ended]
      /\ clock \in Nat /\ clock <= BillingTime
      /\ ride.started = Fares!Never \/ ride.started \in 0..clock
      /\ ride.ended # Fares!Never => Underway
  BY DEF FareInv, FaresTyped, EndedAfterStart
<1>1. CASE Fares!Tick
  <2>1. UNCHANGED kept /\ ride' = ride /\ clock' = clock + 1 /\ clock < BillingTime
        /\ \A a \in Admins : creating[a] = Fares!Idle
    BY <1>1 DEF Fares!Tick, kept, Fares!trail, Fares!fare, Fares!queue, Fares!pricing
  <2>2. ride'.started = Fares!Never \/ ride'.started \in 0..clock'
    BY <1>0, <2>1 DEF Fares!Never
  <2>3. QED
    BY <1>0, <2>1, <2>2, TimeMoves
<1>2. CASE Fares!StartRide
  <2>1. UNCHANGED kept /\ clock' = clock /\ ride.started = Fares!Never
        /\ ride' = [ride EXCEPT !.started = clock]
    BY <1>2 DEF Fares!StartRide, kept, Fares!trail, Fares!fare, Fares!queue, Fares!pricing
  <2>2. ride' = [started |-> clock, ended |-> ride.ended] /\ ~Underway
    BY <1>0, <2>1 DEF Underway, Fares!Never
  <2>3. QED
    BY <1>0, <2>1, <2>2, TimeMoves
<1>3. CASE Fares!EndRide
  <2>1. UNCHANGED kept /\ clock' = clock /\ ride.started < clock
        /\ ride' = [ride EXCEPT !.ended = clock]
    BY <1>3 DEF Fares!EndRide, kept, Fares!trail, Fares!fare, Fares!queue, Fares!pricing
  <2>2. ride' = [started |-> ride.started, ended |-> clock] /\ Underway
    BY <1>0, <2>1 DEF Underway, Fares!Never
  <2>3. QED
    BY <1>0, <2>1, <2>2, TimeMoves
<1>4. CASE \/ Fares!Points \/ Fares!RestartTracking \/ UNCHANGED billing
           \/ \E m \in published : Fares!OpenTrail(m) \/ \E h \in Workers : Fares!Finalize(h, m)
           \/ \E h \in Workers : Fares!ReadPoints(h)
  <2>1. UNCHANGED kept /\ clock' = clock /\ ride' = ride
    BY <1>4 DEF Fares!Points, Fares!Add, Fares!Flush, Fares!FlushFails, Fares!RestartTracking,
                Fares!OpenTrail, Fares!Finalize, Fares!ReadPoints, kept, billing, Fares!trail,
                Fares!fare, Fares!queue, Fares!pricing
  <2>2. QED
    BY <1>0, <2>1, TimeMoves
<1>5. QED
  BY <1>1, <1>2, <1>3, <1>4

\* The clock and the ride stay; what the rest may do to the calculations.
LEMMA FaredKept ==
  ASSUME FareInv, UNCHANGED <<clock, ride, calculations, announced, slices>>,
         configs' = configs \/ configs' = Append(configs, clock)
  PROVE  Fares!FaredOnce'
<1>1. PICK at : at = ride.started
  OBVIOUS
<1>2. calculations # {} => at \in Nat /\ at < clock
  BY <1>1 DEF FareInv, EndedAfterStart, Underway
<1>3. ASSUME NEW c \in calculations
      PROVE  c.version \in Fares!ActiveAt(at)'
  <2>1. c.version \in Fares!ActiveAt(at)
    BY <1>1 DEF FareInv, Fares!FaredOnce
  <2>2. configs \in Seq(Nat) /\ clock \in Nat
    BY DEF FareInv, FaresTyped
  <2>3. QED
    BY <1>2, <1>3, <2>1, <2>2, ActiveKept
<1>4. \A c \in calculations : c.version \in Fares!ActiveAt(ride.started)'
  BY <1>1, <1>3
<1>5. QED
  BY <1>4 DEF FareInv, Fares!FaredOnce

LEMMA PublishTripStep ==
  ASSUME FareInv, NEW name \in Fares!TripEvents, Fares!Publish(name)
  PROVE  FareInv'
<1>1. /\ UNCHANGED <<clock, ride, slices, delayed, fares, calculations, configs, creating,
                     announced, dead, lost>>
      /\ published' = published \cup {<<name, clock>>}
      /\ ended' = IF name = "ride.ended" THEN [ended EXCEPT ![0] = ended[0] + 1] ELSE ended
      /\ name = "ride.ended" => ride.ended # Fares!Never
  BY DEF Fares!Publish, Fares!trail, Fares!pricing
<1>2. 0 \in 0..(MaxAttempts - 1) /\ ended \in [0..(MaxAttempts - 1) -> Nat]
  BY DEF FareInv, FaresTyped
<1>3. /\ DOMAIN ended' = DOMAIN ended
      /\ ended' \in [0..(MaxAttempts - 1) -> Nat]
      /\ \A a \in DOMAIN ended : ended[a] > 0 => ended'[a] > 0
      /\ name = "ride.ended" => ended'[0] > 0
      /\ name # "ride.ended" => ended' = ended
  BY <1>1, <1>2
<1>4. FaresTyped'
  BY <1>1, <1>3 DEF FareInv, FaresTyped, Fares!Idle
<1>5. EndedAfterStart'
  BY <1>1, <1>3 DEF FareInv, EndedAfterStart, Underway, Fares!Idle, Fares!Never
<1>6. CreatedNow' /\ MeasuredRight'
  BY <1>1 DEF FareInv, CreatedNow, MeasuredRight, Fares!ActiveAt, Fares!Idle
<1>7. Fares!FaredOnce'
  BY <1>1, FaredKept
<1>8. Fares!NotForgotten'
  <2>1. CASE name = "ride.ended"
    BY <1>2, <1>3, <2>1 DEF Fares!NotForgotten, Fares!Waiting
  <2>2. CASE name # "ride.ended"
    BY <1>1, <1>3, <2>2 DEF FareInv, Fares!NotForgotten, Fares!Waiting, Fares!Idle
  <2>3. QED
    BY <2>1, <2>2
<1>9. QED
  BY <1>4, <1>5, <1>6, <1>7, <1>8 DEF FareInv

LEMMA SaveSliceStep ==
  ASSUME FareInv, NEW h \in Workers, Fares!SaveSlice(h)
  PROVE  FareInv'
<1>1. /\ UNCHANGED <<clock, ride, published, ended, delayed, fares, calculations, configs,
                     creating, announced, dead, lost>>
      /\ slices' = slices \/ (slices = {} /\ \E s : slices' = {s})
  BY DEF Fares!SaveSlice, Fares!fare, Fares!queue, Fares!pricing
<1>2. FaresTyped' /\ CreatedNow'
  BY <1>1 DEF FareInv, FaresTyped, CreatedNow, Fares!Idle
<1>3. EndedAfterStart'
  BY <1>1 DEF FareInv, EndedAfterStart, Underway, Fares!Idle, Fares!Never
<1>4. MeasuredRight'
  BY <1>1 DEF FareInv, MeasuredRight, Fares!ActiveAt
<1>5. Fares!FaredOnce'
  BY <1>1 DEF FareInv, Fares!FaredOnce, Fares!ActiveAt
<1>6. Fares!NotForgotten'
  BY <1>1 DEF FareInv, Fares!NotForgotten, Fares!Waiting, Fares!Idle
<1>7. QED
  BY <1>2, <1>3, <1>4, <1>5, <1>6 DEF FareInv

LEMMA ConfigSteps ==
  ASSUME FareInv, NEW a \in Admins, Fares!ReadLatest(a) \/ Fares!InsertConfig(a)
  PROVE  FareInv'
<1>1. /\ UNCHANGED <<clock, ride, published, ended, delayed, slices, fares, calculations,
                     announced, dead, lost>>
      /\ configs' = configs \/ configs' = Append(configs, clock)
      /\ DOMAIN creating' = Admins
      /\ \A b \in Admins : creating'[b] # Fares!Idle => creating'[b].from = clock
  <2>1. CASE Fares!ReadLatest(a)
    BY <2>1 DEF Fares!ReadLatest, Fares!trail, Fares!fare, Fares!queue, FareInv, FaresTyped,
       CreatedNow
  <2>2. CASE Fares!InsertConfig(a)
    BY <2>2 DEF Fares!InsertConfig, Fares!trail, Fares!fare, Fares!queue, FareInv, FaresTyped,
       CreatedNow
  <2>3. QED
    BY <2>1, <2>2
<1>2. configs \in Seq(Nat) /\ clock \in Nat
  BY DEF FareInv, FaresTyped
<1>3. FaresTyped' /\ CreatedNow'
  <2>1. configs' \in Seq(Nat)
    BY <1>1, <1>2, AppendProperties
  <2>2. QED
    BY <1>1, <2>1 DEF FareInv, FaresTyped, CreatedNow, Fares!Idle
<1>4. EndedAfterStart'
  BY <1>1 DEF FareInv, EndedAfterStart, Underway, Fares!Idle, Fares!Never
<1>5. MeasuredRight'
  <2>1. PICK at : at = ride.started
    OBVIOUS
  <2>2. ASSUME NEW h \in Workers, fares[h].phase \in {"measuring", "saving"}
        PROVE  fares[h].version \in Fares!ActiveAt(at)'
    <3>1. at \in Nat /\ at < clock /\ fares[h].version \in Fares!ActiveAt(at)
      BY <2>1, <2>2 DEF FareInv, EndedAfterStart, MeasuredRight, Underway, Fares!Idle
    <3>2. QED
      BY <1>1, <1>2, <3>1, ActiveKept
  <2>3. \A h \in Workers : fares[h].phase \in {"measuring", "saving"} =>
          fares[h].version \in Fares!ActiveAt(ride.started)'
    BY <1>1, <2>1, <2>2 DEF Fares!ActiveAt
  <2>4. QED
    BY <1>1, <2>3 DEF FareInv, MeasuredRight
<1>6. Fares!FaredOnce'
  BY <1>1, FaredKept
<1>7. Fares!NotForgotten'
  BY <1>1 DEF FareInv, Fares!NotForgotten, Fares!Waiting, Fares!Idle
<1>8. QED
  BY <1>3, <1>4, <1>5, <1>6, <1>7 DEF FareInv


-----------------------------------------------------------------------------
(***************************************************************************)
(* The calculation                                                         *)
(***************************************************************************)
\* A handler moves on, or ends its delivery: what its new phase claims must hold,
\* and the ride must not be forgotten.
LEMMA HandlerMoves ==
  ASSUME FareInv, NEW h \in Workers, NEW call,
         UNCHANGED <<clock, ride, published, slices, configs, creating>>,
         fares' = [fares EXCEPT ![h] = call],
         Underway,
         ended' \in [0..(MaxAttempts - 1) -> Nat], delayed' \in [1..(MaxAttempts - 1) -> Nat],
         call # Fares!Idle =>
           /\ call.attempts \in 0..(MaxAttempts - 1)
           /\ call.phase \in {"measuring", "saving"} =>
                call.version \in Fares!ActiveAt(ride.started)
           /\ call.phase = "saving" => \E s \in slices : call.points = s.points,
         Fares!FaredOnce',
         Fares!Waiting' \/ calculations' # {} \/ dead' \/ lost'
  PROVE  FareInv'
<1>1. /\ fares'[h] = call /\ \A o \in Workers \ {h} : fares'[o] = fares[o]
      /\ fares' = [o \in Workers |-> fares'[o]]
  <2>1. DOMAIN fares = Workers
    BY DEF FareInv, FaresTyped
  <2>2. QED
    BY <2>1
<1>2. FaresTyped'
  BY <1>1 DEF FareInv, FaresTyped, Fares!Idle
<1>3. EndedAfterStart'
  BY <1>1 DEF FareInv, EndedAfterStart, Underway, Fares!Idle, Fares!Never
<1>4. CreatedNow'
  BY DEF FareInv, CreatedNow, Fares!Idle
<1>5. MeasuredRight'
  <2>1. Fares!Idle.phase = "idle"
    BY DEF Fares!Idle
  <2>2. \A o \in Workers :
          /\ fares'[o].phase \in {"measuring", "saving"} =>
               fares'[o].version \in Fares!ActiveAt(ride.started)
          /\ fares'[o].phase = "saving" => \E s \in slices : fares'[o].points = s.points
    BY <1>1, <2>1 DEF FareInv, MeasuredRight
  <2>3. QED
    BY <2>2 DEF FareInv, MeasuredRight, Fares!ActiveAt
<1>6. Fares!NotForgotten'
  BY DEF Fares!NotForgotten
<1>7. QED
  BY <1>2, <1>3, <1>4, <1>5, <1>6 DEF FareInv

\* A busy handler has a ride that ended, and keeps its delivery from being forgotten.
LEMMA BusyHandler ==
  ASSUME FareInv, NEW h \in Workers, fares[h] # Fares!Idle
  PROVE  /\ Underway /\ fares[h].attempts \in 0..(MaxAttempts - 1)
         /\ ended \in [0..(MaxAttempts - 1) -> Nat] /\ delayed \in [1..(MaxAttempts - 1) -> Nat]
BY DEF FareInv, FaresTyped, EndedAfterStart

\* The handler throws: the retry waits, or the event is dead-lettered.
LEMMA RejectedLeaves ==
  ASSUME FareInv, NEW h \in Workers, fares[h] # Fares!Idle, Fares!Rejected(h)
  PROVE  /\ fares' = [fares EXCEPT ![h] = Fares!Idle] /\ ended' = ended
         /\ delayed' \in [1..(MaxAttempts - 1) -> Nat]
         /\ Fares!Waiting' \/ dead'
<1>1. PICK n : n = fares[h].attempts + 1
  OBVIOUS
<1>2. n \in Nat \ {0} /\ delayed \in [1..(MaxAttempts - 1) -> Nat]
  BY <1>1, BusyHandler
<1>3. fares' = [fares EXCEPT ![h] = Fares!Idle] /\ ended' = ended
  BY DEF Fares!Rejected, Fares!Step
<1>4. CASE n >= MaxAttempts
  BY <1>1, <1>2, <1>3, <1>4 DEF Fares!Rejected
<1>5. CASE ~(n >= MaxAttempts)
  <2>1. delayed' = [delayed EXCEPT ![n] = delayed[n] + 1] /\ n \in 1..(MaxAttempts - 1)
    BY <1>1, <1>2, <1>5 DEF Fares!Rejected
  <2>2. delayed'[n] > 0 /\ n \in DOMAIN delayed' /\ delayed' \in [1..(MaxAttempts - 1) -> Nat]
    BY <1>2, <2>1
  <2>3. QED
    BY <1>3, <2>2 DEF Fares!Waiting
<1>6. QED
  BY <1>4, <1>5

LEMMA BeginFareStep ==
  ASSUME FareInv, NEW h \in Workers, NEW n \in DOMAIN ended, Fares!BeginFare(h, n)
  PROVE  FareInv'
<1>1. /\ UNCHANGED <<clock, ride, published, slices, configs, creating, calculations,
                     announced, delayed>>
      /\ fares[h] = Fares!Idle /\ ended[n] > 0
      /\ ended' = [ended EXCEPT ![n] = ended[n] - 1]
      /\ \/ calculations # {} /\ fares' = fares
         \/ fares' = [fares EXCEPT ![h] = [phase |-> "pricing", attempts |-> n]]
  BY DEF Fares!BeginFare, Fares!Step, Fares!trail, Fares!pricing
<1>2. /\ ended \in [0..(MaxAttempts - 1) -> Nat] /\ n \in 0..(MaxAttempts - 1)
      /\ delayed \in [1..(MaxAttempts - 1) -> Nat]
      /\ Underway /\ DOMAIN fares = Workers
  BY <1>1 DEF FareInv, FaresTyped, EndedAfterStart
<1>3. ended' \in [0..(MaxAttempts - 1) -> Nat]
  BY <1>1, <1>2
<1>4. Fares!FaredOnce'
  BY <1>1, FaredKept
<1>5. PICK call : /\ fares' = [fares EXCEPT ![h] = call]
                  /\ \/ calculations # {} /\ call = Fares!Idle
                     \/ call = [phase |-> "pricing", attempts |-> n]
  <2>1. CASE fares' = fares /\ calculations # {}
    <3>1. fares' = [fares EXCEPT ![h] = Fares!Idle]
      BY <1>1, <2>1 DEF FareInv, FaresTyped
    <3>2. QED
      BY <2>1, <3>1
  <2>2. CASE fares' = [fares EXCEPT ![h] = [phase |-> "pricing", attempts |-> n]]
    BY <2>2
  <2>3. QED
    BY <1>1, <2>1, <2>2
<1>6. Fares!Waiting' \/ calculations' # {}
  <2>1. CASE call = [phase |-> "pricing", attempts |-> n]
    <3>1. fares'[h] # Fares!Idle
      BY <1>2, <1>5, <2>1 DEF Fares!Idle
    <3>2. QED
      BY <3>1 DEF Fares!Waiting
  <2>2. QED
    BY <1>1, <1>5, <2>1
<1>7. QED
  BY <1>1, <1>2, <1>3, <1>4, <1>5, <1>6, HandlerMoves

LEMMA PriceStep ==
  ASSUME FareInv, NEW h \in Workers, NEW version, Fares!Price(h, version)
  PROVE  FareInv'
<1> DEFINE call == [phase |-> "measuring", attempts |-> fares[h].attempts, version |-> version]
<1>1. /\ UNCHANGED <<clock, ride, published, slices, configs, creating, calculations,
                     announced, ended, delayed>>
      /\ fares[h].phase = "pricing" /\ version \in Fares!ActiveAt(ride.started)
      /\ fares' = [fares EXCEPT ![h] = call]
  BY DEF Fares!Price, Fares!Step, Fares!trail, Fares!queue, Fares!pricing
<1>2. fares[h] # Fares!Idle /\ DOMAIN fares = Workers
  BY <1>1 DEF Fares!Idle, FareInv, FaresTyped
<1>3. fares'[h] # Fares!Idle
  BY <1>1, <1>2 DEF Fares!Idle
<1>4. Fares!Waiting'
  BY <1>3 DEF Fares!Waiting
<1>5. Fares!FaredOnce'
  BY <1>1, FaredKept
<1>6. QED
  BY <1>1, <1>2, <1>4, <1>5, BusyHandler, HandlerMoves

LEMMA MeasureStep ==
  ASSUME FareInv, NEW h \in Workers, Fares!Measure(h)
  PROVE  FareInv'
<1>1. PICK slice \in slices :
        fares' = [fares EXCEPT ![h] =
          [phase |-> "saving", attempts |-> fares[h].attempts,
           version |-> fares[h].version, points |-> slice.points]]
  BY DEF Fares!Measure, Fares!Step
<1> DEFINE call == [phase |-> "saving", attempts |-> fares[h].attempts,
                    version |-> fares[h].version, points |-> slice.points]
<1>2. /\ UNCHANGED <<clock, ride, published, slices, configs, creating, calculations,
                     announced, ended, delayed>>
      /\ fares[h].phase = "measuring"
  BY DEF Fares!Measure, Fares!trail, Fares!queue, Fares!pricing
<1>3. /\ fares[h] # Fares!Idle /\ DOMAIN fares = Workers
      /\ fares[h].version \in Fares!ActiveAt(ride.started)
  BY <1>2 DEF Fares!Idle, FareInv, FaresTyped, MeasuredRight
<1>4. fares'[h] # Fares!Idle
  BY <1>1, <1>3 DEF Fares!Idle
<1>5. Fares!Waiting'
  BY <1>4 DEF Fares!Waiting
<1>6. Fares!FaredOnce'
  BY <1>2, FaredKept
<1>7. QED
  BY <1>1, <1>2, <1>3, <1>5, <1>6, BusyHandler, HandlerMoves

\* The first to save inserts the calculation; the others are rejected.
LEMMA SaveFareStep ==
  ASSUME FareInv, NEW h \in Workers, Fares!SaveFare(h)
  PROVE  FareInv'
<1> DEFINE c == [version |-> fares[h].version, points |-> fares[h].points]
<1>1. /\ UNCHANGED <<clock, ride, published, slices, configs, creating>>
      /\ fares[h].phase = "saving"
      /\ \/ /\ calculations = {} /\ calculations' = {c} /\ announced' = announced + 1
            /\ fares' = [fares EXCEPT ![h] = Fares!Idle] /\ UNCHANGED <<ended, delayed>>
         \/ /\ calculations # {} /\ UNCHANGED <<calculations, announced>>
            /\ Fares!Rejected(h)
  BY DEF Fares!SaveFare, Fares!Step, Fares!trail, Fares!queue, Fares!pricing
<1>2. fares[h] # Fares!Idle
  BY <1>1 DEF Fares!Idle
<1>3. /\ Underway /\ ended \in [0..(MaxAttempts - 1) -> Nat]
      /\ delayed \in [1..(MaxAttempts - 1) -> Nat]
  BY <1>2, BusyHandler
<1>4. CASE calculations = {}
  <2>1. /\ fares[h].version \in Fares!ActiveAt(ride.started)
        /\ \E s \in slices : fares[h].points = s.points
    BY <1>1 DEF FareInv, MeasuredRight
  <2>2. c.version = fares[h].version /\ c.points = fares[h].points
    OBVIOUS
  <2>3. announced = 0
    BY <1>4 DEF FareInv, Fares!FaredOnce
  <2>4. calculations' = {c} /\ announced' = 1
    BY <1>1, <1>4, <2>3
  <2>5. Fares!FaredOnce'
    BY <1>1, <2>1, <2>2, <2>4 DEF Fares!FaredOnce, Fares!ActiveAt
  <2>6. QED
    BY <1>1, <1>3, <1>4, <2>4, <2>5, HandlerMoves
<1>5. CASE calculations # {}
  <2>1. Fares!FaredOnce'
    BY <1>1, <1>5, FaredKept
  <2>2. /\ fares' = [fares EXCEPT ![h] = Fares!Idle] /\ ended' = ended
        /\ delayed' \in [1..(MaxAttempts - 1) -> Nat]
    BY <1>1, <1>2, <1>5, RejectedLeaves
  <2>3. QED
    BY <1>1, <1>3, <1>5, <2>1, <2>2, HandlerMoves
<1>6. QED
  BY <1>4, <1>5

LEMMA FailedStep ==
  ASSUME FareInv, NEW h \in Workers, Fares!TrailMissing(h) \/ Fares!FareFails(h)
  PROVE  FareInv'
<1>1. /\ UNCHANGED <<clock, ride, published, slices, configs, creating, calculations, announced>>
      /\ fares[h] # Fares!Idle /\ Fares!Rejected(h)
  BY DEF Fares!TrailMissing, Fares!FareFails, Fares!trail, Fares!pricing, Fares!Idle
<1>2. Fares!FaredOnce'
  BY <1>1, FaredKept
<1>3. QED
  BY <1>1, <1>2, BusyHandler, RejectedLeaves, HandlerMoves

\* A delay is over: the event is published again, or lost.
LEMMA RetrySteps ==
  ASSUME FareInv, NEW n \in DOMAIN delayed, Fares!Retry(n) \/ Fares!RetryLost(n)
  PROVE  FareInv'
<1>1. /\ UNCHANGED <<clock, ride, published, slices, fares, calculations, configs, creating,
                     announced, dead>>
      /\ delayed[n] > 0 /\ delayed' = [delayed EXCEPT ![n] = delayed[n] - 1]
      /\ \/ ended' = [ended EXCEPT ![n] = ended[n] + 1] /\ lost' = lost
         \/ ended' = ended /\ lost' = TRUE
  BY DEF Fares!Retry, Fares!RetryLost, Fares!trail, Fares!pricing
<1>2. /\ ended \in [0..(MaxAttempts - 1) -> Nat] /\ delayed \in [1..(MaxAttempts - 1) -> Nat]
      /\ n \in 1..(MaxAttempts - 1) /\ n \in 0..(MaxAttempts - 1)
      /\ Underway
  BY <1>1 DEF FareInv, FaresTyped, EndedAfterStart
<1>3. /\ ended' \in [0..(MaxAttempts - 1) -> Nat] /\ delayed' \in [1..(MaxAttempts - 1) -> Nat]
      /\ lost' = TRUE \/ ended'[n] > 0
  <2>1. CASE ended' = [ended EXCEPT ![n] = ended[n] + 1]
    BY <1>1, <1>2, <2>1
  <2>2. CASE ended' = ended /\ lost' = TRUE
    BY <1>1, <1>2, <2>2
  <2>3. QED
    BY <1>1, <2>1, <2>2
<1>4. FaresTyped'
  BY <1>1, <1>3 DEF FareInv, FaresTyped, Fares!Idle
<1>5. EndedAfterStart'
  BY <1>1, <1>2 DEF FareInv, EndedAfterStart, Underway, Fares!Idle, Fares!Never
<1>6. CreatedNow' /\ MeasuredRight'
  BY <1>1 DEF FareInv, CreatedNow, MeasuredRight, Fares!ActiveAt, Fares!Idle
<1>7. Fares!FaredOnce'
  BY <1>1, FaredKept
<1>8. Fares!NotForgotten'
  BY <1>2, <1>3 DEF Fares!NotForgotten, Fares!Waiting
<1>9. QED
  BY <1>4, <1>5, <1>6, <1>7, <1>8 DEF FareInv

\* What a handler had not acked is in the queue again.
LEMMA Redelivered ==
  ASSUME FareInv, NEW n \in 0..(MaxAttempts - 1), NEW H,
         H = {h \in Workers : fares[h] # Fares!Idle /\ fares[h].attempts = n}
  PROVE  Fares!Cardinality(H) \in Nat /\ (H # {} => Fares!Cardinality(H) > 0)
<1>1. IsFiniteSet(H)
  BY FS_Subset, BillingAssumption
<1>2. Fares!Cardinality(H) = Cardinality(H)
  BY DEF Fares!Cardinality, Cardinality
<1>3. QED
  BY <1>1, <1>2, FS_CardinalityType, FS_EmptySet

LEMMA RestartFareStep ==
  ASSUME FareInv, Fares!RestartFare
  PROVE  FareInv'
<1> DEFINE Busy(n) == {h \in Workers : fares[h] # Fares!Idle /\ fares[h].attempts = n}
<1>1. /\ UNCHANGED <<clock, ride, published, slices, calculations, configs, creating,
                     announced, dead>>
      /\ ended' = [n \in DOMAIN ended |-> ended[n] + Fares!Cardinality(Busy(n))]
      /\ fares' = [h \in Workers |-> Fares!Idle]
      /\ delayed' = [n \in DOMAIN delayed |-> 0]
      /\ lost' = (lost \/ \E n \in DOMAIN delayed : delayed[n] > 0)
  BY DEF Fares!RestartFare, Fares!trail, Fares!pricing
<1>2. /\ ended \in [0..(MaxAttempts - 1) -> Nat] /\ delayed \in [1..(MaxAttempts - 1) -> Nat]
      /\ \A h \in Workers : fares[h] # Fares!Idle => fares[h].attempts \in 0..(MaxAttempts - 1)
  BY DEF FareInv, FaresTyped
<1>3. \A n \in 0..(MaxAttempts - 1) :
        /\ Fares!Cardinality(Busy(n)) \in Nat
        /\ Busy(n) # {} => Fares!Cardinality(Busy(n)) > 0
  BY Redelivered
<1> HIDE DEF Busy
<1>4. /\ ended' \in [0..(MaxAttempts - 1) -> Nat] /\ delayed' \in [1..(MaxAttempts - 1) -> Nat]
      /\ \A n \in 0..(MaxAttempts - 1) : ended'[n] = ended[n] + Fares!Cardinality(Busy(n))
      /\ \A n \in 1..(MaxAttempts - 1) : delayed'[n] = 0
      /\ \A h \in Workers : fares'[h] = Fares!Idle
  BY <1>1, <1>2, <1>3
<1>5. FaresTyped'
  BY <1>1, <1>4 DEF FareInv, FaresTyped, Fares!Idle
<1>6. EndedAfterStart'
  <2>1. ASSUME NEW n \in 0..(MaxAttempts - 1), ended'[n] > 0
        PROVE  Underway
    <3>1. ended[n] \in Nat /\ Fares!Cardinality(Busy(n)) \in Nat
      BY <1>2, <1>3
    <3>2. ended[n] > 0 \/ Fares!Cardinality(Busy(n)) > 0
      BY <1>4, <2>1, <3>1
    <3>3. CASE ended[n] > 0
      BY <1>2, <3>3 DEF FareInv, EndedAfterStart
    <3>4. ASSUME ~Underway PROVE Fares!Cardinality(Busy(n)) = 0
      <4>1. Busy(n) = {}
        BY <3>4 DEF Busy, FareInv, EndedAfterStart
      <4>2. IsFiniteSet({}) /\ Cardinality({}) = 0
        BY FS_EmptySet
      <4>3. QED
        BY <4>1, <4>2 DEF Fares!Cardinality, Cardinality
    <3>5. QED
      BY <3>2, <3>3, <3>4
  <2>2. DOMAIN ended' = 0..(MaxAttempts - 1) /\ DOMAIN delayed' = 1..(MaxAttempts - 1)
    BY <1>4
  <2>3. QED
    BY <1>1, <1>4, <2>1, <2>2 DEF FareInv, EndedAfterStart, Underway, Fares!Idle, Fares!Never
<1>7. CreatedNow' /\ MeasuredRight'
  BY <1>1, <1>4 DEF FareInv, CreatedNow, MeasuredRight, Fares!Idle
<1>8. Fares!FaredOnce'
  BY <1>1, FaredKept
<1>9. Fares!NotForgotten'
  <2>1. ASSUME NEW h \in Workers, fares[h] # Fares!Idle
        PROVE  Fares!Waiting'
    <3>1. PICK n \in 0..(MaxAttempts - 1) : fares[h].attempts = n
      BY <1>2, <2>1
    <3>2. h \in Busy(n)
      BY <2>1, <3>1 DEF Busy
    <3>3. Fares!Cardinality(Busy(n)) \in Nat /\ Fares!Cardinality(Busy(n)) > 0 /\ ended[n] \in Nat
      BY <1>2, <1>3, <3>2
    <3>4. ended'[n] > 0 /\ n \in DOMAIN ended'
      BY <1>4, <3>3
    <3>5. QED
      BY <3>4 DEF Fares!Waiting
  <2>2. ASSUME NEW n \in DOMAIN ended, ended[n] > 0
        PROVE  Fares!Waiting'
    <3>1. ended[n] \in Nat /\ Fares!Cardinality(Busy(n)) \in Nat /\ n \in 0..(MaxAttempts - 1)
      BY <1>2, <1>3
    <3>2. ended'[n] > 0 /\ n \in DOMAIN ended'
      BY <1>4, <2>2, <3>1
    <3>3. QED
      BY <3>2 DEF Fares!Waiting
  <2>3. QED
    BY <1>1, <2>1, <2>2 DEF FareInv, Fares!NotForgotten, Fares!Waiting
<1>10. QED
  BY <1>5, <1>6, <1>7, <1>8, <1>9 DEF FareInv

LEMMA FareStep ==
  ASSUME FareInv, Fares!Next
  PROVE  FareInv'
<1>1. CASE Fares!Trip
  BY <1>1, QuietSteps, PublishTripStep DEF Fares!Trip
<1>2. CASE \E h \in Workers : Fares!SaveSlice(h)
  BY <1>2, SaveSliceStep
<1>3. CASE \E h \in Workers :
             \/ \E n \in DOMAIN ended : Fares!BeginFare(h, n)
             \/ \E version \in DOMAIN configs : Fares!Price(h, version)
             \/ Fares!Measure(h) \/ Fares!SaveFare(h) \/ Fares!TrailMissing(h)
             \/ Fares!FareFails(h)
  BY <1>3, BeginFareStep, PriceStep, MeasureStep, SaveFareStep, FailedStep
<1>4. CASE \E a \in Admins : Fares!ReadLatest(a) \/ Fares!InsertConfig(a)
  BY <1>4, ConfigSteps
<1>5. CASE \/ \E n \in DOMAIN delayed : Fares!Retry(n) \/ Fares!RetryLost(n)
           \/ Fares!RestartFare
  BY <1>5, RetrySteps, RestartFareStep
<1>6. QED
  BY <1>1, <1>2, <1>3, <1>4, <1>5, QuietSteps DEF Fares!Next

LEMMA FareInvariant == Spec => []FareInv
<1>1. Init => FareInv
  BY FareInit DEF Init
<1>2. ASSUME FareInv, [Next]_vars
      PROVE  FareInv'
  <2>1. Fares!Next \/ UNCHANGED billing
    BY <1>2 DEF Next, vars
  <2>2. QED
    BY <1>2, <2>1, FareStep, QuietSteps
<1>3. QED
  BY <1>1, <1>2, PTL DEF Spec

\* However often ride.ended is delivered, and whatever restarts, failures and new
\* configurations come between, a ride gets one calculation and one
\* fare.calculated, over the points of its one trail, with a configuration that
\* was in effect when it started (fare-calculation.service.ts calculateForRide,
\* uq_fare_calc_ride; trail.service.ts, uq_trail_ride).
THEOREM FaredOnceAlways == Spec => []FaredOnce
<1>1. FareInv => FaredOnce
  BY DEF FareInv, FaredOnce
<1>2. QED
  BY <1>1, FareInvariant, PTL

\* A ride whose end was published is priced, or its event is in the queue, at work,
\* waiting in memory for its retry or dead-lettered, or a copy that waited in memory
\* was lost to a restart or a connection (fare-calculation.service.ts,
\* event-bus.service.ts:125-147).
THEOREM NoRideForgotten == Spec => []NotForgotten
<1>1. FareInv => NotForgotten
  BY DEF FareInv, NotForgotten
<1>2. QED
  BY <1>1, FareInvariant, PTL

-----------------------------------------------------------------------------
(***************************************************************************)
(* Documents                                                               *)
(***************************************************************************)
Complete(row) == row.finalized = TRUE /\ row.scanStatus = "clean"

UploadCall == [phase : {"saving", "publishing"}, id : Nat, entity : Uploads!Media]

\* A call holds the complete row it will save, or has saved.
UploadInv ==
  /\ media \in Seq(Uploads!Media) /\ uploaded \subseteq DOMAIN media
  /\ finalizing \in [Workers -> {Uploads!Idle} \cup UploadCall]
  /\ \A w \in Workers : finalizing[w] # Uploads!Idle =>
       /\ finalizing[w].id \in DOMAIN media
       /\ Complete(finalizing[w].entity)
       /\ finalizing[w].phase = "publishing" => Complete(media[finalizing[w].id])
  /\ Uploads!AnnouncedAsStored

-----------------------------------------------------------------------------
(***************************************************************************)
(* Notifications                                                           *)
(***************************************************************************)
Unannounced(id) == \A e \in sentEvents : e[1] # id

\* Each record belongs to the call that logged it, which alone sends it, settles
\* it and announces it, in this order.
NoticeInv ==
  /\ records \in Seq(Notices!NotificationRecord) /\ Len(records) <= MaxRecords
  /\ DOMAIN outcomes = 1..MaxRecords
  /\ notifying \in [Workers -> {Notices!Idle} \cup Notices!Call]
  /\ \A w \in Workers : notifying[w] # Notices!Idle =>
       LET id == notifying[w].id IN
       /\ id \in DOMAIN records /\ Unannounced(id)
       /\ \A o \in Workers : notifying[o] # Notices!Idle /\ notifying[o].id = id => w = o
       /\ notifying[w].phase = "sending" => outcomes[id] = "none"
       /\ notifying[w].phase # "sending" => outcomes[id] \in Notices!SendResult
       /\ records[id].status = IF notifying[w].phase = "publishing" THEN outcomes[id] ELSE "queued"
  /\ \A e \in sentEvents : e[1] \in DOMAIN records
  /\ Notices!DeliveryLogged

-----------------------------------------------------------------------------
(***************************************************************************)
(* The proofs                                                              *)
(***************************************************************************)
LEMMA CompletedRow ==
  ASSUME NEW row \in Uploads!Media, NEW sum \in Sums
  PROVE  LET done == [row EXCEPT !.sum = sum, !.finalized = TRUE, !.scanStatus = "clean"]
         IN  done \in Uploads!Media /\ Complete(done)
BY DEF Uploads!Media, Complete

LEMMA UploadInit == Uploads!Init => UploadInv
BY DEF Uploads!Init, UploadInv, Uploads!AnnouncedAsStored

LEMMA UploadStep ==
  ASSUME UploadInv, Uploads!Next
  PROVE  UploadInv'
<1> USE DEF Uploads!Idle
<1>0. /\ media \in Seq(Uploads!Media) /\ uploaded \subseteq DOMAIN media
      /\ finalizing \in [Workers -> {Uploads!Idle} \cup UploadCall]
  BY DEF UploadInv
<1>1. ASSUME NEW kind \in Kinds, NEW mime \in Uploads!Image \cup Uploads!Pdf,
             Uploads!RequestUploadUrl(kind, mime)
      PROVE  UploadInv'
  <2>0. PICK row : row = [kind |-> kind, mime |-> mime, sum |-> "", finalized |-> FALSE,
                          scanStatus |-> "pending"]
    OBVIOUS
  <2>1. media' = Append(media, row) /\ UNCHANGED <<finalizing, uploaded, mediaStopped>>
    BY <1>1, <2>0 DEF Uploads!RequestUploadUrl
  <2>2. row \in Uploads!Media /\ row.finalized = FALSE
    BY <2>0 DEF Uploads!Media
  <2>3. /\ media' \in Seq(Uploads!Media) /\ DOMAIN media' = DOMAIN media \cup {Len(media) + 1}
        /\ Len(media) + 1 \notin DOMAIN media
        /\ \A id \in DOMAIN media : media'[id] = media[id]
        /\ media'[Len(media) + 1] = row
    BY <1>0, <2>1, <2>2
  <2>4. Uploads!AnnouncedAsStored'
    BY <1>0, <2>1, <2>2, <2>3 DEF UploadInv, Uploads!AnnouncedAsStored
  <2>5. QED
    BY <1>0, <2>1, <2>3, <2>4 DEF UploadInv, Complete
<1>2. ASSUME NEW w \in Workers, Uploads!SaveMedia(w)
      PROVE  UploadInv'
  <2>1. PICK id, entity : id = finalizing[w].id /\ entity = finalizing[w].entity
    OBVIOUS
  <2>2. /\ finalizing[w].phase = "saving" /\ UNCHANGED <<uploaded, mediaStopped>>
        /\ media' = [media EXCEPT ![id] = entity]
        /\ finalizing' = [finalizing EXCEPT ![w].phase = "publishing"]
    BY <1>2, <2>1 DEF Uploads!SaveMedia
  <2>3. /\ finalizing[w] \in UploadCall /\ id \in DOMAIN media
        /\ entity \in Uploads!Media /\ Complete(entity)
    BY <1>0, <2>1, <2>2 DEF UploadInv, UploadCall
  <2>4. PICK call : call = [finalizing[w] EXCEPT !.phase = "publishing"]
    OBVIOUS
  <2>5. call \in UploadCall /\ call.id = id /\ call.entity = entity /\ call # Uploads!Idle
    BY <2>1, <2>3, <2>4 DEF UploadCall
  <2>6. /\ finalizing' \in [Workers -> {Uploads!Idle} \cup UploadCall]
        /\ finalizing'[w] = call /\ \A o \in Workers \ {w} : finalizing'[o] = finalizing[o]
    BY <1>0, <2>2, <2>4, <2>5
  <2>7. /\ media' \in Seq(Uploads!Media) /\ DOMAIN media' = DOMAIN media /\ media'[id] = entity
        /\ \A i \in DOMAIN media \ {id} : media'[i] = media[i]
    BY <1>0, <2>2, <2>3
  <2>8. Uploads!AnnouncedAsStored'
    <3>1. ASSUME NEW i \in DOMAIN media
          PROVE  /\ i \in uploaded => Complete(media'[i])
                 /\ media'[i].finalized /\ i \notin mediaStopped =>
                      i \in uploaded \/ \E o \in Workers :
                        finalizing'[o] # Uploads!Idle /\ finalizing'[o].id = i
      <4>1. CASE i = id
        BY <2>3, <2>5, <2>6, <2>7, <4>1
      <4>2. CASE i # id
        BY <2>1, <2>5, <2>6, <2>7, <4>2 DEF UploadInv, Uploads!AnnouncedAsStored, Complete
      <4>3. QED
        BY <4>1, <4>2
    <3>2. QED
      BY <2>2, <2>7, <3>1 DEF Uploads!AnnouncedAsStored, Complete
  <2>9. ASSUME NEW o \in Workers, finalizing'[o] # Uploads!Idle
        PROVE  /\ finalizing'[o].id \in DOMAIN media'
               /\ Complete(finalizing'[o].entity)
               /\ finalizing'[o].phase = "publishing" => Complete(media'[finalizing'[o].id])
    BY <2>1, <2>3, <2>5, <2>6, <2>7, <2>9 DEF UploadInv
  <2>10. QED
    BY <1>0, <2>2, <2>6, <2>7, <2>8, <2>9 DEF UploadInv, Complete
<1>3. ASSUME NEW w \in Workers, Uploads!PublishUploaded(w)
      PROVE  UploadInv'
  <2>1. PICK id : id = finalizing[w].id
    OBVIOUS
  <2>2. /\ finalizing[w].phase = "publishing" /\ UNCHANGED <<media, mediaStopped>>
        /\ uploaded' = uploaded \cup {id}
        /\ finalizing' = [finalizing EXCEPT ![w] = Uploads!Idle]
    BY <1>3, <2>1 DEF Uploads!PublishUploaded
  <2>3. id \in DOMAIN media /\ Complete(media[id])
    BY <2>1, <2>2 DEF UploadInv
  <2>4. Uploads!AnnouncedAsStored'
    BY <1>0, <2>1, <2>2, <2>3 DEF UploadInv, Uploads!AnnouncedAsStored, Complete
  <2>5. QED
    BY <1>0, <2>2, <2>3, <2>4 DEF UploadInv, Complete
<1>4. ASSUME NEW w \in Workers, Uploads!Stop(w)
      PROVE  UploadInv'
  <2>1. /\ UNCHANGED <<media, uploaded>>
        /\ mediaStopped' = mediaStopped \cup {finalizing[w].id}
        /\ finalizing' = [finalizing EXCEPT ![w] = Uploads!Idle]
    BY <1>4 DEF Uploads!Stop
  <2>2. Uploads!AnnouncedAsStored'
    BY <1>0, <2>1 DEF UploadInv, Uploads!AnnouncedAsStored
  <2>3. QED
    BY <1>0, <2>1, <2>2 DEF UploadInv, Complete
<1>5. ASSUME NEW w \in Workers, NEW id \in DOMAIN media, NEW sum \in Sums,
             Uploads!Finalize(w, id, sum)
      PROVE  UploadInv'
  <2>1. PICK entity : entity =
          [media[id] EXCEPT !.sum = sum, !.finalized = TRUE, !.scanStatus = "clean"]
    OBVIOUS
  <2>2. entity \in Uploads!Media /\ Complete(entity)
    <3>1. media[id] \in Uploads!Media
      BY <1>0
    <3>2. QED
      BY <2>1, <3>1, CompletedRow
  <2>3. /\ finalizing[w] = Uploads!Idle /\ UNCHANGED <<media, uploaded, mediaStopped>>
        /\ finalizing' = [finalizing EXCEPT ![w] =
             [phase |-> "saving", id |-> id, entity |-> entity]]
    BY <1>5, <2>1 DEF Uploads!Finalize
  <2>4. [phase |-> "saving", id |-> id, entity |-> entity] \in UploadCall
    BY <1>0, <2>2 DEF UploadCall
  <2>5. Uploads!AnnouncedAsStored'
    BY <1>0, <2>3 DEF UploadInv, Uploads!AnnouncedAsStored
  <2>6. QED
    BY <1>0, <2>2, <2>3, <2>4, <2>5 DEF UploadInv, Complete
<1>6. QED
  BY <1>1, <1>2, <1>3, <1>4, <1>5 DEF Uploads!Next


LEMMA NoticeInit == Notices!Init => NoticeInv
BY DEF Notices!Init, NoticeInv, Notices!DeliveryLogged

\* The call of one worker moves on with its record; the others' records are not touched.
LEMMA NoticeMoves ==
  ASSUME NoticeInv, NEW w \in Workers, NEW phase, notifying[w] # Notices!Idle,
         notifying' = [notifying EXCEPT ![w].phase = phase],
         phase \in {"sending", "settling", "publishing"},
         sentEvents' = sentEvents, noticesStopped' = noticesStopped,
         records' \in Seq(Notices!NotificationRecord), Len(records') = Len(records),
         DOMAIN outcomes' = DOMAIN outcomes,
         \A id \in 1..MaxRecords : id # notifying[w].id =>
           outcomes'[id] = outcomes[id] /\ (id \in DOMAIN records => records'[id] = records[id]),
         LET id == notifying[w].id IN
           /\ phase = "sending" => outcomes'[id] = "none"
           /\ phase # "sending" => outcomes'[id] \in Notices!SendResult
           /\ records'[id].status = IF phase = "publishing" THEN outcomes'[id] ELSE "queued"
  PROVE  NoticeInv'
<1>1. PICK id : id = notifying[w].id
  OBVIOUS
<1>2. PICK call : call = [notifying[w] EXCEPT !.phase = phase]
  OBVIOUS
<1>3. /\ records \in Seq(Notices!NotificationRecord) /\ Len(records) <= MaxRecords
      /\ DOMAIN outcomes = 1..MaxRecords
      /\ notifying \in [Workers -> {Notices!Idle} \cup Notices!Call]
      /\ \A e \in sentEvents : e[1] \in DOMAIN records
  BY DEF NoticeInv
<1>4. notifying[w] \in Notices!Call /\ id \in DOMAIN records /\ Unannounced(id)
  BY <1>1, <1>3 DEF NoticeInv
<1>5. /\ call \in Notices!Call /\ call.id = id /\ call.phase = phase /\ call # Notices!Idle
  BY <1>1, <1>2, <1>4 DEF Notices!Call, Notices!Idle
<1>6. /\ notifying' \in [Workers -> {Notices!Idle} \cup Notices!Call]
      /\ notifying'[w] = call /\ \A o \in Workers \ {w} : notifying'[o] = notifying[o]
  BY <1>2, <1>3, <1>5
<1>7. DOMAIN records' = DOMAIN records /\ DOMAIN records \subseteq 1..MaxRecords
  BY <1>3
<1>8. ASSUME NEW v \in Workers, notifying'[v] # Notices!Idle, NEW i, i = notifying'[v].id
      PROVE  /\ i \in DOMAIN records' /\ Unannounced(i)'
             /\ \A o \in Workers : notifying'[o] # Notices!Idle /\ notifying'[o].id = i => v = o
             /\ notifying'[v].phase = "sending" => outcomes'[i] = "none"
             /\ notifying'[v].phase # "sending" => outcomes'[i] \in Notices!SendResult
             /\ records'[i].status = IF notifying'[v].phase = "publishing" THEN outcomes'[i]
                                     ELSE "queued"
  <2>1. CASE v = w
    <3>1. i = id
      BY <1>5, <1>6, <1>8, <2>1
    <3>2. \A o \in Workers : notifying[o] # Notices!Idle /\ notifying[o].id = id => w = o
      BY <1>1 DEF NoticeInv
    <3>3. \A o \in Workers : notifying'[o] # Notices!Idle /\ notifying'[o].id = i => v = o
      BY <1>6, <2>1, <3>1, <3>2
    <3>4. QED
      BY <1>1, <1>4, <1>5, <1>6, <1>7, <2>1, <3>1, <3>3 DEF Unannounced
  <2>2. CASE v # w
    <3>1. notifying'[v] = notifying[v] /\ notifying[v] # Notices!Idle /\ notifying[v].id = i
      BY <1>6, <1>8, <2>2
    <3>2. /\ i \in DOMAIN records /\ Unannounced(i)
          /\ \A o \in Workers : notifying[o] # Notices!Idle /\ notifying[o].id = i => v = o
          /\ notifying[v].phase = "sending" => outcomes[i] = "none"
          /\ notifying[v].phase # "sending" => outcomes[i] \in Notices!SendResult
          /\ records[i].status = IF notifying[v].phase = "publishing" THEN outcomes[i] ELSE "queued"
      BY <3>1 DEF NoticeInv
    <3>3. i # id
      BY <1>1, <2>2, <3>2
    <3>4. outcomes'[i] = outcomes[i] /\ records'[i] = records[i] /\ i \in DOMAIN records'
      BY <1>1, <1>7, <3>2, <3>3
    <3>5. \A o \in Workers : notifying'[o] # Notices!Idle /\ notifying'[o].id = i => v = o
      BY <1>5, <1>6, <3>2, <3>3
    <3>6. Unannounced(i)'
      BY <3>2 DEF Unannounced
    <3>7. QED
      BY <3>1, <3>2, <3>4, <3>5, <3>6
  <2>3. QED
    BY <2>1, <2>2
<1>9. Notices!DeliveryLogged'
  <2>1. ASSUME NEW i \in 1..MaxRecords
        PROVE  /\ outcomes'[i] # "none" => i \in DOMAIN records'
               /\ i \in DOMAIN records' =>
                    /\ records'[i].status \in {"queued", outcomes'[i]}
                    /\ \A e \in sentEvents' : e[1] = i => e[2] = records'[i].status
                    /\ \/ \E e \in sentEvents' : e[1] = i
                       \/ \E o \in Workers : notifying'[o] # Notices!Idle /\ notifying'[o].id = i
                       \/ i \in noticesStopped'
    <3>1. CASE i = id
      BY <1>1, <1>4, <1>5, <1>6, <1>7, <3>1 DEF Unannounced
    <3>2. CASE i # id
      <4>1. outcomes'[i] = outcomes[i] /\ (i \in DOMAIN records => records'[i] = records[i])
        BY <1>1, <3>2
      <4>2. \A o \in Workers : notifying[o] # Notices!Idle /\ notifying[o].id = i =>
              notifying'[o] = notifying[o]
        BY <1>1, <1>6, <3>2
      <4>3. QED
        BY <1>7, <4>1, <4>2 DEF NoticeInv, Notices!DeliveryLogged
    <3>3. QED
      BY <3>1, <3>2
  <2>2. QED
    BY <2>1 DEF Notices!DeliveryLogged
<1>10. Len(records') <= MaxRecords /\ \A e \in sentEvents' : e[1] \in DOMAIN records'
  BY <1>3, <1>7
<1>11. QED
  BY <1>3, <1>6, <1>8, <1>9, <1>10 DEF NoticeInv


LEMMA QueueStep ==
  ASSUME NoticeInv, NEW w \in Workers, NEW key, NEW channel, NEW lang,
         Notices!Queue(w, key, channel, lang)
  PROVE  NoticeInv'
<1>1. PICK t \in Notices!ResolveTemplate(key, channel, lang) :
        records' = Append(records, [channel |-> t[2], key |-> key, status |-> "queued"])
  BY DEF Notices!Queue
<1>2. PICK row : row = [channel |-> t[2], key |-> key, status |-> "queued"]
  OBVIOUS
<1>3. PICK id : id = Len(records) + 1
  OBVIOUS
<1>4. row \in Notices!NotificationRecord /\ row.status = "queued"
  <2>1. t \in Notices!Templates /\ t[1] = key
    BY DEF Notices!ResolveTemplate
  <2>2. key \in Notices!Keys
    BY <2>1 DEF Notices!Keys
  <2>3. t[2] \in Notices!Channel
    BY <2>1 DEF Notices!Templates, Notices!Channel
  <2>4. QED
    BY <1>2, <2>2, <2>3 DEF Notices!NotificationRecord, Notices!NotificationStatus
<1>5. /\ records \in Seq(Notices!NotificationRecord) /\ Len(records) < MaxRecords
      /\ DOMAIN outcomes = 1..MaxRecords /\ notifying[w] = Notices!Idle
      /\ notifying \in [Workers -> {Notices!Idle} \cup Notices!Call]
      /\ \A e \in sentEvents : e[1] \in DOMAIN records
      /\ UNCHANGED <<outcomes, sentEvents, noticesStopped>>
  BY DEF NoticeInv, Notices!Queue
<1>6. /\ records' \in Seq(Notices!NotificationRecord) /\ Len(records') = id
      /\ DOMAIN records' = DOMAIN records \cup {id} /\ id \notin DOMAIN records
      /\ id \in 1..MaxRecords /\ records'[id] = row
      /\ \A i \in DOMAIN records : records'[i] = records[i]
  BY <1>1, <1>2, <1>3, <1>4, <1>5
<1>7. PICK call : call = [phase |-> "sending", id |-> id]
  OBVIOUS
<1>8. call \in Notices!Call /\ call # Notices!Idle /\ call.id = id /\ call.phase = "sending"
  BY <1>6, <1>7 DEF Notices!Call, Notices!Idle
<1>9. /\ notifying' \in [Workers -> {Notices!Idle} \cup Notices!Call]
      /\ notifying'[w] = call /\ \A o \in Workers \ {w} : notifying'[o] = notifying[o]
  <2>1. notifying' = [notifying EXCEPT ![w] = call]
    BY <1>6, <1>7 DEF Notices!Queue
  <2>2. QED
    BY <1>5, <1>8, <2>1
<1>10. outcomes[id] = "none" /\ Unannounced(id)
  BY <1>5, <1>6 DEF NoticeInv, Notices!DeliveryLogged, Unannounced
<1>11. ASSUME NEW v \in Workers, notifying'[v] # Notices!Idle, NEW i, i = notifying'[v].id
       PROVE  /\ i \in DOMAIN records' /\ Unannounced(i)'
              /\ \A o \in Workers : notifying'[o] # Notices!Idle /\ notifying'[o].id = i => v = o
              /\ notifying'[v].phase = "sending" => outcomes'[i] = "none"
              /\ notifying'[v].phase # "sending" => outcomes'[i] \in Notices!SendResult
              /\ records'[i].status = IF notifying'[v].phase = "publishing" THEN outcomes'[i]
                                      ELSE "queued"
  <2>1. CASE v = w
    <3>1. i = id
      BY <1>8, <1>9, <1>11, <2>1
    <3>2. \A o \in Workers : notifying[o] # Notices!Idle => notifying[o].id # id
      BY <1>6 DEF NoticeInv
    <3>3. QED
      BY <1>4, <1>5, <1>6, <1>8, <1>9, <1>10, <2>1, <3>1, <3>2 DEF Unannounced
  <2>2. CASE v # w
    <3>1. notifying'[v] = notifying[v] /\ notifying[v] # Notices!Idle /\ notifying[v].id = i
      BY <1>9, <1>11, <2>2
    <3>2. /\ i \in DOMAIN records /\ Unannounced(i)
          /\ \A o \in Workers : notifying[o] # Notices!Idle /\ notifying[o].id = i => v = o
          /\ notifying[v].phase = "sending" => outcomes[i] = "none"
          /\ notifying[v].phase # "sending" => outcomes[i] \in Notices!SendResult
          /\ records[i].status = IF notifying[v].phase = "publishing" THEN outcomes[i] ELSE "queued"
      BY <3>1 DEF NoticeInv
    <3>3. QED
      BY <1>5, <1>6, <1>8, <1>9, <3>1, <3>2 DEF Unannounced
  <2>3. QED
    BY <2>1, <2>2
<1>12. Notices!DeliveryLogged'
  <2>1. ASSUME NEW i \in 1..MaxRecords
        PROVE  /\ outcomes[i] # "none" => i \in DOMAIN records'
               /\ i \in DOMAIN records' =>
                    /\ records'[i].status \in {"queued", outcomes[i]}
                    /\ \A e \in sentEvents : e[1] = i => e[2] = records'[i].status
                    /\ \/ \E e \in sentEvents : e[1] = i
                       \/ \E o \in Workers : notifying'[o] # Notices!Idle /\ notifying'[o].id = i
                       \/ i \in noticesStopped
    <3>1. CASE i = id
      BY <1>4, <1>6, <1>8, <1>9, <1>10, <3>1 DEF Unannounced
    <3>2. CASE i # id
      <4>1. \A o \in Workers : notifying[o] # Notices!Idle => notifying'[o] = notifying[o]
        BY <1>5, <1>9
      <4>2. i \in DOMAIN records' => i \in DOMAIN records /\ records'[i] = records[i]
        BY <1>6, <3>2
      <4>3. DOMAIN records \subseteq DOMAIN records'
        BY <1>6
      <4>4. QED
        BY <4>1, <4>2, <4>3 DEF NoticeInv, Notices!DeliveryLogged
    <3>3. QED
      BY <3>1, <3>2
  <2>2. QED
    BY <1>5, <2>1 DEF Notices!DeliveryLogged
<1>13. Len(records') <= MaxRecords
  BY <1>6
<1>14. QED
  BY <1>5, <1>6, <1>9, <1>11, <1>12, <1>13 DEF NoticeInv

\* A call ends: it announced its record, or it stopped.
LEMMA NoticeEnds ==
  ASSUME NoticeInv, NEW w \in Workers, notifying[w] # Notices!Idle,
         Notices!PublishOutcome(w) \/ Notices!Stop(w)
  PROVE  NoticeInv'
<1>1. PICK id : id = notifying[w].id
  OBVIOUS
<1>2. /\ UNCHANGED <<records, outcomes>>
      /\ notifying' = [notifying EXCEPT ![w] = Notices!Idle]
      /\ \/ /\ notifying[w].phase = "publishing" /\ noticesStopped' = noticesStopped
            /\ sentEvents' = sentEvents \cup {<<id, records[id].status>>}
         \/ sentEvents' = sentEvents /\ noticesStopped' = noticesStopped \cup {id}
  BY <1>1 DEF Notices!PublishOutcome, Notices!Stop
<1>3. /\ notifying \in [Workers -> {Notices!Idle} \cup Notices!Call]
      /\ id \in DOMAIN records /\ Unannounced(id)
      /\ \A o \in Workers : notifying[o] # Notices!Idle /\ notifying[o].id = id => w = o
  BY <1>1 DEF NoticeInv
<1>4. /\ notifying' \in [Workers -> {Notices!Idle} \cup Notices!Call]
      /\ notifying'[w] = Notices!Idle
      /\ \A o \in Workers \ {w} : notifying'[o] = notifying[o]
  BY <1>2, <1>3
<1>5. ASSUME NEW i, i # id
      PROVE  Unannounced(i)' <=> Unannounced(i)
  BY <1>2, <1>5 DEF Unannounced
<1>6. Notices!DeliveryLogged'
  <2>1. notifying[w].phase = "publishing" => records[id].status = outcomes[id]
    BY <1>1 DEF NoticeInv
  <2>2. ASSUME NEW i \in 1..MaxRecords
        PROVE  /\ outcomes[i] # "none" => i \in DOMAIN records
               /\ i \in DOMAIN records =>
                    /\ records[i].status \in {"queued", outcomes[i]}
                    /\ \A e \in sentEvents' : e[1] = i => e[2] = records[i].status
                    /\ \/ \E e \in sentEvents' : e[1] = i
                       \/ \E o \in Workers : notifying'[o] # Notices!Idle /\ notifying'[o].id = i
                       \/ i \in noticesStopped'
    <3>1. CASE i = id
      <4>1. \A e \in sentEvents' : e[1] = i => e[2] = records[i].status
        BY <1>2, <1>3, <3>1 DEF Unannounced
      <4>2. (\E e \in sentEvents' : e[1] = i) \/ i \in noticesStopped'
        <5>1. <<id, records[id].status>>[1] = id
          OBVIOUS
        <5>2. CASE <<id, records[id].status>> \in sentEvents'
          BY <3>1, <5>1, <5>2
        <5>3. CASE id \in noticesStopped'
          BY <3>1, <5>3
        <5>4. QED
          BY <1>2, <5>2, <5>3
      <4>3. QED
        BY <4>1, <4>2 DEF NoticeInv, Notices!DeliveryLogged
    <3>2. CASE i # id
      <4>1. \A o \in Workers : notifying[o] # Notices!Idle /\ notifying[o].id = i =>
              notifying'[o] = notifying[o]
        BY <1>1, <1>4, <3>2
      <4>2. \A e \in sentEvents' : e[1] = i => e \in sentEvents
        BY <1>2, <3>2
      <4>3. sentEvents \subseteq sentEvents' /\ noticesStopped \subseteq noticesStopped'
        BY <1>2
      <4>4. QED
        BY <4>1, <4>2, <4>3 DEF NoticeInv, Notices!DeliveryLogged
    <3>3. QED
      BY <3>1, <3>2
  <2>3. QED
    BY <1>2, <2>2 DEF Notices!DeliveryLogged
<1>7. \A e \in sentEvents' : e[1] \in DOMAIN records'
  BY <1>2, <1>3 DEF NoticeInv
<1>8. ASSUME NEW v \in Workers, notifying'[v] # Notices!Idle
      PROVE  /\ v # w /\ notifying'[v] = notifying[v] /\ notifying[v].id # id
             /\ Unannounced(notifying[v].id)'
  BY <1>3, <1>4, <1>5, <1>8 DEF NoticeInv
<1>9. QED
  BY <1>2, <1>4, <1>6, <1>7, <1>8 DEF NoticeInv, Unannounced

LEMMA NoticeStep ==
  ASSUME NoticeInv, Notices!Next
  PROVE  NoticeInv'
<1>0. /\ records \in Seq(Notices!NotificationRecord) /\ DOMAIN outcomes = 1..MaxRecords
      /\ \A w \in Workers : notifying[w] # Notices!Idle =>
           notifying[w].id \in DOMAIN records /\ notifying[w].id \in 1..MaxRecords
  BY DEF NoticeInv
<1>1. ASSUME NEW w \in Workers, NEW result \in Notices!SendResult, Notices!Send(w, result)
      PROVE  NoticeInv'
  <2>1. /\ notifying[w].phase = "sending" /\ UNCHANGED <<records, sentEvents, noticesStopped>>
        /\ outcomes' = [outcomes EXCEPT ![notifying[w].id] = result]
        /\ notifying' = [notifying EXCEPT ![w].phase = "settling"]
    BY <1>1 DEF Notices!Send
  <2>2. notifying[w] # Notices!Idle
    BY <2>1 DEF Notices!Idle
  <2>3. records[notifying[w].id].status = "queued"
    BY <2>1, <2>2 DEF NoticeInv
  <2>4. outcomes'[notifying[w].id] = result /\ DOMAIN outcomes' = DOMAIN outcomes
        /\ \A id \in 1..MaxRecords : id # notifying[w].id => outcomes'[id] = outcomes[id]
    BY <1>0, <2>1, <2>2
  <2>5. QED
    BY <1>0, <2>1, <2>2, <2>3, <2>4, NoticeMoves
<1>2. ASSUME NEW w \in Workers, Notices!Settle(w)
      PROVE  NoticeInv'
  <2>0. PICK id : id = notifying[w].id
    OBVIOUS
  <2>1. /\ notifying[w].phase = "settling" /\ UNCHANGED <<outcomes, sentEvents, noticesStopped>>
        /\ records' = [records EXCEPT ![id].status = outcomes[id]]
        /\ notifying' = [notifying EXCEPT ![w].phase = "publishing"]
    BY <1>2, <2>0 DEF Notices!Settle
  <2>2. notifying[w] # Notices!Idle
    BY <2>1 DEF Notices!Idle
  <2>3. outcomes[id] \in Notices!SendResult /\ id \in DOMAIN records
    BY <2>0, <2>1, <2>2 DEF NoticeInv
  <2>4. PICK row : row = [records[id] EXCEPT !.status = outcomes[id]]
    OBVIOUS
  <2>5. row \in Notices!NotificationRecord /\ row.status = outcomes[id]
    <3>1. records[id] \in Notices!NotificationRecord
      BY <1>0, <2>3
    <3>2. QED
      BY <2>3, <2>4, <3>1 DEF Notices!NotificationRecord, Notices!NotificationStatus,
         Notices!SendResult
  <2>6. /\ records' \in Seq(Notices!NotificationRecord) /\ Len(records') = Len(records)
        /\ records'[id] = row
        /\ \A i \in DOMAIN records \ {id} : records'[i] = records[i]
    BY <1>0, <2>1, <2>3, <2>4, <2>5
  <2>7. QED
    BY <1>0, <2>0, <2>1, <2>2, <2>3, <2>5, <2>6, NoticeMoves
<1>3. ASSUME NEW w \in Workers, Notices!PublishOutcome(w) \/ Notices!Stop(w)
      PROVE  NoticeInv'
  <2>1. notifying[w] # Notices!Idle
    BY <1>3 DEF Notices!PublishOutcome, Notices!Stop, Notices!Idle
  <2>2. QED
    BY <1>3, <2>1, NoticeEnds
<1>4. ASSUME NEW audience, Notices!CreateBroadcast(audience)
      PROVE  NoticeInv'
  BY <1>4 DEF Notices!CreateBroadcast, NoticeInv, Notices!DeliveryLogged, Unannounced
<1>5. QED
  BY <1>1, <1>2, <1>3, <1>4, QueueStep DEF Notices!Next

LEMMA RecordInvariant == Spec => [](UploadInv /\ NoticeInv)
<1>1. Init => UploadInv /\ NoticeInv
  BY UploadInit, NoticeInit DEF Init
<1>2. ASSUME UploadInv, NoticeInv, [Next]_vars
      PROVE  UploadInv' /\ NoticeInv'
  <2>1. (Uploads!Next \/ UNCHANGED documents) /\ (Notices!Next \/ UNCHANGED notices)
    BY <1>2 DEF Next, vars
  <2>2. UNCHANGED documents => UploadInv'
    BY <1>2 DEF documents, UploadInv, Uploads!AnnouncedAsStored, Complete
  <2>3. UNCHANGED notices => NoticeInv'
    BY <1>2 DEF notices, NoticeInv, Notices!DeliveryLogged, Unannounced
  <2>4. QED
    BY <1>2, <2>1, <2>2, <2>3, UploadStep, NoticeStep
<1>3. QED
  BY <1>1, <1>2, PTL DEF Spec

\* Whatever calls interleave and wherever one stops: a file is announced only when
\* its row is complete, and a complete one is announced, or a call is still at it,
\* or one stopped on it; a message that a provider was given has its row, row and
\* event say what the provider did, and only a call that stopped leaves one
\* unannounced (documents.service.ts finalize, notifications.service.ts notify).
THEOREM AnnouncedAsStoredAlways == Spec => []AnnouncedAsStored
<1>1. UploadInv /\ NoticeInv => AnnouncedAsStored
  BY DEF UploadInv, NoticeInv, AnnouncedAsStored
<1>2. QED
  BY <1>1, RecordInvariant, PTL

-----------------------------------------------------------------------------
(***************************************************************************)
(* Zone violations: the violation the detector has open, and how long the  *)
(* vehicle was outside before it.                                          *)
(***************************************************************************)
OneLocating ==
  \A w, o \in Workers : Detector!Locating(w) /\ Detector!Locating(o) => w = o

\* What is stored about violations, whatever overlaps.
Named ==
  /\ geo.open <= Len(violations)
  /\ \A w \in Workers :
       /\ detecting[w].phase \in {"closing", "saving"} => detecting[w].id \in DOMAIN violations
       /\ detecting[w].phase = "saving" => detecting[w].status # "open"

\* An open violation is the one the state names; one that was announced as
\* closed is not named again.
Followed ==
  \A id \in DOMAIN violations :
    /\ violations[id].status = "open" => geo.open = id
    /\ violations[id].closings = 0 \/ (violations[id].closings = 1 /\ geo.open # id)
    /\ violations[id].dwelt >= Dwell

\* Without an open violation, the state dates the first unexcused position.
SinceStreak == geo.open = 0 /\ Dwell > 0 => streak = geo.since

\* What a handler decided on holds until it stores the next state.
CallHolds(call, state, first) ==
  /\ call.phase = "opening" =>
       /\ state.open = 0
       /\ Dwell > 0 => first \in Detector!Times /\ call.at >= first + Dwell
  /\ call.phase = "closing" \/ (call.phase = "saving" /\ call.detector) =>
       state.open = call.id /\ first = Detector!Never

DecisionHolds == \A w \in Workers : CallHolds(detecting[w], geo, streak)

Watched == OneLocating /\ Followed /\ SinceStreak /\ DecisionHolds

ViolationInv == Detector!TypeOK /\ Named /\ (~detectorDisturbed => Watched)

LEMMA ViolationInit == Detector!Init => ViolationInv
<1> SUFFICES ASSUME Detector!Init
             PROVE  ViolationInv
  OBVIOUS
<1>1. violations = <<>> /\ Len(violations) = 0 /\ DOMAIN violations = {}
  BY DEF Detector!Init
<1>2. /\ \A w \in Workers : detecting[w] = Detector!Idle /\ ~Detector!Locating(w)
      /\ detecting \in [Workers -> Detector!Call \cup {Detector!Idle}]
  BY DEF Detector!Init, Detector!Idle, Detector!Locating
<1>3. geo = [since |-> Detector!Never, open |-> 0] /\ geo \in Detector!GeoState
  BY DetectorAssumption DEF Detector!Init, Detector!InitialGeoState, Detector!GeoState
<1>4. violations \in Seq(Detector!Violation)
  BY <1>1
<1>5. Detector!TypeOK
  <2>1. /\ now \in Detector!Times /\ endedAt = Detector!Never /\ streak = Detector!Never
        /\ passes = {} /\ steps \in 0..MaxSteps /\ detectorFaults \in 0..MaxFaults
    BY DetectorAssumption, ProfileAssumption DEF Detector!Init, Detector!Times
  <2>2. monitored \in BOOLEAN /\ onRide \in BOOLEAN /\ detectorDisturbed \in BOOLEAN
    BY DEF Detector!Init
  <2>3. Len(violations) <= MaxViolations
    BY <1>1, DetectorAssumption
  <2>4. QED
    BY <1>2, <1>3, <1>4, <2>1, <2>2, <2>3 DEF Detector!TypeOK
<1>6. Named
  BY <1>1, <1>2, <1>3 DEF Named, Detector!Idle
<1>7. Watched
  BY <1>1, <1>2, <1>3
     DEF Watched, OneLocating, Followed, SinceStreak, DecisionHolds, CallHolds, Detector!Init, Detector!Idle
<1>8. QED
  BY <1>5, <1>6, <1>7 DEF ViolationInv

\* What leaves the violations, the state and the handlers alone.
LEMMA ViolationQuiet ==
  ASSUME ViolationInv, Detector!TypeOK',
         UNCHANGED <<geo, violations, detecting, streak, detectorDisturbed>>
  PROVE  ViolationInv'
BY DEF ViolationInv, Named, Watched, OneLocating, Followed, SinceStreak, DecisionHolds,
       CallHolds, Detector!Locating

LEMMA DetectorQuietSteps ==
  ASSUME ViolationInv, Detector!Tick \/ Detector!SetMonitored \/ Detector!Authorisations
  PROVE  ViolationInv'
<1>1. CASE Detector!Tick
  <2>1. Detector!TypeOK'
    BY <1>1, DetectorAssumption
       DEF ViolationInv, Detector!TypeOK, Detector!Tick, Detector!rides, Detector!Times
  <2>2. QED
    BY <1>1, <2>1, ViolationQuiet DEF Detector!Tick
<1>2. CASE Detector!SetMonitored
  <2>1. Detector!TypeOK'
    BY <1>2, DetectorAssumption
       DEF ViolationInv, Detector!TypeOK, Detector!SetMonitored, Detector!rides, Detector!StepTaken
  <2>2. QED
    BY <1>2, <2>1, ViolationQuiet DEF Detector!SetMonitored
<1>3. CASE Detector!MarkRideActive
  <2>1. Detector!TypeOK'
    BY <1>3, DetectorAssumption
       DEF ViolationInv, Detector!TypeOK, Detector!MarkRideActive, Detector!rest, Detector!StepTaken
  <2>2. QED
    BY <1>3, <2>1, ViolationQuiet DEF Detector!MarkRideActive
<1>4. CASE Detector!MarkRideEnded
  <2>1. endedAt' \in Detector!Times /\ onRide' \in BOOLEAN /\ steps' \in 0..MaxSteps
    <3>1. endedAt' \in Detector!Times /\ onRide' \in BOOLEAN
      BY <1>4 DEF ViolationInv, Detector!TypeOK, Detector!MarkRideEnded
    <3>2. steps' \in 0..MaxSteps
      BY <1>4, DetectorAssumption
         DEF ViolationInv, Detector!TypeOK, Detector!MarkRideEnded, Detector!StepTaken
    <3>3. QED
      BY <3>1, <3>2
  <2>2. Detector!TypeOK'
    BY <1>4, <2>1 DEF ViolationInv, Detector!TypeOK, Detector!MarkRideEnded, Detector!rest
  <2>3. QED
    BY <1>4, <2>2, ViolationQuiet DEF Detector!MarkRideEnded
<1>5. ASSUME NEW to \in Detector!Times, Detector!GrantPass(to)
      PROVE  ViolationInv'
  <2>1. Detector!TypeOK'
    BY <1>5, DetectorAssumption
       DEF ViolationInv, Detector!TypeOK, Detector!GrantPass, Detector!rides, Detector!StepTaken,
           Detector!Times
  <2>2. QED
    BY <1>5, <2>1, ViolationQuiet DEF Detector!GrantPass
<1>6. QED
  BY <1>1, <1>2, <1>3, <1>4, <1>5 DEF Detector!Authorisations

\* A handler enters a phase.
DetectorMoves(w, call) ==
  /\ detecting' = [detecting EXCEPT ![w] = call]
  /\ call \in Detector!Call \cup {Detector!Idle}

LEMMA DetectorCallsMoved ==
  ASSUME ViolationInv, NEW w \in Workers, NEW call, DetectorMoves(w, call)
  PROVE  /\ detecting' \in [Workers -> Detector!Call \cup {Detector!Idle}]
         /\ detecting'[w] = call
         /\ \A o \in Workers \ {w} : detecting'[o] = detecting[o]
BY DEF ViolationInv, Detector!TypeOK, DetectorMoves

\* A call that does not handle a position, or no longer.
Away(call) == call.phase = "idle" \/ (call.phase = "saving" /\ ~call.detector)

\* The handler leaves, and changes nothing but what is not followed.
LEMMA DetectorLeaves ==
  ASSUME ViolationInv, NEW w \in Workers, NEW call, DetectorMoves(w, call), Away(call),
         call.phase = "saving" => call.id \in DOMAIN violations /\ call.status # "open",
         UNCHANGED <<now, endedAt, passes, monitored, onRide, geo, violations, streak>>,
         detectorDisturbed' = detectorDisturbed,
         steps' \in 0..MaxSteps, detectorFaults' \in 0..MaxFaults
  PROVE  ViolationInv'
<1>1. /\ detecting' \in [Workers -> Detector!Call \cup {Detector!Idle}] /\ detecting'[w] = call
      /\ \A o \in Workers \ {w} : detecting'[o] = detecting[o]
  BY DetectorCallsMoved
<1>2. Detector!TypeOK'
  BY <1>1 DEF ViolationInv, Detector!TypeOK
<1>3. Named'
  BY <1>1 DEF ViolationInv, Named, Away
<1>4. ASSUME ~detectorDisturbed
      PROVE  Watched'
  <2>1. OneLocating'
    BY <1>1, <1>4 DEF ViolationInv, Watched, OneLocating, Detector!Locating, Away
  <2>2. Followed' /\ SinceStreak'
    BY <1>4 DEF ViolationInv, Watched, Followed, SinceStreak
  <2>3. DecisionHolds'
    BY <1>1, <1>4 DEF ViolationInv, Watched, DecisionHolds, CallHolds, Away
  <2>4. QED
    BY <2>1, <2>2, <2>3 DEF Watched
<1>5. QED
  BY <1>2, <1>3, <1>4 DEF ViolationInv

LEMMA DetectorFails ==
  ASSUME ViolationInv, NEW w \in Workers, Detector!Fail(w)
  PROVE  ViolationInv'
<1>1. DetectorMoves(w, Detector!Idle)
  BY DEF Detector!Fail, Detector!Enter, DetectorMoves
<1>2. steps' \in 0..MaxSteps /\ detectorFaults' \in 0..MaxFaults
  BY DetectorAssumption, ProfileAssumption DEF Detector!Fail, ViolationInv, Detector!TypeOK
<1>3. Away(Detector!Idle) /\ Detector!Idle.phase # "saving"
  BY DEF Away, Detector!Idle
<1>4. QED
  BY <1>1, <1>2, <1>3, DetectorLeaves DEF Detector!Fail, Detector!rest, Detector!rides

LEMMA LoadGeoStep ==
  ASSUME ViolationInv, NEW w \in Workers, NEW id \in DOMAIN violations,
         NEW status \in Detector!Statuses, Detector!Load(w, id, status)
  PROVE  ViolationInv'
<1>1. PICK call : call = [phase |-> "saving", id |-> id, status |-> status, detector |-> FALSE]
  OBVIOUS
<1>2. id \in 1..MaxViolations
  BY DetectorAssumption DEF ViolationInv, Detector!TypeOK
<1>3. DetectorMoves(w, call)
  BY <1>1, <1>2 DEF Detector!Load, Detector!Enter, DetectorMoves, Detector!Call
<1>4. steps' \in 0..MaxSteps /\ detectorFaults' \in 0..MaxFaults
  BY DetectorAssumption DEF Detector!Load, Detector!StepTaken, ViolationInv, Detector!TypeOK
<1>5. Away(call)
  BY <1>1 DEF Away
<1>6. QED
  BY <1>1, <1>3, <1>4, <1>5, DetectorLeaves DEF Detector!Load, Detector!rest, Detector!rides


\* The handler of a position begins; another one that is under way disturbs.
LEMMA OnLocationStep ==
  ASSUME ViolationInv, NEW w \in Workers, NEW at \in Detector!Times, NEW outside \in BOOLEAN,
         Detector!OnLocation(w, at, outside)
  PROVE  ViolationInv'
<1>1. Detector!InMemory(at) \in BOOLEAN
  BY DEF Detector!InMemory, ViolationInv, Detector!TypeOK
<1>2. PICK call : call = [phase |-> "authorizing", at |-> at, outside |-> outside,
                          excused |-> Detector!InMemory(at)]
  OBVIOUS
<1>3. DetectorMoves(w, call)
  BY <1>1, <1>2 DEF Detector!OnLocation, Detector!Enter, DetectorMoves, Detector!Call
<1>4. /\ detecting' \in [Workers -> Detector!Call \cup {Detector!Idle}] /\ detecting'[w] = call
      /\ \A o \in Workers \ {w} : detecting'[o] = detecting[o]
  BY <1>3, DetectorCallsMoved
<1>5. UNCHANGED <<now, endedAt, passes, monitored, onRide, geo, violations, streak, detectorFaults>>
  BY DEF Detector!OnLocation, Detector!rest, Detector!rides
<1>6. steps' \in 0..MaxSteps /\ detectorDisturbed' \in BOOLEAN
  BY DetectorAssumption
     DEF Detector!OnLocation, Detector!StepTaken, ViolationInv, Detector!TypeOK
<1>7. Detector!TypeOK'
  BY <1>4, <1>5, <1>6 DEF ViolationInv, Detector!TypeOK
<1>8. Named'
  BY <1>2, <1>4, <1>5 DEF ViolationInv, Named
<1>9. ASSUME ~detectorDisturbed'
      PROVE  Watched'
  <2>1. Watched /\ \A o \in Workers : ~Detector!Locating(o)
    BY <1>9 DEF Detector!OnLocation, ViolationInv
  <2>2. OneLocating'
    BY <1>4, <2>1 DEF OneLocating, Detector!Locating
  <2>3. Followed' /\ SinceStreak'
    BY <1>5, <2>1 DEF Watched, Followed, SinceStreak
  <2>4. DecisionHolds'
    BY <1>2, <1>4, <1>5, <2>1 DEF Watched, DecisionHolds, CallHolds
  <2>5. QED
    BY <2>2, <2>3, <2>4 DEF Watched
<1>10. QED
  BY <1>7, <1>8, <1>9 DEF ViolationInv

\* A handler that is under way is the only one, when nothing disturbed.
LEMMA LocatingAlone ==
  ASSUME ViolationInv, NEW w \in Workers, NEW call, DetectorMoves(w, call),
         Detector!Locating(w), ~detectorDisturbed
  PROVE  /\ OneLocating' /\ Watched
         /\ \A o \in Workers \ {w} : /\ detecting'[o] = detecting[o]
                                     /\ ~Detector!Locating(o)
         /\ detecting'[w] = call
<1>1. /\ detecting'[w] = call
      /\ \A o \in Workers \ {w} : detecting'[o] = detecting[o]
  BY DetectorCallsMoved
<1>2. Watched
  BY DEF ViolationInv
<1>3. \A o \in Workers \ {w} : ~Detector!Locating(o)
  BY <1>2 DEF Watched, OneLocating
<1>4. OneLocating'
  BY <1>1, <1>3 DEF OneLocating, Detector!Locating
<1>5. QED
  BY <1>1, <1>2, <1>3, <1>4

\* The handler that is under way moves on: what it leaves behind is all that
\* can go wrong.
LEMMA DetectorAdvances ==
  ASSUME ViolationInv, NEW w \in Workers, NEW call, DetectorMoves(w, call), Detector!Locating(w),
         call.phase \in {"closing", "saving"} => call.id \in DOMAIN violations',
         call.phase = "saving" => call.status # "open",
         UNCHANGED <<now, endedAt, passes, monitored, onRide, detectorDisturbed, steps,
                     detectorFaults>>,
         geo' \in Detector!GeoState, geo'.open <= Len(violations'),
         streak' \in Detector!Times \cup {Detector!Never},
         violations' \in Seq(Detector!Violation), Len(violations') <= MaxViolations,
         DOMAIN violations \subseteq DOMAIN violations',
         ~detectorDisturbed /\ Watched =>
           Followed' /\ SinceStreak' /\ CallHolds(call, geo', streak')
  PROVE  ViolationInv'
<1>1. /\ detecting' \in [Workers -> Detector!Call \cup {Detector!Idle}] /\ detecting'[w] = call
      /\ \A o \in Workers \ {w} : detecting'[o] = detecting[o]
  BY DetectorCallsMoved
<1>2. Detector!TypeOK'
  BY <1>1 DEF ViolationInv, Detector!TypeOK
<1>3. Named'
  BY <1>1 DEF ViolationInv, Named
<1>4. ASSUME ~detectorDisturbed
      PROVE  Watched'
  <2>1. /\ OneLocating' /\ Watched
        /\ \A o \in Workers \ {w} : detecting'[o] = detecting[o] /\ ~Detector!Locating(o)
    BY <1>4, LocatingAlone
  <2>2. Followed' /\ SinceStreak' /\ CallHolds(call, geo', streak')
    BY <1>4, <2>1
  <2>3. \A o \in Workers \ {w} : CallHolds(detecting'[o], geo', streak')
    BY <2>1 DEF CallHolds, Detector!Locating
  <2>4. DecisionHolds'
    BY <1>1, <2>2, <2>3 DEF DecisionHolds
  <2>5. QED
    BY <2>1, <2>2, <2>4 DEF Watched
<1>5. QED
  BY <1>2, <1>3, <1>4 DEF ViolationInv

LEMMA DecidedStep ==
  ASSUME ViolationInv, NEW w \in Workers, Detector!Decided(w)
  PROVE  ViolationInv'
<1>1. PICK c : c = detecting[w]
  OBVIOUS
<1>2. PICK authorized \in BOOLEAN : authorized = (c.excused \/ c.at \in passes)
  OBVIOUS
<1>3. PICK d : d = Detector!Decide(c.at, c.outside, authorized, geo)
  OBVIOUS
<1>4. /\ c.phase = "authorizing"
      /\ CASE d.action = "open"  ->
                Detector!Enter(w, [phase |-> "opening", at |-> c.at, state |-> d.state])
           [] d.action = "close" -> Detector!Enter(w, [phase |-> "closing", id |-> geo.open])
           [] OTHER -> Detector!Enter(w, Detector!Idle)
      /\ geo' = IF d.action = "none" THEN d.state ELSE geo
      /\ streak' = IF authorized \/ ~c.outside THEN Detector!Never
                   ELSE IF streak = Detector!Never THEN c.at ELSE streak
      /\ UNCHANGED <<now, monitored, passes, onRide, endedAt, violations, detectorDisturbed,
                     steps, detectorFaults>>
  BY <1>1, <1>2, <1>3 DEF Detector!Decided, Detector!rest, Detector!rides
<1>5. c \in Detector!Call /\ c.at \in Detector!Times /\ c.outside \in BOOLEAN
  BY <1>1, <1>4 DEF ViolationInv, Detector!TypeOK, Detector!Call, Detector!Idle
<1>6. /\ geo \in Detector!GeoState /\ geo.since \in Detector!Times \cup {Detector!Never}
      /\ geo.open \in 0..MaxViolations /\ geo.open <= Len(violations)
      /\ streak \in Detector!Times \cup {Detector!Never}
  BY DEF ViolationInv, Named, Detector!TypeOK, Detector!GeoState
<1>7. PICK since \in Detector!Times :
        since = IF geo.since = Detector!Never THEN c.at ELSE geo.since
  BY <1>5, <1>6
<1>8. /\ violations' \in Seq(Detector!Violation) /\ Len(violations') <= MaxViolations
      /\ DOMAIN violations \subseteq DOMAIN violations' /\ Len(violations') = Len(violations)
      /\ Detector!Locating(w)
      /\ streak' \in Detector!Times \cup {Detector!Never}
  BY <1>1, <1>4, <1>5, <1>6 DEF ViolationInv, Detector!TypeOK, Detector!Locating
<1>9. ASSUME geo'.open = geo.open
      PROVE  Followed => Followed'
  BY <1>4, <1>9 DEF Followed
<1>10. /\ CallHolds(Detector!Idle, geo', streak')
       /\ Detector!Idle.phase \notin {"closing", "saving"}
  BY DEF CallHolds, Detector!Idle
<1>11. ASSUME detecting' = [detecting EXCEPT ![w] = Detector!Idle],
              geo' \in Detector!GeoState, geo'.open = geo.open, SinceStreak => SinceStreak'
       PROVE  ViolationInv'
  <2>1. DetectorMoves(w, Detector!Idle)
    BY <1>11 DEF DetectorMoves
  <2>2. QED
    BY <1>4, <1>6, <1>8, <1>9, <1>10, <1>11, <2>1, DetectorAdvances DEF Watched
<1>12. CASE ~c.outside /\ geo.open # 0
  <2>1. PICK call : call = [phase |-> "closing", id |-> geo.open]
    OBVIOUS
  <2>2. d.action = "close"
    BY <1>3, <1>12 DEF Detector!Decide
  <2>3. detecting' = [detecting EXCEPT ![w] = call] /\ geo' = geo /\ streak' = Detector!Never
    BY <1>4, <1>12, <2>1, <2>2 DEF Detector!Enter
  <2>4. geo.open \in DOMAIN violations /\ geo.open \in 1..MaxViolations
    BY <1>6, <1>8, <1>12 DEF ViolationInv, Detector!TypeOK
  <2>5. DetectorMoves(w, call) /\ call.id \in DOMAIN violations' /\ call.phase # "saving"
    BY <1>4, <2>1, <2>3, <2>4 DEF DetectorMoves, Detector!Call
  <2>6. SinceStreak' /\ CallHolds(call, geo', streak')
    BY <1>12, <2>1, <2>3 DEF SinceStreak, CallHolds
  <2>7. QED
    BY <1>4, <1>6, <1>8, <1>9, <2>3, <2>5, <2>6, DetectorAdvances DEF Watched
<1>13. CASE ~c.outside /\ geo.open = 0
  <2>1. d.action = "none" /\ d.state = Detector!InitialGeoState
    BY <1>3, <1>13 DEF Detector!Decide
  <2>2. /\ detecting' = [detecting EXCEPT ![w] = Detector!Idle]
        /\ geo' = [since |-> Detector!Never, open |-> 0] /\ streak' = Detector!Never
    BY <1>4, <1>13, <2>1 DEF Detector!Enter, Detector!InitialGeoState
  <2>3. geo' \in Detector!GeoState /\ geo'.open = geo.open /\ SinceStreak'
    BY <1>13, <2>2, DetectorAssumption DEF Detector!GeoState, SinceStreak
  <2>4. QED
    BY <1>11, <2>2, <2>3
<1>14. CASE c.outside /\ authorized
  <2>1. d.action = "none" /\ d.state = [geo EXCEPT !.since = Detector!Never]
    BY <1>3, <1>14 DEF Detector!Decide
  <2>2. /\ detecting' = [detecting EXCEPT ![w] = Detector!Idle]
        /\ geo' = [geo EXCEPT !.since = Detector!Never] /\ streak' = Detector!Never
    BY <1>4, <1>14, <2>1 DEF Detector!Enter
  <2>3. geo' \in Detector!GeoState /\ geo'.open = geo.open /\ SinceStreak'
    BY <1>6, <2>2 DEF Detector!GeoState, SinceStreak
  <2>4. QED
    BY <1>11, <2>2, <2>3
<1>15. CASE c.outside /\ ~authorized /\ geo.open # 0
  <2>1. d.action = "none" /\ d.state = geo
    BY <1>3, <1>15 DEF Detector!Decide
  <2>2. detecting' = [detecting EXCEPT ![w] = Detector!Idle] /\ geo' = geo
    BY <1>4, <2>1 DEF Detector!Enter
  <2>3. SinceStreak'
    BY <1>15, <2>2 DEF SinceStreak
  <2>4. QED
    BY <1>6, <1>11, <2>2, <2>3
<1>16. CASE c.outside /\ ~authorized /\ geo.open = 0 /\ c.at >= since + Dwell
  <2>1. PICK next : next = [since |-> since, open |-> 0]
    OBVIOUS
  <2>2. d.action = "open" /\ d.state = next
    BY <1>3, <1>7, <1>16, <2>1 DEF Detector!Decide
  <2>3. PICK call : call = [phase |-> "opening", at |-> c.at, state |-> next]
    OBVIOUS
  <2>4. detecting' = [detecting EXCEPT ![w] = call] /\ geo' = geo
    BY <1>4, <2>2, <2>3 DEF Detector!Enter
  <2>5. next \in Detector!GeoState
    BY <1>6, <1>7, <1>16, <2>1 DEF Detector!GeoState
  <2>6. DetectorMoves(w, call)
    BY <1>5, <2>3, <2>4, <2>5 DEF DetectorMoves, Detector!Call
  <2>7. ASSUME SinceStreak
        PROVE  SinceStreak' /\ CallHolds(call, geo', streak')
    <3>1. Dwell > 0 => geo.since # Detector!Never /\ since = geo.since
      BY <1>5, <1>7, <1>16, DetectorAssumption DEF Detector!Times
    <3>2. Dwell > 0 => streak = geo.since /\ streak' = streak
      BY <1>4, <1>16, <2>7, <3>1 DEF SinceStreak
    <3>3. SinceStreak'
      BY <2>4, <3>2 DEF SinceStreak
    <3>4. Dwell > 0 => streak' \in Detector!Times /\ c.at >= streak' + Dwell
      BY <1>7, <1>16, <3>1, <3>2
    <3>5. CallHolds(call, geo', streak')
      BY <1>16, <2>3, <2>4, <3>4 DEF CallHolds
    <3>6. QED
      BY <3>3, <3>5
  <2>8. QED
    BY <1>4, <1>6, <1>8, <1>9, <2>3, <2>4, <2>6, <2>7, DetectorAdvances DEF Watched
<1>17. CASE c.outside /\ ~authorized /\ geo.open = 0 /\ ~(c.at >= since + Dwell)
  <2>1. PICK next : next = [since |-> since, open |-> 0]
    OBVIOUS
  <2>2. d.action = "none" /\ d.state = next
    BY <1>3, <1>7, <1>17, <2>1 DEF Detector!Decide
  <2>3. detecting' = [detecting EXCEPT ![w] = Detector!Idle] /\ geo' = next
    BY <1>4, <2>2 DEF Detector!Enter
  <2>4. next \in Detector!GeoState /\ next.open = geo.open
    BY <1>6, <1>7, <1>17, <2>1 DEF Detector!GeoState
  <2>5. SinceStreak => SinceStreak'
    BY <1>4, <1>5, <1>6, <1>7, <1>17, <2>1, <2>3 DEF SinceStreak
  <2>6. QED
    BY <1>11, <2>3, <2>4, <2>5
<1>18. QED
  BY <1>5, <1>6, <1>12, <1>13, <1>14, <1>15, <1>16, <1>17


LEMMA OpenViolationStep ==
  ASSUME ViolationInv, NEW w \in Workers, Detector!OpenViolation(w)
  PROVE  ViolationInv'
<1>1. PICK c : c = detecting[w]
  OBVIOUS
<1>2. PICK v : v = [status |-> "open", openedAt |-> c.at, closings |-> 0,
                    dwelt |-> IF streak <= c.at THEN c.at - streak ELSE 0]
  OBVIOUS
<1>3. /\ c.phase = "opening" /\ Len(violations) < MaxViolations
      /\ violations' = Append(violations, v)
      /\ geo' = [c.state EXCEPT !.open = Len(violations) + 1]
      /\ detecting' = [detecting EXCEPT ![w] = Detector!Idle]
      /\ UNCHANGED <<now, monitored, passes, onRide, endedAt, streak, detectorDisturbed, steps,
                     detectorFaults>>
  BY <1>1, <1>2 DEF Detector!OpenViolation, Detector!Enter, Detector!rest, Detector!rides
<1>4. c.at \in Detector!Times /\ c.state \in Detector!GeoState
  BY <1>1, <1>3 DEF ViolationInv, Detector!TypeOK, Detector!Call, Detector!Idle
<1>5. /\ violations \in Seq(Detector!Violation) /\ Len(violations) \in Nat
      /\ streak \in Detector!Times \cup {Detector!Never}
  BY DEF ViolationInv, Detector!TypeOK
<1>6. v.dwelt \in Detector!Times /\ v.status = "open" /\ v.closings = 0
  BY <1>2, <1>4, <1>5, DetectorAssumption DEF Detector!Times, Detector!Never
<1>7. v \in Detector!Violation
  BY <1>2, <1>4, <1>6 DEF Detector!Violation, Detector!Statuses
<1>8. /\ violations' \in Seq(Detector!Violation) /\ Len(violations') = Len(violations) + 1
      /\ DOMAIN violations' = 1..(Len(violations) + 1) /\ DOMAIN violations = 1..Len(violations)
      /\ \A id \in 1..Len(violations) : violations'[id] = violations[id]
      /\ violations'[Len(violations) + 1] = v
  BY <1>3, <1>5, <1>7
<1>9. geo' \in Detector!GeoState /\ geo'.open = Len(violations) + 1
  <2>1. PICK n \in 0..MaxViolations : n = Len(violations) + 1
    BY <1>3, <1>5, DetectorAssumption
  <2>2. geo' = [c.state EXCEPT !.open = n]
    BY <1>3, <2>1
  <2>3. geo' \in Detector!GeoState /\ geo'.open = n
    BY <1>4, <2>2 DEF Detector!GeoState
  <2>4. QED
    BY <2>1, <2>3
<1>10. DetectorMoves(w, Detector!Idle) /\ Detector!Locating(w)
  BY <1>1, <1>3 DEF DetectorMoves, Detector!Locating
<1>11. ASSUME Watched
       PROVE  Followed' /\ SinceStreak' /\ CallHolds(Detector!Idle, geo', streak')
  <2>1. CallHolds(c, geo, streak)
    BY <1>1, <1>11 DEF Watched, DecisionHolds
  <2>2. geo.open = 0 /\ (Dwell > 0 => streak \in Detector!Times /\ c.at >= streak + Dwell)
    BY <1>3, <2>1 DEF CallHolds
  <2>3. v.dwelt >= Dwell
    BY <1>2, <1>4, <1>6, <2>2, DetectorAssumption DEF Detector!Times
  <2>4. Followed'
    BY <1>5, <1>6, <1>8, <1>9, <1>11, <2>2, <2>3 DEF Watched, Followed
  <2>5. SinceStreak' /\ CallHolds(Detector!Idle, geo', streak')
    BY <1>5, <1>9 DEF SinceStreak, CallHolds, Detector!Idle
  <2>6. QED
    BY <2>4, <2>5
<1>12. Detector!Idle.phase \notin {"closing", "saving"}
  BY DEF Detector!Idle
<1>13. /\ geo'.open <= Len(violations') /\ Len(violations') <= MaxViolations
       /\ DOMAIN violations \subseteq DOMAIN violations'
       /\ streak' \in Detector!Times \cup {Detector!Never}
  BY <1>3, <1>5, <1>8, <1>9, DetectorAssumption
<1>14. QED
  BY <1>3, <1>8, <1>9, <1>10, <1>11, <1>12, <1>13, DetectorAdvances

LEMMA FindViolationStep ==
  ASSUME ViolationInv, NEW w \in Workers, Detector!FindViolation(w)
  PROVE  ViolationInv'
<1>1. PICK id : id = detecting[w].id
  OBVIOUS
<1>2. /\ detecting[w].phase = "closing" /\ id \in DOMAIN violations /\ Detector!Locating(w)
      /\ UNCHANGED <<now, monitored, passes, onRide, endedAt, violations, streak,
                     detectorDisturbed, steps, detectorFaults>>
  BY <1>1 DEF Detector!FindViolation, Detector!Locating, ViolationInv, Named, Detector!rest,
              Detector!rides
<1>3. /\ violations \in Seq(Detector!Violation) /\ Len(violations) \in Nat
      /\ id \in 1..MaxViolations /\ Len(violations) <= MaxViolations
      /\ geo \in Detector!GeoState /\ geo.open <= Len(violations)
      /\ streak \in Detector!Times \cup {Detector!Never}
  BY <1>2, DetectorAssumption DEF ViolationInv, Named, Detector!TypeOK
<1>4. ASSUME Watched
      PROVE  geo.open = id /\ streak = Detector!Never
  BY <1>1, <1>2, <1>4 DEF Watched, DecisionHolds, CallHolds
<1>5. CASE violations[id].status = "open"
  <2>1. PICK call : call = [phase |-> "saving", id |-> id, status |-> "auto_closed",
                            detector |-> TRUE]
    OBVIOUS
  <2>2. detecting' = [detecting EXCEPT ![w] = call] /\ geo' = geo
    BY <1>1, <1>5, <2>1 DEF Detector!FindViolation, Detector!Enter
  <2>3. DetectorMoves(w, call) /\ call.id \in DOMAIN violations' /\ call.status # "open"
    BY <1>2, <1>3, <2>1, <2>2 DEF DetectorMoves, Detector!Call, Detector!Statuses
  <2>4. Watched => Followed' /\ SinceStreak' /\ CallHolds(call, geo', streak')
    BY <1>2, <1>4, <2>1, <2>2 DEF Watched, Followed, SinceStreak, CallHolds
  <2>5. QED
    BY <1>2, <1>3, <2>2, <2>3, <2>4, DetectorAdvances
<1>6. CASE violations[id].status # "open"
  <2>1. /\ detecting' = [detecting EXCEPT ![w] = Detector!Idle]
        /\ geo' = [since |-> Detector!Never, open |-> 0]
    BY <1>1, <1>6 DEF Detector!FindViolation, Detector!Enter, Detector!InitialGeoState
  <2>2. geo' \in Detector!GeoState /\ geo'.open <= Len(violations')
    BY <1>2, <1>3, <2>1, DetectorAssumption DEF Detector!GeoState
  <2>3. DetectorMoves(w, Detector!Idle) /\ Detector!Idle.phase \notin {"closing", "saving"}
    BY <2>1 DEF DetectorMoves, Detector!Idle
  <2>4. ASSUME Watched
        PROVE  Followed' /\ SinceStreak' /\ CallHolds(Detector!Idle, geo', streak')
    <3>1. Followed'
      BY <1>2, <1>3, <1>4, <1>6, <2>1, <2>4 DEF Watched, Followed
    <3>2. SinceStreak' /\ CallHolds(Detector!Idle, geo', streak')
      BY <1>2, <1>4, <2>1, <2>4 DEF SinceStreak, CallHolds, Detector!Idle
    <3>3. QED
      BY <3>1, <3>2
  <2>5. QED
    BY <1>2, <1>3, <2>2, <2>3, <2>4, DetectorAdvances
<1>7. QED
  BY <1>5, <1>6

LEMMA SaveViolationStep ==
  ASSUME ViolationInv, NEW w \in Workers, Detector!SaveViolation(w)
  PROVE  ViolationInv'
<1>1. PICK c : c = detecting[w]
  OBVIOUS
<1>2. /\ c.phase = "saving" /\ c.id \in DOMAIN violations /\ c.status # "open"
      /\ detecting' = [detecting EXCEPT ![w] = Detector!Idle]
      /\ geo' = IF c.detector THEN [since |-> Detector!Never, open |-> 0] ELSE geo
      /\ UNCHANGED <<now, monitored, passes, onRide, endedAt, streak, detectorDisturbed, steps,
                     detectorFaults>>
  BY <1>1 DEF Detector!SaveViolation, Detector!Enter, Detector!InitialGeoState, ViolationInv,
              Named, Detector!rest, Detector!rides
<1>3. c.status \in Detector!Statuses /\ c.detector \in BOOLEAN
  BY <1>1, <1>2 DEF ViolationInv, Detector!TypeOK, Detector!Call, Detector!Idle
<1>4. /\ violations \in Seq(Detector!Violation) /\ Len(violations) \in Nat
      /\ Len(violations) <= MaxViolations
      /\ geo \in Detector!GeoState /\ geo.open <= Len(violations)
      /\ streak \in Detector!Times \cup {Detector!Never}
  BY DEF ViolationInv, Named, Detector!TypeOK
<1>5. PICK v : v = [violations[c.id] EXCEPT
                      !.status = c.status,
                      !.closings = IF c.detector THEN violations[c.id].closings + 1
                                                 ELSE violations[c.id].closings]
  OBVIOUS
<1>6. violations' = [violations EXCEPT ![c.id] = v]
  BY <1>1, <1>2, <1>4, <1>5 DEF Detector!SaveViolation, Detector!Violation
<1>7. violations[c.id] \in Detector!Violation
  BY <1>2, <1>4
<1>8. /\ v \in Detector!Violation /\ v.status # "open" /\ v.dwelt = violations[c.id].dwelt
      /\ v.closings = IF c.detector THEN violations[c.id].closings + 1
                                    ELSE violations[c.id].closings
  <2>1. PICK b : b = violations[c.id]
    OBVIOUS
  <2>2. PICK n \in Nat : n = IF c.detector THEN b.closings + 1 ELSE b.closings
    BY <1>7, <2>1 DEF Detector!Violation
  <2>3. v = [b EXCEPT !.status = c.status, !.closings = n]
    BY <1>5, <2>1, <2>2
  <2>4. /\ v \in Detector!Violation /\ v.status = c.status /\ v.dwelt = b.dwelt
        /\ v.closings = n
    BY <1>3, <1>7, <2>1, <2>3 DEF Detector!Violation
  <2>5. QED
    BY <1>2, <2>1, <2>2, <2>4
<1>9. /\ violations' \in Seq(Detector!Violation) /\ Len(violations') = Len(violations)
      /\ DOMAIN violations' = DOMAIN violations /\ violations'[c.id] = v
      /\ \A id \in DOMAIN violations \ {c.id} : violations'[id] = violations[id]
  BY <1>2, <1>4, <1>6, <1>8
<1>10. DetectorMoves(w, Detector!Idle) /\ Detector!Idle.phase \notin {"closing", "saving"}
  BY <1>2 DEF DetectorMoves, Detector!Idle
<1>11. CASE c.detector
  <2>1. Detector!Locating(w)
    BY <1>1, <1>2, <1>11 DEF Detector!Locating
  <2>2. geo' \in Detector!GeoState /\ geo'.open <= Len(violations') /\ geo'.open = 0
    BY <1>2, <1>4, <1>9, <1>11, DetectorAssumption DEF Detector!GeoState
  <2>3. ASSUME Watched
        PROVE  Followed' /\ SinceStreak' /\ CallHolds(Detector!Idle, geo', streak')
    <3>1. geo.open = c.id /\ streak = Detector!Never
      BY <1>1, <1>2, <1>11, <2>3 DEF Watched, DecisionHolds, CallHolds
    <3>2. c.id # 0
      BY <1>2, <1>4
    <3>3. Followed'
      BY <1>8, <1>9, <1>11, <2>2, <2>3, <3>1, <3>2 DEF Watched, Followed
    <3>4. SinceStreak' /\ CallHolds(Detector!Idle, geo', streak')
      BY <1>2, <1>11, <3>1 DEF SinceStreak, CallHolds, Detector!Idle
    <3>5. QED
      BY <3>3, <3>4
  <2>4. QED
    BY <1>2, <1>4, <1>9, <1>10, <2>1, <2>2, <2>3, DetectorAdvances
<1>12. CASE ~c.detector
  <2>1. geo' = geo
    BY <1>2, <1>12
  <2>2. /\ detecting' \in [Workers -> Detector!Call \cup {Detector!Idle}]
        /\ detecting'[w] = Detector!Idle
        /\ \A o \in Workers \ {w} : detecting'[o] = detecting[o]
    BY <1>10, DetectorCallsMoved
  <2>3. Detector!TypeOK'
    BY <1>2, <1>4, <1>9, <2>1, <2>2 DEF ViolationInv, Detector!TypeOK
  <2>4. Named'
    BY <1>9, <1>10, <2>1, <2>2 DEF ViolationInv, Named
  <2>5. ASSUME ~detectorDisturbed
        PROVE  Watched'
    <3>1. Watched
      BY <2>5 DEF ViolationInv
    <3>2. OneLocating'
      BY <2>2, <3>1 DEF Watched, OneLocating, Detector!Locating, Detector!Idle
    <3>3. Followed' /\ SinceStreak'
      BY <1>2, <1>8, <1>9, <1>12, <2>1, <3>1 DEF Watched, Followed, SinceStreak
    <3>4. DecisionHolds'
      BY <1>2, <2>1, <2>2, <3>1 DEF Watched, DecisionHolds, CallHolds, Detector!Idle
    <3>5. QED
      BY <3>2, <3>3, <3>4 DEF Watched
  <2>6. QED
    BY <1>2, <2>3, <2>4, <2>5 DEF ViolationInv
<1>13. QED
  BY <1>3, <1>11, <1>12

LEMMA DetectorRestarts ==
  ASSUME ViolationInv, Detector!Restart
  PROVE  ViolationInv'
<1>1. /\ detecting' = [w \in Workers |-> Detector!Idle] /\ detectorDisturbed' = TRUE
      /\ geo' = [since |-> Detector!Never, open |-> 0] /\ streak' = Detector!Never
      /\ onRide' = FALSE /\ endedAt' = Detector!Never
      /\ UNCHANGED <<now, monitored, passes, violations, steps>>
  BY DEF Detector!Restart, Detector!InitialGeoState, Detector!rest
<1>2. detectorFaults' \in 0..MaxFaults
  BY ProfileAssumption DEF Detector!Restart, ViolationInv, Detector!TypeOK
<1>3. geo' \in Detector!GeoState
  BY <1>1, DetectorAssumption DEF Detector!GeoState
<1>4. Detector!TypeOK'
  BY <1>1, <1>2, <1>3 DEF ViolationInv, Detector!TypeOK
<1>5. Len(violations) \in Nat
  BY DEF ViolationInv, Detector!TypeOK
<1>6. Named'
  BY <1>1, <1>5 DEF Named, Detector!Idle
<1>7. QED
  BY <1>1, <1>4, <1>6 DEF ViolationInv

LEMMA ViolationStep ==
  ASSUME ViolationInv, Detector!Next
  PROVE  ViolationInv'
<1>1. CASE Detector!Tick \/ Detector!SetMonitored \/ Detector!Authorisations
  BY <1>1, DetectorQuietSteps
<1>2. CASE Detector!Restart
  BY <1>2, DetectorRestarts
<1>3. ASSUME NEW w \in Workers,
             \/ \E at \in Detector!Times, outside \in BOOLEAN : Detector!OnLocation(w, at, outside)
             \/ Detector!Decided(w) \/ Detector!OpenViolation(w) \/ Detector!FindViolation(w)
             \/ \E id \in DOMAIN violations, status \in Detector!Statuses :
                  Detector!Load(w, id, status)
             \/ Detector!SaveViolation(w) \/ Detector!Fail(w)
      PROVE  ViolationInv'
  BY <1>3, OnLocationStep, DecidedStep, OpenViolationStep, FindViolationStep, LoadGeoStep,
     SaveViolationStep, DetectorFails
<1>4. QED
  BY <1>1, <1>2, <1>3 DEF Detector!Next

LEMMA DetectorSide == [Next]_vars => UNCHANGED detector \/ Detector!Next
BY DEF Next, vars, detector

LEMMA ViolationInvariant == Spec => []ViolationInv
<1>1. Init => ViolationInv
  BY ViolationInit DEF Init
<1>2. ViolationInv /\ [Next]_vars => ViolationInv'
  <2> SUFFICES ASSUME ViolationInv, [Next]_vars
               PROVE  ViolationInv'
    OBVIOUS
  <2>1. CASE UNCHANGED detector
    BY <2>1 DEF detector, ViolationInv, Named, Watched, OneLocating, Followed, SinceStreak,
                DecisionHolds, CallHolds, Detector!TypeOK, Detector!Locating
  <2>2. QED
    BY <2>1, DetectorSide, ViolationStep
<1>3. QED
  BY <1>1, <1>2, PTL DEF Spec

\* Zone violations, with failures, administrators and late positions, while
\* positions are handled one at a time: an open violation is the one the detector
\* will close, it is announced as closed once, and the vehicle was outside over
\* the dwell time (violation-detector.service.ts:45-146, violation-decider.ts).
THEOREM ViolationsSoundAlways == Spec => []ViolationsSound
<1>1. ViolationInv => ViolationsSound
  <2> SUFFICES ASSUME ViolationInv, ~detectorDisturbed
               PROVE  Detector!OpenIsTracked /\ Detector!DwellRespected
    BY DEF ViolationsSound, Detector!OpenIsTracked, Detector!DwellRespected
  <2>1. Followed
    BY DEF ViolationInv, Watched
  <2>2. \A id \in DOMAIN violations : violations[id].closings <= 1
    BY <2>1 DEF Followed
  <2>3. QED
    BY <2>1, <2>2 DEF Followed, Detector!OpenIsTracked, Detector!DwellRespected
<1>2. QED
  BY <1>1, ViolationInvariant, PTL


-----------------------------------------------------------------------------
(***************************************************************************)
(* Projections: what a counter holds against what was processed for it.    *)
(***************************************************************************)
Projected(e) == Reports!Projections(Name[e])

\* The counters of a table that only events with an entry add to.
Counters(t) == Reports!Columns[t] \ {"match_times", "online_hours"}

\* The events that count in a column, of the entries done.
CountedIn(done, t, k) ==
  {e \in Events : <<e, t>> \in done /\ \E i \in DOMAIN Projected(e) : Projected(e)[i] = <<t, k>>}

Tally(done, t, k) == Cardinality(CountedIn(done, t, k))

Adds(c, k) == IF k = Reports!Column(c) THEN 1 ELSE 0

Transacting(c) == c.phase \in {"applying", "saving"}

\* The projection is processed, or its table is one whose transactions overlapped.
StepDone(e, i, done, mixed) ==
  Name[e] # "driver.offline" => Projected(e)[i][1] \in mixed \/ <<e, Projected(e)[i][1]>> \in done

RowSound(t, row, done, mixed) ==
  /\ row = Reports!NoRow => \A e \in Events : <<e, t>> \notin done
  /\ row # Reports!NoRow =>
       \A k \in Counters(t) : /\ row[k] <= Tally(done, t, k)
                              /\ t \notin mixed => row[k] = Tally(done, t, k)

EntitySound(c, done, mixed) ==
  /\ c.entity \in Reports!Row(Reports!Table(c))
  /\ Reports!Deduplicated(c) => Reports!Key(c) \notin done
  /\ \A k \in Counters(Reports!Table(c)) :
       LET total == Tally(done, Reports!Table(c), k) + Adds(c, k)
       IN /\ c.entity[k] <= total
          /\ Reports!Table(c) \notin mixed => c.entity[k] = total

\* What save() compared holds, unless another transaction came between.
SaveSound(c, row, mixed) ==
  /\ c.insert \in BOOLEAN /\ (~c.insert => row # Reports!NoRow)
  /\ c.insert => c.columns = Reports!Columns[Reports!Table(c)]
  /\ Reports!Table(c) \notin mixed =>
       /\ c.insert <=> row = Reports!NoRow
       /\ \A k \in Reports!Columns[Reports!Table(c)] \ c.columns : row[k] = c.entity[k]

CallSound(c, table, done, mixed) ==
  /\ c.phase \in {"begin", "applying", "saving"} /\ c.event \in Events
  /\ c.step \in DOMAIN Projected(c.event)
  /\ \A i \in 1..(c.step - 1) : StepDone(c.event, i, done, mixed)
  /\ Transacting(c) => EntitySound(c, done, mixed)
  /\ c.phase = "saving" => SaveSound(c, table[Reports!Table(c)], mixed)

\* Transactions of two handlers.
Apart(c, d, mixed) ==
  Transacting(c) /\ Transacting(d) =>
    /\ Reports!Table(c) = Reports!Table(d) => Reports!Table(c) \in mixed
    /\ Reports!Deduplicated(c) => Reports!Key(c) # Reports!Key(d)

CallsSound ==
  /\ \A w \in Workers : projecting[w] # Reports!Idle =>
       CallSound(projecting[w], rows, processed, rowsOverlapped)
  /\ \A w, o \in Workers : w # o => Apart(projecting[w], projecting[o], rowsOverlapped)

TablesSound ==
  \A t \in Reports!Tables :
    /\ RowSound(t, rows[t], processed, rowsOverlapped)
    /\ \A k \in Counters(t) : IsFiniteSet(CountedIn(processed, t, k))

AckedDone ==
  \A e \in acked : \A i \in DOMAIN Projected(e) : StepDone(e, i, processed, rowsOverlapped)

RowsTyped ==
  /\ rows = [t \in Reports!Tables |-> rows[t]] /\ projecting = [w \in Workers |-> projecting[w]]
  /\ \A t \in Reports!Tables : rows[t] \in Reports!Row(t) \cup {Reports!NoRow}
  /\ processed \subseteq Events \X Reports!Tables
  /\ acked \subseteq Events /\ rowsOverlapped \subseteq Reports!Tables

MemoryTyped ==
  /\ requestedAt \subseteq {RideOf[e] : e \in Events} /\ onlineSince \in BOOLEAN
  /\ swallowed \subseteq Events \X Reports!Tables
  /\ copies \in 0..MaxCopies /\ reportingFaults \in 0..MaxFaults

ProjectionInv == RowsTyped /\ MemoryTyped /\ CallsSound /\ TablesSound /\ AckedDone

-----------------------------------------------------------------------------
(***************************************************************************)
(* The projections of an event                                             *)
(***************************************************************************)
LEMMA ProjectionsTyped ==
  ASSUME NEW e
  PROVE  /\ Len(Projected(e)) \in {0, 1, 2} /\ DOMAIN Projected(e) = 1..Len(Projected(e))
         /\ Projected(e) = <<>> \/ 1 \in DOMAIN Projected(e)
         /\ \A i \in DOMAIN Projected(e) :
              /\ Projected(e)[i] = <<Projected(e)[i][1], Projected(e)[i][2]>>
              /\ Projected(e)[i][1] \in Reports!Tables
              /\ Projected(e)[i][2] \in Reports!Columns[Projected(e)[i][1]]
         /\ \A i, j \in DOMAIN Projected(e) : Projected(e)[i][1] = Projected(e)[j][1] => i = j
         /\ \A i \in DOMAIN Projected(e) :
              Name[e] = "driver.offline" <=> Projected(e)[i][2] = "online_hours"
<1>1. PICK n : n = Name[e]
  OBVIOUS
<1>2. Projected(e) =
        CASE n = "ride.completed"     -> <<<<"rides_daily", "rides_completed">>,
                                           <<"driver_performance", "rides">>>>
          [] n = "ride.cancelled"     -> <<<<"rides_daily", "rides_cancelled">>>>
          [] n = "dispatch.exhausted" -> <<<<"rides_daily", "no_driver_count">>>>
          [] n = "payment.completed"  -> <<<<"payment_mix", "count">>>>
          [] n = "geofence.violation.detected"  -> <<<<"violation_summary", "opened">>>>
          [] n = "geofence.violation.closed"    -> <<<<"violation_summary", "auto_closed">>>>
          [] n = "geofence.violation.escalated" -> <<<<"violation_summary", "escalated">>>>
          [] n = "driver.offline"     -> <<<<"driver_performance", "online_hours">>>>
          [] OTHER -> <<>>
  BY <1>1 DEF Projected, Reports!Projections
<1>3. CASE n = "ride.completed"
  <2>1. Projected(e) = <<<<"rides_daily", "rides_completed">>, <<"driver_performance", "rides">>>>
    BY <1>2, <1>3
  <2>2. QED
    BY <1>1, <1>3, <2>1 DEF Reports!Tables, Reports!Columns
<1>4. CASE n = "ride.cancelled"
  <2>1. Projected(e) = <<<<"rides_daily", "rides_cancelled">>>>
    BY <1>2, <1>4
  <2>2. QED
    BY <1>1, <1>4, <2>1 DEF Reports!Tables, Reports!Columns
<1>5. CASE n = "dispatch.exhausted"
  <2>1. Projected(e) = <<<<"rides_daily", "no_driver_count">>>>
    BY <1>2, <1>5
  <2>2. QED
    BY <1>1, <1>5, <2>1 DEF Reports!Tables, Reports!Columns
<1>6. CASE n = "payment.completed"
  <2>1. Projected(e) = <<<<"payment_mix", "count">>>>
    BY <1>2, <1>6
  <2>2. QED
    BY <1>1, <1>6, <2>1 DEF Reports!Tables, Reports!Columns
<1>7. CASE n = "geofence.violation.detected"
  <2>1. Projected(e) = <<<<"violation_summary", "opened">>>>
    BY <1>2, <1>7
  <2>2. QED
    BY <1>1, <1>7, <2>1 DEF Reports!Tables, Reports!Columns
<1>8. CASE n = "geofence.violation.closed"
  <2>1. Projected(e) = <<<<"violation_summary", "auto_closed">>>>
    BY <1>2, <1>8
  <2>2. QED
    BY <1>1, <1>8, <2>1 DEF Reports!Tables, Reports!Columns
<1>9. CASE n = "geofence.violation.escalated"
  <2>1. Projected(e) = <<<<"violation_summary", "escalated">>>>
    BY <1>2, <1>9
  <2>2. QED
    BY <1>1, <1>9, <2>1 DEF Reports!Tables, Reports!Columns
<1>10. CASE n = "driver.offline"
  <2>1. Projected(e) = <<<<"driver_performance", "online_hours">>>>
    BY <1>2, <1>10
  <2>2. QED
    BY <1>1, <1>10, <2>1 DEF Reports!Tables, Reports!Columns
<1>11. CASE n \notin {"ride.completed", "ride.cancelled", "dispatch.exhausted", "payment.completed",
                      "geofence.violation.detected", "geofence.violation.closed",
                      "geofence.violation.escalated", "driver.offline"}
  <2>1. Projected(e) = <<>>
    BY <1>2, <1>11
  <2>2. QED
    BY <2>1
<1>12. QED
  BY <1>3, <1>4, <1>5, <1>6, <1>7, <1>8, <1>9, <1>10, <1>11

LEMMA NoRowIsNone ==
  ASSUME NEW t \in Reports!Tables
  PROVE  Reports!NoRow \notin Reports!Row(t)
<1> SUFFICES ASSUME Reports!NoRow \in Reports!Row(t)
             PROVE  FALSE
  OBVIOUS
<1>1. DOMAIN Reports!NoRow = {"absent"}
  BY DEF Reports!NoRow
<1>2. DOMAIN Reports!NoRow = Reports!Columns[t]
  BY DEF Reports!Row
<1>3. "absent" \notin Reports!Columns[t]
  BY DEF Reports!Tables, Reports!Columns
<1>4. QED
  BY <1>1, <1>2, <1>3

\* A committed entry adds its event to one counter at most.
LEMMA TallyGrows ==
  ASSUME NEW done, NEW e \in Events, NEW i \in DOMAIN Projected(e), NEW t,
         t = Projected(e)[i][1], <<e, t>> \notin done,
         NEW k, IsFiniteSet(CountedIn(done, t, k))
  PROVE  /\ IsFiniteSet(CountedIn(done \cup {<<e, t>>}, t, k))
         /\ Tally(done \cup {<<e, t>>}, t, k) =
              Tally(done, t, k) + (IF k = Projected(e)[i][2] THEN 1 ELSE 0)
<1>1. PICK S : S = CountedIn(done, t, k)
  OBVIOUS
<1>2. PICK T : T = CountedIn(done \cup {<<e, t>>}, t, k)
  OBVIOUS
<1>3. e \notin S /\ IsFiniteSet(S) /\ Cardinality(S) \in Nat
  BY <1>1, FS_CardinalityType DEF CountedIn
<1>4. \A f : f # e => (f \in T <=> f \in S)
  BY <1>1, <1>2 DEF CountedIn
<1>5. CASE k = Projected(e)[i][2]
  <2>1. Projected(e)[i] = <<t, k>>
    BY <1>5, ProjectionsTyped
  <2>2. e \in T
    BY <1>2, <2>1 DEF CountedIn
  <2>3. T = S \cup {e}
    BY <1>4, <2>2
  <2>4. IsFiniteSet(T) /\ Cardinality(T) = Cardinality(S) + 1
    BY <1>3, <2>3, FS_AddElement
  <2>5. QED
    BY <1>1, <1>2, <1>5, <2>4 DEF Tally
<1>6. CASE k # Projected(e)[i][2]
  <2>1. \A j \in DOMAIN Projected(e) : Projected(e)[j] # <<t, k>>
    BY <1>6, ProjectionsTyped
  <2>2. e \notin T
    BY <1>2, <2>1 DEF CountedIn
  <2>3. T = S
    BY <1>3, <1>4, <2>2
  <2>4. QED
    BY <1>1, <1>2, <1>3, <1>6, <2>3 DEF Tally
<1>7. QED
  BY <1>5, <1>6

-----------------------------------------------------------------------------
(***************************************************************************)
(* What the steps share                                                    *)
(***************************************************************************)
LEMMA ProjectionInit == Reports!Init => ProjectionInv
<1> SUFFICES ASSUME Reports!Init
             PROVE  ProjectionInv
  OBVIOUS
<1>1. /\ processed = {} /\ acked = {} /\ rowsOverlapped = {}
      /\ \A t \in Reports!Tables : rows[t] = Reports!NoRow
      /\ \A w \in Workers : projecting[w] = Reports!Idle
  BY DEF Reports!Init
<1>2. RowsTyped /\ MemoryTyped
  <2>1. rows = [t \in Reports!Tables |-> rows[t]] /\ projecting = [w \in Workers |-> projecting[w]]
    BY DEF Reports!Init
  <2>2. RowsTyped
    BY <1>1, <2>1 DEF RowsTyped
  <2>3. copies \in 0..MaxCopies /\ reportingFaults \in 0..MaxFaults
    BY ReportingAssumption, ProfileAssumption DEF Reports!Init
  <2>4. requestedAt = {} /\ onlineSince = FALSE /\ swallowed = {}
    BY DEF Reports!Init
  <2>5. QED
    BY <2>2, <2>3, <2>4 DEF MemoryTyped
<1>3. \A w \in Workers : ~Transacting(projecting[w])
  BY <1>1 DEF Transacting, Reports!Idle
<1>4. CallsSound
  BY <1>1, <1>3 DEF CallsSound, Apart
<1>5. \A t, k : CountedIn(processed, t, k) = {}
  BY <1>1 DEF CountedIn
<1>6. TablesSound
  BY <1>1, <1>5, FS_EmptySet DEF TablesSound, RowSound
<1>7. AckedDone
  BY <1>1 DEF AckedDone
<1>8. QED
  BY <1>2, <1>4, <1>6, <1>7 DEF ProjectionInv

\* What is known of a call where transactions overlapped, or entries were
\* added, less.
LEMMA CallStays ==
  ASSUME NEW c, NEW table, NEW done, NEW mixed, CallSound(c, table, done, mixed),
         NEW table2, NEW done2, NEW mixed2, mixed \subseteq mixed2, done \subseteq done2,
         NEW t, t = Reports!Table(c),
         Transacting(c) =>
           /\ Reports!Deduplicated(c) => Reports!Key(c) \notin done2
           /\ table[t] # Reports!NoRow => table2[t] # Reports!NoRow
           /\ \A k \in Counters(t) : /\ Tally(done, t, k) \in Nat /\ Tally(done2, t, k) \in Nat
                                     /\ Tally(done, t, k) <= Tally(done2, t, k)
           /\ t \notin mixed2 => /\ table2[t] = table[t]
                                 /\ \A k \in Counters(t) : Tally(done2, t, k) = Tally(done, t, k)
  PROVE  CallSound(c, table2, done2, mixed2)
<1>1. \A i \in 1..(c.step - 1) : StepDone(c.event, i, done2, mixed2)
  BY DEF CallSound, StepDone
<1>2. ASSUME Transacting(c)
      PROVE  EntitySound(c, done2, mixed2)
  <2>1. /\ c.entity \in Reports!Row(t)
        /\ \A k \in Counters(t) :
             /\ c.entity[k] <= Tally(done, t, k) + Adds(c, k)
             /\ t \notin mixed => c.entity[k] = Tally(done, t, k) + Adds(c, k)
    BY <1>2 DEF CallSound, EntitySound
  <2>2. \A k \in Counters(t) : c.entity[k] \in Nat /\ Adds(c, k) \in Nat
    BY <2>1 DEF Counters, Reports!Row, Adds
  <2>3. \A k \in Counters(t) :
          /\ c.entity[k] <= Tally(done2, t, k) + Adds(c, k)
          /\ t \notin mixed2 => c.entity[k] = Tally(done2, t, k) + Adds(c, k)
    BY <1>2, <2>1, <2>2
  <2>4. QED
    BY <1>2, <2>1, <2>3 DEF EntitySound
<1>3. ASSUME c.phase = "saving"
      PROVE  SaveSound(c, table2[t], mixed2)
  <2>1. Transacting(c)
    BY <1>3 DEF Transacting
  <2>2. SaveSound(c, table[t], mixed)
    BY <1>3 DEF CallSound
  <2>3. QED
    BY <2>1, <2>2 DEF SaveSound
<1>4. QED
  BY <1>1, <1>2, <1>3 DEF CallSound

LEMMA TallyIsNat ==
  ASSUME ProjectionInv, NEW t \in Reports!Tables, NEW k \in Counters(t)
  PROVE  Tally(processed, t, k) \in Nat
BY FS_CardinalityType DEF ProjectionInv, TablesSound, Tally

LEMMA TableOfCall ==
  ASSUME NEW c, NEW e \in Events, c.event = e, c.step \in DOMAIN Projected(e)
  PROVE  /\ Reports!Table(c) \in Reports!Tables
         /\ Reports!Column(c) \in Reports!Columns[Reports!Table(c)]
         /\ Reports!Table(c) = Projected(e)[c.step][1]
         /\ Reports!Column(c) = Projected(e)[c.step][2]
         /\ Reports!Key(c) = <<e, Reports!Table(c)>>
BY ProjectionsTyped
   DEF Reports!Table, Reports!Column, Reports!Step, Reports!Key, Projected

\* A handler moves while tables and entries stay.
LEMMA ProjectionMoves ==
  ASSUME ProjectionInv, NEW w \in Workers, NEW call,
         projecting' = [projecting EXCEPT ![w] = call],
         UNCHANGED <<rows, processed>>,
         NEW mixed, mixed = rowsOverlapped', rowsOverlapped \subseteq mixed,
         mixed \subseteq Reports!Tables, MemoryTyped',
         call # Reports!Idle => CallSound(call, rows, processed, mixed),
         \A o \in Workers \ {w} :
           Apart(call, projecting[o], mixed) /\ Apart(projecting[o], call, mixed),
         acked' \subseteq Events,
         \A e \in acked' \ acked : \A i \in DOMAIN Projected(e) : StepDone(e, i, processed, mixed)
  PROVE  ProjectionInv'
<1>1. projecting'[w] = call /\ \A o \in Workers \ {w} : projecting'[o] = projecting[o]
  BY DEF ProjectionInv, RowsTyped
<1>2. RowsTyped'
  BY DEF ProjectionInv, RowsTyped
<1>3. ASSUME NEW o \in Workers \ {w}, projecting[o] # Reports!Idle
      PROVE  CallSound(projecting[o], rows, processed, mixed)
  <2>1. PICK c : c = projecting[o]
    OBVIOUS
  <2>2. PICK e \in Events : c.event = e /\ c.step \in DOMAIN Projected(e)
    BY <1>3, <2>1 DEF ProjectionInv, CallsSound, CallSound
  <2>3. PICK t \in Reports!Tables : t = Reports!Table(c)
    BY <2>2, TableOfCall
  <2>4. CallSound(c, rows, processed, rowsOverlapped)
    BY <1>3, <2>1 DEF ProjectionInv, CallsSound
  <2>5. Transacting(c) /\ Reports!Deduplicated(c) => Reports!Key(c) \notin processed
    BY <2>4 DEF CallSound, EntitySound
  <2>6. \A k \in Counters(t) : Tally(processed, t, k) \in Nat /\ Tally(processed, t, k) <= Tally(processed, t, k)
    BY TallyIsNat
  <2>7. CallSound(c, rows, processed, mixed)
    BY <2>3, <2>4, <2>5, <2>6, CallStays
  <2>8. QED
    BY <2>1, <2>7
<1>4. \A o, u \in Workers \ {w} : o # u => Apart(projecting[o], projecting[u], mixed)
  BY DEF ProjectionInv, CallsSound, Apart
<1>5. CallsSound'
  BY <1>1, <1>3, <1>4 DEF CallsSound
<1>6. TablesSound'
  BY DEF ProjectionInv, TablesSound, RowSound
<1>7. AckedDone'
  BY DEF ProjectionInv, AckedDone, StepDone
<1>8. QED
  BY <1>2, <1>5, <1>6, <1>7 DEF ProjectionInv

LEMMA ApartFrom ==
  ASSUME NEW c, NEW d, NEW mixed, ~Transacting(c)
  PROVE  Apart(c, d, mixed) /\ Apart(d, c, mixed)
BY DEF Apart


-----------------------------------------------------------------------------
(***************************************************************************)
(* The steps of a handler                                                  *)
(***************************************************************************)
LEMMA ArrivesTyped ==
  ASSUME ProjectionInv, NEW e \in Events, Reports!Arrives(e)
  PROVE  copies' \in 0..MaxCopies
<1>1. PICK again : again = (e \in acked \/ Reports!Handling(e))
  OBVIOUS
<1>2. copies \in 0..MaxCopies
  BY DEF ProjectionInv, MemoryTyped
<1>3. CASE again
  BY <1>1, <1>2, <1>3, ReportingAssumption DEF Reports!Arrives
<1>4. CASE ~again
  BY <1>1, <1>2, <1>4 DEF Reports!Arrives
<1>5. QED
  BY <1>3, <1>4

LEMMA RememberStep ==
  ASSUME ProjectionInv, NEW e \in Events, Reports!Remember(e)
  PROVE  ProjectionInv'
<1>1. UNCHANGED <<rows, processed, projecting, swallowed, rowsOverlapped, reportingFaults>>
      /\ acked' = acked \cup {e}
  BY DEF Reports!Remember
<1>2. copies' \in 0..MaxCopies
  BY ArrivesTyped DEF Reports!Remember
<1>3. requestedAt' \subseteq requestedAt \cup {RideOf[e]} /\ onlineSince' \in BOOLEAN
  BY DEF Reports!Remember, ProjectionInv, MemoryTyped
<1>4. RowsTyped' /\ MemoryTyped'
  BY <1>1, <1>2, <1>3 DEF ProjectionInv, RowsTyped, MemoryTyped
<1>5. CallsSound' /\ TablesSound'
  BY <1>1 DEF ProjectionInv, CallsSound, TablesSound
<1>6. \A i \in DOMAIN Projected(e) : StepDone(e, i, processed, rowsOverlapped)
  <2>1. Name[e] \in {"ride.requested", "driver.online", "driver.offline"}
    BY DEF Reports!Remember
  <2>2. CASE Name[e] = "driver.offline"
    BY <2>2 DEF StepDone
  <2>3. CASE Name[e] = "ride.requested"
    <3>1. Projected(e) = <<>>
      BY <2>3 DEF Projected, Reports!Projections
    <3>2. QED
      BY <3>1
  <2>4. CASE Name[e] = "driver.online"
    <3>1. Projected(e) = <<>>
      BY <2>4 DEF Projected, Reports!Projections
    <3>2. QED
      BY <3>1
  <2>5. QED
    BY <2>1, <2>2, <2>3, <2>4
<1>7. AckedDone'
  BY <1>1, <1>6 DEF ProjectionInv, AckedDone
<1>8. QED
  BY <1>4, <1>5, <1>7 DEF ProjectionInv

LEMMA ReceiveStep ==
  ASSUME ProjectionInv, NEW w \in Workers, NEW e \in Events, Reports!Receive(w, e)
  PROVE  ProjectionInv'
<1>1. PICK call : call = [phase |-> "begin", event |-> e, step |-> 1,
                          timed |-> Name[e] = "ride.completed" /\ RideOf[e] \in requestedAt]
  OBVIOUS
<1>2. /\ projecting' = [projecting EXCEPT ![w] = call] /\ Projected(e) # <<>>
      /\ UNCHANGED <<rows, processed, swallowed, rowsOverlapped, reportingFaults>>
      /\ requestedAt' \subseteq requestedAt
      /\ acked' = acked \/ (acked' = acked \cup {e} /\ Name[e] = "driver.offline")
  BY <1>1 DEF Reports!Receive, Projected
<1>3. copies' \in 0..MaxCopies
  BY ArrivesTyped DEF Reports!Receive
<1>4. onlineSince' \in BOOLEAN
  BY DEF Reports!Receive, ProjectionInv, MemoryTyped
<1>5. MemoryTyped'
  BY <1>2, <1>3, <1>4 DEF ProjectionInv, MemoryTyped
<1>6. 1 \in DOMAIN Projected(e)
  BY <1>2, ProjectionsTyped
<1>7. ~Transacting(call) /\ call.phase # "saving"
  BY <1>1 DEF Transacting
<1>8. CallSound(call, rows, processed, rowsOverlapped)
  BY <1>1, <1>6, <1>7 DEF CallSound
<1>9. \A f \in acked' \ acked : \A i \in DOMAIN Projected(f) :
        StepDone(f, i, processed, rowsOverlapped)
  BY <1>2 DEF StepDone
<1>10. acked' \subseteq Events /\ rowsOverlapped \subseteq Reports!Tables
  BY <1>2 DEF ProjectionInv, RowsTyped
<1>11. \A o \in Workers \ {w} :
         /\ Apart(call, projecting[o], rowsOverlapped)
         /\ Apart(projecting[o], call, rowsOverlapped)
  BY <1>7, ApartFrom
<1>12. QED
  BY <1>2, <1>5, <1>8, <1>9, <1>10, <1>11, ProjectionMoves

\* A projection that is done takes the handler to the next one or to its end.
LEMMA AdvanceMoves ==
  ASSUME ProjectionInv, NEW w \in Workers, NEW c, c = projecting[w], c # Reports!Idle,
         Reports!Advance(w),
         NEW done, processed \subseteq done, NEW mixed, rowsOverlapped \subseteq mixed,
         StepDone(c.event, c.step, done, mixed)
  PROVE  \E call :
           /\ projecting' = [projecting EXCEPT ![w] = call] /\ ~Transacting(call)
           /\ call # Reports!Idle => \A table : CallSound(call, table, done, mixed)
           /\ acked' \subseteq Events
           /\ \A e \in acked' \ acked : \A i \in DOMAIN Projected(e) : StepDone(e, i, done, mixed)
<1>1. CallSound(c, rows, processed, rowsOverlapped)
  BY DEF ProjectionInv, CallsSound
<1>2. PICK e \in Events : e = c.event
  BY <1>1 DEF CallSound
<1>3. PICK s \in DOMAIN Projected(e) : s = c.step
  BY <1>1, <1>2 DEF CallSound
<1>4. PICK n \in {0, 1, 2} : n = Len(Projected(e)) /\ DOMAIN Projected(e) = 1..n
  BY ProjectionsTyped
<1>5. \A i \in 1..s : StepDone(e, i, done, mixed)
  BY <1>1, <1>2, <1>3, <1>4 DEF CallSound, StepDone
<1>6. CASE s < n
  <2>1. PICK call : call = [phase |-> "begin", event |-> e, step |-> s + 1, timed |-> c.timed]
    OBVIOUS
  <2>2. projecting' = [projecting EXCEPT ![w] = call] /\ acked' = acked
    BY <1>2, <1>3, <1>4, <1>6, <2>1 DEF Reports!Advance, Projected
  <2>3. ~Transacting(call) /\ call.phase # "saving"
    BY <2>1 DEF Transacting
  <2>4. s + 1 \in DOMAIN Projected(e) /\ (s + 1) - 1 = s
    BY <1>3, <1>4, <1>6
  <2>5. \A table : CallSound(call, table, done, mixed)
    BY <1>5, <2>1, <2>3, <2>4 DEF CallSound
  <2>6. acked' \subseteq Events
    BY <2>2 DEF ProjectionInv, RowsTyped
  <2>7. QED
    BY <2>2, <2>3, <2>5, <2>6
<1>7. CASE ~(s < n)
  <2>1. projecting' = [projecting EXCEPT ![w] = Reports!Idle] /\ acked' = acked \cup {e}
    BY <1>2, <1>3, <1>4, <1>7 DEF Reports!Advance, Projected
  <2>2. DOMAIN Projected(e) = 1..s
    BY <1>3, <1>4, <1>7
  <2>3. ~Transacting(Reports!Idle)
    BY DEF Transacting, Reports!Idle
  <2>4. acked' \subseteq Events
    BY <2>1 DEF ProjectionInv, RowsTyped
  <2>5. \A f \in acked' \ acked : \A i \in DOMAIN Projected(f) : StepDone(f, i, done, mixed)
    BY <1>5, <2>1, <2>2
  <2>6. QED
    BY <2>1, <2>3, <2>4, <2>5
<1>8. QED
  BY <1>6, <1>7

\* The handler advances over a projection whose entry is there, or was lost to
\* another transaction.
LEMMA AdvanceStep ==
  ASSUME ProjectionInv, NEW w \in Workers, projecting[w] # Reports!Idle, Reports!Advance(w),
         StepDone(projecting[w].event, projecting[w].step, processed, rowsOverlapped),
         UNCHANGED <<rows, processed, rowsOverlapped>>, MemoryTyped'
  PROVE  ProjectionInv'
<1>1. PICK done, mixed : done = processed /\ mixed = rowsOverlapped
  OBVIOUS
<1>2. PICK call :
        /\ projecting' = [projecting EXCEPT ![w] = call] /\ ~Transacting(call)
        /\ call # Reports!Idle => \A table : CallSound(call, table, done, mixed)
        /\ acked' \subseteq Events
        /\ \A e \in acked' \ acked : \A i \in DOMAIN Projected(e) : StepDone(e, i, done, mixed)
  BY <1>1, AdvanceMoves
<1>3. \A o \in Workers \ {w} :
        Apart(call, projecting[o], mixed) /\ Apart(projecting[o], call, mixed)
  BY <1>2, ApartFrom
<1>4. mixed \subseteq Reports!Tables
  BY <1>1 DEF ProjectionInv, RowsTyped
<1>5. QED
  BY <1>1, <1>2, <1>3, <1>4, ProjectionMoves

\* A call that is under way, and the projection it is at.
LEMMA CallAtWork ==
  ASSUME ProjectionInv, NEW w \in Workers, NEW c, c = projecting[w],
         c.phase \in {"begin", "applying", "saving"}
  PROVE  /\ c # Reports!Idle /\ CallSound(c, rows, processed, rowsOverlapped)
         /\ c.event \in Events /\ c.step \in DOMAIN Projected(c.event)
         /\ Reports!Table(c) \in Reports!Tables
         /\ Reports!Column(c) \in Reports!Columns[Reports!Table(c)]
         /\ Reports!Table(c) = Projected(c.event)[c.step][1]
         /\ Reports!Column(c) = Projected(c.event)[c.step][2]
         /\ Reports!Key(c) = <<c.event, Reports!Table(c)>>
         /\ Reports!Deduplicated(c) <=> Name[c.event] # "driver.offline"
         /\ Reports!Deduplicated(c) <=> Reports!Column(c) # "online_hours"
<1>1. c # Reports!Idle
  BY DEF Reports!Idle
<1>2. CallSound(c, rows, processed, rowsOverlapped)
  BY <1>1 DEF ProjectionInv, CallsSound
<1>3. c.event \in Events /\ c.step \in DOMAIN Projected(c.event)
  BY <1>2 DEF CallSound
<1>4. /\ Reports!Table(c) \in Reports!Tables
      /\ Reports!Column(c) \in Reports!Columns[Reports!Table(c)]
      /\ Reports!Table(c) = Projected(c.event)[c.step][1]
      /\ Reports!Column(c) = Projected(c.event)[c.step][2]
      /\ Reports!Key(c) = <<c.event, Reports!Table(c)>>
  BY <1>3, TableOfCall
<1>5. Reports!Deduplicated(c) <=> Name[c.event] # "driver.offline"
  BY DEF Reports!Deduplicated
<1>6. Name[c.event] = "driver.offline" <=> Projected(c.event)[c.step][2] = "online_hours"
  BY <1>3, ProjectionsTyped
<1>7. QED
  BY <1>1, <1>2, <1>3, <1>4, <1>5, <1>6

LEMMA SkipStep ==
  ASSUME ProjectionInv, NEW w \in Workers, Reports!SkipProcessed(w)
  PROVE  ProjectionInv'
<1>1. PICK c : c = projecting[w]
  OBVIOUS
<1>2. /\ c.phase = "begin" /\ Reports!Key(c) \in processed /\ Reports!Advance(w)
      /\ UNCHANGED <<rows, processed, requestedAt, onlineSince, swallowed, rowsOverlapped,
                     copies, reportingFaults>>
  BY <1>1 DEF Reports!SkipProcessed
<1>3. c # Reports!Idle /\ StepDone(c.event, c.step, processed, rowsOverlapped)
  BY <1>1, <1>2, CallAtWork DEF StepDone
<1>4. MemoryTyped'
  BY <1>2 DEF ProjectionInv, MemoryTyped
<1>5. QED
  BY <1>1, <1>2, <1>3, <1>4, AdvanceStep

LEMMA SwallowStep ==
  ASSUME ProjectionInv, NEW w \in Workers, Reports!SwallowConflict(w)
  PROVE  ProjectionInv'
<1>1. PICK c : c = projecting[w]
  OBVIOUS
<1>2. PICK t : t = Reports!Table(c)
  OBVIOUS
<1>3. /\ c.phase = "saving" /\ c.insert /\ rows[t] # Reports!NoRow /\ Reports!Advance(w)
      /\ swallowed' = swallowed \cup {Reports!Key(c)}
      /\ UNCHANGED <<rows, processed, requestedAt, onlineSince, rowsOverlapped, copies,
                     reportingFaults>>
  BY <1>1, <1>2 DEF Reports!SwallowConflict
<1>4. /\ c # Reports!Idle /\ t \in Reports!Tables /\ Reports!Key(c) = <<c.event, t>>
      /\ c.event \in Events /\ t = Projected(c.event)[c.step][1]
      /\ SaveSound(c, rows[t], rowsOverlapped)
  BY <1>1, <1>2, <1>3, CallAtWork DEF CallSound
<1>5. t \in rowsOverlapped
  BY <1>2, <1>3, <1>4 DEF SaveSound
<1>6. StepDone(c.event, c.step, processed, rowsOverlapped)
  BY <1>4, <1>5 DEF StepDone
<1>7. MemoryTyped'
  BY <1>3, <1>4 DEF ProjectionInv, MemoryTyped
<1>8. QED
  BY <1>1, <1>3, <1>4, <1>6, <1>7, AdvanceStep

LEMMA ProjectionFails ==
  ASSUME ProjectionInv, NEW w \in Workers, Reports!Fail(w)
  PROVE  ProjectionInv'
<1>1. /\ projecting' = [projecting EXCEPT ![w] = Reports!Idle]
      /\ UNCHANGED <<rows, processed, requestedAt, onlineSince, acked, swallowed,
                     rowsOverlapped, copies>>
  BY DEF Reports!Fail
<1>2. reportingFaults' \in 0..MaxFaults
  BY ProfileAssumption DEF Reports!Fail, ProjectionInv, MemoryTyped
<1>3. MemoryTyped'
  BY <1>1, <1>2 DEF ProjectionInv, MemoryTyped
<1>4. ~Transacting(Reports!Idle)
  BY DEF Transacting, Reports!Idle
<1>5. acked' \subseteq Events /\ rowsOverlapped \subseteq Reports!Tables
  BY <1>1 DEF ProjectionInv, RowsTyped
<1>6. \A o \in Workers \ {w} : /\ Apart(Reports!Idle, projecting[o], rowsOverlapped)
                               /\ Apart(projecting[o], Reports!Idle, rowsOverlapped)
  BY <1>4, ApartFrom
<1>7. QED
  BY <1>1, <1>3, <1>5, <1>6, ProjectionMoves

LEMMA ProjectionRestarts ==
  ASSUME ProjectionInv, Reports!Restart
  PROVE  ProjectionInv'
<1>1. /\ projecting' = [w \in Workers |-> Reports!Idle]
      /\ requestedAt' = {} /\ onlineSince' = FALSE
      /\ UNCHANGED <<rows, processed, acked, swallowed, rowsOverlapped, copies>>
  BY DEF Reports!Restart
<1>2. reportingFaults' \in 0..MaxFaults
  BY ProfileAssumption DEF Reports!Restart, ProjectionInv, MemoryTyped
<1>3. MemoryTyped'
  BY <1>1, <1>2 DEF ProjectionInv, MemoryTyped
<1>4. RowsTyped'
  BY <1>1 DEF ProjectionInv, RowsTyped
<1>5. \A w \in Workers : projecting'[w] = Reports!Idle /\ ~Transacting(projecting'[w])
  BY <1>1 DEF Transacting, Reports!Idle
<1>6. CallsSound'
  BY <1>5 DEF CallsSound, Apart
<1>7. TablesSound' /\ AckedDone'
  BY <1>1 DEF ProjectionInv, TablesSound, AckedDone
<1>8. QED
  BY <1>3, <1>4, <1>6, <1>7 DEF ProjectionInv


-----------------------------------------------------------------------------
(***************************************************************************)
(* A transaction: it counts, compares and commits                          *)
(***************************************************************************)
LEMMA ApplyStep ==
  ASSUME ProjectionInv, NEW w \in Workers, Reports!Apply(w)
  PROVE  ProjectionInv'
<1>1. PICK c : c = projecting[w]
  OBVIOUS
<1>2. PICK t : t = Reports!Table(c)
  OBVIOUS
<1>3. PICK row : row = Reports!Found(t)
  OBVIOUS
<1>4. PICK entity : entity = Reports!Added(c, row)
  OBVIOUS
<1>5. PICK call : call = [phase |-> "applying", event |-> c.event, step |-> c.step,
                          timed |-> c.timed, entity |-> entity]
  OBVIOUS
<1>6. PICK mixed : mixed = rowsOverlapped'
  OBVIOUS
<1>7. /\ c.phase = "begin" /\ projecting' = [projecting EXCEPT ![w] = call]
      /\ UNCHANGED <<rows, processed, requestedAt, onlineSince, acked, swallowed, copies,
                     reportingFaults>>
      /\ Reports!Deduplicated(c) =>
           Reports!Key(c) \notin processed \cup
             {Reports!Key(projecting[o]) : o \in {o \in Workers : Reports!InTransaction(o)}}
      /\ mixed = IF \E o \in Workers : /\ Reports!InTransaction(o)
                                       /\ Reports!Table(projecting[o]) = t
                   THEN rowsOverlapped \cup {t} ELSE rowsOverlapped
  BY <1>1, <1>2, <1>3, <1>4, <1>5, <1>6 DEF Reports!Apply
<1>8. /\ CallSound(c, rows, processed, rowsOverlapped)
      /\ c.event \in Events /\ c.step \in DOMAIN Projected(c.event)
      /\ t \in Reports!Tables /\ Reports!Column(c) \in Reports!Columns[t]
      /\ Reports!Key(c) = <<c.event, t>>
      /\ Reports!Deduplicated(c) <=> Name[c.event] # "driver.offline"
  BY <1>1, <1>2, <1>7, CallAtWork
<1>9. /\ Reports!Table(call) = t /\ Reports!Column(call) = Reports!Column(c)
      /\ Reports!Key(call) = Reports!Key(c)
      /\ Reports!Deduplicated(call) <=> Reports!Deduplicated(c)
      /\ Transacting(call) /\ call.phase # "saving" /\ call.entity = entity
  BY <1>2, <1>5 DEF Reports!Table, Reports!Column, Reports!Step, Reports!Key,
                    Reports!Deduplicated, Transacting
<1>10. rowsOverlapped \subseteq mixed /\ mixed \subseteq Reports!Tables
       /\ (t \notin mixed => t \notin rowsOverlapped)
  BY <1>7, <1>8 DEF ProjectionInv, RowsTyped
<1>11. row \in Reports!Row(t)
  <2>1. CASE rows[t] = Reports!NoRow
    <3>1. row = [k \in Reports!Columns[t] |-> 0]
      BY <1>3, <2>1 DEF Reports!Found
    <3>2. QED
      BY <3>1 DEF Reports!Row
  <2>2. CASE rows[t] # Reports!NoRow
    BY <1>3, <1>8, <2>2 DEF Reports!Found, ProjectionInv, RowsTyped
  <2>3. QED
    BY <2>1, <2>2
<1>12. /\ entity \in Reports!Row(t)
       /\ \A k \in Counters(t) : entity[k] = row[k] + Adds(c, k)
  <2>1. DOMAIN row = Reports!Columns[t] /\ \A k \in Reports!Columns[t] : row[k] \in Nat
    BY <1>11 DEF Reports!Row
  <2>2. entity = [k \in Reports!Columns[t] |->
          row[k] + (IF k = Reports!Column(c) \/ (k = "match_times" /\ c.timed) THEN 1 ELSE 0)]
    BY <1>4, <2>1 DEF Reports!Added
  <2>3. QED
    BY <2>1, <2>2 DEF Reports!Row, Counters, Adds
<1>13. \A k \in Counters(t) : /\ row[k] <= Tally(processed, t, k)
                              /\ t \notin mixed => row[k] = Tally(processed, t, k)
  <2>1. RowSound(t, rows[t], processed, rowsOverlapped)
    BY <1>8 DEF ProjectionInv, TablesSound
  <2>2. CASE rows[t] = Reports!NoRow
    <3>1. \A k : CountedIn(processed, t, k) = {}
      BY <2>1, <2>2 DEF RowSound, CountedIn
    <3>2. \A k : Tally(processed, t, k) = 0
      BY <3>1, FS_EmptySet DEF Tally
    <3>3. \A k \in Reports!Columns[t] : row[k] = 0
      BY <1>3, <2>2 DEF Reports!Found
    <3>4. QED
      BY <3>2, <3>3 DEF Counters
  <2>3. CASE rows[t] # Reports!NoRow
    BY <1>3, <1>10, <2>1, <2>3 DEF RowSound, Reports!Found
  <2>4. QED
    BY <2>2, <2>3
<1>14. \A k \in Counters(t) :
         /\ entity[k] <= Tally(processed, t, k) + Adds(c, k)
         /\ t \notin mixed => entity[k] = Tally(processed, t, k) + Adds(c, k)
  <2>1. \A k \in Counters(t) : /\ Tally(processed, t, k) \in Nat /\ Adds(c, k) \in Nat
                               /\ row[k] \in Nat
    BY <1>8, <1>11, TallyIsNat DEF Adds, Reports!Row, Counters
  <2>2. QED
    BY <1>12, <1>13, <2>1
<1>15. EntitySound(call, processed, mixed)
  BY <1>7, <1>9, <1>12, <1>14 DEF EntitySound, Adds
<1>16. CallSound(call, rows, processed, mixed)
  BY <1>5, <1>8, <1>9, <1>10, <1>15 DEF CallSound, StepDone
<1>17. ASSUME NEW o \in Workers \ {w}, Transacting(projecting[o])
       PROVE  Apart(call, projecting[o], mixed) /\ Apart(projecting[o], call, mixed)
  <2>1. PICK d : d = projecting[o]
    OBVIOUS
  <2>2. Reports!InTransaction(o) /\ d.phase \in {"begin", "applying", "saving"}
    BY <1>17, <2>1 DEF Transacting, Reports!InTransaction
  <2>3. /\ Reports!Key(d) = <<d.event, Reports!Table(d)>>
        /\ Reports!Deduplicated(d) <=> Name[d.event] # "driver.offline"
    BY <2>1, <2>2, CallAtWork
  <2>4. Reports!Table(d) = t => t \in mixed
    BY <1>7, <2>1, <2>2
  <2>5. Reports!Deduplicated(c) => Reports!Key(c) # Reports!Key(d)
    BY <1>7, <2>1, <2>2
  <2>6. Reports!Deduplicated(d) /\ ~Reports!Deduplicated(c) => Reports!Key(c) # Reports!Key(d)
    BY <1>8, <2>3
  <2>7. QED
    BY <1>9, <2>1, <2>4, <2>5, <2>6 DEF Apart
<1>18. \A o \in Workers \ {w} :
         Apart(call, projecting[o], mixed) /\ Apart(projecting[o], call, mixed)
  BY <1>17 DEF Apart
<1>19. MemoryTyped' /\ acked' \subseteq Events /\ acked' \ acked = {}
  BY <1>7 DEF ProjectionInv, MemoryTyped, RowsTyped
<1>20. QED
  BY <1>6, <1>7, <1>10, <1>16, <1>18, <1>19, ProjectionMoves

LEMMA CompareStep ==
  ASSUME ProjectionInv, NEW w \in Workers, Reports!Compare(w)
  PROVE  ProjectionInv'
<1>1. PICK c : c = projecting[w]
  OBVIOUS
<1>2. PICK t : t = Reports!Table(c)
  OBVIOUS
<1>3. PICK columns :
        columns = {k \in Reports!Columns[t] : rows[t] = Reports!NoRow \/ rows[t][k] # c.entity[k]}
  OBVIOUS
<1>4. PICK insert \in BOOLEAN : insert = (rows[t] = Reports!NoRow)
  OBVIOUS
<1>5. PICK call : call = [phase |-> "saving", event |-> c.event, step |-> c.step,
                          timed |-> c.timed, entity |-> c.entity, insert |-> insert,
                          columns |-> columns]
  OBVIOUS
<1>6. /\ c.phase = "applying" /\ projecting' = [projecting EXCEPT ![w] = call]
      /\ UNCHANGED <<rows, processed, requestedAt, onlineSince, acked, swallowed,
                     rowsOverlapped, copies, reportingFaults>>
  BY <1>1, <1>2, <1>3, <1>4, <1>5 DEF Reports!Compare
<1>7. /\ CallSound(c, rows, processed, rowsOverlapped) /\ t \in Reports!Tables
  BY <1>1, <1>2, <1>6, CallAtWork
<1>8. /\ Reports!Table(call) = t /\ Reports!Column(call) = Reports!Column(c)
      /\ Reports!Key(call) = Reports!Key(c)
      /\ Reports!Deduplicated(call) <=> Reports!Deduplicated(c)
      /\ Transacting(call) /\ Transacting(c) /\ call.entity = c.entity
      /\ call.insert = insert /\ call.columns = columns
      /\ call.event = c.event /\ call.step = c.step /\ call.phase = "saving"
  BY <1>2, <1>5, <1>6 DEF Reports!Table, Reports!Column, Reports!Step, Reports!Key,
                          Reports!Deduplicated, Transacting
<1>9. EntitySound(call, processed, rowsOverlapped)
  BY <1>2, <1>7, <1>8 DEF CallSound, EntitySound, Adds
<1>10. SaveSound(call, rows[t], rowsOverlapped)
  <2>1. insert => columns = Reports!Columns[t]
    BY <1>3, <1>4
  <2>2. \A k \in Reports!Columns[t] \ columns : rows[t][k] = c.entity[k]
    BY <1>3
  <2>3. QED
    BY <1>4, <1>8, <2>1, <2>2 DEF SaveSound
<1>11. CallSound(call, rows, processed, rowsOverlapped)
  BY <1>7, <1>8, <1>9, <1>10 DEF CallSound
<1>12. \A o \in Workers \ {w} : /\ Apart(c, projecting[o], rowsOverlapped)
                                /\ Apart(projecting[o], c, rowsOverlapped)
  BY <1>1 DEF ProjectionInv, CallsSound
<1>13. \A o \in Workers \ {w} : /\ Apart(call, projecting[o], rowsOverlapped)
                                /\ Apart(projecting[o], call, rowsOverlapped)
  BY <1>2, <1>8, <1>12 DEF Apart
<1>14. /\ MemoryTyped' /\ acked' \subseteq Events /\ acked' \ acked = {}
       /\ rowsOverlapped \subseteq Reports!Tables
  BY <1>6 DEF ProjectionInv, MemoryTyped, RowsTyped
<1>15. QED
  BY <1>6, <1>11, <1>13, <1>14, ProjectionMoves

LEMMA CommitStep ==
  ASSUME ProjectionInv, NEW w \in Workers, Reports!Commit(w)
  PROVE  ProjectionInv'
<1>1. PICK c : c = projecting[w]
  OBVIOUS
<1>2. PICK t, e : t = Reports!Table(c) /\ e = c.event
  OBVIOUS
<1>3. PICK done, mixed : done = processed' /\ mixed = rowsOverlapped
  OBVIOUS
<1>4. PICK row : row = [k \in Reports!Columns[t] |->
                          IF k \in c.columns THEN c.entity[k] ELSE rows[t][k]]
  OBVIOUS
<1>5. /\ c.phase = "saving" /\ (c.insert => rows[t] = Reports!NoRow)
      /\ rows' = [rows EXCEPT ![t] = row]
      /\ done = IF Reports!Deduplicated(c) THEN processed \cup {Reports!Key(c)} ELSE processed
      /\ Reports!Advance(w)
      /\ UNCHANGED <<requestedAt, onlineSince, swallowed, rowsOverlapped, copies,
                     reportingFaults>>
  BY <1>1, <1>2, <1>3, <1>4 DEF Reports!Commit
<1>6. /\ CallSound(c, rows, processed, mixed) /\ Transacting(c)
      /\ c # Reports!Idle /\ e \in Events /\ c.step \in DOMAIN Projected(e)
      /\ t \in Reports!Tables /\ Reports!Column(c) \in Reports!Columns[t]
      /\ t = Projected(e)[c.step][1] /\ Reports!Column(c) = Projected(e)[c.step][2]
      /\ Reports!Key(c) = <<e, t>>
      /\ Reports!Deduplicated(c) <=> Name[e] # "driver.offline"
      /\ Reports!Deduplicated(c) <=> Reports!Column(c) # "online_hours"
  BY <1>1, <1>2, <1>3, <1>5, CallAtWork DEF Transacting
<1>7. EntitySound(c, processed, mixed) /\ SaveSound(c, rows[t], mixed)
  BY <1>2, <1>5, <1>6 DEF CallSound
<1>8. /\ rows'[t] = row /\ \A u \in Reports!Tables \ {t} : rows'[u] = rows[u]
      /\ rows' = [u \in Reports!Tables |-> rows'[u]]
  BY <1>5, <1>6 DEF ProjectionInv, RowsTyped
<1>9. \A k \in Counters(t) :
        /\ IsFiniteSet(CountedIn(done, t, k)) /\ Tally(processed, t, k) \in Nat
        /\ Tally(done, t, k) = Tally(processed, t, k) + Adds(c, k) /\ Adds(c, k) \in {0, 1}
  <2> SUFFICES ASSUME NEW k \in Counters(t)
               PROVE  /\ IsFiniteSet(CountedIn(done, t, k)) /\ Tally(processed, t, k) \in Nat
                      /\ Tally(done, t, k) = Tally(processed, t, k) + Adds(c, k)
                      /\ Adds(c, k) \in {0, 1}
    OBVIOUS
  <2>1. IsFiniteSet(CountedIn(processed, t, k)) /\ Tally(processed, t, k) \in Nat
    BY <1>6, TallyIsNat DEF ProjectionInv, TablesSound
  <2>2. CASE Reports!Deduplicated(c)
    <3>1. done = processed \cup {<<e, t>>} /\ <<e, t>> \notin processed
      BY <1>5, <1>6, <1>7, <2>2 DEF EntitySound
    <3>2. PICK before : before = processed
      OBVIOUS
    <3>3. PICK i : i = c.step /\ i \in DOMAIN Projected(e) /\ t = Projected(e)[i][1]
      BY <1>6
    <3>4. IsFiniteSet(CountedIn(before, t, k)) /\ <<e, t>> \notin before
      BY <2>1, <3>1, <3>2
    <3>5. /\ IsFiniteSet(CountedIn(before \cup {<<e, t>>}, t, k))
          /\ Tally(before \cup {<<e, t>>}, t, k) =
               Tally(before, t, k) + (IF k = Projected(e)[i][2] THEN 1 ELSE 0)
      BY <1>6, <3>3, <3>4, TallyGrows
    <3>6. Adds(c, k) = IF k = Projected(e)[i][2] THEN 1 ELSE 0
      BY <1>6, <3>3 DEF Adds
    <3>7. QED
      BY <2>1, <3>1, <3>2, <3>5, <3>6
  <2>3. CASE ~Reports!Deduplicated(c)
    <3>1. done = processed
      BY <1>5, <2>3
    <3>2. Adds(c, k) = 0
      BY <1>6, <2>3 DEF Adds, Counters
    <3>3. QED
      BY <2>1, <3>1, <3>2
  <2>4. QED
    BY <2>2, <2>3
<1>10. \A u \in Reports!Tables \ {t} : \A k : CountedIn(done, u, k) = CountedIn(processed, u, k)
  <2>1. done = processed \cup {<<e, t>>} \/ done = processed
    BY <1>5, <1>6
  <2>2. PICK before : before = processed
    OBVIOUS
  <2>3. \A u \in Reports!Tables \ {t} : \A k :
          CountedIn(before \cup {<<e, t>>}, u, k) = CountedIn(before, u, k)
    <3> SUFFICES ASSUME NEW u \in Reports!Tables \ {t}, NEW k
                 PROVE  CountedIn(before \cup {<<e, t>>}, u, k) = CountedIn(before, u, k)
      OBVIOUS
    <3>1. u # t
      OBVIOUS
    <3>2. QED
      BY <3>1 DEF CountedIn
  <2>4. QED
    BY <2>1, <2>2, <2>3
<1>11. /\ row \in Reports!Row(t)
       /\ \A k \in Counters(t) : /\ row[k] <= Tally(done, t, k)
                                 /\ t \notin mixed => row[k] = Tally(done, t, k)
  <2>1. /\ c.entity \in Reports!Row(t)
        /\ \A k \in Counters(t) :
             /\ c.entity[k] <= Tally(done, t, k)
             /\ t \notin mixed => c.entity[k] = Tally(done, t, k)
    BY <1>2, <1>7, <1>9 DEF EntitySound
  <2>2. /\ rows[t] \in Reports!Row(t) \cup {Reports!NoRow}
        /\ RowSound(t, rows[t], processed, mixed)
    BY <1>3, <1>6 DEF ProjectionInv, RowsTyped, TablesSound
  <2>3. c.columns # Reports!Columns[t] => rows[t] # Reports!NoRow /\ rows[t] \in Reports!Row(t)
    BY <1>2, <1>7, <2>2 DEF SaveSound
  <2>4. ASSUME NEW k \in Reports!Columns[t]
        PROVE  row[k] \in Nat
    BY <1>4, <2>1, <2>3, <2>4 DEF Reports!Row
  <2>5. row \in Reports!Row(t)
    BY <1>4, <2>4 DEF Reports!Row
  <2>6. ASSUME NEW k \in Counters(t)
        PROVE  /\ row[k] <= Tally(done, t, k)
               /\ t \notin mixed => row[k] = Tally(done, t, k)
    <3>1. k \in Reports!Columns[t]
      BY DEF Counters
    <3>2. CASE k \in c.columns
      BY <1>4, <2>1, <3>1, <3>2
    <3>3. CASE k \notin c.columns
      <4>1. row[k] = rows[t][k] /\ rows[t] # Reports!NoRow /\ rows[t][k] \in Nat
        BY <1>4, <2>3, <3>1, <3>3 DEF Reports!Row
      <4>2. rows[t][k] <= Tally(processed, t, k)
        BY <2>2, <4>1 DEF RowSound
      <4>3. t \notin mixed => rows[t][k] = c.entity[k]
        BY <1>2, <1>7, <3>1, <3>3 DEF SaveSound
      <4>4. QED
        BY <1>9, <2>1, <4>1, <4>2, <4>3
    <3>4. QED
      BY <3>2, <3>3
  <2>7. QED
    BY <2>5, <2>6
<1>12. row # Reports!NoRow
  BY <1>6, <1>11, NoRowIsNone
<1>13. processed \subseteq done /\ done \subseteq Events \X Reports!Tables
  BY <1>5, <1>6 DEF ProjectionInv, RowsTyped
<1>14. PICK call :
        /\ projecting' = [projecting EXCEPT ![w] = call] /\ ~Transacting(call)
        /\ call # Reports!Idle => \A table : CallSound(call, table, done, mixed)
        /\ acked' \subseteq Events
        /\ \A f \in acked' \ acked : \A i \in DOMAIN Projected(f) : StepDone(f, i, done, mixed)
  <2>1. StepDone(c.event, c.step, done, mixed)
    BY <1>2, <1>5, <1>6 DEF StepDone
  <2>2. QED
    BY <1>1, <1>3, <1>5, <1>6, <1>13, <2>1, AdvanceMoves
<1>15. projecting'[w] = call /\ \A o \in Workers \ {w} : projecting'[o] = projecting[o]
  BY <1>14 DEF ProjectionInv, RowsTyped
<1>16. MemoryTyped' /\ RowsTyped'
  <2>1. MemoryTyped'
    BY <1>5 DEF ProjectionInv, MemoryTyped
  <2>2. \A u \in Reports!Tables : rows'[u] \in Reports!Row(u) \cup {Reports!NoRow}
    BY <1>8, <1>11 DEF ProjectionInv, RowsTyped
  <2>3. projecting' = [o \in Workers |-> projecting'[o]]
    BY <1>14 DEF ProjectionInv, RowsTyped
  <2>4. QED
    BY <1>3, <1>5, <1>8, <1>13, <1>14, <2>1, <2>2, <2>3 DEF ProjectionInv, RowsTyped
<1>17. TablesSound'
  <2>1. RowSound(t, row, done, mixed)
    BY <1>11, <1>12 DEF RowSound
  <2>2. ASSUME NEW u \in Reports!Tables \ {t}
        PROVE  /\ RowSound(u, rows[u], done, mixed)
               /\ \A k \in Counters(u) : IsFiniteSet(CountedIn(done, u, k))
    <3>1. /\ RowSound(u, rows[u], processed, mixed)
          /\ \A k \in Counters(u) : IsFiniteSet(CountedIn(processed, u, k))
      BY <1>3 DEF ProjectionInv, TablesSound
    <3>2. \A k : Tally(done, u, k) = Tally(processed, u, k)
      BY <1>10 DEF Tally
    <3>3. \A f \in Events : <<f, u>> \in done <=> <<f, u>> \in processed
      BY <1>5, <1>6
    <3>4. QED
      BY <1>10, <3>1, <3>2, <3>3 DEF RowSound
  <2>3. QED
    BY <1>3, <1>5, <1>8, <1>9, <2>1, <2>2 DEF TablesSound
<1>18. ASSUME NEW o \in Workers \ {w}, projecting[o] # Reports!Idle
       PROVE  CallSound(projecting[o], rows', done, mixed)
  <2>1. PICK d : d = projecting[o]
    OBVIOUS
  <2>2. CallSound(d, rows, processed, mixed)
    BY <1>3, <1>18, <2>1 DEF ProjectionInv, CallsSound
  <2>3. PICK u : u = Reports!Table(d)
    OBVIOUS
  <2>4. u \in Reports!Tables
    BY <2>1, <2>2, <2>3, CallAtWork DEF CallSound
  <2>5. Apart(c, d, mixed) /\ Apart(d, c, mixed)
    BY <1>1, <1>3, <2>1 DEF ProjectionInv, CallsSound
  <2>6. ASSUME Transacting(d)
        PROVE  /\ Reports!Deduplicated(d) => Reports!Key(d) \notin done
               /\ rows[u] # Reports!NoRow => rows'[u] # Reports!NoRow
               /\ \A k \in Counters(u) : /\ Tally(processed, u, k) \in Nat /\ Tally(done, u, k) \in Nat
                                         /\ Tally(processed, u, k) <= Tally(done, u, k)
               /\ u \notin mixed => /\ rows'[u] = rows[u]
                                    /\ \A k \in Counters(u) : Tally(done, u, k) = Tally(processed, u, k)
    <3>1. Reports!Deduplicated(d) => Reports!Key(d) \notin done
      BY <1>5, <1>6, <2>2, <2>5, <2>6 DEF CallSound, EntitySound, Apart
    <3>2. CASE u = t
      <4>1. u \in mixed
        BY <1>2, <1>6, <2>3, <2>5, <2>6, <3>2 DEF Apart
      <4>2. QED
        BY <1>8, <1>9, <1>12, <3>1, <3>2, <4>1
    <3>3. CASE u # t
      <4>1. \A k : Tally(done, u, k) = Tally(processed, u, k)
        BY <1>10, <2>4, <3>3 DEF Tally
      <4>2. \A k \in Counters(u) : Tally(processed, u, k) \in Nat
        BY <2>4, TallyIsNat
      <4>3. QED
        BY <1>8, <2>4, <3>1, <3>3, <4>1, <4>2
    <3>4. QED
      BY <3>2, <3>3
  <2>7. PICK table, table2, before : table = rows /\ table2 = rows' /\ before = processed
    OBVIOUS
  <2>8. CallSound(d, table2, done, mixed)
    BY <1>13, <2>2, <2>3, <2>6, <2>7, CallStays
  <2>9. QED
    BY <2>1, <2>7, <2>8
<1>19. CallsSound'
  <2>1. \A o \in Workers \ {w} : Apart(call, projecting[o], mixed) /\ Apart(projecting[o], call, mixed)
    BY <1>14, ApartFrom
  <2>2. \A o, u \in Workers \ {w} : o # u => Apart(projecting[o], projecting[u], mixed)
    BY <1>3 DEF ProjectionInv, CallsSound
  <2>3. call # Reports!Idle => CallSound(call, rows', done, mixed)
    BY <1>14
  <2>4. QED
    BY <1>3, <1>5, <1>15, <1>18, <2>1, <2>2, <2>3 DEF CallsSound
<1>20. AckedDone'
  BY <1>3, <1>5, <1>13, <1>14 DEF ProjectionInv, AckedDone, StepDone
<1>21. QED
  BY <1>16, <1>17, <1>19, <1>20 DEF ProjectionInv


LEMMA ProjectionStep ==
  ASSUME ProjectionInv, Reports!Next
  PROVE  ProjectionInv'
<1>1. ASSUME NEW e \in Events, Reports!Remember(e) \/ \E w \in Workers : Reports!Receive(w, e)
      PROVE  ProjectionInv'
  BY <1>1, RememberStep, ReceiveStep
<1>2. ASSUME NEW w \in Workers,
             \/ Reports!SkipProcessed(w) \/ Reports!Apply(w) \/ Reports!Compare(w)
             \/ Reports!Commit(w) \/ Reports!SwallowConflict(w) \/ Reports!Fail(w)
      PROVE  ProjectionInv'
  BY <1>2, SkipStep, ApplyStep, CompareStep, CommitStep, SwallowStep, ProjectionFails
<1>3. CASE Reports!Restart
  BY <1>3, ProjectionRestarts
<1>4. QED
  BY <1>1, <1>2, <1>3 DEF Reports!Next

LEMMA ReportsSide == [Next]_vars => UNCHANGED reports \/ Reports!Next
BY DEF Next, vars, reports

LEMMA ProjectionInvariant == Spec => []ProjectionInv
<1>1. Init => ProjectionInv
  BY ProjectionInit DEF Init
<1>2. ProjectionInv /\ [Next]_vars => ProjectionInv'
  <2> SUFFICES ASSUME ProjectionInv, [Next]_vars
               PROVE  ProjectionInv'
    OBVIOUS
  <2>1. CASE UNCHANGED reports
    BY <2>1 DEF reports, ProjectionInv, RowsTyped, MemoryTyped, CallsSound, TablesSound, AckedDone
  <2>2. QED
    BY <2>1, ReportsSide, ProjectionStep
<1>3. QED
  BY <1>1, <1>2, PTL DEF Spec

\* Projections, however events are delivered, handled at the same time, failing
\* or cut by restarts: no counter exceeds what was processed for it, and while
\* the transactions on a table do not overlap its counters are exact and no
\* acknowledged event is missing (projections.service.ts:14-19).
THEOREM ProjectionsAgreeAlways == Spec => []ProjectionsAgree
<1>1. ProjectionInv => ProjectionsAgree
  <2> SUFFICES ASSUME ProjectionInv
               PROVE  Reports!ExactlyOnce /\ Reports!NeverOvercounted
    BY DEF ProjectionsAgree
  <2>1. \A t, k : Reports!Cardinality(Reports!Counted(t, k)) = Tally(processed, t, k)
    <3>1. \A t, k : Reports!Counted(t, k) = CountedIn(processed, t, k)
      BY DEF Reports!Counted, CountedIn, Projected
    <3>2. \A S : Reports!Cardinality(S) = Cardinality(S)
      BY DEF Reports!Cardinality, Cardinality
    <3>3. QED
      BY <3>1, <3>2 DEF Tally
  <2>2. \A t, k : <<t, k>> \in Reports!Deduplicable <=> t \in Reports!Tables /\ k \in Counters(t)
    BY DEF Reports!Deduplicable, Counters
  <2>3. \A t \in Reports!Tables : RowSound(t, rows[t], processed, rowsOverlapped)
    BY DEF ProjectionInv, TablesSound
  <2>4. Reports!NeverOvercounted
    <3> SUFFICES ASSUME NEW tk \in Reports!Deduplicable,
                        rows[tk[1]] # Reports!NoRow
                 PROVE  rows[tk[1]][tk[2]] <=
                          Reports!Cardinality(Reports!Counted(tk[1], tk[2]))
      BY DEF Reports!NeverOvercounted
    <3>1. PICK t \in Reports!Tables : tk \in {t} \X Counters(t)
      BY DEF Reports!Deduplicable, Counters
    <3>2. PICK k \in Counters(t) : tk[1] = t /\ tk[2] = k
      BY <3>1
    <3>3. QED
      BY <2>1, <2>3, <3>2 DEF RowSound
  <2>5. Reports!ExactlyOnce
    <3>1. ASSUME NEW t \in Reports!Tables \ rowsOverlapped, rows[t] # Reports!NoRow,
                 NEW k \in Reports!Columns[t], <<t, k>> \in Reports!Deduplicable
          PROVE  rows[t][k] = Reports!Cardinality(Reports!Counted(t, k))
      BY <2>1, <2>2, <2>3, <3>1 DEF RowSound
    <3>2. ASSUME NEW t \in Reports!Tables \ rowsOverlapped, NEW e \in acked,
                 NEW i \in DOMAIN Projected(e), Projected(e)[i][1] = t, Name[e] # "driver.offline"
          PROVE  <<e, t>> \in processed
      BY <3>2 DEF ProjectionInv, AckedDone, StepDone
    <3>3. QED
      BY <3>1, <3>2 DEF Reports!ExactlyOnce, Projected
  <2>6. QED
    BY <2>4, <2>5
<1>2. QED
  BY <1>1, ProjectionInvariant, PTL


-----------------------------------------------------------------------------
(***************************************************************************)
(* The types of the parts: fares and trails                                *)
(***************************************************************************)
TrailCall == [phase : {"reading"}, from : Fares!Times, to : Fares!Times]
             \cup [phase : {"saving"}, from : Fares!Times, to : Fares!Times,
                   points : SUBSET Fares!Times]

TrailRest ==
  /\ buffer \subseteq Fares!Times /\ logged \subseteq Fares!Times
  /\ ride.ended \in Fares!Times \cup {Fares!Never}
  /\ published \subseteq Fares!TripEvents \X Fares!Times
  /\ openTrail \in Fares!Times \cup {Fares!Never}
  /\ slices \subseteq Fares!Slice
  /\ tracking \in [Workers -> TrailCall \cup {Fares!Idle}]

\* A configuration that is being created had room when it was begun.
PriceRest ==
  /\ \A h \in Workers : fares[h].phase \in {"idle", "pricing", "measuring", "saving"}
  /\ calculations \subseteq [version : DOMAIN configs, points : SUBSET Fares!Times]
  /\ configs \in Seq(Fares!Times) /\ Len(configs) <= MaxConfigs
  /\ creating \in [Admins -> [version : 1..MaxConfigs, from : Fares!Times] \cup {Fares!Idle}]
  /\ announced \in Nat /\ {dead, lost} \subseteq BOOLEAN /\ billingFaults \in 0..MaxFaults

LEMMA BillingTimes ==
  ASSUME FareInv
  PROVE  /\ clock \in Fares!Times /\ Fares!Times \subseteq Nat
         /\ ride.started \in Fares!Times \cup {Fares!Never}
         /\ Fares!Never \notin Fares!Times
BY DEF FareInv, FaresTyped, EndedAfterStart, Fares!Times, Fares!Never

LEMMA TrailRestStep ==
  ASSUME FareInv, TrailRest, Fares!Next
  PROVE  TrailRest'
<1> USE BillingTimes
<1>1. CASE Fares!Points \/ Fares!RestartTracking
  <2>1. CASE Fares!RestartTracking
    <3>1. tracking' \in [Workers -> TrailCall \cup {Fares!Idle}]
      BY <2>1 DEF Fares!RestartTracking
    <3>2. QED
      BY <2>1, <3>1 DEF TrailRest, Fares!RestartTracking
  <2>2. CASE Fares!Points
    BY <2>2 DEF TrailRest, Fares!Points, Fares!Add, Fares!Flush, Fares!FlushFails, Fares!trail
  <2>3. QED
    BY <1>1, <2>1, <2>2
<1>2. CASE Fares!Tick \/ Fares!Trip
  <2>1. CASE Fares!Tick
    BY <2>1 DEF TrailRest, Fares!Tick, Fares!trail, Fares!gps
  <2>2. CASE Fares!StartRide \/ Fares!EndRide
    <3>1. ride' = [ride EXCEPT !.started = clock] \/ ride' = [ride EXCEPT !.ended = clock]
      BY <2>2 DEF Fares!StartRide, Fares!EndRide
    <3>2. ride'.ended \in Fares!Times \cup {Fares!Never}
      BY <3>1 DEF TrailRest, FareInv, EndedAfterStart
    <3>3. QED
      BY <2>2, <3>2 DEF TrailRest, Fares!StartRide, Fares!EndRide, Fares!trail, Fares!gps
  <2>3. ASSUME NEW name \in Fares!TripEvents, Fares!Publish(name)
        PROVE  TrailRest'
    BY <2>3 DEF TrailRest, Fares!Publish, Fares!trail, Fares!gps
  <2>4. QED
    BY <1>2, <2>1, <2>2, <2>3 DEF Fares!Trip
<1>3. ASSUME NEW m \in published, Fares!OpenTrail(m)
      PROVE  TrailRest'
  BY <1>3 DEF TrailRest, Fares!OpenTrail, Fares!gps
<1>4. ASSUME NEW m \in published, NEW h \in Workers, Fares!Finalize(h, m)
      PROVE  TrailRest'
  <2>1. m[2] \in Fares!Times /\ openTrail \in Fares!Times
    BY <1>4 DEF TrailRest, Fares!Finalize
  <2>2. [phase |-> "reading", from |-> openTrail, to |-> m[2]] \in TrailCall
    BY <2>1 DEF TrailCall
  <2>3. tracking' \in [Workers -> TrailCall \cup {Fares!Idle}]
    BY <1>4, <2>2 DEF TrailRest, Fares!Finalize
  <2>4. QED
    BY <1>4, <2>3 DEF TrailRest, Fares!Finalize, Fares!gps
<1>5. ASSUME NEW h \in Workers, Fares!ReadPoints(h)
      PROVE  TrailRest'
  <2>1. PICK c : c = tracking[h]
    OBVIOUS
  <2>2. c \in TrailCall /\ c.from \in Fares!Times /\ c.to \in Fares!Times
    BY <1>5, <2>1 DEF TrailRest, TrailCall, Fares!ReadPoints, Fares!Idle
  <2>3. PICK read : read = {p \in logged : c.from <= p /\ p <= c.to}
    OBVIOUS
  <2>4. read \in SUBSET Fares!Times
    BY <2>3 DEF TrailRest
  <2>5. [phase |-> "saving", from |-> c.from, to |-> c.to, points |-> read] \in TrailCall
    BY <2>2, <2>4 DEF TrailCall
  <2>6. tracking' \in [Workers -> TrailCall \cup {Fares!Idle}]
    BY <1>5, <2>1, <2>3, <2>5 DEF TrailRest, Fares!ReadPoints
  <2>7. QED
    BY <1>5, <2>6 DEF TrailRest, Fares!ReadPoints, Fares!gps
<1>6. ASSUME NEW h \in Workers, Fares!SaveSlice(h)
      PROVE  TrailRest'
  <2>1. tracking[h] \in TrailCall /\ tracking[h].phase = "saving"
    BY <1>6 DEF TrailRest, Fares!SaveSlice, Fares!Idle
  <2> DEFINE c == tracking[h]
  <2>2. [from |-> c.from, to |-> c.to, points |-> c.points] \in Fares!Slice
    BY <2>1 DEF TrailCall, Fares!Slice
  <2>3. tracking' \in [Workers -> TrailCall \cup {Fares!Idle}]
    BY <1>6 DEF TrailRest, Fares!SaveSlice
  <2>4. QED
    BY <1>6, <2>2, <2>3 DEF TrailRest, Fares!SaveSlice, Fares!gps
<1>7. ASSUME NEW h \in Workers,
             \/ \E n \in DOMAIN ended : Fares!BeginFare(h, n)
             \/ \E version \in DOMAIN configs : Fares!Price(h, version)
             \/ Fares!Measure(h) \/ Fares!SaveFare(h) \/ Fares!TrailMissing(h) \/ Fares!FareFails(h)
      PROVE  TrailRest'
  BY <1>7 DEF TrailRest, Fares!BeginFare, Fares!Price, Fares!Measure, Fares!SaveFare,
     Fares!TrailMissing, Fares!FareFails, Fares!trail, Fares!gps
<1>8. ASSUME \/ \E n \in DOMAIN delayed : Fares!Retry(n) \/ Fares!RetryLost(n)
             \/ Fares!RestartFare
      PROVE  TrailRest'
  BY <1>8 DEF TrailRest, Fares!Retry, Fares!RetryLost, Fares!RestartFare, Fares!trail, Fares!gps
<1>9. ASSUME NEW a \in Admins, Fares!ReadLatest(a) \/ Fares!InsertConfig(a)
      PROVE  TrailRest'
  BY <1>9 DEF TrailRest, Fares!ReadLatest, Fares!InsertConfig, Fares!trail, Fares!gps
<1>10. QED
  BY <1>1, <1>2, <1>3, <1>4, <1>5, <1>6, <1>7, <1>8, <1>9 DEF Fares!Next

\* A handler of Fare takes its next step.
LEMMA PriceRestMoves ==
  ASSUME FareInv, PriceRest, NEW h \in Workers, NEW call, Fares!Step(h, call),
         call.phase \in {"idle", "pricing", "measuring", "saving"},
         calculations' \subseteq [version : DOMAIN configs, points : SUBSET Fares!Times],
         announced' \in Nat, {dead', lost'} \subseteq BOOLEAN, billingFaults' \in 0..MaxFaults,
         UNCHANGED <<configs, creating>>
  PROVE  PriceRest'
<1>1. \A o \in Workers : fares'[o] = IF o = h THEN call ELSE fares[o]
  BY DEF Fares!Step, FareInv, FaresTyped
<1>2. QED
  BY <1>1 DEF PriceRest

LEMMA PriceRestStep ==
  ASSUME FareInv, TrailRest, PriceRest, Fares!Next
  PROVE  PriceRest'
<1> USE BillingTimes, ProfileAssumption
<1>1. ASSUME Fares!Points \/ Fares!RestartTracking \/ Fares!Tick \/ Fares!Trip
      PROVE  PriceRest'
  <2>1. UNCHANGED <<fares, calculations, configs, creating, announced, dead, lost>>
    BY <1>1 DEF Fares!Points, Fares!Add, Fares!Flush, Fares!FlushFails, Fares!RestartTracking,
       Fares!Tick, Fares!Trip, Fares!StartRide, Fares!EndRide, Fares!Publish, Fares!fare,
       Fares!queue, Fares!pricing
  <2>2. billingFaults' \in 0..MaxFaults
    BY <1>1 DEF PriceRest, Fares!Points, Fares!Add, Fares!Flush, Fares!FlushFails,
       Fares!RestartTracking, Fares!Tick, Fares!Trip, Fares!StartRide, Fares!EndRide, Fares!Publish
  <2>3. QED
    BY <2>1, <2>2 DEF PriceRest
<1>2. ASSUME \/ \E m \in published :
                  Fares!OpenTrail(m) \/ \E h \in Workers : Fares!Finalize(h, m)
             \/ \E h \in Workers : Fares!ReadPoints(h) \/ Fares!SaveSlice(h)
      PROVE  PriceRest'
  BY <1>2 DEF PriceRest, Fares!OpenTrail, Fares!Finalize, Fares!ReadPoints, Fares!SaveSlice,
     Fares!fare, Fares!queue, Fares!pricing
<1>3. ASSUME NEW h \in Workers, Fares!Rejected(h), UNCHANGED <<calculations, announced, configs, creating>>,
             billingFaults' \in 0..MaxFaults
      PROVE  PriceRest'
  BY <1>3, PriceRestMoves DEF PriceRest, Fares!Rejected, Fares!Idle
<1>4. ASSUME NEW h \in Workers, Fares!TrailMissing(h) \/ Fares!FareFails(h)
      PROVE  PriceRest'
  BY <1>3, <1>4 DEF PriceRest, Fares!TrailMissing, Fares!FareFails, Fares!pricing
<1>5. ASSUME NEW h \in Workers, NEW n \in DOMAIN ended, Fares!BeginFare(h, n)
      PROVE  PriceRest'
  <2>1. CASE calculations = {}
    BY <1>5, <2>1, PriceRestMoves DEF PriceRest, Fares!BeginFare, Fares!pricing
  <2>2. CASE calculations # {}
    BY <1>5, <2>2 DEF PriceRest, Fares!BeginFare, Fares!pricing
  <2>3. QED
    BY <2>1, <2>2
<1>6. ASSUME NEW h \in Workers, NEW version, Fares!Price(h, version)
      PROVE  PriceRest'
  BY <1>6, PriceRestMoves DEF PriceRest, Fares!Price, Fares!queue, Fares!pricing
<1>7. ASSUME NEW h \in Workers, Fares!Measure(h)
      PROVE  PriceRest'
  BY <1>7, PriceRestMoves DEF PriceRest, Fares!Measure, Fares!queue, Fares!pricing
<1>8. ASSUME NEW h \in Workers, Fares!SaveFare(h)
      PROVE  PriceRest'
  <2> DEFINE c == fares[h]
             row == [version |-> c.version, points |-> c.points]
  <2>1. CASE calculations = {}
    <3>1. c.phase = "saving"
      BY <1>8 DEF Fares!SaveFare
    <3>2. c.version \in DOMAIN configs
      BY <3>1 DEF FareInv, MeasuredRight, Fares!ActiveAt
    <3>3. PICK s \in slices : c.points = s.points
      BY <3>1 DEF FareInv, MeasuredRight
    <3>4. c.points \in SUBSET Fares!Times
      BY <3>3 DEF TrailRest, Fares!Slice
    <3>5. row \in [version : DOMAIN configs, points : SUBSET Fares!Times]
      BY <3>2, <3>4
    <3>6. Fares!Step(h, Fares!Idle) /\ calculations' = {row} /\ announced' = announced + 1
          /\ UNCHANGED <<dead, lost, billingFaults, configs, creating>>
      BY <1>8, <2>1 DEF Fares!SaveFare, Fares!queue, Fares!pricing
    <3>7. QED
      BY <3>5, <3>6, PriceRestMoves DEF PriceRest, Fares!Idle
  <2>2. CASE calculations # {}
    BY <1>3, <1>8, <2>2 DEF PriceRest, Fares!SaveFare, Fares!pricing
  <2>3. QED
    BY <2>1, <2>2
<1>9. ASSUME NEW a \in Admins, Fares!ReadLatest(a)
      PROVE  PriceRest'
  <2>1. Len(configs) + 1 \in 1..MaxConfigs
    BY <1>9 DEF PriceRest, Fares!ReadLatest
  <2>2. creating' \in [Admins -> [version : 1..MaxConfigs, from : Fares!Times] \cup {Fares!Idle}]
    BY <1>9, <2>1 DEF PriceRest, Fares!ReadLatest
  <2>3. QED
    BY <1>9, <2>2 DEF PriceRest, Fares!ReadLatest, Fares!fare, Fares!queue
<1>10. ASSUME NEW a \in Admins, Fares!InsertConfig(a)
       PROVE  PriceRest'
  <2>1. creating[a].version \in 1..MaxConfigs /\ creating[a].from \in Fares!Times
    BY <1>10 DEF PriceRest, Fares!InsertConfig
  <2>2. /\ configs' \in Seq(Fares!Times) /\ Len(configs') <= MaxConfigs
        /\ DOMAIN configs \subseteq DOMAIN configs'
    BY <1>10, <2>1 DEF PriceRest, Fares!InsertConfig
  <2>3. creating' \in [Admins -> [version : 1..MaxConfigs, from : Fares!Times] \cup {Fares!Idle}]
    BY <1>10 DEF PriceRest, Fares!InsertConfig
  <2>4. UNCHANGED <<fares, calculations, announced, dead, lost, billingFaults>>
    BY <1>10 DEF Fares!InsertConfig, Fares!fare, Fares!queue
  <2>5. calculations' \subseteq [version : DOMAIN configs', points : SUBSET Fares!Times]
    BY <2>2, <2>4 DEF PriceRest
  <2>6. QED
    BY <2>2, <2>3, <2>4, <2>5 DEF PriceRest
<1>11. ASSUME NEW n \in DOMAIN delayed, Fares!Retry(n) \/ Fares!RetryLost(n)
       PROVE  PriceRest'
  <2>1. CASE Fares!Retry(n)
    BY <2>1 DEF PriceRest, Fares!Retry, Fares!pricing
  <2>2. CASE Fares!RetryLost(n)
    <3>1. UNCHANGED <<fares, calculations, configs, creating, announced, dead>>
      BY <2>2 DEF Fares!RetryLost, Fares!pricing
    <3>2. lost' = TRUE /\ billingFaults' \in 0..MaxFaults
      BY <2>2 DEF PriceRest, Fares!RetryLost
    <3>3. {dead', lost'} \subseteq BOOLEAN
      BY <3>1, <3>2 DEF PriceRest
    <3>4. QED
      BY <3>1, <3>2, <3>3 DEF PriceRest
  <2>3. QED
    BY <1>11, <2>1, <2>2
<1>12. ASSUME Fares!RestartFare
       PROVE  PriceRest'
  BY <1>12 DEF PriceRest, Fares!RestartFare, Fares!pricing, Fares!Idle
<1>13. QED
  BY <1>1, <1>2, <1>4, <1>5, <1>6, <1>7, <1>8, <1>9, <1>10, <1>11, <1>12 DEF Fares!Next

LEMMA BillingType == Spec => []Fares!TypeOK
<1>1. Init => TrailRest /\ PriceRest
  <2> SUFFICES ASSUME Fares!Init
               PROVE  TrailRest /\ PriceRest
    BY DEF Init
  <2>1. 0 \in Fares!Times
    BY DEF Fares!Times
  <2>2. configs \in Seq(Fares!Times) /\ Len(configs) <= MaxConfigs
    BY <2>1 DEF Fares!Init
  <2>3. \A h \in Workers : fares[h].phase = "idle"
    BY DEF Fares!Init, Fares!Idle
  <2>4. PriceRest
    <3>1. creating \in [Admins -> [version : 1..MaxConfigs, from : Fares!Times] \cup {Fares!Idle}]
      BY DEF Fares!Init
    <3>2. calculations = {} /\ announced = 0 /\ dead = FALSE /\ lost = FALSE /\ billingFaults = 0
      BY DEF Fares!Init
    <3>3. announced \in Nat /\ billingFaults \in 0..MaxFaults
      BY <3>2, ProfileAssumption
    <3>4. {dead, lost} \subseteq BOOLEAN
      BY <3>2
    <3>5. QED
      BY <2>2, <2>3, <3>1, <3>2, <3>3, <3>4 DEF PriceRest
  <2>5. TrailRest
    BY DEF Fares!Init, TrailRest
  <2>6. QED
    BY <2>4, <2>5
<1>2. FareInv /\ TrailRest /\ PriceRest /\ [Next]_vars => TrailRest' /\ PriceRest'
  <2> SUFFICES ASSUME FareInv, TrailRest, PriceRest, [Next]_vars
               PROVE  TrailRest' /\ PriceRest'
    OBVIOUS
  <2>1. Fares!Next \/ UNCHANGED billing
    BY DEF Next, vars
  <2>2. QED
    BY <2>1, TrailRestStep, PriceRestStep DEF billing, TrailRest, PriceRest
<1>3. FareInv /\ TrailRest /\ PriceRest => Fares!TypeOK
  <2> SUFFICES ASSUME FareInv, TrailRest, PriceRest
               PROVE  Fares!TypeOK
    OBVIOUS
  <2>1. Fares!Cardinality(slices) <= 1
    BY AtMostOne DEF FareInv, MeasuredRight, Fares!Cardinality, Cardinality
  <2>2. \A h \in Workers : tracking[h].phase \in {"idle", "reading", "saving"}
    BY DEF TrailRest, TrailCall, Fares!Idle
  <2>3. ASSUME NEW h \in Workers, fares[h].phase = "saving"
        PROVE  fares[h].points \subseteq Fares!Times
    BY <2>3 DEF FareInv, MeasuredRight, TrailRest, Fares!Slice
  <2>4. ride \in [started : Fares!Times \cup {Fares!Never}, ended : Fares!Times \cup {Fares!Never}]
    BY BillingTimes DEF FareInv, EndedAfterStart, TrailRest
  <2>5. creating \in [Admins -> [version : Nat, from : Fares!Times] \cup {Fares!Idle}]
    <3>1. [version : 1..MaxConfigs, from : Fares!Times] \subseteq [version : Nat, from : Fares!Times]
      OBVIOUS
    <3>2. QED
      BY <3>1 DEF PriceRest
  <2>6. /\ ended \in [0..(MaxAttempts - 1) -> Nat] /\ delayed \in [1..(MaxAttempts - 1) -> Nat]
        /\ clock \in Fares!Times
    BY BillingTimes DEF FareInv, FaresTyped
  <2>7. QED
    BY <2>1, <2>2, <2>3, <2>4, <2>5, <2>6 DEF TrailRest, PriceRest, Fares!TypeOK
<1>4. QED
  BY <1>1, <1>2, <1>3, FareInvariant, PTL DEF Spec

-----------------------------------------------------------------------------
(***************************************************************************)
(* The types of the parts: documents and notifications                     *)
(***************************************************************************)
Allowed(row) == Uploads!IsAllowedMime(row.kind, row.mime)

\* An entity keeps the kind and the type of the row it was read from.
UploadRest ==
  /\ Len(media) <= MaxMedia /\ mediaCount \in 0..MaxMediaCalls
  /\ mediaStopped \subseteq DOMAIN media
  /\ \A id \in DOMAIN media : Allowed(media[id])
  /\ \A w \in Workers : finalizing[w] # Uploads!Idle => Allowed(finalizing[w].entity)

LEMMA UploadRestStep ==
  ASSUME UploadInv, UploadRest, Uploads!Next
  PROVE  UploadRest'
<1>0. /\ media \in Seq(Uploads!Media) /\ Len(media) \in Nat /\ DOMAIN media = 1..Len(media)
      /\ finalizing \in [Workers -> {Uploads!Idle} \cup UploadCall]
  BY DEF UploadInv
<1>1. ASSUME NEW kind \in Kinds, NEW mime \in Uploads!Image \cup Uploads!Pdf,
             Uploads!RequestUploadUrl(kind, mime)
      PROVE  UploadRest'
  <2> DEFINE row == [kind |-> kind, mime |-> mime, sum |-> "", finalized |-> FALSE,
                     scanStatus |-> "pending"]
  <2>1. media' = Append(media, row) /\ Len(media) < MaxMedia /\ Allowed(row)
        /\ UNCHANGED <<finalizing, mediaCount, mediaStopped>>
    BY <1>1 DEF Uploads!RequestUploadUrl, Allowed
  <2> HIDE DEF row
  <2>2. /\ Len(media') = Len(media) + 1 /\ DOMAIN media' = DOMAIN media \cup {Len(media) + 1}
        /\ \A id \in DOMAIN media : media'[id] = media[id]
        /\ media'[Len(media) + 1] = row
    BY <1>0, <2>1
  <2>3. Len(media') <= MaxMedia
    BY <1>0, <2>1, <2>2
  <2>4. \A id \in DOMAIN media' : Allowed(media'[id])
    BY <2>1, <2>2 DEF UploadRest
  <2>5. QED
    BY <2>1, <2>2, <2>3, <2>4 DEF UploadRest
<1>2. ASSUME NEW w \in Workers, Uploads!SaveMedia(w)
      PROVE  UploadRest'
  <2>1. /\ finalizing[w].phase = "saving" /\ UNCHANGED <<mediaCount, mediaStopped>>
        /\ media' = [media EXCEPT ![finalizing[w].id] = finalizing[w].entity]
        /\ finalizing' = [finalizing EXCEPT ![w].phase = "publishing"]
    BY <1>2 DEF Uploads!SaveMedia
  <2>2. /\ finalizing[w] \in UploadCall /\ finalizing[w].id \in DOMAIN media
        /\ Allowed(finalizing[w].entity)
    BY <1>0, <2>1 DEF UploadInv, UploadRest, Uploads!Idle
  <2>3. /\ DOMAIN media' = DOMAIN media /\ Len(media') = Len(media)
        /\ \A id \in DOMAIN media : media'[id] = IF id = finalizing[w].id
                                                  THEN finalizing[w].entity ELSE media[id]
    BY <1>0, <2>1, <2>2 DEF UploadCall
  <2>4. /\ finalizing'[w].entity = finalizing[w].entity
        /\ \A o \in Workers \ {w} : finalizing'[o] = finalizing[o]
    BY <1>0, <2>1, <2>2 DEF UploadCall
  <2>5. QED
    BY <2>1, <2>2, <2>3, <2>4 DEF UploadRest
<1>3. ASSUME NEW w \in Workers, Uploads!PublishUploaded(w) \/ Uploads!Stop(w)
      PROVE  UploadRest'
  <2>1. /\ finalizing[w] # Uploads!Idle /\ UNCHANGED <<media, mediaCount>>
        /\ finalizing' = [finalizing EXCEPT ![w] = Uploads!Idle]
        /\ mediaStopped' \subseteq mediaStopped \cup {finalizing[w].id}
    BY <1>3 DEF Uploads!PublishUploaded, Uploads!Stop, Uploads!Idle
  <2>2. finalizing[w].id \in DOMAIN media
    BY <2>1 DEF UploadInv
  <2>3. \A o \in Workers : finalizing'[o] = IF o = w THEN Uploads!Idle ELSE finalizing[o]
    BY <1>0, <2>1
  <2>4. QED
    BY <2>1, <2>2, <2>3 DEF UploadRest
<1>4. ASSUME NEW w \in Workers, NEW id \in DOMAIN media, NEW sum \in Sums,
             Uploads!Finalize(w, id, sum)
      PROVE  UploadRest'
  <2> DEFINE entity == [media[id] EXCEPT !.sum = sum, !.finalized = TRUE, !.scanStatus = "clean"]
             call == [phase |-> "saving", id |-> id, entity |-> entity]
  <2>1. /\ mediaCount < MaxMediaCalls /\ mediaCount' = mediaCount + 1
        /\ UNCHANGED <<media, mediaStopped>> /\ finalizing' = [finalizing EXCEPT ![w] = call]
    BY <1>4 DEF Uploads!Finalize
  <2>2. entity.kind = media[id].kind /\ entity.mime = media[id].mime
    <3>1. media[id] \in Uploads!Media
      BY <1>0
    <3>2. QED
      BY <3>1 DEF Uploads!Media
  <2>3. Allowed(call.entity)
    BY <2>2 DEF UploadRest, Allowed
  <2> HIDE DEF call
  <2>4. \A o \in Workers : finalizing'[o] = IF o = w THEN call ELSE finalizing[o]
    BY <1>0, <2>1
  <2>5. mediaCount' \in 0..MaxMediaCalls
    BY <2>1 DEF UploadRest
  <2>6. QED
    BY <2>1, <2>3, <2>4, <2>5 DEF UploadRest
<1>5. QED
  BY <1>1, <1>2, <1>3, <1>4 DEF Uploads!Next

NoticeRest ==
  /\ broadcasts \in Seq(Notices!Broadcast) /\ Len(broadcasts) <= MaxBroadcasts
  /\ \A id \in 1..MaxRecords : outcomes[id] \in Notices!SendResult \cup {"none"}
  /\ sentEvents \subseteq (DOMAIN records) \X Notices!SendResult
  /\ noticesStopped \subseteq DOMAIN records

LEMMA NoticeRestStep ==
  ASSUME NoticeInv, NoticeRest, Notices!Next
  PROVE  NoticeRest'
<1>0. /\ records \in Seq(Notices!NotificationRecord) /\ DOMAIN records = 1..Len(records)
      /\ Len(records) \in Nat
      /\ \A w \in Workers : notifying[w] # Notices!Idle => notifying[w].id \in DOMAIN records
  BY DEF NoticeInv
<1>1. ASSUME NEW w \in Workers, Notices!Settle(w)
      PROVE  NoticeRest'
  <2>1. DOMAIN records' = DOMAIN records
    BY <1>1 DEF Notices!Settle
  <2>2. QED
    BY <1>1, <2>1 DEF NoticeRest, Notices!Settle
<1>2. ASSUME NEW w \in Workers, Notices!PublishOutcome(w) \/ Notices!Stop(w)
      PROVE  NoticeRest'
  <2> DEFINE id == notifying[w].id
  <2>1. notifying[w] # Notices!Idle /\ UNCHANGED <<records, broadcasts, outcomes>>
    BY <1>2 DEF Notices!PublishOutcome, Notices!Stop, Notices!Idle
  <2>2. id \in DOMAIN records
    BY <1>0, <2>1
  <2>3. CASE Notices!PublishOutcome(w)
    <3>1. notifying[w].phase = "publishing" /\ UNCHANGED noticesStopped
          /\ sentEvents' = sentEvents \cup {<<id, records[id].status>>}
      BY <2>3 DEF Notices!PublishOutcome
    <3>2. records[id].status \in Notices!SendResult
      BY <2>1, <3>1 DEF NoticeInv
    <3>3. QED
      BY <2>1, <2>2, <3>1, <3>2 DEF NoticeRest
  <2>4. CASE Notices!Stop(w)
    <3>1. noticesStopped' = noticesStopped \cup {id} /\ UNCHANGED sentEvents
      BY <2>4 DEF Notices!Stop
    <3>2. QED
      BY <2>1, <2>2, <3>1 DEF NoticeRest
  <2>5. QED
    BY <1>2, <2>3, <2>4
<1>3. ASSUME NEW w \in Workers, NEW result \in Notices!SendResult, Notices!Send(w, result)
      PROVE  NoticeRest'
  <2>1. \A id \in 1..MaxRecords : outcomes'[id] \in {result, outcomes[id]}
    BY <1>3 DEF Notices!Send, NoticeInv
  <2>2. QED
    BY <1>3, <2>1 DEF NoticeRest, Notices!Send
<1>4. ASSUME NEW w \in Workers, NEW t \in Wanted, Notices!Queue(w, t[1], t[2], t[3])
      PROVE  NoticeRest'
  <2>1. PICK row : records' = Append(records, row)
    BY <1>4 DEF Notices!Queue
  <2>2. DOMAIN records \subseteq DOMAIN records'
    BY <1>0, <2>1
  <2>3. QED
    BY <1>4, <2>2 DEF NoticeRest, Notices!Queue
<1>5. ASSUME NEW audience \in Notices!BroadcastAudience, Notices!CreateBroadcast(audience)
      PROVE  NoticeRest'
  <2>1. [audience |-> audience, count |-> 0] \in Notices!Broadcast
    BY DEF Notices!Broadcast
  <2>2. broadcasts' \in Seq(Notices!Broadcast) /\ Len(broadcasts') <= MaxBroadcasts
    BY <1>5, <2>1 DEF Notices!CreateBroadcast, NoticeRest
  <2>3. QED
    BY <1>5, <2>2 DEF Notices!CreateBroadcast, NoticeRest
<1>6. QED
  BY <1>1, <1>2, <1>3, <1>4, <1>5 DEF Notices!Next

LEMMA RecordsType == Spec => [](Uploads!TypeOK /\ Notices!TypeOK)
<1>1. Init => UploadRest /\ NoticeRest
  BY DEF Init, Uploads!Init, UploadRest, Notices!Init, NoticeRest
<1>2. UploadInv /\ NoticeInv /\ UploadRest /\ NoticeRest /\ [Next]_vars => UploadRest' /\ NoticeRest'
  <2> SUFFICES ASSUME UploadInv, NoticeInv, UploadRest, NoticeRest, [Next]_vars
               PROVE  UploadRest' /\ NoticeRest'
    OBVIOUS
  <2>1. (Uploads!Next \/ UNCHANGED documents) /\ (Notices!Next \/ UNCHANGED notices)
    BY DEF Next, vars
  <2>2. UNCHANGED documents => UploadRest'
    BY DEF documents, UploadRest
  <2>3. UNCHANGED notices => NoticeRest'
    BY DEF notices, NoticeRest
  <2>4. QED
    BY <2>1, <2>2, <2>3, UploadRestStep, NoticeRestStep
<1>3. UploadInv /\ UploadRest => Uploads!TypeOK
  <2> SUFFICES ASSUME UploadInv, UploadRest
               PROVE  Uploads!TypeOK
    OBVIOUS
  <2>1. ASSUME NEW w \in Workers, finalizing[w] # Uploads!Idle
        PROVE  finalizing[w] \in Uploads!Call
    <3>1. finalizing[w] \in UploadCall /\ finalizing[w].id \in DOMAIN media
      BY <2>1 DEF UploadInv
    <3>2. finalizing[w].id \in 1..MaxMedia
      BY <3>1 DEF UploadInv, UploadRest
    <3>3. QED
      BY <3>1, <3>2 DEF UploadCall, Uploads!Call
  <2>2. finalizing \in [Workers -> {Uploads!Idle} \cup Uploads!Call]
    BY <2>1 DEF UploadInv
  <2>3. QED
    BY <2>2 DEF UploadInv, UploadRest, Uploads!TypeOK, Allowed
<1>4. NoticeInv /\ NoticeRest => Notices!TypeOK
  BY DEF NoticeInv, NoticeRest, Notices!TypeOK
<1>5. QED
  BY <1>1, <1>2, <1>3, <1>4, RecordInvariant, PTL DEF Spec

-----------------------------------------------------------------------------
(***************************************************************************)
(* The types of all parts                                                  *)
(***************************************************************************)
LEMMA ReportsType == Spec => []Reports!TypeOK
<1>1. ASSUME ProjectionInv
      PROVE  Reports!TypeOK
  <2>1. ASSUME NEW w \in Workers, projecting[w] # Reports!Idle
        PROVE  /\ projecting[w].event \in Events
               /\ projecting[w].step \in DOMAIN Projected(projecting[w].event)
               /\ Transacting(projecting[w]) =>
                    projecting[w].entity \in Reports!Row(Reports!Table(projecting[w]))
    BY <1>1, <2>1 DEF ProjectionInv, CallsSound, CallSound, EntitySound
  <2>2. QED
    BY <1>1, <2>1 DEF ProjectionInv, RowsTyped, MemoryTyped, Reports!TypeOK, Projected,
       Transacting, Reports!InTransaction
<1>2. QED
  BY <1>1, ProjectionInvariant, PTL

LEMMA DetectorType == Spec => []Detector!TypeOK
<1>1. ViolationInv => Detector!TypeOK
  BY DEF ViolationInv
<1>2. QED
  BY <1>1, ViolationInvariant, PTL

\* Each of the nine parts keeps its types: rows stay rows, calls hold what their
\* step needs, and no counter or table passes its bound.
THEOREM ServicesTypeCorrect == Spec => []TypeOK
<1>1. Spec => []Profiles!TypeOK
  BY ProfilesType
<1>2. /\ Sessions!TypeOK /\ Access!TypeOK /\ (focus = "fleet" => Drive!TypeOK)
      /\ Profiles!TypeOK /\ Fares!TypeOK /\ Uploads!TypeOK /\ Notices!TypeOK
      /\ Reports!TypeOK /\ Detector!TypeOK /\ focus \in Components
      => TypeOK
  BY DEF TypeOK, Components
<1>3. Spec => [](focus \in Components)
  <2>1. Init => focus \in Components
    BY DEF Init
  <2>2. focus \in Components /\ [Next]_vars => (focus \in Components)'
    BY DEF Next, vars
  <2>3. QED
    BY <2>1, <2>2, PTL DEF Spec
<1>4. QED
  BY <1>1, <1>2, <1>3, SessionsType, LoginsType, FleetType, BillingType, RecordsType,
     ReportsType, DetectorType, PTL

=============================================================================
