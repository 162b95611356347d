------------------------- MODULE RideDispatchProofs -------------------------
(***************************************************************************)
(* Theorems about the Ride and Dispatch services together: each of them    *)
(* keeps its promises in the company of the other, whatever the bus, the   *)
(* timeouts and the restarts of Dispatch do, and the driver in a ride's row*)
(* is one that Dispatch let win.  What needs a claim key to outlast the    *)
(* claims on it says so (Dispatch!KeyOutlastsClaims).                      *)
(***************************************************************************)
EXTENDS RideDispatch, RideServiceProofs, DispatchProofs

USE CallersAssumption

-----------------------------------------------------------------------------
(***************************************************************************)
(* Every step is a step of Ride's handlers, and a step of Dispatch.        *)
(***************************************************************************)
\* The bus carries what Ride published.
QueueOK == queue \in Seq(Event)

LEMMA RideSide ==
  ASSUME exhausted \subseteq Rides, [Next]_vars
  PROVE  [HandlerStep]_rideVars
<1>1. ASSUME NEW w \in Workers, RideStep(w)
      PROVE  HandlerStep
  <2>1. CASE PassengerCall(w) \/ DriverCall(w)
    BY <2>1 DEF PassengerCall, DriverCall, HandlerStep, Begins, PassengerOps, DriverOps, Ops
  <2>2. CASE \E r \in Rides : /\ Said("ride.ended", r)
                              /\ \E op \in {"fare", "paid", "pay_failed"} :
                                   Begin(w, op, NoOne, r)
    BY <2>2 DEF HandlerStep, Begins, SystemOps, DriverOps, Ops
  <2>3. QED
    BY <1>1, <2>1, <2>2 DEF RideStep, HandlerStep, Serve
<1>2. ASSUME NEW w \in Workers, DeliverExhausted(w)
      PROVE  HandlerStep
  BY <1>2 DEF DeliverExhausted, HandlerStep, Begins, SystemOps, DriverOps, Ops
<1>3. ASSUME NEW w \in Workers, ReceiveAnswer(w) \/ Timeout(w)
      PROVE  HandlerStep
  BY <1>3 DEF ReceiveAnswer, Timeout, HandlerStep, Serve
<1>4. CASE DispatchRestart
  <2> DEFINE lost == {w \in Workers : calls[w].phase = "claiming" /\ claims[w] # NoClaim}
  <2>1. calls' = [w \in Workers |-> IF w \in lost THEN Idle ELSE calls[w]]
    BY <1>4 DEF DispatchRestart
  <2>2. lost \in SUBSET Workers
    OBVIOUS
  <2> HIDE DEF lost
  <2>3. QED
    BY <1>4, <2>1, <2>2 DEF DispatchRestart, HandlerStep, Abandon
<1>5. ASSUME NEW w \in Workers, SendClaim(w) \/ DropAnswer(w) \/ ClaimStep(w)
      PROVE  UNCHANGED rideVars
  BY <1>5 DEF SendClaim, DropAnswer, ClaimStep
<1>6. ASSUME Redeliver \/ DispatchConsumes \/ OtherDispatchStep
             \/ \E m \in MatchIds : MatchTimeout(m)
      PROVE  UNCHANGED rideVars
  BY <1>6 DEF Redeliver, DispatchConsumes, OtherDispatchStep, MatchTimeout
<1>7. QED
  BY <1>1, <1>2, <1>3, <1>4, <1>5, <1>6 DEF Next, RelayEvent, HandlerStep, vars

LEMMA DispatchSide ==
  ASSUME TypeInv, QueueOK, [Next]_vars
  PROVE  [DispatchStep]_dispatchVars
<1>1. ASSUME NEW w \in Workers, SendClaim(w)
      PROVE  DispatchNext
  <2>1. calls[w] \in RideCall /\ calls[w].who \in Drivers /\ calls[w].ride \in Rides
    BY <1>1, PhaseOfCall
       DEF SendClaim, TypeInv, CallsChecked, CallChecked, Calling, RideCall, DriverOps
  <2>2. QED
    BY <1>1, <2>1 DEF SendClaim, DispatchNext, Claiming
<1>2. ASSUME NEW w \in Workers, ReceiveAnswer(w) \/ DropAnswer(w) \/ ClaimStep(w)
      PROVE  DispatchNext
  BY <1>2 DEF ReceiveAnswer, DropAnswer, ClaimStep, DispatchNext, Claiming
<1>3. CASE DispatchConsumes
  <2>1. Head(queue) \in Event
    BY <1>3 DEF DispatchConsumes, QueueOK
  <2>2. Head(queue).ride \in Rides /\ Head(queue).driver \in Drivers \cup {NoOne}
    BY <2>1 DEF Event
  <2>3. CASE StartMatching(Head(queue).ride, 0)
    BY <2>2, <2>3, TimeAssumption DEF DispatchStep, DispatchNext, Matching
  <2>4. CASE RideCancelled(Head(queue).ride, Head(queue).driver)
    BY <2>2, <2>4 DEF DispatchStep, DispatchNext, Matching
  <2>5. CASE RideCompleted(Head(queue).driver)
    <3>1. CASE Head(queue).driver = NoOne
      BY <2>5, <3>1 DEF RideCompleted, dispatchVars
    <3>2. CASE Head(queue).driver # NoOne
      BY <2>2, <2>5, <3>2 DEF DispatchStep, DispatchNext, Matching
    <3>3. QED
      BY <3>1, <3>2
  <2>6. QED
    BY <1>3, <2>3, <2>4, <2>5 DEF DispatchConsumes
<1>4. ASSUME NEW m \in MatchIds, MatchTimeout(m)
      PROVE  DispatchNext
  BY <1>4 DEF MatchTimeout, DispatchNext, Matching
<1>5. CASE OtherDispatchStep
  BY <1>5 DEF OtherDispatchStep, DispatchStep, DispatchNext, Claiming, Projecting
<1>6. CASE DispatchRestart
  BY <1>6 DEF DispatchRestart, DispatchStep, DispatchNext
<1>7. ASSUME NEW w \in Workers, RideStep(w) \/ DeliverExhausted(w) \/ Timeout(w)
      PROVE  UNCHANGED dispatchVars
  BY <1>7 DEF RideStep, DeliverExhausted, Timeout
<1>8. QED
  BY <1>1, <1>2, <1>3, <1>4, <1>5, <1>6, <1>7
     DEF Next, RelayEvent, Redeliver, DispatchStep, vars

LEMMA QueueNext == TypeInv /\ QueueOK /\ [Next]_vars => QueueOK'
<1> SUFFICES ASSUME TypeInv, QueueOK, [Next]_vars PROVE QueueOK'
  OBVIOUS
<1>1. CASE RelayEvent
  <2>1. Head(outbox) \in Event
    BY <1>1 DEF RelayEvent, Relay, TypeInv, RideTypeOK
  <2>2. QED
    BY <1>1, <2>1 DEF RelayEvent, QueueOK
<1>2. CASE Redeliver
  BY <1>2 DEF Redeliver, QueueOK, TypeInv, RideTypeOK
<1>3. CASE DispatchConsumes
  BY <1>3 DEF DispatchConsumes, QueueOK
<1>4. QED
  BY <1>1, <1>2, <1>3
     DEF Next, RideStep, DeliverExhausted, SendClaim, ReceiveAnswer, Timeout, DropAnswer,
         ClaimStep, MatchTimeout, OtherDispatchStep, DispatchRestart, QueueOK, vars

-----------------------------------------------------------------------------
(***************************************************************************)
(* Each service keeps its invariants.                                      *)
(***************************************************************************)
ServicesInv ==
  TypeInv /\ ClaimInv /\ EventsInv /\ DispatchInv /\ QueueOK

LEMMA ServicesInit == Init => ServicesInv
BY TypeInit, ClaimInit, EventsInit, DispatchInvInit DEF Init, ServicesInv, QueueOK

LEMMA ServicesNext == ServicesInv /\ [Next]_vars => ServicesInv'
<1> SUFFICES ASSUME ServicesInv, [Next]_vars PROVE ServicesInv'
  OBVIOUS
<1>1. exhausted \subseteq Rides
  BY DEF ServicesInv, DispatchInv, DispatchTypeOK
<1>2. [HandlerStep]_rideVars
  BY <1>1, RideSide
<1>3. [DispatchStep]_dispatchVars
  BY DispatchSide DEF ServicesInv
<1>4. QED
  BY <1>2, <1>3, TypeInvStep, ClaimInvStep, EventsInvStep, DispatchInvStep, QueueNext
     DEF ServicesInv

LEMMA ServicesKeepInv == Spec => []ServicesInv
BY ServicesInit, ServicesNext, PTL DEF Spec

\* In the company of Dispatch, a ride that is over changes its status only by
\* the save of a stale entity or a driver's cancellation at the cap, whatever
\* claims, restarts and repeated events run into each other.
THEOREM OverRidesStayOverTogether == Spec => OverStaysOver
<1> DEFINE Over ==
      \A r \in Rides :
        Exists(r) /\ IsTerminal(rides[r].status) /\ rides'[r].status # rides[r].status =>
          \E w \in Workers :
            /\ calls[w].phase = "saving" /\ calls[w].ride = r
            /\ \/ /\ calls[w].snap.status # rides[r].status
                  /\ IsTerminal(calls[w].snap.status) => IsTerminal(rides'[r].status)
               \/ /\ calls[w].op = "driver_cancel"
                  /\ rides'[r].status = "cancelled_by_driver"
<1>1. ServicesInv /\ [Next]_vars => [Over]_rides
  <2> SUFFICES ASSUME ServicesInv, [Next]_vars PROVE Over
    OBVIOUS
  <2>1. [HandlerStep]_rideVars
    BY RideSide DEF ServicesInv, DispatchInv, DispatchTypeOK
  <2>2. QED
    BY <2>1, OverStep DEF ServicesInv
<1>2. QED
  BY <1>1, ServicesKeepInv, PTL DEF Spec, OverStaysOver

\* Ride's consumers never see an end without its beginning.
THEOREM CompletionAfterAssignmentTogether == Spec => []CompletionFollowsAssignment
<1>1. ServicesInv => CompletionFollowsAssignment
  BY DEF ServicesInv, EventsInv
<1>2. QED
  BY <1>1, ServicesKeepInv, PTL

\* Dispatch, fed by Ride's events and claims, implements FirstAcceptWins as long
\* as no claim key expires under a claim that has met it.
THEOREM FirstAcceptWinsTogether == ASSUME KeyOutlastsClaims PROVE Spec => FirstAcceptWins
<1>1. ServicesInv /\ ServicesInv' /\ [Next]_vars => [FAW!AbstractNext]_<<Offered, winner>>
  <2> SUFFICES ASSUME ServicesInv, ServicesInv', [Next]_vars
               PROVE  [FAW!AbstractNext]_<<Offered, winner>>
    OBVIOUS
  <2>1. [DispatchStep]_dispatchVars
    BY DispatchSide DEF ServicesInv
  <2>2. QED
    BY <2>1, StepRefines DEF ServicesInv
<1>2. Init => FAW!AbstractInit
  BY InitRefines DEF Init
<1>3. Spec => FAW!AbstractInit /\ [][FAW!AbstractNext]_<<Offered, winner>>
  BY <1>1, <1>2, ServicesKeepInv, PTL DEF Spec
<1>4. QED
  BY <1>3, PTL DEF FirstAcceptWins, FAW!AbstractSpec, Offered

\* Dispatch, fed by Ride's events -- repeated ones too -- runs two matches of a
\* ride at the same time only after one of its matches was won late.
THEOREM OneMatchRunsTogether == Spec => []OneRunningMatch
<1>1. CASE KeyOutlastsClaims
  <2>1. ServicesInv /\ RunInv /\ [Next]_vars => RunInv'
    BY <1>1, DispatchSide, RunInvStep DEF ServicesInv
  <2>2. Init => RunInv
    BY RunInvInit DEF Init
  <2>3. Spec => [](ServicesInv /\ RunInv)
    BY <2>1, <2>2, ServicesKeepInv, PTL DEF Spec
  <2>4. ServicesInv /\ RunInv => OneRunningMatch
    BY RunIsOne DEF ServicesInv
  <2>5. QED
    BY <2>3, <2>4, PTL
<1>2. CASE ~KeyOutlastsClaims
  <2>1. OneRunningMatch
    BY <1>2 DEF OneRunningMatch
  <2>2. QED
    BY <2>1, PTL
<1>3. QED
  BY <1>1, <1>2

-----------------------------------------------------------------------------
(***************************************************************************)
(* The driver of a ride.  A win is the same fact in both services: the     *)
(* claim under way belongs to the call that waits for it, and a claim that *)
(* was answered "won" has a match to show for it, for good.                *)
(***************************************************************************)
HasWon(r, d) ==
  \E m \in MatchIds : matches[m] # NoMatch /\ matches[m].ride = r /\ winner[m] = d

ClaimsLinked ==
  \A w \in Workers :
    calls[w].phase = "claiming" /\ claims[w] # NoClaim =>
      claims[w].ride = calls[w].ride /\ claims[w].driver = calls[w].who

WonClaims == \A w \in Workers : claims[w].phase = "won" => HasWon(claims[w].ride, claims[w].driver)

WinsKnown == \A r \in Rides, d \in Drivers : <<r, d>> \in won => HasWon(r, d)

LinkInv == ClaimsLinked /\ WonClaims /\ WinsKnown

\* Nobody takes a win back.
LEMMA WinsStay ==
  ASSUME KeyOutlastsClaims, DispatchInv, [DispatchStep]_dispatchVars, NEW r, NEW d \in Drivers, HasWon(r, d)
  PROVE  HasWon(r, d)'
<1>1. PICK m \in MatchIds : matches[m] # NoMatch /\ matches[m].ride = r /\ winner[m] = d
  BY DEF HasWon
<1>2. winner[m] # NoOne
  BY <1>1, NullAssumption
<1>3. winner'[m] = winner[m]
  <2>1. CASE UNCHANGED winner
    BY <2>1
  <2>2. ASSUME NEW n \in MatchIds, NEW e \in Drivers, WinOf(n, e)
        PROVE  winner'[m] = winner[m]
    BY <1>2, <2>2 DEF WinOf, DispatchInv, DispatchTypeOK
  <2>3. QED
    BY <2>1, <2>2, StepShape
<1>4. matches'[m] # NoMatch /\ matches'[m].ride = r
  <2>1. CASE OnlyEnds
    BY <1>1, <2>1 DEF OnlyEnds
  <2>2. ASSUME NEW n \in MatchIds, RoundOf(n)
        PROVE  matches'[m] # NoMatch /\ matches'[m].ride = r
    BY <1>1, <2>2, NoMatchIsNoMatch DEF RoundOf, Created
  <2>3. QED
    BY <2>1, <2>2, StepShape
<1>5. QED
  BY <1>1, <1>3, <1>4 DEF HasWon

\* A claim that becomes "won" has just made its driver the winner.
LEMMA GrantedWins ==
  ASSUME DispatchInv, NEW c \in Callers, ClaimGranted(c), claims'[c].phase = "won"
  PROVE  HasWon(claims[c].ride, claims[c].driver)'
<1> DEFINE m == claims[c].match
           d == claims[c].driver
<1>1. /\ claims[c] \in Call /\ claims[c].phase = "granted" /\ claims[c].phase \in InFlight
      /\ m \in MatchIds /\ d \in Drivers
      /\ Created(m) /\ matches[m] \in Match /\ matches[m].ride = claims[c].ride
      /\ claims \in [Callers -> {NoClaim} \cup Call \cup LostCall]
  BY Facts DEF ClaimGranted, Call, InFlight, DispatchInv, CallsOnMatches
<1>2. HasAssignment(d)
  BY <1>1 DEF ClaimGranted, Lose
<1>3. /\ matches' = [matches EXCEPT ![m] = Resolved(matches[m], "won")]
      /\ winner' = [winner EXCEPT ![m] = d]
      /\ claims'[c].ride = claims[c].ride /\ claims'[c].driver = claims[c].driver
  BY <1>1, <1>2 DEF ClaimGranted, Resolve, Call
<1>4. Resolved(matches[m], "won") \in Match /\ Resolved(matches[m], "won").ride = claims[c].ride
  BY <1>1, ResolvedType
<1>5. winner'[m] = d
  BY <1>1, <1>3 DEF DispatchInv, DispatchTypeOK
<1>6. matches'[m] # NoMatch /\ matches'[m].ride = claims[c].ride
  BY <1>1, <1>3, <1>4, Facts, NoMatchIsNoMatch
<1> HIDE DEF m, d
<1>7. QED
  BY <1>1, <1>3, <1>5, <1>6 DEF HasWon, d

\* A claim under way keeps its ride and driver, and only a grant makes it won.
LEMMA ClaimMoves ==
  ASSUME DispatchInv, NEW c \in Callers, TryClaim(c) \/ ClaimGranted(c)
  PROVE  /\ claims[c] # NoClaim
         /\ claims'[c].ride = claims[c].ride /\ claims'[c].driver = claims[c].driver
         /\ claims'[c].phase = "won" => ClaimGranted(c)
         /\ \A b \in Callers \ {c} : claims'[b] = claims[b]
<1>1. /\ claims[c] \in Call /\ claims \in [Callers -> {NoClaim} \cup Call \cup LostCall]
      /\ claims[c] # NoClaim
  BY Facts DEF TryClaim, ClaimGranted, InFlight, NoClaim
<1>2. \/ Lose(c)
      \/ claims' = [claims EXCEPT ![c].phase = "granted"]
      \/ ClaimGranted(c) /\ claims' = [claims EXCEPT ![c].phase = "won"]
  BY DEF TryClaim, ClaimGranted
<1>3. CASE Lose(c)
  BY <1>1, <1>3 DEF Lose
<1>4. CASE claims' = [claims EXCEPT ![c].phase = "granted"]
  BY <1>1, <1>4 DEF Call
<1>5. CASE ClaimGranted(c) /\ claims' = [claims EXCEPT ![c].phase = "won"]
  BY <1>1, <1>5 DEF Call
<1>6. QED
  BY <1>2, <1>3, <1>4, <1>5

LEMMA LinkInit == Init => LinkInv
BY DEF Init, RideInit, DispatchInit, LinkInv, ClaimsLinked, WonClaims, WinsKnown, NoClaim

LEMMA LinkNext ==
  ASSUME KeyOutlastsClaims, ServicesInv, LinkInv, [Next]_vars
  PROVE  LinkInv'
<1>0. /\ calls \in [Workers -> {Idle} \cup RequestCall \cup RideCall]
      /\ claims \in [Workers -> {NoClaim} \cup Call \cup LostCall]
      /\ TypeInv /\ DispatchInv /\ NoClaim.phase = "idle" /\ Idle.phase = "idle"
  BY DEF ServicesInv, TypeInv, RideTypeOK, DispatchInv, DispatchTypeOK, NoClaim, Idle
<1>1. ASSUME NEW r, NEW d \in Drivers, HasWon(r, d)
      PROVE  HasWon(r, d)'
  BY <1>0, <1>1, DispatchSide, WinsStay DEF ServicesInv
<1>2. ASSUME NEW w \in Workers, claims[w].phase = "won"
      PROVE  /\ claims[w].driver \in Drivers
             /\ HasWon(claims[w].ride, claims[w].driver)
  BY <1>0, <1>2 DEF LinkInv, WonClaims, Call, LostCall
\* Steps that neither win nor learn of a win.
<1>3. ASSUME UNCHANGED won,
             \A w \in Workers : claims'[w].phase = "won" => claims'[w] = claims[w]
      PROVE  WonClaims' /\ WinsKnown'
  <2>1. ASSUME NEW w \in Workers, claims'[w].phase = "won"
        PROVE  HasWon(claims[w].ride, claims[w].driver)' /\ claims'[w] = claims[w]
    <3>1. PICK c : c = claims[w]
      OBVIOUS
    <3>2. claims'[w] = c /\ c.driver \in Drivers /\ HasWon(c.ride, c.driver)
      BY <1>2, <1>3, <2>1, <3>1
    <3>3. HasWon(c.ride, c.driver)'
      BY <1>1, <3>2
    <3>4. QED
      BY <3>1, <3>2, <3>3
  <2>2. WonClaims'
    BY <2>1 DEF WonClaims
  <2>3. WinsKnown'
    BY <1>1, <1>3 DEF LinkInv, WinsKnown
  <2>4. QED
    BY <2>2, <2>3
<1>4. ASSUME NEW w \in Workers, RideStep(w)
      PROVE  LinkInv'
  <2>1. UNCHANGED <<claims, won>>
    BY <1>4 DEF RideStep, dispatchVars, PassengerCall, DriverCall, BeginRequest, Begin,
       CommitRequest, Select, Commit
  <2>2. \A v \in Workers \ {w} : calls'[v] = calls[v]
    BY <1>0, <1>4 DEF RideStep, PassengerCall, DriverCall, BeginRequest, Begin,
       CommitRequest, Select, Commit
  <2>3. CASE claims[w] = NoClaim
    BY <1>3, <2>1, <2>2, <2>3 DEF LinkInv, ClaimsLinked
  <2>4. CASE claims[w] # NoClaim
    <3>1. calls'[w].phase # "claiming"
      BY <1>0, <1>4, <2>4, PhaseOfCall
         DEF RideStep, Begin, CommitRequest, Select, Commit, Calling, RideCall, TypeInv
    <3>2. QED
      BY <1>3, <2>1, <2>2, <3>1 DEF LinkInv, ClaimsLinked
  <2>5. QED
    BY <2>3, <2>4
<1>5. ASSUME NEW w \in Workers, DeliverExhausted(w)
      PROVE  LinkInv'
  <2>1. UNCHANGED <<claims, won>> /\ (\A v \in Workers \ {w} : calls'[v] = calls[v])
        /\ calls'[w].phase # "claiming"
    BY <1>0, <1>5 DEF DeliverExhausted, dispatchVars, Begin
  <2>2. QED
    BY <1>3, <2>1 DEF LinkInv, ClaimsLinked
<1>6. ASSUME NEW w \in Workers, SendClaim(w)
      PROVE  LinkInv'
  <2>1. UNCHANGED <<calls, won>> /\ (\A v \in Workers \ {w} : claims'[v] = claims[v])
        /\ claims'[w].phase # "won"
        /\ claims'[w].ride = calls[w].ride /\ claims'[w].driver = calls[w].who
    BY <1>0, <1>6, CallersAssumption DEF SendClaim, rideVars, Claim
  <2>2. QED
    BY <1>3, <2>1 DEF LinkInv, ClaimsLinked
<1>7. ASSUME NEW w \in Workers, ReceiveAnswer(w)
      PROVE  LinkInv'
  <2>1. /\ claims' = [claims EXCEPT ![w] = NoClaim]
        /\ \A v \in Workers \ {w} : calls'[v] = calls[v]
        /\ calls[w].phase = "claiming" /\ claims[w].phase \in {"won", "lost"}
    BY <1>0, <1>7 DEF ReceiveAnswer, Answer, ClaimWon, ClaimLost
  <2>2. ClaimsLinked'
    BY <1>0, <2>1 DEF LinkInv, ClaimsLinked
  <2>3. CASE claims[w].phase # "won"
    BY <1>0, <1>3, <1>7, <2>1, <2>2, <2>3 DEF ReceiveAnswer, ClaimLost, LinkInv
  <2>4. CASE claims[w].phase = "won"
    <3>1. won' = won \cup {<<calls[w].ride, calls[w].who>>}
      BY <1>7, <2>4 DEF ReceiveAnswer, ClaimWon
    <3>2. claims[w].ride = calls[w].ride /\ claims[w].driver = calls[w].who
      BY <1>0, <2>1, <2>4 DEF LinkInv, ClaimsLinked
    <3>3. WinsKnown'
      <4> SUFFICES ASSUME NEW r \in Rides, NEW d \in Drivers, <<r, d>> \in won'
                   PROVE  HasWon(r, d)'
        BY DEF WinsKnown
      <4>1. HasWon(r, d)
        BY <1>2, <2>4, <3>1, <3>2 DEF LinkInv, WinsKnown
      <4>2. QED
        BY <1>1, <4>1
    <3>4. WonClaims'
      <4> SUFFICES ASSUME NEW v \in Workers, claims'[v].phase = "won"
                   PROVE  HasWon(claims[v].ride, claims[v].driver)'
        BY DEF WonClaims
      <4>1. PICK c : c = claims[v]
        OBVIOUS
      <4>2. claims'[v] = c /\ c.driver \in Drivers /\ HasWon(c.ride, c.driver)
        BY <1>0, <1>2, <2>1, <4>1
      <4>3. HasWon(c.ride, c.driver)'
        BY <1>1, <4>2
      <4>4. QED
        BY <4>2, <4>3
    <3>5. QED
      BY <2>2, <3>3, <3>4 DEF LinkInv
  <2>5. QED
    BY <2>3, <2>4
<1>8. ASSUME NEW w \in Workers, Timeout(w)
      PROVE  LinkInv'
  <2>1. UNCHANGED <<claims, won>> /\ calls' = [calls EXCEPT ![w] = Idle]
    BY <1>8 DEF Timeout, ClaimLost, dispatchVars
  <2>2. QED
    BY <1>0, <1>3, <2>1 DEF LinkInv, ClaimsLinked
<1>9. ASSUME NEW w \in Workers, DropAnswer(w)
      PROVE  LinkInv'
  <2>1. UNCHANGED <<calls, won>> /\ claims' = [claims EXCEPT ![w] = NoClaim]
    BY <1>9 DEF DropAnswer, Answer, rideVars
  <2>2. QED
    BY <1>0, <1>3, <2>1 DEF LinkInv, ClaimsLinked
<1>10. ASSUME NEW w \in Workers, ClaimStep(w)
       PROVE  LinkInv'
  <2>1. /\ claims[w] # NoClaim
        /\ claims'[w].ride = claims[w].ride /\ claims'[w].driver = claims[w].driver
        /\ claims'[w].phase = "won" => ClaimGranted(w)
        /\ \A v \in Workers \ {w} : claims'[v] = claims[v]
    BY <1>0, <1>10, ClaimMoves, CallersAssumption DEF ClaimStep
  <2>2. UNCHANGED <<calls, won>>
    BY <1>10 DEF ClaimStep, rideVars
  <2>3. ClaimsLinked'
    BY <2>1, <2>2 DEF LinkInv, ClaimsLinked
  <2>4. WinsKnown'
    BY <1>1, <2>2 DEF LinkInv, WinsKnown
  <2>5. ASSUME NEW v \in Workers, claims'[v].phase = "won"
        PROVE  HasWon(claims[v].ride, claims[v].driver)'
    <3>1. CASE v = w
      BY <1>0, <2>1, <2>5, <3>1, GrantedWins, CallersAssumption
    <3>2. CASE v # w
      <4>1. PICK c : c = claims[v]
        OBVIOUS
      <4>2. claims'[v] = c /\ c.driver \in Drivers /\ HasWon(c.ride, c.driver)
        BY <1>2, <2>1, <2>5, <3>2, <4>1
      <4>3. HasWon(c.ride, c.driver)'
        BY <1>1, <4>2
      <4>4. QED
        BY <4>2, <4>3
    <3>3. QED
      BY <3>1, <3>2
  <2>6. QED
    BY <2>3, <2>4, <2>5 DEF LinkInv, WonClaims
<1>11. CASE DispatchRestart
  <2>1. UNCHANGED won /\ claims' = [w \in Workers |-> NoClaim]
    BY <1>11, CallersAssumption DEF DispatchRestart, Restart
  <2>2. QED
    BY <1>0, <1>3, <2>1 DEF LinkInv, ClaimsLinked
<1>12. ASSUME RelayEvent \/ Redeliver \/ DispatchConsumes \/ OtherDispatchStep
              \/ (\E m \in MatchIds : MatchTimeout(m)) \/ UNCHANGED vars
       PROVE  LinkInv'
  <2>1. UNCHANGED <<claims, calls, won>>
    BY <1>12 DEF RelayEvent, Relay, Redeliver, DispatchConsumes, OtherDispatchStep, MatchTimeout,
       StartMatching, RideCancelled, RideCompleted, OnTimeout, ExpireKey, SetOnline, Observe,
       vars, rideVars, dispatchVars
  <2>2. QED
    BY <1>3, <2>1 DEF LinkInv, ClaimsLinked
<1>13. QED
  BY <1>4, <1>5, <1>6, <1>7, <1>8, <1>9, <1>10, <1>11, <1>12 DEF Next

\* The driver of a ride is the winner of one of that ride's matches, whatever
\* answers, events, saves, timeouts and restarts of Dispatch overtake each other,
\* as long as no claim key expires under a claim that has met it.
THEOREM DriverIsTheWinner == ASSUME KeyOutlastsClaims PROVE Spec => []DriverIsWinner
<1>1. Spec => [](ServicesInv /\ LinkInv)
  <2>1. ServicesInv /\ LinkInv /\ [Next]_vars => LinkInv'
    BY LinkNext
  <2>2. QED
    BY <2>1, ServicesKeepInv, LinkInit, PTL DEF Spec
<1>2. ServicesInv /\ LinkInv => DriverIsWinner
  <2> SUFFICES ASSUME ServicesInv, LinkInv, NEW r \in Rides, Exists(r), rides[r].driver # NoOne
               PROVE  HasWon(r, rides[r].driver)
    BY DEF DriverIsWinner, HasWon
  <2>1. rides[r].driver \in Drivers
    BY DEF ServicesInv, TypeInv, RideTypeOK, Exists, Row
  <2>2. <<r, rides[r].driver>> \in won
    BY DEF ServicesInv, ClaimInv, DriverWonClaim
  <2>3. QED
    BY <2>1, <2>2 DEF LinkInv, WinsKnown
<1>3. QED
  BY <1>1, <1>2, PTL

-----------------------------------------------------------------------------
(***************************************************************************)
(* Handlers that do not overlap, with Dispatch.                            *)
(***************************************************************************)
LEMMA SerialTogether == Spec /\ []HandlersApart => [](ServicesInv /\ SerialInv)
<1>1. Init => SerialInv
  BY SerialInit DEF Init
<1>2. ServicesInv /\ SerialInv /\ HandlersApart /\ [Next]_vars => SerialInv'
  BY RideSide, SerialInvStep DEF ServicesInv, DispatchInv, DispatchTypeOK
<1>3. QED
  BY <1>1, <1>2, ServicesKeepInv, PTL DEF Spec

\* In an execution in which no two handlers of the Ride service work on the
\* same ride at a time, the columns of every row agree with its status.
THEOREM RowsStayCoherentTogether == Spec /\ []HandlersApart => []RowCoherent
<1>1. SerialInv => RowCoherent
  BY DEF SerialInv
<1>2. QED
  BY <1>1, SerialTogether, PTL

\* One handler process at a time is one way to keep them apart, the one the
\* run checks.
LEMMA OneWorkerApart == (\A u, v \in Workers : u = v) => HandlersApart
BY DEF HandlersApart

=============================================================================
