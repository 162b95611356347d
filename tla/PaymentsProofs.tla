--------------------------- MODULE PaymentsProofs ---------------------------
(***************************************************************************)
(* Theorems about Payments for any number of rides, attempts and           *)
(* concurrent handlers, any answers of the gateway and any callbacks.      *)
(***************************************************************************)
EXTENDS SerialPayments, FiniteSetTheorems, TLAPS

USE NoneAssumption, RetriesAssumption, AnswersAssumption

-----------------------------------------------------------------------------
(***************************************************************************)
(* The inductive invariant.  An entity in flight is about the row it will  *)
(* be saved to; a reference other than an attempt's own got there by a     *)
(* callback that named the ride; a handler that may record a digital       *)
(* success has heard of it; and no handler works on an entity that was     *)
(* loaded as succeeded.  These are predicates of a table and a set of      *)
(* reports, so that they can be asked of the next ones.                    *)
(***************************************************************************)
Calls == {Idle} \cup CountCall \cup EntityCall \cup SaveCall

\* t may be stored for payment id of ride r.
RefKnown(t, id, r, reports) == t \in {None, id} \/ <<"ride", r>> \in reports

\* A success was reported for payment id of ride r.
Heard(id, r, reports) == <<"ride", r>> \in reports \/ <<"transaction", id>> \in reports

\* c will record a success of the digital kind.
Succeeding(c) ==
  /\ c.phase \in {"guarding", "settling"} \/ (c.phase = "saving" /\ c.image.status = "succeeded")
  /\ c.snap.method = "digital"

Coherent(c, table, reports) ==
  c.phase \in OnEntity =>
    /\ c.id # None => /\ table[c.id] # NoPayment
                      /\ table[c.id].ride = c.snap.ride
                      /\ table[c.id].method = c.snap.method
    /\ c.id = None => c.snap.method = "cash"
    /\ RefKnown(c.snap.ref, c.id, c.snap.ride, reports)
    /\ c.phase # "saving" => RefKnown(c.ref, c.id, c.snap.ride, reports)
    /\ c.phase \in {"initiating", "holding"} => c.snap.status = "pending_gateway" /\ c.id # None
    /\ c.phase = "failing" => c.snap.status # "succeeded"
    /\ c.phase = "saving" =>
         /\ c.image.ride = c.snap.ride /\ c.image.method = c.snap.method
         /\ RefKnown(c.image.ref, c.id, c.snap.ride, reports)
         /\ c.image.status = "succeeded" \/ c.snap.status # "succeeded"
    /\ Succeeding(c) => Heard(c.id, c.snap.ride, reports)

CallsCoherent == \A w \in Workers : Coherent(calls[w], payments, reported)

RefsCoherent ==
  \A p \in PaymentIds : Exists(p) => RefKnown(payments[p].ref, p, payments[p].ride, reported)

CompletedHeard ==
  \A p \in completed :
    payments[p].method = "digital" => Heard(p, payments[p].ride, reported)

PayInv == TypeOK /\ CallsCoherent /\ RefsCoherent /\ CompletedHeard

-----------------------------------------------------------------------------
(***************************************************************************)
(* Every step keeps the rows that exist, whose they are, and every report. *)
(***************************************************************************)
Grows ==
  /\ \A p \in PaymentIds : Exists(p) => /\ payments'[p] # NoPayment
                                        /\ payments'[p].ride = payments[p].ride
                                        /\ payments'[p].method = payments[p].method
  /\ reported \subseteq reported'

\* The absent row is no payment.
LEMMA NoPaymentIsNoPayment == NoPayment \notin Payment
BY DEF NoPayment, Payment, Status

\* References and reports survive such a step.
LEMMA GrowsKeeps ==
  ASSUME Grows, NEW t, NEW id, NEW r
  PROVE  /\ RefKnown(t, id, r, reported) => RefKnown(t, id, r, reported')
         /\ Heard(id, r, reported) => Heard(id, r, reported')
BY DEF Grows, RefKnown, Heard

\* So does the coherence of a call.
LEMMA GrowsKeepsCall ==
  ASSUME Grows, NEW c \in Calls, Coherent(c, payments, reported)
  PROVE  Coherent(c, payments', reported')
<1> SUFFICES ASSUME c.phase \in OnEntity
             PROVE  Coherent(c, payments', reported')
  BY DEF Coherent
<1>1. c.id # None => c.id \in PaymentIds
  BY DEF Calls, OnEntity, Idle, CountCall, EntityCall, SaveCall
<1>2. c.id # None => /\ payments'[c.id] # NoPayment
                     /\ payments'[c.id].ride = c.snap.ride
                     /\ payments'[c.id].method = c.snap.method
  BY <1>1 DEF Coherent, Grows, Exists
<1>3. QED
  BY <1>2, GrowsKeeps DEF Coherent

\* A call has the fields of its phase.
LEMMA CallFields ==
  ASSUME NEW c \in Calls
  PROVE  /\ c.phase = "counted" => c \in CountCall
         /\ c.phase \in OnEntity \ {"saving"} => c \in EntityCall
         /\ c.phase = "saving" => c \in SaveCall
BY DEF Calls, OnEntity, Idle, CountCall, EntityCall, SaveCall

\* What a step of one worker has to establish.
LEMMA WorkerStep ==
  ASSUME PayInv, Grows,
         NEW w \in Workers, NEW c \in Calls, calls' = [calls EXCEPT ![w] = c],
         Coherent(c, payments', reported'),
         UNCHANGED payable,
         payments' \in [PaymentIds -> Payment \cup {NoPayment}],
         reported' \subseteq ({"ride"} \X Rides) \cup ({"transaction"} \X PaymentIds),
         completed' \subseteq PaymentIds,
         \A p \in completed' : payments'[p] # NoPayment,
         RefsCoherent', CompletedHeard'
  PROVE  PayInv'
<1>1. calls \in [Workers -> Calls]
  BY DEF PayInv, TypeOK, Calls
<1>2. \A v \in Workers : calls'[v] = IF v = w THEN c ELSE calls[v]
  BY <1>1
<1>3. \A v \in Workers : Coherent(calls'[v], payments', reported')
  BY <1>1, <1>2, GrowsKeepsCall DEF PayInv, CallsCoherent
<1>4. CallsCoherent'
  BY <1>3 DEF CallsCoherent
<1>5. \A v \in Workers :
        calls'[v].phase \in OnEntity /\ calls'[v].id # None => payments'[calls'[v].id] # NoPayment
  BY <1>3 DEF Coherent
<1>6. TypeOK'
  BY <1>1, <1>5 DEF PayInv, TypeOK, Calls, Exists
<1>7. QED
  BY <1>4, <1>6 DEF PayInv

LEMMA PayInit == Init => PayInv
BY DEF Init, PayInv, TypeOK, CallsCoherent, Coherent, OnEntity, RefsCoherent, CompletedHeard,
       Idle, Exists

\* The payments of a ride are finitely many.
LEMMA OfIsFinite == \A r : IsFiniteSet(Of(r))
BY PaymentIdsAssumption, FS_Subset DEF Of

\* An unsaved table leaves most of it as it was.
LEMMA QuietStep ==
  ASSUME PayInv, NEW w \in Workers, NEW c \in Calls, calls' = [calls EXCEPT ![w] = c],
         reported \subseteq reported', Coherent(c, payments, reported'),
         reported' \subseteq ({"ride"} \X Rides) \cup ({"transaction"} \X PaymentIds),
         UNCHANGED <<payable, payments, completed>>
  PROVE  PayInv'
<1>1. Grows
  BY DEF Grows, Exists
<1>2. RefsCoherent' /\ CompletedHeard'
  BY <1>1, GrowsKeeps DEF PayInv, RefsCoherent, CompletedHeard, Exists
<1>3. QED
  BY <1>1, <1>2, WorkerStep DEF PayInv, TypeOK, Exists

LEMMA IdleIsCoherent == \A table, reports : Idle \in Calls /\ Coherent(Idle, table, reports)
BY DEF Calls, Coherent, OnEntity, Idle

LEMMA PayNext == PayInv /\ [Next]_vars => PayInv'
<1> SUFFICES ASSUME PayInv, [Next]_vars PROVE PayInv'
  OBVIOUS
<1>0. /\ payments \in [PaymentIds -> Payment \cup {NoPayment}]
      /\ reported \subseteq ({"ride"} \X Rides) \cup ({"transaction"} \X PaymentIds)
      /\ completed \subseteq PaymentIds
      /\ \A w \in Workers : calls[w] \in Calls /\ Coherent(calls[w], payments, reported)
      /\ \A p \in PaymentIds : Exists(p) =>
           payments[p] \in Payment /\ RefKnown(payments[p].ref, p, payments[p].ride, reported)
      /\ \A p \in completed : Exists(p)
  BY DEF PayInv, TypeOK, Calls, CallsCoherent, RefsCoherent, Exists
<1>1. ASSUME NEW r \in Rides, OnFareCalculated(r)
      PROVE  PayInv'
  BY <1>1 DEF OnFareCalculated, PayInv, TypeOK, CallsCoherent, RefsCoherent, CompletedHeard, Exists
<1>2. ASSUME NEW w \in Workers, NEW r \in Rides, PayBegin(w, r)
      PROVE  PayInv'
  <2> DEFINE c == [phase |-> "counted", ride |-> r, attempt |-> Cardinality(Of(r)) + 1]
  <2>1. Cardinality(Of(r)) \in Nat
    BY OfIsFinite, FS_CardinalityType
  <2>2. c \in Calls /\ Coherent(c, payments, reported)
    BY <2>1 DEF Calls, CountCall, Coherent, OnEntity
  <2>3. calls' = [calls EXCEPT ![w] = c] /\ UNCHANGED <<payable, payments, completed, reported>>
    BY <1>2 DEF PayBegin, Become
  <2> HIDE DEF c
  <2>4. QED
    BY <1>0, <2>2, <2>3, QuietStep
<1>3. ASSUME NEW w \in Workers, NEW r \in Rides, CashBegin(w, r)
      PROVE  PayInv'
  <2> DEFINE snap == [ride |-> r, method |-> "cash", status |-> "pending_gateway",
                      attempt |-> Cardinality(Of(r)) + 1, ref |-> None]
             c == EntityOf("guarding", None, snap, None)
  <2>1. Cardinality(Of(r)) \in Nat
    BY OfIsFinite, FS_CardinalityType
  <2>2. snap \in Payment
    BY <2>1 DEF Payment, Method, Status
  <2>3. c \in Calls /\ Coherent(c, payments, reported)
    BY <2>2 DEF Calls, EntityCall, EntityOf, Coherent, OnEntity, RefKnown, Succeeding
  <2>4. calls' = [calls EXCEPT ![w] = c] /\ UNCHANGED <<payable, payments, completed, reported>>
    BY <1>3 DEF CashBegin, Become
  <2> HIDE DEF c, snap
  <2>5. QED
    BY <1>0, <2>3, <2>4, QuietStep
<1>4. ASSUME NEW w \in Workers, NEW r \in Rides, NEW t \in PaymentIds, Callback(w, r, t)
      PROVE  PayInv'
  <2>1. PICK p \in CallbackTargets(r, t) :
          /\ payments[p].ref = t => payments[p].status # "succeeded"
          /\ \/ /\ calls' = [calls EXCEPT ![w] = EntityOf("guarding", p, payments[p], t)]
                /\ reported' = reported \cup Reports(r, t)
             \/ /\ calls' = [calls EXCEPT ![w] = EntityOf("failing", p, payments[p], None)]
                /\ UNCHANGED reported
    BY <1>4 DEF Callback, Become
  <2>2. PICK row : row = payments[p]
    OBVIOUS
  <2>3. /\ p \in PaymentIds /\ Exists(p) /\ row \in Payment
        /\ row.ref = t \/ (row.ride = r /\ row.status = "pending_gateway")
        /\ RefKnown(row.ref, p, row.ride, reported)
    BY <1>0, <2>1, <2>2 DEF CallbackTargets, Of
  <2>4. row.status # "succeeded"
    BY <2>1, <2>2, <2>3
  <2>5. UNCHANGED <<payable, payments, completed>>
    BY <1>4 DEF Callback
  <2>6. CASE /\ calls' = [calls EXCEPT ![w] = EntityOf("guarding", p, row, t)]
             /\ reported' = reported \cup Reports(r, t)
    <3>1. /\ reported \subseteq reported'
          /\ reported' \subseteq ({"ride"} \X Rides) \cup ({"transaction"} \X PaymentIds)
          /\ <<"ride", r>> \in reported' /\ <<"transaction", t>> \in reported'
      BY <1>0, <2>6 DEF Reports
    <3>2. /\ RefKnown(t, p, row.ride, reported')
          /\ RefKnown(row.ref, p, row.ride, reported')
          /\ Heard(p, row.ride, reported')
      <4>1. RefKnown(row.ref, p, row.ride, reported')
        BY <2>3, <3>1 DEF RefKnown
      <4>2. CASE row.ref = t
        BY <3>1, <4>1, <4>2 DEF RefKnown, Heard
      <4>3. CASE row.ride = r
        BY <3>1, <4>1, <4>3 DEF RefKnown, Heard
      <4>4. QED
        BY <2>3, <4>2, <4>3
    <3>3. PICK c : c = EntityOf("guarding", p, row, t)
      OBVIOUS
    <3>4. c \in Calls /\ Coherent(c, payments, reported')
      BY <2>2, <2>3, <3>2, <3>3
         DEF Calls, EntityCall, EntityOf, Coherent, OnEntity, Exists
    <3>5. QED
      BY <2>5, <2>6, <3>1, <3>3, <3>4, QuietStep
  <2>7. CASE /\ calls' = [calls EXCEPT ![w] = EntityOf("failing", p, row, None)]
             /\ UNCHANGED reported
    <3>1. PICK c : c = EntityOf("failing", p, row, None)
      OBVIOUS
    <3>2. c \in Calls /\ Coherent(c, payments, reported')
      BY <2>2, <2>3, <2>4, <2>7, <3>1
         DEF Calls, EntityCall, EntityOf, Coherent, OnEntity, Succeeding, RefKnown, Exists
    <3>3. QED
      BY <1>0, <2>5, <2>7, <3>1, <3>2, QuietStep
  <2>8. QED
    BY <2>1, <2>2, <2>6, <2>7
<1>5. ASSUME NEW w \in Workers, PayInsert(w)
      PROVE  PayInv'
  <2> DEFINE row == [ride |-> calls[w].ride, method |-> "digital", status |-> "pending_gateway",
                     attempt |-> calls[w].attempt, ref |-> None]
  <2>1. row \in Payment
    BY <1>0, <1>5, CallFields DEF PayInsert, CountCall, Payment, Method, Status
  <2>2. PICK p \in PaymentIds :
          /\ ~Exists(p)
          /\ \/ /\ payments' = Write(p, row)
                /\ calls' = [calls EXCEPT ![w] = EntityOf("initiating", p, row, None)]
             \/ /\ UNCHANGED payments
                /\ calls' = [calls EXCEPT ![w] = Idle]
    BY <1>5 DEF PayInsert, Become
  <2>3. UNCHANGED <<payable, completed, reported>>
    BY <1>5 DEF PayInsert
  <2>4. CASE UNCHANGED payments /\ calls' = [calls EXCEPT ![w] = Idle]
    BY <1>0, <2>3, <2>4, IdleIsCoherent, QuietStep
  <2>5. CASE /\ payments' = Write(p, row)
             /\ calls' = [calls EXCEPT ![w] = EntityOf("initiating", p, row, None)]
    <3> DEFINE c == EntityOf("initiating", p, row, None)
    <3>1. /\ row.ref = None /\ row.method = "digital" /\ row.status = "pending_gateway"
          /\ row # NoPayment
      BY <2>1, NoPaymentIsNoPayment
    <3>2. c \in Calls /\ c.phase = "initiating" /\ c.id = p /\ c.snap = row /\ c.ref = None
      BY <2>1 DEF Calls, EntityCall, EntityOf
    <3>3. calls' = [calls EXCEPT ![w] = c]
      BY <2>5
    <3> HIDE DEF c, row
    <3>4. /\ payments' \in [PaymentIds -> Payment \cup {NoPayment}]
          /\ payments'[p] = row /\ \A q \in PaymentIds \ {p} : payments'[q] = payments[q]
      BY <1>0, <2>1, <2>5 DEF Write
    <3>5. Grows
      BY <2>2, <2>3, <3>4 DEF Grows, Exists
    <3>6. p \notin completed
      BY <1>0, <2>2
    <3>7. Coherent(c, payments', reported')
      BY <2>3, <3>1, <3>2, <3>4 DEF Coherent, RefKnown, Succeeding
    <3>8. RefsCoherent'
      <4>1. \A q \in PaymentIds :
              payments'[q] # NoPayment => RefKnown(payments'[q].ref, q, payments'[q].ride, reported')
        <5> TAKE q \in PaymentIds
        <5>1. CASE q = p
          BY <3>1, <3>4, <5>1 DEF RefKnown
        <5>2. CASE q # p
          BY <1>0, <3>4, <3>5, <5>2, GrowsKeeps DEF Exists
        <5>3. QED
          BY <5>1, <5>2
      <4>2. QED
        BY <4>1 DEF RefsCoherent, Exists
    <3>9. CompletedHeard'
      BY <1>0, <2>3, <3>4, <3>5, <3>6, GrowsKeeps DEF PayInv, CompletedHeard
    <3>10. \A q \in completed' : payments'[q] # NoPayment
      BY <1>0, <2>3, <3>1, <3>4 DEF Exists
    <3>11. QED
      BY <1>0, <2>3, <3>2, <3>3, <3>4, <3>5, <3>7, <3>8, <3>9, <3>10, WorkerStep
  <2>6. QED
    BY <2>2, <2>4, <2>5
<1>6. ASSUME NEW w \in Workers, Initiate(w)
      PROVE  PayInv'
  <2>1. PICK i : i = calls[w]
    OBVIOUS
  <2>2. i \in EntityCall /\ i.phase = "initiating"
    BY <1>0, <1>6, <2>1, CallFields DEF Initiate, OnEntity
  <2>3. /\ i.id \in PaymentIds /\ Exists(i.id)
        /\ i.snap \in Payment /\ i.snap.status = "pending_gateway" /\ i.snap.ride \in Rides
        /\ payments[i.id].ride = i.snap.ride /\ payments[i.id].method = i.snap.method
        /\ RefKnown(i.snap.ref, i.id, i.snap.ride, reported)
    BY <1>0, <2>1, <2>2 DEF Coherent, OnEntity, EntityCall, Exists, Payment
  <2>4. /\ \A phase \in {"guarding", "failing", "holding"}, ref \in PaymentIds \cup {None} :
             EntityOf(phase, i.id, i.snap, ref) \in Calls
        /\ Idle \in Calls
    BY <2>3 DEF Calls, EntityOf, EntityCall
  <2>5. UNCHANGED <<payable, payments, completed>>
    BY <1>6 DEF Initiate
  <2>6. CASE /\ calls' = [calls EXCEPT ![w] = EntityOf("guarding", i.id, i.snap, i.id)]
             /\ reported' = reported \cup Reports(i.snap.ride, i.id)
    <3>1. /\ reported \subseteq reported'
          /\ reported' \subseteq ({"ride"} \X Rides) \cup ({"transaction"} \X PaymentIds)
          /\ <<"ride", i.snap.ride>> \in reported'
      BY <1>0, <2>3, <2>6 DEF Reports
    <3>2. PICK c : c = EntityOf("guarding", i.id, i.snap, i.id)
      OBVIOUS
    <3>3. Coherent(c, payments, reported')
      BY <2>3, <3>1, <3>2 DEF EntityOf, Coherent, RefKnown, Heard, Exists
    <3>4. QED
      BY <2>3, <2>4, <2>5, <2>6, <3>1, <3>2, <3>3, QuietStep
  <2>7. ASSUME UNCHANGED reported,
               NEW c \in {Idle, EntityOf("failing", i.id, i.snap, None),
                          EntityOf("holding", i.id, i.snap, i.id)},
               calls' = [calls EXCEPT ![w] = c]
        PROVE  PayInv'
    <3>1. c \in Calls
      BY <2>3, <2>4
    <3>2. CASE c = Idle
      BY <1>0, <2>5, <2>7, <3>1, <3>2, IdleIsCoherent, QuietStep
    <3>3. CASE c # Idle
      <4>1. Coherent(c, payments, reported')
        BY <2>3, <2>7, <3>3 DEF EntityOf, Coherent, Succeeding, RefKnown, Exists
      <4>2. QED
        BY <1>0, <2>5, <2>7, <3>1, <4>1, QuietStep
    <3>4. QED
      BY <3>2, <3>3
  <2>8. \/ /\ calls' = [calls EXCEPT ![w] = EntityOf("guarding", i.id, i.snap, i.id)]
           /\ reported' = reported \cup Reports(i.snap.ride, i.id)
        \/ /\ UNCHANGED reported
           /\ \/ calls' = [calls EXCEPT ![w] = EntityOf("failing", i.id, i.snap, None)]
              \/ calls' = [calls EXCEPT ![w] = EntityOf("holding", i.id, i.snap, i.id)]
              \/ calls' = [calls EXCEPT ![w] = Idle]
    <3>1. PICK answer \in {"succeeded", "failed", "pending", "error"} :
            /\ calls' = [calls EXCEPT ![w] =
                 CASE answer = "succeeded" -> EntityOf("guarding", i.id, i.snap, i.id)
                   [] answer = "failed"    -> EntityOf("failing", i.id, i.snap, None)
                   [] answer = "pending"   -> EntityOf("holding", i.id, i.snap, i.id)
                   [] answer = "error"     -> Idle]
            /\ reported' = reported \cup
                 (IF answer = "succeeded" THEN Reports(i.snap.ride, i.id) ELSE {})
      BY <1>6, <2>1 DEF Initiate, Become
    <3>2. CASE answer = "succeeded"
      BY <3>1, <3>2
    <3>3. CASE answer = "failed"
      BY <3>1, <3>3
    <3>4. CASE answer = "pending"
      BY <3>1, <3>4
    <3>5. CASE answer = "error"
      BY <3>1, <3>5
    <3>6. QED
      BY <3>2, <3>3, <3>4, <3>5
  <2>9. QED
    BY <2>6, <2>7, <2>8
<1>7. ASSUME NEW w \in Workers, Guard(w)
      PROVE  PayInv'
  <2>1. calls[w] \in EntityCall /\ calls[w].phase = "guarding"
    BY <1>0, <1>7, CallFields DEF Guard, OnEntity
  <2> DEFINE c == [calls[w] EXCEPT !.phase = "settling"]
  <2>2. c \in Calls /\ Coherent(c, payments, reported)
    BY <1>0, <2>1 DEF Calls, EntityCall, Coherent, OnEntity, Succeeding
  <2>3. /\ calls' = [calls EXCEPT ![w] = c] \/ calls' = [calls EXCEPT ![w] = Idle]
        /\ UNCHANGED <<payable, payments, completed, reported>>
    BY <1>7 DEF Guard, Become
  <2> HIDE DEF c
  <2>4. QED
    BY <1>0, <2>2, <2>3, IdleIsCoherent, QuietStep
<1>8. ASSUME NEW w \in Workers, Select(w)
      PROVE  PayInv'
  <2>1. PICK e : e = calls[w]
    OBVIOUS
  <2>2. e \in EntityCall /\ e.phase \in {"holding", "settling", "failing"}
    BY <1>0, <1>8, <2>1, CallFields DEF Select, OnEntity
  <2>3. /\ Entity(e) \in Payment /\ Entity(e).ride = e.snap.ride
        /\ Entity(e).method = e.snap.method /\ Entity(e).ref \in {e.snap.ref, e.ref}
        /\ Entity(e).status = "succeeded" => e.phase \in {"settling", "holding"}
        /\ e.phase = "settling" => Entity(e).status = "succeeded"
        /\ e.phase = "holding" => Entity(e).status = e.snap.status
    BY <2>2 DEF Entity, EntityCall, Payment, Status
  <2>4. PICK cols : cols = {f \in {"status", "ref"} : e.id # None /\ Entity(e)[f] # payments[e.id][f]}
    OBVIOUS
  <2>5. PICK image : image = Entity(e)
    OBVIOUS
  <2>6. PICK c : c = [phase |-> "saving", id |-> e.id, snap |-> e.snap, image |-> image,
                      cols |-> cols]
    OBVIOUS
  <2>7. c \in Calls
    BY <2>2, <2>3, <2>4, <2>5, <2>6 DEF Calls, EntityCall, SaveCall
  <2>8. Coherent(c, payments, reported)
    <3>1. Coherent(e, payments, reported)
      BY <1>0, <2>1
    <3>2. RefKnown(image.ref, e.id, e.snap.ride, reported)
      BY <2>2, <2>3, <2>5, <3>1 DEF Coherent, OnEntity, RefKnown
    <3>3. image.status = "succeeded" => e.phase = "settling"
      BY <2>2, <2>3, <2>5, <3>1 DEF Coherent, OnEntity
    <3>4. image.status = "succeeded" \/ e.snap.status # "succeeded"
      BY <2>2, <2>3, <2>5, <3>1 DEF Coherent, OnEntity
    <3>5. QED
      BY <2>2, <2>3, <2>5, <2>6, <3>1, <3>2, <3>3, <3>4 DEF Coherent, OnEntity, Succeeding
  <2>9. calls' = [calls EXCEPT ![w] = c] /\ UNCHANGED <<payable, payments, completed, reported>>
    BY <1>8, <2>1, <2>4, <2>5, <2>6 DEF Select, Become
  <2>10. QED
    BY <1>0, <2>7, <2>8, <2>9, QuietStep
<1>9. ASSUME NEW w \in Workers, Commit(w)
      PROVE  PayInv'
  <2>1. PICK c : c = calls[w]
    OBVIOUS
  <2>2. c \in SaveCall /\ c.phase = "saving" /\ Coherent(c, payments, reported)
    BY <1>0, <1>9, <2>1, CallFields DEF Commit
  <2>3. PICK p \in PaymentIds :
          /\ IF c.id = None THEN ~Exists(p) ELSE p = c.id
          /\ \/ /\ payments' = Write(p, Saved(c, p))
                /\ completed' = completed \cup (IF c.image.status = "succeeded" THEN {p} ELSE {})
             \/ UNCHANGED <<payments, completed>>
    BY <1>9, <2>1, <2>2 DEF Commit, SaveCall
  <2>4. calls' = [calls EXCEPT ![w] = Idle] /\ UNCHANGED <<payable, reported>>
    BY <1>9 DEF Commit, Become
  <2>5. PICK row : row = Saved(c, p)
    OBVIOUS
  <2>6. /\ row \in Payment /\ row.ride = c.snap.ride /\ row.method = c.snap.method
        /\ RefKnown(row.ref, p, row.ride, reported)
        /\ Exists(p) => row.ride = payments[p].ride /\ row.method = payments[p].method
    <3>1. CASE c.id = None
      BY <2>2, <2>3, <2>5, <3>1 DEF Saved, SaveCall, Coherent, OnEntity, RefKnown
    <3>2. CASE c.id # None
      <4>1. /\ payments[p] \in Payment /\ payments[p].ride = c.snap.ride
            /\ payments[p].method = c.snap.method /\ c.image \in Payment
            /\ RefKnown(payments[p].ref, p, c.snap.ride, reported)
            /\ RefKnown(c.image.ref, p, c.snap.ride, reported)
        BY <1>0, <2>2, <2>3, <3>2 DEF Coherent, OnEntity, SaveCall, Exists
      <4>2. row = [f \in DOMAIN payments[p] |-> IF f \in c.cols THEN c.image[f] ELSE payments[p][f]]
        BY <2>3, <2>5, <3>2 DEF Saved
      <4>3. c.cols \subseteq {"status", "ref"}
        BY <2>2 DEF SaveCall
      <4>4. /\ row \in Payment /\ row.ride = payments[p].ride /\ row.method = payments[p].method
            /\ row.ref \in {payments[p].ref, c.image.ref}
        BY <4>1, <4>2, <4>3 DEF Payment
      <4>5. QED
        BY <4>1, <4>4
    <3>3. QED
      BY <3>1, <3>2
  <2>7. c.image.status = "succeeded" /\ row.method = "digital" => Heard(p, row.ride, reported)
    BY <2>2, <2>3, <2>6 DEF Coherent, OnEntity, Succeeding
  <2>8. CASE UNCHANGED <<payments, completed>>
    BY <1>0, <2>4, <2>8, IdleIsCoherent, QuietStep
  <2>9. CASE /\ payments' = Write(p, row)
             /\ completed' = completed \cup (IF c.image.status = "succeeded" THEN {p} ELSE {})
    <3>1. row # NoPayment
      BY <2>6, NoPaymentIsNoPayment
    <3>2. /\ payments' \in [PaymentIds -> Payment \cup {NoPayment}]
          /\ payments'[p] = row /\ \A q \in PaymentIds \ {p} : payments'[q] = payments[q]
      BY <1>0, <2>6, <2>9 DEF Write
    <3>3. Grows
      BY <2>4, <2>6, <3>1, <3>2 DEF Grows, Exists
    <3>4. RefsCoherent'
      <4>1. \A q \in PaymentIds :
              payments'[q] # NoPayment => RefKnown(payments'[q].ref, q, payments'[q].ride, reported')
        <5> TAKE q \in PaymentIds
        <5>1. CASE q = p
          BY <2>6, <3>2, <3>3, <5>1, GrowsKeeps
        <5>2. CASE q # p
          BY <1>0, <3>2, <3>3, <5>2, GrowsKeeps DEF Exists
        <5>3. QED
          BY <5>1, <5>2
      <4>2. QED
        BY <4>1 DEF RefsCoherent, Exists
    <3>5. CompletedHeard'
      <4>1. \A q \in completed : q \in PaymentIds /\ Exists(q)
                /\ (payments[q].method = "digital" => Heard(q, payments[q].ride, reported))
        BY <1>0 DEF PayInv, CompletedHeard
      <4>2. \A q \in completed' : payments'[q].method = "digital" =>
               Heard(q, payments'[q].ride, reported)
        <5> TAKE q \in completed'
        <5>1. CASE q = p
          <6>1. CASE q \in completed
            BY <2>6, <3>2, <4>1, <5>1, <6>1
          <6>2. CASE q \notin completed
            BY <2>7, <2>9, <3>2, <5>1, <6>2
          <6>3. QED
            BY <6>1, <6>2
        <5>2. CASE q # p
          BY <2>9, <3>2, <4>1, <5>2
        <5>3. QED
          BY <5>1, <5>2
      <4>3. QED
        BY <3>3, <4>2, GrowsKeeps DEF CompletedHeard
    <3>6. completed' \subseteq PaymentIds /\ \A q \in completed' : payments'[q] # NoPayment
      BY <1>0, <2>9, <3>1, <3>2 DEF Exists
    <3>7. QED
      BY <1>0, <2>4, <3>2, <3>3, <3>4, <3>5, <3>6, IdleIsCoherent, WorkerStep
  <2>10. QED
    BY <2>3, <2>5, <2>8, <2>9
<1>10. CASE UNCHANGED vars
  BY <1>10 DEF vars, PayInv, TypeOK, CallsCoherent, RefsCoherent, CompletedHeard, Exists
<1>11. QED
  BY <1>1, <1>2, <1>3, <1>4, <1>5, <1>6, <1>7, <1>8, <1>9, <1>10 DEF Next

\* Every reachable state is well typed; a call or a completion is about a payment
\* that was inserted.
THEOREM TypeCorrect == Spec => []TypeOK
<1>1. Spec => []PayInv
  BY PayInit, PayNext, PTL DEF Spec
<1>2. PayInv => TypeOK
  BY DEF PayInv
<1>3. QED
  BY <1>1, <1>2, PTL

\* A digital payment is only announced as completed after its ride, or the very
\* transaction of its attempt, was reported paid, for any interleaving of pay(),
\* callbacks matched by reference or by ride, cash, and stale saves.
THEOREM CompletionWasReported == Spec => []CompletedWasReported
<1>1. Spec => []PayInv
  BY PayInit, PayNext, PTL DEF Spec
<1>2. PayInv => CompletedWasReported
  BY DEF PayInv, CompletedHeard, CompletedWasReported, Heard, Reports
<1>3. QED
  BY <1>1, <1>2, PTL

\* A step that undoes a recorded success is the save of an entity that was
\* loaded or created before.
LEMMA StaleStep ==
  ASSUME PayInv, [Next]_vars, NEW p \in PaymentIds, Exists(p),
         payments[p].status = "succeeded", payments'[p].status # "succeeded"
  PROVE  \E w \in Workers : /\ calls[w].phase = "saving" /\ calls[w].id = p
                            /\ calls[w].snap.status # "succeeded"
<1>0. /\ payments \in [PaymentIds -> Payment \cup {NoPayment}]
      /\ \A w \in Workers : calls[w] \in Calls /\ Coherent(calls[w], payments, reported)
  BY DEF PayInv, TypeOK, Calls, CallsCoherent
<1>1. ASSUME NEW w \in Workers, PayInsert(w)
      PROVE  payments'[p] = payments[p]
  BY <1>0, <1>1 DEF PayInsert, Write
<1>2. PICK w \in Workers : Commit(w)
  BY <1>1 DEF Next, OnFareCalculated, PayBegin, CashBegin, Callback, Initiate, Guard, Select, vars
<1>3. PICK c : c = calls[w]
  OBVIOUS
<1>4. c \in SaveCall /\ c.phase = "saving" /\ Coherent(c, payments, reported)
  BY <1>0, <1>2, <1>3, CallFields DEF Commit
<1>5. PICK q \in PaymentIds :
        /\ IF c.id = None THEN ~Exists(q) ELSE q = c.id
        /\ payments' = Write(q, Saved(c, q)) \/ UNCHANGED payments
  BY <1>2, <1>3, <1>4 DEF Commit, SaveCall
<1>6. q = p /\ c.id = p /\ payments'[p] = Saved(c, p)
  BY <1>0, <1>5 DEF Write
<1>7. payments'[p].status \in {payments[p].status, c.image.status}
  BY <1>0, <1>4, <1>5, <1>6 DEF Saved, Exists, Payment
<1>8. c.image.status # "succeeded"
  BY <1>7
<1>9. QED
  BY <1>3, <1>4, <1>6, <1>8 DEF Coherent, OnEntity

\* However handlers overlap, a recorded success is only undone by a handler that
\* loaded or created its entity before the success was recorded.
THEOREM OnlyStaleUndoes == Spec => SuccessUndoneByStale
<1> DEFINE Undone ==
      \A p \in PaymentIds :
        Exists(p) /\ payments[p].status = "succeeded" /\ payments'[p].status # "succeeded" =>
          \E w \in Workers :
            calls[w].phase = "saving" /\ calls[w].id = p /\ calls[w].snap.status # "succeeded"
<1>1. PayInv /\ [Next]_vars => [Undone]_payments
  BY StaleStep
<1>2. Spec => []PayInv
  BY PayInit, PayNext, PTL DEF Spec
<1>3. QED
  BY <1>1, <1>2, PTL DEF Spec, SuccessUndoneByStale

-----------------------------------------------------------------------------
(***************************************************************************)
(* What the unique indexes give: every write of the table passes them.     *)
(***************************************************************************)
LEMMA IndexesHold == Spec => []UniqueIndexes(payments)
<1>1. Init => UniqueIndexes(payments)
  BY DEF Init, UniqueIndexes
<1>2. UniqueIndexes(payments) /\ [Next]_vars => UniqueIndexes(payments)'
  <2> SUFFICES ASSUME UniqueIndexes(payments), [Next]_vars
               PROVE  UniqueIndexes(payments')
    BY DEF UniqueIndexes
  <2>1. ASSUME NEW w \in Workers, PayInsert(w) \/ Commit(w)
        PROVE  UniqueIndexes(payments')
    <3>1. UNCHANGED payments \/ UniqueIndexes(payments')
      BY <2>1 DEF PayInsert, Commit
    <3>2. QED
      BY <3>1
  <2>2. CASE UNCHANGED payments
    BY <2>2
  <2>3. CASE Next
    BY <2>1, <2>2, <2>3 DEF Next, OnFareCalculated, PayBegin, CashBegin, Callback, Initiate,
                            Guard, Select
  <2>4. QED
    BY <2>2, <2>3 DEF vars
<1>3. QED
  BY <1>1, <1>2, PTL DEF Spec

-----------------------------------------------------------------------------
(***************************************************************************)
(* The cap on charges: a digital attempt has a number within the cap, the  *)
(* one its handler counted, and no two attempts of a ride share a number.  *)
(***************************************************************************)
Numbered(e) == e.method = "digital" => e.attempt \in 1..MaxDigitalRetries

AttemptsNumbered ==
  /\ \A p \in PaymentIds : Exists(p) => Numbered(payments[p])
  /\ \A w \in Workers : calls[w].phase = "counted" => calls[w].attempt \in 1..MaxDigitalRetries

LEMMA NumberedNext == PayInv /\ AttemptsNumbered /\ [Next]_vars => AttemptsNumbered'
<1> SUFFICES ASSUME PayInv, AttemptsNumbered, [Next]_vars PROVE AttemptsNumbered'
  OBVIOUS
<1>0. /\ payments \in [PaymentIds -> Payment \cup {NoPayment}]
      /\ \A w \in Workers : calls[w] \in Calls /\ Coherent(calls[w], payments, reported)
      /\ calls \in [Workers -> Calls]
  BY DEF PayInv, TypeOK, Calls, CallsCoherent
<1>1. ASSUME NEW w \in Workers, NEW c, calls' = [calls EXCEPT ![w] = c], c.phase # "counted",
             UNCHANGED payments
      PROVE  AttemptsNumbered'
  BY <1>0, <1>1 DEF AttemptsNumbered, Exists, Numbered
<1>2. ASSUME NEW w \in Workers, NEW r \in Rides, PayBegin(w, r)
      PROVE  AttemptsNumbered'
  <2>1. Cardinality(Of(r)) \in Nat
    BY OfIsFinite, FS_CardinalityType
  <2>2. Cardinality(Of(r)) + 1 \in 1..MaxDigitalRetries
    BY <1>2, <2>1 DEF PayBegin, CanAttempt
  <2>3. QED
    BY <1>0, <1>2, <2>2 DEF PayBegin, Become, AttemptsNumbered, Exists, Numbered
<1>3. ASSUME NEW w \in Workers, PayInsert(w)
      PROVE  AttemptsNumbered'
  <2> DEFINE row == [ride |-> calls[w].ride, method |-> "digital", status |-> "pending_gateway",
                     attempt |-> calls[w].attempt, ref |-> None]
  <2>1. Numbered(row) /\ row \in Payment
    BY <1>0, <1>3, CallFields
       DEF PayInsert, AttemptsNumbered, Numbered, CountCall, Payment, Method, Status
  <2>2. PICK p \in PaymentIds :
          /\ payments' = Write(p, row) \/ UNCHANGED payments
          /\ \/ calls' = [calls EXCEPT ![w] = EntityOf("initiating", p, row, None)]
             \/ calls' = [calls EXCEPT ![w] = Idle]
    BY <1>3 DEF PayInsert, Become
  <2> HIDE DEF row
  <2>3. \A q \in PaymentIds : payments'[q] = payments[q] \/ payments'[q] = row
    BY <1>0, <2>2 DEF Write
  <2>4. \A v \in Workers : calls'[v] = calls[v] \/ calls'[v].phase # "counted"
    BY <1>0, <2>2 DEF EntityOf, Idle
  <2>5. QED
    BY <1>0, <2>1, <2>3, <2>4 DEF AttemptsNumbered, Exists
<1>4. ASSUME NEW w \in Workers, Commit(w)
      PROVE  AttemptsNumbered'
  <2>1. PICK p \in PaymentIds :
          /\ IF calls[w].id = None THEN ~Exists(p) ELSE p = calls[w].id
          /\ payments' = Write(p, Saved(calls[w], p)) \/ UNCHANGED payments
    BY <1>0, <1>4, CallFields DEF Commit, SaveCall
  <2>2. Numbered(Saved(calls[w], p))
    <3>1. calls[w] \in SaveCall
      BY <1>0, <1>4, CallFields DEF Commit
    <3>2. CASE calls[w].id = None
      BY <1>0, <1>4, <3>2 DEF Saved, Numbered, Commit, Coherent, OnEntity
    <3>3. CASE calls[w].id # None
      <4>1. Exists(p) /\ payments[p] \in Payment /\ Numbered(payments[p])
        BY <1>0, <1>4, <2>1, <3>3 DEF Commit, Coherent, OnEntity, Exists, AttemptsNumbered
      <4>2. /\ Saved(calls[w], p).method = payments[p].method
            /\ Saved(calls[w], p).attempt = payments[p].attempt
        BY <3>1, <3>3, <4>1 DEF Saved, SaveCall, Payment
      <4>3. QED
        BY <4>1, <4>2 DEF Numbered
    <3>4. QED
      BY <3>2, <3>3
  <2>3. \A q \in PaymentIds : payments'[q] = payments[q] \/ payments'[q] = Saved(calls[w], p)
    BY <1>0, <2>1 DEF Write
  <2>4. \A q \in PaymentIds : payments'[q] # NoPayment => Numbered(payments'[q])
    BY <2>2, <2>3 DEF AttemptsNumbered, Exists
  <2>5. \A v \in Workers : calls'[v] = IF v = w THEN Idle ELSE calls[v]
    BY <1>0, <1>4 DEF Commit, Become
  <2>6. QED
    BY <2>4, <2>5 DEF AttemptsNumbered, Exists, Idle
<1>5. ASSUME NEW w \in Workers, NEW r \in Rides, CashBegin(w, r)
      PROVE  AttemptsNumbered'
  <2>1. PICK row : calls' = [calls EXCEPT ![w] = EntityOf("guarding", None, row, None)]
    BY <1>5 DEF CashBegin, Become
  <2> DEFINE c == EntityOf("guarding", None, row, None)
  <2>2. calls' = [calls EXCEPT ![w] = c] /\ c.phase # "counted"
    BY <2>1 DEF EntityOf
  <2> HIDE DEF c
  <2>3. QED
    BY <1>1, <1>5, <2>2 DEF CashBegin
<1>6. ASSUME NEW w \in Workers, NEW r \in Rides, NEW t \in PaymentIds, Callback(w, r, t)
      PROVE  AttemptsNumbered'
  <2>1. PICK p \in PaymentIds :
          \/ calls' = [calls EXCEPT ![w] = EntityOf("guarding", p, payments[p], t)]
          \/ calls' = [calls EXCEPT ![w] = EntityOf("failing", p, payments[p], None)]
    BY <1>6 DEF Callback, CallbackTargets, Of, Become
  <2>2. /\ EntityOf("guarding", p, payments[p], t).phase # "counted"
        /\ EntityOf("failing", p, payments[p], None).phase # "counted"
    BY DEF EntityOf
  <2>3. UNCHANGED payments
    BY <1>6 DEF Callback
  <2>4. QED
    BY <1>1, <2>1, <2>2, <2>3
<1>7. ASSUME NEW w \in Workers, Initiate(w)
      PROVE  AttemptsNumbered'
  <2>1. \E c : calls' = [calls EXCEPT ![w] = c] /\ c.phase # "counted"
    BY <1>7 DEF Initiate, Become, EntityOf, Idle
  <2>2. QED
    BY <1>1, <1>7, <2>1 DEF Initiate
<1>8. ASSUME NEW w \in Workers, Guard(w)
      PROVE  AttemptsNumbered'
  <2>1. calls[w] \in EntityCall
    BY <1>0, <1>8, CallFields DEF Guard, OnEntity
  <2>2. [calls[w] EXCEPT !.phase = "settling"].phase # "counted" /\ Idle.phase # "counted"
    BY <2>1 DEF EntityCall, Idle
  <2>3. QED
    BY <1>1, <1>8, <2>2 DEF Guard, Become
<1>9. ASSUME NEW w \in Workers, Select(w)
      PROVE  AttemptsNumbered'
  BY <1>1, <1>9 DEF Select, Become
<1>10. ASSUME UNCHANGED <<payments, calls>>
       PROVE  AttemptsNumbered'
  BY <1>10 DEF AttemptsNumbered, Exists, Numbered
<1>11. QED
  BY <1>2, <1>3, <1>4, <1>5, <1>6, <1>7, <1>8, <1>9, <1>10
     DEF Next, OnFareCalculated, vars

\* No ride has more digital attempts than the cap, although simultaneous pay()
\* calls count the same attempts.
THEOREM RetryCapHolds == Spec => []RetriesCapped
<1>1. Init => AttemptsNumbered
  BY DEF Init, AttemptsNumbered, Exists, Idle
<1>2. Spec => [](PayInv /\ AttemptsNumbered)
  BY <1>1, PayInit, PayNext, NumberedNext, PTL DEF Spec
<1>3. PayInv /\ AttemptsNumbered /\ UniqueIndexes(payments) => RetriesCapped
  <2> SUFFICES ASSUME AttemptsNumbered, UniqueIndexes(payments), NEW r \in Rides
               PROVE  Cardinality({p \in Of(r) : payments[p].method = "digital"})
                        <= MaxDigitalRetries
    BY DEF RetriesCapped
  <2> DEFINE S == {p \in Of(r) : payments[p].method = "digital"}
             number == [p \in S |-> payments[p].attempt]
  <2>1. \A p \in S : p \in PaymentIds /\ Exists(p) /\ payments[p].ride = r
    BY DEF Of
  <2>2. number \in [S -> 1..MaxDigitalRetries]
    BY <2>1 DEF AttemptsNumbered, Numbered
  <2>3. \A p, q \in S : number[p] = number[q] => p = q
    BY <2>1 DEF UniqueIndexes, Exists
  <2>4. number \in Injection(S, 1..MaxDigitalRetries)
    BY <2>2, <2>3 DEF Injection, IsInjective
  <2>5. IsFiniteSet(1..MaxDigitalRetries) /\ Cardinality(1..MaxDigitalRetries) = MaxDigitalRetries
    BY FS_Interval
  <2> HIDE DEF number, S
  <2>6. Cardinality(S) <= MaxDigitalRetries
    BY <2>4, <2>5, FS_Injection
  <2>7. QED
    BY <2>6 DEF S
<1>4. QED
  BY <1>2, <1>3, IndexesHold, PTL


-----------------------------------------------------------------------------
(***************************************************************************)
(* Handlers that are taken one at a time: a handler's entity is the row as *)
(* it is until the handler saves it, so that no save undoes a success.     *)
(***************************************************************************)
Current(c, table) == c.phase \in OnEntity /\ c.id # None => table[c.id] = c.snap

AllCurrent == \A w \in Workers : Current(calls[w], payments)

SerialInv == serial => OneAtATime /\ AllCurrent

\* A handler moves while the table stays.
LEMMA CurrentMoves ==
  ASSUME PayInv, AllCurrent, NEW w \in Workers, NEW c,
         calls' = [calls EXCEPT ![w] = c], Current(c, payments), UNCHANGED payments
  PROVE  AllCurrent'
<1>1. \A v \in Workers : calls'[v] = IF v = w THEN c ELSE calls[v]
  BY DEF PayInv, TypeOK
<1>2. QED
  BY <1>1 DEF AllCurrent

\* A handler writes a row: it is the only one under way.
LEMMA CurrentWrites ==
  ASSUME PayInv, OneAtATime, NEW w \in Workers, calls[w] # Idle, NEW c,
         calls' = [calls EXCEPT ![w] = c], Current(c, payments')
  PROVE  AllCurrent'
<1>1. \A v \in Workers : calls'[v] = IF v = w THEN c ELSE Idle
  BY DEF PayInv, TypeOK, OneAtATime
<1>2. Current(Idle, payments')
  BY DEF Current, Idle, OnEntity
<1>3. QED
  BY <1>1, <1>2 DEF AllCurrent

LEMMA SerialStep ==
  ASSUME PayInv, OneAtATime, AllCurrent, Next
  PROVE  AllCurrent'
<1>0. /\ payments \in [PaymentIds -> Payment \cup {NoPayment}]
      /\ \A w \in Workers : calls[w] \in Calls /\ Current(calls[w], payments)
      /\ \A table : Current(Idle, table)
  BY DEF PayInv, TypeOK, Calls, AllCurrent, Current, Idle, OnEntity
<1>1. CASE UNCHANGED <<payments, calls>>
  BY <1>1 DEF AllCurrent
<1>2. ASSUME NEW w \in Workers, NEW r \in Rides, PayBegin(w, r)
      PROVE  AllCurrent'
  <2>1. PICK c : c = [phase |-> "counted", ride |-> r, attempt |-> Cardinality(Of(r)) + 1]
    OBVIOUS
  <2>2. Current(c, payments)
    BY <2>1 DEF Current, OnEntity
  <2>3. QED
    BY <1>2, <2>1, <2>2, CurrentMoves DEF PayBegin, Become
<1>3. ASSUME NEW w \in Workers, NEW r \in Rides, CashBegin(w, r)
      PROVE  AllCurrent'
  <2>1. PICK snap : snap = [ride |-> r, method |-> "cash", status |-> "pending_gateway",
                            attempt |-> Cardinality(Of(r)) + 1, ref |-> None]
    OBVIOUS
  <2>2. Current(EntityOf("guarding", None, snap, None), payments)
    BY DEF Current, EntityOf
  <2>3. QED
    BY <1>3, <2>1, <2>2, CurrentMoves DEF CashBegin, Become
<1>4. ASSUME NEW w \in Workers, NEW r \in Rides, NEW t \in PaymentIds, Callback(w, r, t)
      PROVE  AllCurrent'
  <2>1. PICK p \in PaymentIds :
          \/ calls' = [calls EXCEPT ![w] = EntityOf("guarding", p, payments[p], t)]
          \/ calls' = [calls EXCEPT ![w] = EntityOf("failing", p, payments[p], None)]
    BY <1>4 DEF Callback, CallbackTargets, Of, Become
  <2>2. /\ Current(EntityOf("guarding", p, payments[p], t), payments)
        /\ Current(EntityOf("failing", p, payments[p], None), payments)
    BY DEF Current, EntityOf
  <2>3. UNCHANGED payments
    BY <1>4 DEF Callback
  <2>4. QED
    BY <2>1, <2>2, <2>3, CurrentMoves
<1>5. ASSUME NEW w \in Workers, PayInsert(w)
      PROVE  AllCurrent'
  <2>1. PICK row : row = [ride |-> calls[w].ride, method |-> "digital",
                          status |-> "pending_gateway", attempt |-> calls[w].attempt, ref |-> None]
    OBVIOUS
  <2>2. PICK p \in PaymentIds :
          \/ /\ payments' = Write(p, row)
             /\ calls' = [calls EXCEPT ![w] = EntityOf("initiating", p, row, None)]
          \/ /\ UNCHANGED payments
             /\ calls' = [calls EXCEPT ![w] = Idle]
    BY <1>5, <2>1 DEF PayInsert, Become
  <2>3. calls[w] # Idle
    BY <1>5 DEF PayInsert, Idle
  <2>4. CASE calls' = [calls EXCEPT ![w] = Idle]
    BY <1>0, <2>3, <2>4, CurrentWrites
  <2>5. CASE /\ payments' = Write(p, row)
             /\ calls' = [calls EXCEPT ![w] = EntityOf("initiating", p, row, None)]
    <3>1. payments'[p] = row
      BY <1>0, <2>5 DEF Write
    <3>2. Current(EntityOf("initiating", p, row, None), payments')
      BY <3>1 DEF Current, EntityOf
    <3>3. QED
      BY <2>3, <2>5, <3>2, CurrentWrites
  <2>6. QED
    BY <2>2, <2>4, <2>5
<1>6. ASSUME NEW w \in Workers, Initiate(w) \/ Guard(w) \/ Select(w)
      PROVE  AllCurrent'
  <2>1. PICK e : e = calls[w]
    OBVIOUS
  <2>2. e.phase \in OnEntity /\ e \in EntityCall
    BY <1>0, <1>6, <2>1, CallFields DEF Initiate, Guard, Select, OnEntity
  <2>3. PICK c : calls' = [calls EXCEPT ![w] = c]
                 /\ (c = Idle \/ (c.id = e.id /\ c.snap = e.snap))
    <3>1. CASE Initiate(w)
      BY <2>1, <3>1 DEF Initiate, Become, EntityOf
    <3>2. CASE Guard(w)
      <4>1. PICK s : s = [e EXCEPT !.phase = "settling"]
        OBVIOUS
      <4>2. s.id = e.id /\ s.snap = e.snap
        BY <2>2, <4>1 DEF EntityCall
      <4>3. calls' = [calls EXCEPT ![w] = s] \/ calls' = [calls EXCEPT ![w] = Idle]
        BY <2>1, <3>2, <4>1 DEF Guard, Become
      <4>4. QED
        BY <4>2, <4>3
    <3>3. CASE Select(w)
      <4>1. PICK image, cols : calls' = [calls EXCEPT ![w] =
              [phase |-> "saving", id |-> e.id, snap |-> e.snap,
               image |-> image, cols |-> cols]]
        BY <2>1, <3>3 DEF Select, Become
      <4>2. PICK s : s = [phase |-> "saving", id |-> e.id, snap |-> e.snap,
                          image |-> image, cols |-> cols]
        OBVIOUS
      <4>3. s.id = e.id /\ s.snap = e.snap
        BY <4>2
      <4>4. calls' = [calls EXCEPT ![w] = s]
        BY <4>1, <4>2
      <4>5. QED
        BY <4>3, <4>4
    <3>4. QED
      BY <1>6, <3>1, <3>2, <3>3
  <2>4. Current(c, payments)
    BY <1>0, <2>1, <2>2, <2>3 DEF Current
  <2>5. UNCHANGED payments
    BY <1>6 DEF Initiate, Guard, Select
  <2>6. QED
    BY <2>3, <2>4, <2>5, CurrentMoves
<1>7. ASSUME NEW w \in Workers, Commit(w)
      PROVE  AllCurrent'
  <2>1. calls[w] # Idle /\ calls' = [calls EXCEPT ![w] = Idle]
    BY <1>7 DEF Commit, Become, Idle
  <2>2. QED
    BY <1>0, <2>1, CurrentWrites
<1>8. QED
  BY <1>1, <1>2, <1>3, <1>4, <1>5, <1>6, <1>7 DEF Next, OnFareCalculated

LEMMA SerialImplements == SerialSpec => Spec
<1>1. SerialInit => Init
  BY DEF SerialInit
<1>2. [SerialNext]_<<vars, serial>> => [Next]_vars
  BY DEF SerialNext
<1>3. QED
  BY <1>1, <1>2, PTL DEF SerialSpec, Spec

LEMMA SerialInvNext ==
  PayInv /\ SerialInv /\ [SerialNext]_<<vars, serial>> =>
    SerialInv' /\ [serial => SuccessStays]_payments
<1> SUFFICES ASSUME PayInv, SerialInv, [SerialNext]_<<vars, serial>>
             PROVE  SerialInv' /\ [serial => SuccessStays]_payments
  OBVIOUS
<1>1. SerialInv'
  <2>1. CASE UNCHANGED <<vars, serial>>
    BY <2>1 DEF vars, SerialInv, OneAtATime, AllCurrent
  <2>2. CASE SerialNext
    BY <2>2, SerialStep DEF SerialNext, SerialInv
  <2>3. QED
    BY <2>1, <2>2
<1>2. serial => SuccessStays
  <2> SUFFICES ASSUME serial, NEW p \in PaymentIds, Exists(p),
                      payments[p].status = "succeeded", payments'[p].status # "succeeded"
               PROVE  FALSE
    BY DEF SuccessStays
  <2>1. [Next]_vars
    BY DEF SerialNext
  <2>2. PICK w \in Workers : /\ calls[w].phase = "saving" /\ calls[w].id = p
                             /\ calls[w].snap.status # "succeeded"
    BY <2>1, StaleStep
  <2>3. payments[p] = calls[w].snap
    BY <2>2, NoneAssumption DEF SerialInv, AllCurrent, Current, OnEntity
  <2>4. QED
    BY <2>2, <2>3
<1>3. QED
  BY <1>1, <1>2

LEMMA SerialInvariant == SerialSpec => [](PayInv /\ SerialInv)
<1>1. SerialInit => SerialInv
  BY DEF SerialInit, Init, SerialInv, OneAtATime, AllCurrent, Current, Idle, OnEntity
<1>2. SerialSpec => []PayInv
  BY SerialImplements, PayInit, PayNext, PTL DEF Spec
<1>3. PayInv /\ SerialInv /\ [SerialNext]_<<vars, serial>> => SerialInv'
  BY SerialInvNext
<1>4. QED
  BY <1>1, <1>2, <1>3, PTL DEF SerialSpec

\* Handlers that do not overlap: no step takes a success back, whichever attempt
\* a callback is matched to.
THEOREM SuccessFinalInTurn == SerialSpec => SuccessIsFinal
<1>1. PayInv /\ SerialInv /\ [SerialNext]_<<vars, serial>> => [serial => SuccessStays]_payments
  BY SerialInvNext
<1>2. QED
  BY <1>1, SerialInvariant, PTL DEF SerialSpec, SuccessIsFinal

=============================================================================
