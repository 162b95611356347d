------------------------------ MODULE Payments ------------------------------
(***************************************************************************)
(* The Payment service: attempts, gateway callbacks, and the settlement of *)
(* a ride's fare (services/payment/src/payments/payments.service.ts), with *)
(* the gateway behind it as its interface describes it.  The callback      *)
(* routes are public and both gateways accept every signature, so a        *)
(* callback may say anything about any ride and any transaction.           *)
(*                                                                         *)
(* Handlers overlap and await between their reads and writes, so each is a *)
(* call with phases:                                                       *)
(*   counted     pay() has counted the attempts so far                     *)
(*   initiating  pay() has inserted its row and calls the gateway          *)
(*   holding     pay() is about to save its row after a "pending" answer   *)
(*   guarding    markSucceeded() is about to look for another success      *)
(*   settling    markSucceeded() found none, its transaction comes next    *)
(*   failing     markFailed()'s transaction comes next                     *)
(*   saving      the ORM's save() has compared the entity with the row     *)
(* A call carries the entity it loaded or created, and saves that one.     *)
(*                                                                         *)
(* The gateway's transaction for an attempt is named by the attempt's own  *)
(* payment id; only the reference the service stores may differ.           *)
(***************************************************************************)
EXTENDS Naturals, FiniteSets

CONSTANTS
  Rides,
  PaymentIds,        \* bound: the payment rows ever inserted
  Workers,           \* handler invocations the process runs at the same time
  None,              \* null, as a payment id or a transaction reference
  MaxDigitalRetries, \* PAYMENT_MAX_RETRIES
  Answers            \* bound: what initiate() may answer

ASSUME NoneAssumption == None \notin PaymentIds
ASSUME PaymentIdsAssumption == IsFiniteSet(PaymentIds)
ASSUME RetriesAssumption == MaxDigitalRetries \in Nat
ASSUME AnswersAssumption == Answers \subseteq {"succeeded", "failed", "pending", "error"}

VARIABLES
  payable,    \* table payable_rides: the rides whose fare is known
  payments,   \* table payments, by id, or NoPayment
  calls,      \* what each worker is in the middle of
  completed,  \* history: payments payment.completed was recorded for
  reported    \* history: the rides and transactions a reply of the gateway or a
              \* callback has called paid

vars == <<payable, payments, calls, completed, reported>>

Method == {"digital", "cash"}      \* jazzcash and card behave alike
Status == {"pending_gateway", "succeeded", "failed"}

Payment == [ride : Rides, method : Method, status : Status, attempt : Nat,
            ref : PaymentIds \cup {None}]

NoPayment == [status |-> "none"]

Idle == [phase |-> "idle"]

\* A count of attempts; a call on an entity: its id (None before it is
\* inserted), the entity as it was loaded or created, and the transaction
\* reference to store with it; and that entity with the image being saved and the
\* columns in which the image differed from the row.
CountCall == [phase : {"counted"}, ride : Rides, attempt : Nat]
EntityCall == [phase : {"initiating", "holding", "guarding", "settling", "failing"},
               id : PaymentIds \cup {None}, snap : Payment, ref : PaymentIds \cup {None}]
SaveCall == [phase : {"saving"}, id : PaymentIds \cup {None}, snap : Payment, image : Payment,
             cols : SUBSET {"status", "ref"}]

\* The phases of a call on an entity.
OnEntity == {"initiating", "holding", "guarding", "settling", "failing", "saving"}

\* What the report of a success names: a ride and a transaction.
Reports(r, t) == {<<"ride", r>>, <<"transaction", t>>}

Exists(p) == payments[p] # NoPayment

Of(r) == {p \in PaymentIds : Exists(p) /\ payments[p].ride = r}

Succeeded(r) == {p \in Of(r) : payments[p].status = "succeeded"}

TypeOK ==
  /\ payable \subseteq Rides
  /\ payments \in [PaymentIds -> Payment \cup {NoPayment}]
  /\ calls \in [Workers -> {Idle} \cup CountCall \cup EntityCall \cup SaveCall]
  /\ completed \subseteq PaymentIds
  /\ reported \subseteq ({"ride"} \X Rides) \cup ({"transaction"} \X PaymentIds)
  /\ \A p \in completed : Exists(p)
  /\ \A w \in Workers :
       calls[w].phase \in OnEntity /\ calls[w].id # None => Exists(calls[w].id)

(***************************************************************************)
(* The table's unique indexes: uq_payments_idempotency on pay:{ride}:{n},  *)
(* uq_payments_txn_ref, uq_payments_one_success_per_ride.                  *)
(***************************************************************************)
\* Variant: the schema without uq_payments_idempotency.
NoAttemptIndex(table) ==
  \A p, q \in PaymentIds :
    (table[p] # NoPayment /\ table[q] # NoPayment /\ p # q) =>
      /\ table[p].ref # None => table[p].ref # table[q].ref
      /\ table[p].ride = table[q].ride => ~(table[p].status = "succeeded" /\ table[q].status = "succeeded")

UniqueIndexes(table) ==
  \A p, q \in PaymentIds :
    (table[p] # NoPayment /\ table[q] # NoPayment /\ p # q) =>
      /\ <<table[p].ride, table[p].attempt>> # <<table[q].ride, table[q].attempt>>
      /\ table[p].ref # None => table[p].ref # table[q].ref
      /\ table[p].ride = table[q].ride =>
           ~(table[p].status = "succeeded" /\ table[q].status = "succeeded")

\* The table with one row written, and what becomes of the writing call.
Write(p, row) == [payments EXCEPT ![p] = row]

Become(w, call) == calls' = [calls EXCEPT ![w] = call]

EntityOf(phase, p, row, ref) == [phase |-> phase, id |-> p, snap |-> row, ref |-> ref]

(***************************************************************************)
(* Handlers                                                                *)
(***************************************************************************)
Init ==
  /\ payable = {}
  /\ payments = [p \in PaymentIds |-> NoPayment]
  /\ calls = [w \in Workers |-> Idle]
  /\ completed = {}
  /\ reported = {}

OnFareCalculated(r) ==
  /\ payable' = payable \cup {r}
  /\ UNCHANGED <<payments, calls, completed, reported>>

CanAttempt(priorAttempts) == priorAttempts < MaxDigitalRetries

\* pay(): the fare is known and the retries are not used up.
PayBegin(w, r) ==
  /\ calls[w] = Idle
  /\ r \in payable
  /\ CanAttempt(Cardinality(Of(r)))
  /\ Become(w, [phase |-> "counted", ride |-> r, attempt |-> Cardinality(Of(r)) + 1])
  /\ UNCHANGED <<payable, payments, completed, reported>>

\* Variant: a refused insert does not stop pay().
PayInsertUnchecked(w) ==
  LET c   == calls[w]
      row == [ride |-> c.ride, method |-> "digital", status |-> "pending_gateway",
              attempt |-> c.attempt, ref |-> None]
  IN /\ c.phase = "counted"
     /\ \E p \in PaymentIds :
          /\ ~Exists(p)
          /\ payments' = IF UniqueIndexes(Write(p, row)) THEN Write(p, row) ELSE payments
          /\ Become(w, EntityOf("initiating", p, row, None))
     /\ UNCHANGED <<payable, completed, reported>>

\* An attempt of that number exists already: pay() returns it, or its insert
\* fails on the idempotency key.  Otherwise the row is inserted.
PayInsert(w) ==
  LET c   == calls[w]
      row == [ride |-> c.ride, method |-> "digital", status |-> "pending_gateway",
              attempt |-> c.attempt, ref |-> None]
  IN /\ c.phase = "counted"
     /\ \E p \in PaymentIds :
          /\ ~Exists(p)
          /\ IF UniqueIndexes(Write(p, row))
               THEN payments' = Write(p, row) /\ Become(w, EntityOf("initiating", p, row, None))
               ELSE UNCHANGED payments /\ Become(w, Idle)
     /\ UNCHANGED <<payable, completed, reported>>

\* Variant: a "pending" answer is taken for a success.
InitiateTrusting(w) ==
  LET c == calls[w] IN
  /\ c.phase = "initiating"
  /\ Become(w, EntityOf("guarding", c.id, c.snap, c.id))
  /\ UNCHANGED <<payable, payments, completed, reported>>

\* The gateway's answer to initiate(); "error" is an answer that never arrives,
\* after which the handler has failed and the row stays.
Initiate(w) ==
  LET c == calls[w] IN
  /\ c.phase = "initiating"
  /\ \E answer \in Answers :
       /\ Become(w,
            CASE answer = "succeeded" -> EntityOf("guarding", c.id, c.snap, c.id)
              [] answer = "failed"    -> EntityOf("failing", c.id, c.snap, None)
              [] answer = "pending"   -> EntityOf("holding", c.id, c.snap, c.id)
              [] answer = "error"     -> Idle)
       /\ reported' = reported \cup
            (IF answer = "succeeded" THEN Reports(c.snap.ride, c.id) ELSE {})
  /\ UNCHANGED <<payable, payments, completed>>

\* cashReceived(): nothing has succeeded yet; the entity is not saved yet.
CashBegin(w, r) ==
  /\ calls[w] = Idle
  /\ r \in payable
  /\ Succeeded(r) = {}
  /\ Become(w, EntityOf("guarding", None,
       [ride |-> r, method |-> "cash", status |-> "pending_gateway",
        attempt |-> Cardinality(Of(r)) + 1, ref |-> None], None))
  /\ UNCHANGED <<payable, payments, completed, reported>>

\* Variant: the fallback takes the ride's latest payment, pending or not.
LatestTargets(r, t) ==
  LET byRef == {p \in PaymentIds : Exists(p) /\ payments[p].ref = t}
  IN IF byRef # {} THEN byRef
     ELSE {p \in Of(r) : \A q \in Of(r) : payments[q].attempt <= payments[p].attempt}

\* The payment a callback about ride r and transaction t is taken to be about:
\* the one that stores the reference, whosever ride it is, or else the latest
\* pending one of the ride.
CallbackTargets(r, t) ==
  LET byRef   == {p \in PaymentIds : Exists(p) /\ payments[p].ref = t}
      pending == {p \in Of(r) : payments[p].status = "pending_gateway"}
  IN IF byRef # {} THEN byRef
     ELSE {p \in pending : \A q \in pending : payments[q].attempt <= payments[p].attempt}

\* Variant: a repeated callback about a recorded success is not dropped.
CallbackUndeduped(w, r, t) ==
  /\ calls[w] = Idle
  /\ \E p \in CallbackTargets(r, t) :
       \/ /\ Become(w, EntityOf("guarding", p, payments[p], t))
          /\ reported' = reported \cup Reports(r, t)
       \/ /\ Become(w, EntityOf("failing", p, payments[p], None))
          /\ UNCHANGED reported
  /\ UNCHANGED <<payable, payments, completed>>

\* A callback, the first or a repeated one, with whatever outcome it names.
Callback(w, r, t) ==
  /\ calls[w] = Idle
  /\ \E p \in CallbackTargets(r, t) :
       /\ payments[p].ref = t => payments[p].status # "succeeded"
       /\ \/ /\ Become(w, EntityOf("guarding", p, payments[p], t))
             /\ reported' = reported \cup Reports(r, t)
          \/ /\ Become(w, EntityOf("failing", p, payments[p], None))
             /\ UNCHANGED reported
  /\ UNCHANGED <<payable, payments, completed>>

\* markSucceeded(): another payment of the ride may have succeeded.
Guard(w) ==
  LET c == calls[w] IN
  /\ c.phase = "guarding"
  /\ Become(w, IF Succeeded(c.snap.ride) \subseteq {c.id} THEN [c EXCEPT !.phase = "settling"]
                                                        ELSE Idle)
  /\ UNCHANGED <<payable, payments, completed, reported>>

\* The entity as pay()'s pending branch, markSucceeded() and markFailed() hand
\* it to save(): status included, whatever the row says by now.
Entity(c) ==
  CASE c.phase = "holding"  -> [c.snap EXCEPT !.ref = c.ref]
    [] c.phase = "settling" -> [c.snap EXCEPT !.status = "succeeded", !.ref = c.ref]
    [] c.phase = "failing"  -> [c.snap EXCEPT !.status = "failed"]

\* save() reloads the row and keeps the columns in which the entity differs.
Select(w) ==
  LET c == calls[w] IN
  /\ c.phase \in {"holding", "settling", "failing"}
  /\ Become(w, [phase |-> "saving", id |-> c.id, snap |-> c.snap, image |-> Entity(c),
               cols |-> {f \in {"status", "ref"} :
                           c.id # None /\ Entity(c)[f] # payments[c.id][f]}])
  /\ UNCHANGED <<payable, payments, completed, reported>>

\* The row after an UPDATE of the selected columns, or the INSERT of a new one.
Saved(c, p) ==
  IF c.id = None THEN c.image
  ELSE [f \in DOMAIN payments[p] |-> IF f \in c.cols THEN c.image[f] ELSE payments[p][f]]

\* The transaction: the row and, after a success, payment.completed, or neither.
Commit(w) ==
  LET c == calls[w] IN
  /\ c.phase = "saving"
  /\ \E p \in IF c.id = None THEN {q \in PaymentIds : ~Exists(q)} ELSE {c.id} :
       LET table == Write(p, Saved(c, p))
       IN IF UniqueIndexes(table)
            THEN /\ payments' = table
                 /\ completed' = completed \cup
                      (IF c.image.status = "succeeded" THEN {p} ELSE {})
            ELSE UNCHANGED <<payments, completed>>
  /\ Become(w, Idle)
  /\ UNCHANGED <<payable, reported>>

Next ==
  \/ \E r \in Rides : OnFareCalculated(r)
  \/ \E w \in Workers :
       \/ \E r \in Rides : PayBegin(w, r) \/ CashBegin(w, r)
       \/ \E r \in Rides, t \in PaymentIds : Callback(w, r, t)
       \/ PayInsert(w) \/ Initiate(w) \/ Guard(w) \/ Select(w) \/ Commit(w)

Spec == Init /\ [][Next]_vars

(***************************************************************************)
(* Properties of every interleaving                                        *)
(***************************************************************************)

\* A digital payment is only told to be completed after the gateway's reply or a
\* callback has called its ride, or the very transaction of its attempt, paid: no
\* chain of matched and mismatched callbacks carries a success to a ride nobody
\* named (handleCallback).  That the report is true is not checked by the code.
CompletedWasReported ==
  \A p \in completed :
    payments[p].method = "digital" => Reports(payments[p].ride, p) \cap reported # {}

\* A recorded success is only undone by a handler that loaded its entity before
\* the success was recorded: no callback that finds the success, whichever attempt
\* or ride it is about, turns it into something else (handleCallback, markFailed).
SuccessUndoneByStale ==
  [][\A p \in PaymentIds :
       Exists(p) /\ payments[p].status = "succeeded" /\ payments'[p].status # "succeeded" =>
         \E w \in Workers :
           calls[w].phase = "saving" /\ calls[w].id = p
             /\ calls[w].snap.status # "succeeded"]_payments

\* The retry cap holds for the charges too: simultaneous pay() calls that
\* counted the same attempts do not start more than MaxDigitalRetries.
RetriesCapped ==
  \A r \in Rides :
    Cardinality({p \in Of(r) : payments[p].method = "digital"}) <= MaxDigitalRetries

(***************************************************************************)
(* Properties of handlers that do not overlap (one worker)                 *)
(***************************************************************************)

\* A step that leaves every recorded success as it is: no later or repeated
\* callback of another attempt turns it into a failure (handleCallback's match
\* by ride).
SuccessStays ==
  \A p \in PaymentIds : Exists(p) /\ payments[p].status = "succeeded" =>
    payments'[p].status = "succeeded"

\* payment.completed is recorded for one payment of a ride only (specs.md 8.2 "a
\* ride can never accumulate two successful payments").  With overlapping handlers
\* it does not hold: pay()'s pending branch may save its entity over a success.
CompletedOnce ==
  \A p, q \in completed : payments[p].ride = payments[q].ride => p = q

=============================================================================
