------------------------------ MODULE Reporting ------------------------------
(***************************************************************************)
(* The read models of the reporting service: projections.service.ts fed by *)
(* projection-events.consumer.ts.  One row per table stands for one day,   *)
(* zone, driver and payment method; the sums and averages of a row go with *)
(* its counters and are left out.                                          *)
(*                                                                         *)
(* A handler of an event applies its projections one after the other, each *)
(* in a transaction that inserts (event, projection) in processed_events,  *)
(* reads the row, and saves it: the ORM loads the row again and inserts or *)
(* updates the columns that differ.  Transactions of different events      *)
(* interleave (READ COMMITTED; 20 messages in flight).  A call's phases:   *)
(*   begin      the next transaction has not started                       *)
(*   applying   the processed_events row is inserted and the row is read   *)
(*   saving     save() has compared the entity with the row                *)
(***************************************************************************)
EXTENDS Naturals, Sequences, FiniteSets

CONSTANTS
  Events,      \* the events published
  Name,        \* their names; driver.status.changed is split by its flag
  Ride,        \* the ride an event is about, if any
  Workers,     \* bound: messages handled at the same time
  MaxCopies,   \* bound: repeated deliveries
  MaxFaults    \* bound: failed transactions and restarts

VARIABLES
  rows,        \* rides_daily, driver_performance, payment_mix, violation_summary
  processed,   \* table processed_events
  requestedAt, \* the rides whose request time is in memory
  onlineSince, \* driverOnlineSince knows the driver
  calls,       \* what each handler is in the middle of
  acked,       \* history: events acknowledged to the bus
  swallowed,   \* history: (event, projection) whose row insert hit 23505
  overlapped,  \* history: tables on which two transactions overlapped
  copies, faults

vars == <<rows, processed, requestedAt, onlineSince, calls, acked, swallowed,
          overlapped, copies, faults>>

Columns ==
  [rides_daily        |-> {"rides_completed", "rides_cancelled", "no_driver_count", "match_times"},
   driver_performance |-> {"rides", "online_hours"},
   payment_mix        |-> {"count"},
   violation_summary  |-> {"opened", "auto_closed", "escalated"}]

Tables == DOMAIN Columns

NoRow == [absent |-> TRUE]

\* What an event adds to, in the order of its projections.
Projections(name) ==
  CASE name = "ride.completed"     -> <<<<"rides_daily", "rides_completed">>,
                                        <<"driver_performance", "rides">>>>
    [] name = "ride.cancelled"     -> <<<<"rides_daily", "rides_cancelled">>>>
    [] name = "dispatch.exhausted" -> <<<<"rides_daily", "no_driver_count">>>>
    [] name = "payment.completed"  -> <<<<"payment_mix", "count">>>>
    [] name = "geofence.violation.detected"  -> <<<<"violation_summary", "opened">>>>
    [] name = "geofence.violation.closed"    -> <<<<"violation_summary", "auto_closed">>>>
    [] name = "geofence.violation.escalated" -> <<<<"violation_summary", "escalated">>>>
    [] name = "driver.offline"     -> <<<<"driver_performance", "online_hours">>>>
    [] OTHER -> <<>>

EndsSearch == {"ride.completed", "ride.cancelled", "dispatch.exhausted"}

Idle == [phase |-> "idle"]

InTransaction(w) == calls[w].phase \in {"applying", "saving"}

Step(c) == Projections(Name[c.event])[c.step]
Table(c) == Step(c)[1]
Column(c) == Step(c)[2]

\* addOnlineHours has no entry in processed_events and is not awaited.
Deduplicated(c) == Name[c.event] # "driver.offline"

\* The primary key of processed_events.
Key(c) == <<c.event, Table(c)>>

Row(t) == [Columns[t] -> Nat]

TypeOK ==
  /\ \A t \in Tables : rows[t] \in Row(t) \cup {NoRow}
  /\ processed \subseteq Events \X Tables
  /\ requestedAt \subseteq {Ride[e] : e \in Events} /\ onlineSince \in BOOLEAN
  /\ \A w \in Workers : calls[w] # Idle =>
       /\ calls[w].event \in Events
       /\ calls[w].step \in DOMAIN Projections(Name[calls[w].event])
       /\ InTransaction(w) => calls[w].entity \in Row(Table(calls[w]))
  /\ acked \subseteq Events /\ swallowed \subseteq Events \X Tables
  /\ overlapped \subseteq Tables
  /\ copies \in 0..MaxCopies /\ faults \in 0..MaxFaults

Init ==
  /\ rows = [t \in Tables |-> NoRow]
  /\ processed = {} /\ requestedAt = {} /\ onlineSince = FALSE
  /\ calls = [w \in Workers |-> Idle]
  /\ acked = {} /\ swallowed = {} /\ overlapped = {}
  /\ copies = 0 /\ faults = 0

Handling(e) == \E w \in Workers : calls[w] # Idle /\ calls[w].event = e

\* An event reaches a handler, for the first time or once more.
Arrives(e) ==
  LET again == e \in acked \/ Handling(e)
  IN /\ again => copies < MaxCopies
     /\ copies' = IF again THEN copies + 1 ELSE copies

\* handle() of the events that only touch memory.
Remember(e) ==
  /\ Arrives(e)
  /\ \/ /\ Name[e] = "ride.requested" /\ requestedAt' = requestedAt \cup {Ride[e]} /\ UNCHANGED onlineSince
     \/ /\ Name[e] = "driver.online" /\ onlineSince' = TRUE /\ UNCHANGED requestedAt
     \/ /\ Name[e] = "driver.offline" /\ ~onlineSince /\ UNCHANGED <<requestedAt, onlineSince>>
  /\ acked' = acked \cup {e}
  /\ UNCHANGED <<rows, processed, calls, swallowed, overlapped, faults>>

\* handle() of the others: the memory is read and cleared first.  The hours of
\* a driver who goes offline are added after the event is acknowledged.
Receive(w, e) ==
  /\ calls[w] = Idle /\ Projections(Name[e]) # <<>> /\ Arrives(e)
  /\ calls' = [calls EXCEPT ![w] =
       [phase |-> "begin", event |-> e, step |-> 1,
        timed |-> Name[e] = "ride.completed" /\ Ride[e] \in requestedAt]]
  /\ requestedAt' = IF Name[e] \in EndsSearch THEN requestedAt \ {Ride[e]} ELSE requestedAt
  /\ \/ /\ Name[e] = "driver.offline" /\ onlineSince
        /\ onlineSince' = FALSE /\ acked' = acked \cup {e}
     \/ /\ Name[e] # "driver.offline"
        /\ UNCHANGED <<onlineSince, acked>>
  /\ UNCHANGED <<rows, processed, swallowed, overlapped, faults>>

\* The next projection of the event, or the handler returns and is acknowledged.
Advance(w) ==
  LET c == calls[w]
  IN IF c.step < Len(Projections(Name[c.event]))
       THEN /\ calls' = [calls EXCEPT ![w] = [phase |-> "begin", event |-> c.event,
                                              step |-> c.step + 1, timed |-> c.timed]]
            /\ UNCHANGED acked
       ELSE calls' = [calls EXCEPT ![w] = Idle] /\ acked' = acked \cup {c.event}

\* withDedup() meets a committed entry of the same event and projection.
SkipProcessed(w) ==
  /\ calls[w].phase = "begin" /\ Deduplicated(calls[w])
  /\ Key(calls[w]) \in processed
  /\ Advance(w)
  /\ UNCHANGED <<rows, processed, requestedAt, onlineSince, swallowed, overlapped, copies, faults>>

\* The row the projection reads, or the one it creates.
Found(t) == IF rows[t] = NoRow THEN [c \in Columns[t] |-> 0] ELSE rows[t]

Added(c, row) ==
  [k \in DOMAIN row |->
     row[k] + (IF k = Column(c) \/ (k = "match_times" /\ c.timed) THEN 1 ELSE 0)]

\* The transaction inserts its entry, waiting for another one with the same key
\* to end, reads the row and counts.
Apply(w) ==
  LET c == calls[w] t == Table(c) IN
  /\ c.phase = "begin"
  /\ Deduplicated(c) =>
       Key(c) \notin processed \cup {Key(calls[o]) : o \in {o \in Workers : InTransaction(o)}}
  /\ calls' = [calls EXCEPT ![w] =
       [phase |-> "applying", event |-> c.event, step |-> c.step, timed |-> c.timed,
        entity |-> Added(c, Found(t))]]
  /\ overlapped' = IF \E o \in Workers : InTransaction(o) /\ Table(calls[o]) = t
                     THEN overlapped \cup {t} ELSE overlapped
  /\ UNCHANGED <<rows, processed, requestedAt, onlineSince, acked, swallowed, copies, faults>>

\* save() loads the row by its key: it will insert the entity if there is none,
\* and else update the columns that differ.
Compare(w) ==
  LET c == calls[w] t == Table(c) IN
  /\ c.phase = "applying"
  /\ calls' = [calls EXCEPT ![w] =
       [phase |-> "saving", event |-> c.event, step |-> c.step, timed |-> c.timed,
        entity |-> c.entity, insert |-> rows[t] = NoRow,
        columns |-> {k \in Columns[t] : rows[t] = NoRow \/ rows[t][k] # c.entity[k]}]]
  /\ UNCHANGED <<rows, processed, requestedAt, onlineSince, acked, swallowed,
                 overlapped, copies, faults>>

\* Variant: the entry in processed_events is outside the transaction.
CommitUnrecorded(w) ==
  LET c == calls[w] t == Table(c) IN
  /\ c.phase = "saving" /\ (c.insert => rows[t] = NoRow)
  /\ rows' = [rows EXCEPT ![t] = [k \in Columns[t] |->
                IF k \in c.columns THEN c.entity[k] ELSE rows[t][k]]]
  /\ Advance(w)
  /\ UNCHANGED <<processed, requestedAt, onlineSince, swallowed, overlapped, copies, faults>>

\* The statement runs and the transaction commits with its entry.
Commit(w) ==
  LET c == calls[w] t == Table(c) IN
  /\ c.phase = "saving" /\ (c.insert => rows[t] = NoRow)
  /\ rows' = [rows EXCEPT ![t] = [k \in Columns[t] |->
                IF k \in c.columns THEN c.entity[k] ELSE rows[t][k]]]
  /\ processed' = IF Deduplicated(c) THEN processed \cup {Key(c)} ELSE processed
  /\ Advance(w)
  /\ UNCHANGED <<requestedAt, onlineSince, swallowed, overlapped, copies, faults>>

\* Another transaction has inserted the row: the unique violation rolls this
\* one back and is taken for a repeated event.
SwallowConflict(w) ==
  LET c == calls[w] t == Table(c) IN
  /\ c.phase = "saving" /\ c.insert /\ rows[t] # NoRow /\ Deduplicated(c)
  /\ swallowed' = swallowed \cup {Key(c)}
  /\ Advance(w)
  /\ UNCHANGED <<rows, processed, requestedAt, onlineSince, overlapped, copies, faults>>

\* The transaction fails: the bus will deliver the event again.
Fail(w) ==
  /\ calls[w] # Idle /\ Deduplicated(calls[w]) /\ faults < MaxFaults
  /\ calls' = [calls EXCEPT ![w] = Idle]
  /\ faults' = faults + 1
  /\ UNCHANGED <<rows, processed, requestedAt, onlineSince, acked, swallowed, overlapped, copies>>

\* The process ends: on a crash or on the unhandled rejection of
\* addOnlineHours, whose transaction may also meet the unique violation.
Restart ==
  /\ \/ faults < MaxFaults /\ faults' = faults + 1
     \/ /\ \E w \in Workers : /\ calls[w].phase = "saving" /\ ~Deduplicated(calls[w])
                              /\ calls[w].insert /\ rows[Table(calls[w])] # NoRow
        /\ UNCHANGED faults
  /\ calls' = [w \in Workers |-> Idle]
  /\ requestedAt' = {} /\ onlineSince' = FALSE
  /\ UNCHANGED <<rows, processed, acked, swallowed, overlapped, copies>>

-----------------------------------------------------------------------------
Next ==
  \/ \E e \in Events : Remember(e) \/ \E w \in Workers : Receive(w, e)
  \/ \E w \in Workers :
       SkipProcessed(w) \/ Apply(w) \/ Compare(w) \/ Commit(w) \/ SwallowConflict(w) \/ Fail(w)
  \/ Restart

Spec == Init /\ [][Next]_vars

(***************************************************************************)
(* Properties                                                              *)
(***************************************************************************)

\* The events whose projection on a column has been committed.
Counted(t, k) ==
  {e \in Events : /\ <<e, t>> \in processed
                  /\ \E i \in DOMAIN Projections(Name[e]) : Projections(Name[e])[i] = <<t, k>>}

Deduplicable == UNION {{t} \X (Columns[t] \ {"match_times", "online_hours"}) : t \in Tables}

\* However often events are delivered, at whatever overlap, no counter exceeds
\* the events processed for it (projections.service.ts:19 "never
\* double-counted").
NeverOvercounted ==
  \A tk \in Deduplicable :
    LET t == tk[1] k == tk[2]
    IN rows[t] # NoRow => rows[t][k] <= Cardinality(Counted(t, k))

\* While the transactions on a table do not overlap, its counters are exact and
\* every acknowledged event is in them (projections.service.ts:14 "exactly
\* once"): a failure between two projections of one event loses neither.
ExactlyOnce ==
  \A t \in Tables \ overlapped :
    /\ rows[t] # NoRow =>
         \A k \in Columns[t] :
           <<t, k>> \in Deduplicable => rows[t][k] = Cardinality(Counted(t, k))
    /\ \A e \in acked : \A i \in DOMAIN Projections(Name[e]) :
         Projections(Name[e])[i][1] = t /\ Name[e] # "driver.offline" => <<e, t>> \in processed

=============================================================================
