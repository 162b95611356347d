------------------------------- MODULE EventBus -------------------------------
(***************************************************************************)
(* The event bus of every service (libs/events): a producer's outbox table *)
(* and its relay, the topic exchange, one durable queue per consuming      *)
(* service, and the retries of event-bus.service.ts.                       *)
(*                                                                         *)
(* A message in flight is an event and its x-attempts header.  A failed    *)
(* handler acknowledges it and republishes it to the exchange after a      *)
(* delay kept in a timer, hence to every service bound to the event.       *)
(* Events are numbered by createdAt, the start of the transaction that     *)
(* records them, so they become visible in any order.                      *)
(*                                                                         *)
(* The services are starting: their queues and bindings are those of an    *)
(* earlier run, and their subscribe() calls are still to come.  Publishing *)
(* is unconfirmed, so a message may get lost on the channel.               *)
(***************************************************************************)
EXTENDS Naturals, Sequences, FiniteSets

CONSTANTS
  Events,        \* the producer's events, by createdAt
  Services,      \* the consuming services
  Bound,         \* the events each service's queue is bound to
  Subscriptions, \* the subscribe() calls of each service, by what they handle
  MaxAttempts,   \* maxRetries
  Prefetch,      \* channel.prefetch
  BatchSize,     \* take
  MaxFaults      \* bound: restarts of consumers, failed ticks of the relay and
                 \* messages lost on the channel

VARIABLES
  outbox,     \* table outbox: the state of each event's row
  fetched,    \* the rows the relay's tick has still to publish, in order
  unmarked,   \* the relay has published the first of them and not saved sentAt
  subscribed, \* the subscribe() calls each service has made since it started
  queue,      \* <service>.q
  busy,       \* messages delivered to a service and not acknowledged
  delayed,    \* messages a service acknowledged, waiting in its timers
  handled, dead,  \* history: events a service has handled, has dead-lettered
  unhandled,  \* history: events a service acknowledged without a handler
  dropped,    \* history: events of which a service lost a copy with a timer or
              \* on the channel
  failures,   \* history: how often each service's handler failed on an event
  faults

vars == <<outbox, fetched, unmarked, subscribed, queue, busy, delayed, handled, dead,
          unhandled, dropped, failures, faults>>

relayVars == <<outbox, fetched, unmarked>>
history   == <<handled, dead, unhandled, dropped, failures>>

Message == [event : Events, attempts : 0..(MaxAttempts - 1)]

TypeOK ==
  /\ outbox \in [Events -> {"absent", "unsent", "sent"}]
  /\ fetched \in Seq(Events)
  /\ unmarked \in BOOLEAN /\ (unmarked => fetched # <<>>)
  /\ \A s \in Services :
       /\ queue[s] \in Seq(Message) /\ busy[s] \in Seq(Message) /\ delayed[s] \in Seq(Message)
       /\ Len(busy[s]) <= Prefetch
       /\ subscribed[s] \subseteq Subscriptions[s]
       /\ handled[s] \cup dead[s] \cup unhandled[s] \cup dropped[s] \subseteq Bound[s]
  /\ failures \in [Services -> [Events -> Nat]]
  /\ faults \in 0..MaxFaults

Held(s) == queue[s] \o busy[s] \o delayed[s]

\* A copy of the event is on its way to the service.
InFlight(s, e) == \E i \in DOMAIN Held(s) : Held(s)[i].event = e

Without(seq, i) == SubSeq(seq, 1, i - 1) \o SubSeq(seq, i + 1, Len(seq))

Publish(q, msg) == [s \in Services |-> IF msg.event \in Bound[s] THEN Append(q[s], msg) ELSE q[s]]

Init ==
  /\ outbox = [e \in Events |-> "absent"]
  /\ fetched = <<>> /\ unmarked = FALSE
  /\ queue = [s \in Services |-> <<>>]
  /\ busy = queue /\ delayed = queue
  /\ handled = [s \in Services |-> {}] /\ dead = handled
  /\ subscribed = handled /\ unhandled = handled /\ dropped = handled
  /\ failures = [s \in Services |-> [e \in Events |-> 0]]
  /\ faults = 0

(***************************************************************************)
(* The producer: outbox.entity.ts and outbox-relay.service.ts              *)
(***************************************************************************)
\* The transaction that records an event commits.
Record(e) ==
  /\ outbox[e] = "absent"
  /\ outbox' = [outbox EXCEPT ![e] = "unsent"]
  /\ UNCHANGED <<fetched, unmarked, subscribed, queue, busy, delayed, history, faults>>

Unsent == {e \in Events : outbox[e] = "unsent"}

\* The events of a set in the order of their creation.
ByCreation(S) ==
  [i \in 1..Cardinality(S) |-> CHOOSE e \in S : Cardinality({f \in S : f < e}) = i - 1]

RelayFetch ==
  /\ fetched = <<>> /\ Unsent # {}
  /\ LET batch == ByCreation(Unsent)
     IN fetched' = SubSeq(batch, 1, IF Len(batch) < BatchSize THEN Len(batch) ELSE BatchSize)
  /\ UNCHANGED <<outbox, unmarked, subscribed, queue, busy, delayed, history, faults>>

RelayPublish ==
  /\ fetched # <<>> /\ ~unmarked
  /\ queue' = Publish(queue, [event |-> Head(fetched), attempts |-> 0])
  /\ unmarked' = TRUE
  /\ UNCHANGED <<outbox, fetched, subscribed, busy, delayed, history, faults>>

\* The message is handed to the connection and never reaches the broker.
RelayPublishLost ==
  /\ fetched # <<>> /\ ~unmarked /\ faults < MaxFaults
  /\ dropped' = [s \in Services |-> dropped[s] \cup ({Head(fetched)} \cap Bound[s])]
  /\ unmarked' = TRUE
  /\ faults' = faults + 1
  /\ UNCHANGED <<outbox, fetched, subscribed, queue, busy, delayed, handled, dead,
                 unhandled, failures>>

RelayMark ==
  /\ unmarked
  /\ outbox' = [outbox EXCEPT ![Head(fetched)] = "sent"]
  /\ fetched' = Tail(fetched) /\ unmarked' = FALSE
  /\ UNCHANGED <<subscribed, queue, busy, delayed, history, faults>>

\* Variant: the row was marked before its event was published.
RelayFailsMarked ==
  /\ fetched # <<>> /\ faults < MaxFaults
  /\ outbox' = [outbox EXCEPT ![Head(fetched)] = "sent"]
  /\ fetched' = <<>> /\ unmarked' = FALSE
  /\ faults' = faults + 1
  /\ UNCHANGED <<subscribed, queue, busy, delayed, history>>

\* publish or save throws, or the producer restarts: the tick is over.
RelayFails ==
  /\ fetched # <<>> /\ faults < MaxFaults
  /\ fetched' = <<>> /\ unmarked' = FALSE
  /\ faults' = faults + 1
  /\ UNCHANGED <<outbox, subscribed, queue, busy, delayed, history>>

(***************************************************************************)
(* A consuming service: event-bus.service.ts                               *)
(***************************************************************************)
\* One more subscribe() call registers its handler; the first one starts to
\* consume the queue.
Subscribe(s) ==
  /\ \E call \in Subscriptions[s] \ subscribed[s] :
       subscribed' = [subscribed EXCEPT ![s] = subscribed[s] \cup {call}]
  /\ UNCHANGED <<relayVars, queue, busy, delayed, history, faults>>

\* The events a service has a handler for.
Registered(s) == UNION subscribed[s]

\* Variant: without a prefetch limit.
DeliverUnlimited(s) ==
  /\ queue[s] # <<>> /\ Head(queue[s]).event \in Registered(s)
  /\ busy' = [busy EXCEPT ![s] = Append(busy[s], Head(queue[s]))]
  /\ queue' = [queue EXCEPT ![s] = Tail(queue[s])]
  /\ UNCHANGED <<relayVars, subscribed, delayed, history, faults>>

Deliver(s) ==
  /\ queue[s] # <<>> /\ Len(busy[s]) < Prefetch
  /\ Head(queue[s]).event \in Registered(s)
  /\ busy' = [busy EXCEPT ![s] = Append(busy[s], Head(queue[s]))]
  /\ queue' = [queue EXCEPT ![s] = Tail(queue[s])]
  /\ UNCHANGED <<relayVars, subscribed, delayed, history, faults>>

\* Nobody has registered for the message yet: it is acknowledged unhandled.
AckUnhandled(s) ==
  /\ queue[s] # <<>> /\ Len(busy[s]) < Prefetch
  /\ subscribed[s] # {} /\ Head(queue[s]).event \notin Registered(s)
  /\ queue' = [queue EXCEPT ![s] = Tail(queue[s])]
  /\ unhandled' = [unhandled EXCEPT ![s] = unhandled[s] \cup {Head(queue[s]).event}]
  /\ UNCHANGED <<relayVars, subscribed, busy, delayed, handled, dead, dropped, failures,
                 faults>>

\* The handler returns and the message is acknowledged.
Handle(s, i) ==
  /\ busy' = [busy EXCEPT ![s] = Without(busy[s], i)]
  /\ handled' = [handled EXCEPT ![s] = handled[s] \cup {busy[s][i].event}]
  /\ UNCHANGED <<relayVars, subscribed, queue, delayed, dead, unhandled, dropped, failures,
                 faults>>

\* Variant: one attempt too few.
HandlerFailsEarly(s, i) ==
  LET msg == busy[s][i]
      attempts == msg.attempts + 1 IN
  /\ busy' = [busy EXCEPT ![s] = Without(busy[s], i)]
  /\ failures' = [failures EXCEPT ![s][msg.event] = failures[s][msg.event] + 1]
  /\ \/ /\ attempts >= MaxAttempts - 1
        /\ dead' = [dead EXCEPT ![s] = dead[s] \cup {msg.event}]
        /\ UNCHANGED delayed
     \/ /\ attempts < MaxAttempts - 1
        /\ delayed' = [delayed EXCEPT ![s] = Append(delayed[s], [msg EXCEPT !.attempts = attempts])]
        /\ UNCHANGED dead
  /\ UNCHANGED <<relayVars, subscribed, queue, handled, unhandled, dropped, faults>>

\* The handler throws: the last attempt is dead-lettered, an earlier one is
\* acknowledged and put in a timer with the attempts so far.
HandlerFails(s, i) ==
  LET msg == busy[s][i]
      attempts == msg.attempts + 1 IN
  /\ busy' = [busy EXCEPT ![s] = Without(busy[s], i)]
  /\ failures' = [failures EXCEPT ![s][msg.event] = failures[s][msg.event] + 1]
  /\ \/ /\ attempts >= MaxAttempts
        /\ dead' = [dead EXCEPT ![s] = dead[s] \cup {msg.event}]
        /\ UNCHANGED delayed
     \/ /\ attempts < MaxAttempts
        /\ delayed' = [delayed EXCEPT ![s] = Append(delayed[s], [msg EXCEPT !.attempts = attempts])]
        /\ UNCHANGED dead
  /\ UNCHANGED <<relayVars, subscribed, queue, handled, unhandled, dropped, faults>>

\* The timer of a delayed message fires.
Requeue(s, i) ==
  /\ queue' = Publish(queue, delayed[s][i])
  /\ delayed' = [delayed EXCEPT ![s] = Without(delayed[s], i)]
  /\ UNCHANGED <<relayVars, subscribed, busy, history, faults>>

\* The timer's message never reaches the broker.
RequeueLost(s, i) ==
  /\ faults < MaxFaults
  /\ dropped' = [dropped EXCEPT ![s] = dropped[s] \cup {delayed[s][i].event}]
  /\ delayed' = [delayed EXCEPT ![s] = Without(delayed[s], i)]
  /\ faults' = faults + 1
  /\ UNCHANGED <<relayVars, subscribed, queue, busy, handled, dead, unhandled, failures>>

\* Variant: deliveries are acknowledged before they are handled.
RestartAcknowledged(s) ==
  /\ subscribed[s] # {} /\ faults < MaxFaults
  /\ subscribed' = [subscribed EXCEPT ![s] = {}]
  /\ busy' = [busy EXCEPT ![s] = <<>>]
  /\ dropped' = [dropped EXCEPT ![s] =
                   dropped[s] \cup {delayed[s][i].event : i \in DOMAIN delayed[s]}]
  /\ delayed' = [delayed EXCEPT ![s] = <<>>]
  /\ faults' = faults + 1
  /\ UNCHANGED <<relayVars, queue, handled, dead, unhandled, failures>>

\* The service restarts: the broker requeues what was not acknowledged, the
\* timers and the handlers are gone.
Restart(s) ==
  /\ subscribed[s] # {} /\ faults < MaxFaults
  /\ subscribed' = [subscribed EXCEPT ![s] = {}]
  /\ queue' = [queue EXCEPT ![s] = busy[s] \o queue[s]]
  /\ busy' = [busy EXCEPT ![s] = <<>>]
  /\ dropped' = [dropped EXCEPT ![s] =
                   dropped[s] \cup {delayed[s][i].event : i \in DOMAIN delayed[s]}]
  /\ delayed' = [delayed EXCEPT ![s] = <<>>]
  /\ faults' = faults + 1
  /\ UNCHANGED <<relayVars, handled, dead, unhandled, failures>>

-----------------------------------------------------------------------------
Relay == RelayFetch \/ RelayPublish \/ RelayMark

Finish(s) == \E i \in DOMAIN busy[s] : Handle(s, i) \/ HandlerFails(s, i)

Timer(s) == \E i \in DOMAIN delayed[s] : Requeue(s, i)

TimerLost(s) == \E i \in DOMAIN delayed[s] : RequeueLost(s, i)

Consume(s) == Deliver(s) \/ AckUnhandled(s)

Next ==
  \/ \E e \in Events : Record(e)
  \/ Relay \/ RelayPublishLost \/ RelayFails
  \/ \E s \in Services :
       Subscribe(s) \/ Consume(s) \/ Finish(s) \/ Timer(s) \/ TimerLost(s) \/ Restart(s)

Spec == Init /\ [][Next]_vars

\* The relay polls, a service that starts makes its subscribe() calls, the broker
\* delivers, handlers end one way or the other and timers fire.  No handler has to
\* succeed.
Fairness ==
  /\ WF_vars(Relay)
  /\ \A s \in Services :
       WF_vars(Subscribe(s)) /\ WF_vars(Consume(s)) /\ WF_vars(Finish(s)) /\ WF_vars(Timer(s))

FairSpec == Spec /\ Fairness

(***************************************************************************)
(* Properties                                                              *)
(***************************************************************************)

\* An event marked as sent is, for every service bound to it, handled, in the
\* dead-letter queue or on its way, but for two ways to lose it.  One takes a fault:
\* a restart in the middle of a retry delay, or a message lost on the unconfirmed
\* channel.  The other takes none: a service that subscribes in several calls
\* acknowledges unhandled what arrives between the first one and the event's own.
\* A service with a single subscribe() call never does (outbox-relay.service.ts
\* tick, event-bus.service.ts subscribe).
NothingLost ==
  \A s \in Services : \A e \in Bound[s] :
    outbox[e] = "sent" =>
      \/ e \in handled[s] \cup dead[s]
      \/ InFlight(s, e)
      \/ e \in dropped[s] /\ faults > 0
      \/ e \in unhandled[s] /\ Subscriptions[s] # {Bound[s]}

\* A service gives an event up in the dead-letter queue only after its own handler
\* has failed MaxAttempts times on it, unless it has acknowledged a copy unhandled,
\* although the attempts header travels with copies that other services republish
\* and a copy of its own may get lost ("DLQ after N failed attempts").
GivenUpAfterRetries ==
  \A s \in Services : \A e \in Bound[s] \ (handled[s] \cup unhandled[s]) :
    e \in dead[s] /\ ~InFlight(s, e) => failures[s][e] >= MaxAttempts

\* Every event recorded in an outbox ends at every service bound to it, with
\* handlers that may fail every time (architecture.md 3.3), or is lost there.
Delivered ==
  \A s \in Services : \A e \in Bound[s] :
    outbox[e] = "unsent" ~> e \in handled[s] \cup dead[s] \cup unhandled[s] \cup dropped[s]

=============================================================================
