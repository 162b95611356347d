----------------------------- MODULE Notifications -----------------------------
(***************************************************************************)
(* The Notification service (notifications.service.ts): a call of another  *)
(* service resolves a template, logs the message as queued, hands it to a  *)
(* provider, logs the outcome and publishes it to the bus, one await after *)
(* the other and without an outbox.                                        *)
(*                                                                         *)
(* What a template says and the variables it leaves open change no state.  *)
(* No call edits a template.                                               *)
(***************************************************************************)
EXTENDS Naturals, Sequences, FiniteSets

CONSTANTS
  Workers,         \* bound: calls at the same time
  Wanted,          \* the <<key, channel, lang>> other services ask for
  MaxRecords,      \* bound: messages ever logged
  MaxBroadcasts,   \* bound: broadcasts ever made
  MaxStopped       \* bound: calls that stop in the middle

VARIABLES
  records,      \* table notifications, in the order of insertion
  broadcasts,   \* table broadcasts
  calls,
  outcomes,     \* history: what the provider did with each record's message
  published,    \* history: the events, as <<record, name>>
  stopped       \* history: the records whose call stopped

vars == <<records, broadcasts, calls, outcomes, published, stopped>>

Channel == {"push", "sms"}
Lang == {"en", "ur"}
NotificationStatus == {"queued", "sent", "delivered", "failed"}
BroadcastAudience == {"all_drivers", "all_passengers"}

\* The rows of table templates.
Templates == {
  <<"driver_assigned", "push", "en">>, <<"driver_assigned", "push", "ur">>,
  <<"driver_arrived", "push", "en">>, <<"driver_arrived", "sms", "en">>,
  <<"fare_ready", "push", "en">>, <<"payment_success", "push", "en">>,
  <<"payment_failed", "push", "en">>, <<"ride_cancelled", "push", "en">>,
  <<"no_driver_found", "push", "en">>, <<"driver_document_expiring", "push", "en">>}

Keys == {t[1] : t \in Templates}

NotificationRecord == [channel : Channel, key : Keys, status : NotificationStatus]
Broadcast == [audience : BroadcastAudience, count : Nat]

\* What a provider may answer; it may also throw, which is Stop.
SendResult == {"sent", "failed"}

Idle == [phase |-> "idle"]
Call == [phase : {"sending", "settling", "publishing"}, id : 1..MaxRecords]

TypeOK ==
  /\ records \in Seq(NotificationRecord) /\ Len(records) <= MaxRecords
  /\ broadcasts \in Seq(Broadcast) /\ Len(broadcasts) <= MaxBroadcasts
  /\ calls \in [Workers -> {Idle} \cup Call]
  /\ DOMAIN outcomes = 1..MaxRecords
  /\ \A id \in 1..MaxRecords : outcomes[id] \in SendResult \cup {"none"}
  /\ published \subseteq (DOMAIN records) \X SendResult
  /\ stopped \subseteq DOMAIN records

Init ==
  /\ records = <<>> /\ broadcasts = <<>> /\ published = {}
  /\ outcomes = [id \in 1..MaxRecords |-> "none"]
  /\ calls = [w \in Workers |-> Idle]
  /\ stopped = {}

\* The template in the language asked for, else the English one.
ResolveTemplate(key, channel, lang) ==
  LET authored == {<<key, channel, lang>>} \cap Templates IN
  IF authored # {} THEN authored ELSE {<<key, channel, "en">>} \cap Templates

\* notify() up to the first save; without a template it throws.
Queue(w, key, channel, lang) ==
  /\ calls[w] = Idle /\ Len(records) < MaxRecords
  /\ \E t \in ResolveTemplate(key, channel, lang) :
       records' = Append(records, [channel |-> t[2], key |-> key, status |-> "queued"])
  /\ calls' = [calls EXCEPT ![w] = [phase |-> "sending", id |-> Len(records')]]
  /\ UNCHANGED <<broadcasts, outcomes, published, stopped>>

\* The provider's work, whether or not the call hears of it.
Send(w, result) ==
  /\ calls[w].phase = "sending"
  /\ outcomes' = [outcomes EXCEPT ![calls[w].id] = result]
  /\ calls' = [calls EXCEPT ![w].phase = "settling"]
  /\ UNCHANGED <<records, broadcasts, published, stopped>>

\* Variant: whatever the provider answered counts as sent.
SettleSent(w) ==
  /\ calls[w].phase = "settling"
  /\ records' = [records EXCEPT ![calls[w].id].status = "sent"]
  /\ calls' = [calls EXCEPT ![w].phase = "publishing"]
  /\ UNCHANGED <<broadcasts, outcomes, published, stopped>>

\* The second save, with what the provider answered.
Settle(w) ==
  /\ calls[w].phase = "settling"
  /\ records' = [records EXCEPT ![calls[w].id].status = outcomes[calls[w].id]]
  /\ calls' = [calls EXCEPT ![w].phase = "publishing"]
  /\ UNCHANGED <<broadcasts, outcomes, published, stopped>>

PublishOutcome(w) ==
  /\ calls[w].phase = "publishing"
  /\ published' = published \cup {<<calls[w].id, records[calls[w].id].status>>}
  /\ calls' = [calls EXCEPT ![w] = Idle]
  /\ UNCHANGED <<records, broadcasts, outcomes, stopped>>

\* The database, the provider or the bus throws, or the process ends.
Stop(w) ==
  /\ calls[w] # Idle /\ Cardinality(stopped) < MaxStopped
  /\ calls' = [calls EXCEPT ![w] = Idle]
  /\ stopped' = stopped \cup {calls[w].id}
  /\ UNCHANGED <<records, broadcasts, outcomes, published>>

\* BroadcastsService.create() records the intent; nothing is sent.
CreateBroadcast(audience) ==
  /\ Len(broadcasts) < MaxBroadcasts
  /\ broadcasts' = Append(broadcasts, [audience |-> audience, count |-> 0])
  /\ UNCHANGED <<records, calls, outcomes, published, stopped>>

-----------------------------------------------------------------------------
Next ==
  \/ \E w \in Workers :
       \/ Settle(w) \/ PublishOutcome(w) \/ Stop(w)
       \/ \E result \in SendResult : Send(w, result)
       \/ \E t \in Wanted : Queue(w, t[1], t[2], t[3])
  \/ \E audience \in BroadcastAudience : CreateBroadcast(audience)

Spec == Init /\ [][Next]_vars

(***************************************************************************)
(* Properties                                                              *)
(***************************************************************************)

\* A message in a provider's hands has its row; a settled row and the event
\* about it say what the provider did; and only a call that stopped leaves a
\* row queued or an outcome unannounced (notifications.service.ts:13
\* "logging every attempt", :47-77).
DeliveryLogged ==
  \A id \in 1..MaxRecords :
    /\ outcomes[id] # "none" => id \in DOMAIN records
    /\ id \in DOMAIN records =>
         /\ records[id].status \in {"queued", outcomes[id]}
         /\ \A e \in published : e[1] = id => e[2] = records[id].status
         /\ \/ \E e \in published : e[1] = id
            \/ \E w \in Workers : calls[w] # Idle /\ calls[w].id = id
            \/ id \in stopped

=============================================================================
