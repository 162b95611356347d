------------------------------ MODULE Passengers ------------------------------
(***************************************************************************)
(* The Passenger service, for one user of the Auth service: the profile,   *)
(* the administrators' block, the saved payment methods and the projection *)
(* of completed rides (passengers.service.ts, passengers.controller.ts,    *)
(* passenger-events.consumer.ts).                                          *)
(*                                                                         *)
(* A call reads in one step and writes in a later one; save() writes the   *)
(* columns in which the entity differs from the row by then.               *)
(*                                                                         *)
(* ride.completed and rides name a passenger by the Auth user id, which no *)
(* row of passengers has as its id: setUnsettled() changes no row, and the *)
(* handler of payment.failed does nothing, so unsettled_ride_id stays null *)
(* and is left out.                                                        *)
(***************************************************************************)
EXTENDS Naturals, FiniteSets

CONSTANTS
  Workers,          \* bound: calls at the same time
  Names,            \* what a profile says
  MethodIds,        \* ids for saved methods
  Rides,
  MaxSavedMethods,  \* config.maxSavedMethods
  MaxCalls,         \* bound: calls ever begun
  MaxFaults         \* bound: calls that stop in the middle

VARIABLES
  passenger,   \* the user's row of table passengers, or NoPassenger
  methods,     \* saved_methods: the id and isDefault of each row
  history,     \* ride_history_proj: the rides with a row
  calls,
  decided,     \* history: the status an administrator set last
  overlapped,  \* history: two calls on the profile overlapped
  excess,      \* history: calls that added a method while another did
  count, faults

vars == <<passenger, methods, history, calls, decided, overlapped, excess, count, faults>>

Statuses == {"active", "blocked"}
Passenger == [name : Names, status : Statuses]
NoPassenger == [status |-> "none"]
Idle == [op |-> "idle"]

\* An operation that is between its read and its write, with what it read.
Call ==
  [op : {"phone", "insert"}, name : Names] \cup
  [op : {"update", "block"}, entity : Passenger] \cup
  [op : {"add"}, isDefault : BOOLEAN] \cup
  [op : {"remove"}, method : MethodIds] \cup
  [op : {"project"}, ride : Rides, found : BOOLEAN]

Saving == {"update", "block"}

TypeOK ==
  /\ passenger \in Passenger \cup {NoPassenger}
  /\ methods \subseteq [id : MethodIds, isDefault : BOOLEAN]
  /\ \A m, n \in methods : m.id = n.id => m = n
  /\ history \subseteq Rides
  /\ calls \in [Workers -> Call \cup {Idle}]
  /\ decided \in Statuses /\ overlapped \in BOOLEAN /\ excess \in Nat
  /\ count \in 0..MaxCalls /\ faults \in 0..MaxFaults

Init ==
  /\ passenger = NoPassenger /\ methods = {} /\ history = {}
  /\ calls = [w \in Workers |-> Idle]
  /\ decided = "active" /\ overlapped = FALSE /\ excess = 0
  /\ count = 0 /\ faults = 0

tables == <<passenger, methods, history>>

Registered == passenger # NoPassenger

UnderWay(ops) == \E w \in Workers : calls[w].op \in ops

Begin(w, call) ==
  /\ calls[w] = Idle /\ count < MaxCalls /\ count' = count + 1
  /\ calls' = [calls EXCEPT ![w] = call]
  /\ UNCHANGED <<tables, decided, faults>>

Leave(w) == calls' = [calls EXCEPT ![w] = Idle] /\ UNCHANGED <<overlapped, excess, count, faults>>

(***************************************************************************)
(* Profile                                                                 *)
(***************************************************************************)
\* The phone is asked of Auth before anything else.
CompleteProfile(w, name) ==
  /\ Begin(w, [op |-> "phone", name |-> name])
  /\ UNCHANGED <<overlapped, excess>>

\* An existing profile is returned as it is.
FindProfile(w) ==
  /\ calls[w].op = "phone"
  /\ calls' = [calls EXCEPT ![w] = IF Registered THEN Idle ELSE [calls[w] EXCEPT !.op = "insert"]]
  /\ UNCHANGED <<tables, decided, overlapped, excess, count, faults>>

\* uq_passengers_auth_user rejects a second row.
InsertProfile(w) ==
  /\ calls[w].op = "insert"
  /\ passenger' = IF Registered THEN passenger ELSE [name |-> calls[w].name, status |-> "active"]
  /\ Leave(w)
  /\ UNCHANGED <<methods, history, decided>>

BeginSave(w, op, entity) ==
  /\ Registered
  /\ Begin(w, [op |-> op, entity |-> entity])
  /\ overlapped' = (overlapped \/ UnderWay(Saving))
  /\ UNCHANGED excess

UpdateProfile(w, name) == BeginSave(w, "update", [passenger EXCEPT !.name = name])

BlockUnblock(w, status) == BeginSave(w, "block", [passenger EXCEPT !.status = status])

SavePassenger(w) ==
  /\ calls[w].op \in Saving
  /\ passenger' = calls[w].entity
  /\ decided' = IF calls[w].op = "block" THEN calls[w].entity.status ELSE decided
  /\ Leave(w)
  /\ UNCHANGED <<methods, history>>

(***************************************************************************)
(* Payment methods                                                         *)
(***************************************************************************)
\* Variant: one method too many.
AddSavedMethodBeyond(w) ==
  /\ Registered /\ Cardinality(methods) <= MaxSavedMethods
  /\ Begin(w, [op |-> "add", isDefault |-> methods = {}])
  /\ excess' = IF UnderWay({"add"}) THEN excess + 1 ELSE excess
  /\ UNCHANGED overlapped

\* The methods are counted; the first is the default.
AddSavedMethod(w) ==
  /\ Registered /\ Cardinality(methods) < MaxSavedMethods
  /\ Begin(w, [op |-> "add", isDefault |-> methods = {}])
  /\ excess' = IF UnderWay({"add"}) THEN excess + 1 ELSE excess
  /\ UNCHANGED overlapped

InsertMethod(w, id) ==
  /\ calls[w].op = "add" /\ \A m \in methods : m.id # id
  /\ methods' = methods \cup {[id |-> id, isDefault |-> calls[w].isDefault]}
  /\ Leave(w)
  /\ UNCHANGED <<passenger, history, decided>>

RemoveSavedMethod(w, id) ==
  /\ \E m \in methods : m.id = id
  /\ Begin(w, [op |-> "remove", method |-> id])
  /\ UNCHANGED <<overlapped, excess>>

\* The row goes, if it has not gone by now; no other becomes the default.
DeleteMethod(w) ==
  /\ calls[w].op = "remove"
  /\ methods' = {m \in methods : m.id # calls[w].method}
  /\ Leave(w)
  /\ UNCHANGED <<passenger, history, decided>>

(***************************************************************************)
(* ride.completed                                                          *)
(***************************************************************************)
\* The projection's row of the ride is looked up, and inserted or updated next.
UpsertHistory(w, ride) ==
  /\ Begin(w, [op |-> "project", ride |-> ride, found |-> ride \in history])
  /\ UNCHANGED <<overlapped, excess>>

\* An insert of a row that exists by now fails, and the event comes again.
SaveHistory(w) ==
  /\ calls[w].op = "project"
  /\ history' = history \cup {calls[w].ride}
  /\ Leave(w)
  /\ UNCHANGED <<passenger, methods, decided>>

\* Auth does not answer within 3 s, a query fails or the process restarts.
CallFails(w) ==
  /\ calls[w] # Idle /\ faults < MaxFaults /\ faults' = faults + 1
  /\ calls' = [calls EXCEPT ![w] = Idle]
  /\ UNCHANGED <<tables, decided, overlapped, excess, count>>

-----------------------------------------------------------------------------
Next ==
  \E w \in Workers :
    \/ \E name \in Names : CompleteProfile(w, name) \/ UpdateProfile(w, name)
    \/ \E status \in Statuses : BlockUnblock(w, status)
    \/ FindProfile(w) \/ InsertProfile(w) \/ SavePassenger(w)
    \/ AddSavedMethod(w) \/ DeleteMethod(w)
    \/ \E id \in MethodIds : InsertMethod(w, id) \/ RemoveSavedMethod(w, id)
    \/ \E ride \in Rides : UpsertHistory(w, ride)
    \/ SaveHistory(w) \/ CallFails(w)

Spec == Init /\ [][Next]_vars

(***************************************************************************)
(* Properties                                                              *)
(***************************************************************************)

\* A passenger has at most one default method and no more methods than the
\* limit, beyond what calls added that counted while another was adding
\* (passengers.service.ts:78 "count >= this.config.maxSavedMethods").
MethodsBounded ==
  /\ Cardinality(methods) <= MaxSavedMethods + excess
  /\ Cardinality({m \in methods : m.isDefault}) <= 1 + excess

\* An administrator's block or unblock stays, whatever the passenger changes in
\* the profile and however often it is completed again, as long as no two calls
\* that save the row overlap.
BlockHolds ==
  Registered /\ ~overlapped => passenger.status = decided

PassengerKept == MethodsBounded /\ BlockHolds

=============================================================================
