---------------------------- MODULE SerialPayments ----------------------------
(***************************************************************************)
(* Payments whose handlers may be taken one at a time: what the service    *)
(* promises about the payments of a ride when no two of its handlers       *)
(* overlap, whatever the gateway does meanwhile.                           *)
(***************************************************************************)
EXTENDS Payments

VARIABLE serial   \* whether handlers are taken one at a time

OneAtATime == \A v, w \in Workers : calls[v] # Idle /\ calls[w] # Idle => v = w

SerialInit == Init /\ serial \in BOOLEAN

SerialNext == Next /\ UNCHANGED serial /\ (serial => OneAtATime')

SerialSpec == SerialInit /\ [][SerialNext]_<<vars, serial>>

\* One payment of a ride at most is told to the other services as completed
\* (specs.md 8.2), by handlers that do not overlap.
CompletedOnceSerially == serial => CompletedOnce

\* Success is final (handleCallback(), markFailed()), for handlers that do not
\* overlap.
SuccessIsFinal == [][serial => SuccessStays]_payments

=============================================================================
