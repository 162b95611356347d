------------------------------- MODULE Logins --------------------------------
(***************************************************************************)
(* Identities in the Auth service: one-time codes (otp.service.ts), login, *)
(* registration, provisioning and devices (auth.service.ts).  Tokens are   *)
(* in RefreshTokens.                                                       *)
(*                                                                         *)
(* A user is named by the phone.  Nothing in the repository blocks a user, *)
(* so status is left out.  A call's phases:                                *)
(*   counted       request() has counted the recent codes of the phone     *)
(*   verifying     verify() has compared the code; the challenge it loaded *)
(*                 is to be saved                                          *)
(*   entering      the code was right, the user is looked up next          *)
(*   registering   there is none: registerPassenger's transaction is next  *)
(*   binding       bindDevice is next, deactivated: its insert is next     *)
(*   provisioning  provisionUser() found nobody and will insert            *)
(***************************************************************************)
EXTENDS Naturals, Sequences, FiniteSets

CONSTANTS
  Phones,
  Workers,        \* bound: calls at the same time
  MaxAttempts,    \* otp.maxAttempts
  MaxChallenges,  \* bound: codes ever requested
  MaxDevices      \* bound: devices ever bound

VARIABLES
  users,       \* table users: the role of each phone, or "nobody"
  challenges,  \* table otp_challenges, in the order of creation
  devices,     \* table devices, in the order of insertion
  calls,
  registered,  \* history: how often user.registered was recorded for a phone
  guesses,     \* history: codes compared with each challenge
  opened,      \* history: logins each challenge opened
  overlapped   \* history: phones on which two calls overlapped

vars == <<users, challenges, devices, calls, registered, guesses, opened, overlapped>>

Purposes == {"login", "register"}
Roles == {"passenger", "driver", "admin_super"}

Challenge == [phone : Phones, purpose : Purposes, attempts : 0..MaxAttempts,
              consumed : BOOLEAN, expired : BOOLEAN, recent : BOOLEAN]

Device == [user : Phones, active : BOOLEAN]

Idle == [phase |-> "idle"]

TypeOK ==
  /\ users \in [Phones -> Roles \cup {"nobody"}]
  /\ challenges \in Seq(Challenge) /\ Len(challenges) <= MaxChallenges
  /\ devices \in Seq(Device) /\ Len(devices) <= MaxDevices
  /\ \A w \in Workers :
       \/ calls[w] = Idle
       \/ /\ calls[w].phase = "verifying" /\ calls[w].entity \in Challenge
          /\ calls[w].id \in DOMAIN challenges
       \/ /\ calls[w].phase \in {"counted", "entering"} /\ calls[w].purpose \in Purposes
       \/ /\ calls[w].phase \in {"registering", "binding", "deactivated"}
       \/ /\ calls[w].phase = "provisioning" /\ calls[w].role \in Roles
  /\ registered \in [Phones -> Nat]
  /\ guesses \in [1..MaxChallenges -> Nat] /\ opened \in [1..MaxChallenges -> Nat]
  /\ overlapped \subseteq Phones

\* The first administrator may have been created (bootstrap-admin.ts).
Init ==
  /\ users \in {[p \in Phones |-> "nobody"]} \cup
              {[p \in Phones |-> IF p = a THEN "admin_super" ELSE "nobody"] : a \in Phones}
  /\ challenges = <<>> /\ devices = <<>>
  /\ calls = [w \in Workers |-> Idle]
  /\ registered = [p \in Phones |-> 0]
  /\ guesses = [c \in 1..MaxChallenges |-> 0] /\ opened = guesses
  /\ overlapped = {}

Enter(w, call) == calls' = [calls EXCEPT ![w] = call]

\* A call on a phone begins.
Begin(w, call) ==
  /\ calls[w] = Idle
  /\ Enter(w, call)
  /\ overlapped' = IF \E o \in Workers : calls[o] # Idle /\ calls[o].phone = call.phone
                     THEN overlapped \cup {call.phone} ELSE overlapped

(***************************************************************************)
(* One-time codes                                                          *)
(***************************************************************************)
Recent(p) == {c \in DOMAIN challenges : challenges[c].phone = p /\ challenges[c].recent}

RequestOtp(w, p, purpose) ==
  /\ Cardinality(Recent(p)) < MaxAttempts
  /\ Begin(w, [phase |-> "counted", phone |-> p, purpose |-> purpose])
  /\ UNCHANGED <<users, challenges, devices, registered, guesses, opened>>

SaveChallenge(w) ==
  /\ calls[w].phase = "counted" /\ Len(challenges) < MaxChallenges
  /\ challenges' = Append(challenges,
       [phone |-> calls[w].phone, purpose |-> calls[w].purpose, attempts |-> 0,
        consumed |-> FALSE, expired |-> FALSE, recent |-> TRUE])
  /\ Enter(w, Idle)
  /\ UNCHANGED <<users, devices, registered, guesses, opened, overlapped>>

\* The challenges verify() looks at, and the latest of them.
Pending(p, purpose) ==
  {c \in DOMAIN challenges : /\ challenges[c].phone = p /\ challenges[c].purpose = purpose
                             /\ ~challenges[c].consumed}

Latest(S) == CHOOSE c \in S : \A d \in S : d <= c

\* Variant: the attempts are not limited.
VerifyOtpUnlimited(w, p, purpose, right) ==
  LET c == Latest(Pending(p, purpose)) IN
  /\ Pending(p, purpose) # {}
  /\ ~challenges[c].expired
  /\ Begin(w, [phase |-> "verifying", phone |-> p, id |-> c,
               entity |-> [challenges[c] EXCEPT !.attempts = challenges[c].attempts + 1,
                                                !.consumed = right]])
  /\ UNCHANGED <<users, challenges, devices, registered, guesses, opened>>

\* verify(): the latest code not consumed, unless it expired or is used up.
VerifyOtp(w, p, purpose, right) ==
  LET c == Latest(Pending(p, purpose)) IN
  /\ Pending(p, purpose) # {}
  /\ ~challenges[c].expired /\ challenges[c].attempts < MaxAttempts
  /\ Begin(w, [phase |-> "verifying", phone |-> p, id |-> c,
               entity |-> [challenges[c] EXCEPT !.attempts = challenges[c].attempts + 1,
                                                !.consumed = right]])
  /\ UNCHANGED <<users, challenges, devices, registered, guesses, opened>>

\* Variant: a wrong code is refused before the challenge is saved.
SaveVerifiedRight(w) ==
  LET c == calls[w].id entity == calls[w].entity IN
  /\ calls[w].phase = "verifying"
  /\ guesses' = [guesses EXCEPT ![c] = guesses[c] + 1]
  /\ IF entity.consumed
       THEN /\ challenges' = [challenges EXCEPT ![c] =
                 [challenges[c] EXCEPT !.attempts = entity.attempts, !.consumed = TRUE]]
            /\ Enter(w, [phase |-> "entering", phone |-> entity.phone, purpose |-> entity.purpose])
            /\ opened' = [opened EXCEPT ![c] = opened[c] + 1]
       ELSE Enter(w, Idle) /\ UNCHANGED <<challenges, opened>>
  /\ UNCHANGED <<users, devices, registered, overlapped>>

\* save() writes what differs from the row, a consumption it did not see
\* included; then a wrong code ends the call.  Either way the caller learns the
\* outcome of the comparison only now.
SaveVerified(w) ==
  LET c == calls[w].id entity == calls[w].entity IN
  /\ calls[w].phase = "verifying"
  /\ challenges' = [challenges EXCEPT ![c] =
       [challenges[c] EXCEPT !.attempts = entity.attempts, !.consumed = entity.consumed]]
  /\ guesses' = [guesses EXCEPT ![c] = guesses[c] + 1]
  /\ IF entity.consumed
       THEN /\ Enter(w, [phase |-> "entering", phone |-> entity.phone, purpose |-> entity.purpose])
            /\ opened' = [opened EXCEPT ![c] = opened[c] + 1]
       ELSE Enter(w, Idle) /\ UNCHANGED opened
  /\ UNCHANGED <<users, devices, registered, overlapped>>

ExpireCode(c) ==
  /\ ~challenges[c].expired
  /\ challenges' = [challenges EXCEPT ![c].expired = TRUE]
  /\ UNCHANGED <<users, devices, calls, registered, guesses, opened, overlapped>>

\* The rate window has passed, and with it the code's ttl.
LeaveWindow(c) ==
  /\ challenges[c].recent /\ challenges[c].expired
  /\ challenges' = [challenges EXCEPT ![c].recent = FALSE]
  /\ UNCHANGED <<users, devices, calls, registered, guesses, opened, overlapped>>

(***************************************************************************)
(* Users                                                                   *)
(***************************************************************************)
\* verifyOtp() after the code: a known user is saved with the time of login,
\* an unknown one is registered or refused.
FindUser(w) ==
  LET p == calls[w].phone IN
  /\ calls[w].phase = "entering"
  /\ \/ users[p] # "nobody" /\ Enter(w, [phase |-> "binding", phone |-> p])
     \/ /\ users[p] = "nobody" /\ calls[w].purpose = "register"
        /\ Enter(w, [phase |-> "registering", phone |-> p])
     \/ users[p] = "nobody" /\ calls[w].purpose = "login" /\ Enter(w, Idle)
  /\ UNCHANGED <<users, challenges, devices, registered, guesses, opened, overlapped>>

\* The user and user.registered are inserted together, unless the unique index
\* on the phone refuses.
RegisterPassenger(w) ==
  LET p == calls[w].phone IN
  /\ calls[w].phase = "registering"
  /\ \/ /\ users[p] = "nobody"
        /\ users' = [users EXCEPT ![p] = "passenger"]
        /\ registered' = [registered EXCEPT ![p] = registered[p] + 1]
        /\ Enter(w, [phase |-> "binding", phone |-> p])
     \/ users[p] # "nobody" /\ Enter(w, Idle) /\ UNCHANGED <<users, registered>>
  /\ UNCHANGED <<challenges, devices, guesses, opened, overlapped>>

\* provisionUser() is idempotent on the phone and refuses another role.
Provision(w, p, role) ==
  /\ users[p] = "nobody"
  /\ Begin(w, [phase |-> "provisioning", phone |-> p, role |-> role])
  /\ UNCHANGED <<users, challenges, devices, registered, guesses, opened>>

SaveProvisioned(w) ==
  LET p == calls[w].phone IN
  /\ calls[w].phase = "provisioning"
  /\ users' = IF users[p] = "nobody" THEN [users EXCEPT ![p] = calls[w].role] ELSE users
  /\ Enter(w, Idle)
  /\ UNCHANGED <<challenges, devices, registered, guesses, opened, overlapped>>

(***************************************************************************)
(* Devices                                                                 *)
(***************************************************************************)
\* Variant: the driver's other devices stay active.
KeepDevices(w) ==
  /\ calls[w].phase = "binding"
  /\ Enter(w, [phase |-> "deactivated", phone |-> calls[w].phone])
  /\ UNCHANGED <<users, challenges, devices, registered, guesses, opened, overlapped>>

\* A driver's other devices are deactivated first.
DeactivateDevices(w) ==
  LET p == calls[w].phone IN
  /\ calls[w].phase = "binding"
  /\ devices' = [i \in DOMAIN devices |->
       IF users[p] = "driver" /\ devices[i].user = p
         THEN [devices[i] EXCEPT !.active = FALSE] ELSE devices[i]]
  /\ Enter(w, [phase |-> "deactivated", phone |-> p])
  /\ UNCHANGED <<users, challenges, registered, guesses, opened, overlapped>>

InsertDevice(w) ==
  LET p == calls[w].phone IN
  /\ calls[w].phase = "deactivated" /\ Len(devices) < MaxDevices
  /\ devices' = Append(devices, [user |-> p, active |-> TRUE])
  /\ Enter(w, Idle)
  /\ UNCHANGED <<users, challenges, registered, guesses, opened, overlapped>>

\* The login names no device, or the call fails.
EndCall(w) ==
  /\ calls[w] # Idle
  /\ Enter(w, Idle)
  /\ UNCHANGED <<users, challenges, devices, registered, guesses, opened, overlapped>>

-----------------------------------------------------------------------------
Next ==
  \/ \E w \in Workers :
       \/ \E p \in Phones, purpose \in Purposes :
            \/ RequestOtp(w, p, purpose)
            \/ \E right \in BOOLEAN : VerifyOtp(w, p, purpose, right)
       \/ \E p \in Phones, role \in {"passenger", "driver"} : Provision(w, p, role)
       \/ SaveChallenge(w) \/ SaveVerified(w) \/ FindUser(w) \/ RegisterPassenger(w)
       \/ SaveProvisioned(w) \/ DeactivateDevices(w) \/ InsertDevice(w) \/ EndCall(w)
  \/ \E c \in DOMAIN challenges : ExpireCode(c) \/ LeaveWindow(c)

Spec == Init /\ [][Next]_vars

(***************************************************************************)
(* Properties                                                              *)
(***************************************************************************)

\* A phone registers itself at most once, and user.registered is recorded
\* exactly then, whatever registrations and provisions overlap
\* (auth.service.ts:44 "for genuinely new users").
RegisteredOnce ==
  \A p \in Phones : /\ registered[p] <= 1
                    /\ registered[p] = 1 => users[p] = "passenger"

\* While the calls on a phone do not overlap, a code is compared at most
\* MaxAttempts times and opens one login, and no more than MaxAttempts codes
\* are sent in a window (security.md 1).
CodesBounded ==
  \A p \in Phones \ overlapped :
    /\ Cardinality(Recent(p)) <= MaxAttempts
    /\ \A c \in DOMAIN challenges : challenges[c].phone = p =>
         guesses[c] <= MaxAttempts /\ opened[c] <= 1

\* While the logins of a driver do not overlap, one device is active (D-01).
OneActiveDevice ==
  \A p \in Phones \ overlapped :
    users[p] = "driver" =>
      Cardinality({i \in DOMAIN devices : devices[i].user = p /\ devices[i].active}) <= 1

=============================================================================
