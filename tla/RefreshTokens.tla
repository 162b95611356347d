---------------------------- MODULE RefreshTokens ----------------------------
(***************************************************************************)
(* The refresh tokens of the Auth service (token.service.ts): families of  *)
(* rotating tokens.  A dead token that comes back is meant to revoke its   *)
(* family, but the update's criterion revokedAt: undefined reaches the     *)
(* database as a comparison with null (TypeORM 0.3), which no row matches. *)
(*                                                                         *)
(* A rotation finds the presented token, revokes it, loads the user and    *)
(* inserts the successor in separate statements, so calls interleave and   *)
(* may stop in between.  Users are never deleted, so that branch of        *)
(* rotate() cannot be taken.                                               *)
(***************************************************************************)
EXTENDS Naturals, Sequences

CONSTANTS
  Workers,     \* bound: calls at the same time
  MaxTokens,   \* bound: tokens ever minted
  MaxFaults    \* bound: calls that stop in the middle

VARIABLES
  tokens,      \* table refresh_tokens, in the order of insertion
  calls,
  overlapped,  \* history: families on which two rotations overlapped
  faults

vars == <<tokens, calls, overlapped, faults>>

\* A family is named by its first token.
Families == 1..MaxTokens

Token == [family : Families, revoked : BOOLEAN, expired : BOOLEAN]

Idle == [phase |-> "idle"]

\* The presented token, or 0 for a new family.
Call == [phase : {"revoking", "reusing", "minting"}, token : 0..MaxTokens]

TypeOK ==
  /\ tokens \in Seq(Token) /\ Len(tokens) <= MaxTokens
  /\ calls \in [Workers -> {Idle} \cup Call]
  /\ overlapped \subseteq Families
  /\ faults \in 0..MaxFaults

Init ==
  /\ tokens = <<>>
  /\ calls = [w \in Workers |-> Idle]
  /\ overlapped = {} /\ faults = 0

\* A call is in the middle of rotating a token of the family.
Touches(w, f) ==
  /\ calls[w].phase \in {"revoking", "minting"} /\ calls[w].token # 0
  /\ tokens[calls[w].token].family = f

Dead(t) == tokens[t].revoked \/ tokens[t].expired

Enter(w, phase, t) == calls' = [calls EXCEPT ![w] = [phase |-> phase, token |-> t]]

Leave(w) == calls' = [calls EXCEPT ![w] = Idle]

\* issuePair() at the end of a login.
IssuePair(w) ==
  /\ calls[w] = Idle
  /\ Enter(w, "minting", 0)
  /\ UNCHANGED <<tokens, overlapped, faults>>

\* Variant: a dead token is rotated like a live one.
RotateFindUnchecked(w, t) ==
  /\ calls[w] = Idle
  /\ Enter(w, "revoking", t)
  /\ overlapped' = IF \E o \in Workers : Touches(o, tokens[t].family)
                     THEN overlapped \cup {tokens[t].family} ELSE overlapped
  /\ UNCHANGED <<tokens, faults>>

\* rotate() loads the presented token and decides.
RotateFind(w, t) ==
  /\ calls[w] = Idle
  /\ Enter(w, IF Dead(t) THEN "reusing" ELSE "revoking", t)
  /\ overlapped' = IF ~Dead(t) /\ \E o \in Workers : Touches(o, tokens[t].family)
                     THEN overlapped \cup {tokens[t].family} ELSE overlapped
  /\ UNCHANGED <<tokens, faults>>

\* The loaded token is saved as revoked.
RotateRevoke(w) ==
  /\ calls[w].phase = "revoking"
  /\ tokens' = [tokens EXCEPT ![calls[w].token].revoked = TRUE]
  /\ Enter(w, "minting", calls[w].token)
  /\ UNCHANGED <<overlapped, faults>>

\* Reuse: the update of the family matches no row, and the call is refused.
RevokeFamily(w) ==
  /\ calls[w].phase = "reusing"
  /\ Leave(w)
  /\ UNCHANGED <<tokens, overlapped, faults>>

\* mint() inserts the successor, or the first token of a family.
Mint(w) ==
  LET t == calls[w].token
      new == Len(tokens) + 1 IN
  /\ calls[w].phase = "minting" /\ new <= MaxTokens
  /\ tokens' = Append(tokens, [family |-> IF t = 0 THEN new ELSE tokens[t].family,
                               revoked |-> FALSE, expired |-> FALSE])
  /\ Leave(w)
  /\ UNCHANGED <<overlapped, faults>>

\* revoke(), a single update.
Logout(t) ==
  /\ ~tokens[t].revoked
  /\ tokens' = [tokens EXCEPT ![t].revoked = TRUE]
  /\ UNCHANGED <<calls, overlapped, faults>>

Expire(t) ==
  /\ ~tokens[t].expired
  /\ tokens' = [tokens EXCEPT ![t].expired = TRUE]
  /\ UNCHANGED <<calls, overlapped, faults>>

\* The database fails or the process ends.
Stop(w) ==
  /\ calls[w] # Idle /\ faults < MaxFaults
  /\ Leave(w)
  /\ faults' = faults + 1
  /\ UNCHANGED <<tokens, overlapped>>

-----------------------------------------------------------------------------
Next ==
  \/ \E w \in Workers :
       \/ IssuePair(w) \/ RotateRevoke(w) \/ RevokeFamily(w) \/ Mint(w) \/ Stop(w)
       \/ \E t \in DOMAIN tokens : RotateFind(w, t)
  \/ \E t \in DOMAIN tokens : Logout(t) \/ Expire(t)

Spec == Init /\ [][Next]_vars

(***************************************************************************)
(* Properties                                                              *)
(***************************************************************************)

Live(f) == {t \in DOMAIN tokens : tokens[t].family = f /\ ~tokens[t].revoked}

\* While the rotations of a family do not overlap, at most one of its tokens is
\* live, whatever dead tokens are presented again and wherever a call may stop
\* (security.md 1).  That reuse leaves none live, as token.service.ts:51 says, does
\* not hold: the update of the family matches no row.
OneLiveToken ==
  \A f \in Families \ overlapped : \A s, t \in Live(f) : s = t

=============================================================================
