-------------------------- MODULE FirstAcceptWins --------------------------
(***************************************************************************)
(* What matching promises (docs/specs.md 5.4): of the drivers a match has  *)
(* been offered to, the first to be accepted wins it, and nobody else ever *)
(* does.  How offers expand, time out, race or are lost does not matter    *)
(* here; Dispatch implements this specification.                           *)
(***************************************************************************)
CONSTANTS MatchIds, Drivers, NoOne

VARIABLES offered, winner

AbstractTypeOK ==
  /\ offered \in [MatchIds -> SUBSET Drivers]
  /\ winner \in [MatchIds -> Drivers \cup {NoOne}]

AbstractInit ==
  /\ offered = [m \in MatchIds |-> {}]
  /\ winner = [m \in MatchIds |-> NoOne]

\* A round reaches more drivers, and only while the match is undecided.
Offer(m) ==
  /\ winner[m] = NoOne
  /\ \E more \in SUBSET Drivers :
       offered' = [offered EXCEPT ![m] = @ \cup more]
  /\ UNCHANGED winner

Win(m, d) ==
  /\ winner[m] = NoOne
  /\ d \in offered[m]
  /\ winner' = [winner EXCEPT ![m] = d]
  /\ UNCHANGED offered

AbstractNext == \E m \in MatchIds : Offer(m) \/ \E d \in Drivers : Win(m, d)

AbstractSpec == AbstractInit /\ [][AbstractNext]_<<offered, winner>>

=============================================================================
