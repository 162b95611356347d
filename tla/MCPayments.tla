----------------------------- MODULE MCPayments -----------------------------
(***************************************************************************)
(* Instances of Payments for TLC: handlers that overlap, over one ride, or *)
(* handlers that are taken one at a time, over two.                        *)
(***************************************************************************)
EXTENDS SerialPayments, TLC

CONSTANTS r1, r2, p1, p2, p3, w1, w2

MCNext == SerialNext /\ (~serial => payable' \subseteq {r1})

MCSpec == SerialInit /\ [][MCNext]_<<vars, serial>>

Symmetry == {p @@ q : p \in Permutations(Workers), q \in Permutations(PaymentIds)}

=============================================================================
