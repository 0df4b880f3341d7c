----------------------------- MODULE MCPayments -----------------------------
(* Small instances of Payments for TLC. *)
EXTENDS Payments, TLC

CONSTANTS b1, p1, p2, x1, c1, c2, h1, h2, g1, d1

OneBooking == p1 :> b1 @@ p2 :> b1
OnePayment == p1 :> b1

Twins == Permutations({p1, p2}) \cup Permutations({c1, c2})
             \cup Permutations({h1, h2})
=============================================================================
