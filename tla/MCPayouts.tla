------------------------------ MODULE MCPayouts -----------------------------
(* Small instances of Payouts for TLC.  The workers d1 and d2 may each      *)
(* serve a request of any kind that dispatches a payout.                    *)
EXTENDS Payouts, TLC

CONSTANTS b1, b2, k1, k2, d1, d2, h1

Alike == Permutations({b1, b2}) \cup Permutations({d1, d2})
=============================================================================
