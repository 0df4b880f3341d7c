------------------------------ MODULE MCRefunds -----------------------------
(* Small instances of Refunds for TLC. *)
EXTENDS Refunds, TLC

CONSTANTS r1, r2, a1, a2

Alike == Permutations({a1, a2})
=============================================================================
