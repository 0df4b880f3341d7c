----------------------------- MODULE MCBookings -----------------------------
(* A small instance of Bookings for TLC. *)
EXTENDS Bookings, TLC

CONSTANTS b1, r1, r2, k1

MCKeys == Ids \X Headers
Slots == Permutations({r1, r2})
=============================================================================
