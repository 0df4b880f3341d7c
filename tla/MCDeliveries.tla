---------------------------- MODULE MCDeliveries ----------------------------
(* A small instance of Deliveries for TLC. *)
EXTENDS Deliveries, TLC

CONSTANTS x1, w1, w2
=============================================================================
