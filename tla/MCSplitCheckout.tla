-------------------------- MODULE MCSplitCheckout --------------------------
(* Small instances of SplitCheckout for TLC. *)
EXTENDS SplitCheckout, TLC

CONSTANTS h1, h2, h3

Callbacks == Permutations({h1, h2, h3})
=============================================================================
