---------------------------- MODULE MCIdentities ----------------------------
(* A small instance of Identities for TLC. *)
EXTENDS Identities, TLC

CONSTANTS u1, u2, p1, p2, r1, r2, d1

Alike == Permutations({u1, u2}) \cup Permutations({p1, p2}) \cup Permutations({r1, r2})
=============================================================================
