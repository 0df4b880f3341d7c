---------------------------- MODULE Collections ----------------------------
(***************************************************************************)
(* What the payment side of Felix Travel promises to its books, with no    *)
(* word of requests, webhooks or KV keys: money is collected first, and    *)
(* only collected money is recorded in the ledger or clears a booking.     *)
(* Payments implements this specification (Payments!CollectionsSpec).      *)
(***************************************************************************)
EXTENDS Naturals

CONSTANTS
    Bookings,
    Payments,
    BookingOf       \* the booking each payment row pays for

VARIABLES
    collected,      \* payments whose money the payment provider holds
    recorded,       \* how often each payment was credited in the ledger
    cleared         \* bookings that count as paid for

vars == <<collected, recorded, cleared>>

Init ==
    /\ collected = {}
    /\ recorded = [p \in Payments |-> 0]
    /\ cleared = {}

Collect(p) ==
    /\ collected' = collected \cup {p}
    /\ UNCHANGED <<recorded, cleared>>

Record(p) ==
    /\ p \in collected
    /\ recorded' = [recorded EXCEPT ![p] = @ + 1]
    /\ UNCHANGED <<collected, cleared>>

Clear(b) ==
    /\ \E p \in collected : BookingOf[p] = b
    /\ cleared' = cleared \cup {b}
    /\ UNCHANGED <<collected, recorded>>

Withdraw(b) ==
    /\ cleared' = cleared \ {b}
    /\ UNCHANGED <<collected, recorded>>

Next ==
    \/ \E p \in Payments : Collect(p) \/ Record(p)
    \/ \E b \in Bookings : Clear(b) \/ Withdraw(b)

Spec == Init /\ [][Next]_vars
=============================================================================
