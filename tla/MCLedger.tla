------------------------------ MODULE MCLedger ------------------------------
(* Small instances of Ledger for TLC. *)
EXTENDS Ledger, TLC

CONSTANTS v1, p1, p2, k1, f1, w1, w2

\* One provider with a payment in each of two currencies, a payout and a refund.
MCOwner == (p1 :> v1) @@ (p2 :> v1) @@ (k1 :> v1)
MCPaymentOf == f1 :> p1
MCAmount == (p1 :> 30) @@ (p2 :> 30) @@ (k1 :> 10) @@ (f1 :> 10)
MCCurrency == (p1 :> "KES") @@ (p2 :> "USD") @@ (k1 :> "KES") @@ (f1 :> "KES")
MCWallets == {<<v1, "KES">>}

Alike == Permutations({w1, w2})
=============================================================================
