SPECIFICATION LedgerSpec
CONSTANTS
    v1 = v1
    p1 = p1
    p2 = p2
    k1 = k1
    f1 = f1
    w1 = w1
    w2 = w2
    Payments = {p1, p2}
    Payouts = {k1}
    Refunds = {f1}
    Owner <- MCOwner
    PaymentOf <- MCPaymentOf
    AmountOf <- MCAmount
    Currency <- MCCurrency
    Wallets <- MCWallets
    Workers = {w1, w2}
    MaxTasks = 3
    MaxLosses = 1
SYMMETRY Alike
INVARIANTS
    CreditedTwiceOnlyIfAgain
    WalletIsStatement
    WithdrawableIsCovered
    StatementsTie
CHECK_DEADLOCK FALSE
