SPECIFICATION Spec
CONSTANTS
    u1 = u1
    u2 = u2
    p1 = p1
    p2 = p2
    r1 = r1
    r2 = r2
    d1 = d1
    Users = {u1, u2}
    Phones = {p1, p2}
    Devices = {d1}
    Requests = {r1, r2}
    NoUser = NoUser
    Limit = 1
    PerIssue = 2
    MaxCalls = 5
    MaxFaults = 1
SYMMETRY Alike
INVARIANTS
    SecretsWorkOnce
    VerifiedByHolder
    ShownCodesWork
    TrustHolds
CHECK_DEADLOCK FALSE
