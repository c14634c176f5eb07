SPECIFICATION EscrowSpec
CONSTANTS
    Agents = {"a1"}
    Providers = {"p1"}
    SessionIds = {1}
    Authorities = {"g1"}
    NoAuthority = "none"
    Strangers = {"x1"}
    Deposits = {2, 3, 4}
    Expiries = {1, 2, 3}
    Signable <- MCSignableOne
    Roots = {0}
    Funds = 5
    MaxSessionDuration = 3
    ClockSkew = 1
    MaxI64 = 9
    MaxTime = 5
INVARIANTS
    HigherClaimStillPayable
CHECK_DEADLOCK FALSE
