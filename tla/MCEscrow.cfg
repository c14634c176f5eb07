SPECIFICATION EscrowFairSpec
CONSTANTS
    Agents = {"a1"}
    Providers = {"p1", "p2"}
    SessionIds = {1}
    Authorities = {"g1"}
    NoAuthority = "none"
    Strangers = {"x1"}
    Deposits = {0, 2, 3}
    Expiries = {1, 2}
    Signable <- MCSignable
    Roots = {0}
    Funds = 5
    MaxSessionDuration = 2
    ClockSkew = 1
    MaxI64 = 9
    MaxTime = 4
INVARIANTS
    EscrowTypeOK
    VaultMatchesBooks
    PaidOnlyWhatTheAgentSigned
    ReceiptMatchesSession
    UnsettledDepositIsWhole
PROPERTIES
    RefundIsFinal
    FlowsStayInTheSession
    PromiseKept
    EscrowIsRecovered
CHECK_DEADLOCK FALSE
