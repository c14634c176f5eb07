SPECIFICATION Spec
CONSTANTS
    Agents = {"a1"}
    Providers = {"p1"}
    SessionIds = {1}
    Authorities = {"g1"}
    NoAuthority = "none"
    Strangers = {"x1"}
    Deposits = {1, 2}
    Expiries = {1}
    Signable <- MCSignable
    Roots <- MCRoots
    Funds = 2
    MaxSessionDuration = 2
    ClockSkew = 1
    MaxI64 = 6
    MaxTime = 3
    GatewayKey = "g1"
    ForeignRoot <- MCForeignRoot
    Modes = {TRUE, FALSE}
    Workers = {w1, w2}
    NoWorker = none
    Lag = 1
    MaxLog = 2
SYMMETRY MCSymmetry
CONSTRAINT MCBound
INVARIANTS
    VerifiedRowsAreBacked
    AcceptedIsEscrowed
    AcceptedClaimIsSigned
    MarkedOnlyAfterChain
    SettledClaimIsInLog
