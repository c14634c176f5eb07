SPECIFICATION Spec
CONSTANTS
    Agents = {"a1"}
    Providers = {"p1"}
    SessionIds = {1}
    Authorities = {"g1"}
    NoAuthority = "none"
    Strangers = {"x1"}
    Deposits = {2}
    Expiries = {1}
    Signable <- MCSignablePair
    Roots <- MCRoots
    Funds = 2
    MaxSessionDuration = 2
    ClockSkew = 1
    MaxI64 = 6
    MaxTime = 1
    GatewayKey = "g1"
    ForeignRoot <- MCForeignRoot
    Modes = {FALSE}
    Workers = {"w1"}
    NoWorker = "none"
    Lag = 0
    MaxLog = 2
INVARIANTS
    SettledMeansPaidInFull
CHECK_DEADLOCK FALSE
