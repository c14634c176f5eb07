SPECIFICATION TxFairSpec
CONSTANTS
    Rows = {"s1"}
    AgentKeys = {"a1"}
    Amounts = {2}
    Expiries = {3}
    Claims <- MCClaims
    Times = {0}
    Skew = 1
    MaxI64 = 6
    Requests = {"q1", "q2", "q3"}
    Nobody = "nobody"
INVARIANTS
    NoDoubleAdmission
    AcceptedIsDurable
PROPERTIES
    Serialisable
    EveryRequestIsAnswered
CHECK_DEADLOCK FALSE
