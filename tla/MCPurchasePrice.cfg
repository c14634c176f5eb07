SPECIFICATION Spec
CONSTANTS
    Rows = {"s1"}
    AgentKeys = {"a1"}
    Amounts = {2}
    Expiries = {1}
    Claims <- MCClaims
    Times = {1}
    Skew = 1
    MaxI64 = 5
    Resources = {"r1"}
    Prices = {1, 2}
    Policies <- MCPolicies
    DirectClaims = {}
    RequirePolicy = FALSE
    Workers = {w1, w2}
    MaxApprovals = 2
    MaxLog = 2
INVARIANT ChargedTheAskingPrice
CHECK_DEADLOCK FALSE
