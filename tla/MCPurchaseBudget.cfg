SPECIFICATION Spec
CONSTANTS
    Rows = {"s1", "s2"}
    AgentKeys = {"a1"}
    Amounts = {2}
    Expiries = {1}
    Claims <- MCTwoSessions
    Times = {1}
    Skew = 1
    MaxI64 = 5
    Resources = {"r1"}
    Prices = {1}
    Policies <- MCBudget
    DirectClaims = {}
    RequirePolicy = TRUE
    Workers = {w1, w2}
    MaxApprovals = 0
    MaxLog = 2
INVARIANT SpentWithinBudget
CHECK_DEADLOCK FALSE
