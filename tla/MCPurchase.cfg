SPECIFICATION Spec
CONSTANTS
    Rows = {"s1"}
    AgentKeys = {"a1"}
    Amounts = {2}
    Expiries = {1}
    Claims <- MCClaims
    Times = {1}
    Skew = 1
    MaxI64 = 5
    Resources = {"r1"}
    Prices = {1, 2}
    Policies <- MCPolicies
    DirectClaims <- MCDirectClaims
    RequirePolicy = TRUE
    Workers = {w1, w2}
    MaxApprovals = 2
    MaxLog = 2
SYMMETRY MCSymmetry
INVARIANTS
    GoodsFollowAcceptance
    ChargedAtMostTheQuote
    ApprovalSpentOnce
    QueueIsNotFlooded
CHECK_DEADLOCK FALSE
