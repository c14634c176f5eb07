SPECIFICATION MCSpec
CONSTANTS
    Rows = {"s1", "s2"}
    AgentKeys = {"a1"}
    Amounts = {0, 1, 2, 7}
    Expiries = {2, 6}
    Claims <- MCClaims
    Times = {0, 3, 4, 6}
    Skew = 1
    MaxI64 = 6
    Resources = {"r1", "r2"}
    Prices = {1, 2}
    Policies <- MCPolicies
    Providers = {"p1", "p2"}
    Demands = {0, 2}
    MaxLog = 3
    MaxOptions = 2
INVARIANTS
    AllowedEntriesClimb
    MarkIsLastAllowed
    PlanningClaimAddsNothing
    PlanIsKept
    RecommendationAffordsMost
PROPERTIES
    SettledLogFrozen
CHECK_DEADLOCK FALSE
