SPECIFICATION MCSpec
CONSTANTS
    Operators = {"o1", "o2", "o3"}
    Tokens = {t1, t2, t3}
    Scopes <- MCScopes
    Workspaces = {"ws1", "ws2"}
    NoWorkspace = "null"
    Agents = {"a1"}
    Wallets = {"k1"}
    Envelopes = {"e1"}
    Approvals = {"p1"}
    Providers = {"default", "x"}
    Listings = {"u1", "u2"}
    Upstreams = {{}, {"u1"}}
    Handlers = {h1, h2}
SYMMETRY MCSymmetry
INVARIANTS
    DecisionNamesItsHolder
    RegistryShowsNewest
PROPERTIES
    DecisionIsFinal
    TenantsApart
    AutonomyIsNamed
