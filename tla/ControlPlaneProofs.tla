------------------------- MODULE ControlPlaneProofs -------------------------
(***************************************************************************)
(* Proofs about ControlPlane, for any operators, tenants, agents, approvals*)
(* and providers, and any number of requests under way.                    *)
(***************************************************************************)
EXTENDS ControlPlane, TLAPS

RequestRecords ==
    [at : {"handler", "set_policy", "registry"},
     who : Operators \cup {Shared}, workspace : Tenants,
     token : Tokens \cup {AdminToken}, order : Orders,
     read : Modes \cup {"none"}]

\* A request that has passed its first stage is for a route that has a second,
\* and an authorization has read a mode.
StageFitsRoute ==
    \A h \in Handlers :
        /\ req[h].at = "set_policy" =>
               Order(h).route = "authorize" /\ req[h].read \in Modes
        /\ req[h].at = "registry" => Order(h).route \in {"register", "delete"}

\* The types of all variables.
Types ==
    /\ operators \in [Operators -> {None} \cup OperatorRows]
    /\ agents \in [Agents -> {None} \cup AgentRows]
    /\ approvals \in [Approvals -> {None} \cup ApprovalRows]
    /\ providers \in [Providers -> {None} \cup ProviderRows]
    /\ registry \in [Providers -> {None} \cup RegistryRows]
    /\ req \in [Handlers -> {Idle} \cup RequestRecords]
    /\ keeper \in [Tokens -> Operators \cup {"nobody"}]
    /\ newest \in [Providers -> Handlers \cup {"shown", "hidden"}]
    /\ StageFitsRoute

-----------------------------------------------------------------------------
(***************************************************************************)
(* What records hold.                                                      *)
(***************************************************************************)

\* The fields of an order are those of its route.
LEMMA OrderFields ==
    ASSUME NEW x \in Orders
    PROVE  /\ x.route = "set_operator_status" =>
                  x.operator \in Operators /\ x.enabled \in BOOLEAN
           /\ x.route = "create_agent" =>
                  x.wallet \in Wallets /\ x.mode \in Optional(Modes)
           /\ x.route = "authorize" =>
                  x \in [route : {"authorize"}, agent : Agents,
                         mode : Optional(Modes), envelope : Envelopes]
           /\ x.route = "set_agent_status" =>
                  x.agent \in Agents /\ x.status \in Statuses
           /\ x.route = "decide" =>
                  x.approval \in Approvals /\ x.verdict \in {"approved", "rejected"}
           /\ x.route = "register" =>
                  x.provider \in Providers /\ x.listing \in Listings
           /\ x.route = "delete" => x.provider \in Providers
  BY DEF Orders

\* A request that is not idle is a request record.
LEMMA ReqFields ==
    ASSUME Types, NEW h \in Handlers, req[h] # Idle
    PROVE  /\ req[h] \in RequestRecords
           /\ req[h].at \in {"handler", "set_policy", "registry"}
           /\ req[h].who \in Operators \cup {Shared}
           /\ req[h].workspace \in Tenants
           /\ req[h].token \in Tokens \cup {AdminToken}
           /\ Order(h) \in Orders
  BY DEF Types, RequestRecords, Order

\* Whoever is past a stage is not idle.
LEMMA Busy ==
    ASSUME NEW h \in Handlers, req[h].at # "idle"
    PROVE  req[h] # Idle
  BY DEF Idle

\* A row that exists is a row.
LEMMA RowFields ==
    ASSUME Types
    PROVE  /\ \A o \in Operators : operators[o].exists =>
                  /\ operators[o] \in OperatorRows
                  /\ operators[o].token \in Tokens
                  /\ operators[o].workspace \in Tenants
           /\ \A a \in Agents : agents[a].exists =>
                  /\ agents[a] \in AgentRows
                  /\ agents[a].mode \in Modes
                  /\ agents[a].workspace \in Tenants
           /\ \A p \in Approvals : approvals[p].exists =>
                  approvals[p] \in ApprovalRows
           /\ \A p \in Providers : providers[p].exists =>
                  providers[p] \in ProviderRows
  <1>0. None.exists = FALSE
    BY DEF None
  <1>1. \A o \in Operators : operators[o].exists => operators[o] \in OperatorRows
    BY <1>0 DEF Types
  <1>2. \A a \in Agents : agents[a].exists => agents[a] \in AgentRows
    BY <1>0 DEF Types
  <1>3. \A p \in Approvals : approvals[p].exists => approvals[p] \in ApprovalRows
    BY <1>0 DEF Types
  <1>4. \A p \in Providers : providers[p].exists => providers[p] \in ProviderRows
    BY <1>0 DEF Types
  <1>5. \A x \in OperatorRows : x.token \in Tokens /\ x.workspace \in Tenants
    BY DEF OperatorRows
  <1>6. \A x \in AgentRows : x.mode \in Modes /\ x.workspace \in Tenants
    BY DEF AgentRows
  <1> QED
    BY <1>1, <1>2, <1>3, <1>4, <1>5, <1>6

-----------------------------------------------------------------------------
(***************************************************************************)
(* Which actions change which variables.                                   *)
(***************************************************************************)

\* Only three routes write the operators, or mint a token.
LEMMA OperatorSteps ==
    ASSUME [Next]_vars
    PROVE  \/ operators' = operators /\ keeper' = keeper
           \/ \E h \in Handlers :
                  CreateOperator(h) \/ RotateOwnToken(h) \/ SetOperatorStatus(h)
  BY DEF Next, vars, tables, history, RequireAdmin, CreateAgent, AuthorizeRead,
         SetPolicy, SetAgentStatus, DecideApproval, RegisterProvider,
         DeleteProvider, ToRegistry, UpdateRegistry, Abandon, ConsumeApproval,
         RaiseApproval, Restart

\* Only three routes write the agents.
LEMMA AgentSteps ==
    ASSUME [Next]_vars
    PROVE  \/ agents' = agents
           \/ \E h \in Handlers :
                  CreateAgent(h) \/ SetPolicy(h) \/ SetAgentStatus(h)
  BY DEF Next, vars, tables, RequireAdmin, CreateOperator, RotateOwnToken,
         SetOperatorStatus, AuthorizeRead, DecideApproval, RegisterProvider,
         DeleteProvider, ToRegistry, UpdateRegistry, Abandon, ConsumeApproval,
         RaiseApproval, Restart

\* Approvals are raised, decided and consumed.
LEMMA ApprovalSteps ==
    ASSUME [Next]_vars
    PROVE  \/ approvals' = approvals
           \/ \E h \in Handlers : DecideApproval(h)
           \/ \E p \in Approvals :
                  ConsumeApproval(p) \/ \E a \in Agents : RaiseApproval(p, a)
  BY DEF Next, vars, tables, history, RequireAdmin, CreateOperator,
         RotateOwnToken, SetOperatorStatus, CreateAgent, AuthorizeRead,
         SetPolicy, SetAgentStatus, RegisterProvider, DeleteProvider,
         ToRegistry, UpdateRegistry, Abandon, Restart

\* Providers and registry are written by the provider routes and at boot.
LEMMA ProviderSteps ==
    ASSUME [Next]_vars
    PROVE  \/ providers' = providers /\ registry' = registry /\ newest' = newest
           \/ \E h \in Handlers :
                  \/ RegisterProvider(h) \/ DeleteProvider(h)
                  \/ UpdateRegistry(h) \/ Abandon(h)
           \/ Restart
  BY DEF Next, vars, tables, history, RequireAdmin, CreateOperator,
         RotateOwnToken, SetOperatorStatus, CreateAgent, AuthorizeRead,
         SetPolicy, SetAgentStatus, DecideApproval, ConsumeApproval,
         RaiseApproval

\* A request is authenticated, goes on to its second stage, or ends.
LEMMA RequestSteps ==
    ASSUME [Next]_vars
    PROVE  \/ req' = req
           \/ req' = [h \in Handlers |-> Idle]
           \/ \E h \in Handlers :
                  \/ \E t \in Tokens \cup {AdminToken}, order \in Orders :
                         RequireAdmin(h, t, order)
                  \/ AuthorizeRead(h)
                  \/ RegisterProvider(h) \/ DeleteProvider(h)
                  \/ End(h) /\ req[h].at # "idle"
  BY DEF Next, vars, CreateOperator, RotateOwnToken, SetOperatorStatus,
         CreateAgent, SetPolicy, SetAgentStatus, DecideApproval, UpdateRegistry,
         Abandon, ConsumeApproval, RaiseApproval, Restart, In

-----------------------------------------------------------------------------
(***************************************************************************)
(* The types are kept.                                                     *)
(***************************************************************************)

\* Operators and the keepers of tokens.
LEMMA OperatorTypes ==
    ASSUME Types, [Next]_vars
    PROVE  /\ operators' \in [Operators -> {None} \cup OperatorRows]
           /\ keeper' \in [Tokens -> Operators \cup {"nobody"}]
  <1>1. CASE operators' = operators /\ keeper' = keeper
    BY <1>1 DEF Types
  <1>2. ASSUME NEW h \in Handlers, CreateOperator(h)
        PROVE  /\ operators' \in [Operators -> {None} \cup OperatorRows]
               /\ keeper' \in [Tokens -> Operators \cup {"nobody"}]
    <2>1. PICK o \in Operators, t \in Tokens :
              /\ operators' = [operators EXCEPT ![o] =
                     [exists |-> TRUE, token |-> t, workspace |-> NoWorkspace,
                      enabled |-> TRUE]]
              /\ keeper' = [keeper EXCEPT ![t] = o]
      BY <1>2 DEF CreateOperator
    <2>2. [exists |-> TRUE, token |-> t, workspace |-> NoWorkspace,
           enabled |-> TRUE] \in OperatorRows
      BY DEF OperatorRows, Tenants
    <2> QED
      BY <2>1, <2>2 DEF Types
  <1>3. ASSUME NEW h \in Handlers, RotateOwnToken(h)
        PROVE  /\ operators' \in [Operators -> {None} \cup OperatorRows]
               /\ keeper' \in [Tokens -> Operators \cup {"nobody"}]
    <2>1. CASE operators' = operators /\ keeper' = keeper
      BY <2>1 DEF Types
    <2>2. ASSUME NEW o \in Rotatable(h), NEW t \in Tokens,
                 operators' = [operators EXCEPT ![o].token = t],
                 keeper' = [keeper EXCEPT ![t] = req[h].who]
          PROVE  /\ operators' \in [Operators -> {None} \cup OperatorRows]
                 /\ keeper' \in [Tokens -> Operators \cup {"nobody"}]
      <3>1. o \in Operators /\ operators[o].exists /\ req[h].who = o
        BY DEF Rotatable
      <3> DEFINE r == [operators[o] EXCEPT !.token = t]
      <3>2. operators' = [operators EXCEPT ![o] = r]
        BY <2>2, <3>1 DEF Types
      <3>3. r \in OperatorRows
        BY <3>1, RowFields DEF OperatorRows
      <3> HIDE DEF r
      <3> QED
        BY <2>2, <3>1, <3>2, <3>3 DEF Types
    <2> QED
      BY <1>3, <2>1, <2>2 DEF RotateOwnToken
  <1>4. ASSUME NEW h \in Handlers, SetOperatorStatus(h)
        PROVE  /\ operators' \in [Operators -> {None} \cup OperatorRows]
               /\ keeper' \in [Tokens -> Operators \cup {"nobody"}]
    <2>1. keeper' = keeper
      BY <1>4 DEF SetOperatorStatus, history
    <2>2. /\ Order(h) \in Orders /\ Order(h).route = "set_operator_status"
      BY <1>4, Busy, ReqFields DEF SetOperatorStatus, In, Order
    <2> DEFINE o == Order(h).operator
    <2>3. o \in Operators /\ Order(h).enabled \in BOOLEAN
      BY <2>2, OrderFields
    <2>4. CASE operators[o].exists
      <3> DEFINE r == [operators[o] EXCEPT !.enabled = Order(h).enabled]
      <3>1. operators' = [operators EXCEPT ![o] = r]
        BY <1>4, <2>3, <2>4 DEF SetOperatorStatus, Types
      <3>2. r \in OperatorRows
        <4>1. operators[o] \in OperatorRows
          BY <2>3, <2>4, RowFields
        <4> HIDE DEF o
        <4> QED
          BY <4>1, <2>3 DEF OperatorRows
      <3> HIDE DEF r, o
      <3> QED
        BY <2>1, <2>3, <3>1, <3>2 DEF Types
    <2>5. CASE ~ operators[o].exists
      BY <1>4, <2>1, <2>5 DEF SetOperatorStatus, Types
    <2> QED
      BY <2>4, <2>5
  <1> QED
    BY <1>1, <1>2, <1>3, <1>4, OperatorSteps

\* Agents.
LEMMA AgentTypes ==
    ASSUME Types, [Next]_vars
    PROVE  agents' \in [Agents -> {None} \cup AgentRows]
  <1>1. CASE agents' = agents
    BY <1>1 DEF Types
  <1>2. ASSUME NEW h \in Handlers, CreateAgent(h)
        PROVE  agents' \in [Agents -> {None} \cup AgentRows]
    <2>1. /\ Order(h).wallet \in Wallets /\ Order(h).mode \in Optional(Modes)
          /\ req[h].workspace \in Tenants
      BY <1>2, Busy, ReqFields, OrderFields DEF CreateAgent, In, Order
    <2>2. CASE agents' = agents
      BY <2>2 DEF Types
    <2> DEFINE r == [exists |-> TRUE, wallet |-> Order(h).wallet,
                     workspace |-> req[h].workspace,
                     mode |-> ModeAsked(Order(h).mode),
                     status |-> "active", policy |-> {}]
    <2>3. ASSUME NEW a \in Agents, agents' = [agents EXCEPT ![a] = r]
          PROVE  agents' \in [Agents -> {None} \cup AgentRows]
      <3>1. ModeAsked(Order(h).mode) \in Modes
        BY <2>1 DEF ModeAsked, Optional, Modes
      <3>2. r \in AgentRows
        BY <2>1, <3>1 DEF AgentRows, Statuses, Optional
      <3> HIDE DEF r
      <3> QED
        BY <2>3, <3>2 DEF Types
    <2> QED
      BY <1>2, <2>2, <2>3 DEF CreateAgent
  <1>3. ASSUME NEW h \in Handlers, SetPolicy(h)
        PROVE  agents' \in [Agents -> {None} \cup AgentRows]
    <2>1. Order(h) \in Orders /\ Order(h).route = "authorize" /\ req[h].read \in Modes
      BY <1>3, Busy, ReqFields DEF SetPolicy, Types, StageFitsRoute
    <2>2. /\ Order(h).agent \in Agents /\ Order(h).mode \in Optional(Modes)
          /\ Order(h).envelope \in Envelopes
      BY <2>1, OrderFields
    <2> DEFINE a == Order(h).agent
               m == ModeToWrite(h)
    <2>3. m \in Modes
      BY <2>1, <2>2 DEF ModeToWrite, Optional
    <2>4. CASE Found(h, a)
      <3> DEFINE r == [agents[a] EXCEPT !.mode = m, !.policy = {Order(h).envelope}]
      <3>0. agents' = [agents EXCEPT ![a].mode = m, ![a].policy = {Order(h).envelope}]
        BY <1>3, <2>4 DEF SetPolicy
      <3> HIDE DEF m
      <3>1. agents' = [agents EXCEPT ![a] = r]
        BY <2>2, <3>0 DEF Types
      <3>2. agents[a] \in AgentRows
        BY <2>2, <2>4, RowFields DEF Found
      <3>3. r \in AgentRows
        BY <2>2, <2>3, <3>2 DEF AgentRows, Optional
      <3> HIDE DEF r, a
      <3> QED
        BY <2>2, <3>1, <3>3 DEF Types, a
    <2>5. CASE ~ Found(h, a)
      BY <1>3, <2>5 DEF SetPolicy, Types
    <2> QED
      BY <2>4, <2>5
  <1>4. ASSUME NEW h \in Handlers, SetAgentStatus(h)
        PROVE  agents' \in [Agents -> {None} \cup AgentRows]
    <2>1. /\ Order(h).agent \in Agents /\ Order(h).status \in Statuses
      BY <1>4, Busy, ReqFields, OrderFields DEF SetAgentStatus, In, Order
    <2> DEFINE a == Order(h).agent
    <2>2. CASE Found(h, a)
      <3> DEFINE r == [agents[a] EXCEPT !.status = Order(h).status]
      <3>1. agents' = [agents EXCEPT ![a] = r]
        BY <1>4, <2>1, <2>2 DEF SetAgentStatus, Types
      <3>2. agents[a] \in AgentRows
        BY <2>1, <2>2, RowFields DEF Found
      <3>3. r \in AgentRows
        BY <2>1, <3>2 DEF AgentRows
      <3> HIDE DEF r, a
      <3> QED
        BY <2>1, <3>1, <3>3 DEF Types, a
    <2>3. CASE ~ Found(h, a)
      BY <1>4, <2>3 DEF SetAgentStatus, Types
    <2> QED
      BY <2>2, <2>3
  <1> QED
    BY <1>1, <1>2, <1>3, <1>4, AgentSteps

\* Approvals.
LEMMA ApprovalTypes ==
    ASSUME Types, [Next]_vars
    PROVE  approvals' \in [Approvals -> {None} \cup ApprovalRows]
  <1>1. CASE approvals' = approvals
    BY <1>1 DEF Types
  <1>2. ASSUME NEW h \in Handlers, DecideApproval(h)
        PROVE  approvals' \in [Approvals -> {None} \cup ApprovalRows]
    <2>1. /\ Order(h).approval \in Approvals
          /\ Order(h).verdict \in {"approved", "rejected"}
          /\ req[h].who \in Operators \cup {Shared}
          /\ req[h].token \in Tokens \cup {AdminToken}
      BY <1>2, Busy, ReqFields, OrderFields DEF DecideApproval, In, Order
    <2> DEFINE p == Order(h).approval
    <2>2. CASE Decidable(p)
      <3> DEFINE r == [approvals[p] EXCEPT !.state = Order(h).verdict,
                              !.by = req[h].who, !.with = req[h].token]
      <3>1. approvals' = [approvals EXCEPT ![p] = r]
        BY <1>2, <2>1, <2>2 DEF DecideApproval, Types
      <3>2. approvals[p] \in ApprovalRows
        BY <2>1, <2>2, RowFields DEF Decidable
      <3>3. r \in ApprovalRows
        BY <2>1, <3>2 DEF ApprovalRows, ApprovalStates
      <3> HIDE DEF r, p
      <3> QED
        BY <2>1, <3>1, <3>3 DEF Types, p
    <2>3. CASE ~ Decidable(p)
      BY <1>2, <2>3 DEF DecideApproval, Types
    <2> QED
      BY <2>2, <2>3
  <1>3. ASSUME NEW p \in Approvals, ConsumeApproval(p)
        PROVE  approvals' \in [Approvals -> {None} \cup ApprovalRows]
    <2> DEFINE r == [approvals[p] EXCEPT !.state = "consumed"]
    <2>1. approvals' = [approvals EXCEPT ![p] = r]
      BY <1>3 DEF ConsumeApproval, Types
    <2>2. approvals[p] \in ApprovalRows
      BY <1>3, RowFields DEF ConsumeApproval
    <2>3. r \in ApprovalRows
      BY <2>2 DEF ApprovalRows, ApprovalStates
    <2> HIDE DEF r
    <2> QED
      BY <2>1, <2>3 DEF Types
  <1>4. ASSUME NEW p \in Approvals, NEW a \in Agents, RaiseApproval(p, a)
        PROVE  approvals' \in [Approvals -> {None} \cup ApprovalRows]
    <2> DEFINE r == [exists |-> TRUE, agent |-> a, state |-> "pending",
                     by |-> "nobody", with |-> "none"]
    <2>1. approvals' = [approvals EXCEPT ![p] = r]
      BY <1>4 DEF RaiseApproval
    <2>2. r \in ApprovalRows
      BY DEF ApprovalRows, ApprovalStates
    <2> HIDE DEF r
    <2> QED
      BY <2>1, <2>2 DEF Types
  <1> QED
    BY <1>1, <1>2, <1>3, <1>4, ApprovalSteps

\* A registration is a row of the table.
LEMMA RegisteredType ==
    ASSUME NEW x \in Listings, NEW w \in Tenants
    PROVE  /\ Registered(x, w) \in ProviderRows
           /\ Registered(x, w).exists = TRUE
           /\ Registered(x, w).listing = x /\ Registered(x, w).workspace = w
           /\ [exists |-> TRUE, listing |-> x] \in RegistryRows
           /\ Public(Registered(x, w)) = [exists |-> TRUE, listing |-> x]
  BY DEF Registered, ProviderRows, RegistryRows, Public

\* The registry entry of any row of the table.
LEMMA PublicType ==
    ASSUME NEW x \in {None} \cup ProviderRows
    PROVE  Public(x) \in {None} \cup RegistryRows
  <1>1. CASE x = None
    BY <1>1 DEF Public, None
  <1>2. CASE x \in ProviderRows
    BY <1>2 DEF Public, ProviderRows, RegistryRows
  <1> QED
    BY <1>1, <1>2

\* A table that could not be read counts as empty.
LEMMA EmptyTableType ==
    /\ EmptyTable \in [Providers -> {None} \cup ProviderRows]
    /\ \A p \in Providers : EmptyTable[p] = None
  BY DEF EmptyTable

\* Entering the configured upstream, if there is one, changes at most the default
\* provider, and only one that belongs to no tenant.
LEMMA UpstreamEntered ==
    ASSUME NEW table \in [Providers -> {None} \cup ProviderRows],
           NEW url \in Upstreams
    PROVE  /\ WithUpstream(table, url) \in [Providers -> {None} \cup ProviderRows]
           /\ \A p \in Providers : p # Default => WithUpstream(table, url)[p] = table[p]
           /\ url = {} \/ Foreign(table[Default]) => WithUpstream(table, url) = table
           /\ url # {} /\ ~ Foreign(table[Default]) =>
                  /\ WithUpstream(table, url)[Default]
                         = Registered(CHOOSE u \in url : TRUE, NoWorkspace)
                  /\ ~ table[Default].exists \/ table[Default].workspace = NoWorkspace
  <1>1. url # {} => (CHOOSE u \in url : TRUE) \in Listings
    BY ControlAssumption DEF Optional
  <1>2. url # {} => Registered(CHOOSE u \in url : TRUE, NoWorkspace) \in ProviderRows
    BY <1>1, RegisteredType DEF Tenants
  <1>3. Default \in Providers
    BY ControlAssumption
  <1> QED
    BY <1>2, <1>3 DEF WithUpstream, Foreign

\* The registry of a gateway that has booted.
LEMMA LoadedType ==
    ASSUME NEW table \in [Providers -> {None} \cup ProviderRows],
           NEW url \in Upstreams
    PROVE  /\ Loaded(table, url) \in [Providers -> {None} \cup RegistryRows]
           /\ \A p \in Providers :
                  p # Default \/ url = {} => Loaded(table, url)[p] = Public(table[p])
           /\ url # {} => Loaded(table, url)[Default]
                              = Public(Registered(CHOOSE u \in url : TRUE, NoWorkspace))
  <1>1. url # {} => (CHOOSE u \in url : TRUE) \in Listings
    BY ControlAssumption DEF Optional
  <1> DEFINE u == CHOOSE u \in url : TRUE
  <1>2. url # {} => /\ [exists |-> TRUE, listing |-> u] \in RegistryRows
                    /\ Public(Registered(u, NoWorkspace))
                           = [exists |-> TRUE, listing |-> u]
    BY <1>1, RegisteredType DEF Tenants
  <1>3. \A p \in Providers : Public(table[p]) \in {None} \cup RegistryRows
    BY PublicType
  <1>4. Default \in Providers
    BY ControlAssumption
  <1>5. Loaded(table, url) = [p \in Providers |->
            IF p = Default /\ url # {} THEN [exists |-> TRUE, listing |-> u]
            ELSE Public(table[p])]
    BY DEF Loaded
  <1> HIDE DEF u
  <1>6. /\ Loaded(table, url) \in [Providers -> {None} \cup RegistryRows]
        /\ \A p \in Providers :
               p # Default \/ url = {} => Loaded(table, url)[p] = Public(table[p])
        /\ url # {} => Loaded(table, url)[Default] = Public(Registered(u, NoWorkspace))
    BY <1>2, <1>3, <1>4, <1>5
  <1> QED
    BY <1>6 DEF u

\* Providers, registry and how far the newest rows have come.
LEMMA ProviderTypes ==
    ASSUME Types, [Next]_vars
    PROVE  /\ providers' \in [Providers -> {None} \cup ProviderRows]
           /\ registry' \in [Providers -> {None} \cup RegistryRows]
           /\ newest' \in [Providers -> Handlers \cup {"shown", "hidden"}]
  <1> DEFINE Goal ==
           /\ providers' \in [Providers -> {None} \cup ProviderRows]
           /\ registry' \in [Providers -> {None} \cup RegistryRows]
           /\ newest' \in [Providers -> Handlers \cup {"shown", "hidden"}]
  <1>1. CASE providers' = providers /\ registry' = registry /\ newest' = newest
    BY <1>1 DEF Types
  <1>2. ASSUME NEW h \in Handlers, RegisterProvider(h) PROVE Goal
    <2>1. /\ Order(h).provider \in Providers /\ Order(h).listing \in Listings
          /\ req[h].workspace \in Tenants
      BY <1>2, Busy, ReqFields, OrderFields DEF RegisterProvider, In, Order
    <2>2. /\ registry' = registry
          /\ newest' \in {newest, [newest EXCEPT ![Order(h).provider] = h]}
      BY <1>2 DEF RegisterProvider, ToRegistry
    <2>3. \/ providers' = providers
          \/ providers' = [providers EXCEPT ![Order(h).provider] =
                               Registered(Order(h).listing, req[h].workspace)]
      BY <1>2 DEF RegisterProvider, ToRegistry
    <2>4. Registered(Order(h).listing, req[h].workspace) \in ProviderRows
      BY <2>1, RegisteredType
    <2> QED
      BY <2>1, <2>2, <2>3, <2>4 DEF Types
  <1>3. ASSUME NEW h \in Handlers, DeleteProvider(h) PROVE Goal
    <2>1. Order(h).provider \in Providers
      BY <1>3, Busy, ReqFields, OrderFields DEF DeleteProvider, In, Order
    <2>2. /\ registry' = registry
          /\ newest' \in {newest, [newest EXCEPT ![Order(h).provider] = h]}
      BY <1>3 DEF DeleteProvider, ToRegistry
    <2>3. \/ providers' = providers
          \/ providers' = [providers EXCEPT ![Order(h).provider] = None]
      BY <1>3 DEF DeleteProvider, ToRegistry
    <2> QED
      BY <2>1, <2>2, <2>3 DEF Types
  <1>4. ASSUME NEW h \in Handlers, UpdateRegistry(h) PROVE Goal
    <2>1. Order(h) \in Orders
      BY <1>4, Busy, ReqFields DEF UpdateRegistry
    <2>2. Order(h).route = "register" => Order(h).listing \in Listings
      BY <2>1, OrderFields
    <2>3. Order(h).provider \in Providers
      BY <1>4, <2>1, OrderFields DEF UpdateRegistry, Types, StageFitsRoute
    <2>4. providers' = providers
      BY <1>4 DEF UpdateRegistry, tables
    <2> DEFINE r == IF Order(h).route = "register"
                    THEN [exists |-> TRUE, listing |-> Order(h).listing] ELSE None
    <2>5. r \in {None} \cup RegistryRows
      BY <2>2 DEF RegistryRows
    <2>6. registry' = [registry EXCEPT ![Order(h).provider] = r]
      BY <1>4 DEF UpdateRegistry
    <2>7. ShownBy(h, Order(h).provider) \in Handlers \cup {"shown", "hidden"}
      BY <2>3 DEF ShownBy, Types
    <2>8. newest' = [newest EXCEPT ![Order(h).provider] =
                         ShownBy(h, Order(h).provider)]
      BY <1>4 DEF UpdateRegistry
    <2> HIDE DEF r
    <2> QED
      BY <2>4, <2>5, <2>6, <2>7, <2>8 DEF Types
  <1>5. ASSUME NEW h \in Handlers, Abandon(h) PROVE Goal
    BY <1>5 DEF Abandon, tables, Types
  <1>6. CASE Restart
    <2>1. PICK url \in Upstreams, readable \in BOOLEAN, written \in BOOLEAN :
              /\ registry' = Loaded(IF readable THEN providers ELSE EmptyTable, url)
              /\ providers' = IF written THEN WithUpstream(providers, url) ELSE providers
              /\ newest' = [p \in Providers |->
                     IF IF p = Default /\ url # {}
                        THEN written /\ ~ Foreign(providers[p]) ELSE readable
                     THEN "shown" ELSE "hidden"]
      BY <1>6 DEF Restart
    <2>2. registry' \in [Providers -> {None} \cup RegistryRows]
      BY <2>1, EmptyTableType, LoadedType DEF Types
    <2>3. providers' \in [Providers -> {None} \cup ProviderRows]
      BY <2>1, UpstreamEntered DEF Types
    <2>4. newest' \in [Providers -> Handlers \cup {"shown", "hidden"}]
      BY <2>1
    <2> QED
      BY <2>2, <2>3, <2>4
  <1> HIDE DEF Goal
  <1>7. Goal
    BY <1>1, <1>2, <1>3, <1>4, <1>5, <1>6, ProviderSteps DEF Goal
  <1> QED
    BY <1>7 DEF Goal

\* Whom a token is resolved to is an operator, or the shared one.
LEMMA ResolvedType ==
    ASSUME Types, NEW t \in Tokens \cup {AdminToken}, NEW c \in Resolved(t)
    PROVE  /\ c.workspace \in Tenants
           /\ \/ t = AdminToken /\ c.who = Shared
              \/ /\ t \in Tokens /\ c.who \in Operators
                 /\ operators[c.who].exists /\ operators[c.who].token = t
  <1>1. CASE t = AdminToken
    BY <1>1 DEF Resolved, Tenants
  <1>2. CASE t # AdminToken
    <2>1. PICK o \in Holder(t) : c = [who |-> o, workspace |-> operators[o].workspace]
      BY <1>2 DEF Resolved
    <2>2. o \in Operators /\ operators[o].exists /\ operators[o].token = t
      BY DEF Holder
    <2> QED
      BY <1>2, <2>1, <2>2, RowFields
  <1> QED
    BY <1>1, <1>2

\* A request that goes on in authorize_agent carries its order and the mode it has
\* read.
LEMMA AuthorizeGoesOn ==
    ASSUME Types, NEW h \in Handlers, AuthorizeRead(h)
    PROVE  \/ End(h)
           \/ \E x \in RequestRecords :
                  /\ Found(h, Order(h).agent)
                  /\ req' = [req EXCEPT ![h] = x]
                  /\ x.at = "set_policy" /\ x.who = req[h].who
                  /\ x.workspace = req[h].workspace /\ x.token = req[h].token
                  /\ x.order = Order(h) /\ Order(h).route = "authorize"
                  /\ x.read = agents[Order(h).agent].mode /\ x.read \in Modes
  <1>1. CASE ~ Found(h, Order(h).agent)
    BY <1>1 DEF AuthorizeRead
  <1>2. CASE Found(h, Order(h).agent)
    <2>1. PICK m \in Modes : m = agents[Order(h).agent].mode
      <3>1. Order(h).agent \in Agents
        BY Busy, ReqFields, OrderFields DEF AuthorizeRead, In, Order
      <3> QED
        BY <1>2, <3>1, RowFields DEF Found
    <2> DEFINE x == [req[h] EXCEPT !.at = "set_policy", !.read = m]
    <2>2. req[h] \in RequestRecords /\ Order(h).route = "authorize"
      BY Busy, ReqFields DEF AuthorizeRead, In, Order
    <2>3. req' = [req EXCEPT ![h].at = "set_policy", ![h].read = m]
      BY <1>2, <2>1 DEF AuthorizeRead
    <2>4. req' = [req EXCEPT ![h] = x]
      BY <2>2, <2>3 DEF Types, RequestRecords
    <2>5. x \in RequestRecords /\ x.at = "set_policy" /\ x.who = req[h].who
          /\ x.workspace = req[h].workspace /\ x.token = req[h].token
          /\ x.order = req[h].order /\ x.read = m
      BY <2>2 DEF RequestRecords
    <2> HIDE DEF x
    <2> QED
      BY <1>2, <2>1, <2>2, <2>4, <2>5 DEF Order
  <1> QED
    BY <1>1, <1>2

\* A provider route goes on to the registry with the same order.
LEMMA ProviderGoesOn ==
    ASSUME Types, NEW h \in Handlers, RegisterProvider(h) \/ DeleteProvider(h)
    PROVE  \E x \in RequestRecords :
               /\ req' = [req EXCEPT ![h] = x]
               /\ x.at = "registry" /\ x.who = req[h].who
               /\ x.workspace = req[h].workspace /\ x.token = req[h].token
               /\ x.order = Order(h)
               /\ Order(h).route \in {"register", "delete"}
               /\ Order(h).provider \in Providers
               /\ req[h].at = "handler"
  <1> DEFINE x == [req[h] EXCEPT !.at = "registry"]
  <1>1. req' = [req EXCEPT ![h].at = "registry"]
    BY DEF RegisterProvider, DeleteProvider, ToRegistry
  <1>2. req[h] \in RequestRecords /\ Order(h) \in Orders
        /\ Order(h).route \in {"register", "delete"} /\ req[h].at = "handler"
    BY Busy, ReqFields DEF RegisterProvider, DeleteProvider, In, Order
  <1>3. req' = [req EXCEPT ![h] = x]
    BY <1>1, <1>2 DEF Types
  <1>4. x \in RequestRecords /\ x.at = "registry" /\ x.who = req[h].who
        /\ x.workspace = req[h].workspace /\ x.token = req[h].token
        /\ x.order = req[h].order
    BY <1>2 DEF RequestRecords
  <1>5. Order(h).provider \in Providers
    BY <1>2, OrderFields
  <1> HIDE DEF x
  <1> QED
    BY <1>2, <1>3, <1>4, <1>5 DEF Order

\* What one request may become in one step; the others stay as they are, unless
\* the gateway restarts.
LEMMA OneRequestMoves ==
    ASSUME Types, [Next]_vars
    PROVE  \/ req' = [h \in Handlers |-> Idle]
           \/ \A h \in Handlers :
                  \/ req'[h] = req[h]
                  \/ req'[h] = Idle
                  \/ /\ req[h] = Idle
                     /\ \E t \in Tokens \cup {AdminToken}, order \in Orders :
                            \E c \in Resolved(t) :
                                req'[h] = [at |-> "handler", who |-> c.who,
                                           workspace |-> c.workspace,
                                           token |-> t, order |-> order,
                                           read |-> "none"]
                  \/ /\ req'[h] \in RequestRecords /\ req[h] # Idle
                     /\ req'[h].who = req[h].who
                     /\ req'[h].token = req[h].token
                     /\ AuthorizeRead(h) /\ req'[h].at = "set_policy"
                     /\ Found(h, Order(h).agent)
                     /\ req'[h].order = Order(h) /\ Order(h).route = "authorize"
                     /\ req'[h].read = agents[Order(h).agent].mode
                     /\ req'[h].read \in Modes
                  \/ /\ req'[h] \in RequestRecords /\ req[h] # Idle
                     /\ req'[h].who = req[h].who
                     /\ req'[h].token = req[h].token
                     /\ RegisterProvider(h) \/ DeleteProvider(h)
                     /\ req'[h].at = "registry" /\ req'[h].order = Order(h)
                     /\ Order(h).route \in {"register", "delete"}
  <1>0. req \in [Handlers -> {Idle} \cup RequestRecords]
    BY DEF Types
  <1>1. ASSUME NEW g \in Handlers, NEW t \in Tokens \cup {AdminToken},
               NEW order \in Orders, RequireAdmin(g, t, order)
        PROVE  /\ \A h \in Handlers : h # g => req'[h] = req[h]
               /\ req[g] = Idle
               /\ \E c \in Resolved(t) :
                      req'[g] = [at |-> "handler", who |-> c.who,
                                 workspace |-> c.workspace,
                                 token |-> t, order |-> order, read |-> "none"]
    BY <1>0, <1>1 DEF RequireAdmin
  <1>2. ASSUME NEW g \in Handlers, End(g)
        PROVE  req'[g] = Idle /\ \A h \in Handlers : h # g => req'[h] = req[h]
    BY <1>0, <1>2 DEF End
  <1>3. ASSUME NEW g \in Handlers, NEW x, req' = [req EXCEPT ![g] = x]
        PROVE  req'[g] = x /\ \A h \in Handlers : h # g => req'[h] = req[h]
    BY <1>0, <1>3
  <1>4. ASSUME NEW g \in Handlers, AuthorizeRead(g)
        PROVE  req[g] # Idle
    BY <1>4, Busy DEF AuthorizeRead, In
  <1>5. ASSUME NEW g \in Handlers, RegisterProvider(g) \/ DeleteProvider(g)
        PROVE  req[g] # Idle
    BY <1>5, Busy DEF RegisterProvider, DeleteProvider, In
  <1>6. CASE req' = req
    BY <1>6
  <1>7. CASE req' = [h \in Handlers |-> Idle]
    BY <1>7
  <1>8. ASSUME NEW g \in Handlers, NEW t \in Tokens \cup {AdminToken},
               NEW order \in Orders, RequireAdmin(g, t, order),
               NEW h \in Handlers
        PROVE  \/ req'[h] = req[h]
               \/ /\ req[h] = Idle
                  /\ \E u \in Tokens \cup {AdminToken}, ord \in Orders :
                         \E c \in Resolved(u) :
                             req'[h] = [at |-> "handler", who |-> c.who,
                                        workspace |-> c.workspace,
                                        token |-> u, order |-> ord,
                                        read |-> "none"]
    BY <1>1, <1>8
  <1>9. ASSUME NEW g \in Handlers, End(g), NEW h \in Handlers
        PROVE  req'[h] = req[h] \/ req'[h] = Idle
    BY <1>2, <1>9
  <1>10. ASSUME NEW g \in Handlers, AuthorizeRead(g), NEW h \in Handlers
         PROVE  \/ req'[h] = req[h]
                \/ req'[h] = Idle
                \/ /\ req'[h] \in RequestRecords /\ req[h] # Idle
                   /\ req'[h].who = req[h].who
                   /\ req'[h].token = req[h].token
                   /\ AuthorizeRead(h) /\ req'[h].at = "set_policy"
                   /\ Found(h, Order(h).agent)
                   /\ req'[h].order = Order(h) /\ Order(h).route = "authorize"
                   /\ req'[h].read = agents[Order(h).agent].mode
                   /\ req'[h].read \in Modes
    <2>1. CASE End(g)
      BY <2>1, <1>2
    <2>2. CASE h # g /\ ~ End(g)
      BY <1>3, <1>10, <2>2, AuthorizeGoesOn
    <2>3. CASE h = g /\ ~ End(g)
      <3>1. PICK x \in RequestRecords :
                  /\ Found(g, Order(g).agent)
                  /\ req' = [req EXCEPT ![g] = x]
                  /\ x.at = "set_policy" /\ x.who = req[g].who
                  /\ x.workspace = req[g].workspace /\ x.token = req[g].token
                  /\ x.order = Order(g) /\ Order(g).route = "authorize"
                  /\ x.read = agents[Order(g).agent].mode /\ x.read \in Modes
        BY <1>10, <2>3, AuthorizeGoesOn
      <3>2. req'[g] = x
        BY <1>3, <3>1
      <3>3. req[g] # Idle
        BY <1>4, <1>10
      <3> QED
        BY <1>10, <2>3, <3>1, <3>2, <3>3
    <2> QED
      BY <2>1, <2>2, <2>3
  <1>11. ASSUME NEW g \in Handlers, RegisterProvider(g) \/ DeleteProvider(g),
                NEW h \in Handlers
         PROVE  \/ req'[h] = req[h]
                \/ /\ req'[h] \in RequestRecords /\ req[h] # Idle
                   /\ req'[h].who = req[h].who
                   /\ req'[h].token = req[h].token
                   /\ RegisterProvider(h) \/ DeleteProvider(h)
                   /\ req'[h].at = "registry" /\ req'[h].order = Order(h)
                   /\ Order(h).route \in {"register", "delete"}
    <2>1. CASE h # g
      BY <1>3, <1>11, <2>1, ProviderGoesOn
    <2>2. CASE h = g
      BY <1>3, <1>5, <1>11, <2>2, ProviderGoesOn
    <2> QED
      BY <2>1, <2>2
  <1>12. \/ req' = req \/ req' = [h \in Handlers |-> Idle]
         \/ \E g \in Handlers : \E t \in Tokens \cup {AdminToken}, order \in Orders :
                RequireAdmin(g, t, order)
         \/ \E g \in Handlers : AuthorizeRead(g)
         \/ \E g \in Handlers : RegisterProvider(g) \/ DeleteProvider(g)
         \/ \E g \in Handlers : End(g)
    BY RequestSteps
  <1> QED
    BY <1>6, <1>7, <1>8, <1>9, <1>10, <1>11, <1>12

\* Requests.
LEMMA RequestTypes ==
    ASSUME Types, [Next]_vars
    PROVE  req' \in [Handlers -> {Idle} \cup RequestRecords] /\ StageFitsRoute'
  <1>0. Idle.at = "idle"
    BY DEF Idle
  <1>1. CASE req' = [h \in Handlers |-> Idle]
    BY <1>0, <1>1 DEF StageFitsRoute
  <1>2. ASSUME NEW h \in Handlers, req' # [g \in Handlers |-> Idle]
        PROVE  /\ req'[h] \in {Idle} \cup RequestRecords
               /\ req'[h].at = "set_policy" =>
                      /\ req'[h].order.route = "authorize"
                      /\ req'[h].read \in Modes
               /\ req'[h].at = "registry" =>
                      req'[h].order.route \in {"register", "delete"}
    <2>1. CASE req'[h] = req[h]
      BY <2>1 DEF Types, StageFitsRoute, Order
    <2>2. CASE req'[h] = Idle
      BY <1>0, <2>2
    <2>3. ASSUME NEW t \in Tokens \cup {AdminToken}, NEW order \in Orders,
                 NEW c \in Resolved(t),
                 req'[h] = [at |-> "handler", who |-> c.who,
                            workspace |-> c.workspace, token |-> t, order |-> order,
                            read |-> "none"]
          PROVE  req'[h] \in RequestRecords /\ req'[h].at = "handler"
      BY <2>3, ResolvedType DEF RequestRecords
    <2> QED
      BY <1>2, <2>1, <2>2, <2>3, OneRequestMoves
  <1>3. DOMAIN req' = Handlers /\ req' = [h \in Handlers |-> req'[h]]
    BY RequestSteps
       DEF Types, RequireAdmin, AuthorizeRead, RegisterProvider, DeleteProvider,
           ToRegistry, End
  <1> QED
    BY <1>1, <1>2, <1>3 DEF StageFitsRoute, Order

\* The initial state has the types.
LEMMA TypesInit == Init => Types
  <1> SUFFICES ASSUME Init PROVE Types
    OBVIOUS
  <1>1. PICK first \in [DOMAIN Scopes -> Tokens] :
          /\ operators = [o \in Operators |->
                 IF o \in DOMAIN Scopes
                 THEN [exists |-> TRUE, token |-> first[o],
                       workspace |-> Scopes[o], enabled |-> TRUE]
                 ELSE None]
          /\ keeper = [t \in Tokens |->
                 IF \E o \in DOMAIN Scopes : first[o] = t
                 THEN CHOOSE o \in DOMAIN Scopes : first[o] = t ELSE "nobody"]
    BY DEF Init
  <1>2. operators \in [Operators -> {None} \cup OperatorRows]
    <2>1. \A o \in DOMAIN Scopes :
              [exists |-> TRUE, token |-> first[o],
               workspace |-> Scopes[o], enabled |-> TRUE] \in OperatorRows
      BY ControlAssumption DEF OperatorRows
    <2> QED
      BY <1>1, <2>1
  <1>3. keeper \in [Tokens -> Operators \cup {"nobody"}]
    <2>1. ASSUME NEW t \in Tokens, \E o \in DOMAIN Scopes : first[o] = t
          PROVE  (CHOOSE o \in DOMAIN Scopes : first[o] = t) \in Operators
      BY <2>1, ControlAssumption
    <2> QED
      BY <1>1, <2>1
  <1>4. PICK url \in Upstreams : /\ providers = WithUpstream(EmptyTable, url)
                                 /\ registry = Loaded(EmptyTable, url)
    BY DEF Init
  <1>5. /\ providers \in [Providers -> {None} \cup ProviderRows]
        /\ registry \in [Providers -> {None} \cup RegistryRows]
    BY <1>4, EmptyTableType, UpstreamEntered, LoadedType
  <1>6. Idle.at = "idle"
    BY DEF Idle
  <1>7. /\ agents \in [Agents -> {None} \cup AgentRows]
        /\ approvals \in [Approvals -> {None} \cup ApprovalRows]
        /\ req \in [Handlers -> {Idle} \cup RequestRecords]
        /\ newest \in [Providers -> Handlers \cup {"shown", "hidden"}]
    BY DEF Init
  <1>8. StageFitsRoute
    BY <1>6 DEF Init, StageFitsRoute
  <1> QED
    BY <1>2, <1>3, <1>5, <1>7, <1>8 DEF Types

\* Types hold in every reachable state.
LEMMA TypesInvariance == Spec => []Types
  <1>1. Types /\ [Next]_vars => Types'
    BY OperatorTypes, AgentTypes, ApprovalTypes, ProviderTypes, RequestTypes
       DEF Types
  <1> QED
    BY <1>1, TypesInit, PTL DEF Spec

-----------------------------------------------------------------------------
(***************************************************************************)
(* Credentials: who is behind a token, a request and a decision.           *)
(***************************************************************************)

\* Every operator's token was minted for that operator.
OperatorsKeepTokens ==
    \A o \in Operators : operators[o].exists => keeper[operators[o].token] = o

\* A request acts as the keeper of the token it came with, whatever has become
\* of that operator or token since.
RequestsNameKeepers ==
    \A h \in Handlers : req[h] # Idle =>
        \/ req[h].token = AdminToken /\ req[h].who = Shared
        \/ req[h].token \in Tokens /\ keeper[req[h].token] = req[h].who

\* So does every decision.
DecisionsNameKeepers ==
    \A p \in Approvals : approvals[p].exists /\ approvals[p].state # "pending" =>
        IF approvals[p].by = Shared THEN approvals[p].with = AdminToken
        ELSE /\ approvals[p].with \in Tokens
             /\ keeper[approvals[p].with] = approvals[p].by
             /\ approvals[p].by # "nobody"

\* The inductive invariant behind DecisionNamesItsHolder.
Credentials ==
    OperatorsKeepTokens /\ RequestsNameKeepers /\ DecisionsNameKeepers

\* A token keeps its keeper: nobody is ever given a token that was minted before.
LEMMA KeepersStay ==
    ASSUME Types, [Next]_vars, NEW t \in Tokens, keeper[t] # "nobody"
    PROVE  keeper'[t] = keeper[t]
  <1>1. ASSUME NEW h \in Handlers, CreateOperator(h)
        PROVE  keeper'[t] = keeper[t]
    BY <1>1 DEF CreateOperator, Fresh, Types
  <1>2. ASSUME NEW h \in Handlers, RotateOwnToken(h)
        PROVE  keeper'[t] = keeper[t]
    BY <1>2 DEF RotateOwnToken, Fresh, Types
  <1>3. ASSUME NEW h \in Handlers, SetOperatorStatus(h)
        PROVE  keeper'[t] = keeper[t]
    BY <1>3 DEF SetOperatorStatus, history
  <1> QED
    BY <1>1, <1>2, <1>3, OperatorSteps

\* Minting and rotating: the new token's keeper is the row's operator, and the
\* other rows keep theirs, because the token is new.
LEMMA OperatorsKeepTokensNext ==
    ASSUME Types, OperatorsKeepTokens, [Next]_vars
    PROVE  OperatorsKeepTokens'
  <1>0. /\ operators \in [Operators -> {None} \cup OperatorRows]
        /\ keeper \in [Tokens -> Operators \cup {"nobody"}]
        /\ \A o \in Operators : operators[o].exists => operators[o].token \in Tokens
    BY RowFields DEF Types
  <1>1. CASE operators' = operators /\ keeper' = keeper
    BY <1>1 DEF OperatorsKeepTokens
  <1>2. ASSUME NEW h \in Handlers, CreateOperator(h)
        PROVE  OperatorsKeepTokens'
    <2> DEFINE r(t) == [exists |-> TRUE, token |-> t, workspace |-> NoWorkspace,
                        enabled |-> TRUE]
    <2>1. PICK o \in Operators, t \in Tokens :
              /\ keeper[t] = "nobody"
              /\ operators' = [operators EXCEPT ![o] = r(t)]
              /\ keeper' = [keeper EXCEPT ![t] = o]
      BY <1>2 DEF CreateOperator, Fresh
    <2>2. r(t).token = t
      OBVIOUS
    <2> HIDE DEF r
    <2>3. /\ operators'[o] = r(t) /\ keeper'[t] = o
          /\ \A q \in Operators : q # o => operators'[q] = operators[q]
          /\ \A u \in Tokens : u # t => keeper'[u] = keeper[u]
      BY <1>0, <2>1
    <2>4. \A q \in Operators : operators[q].exists => operators[q].token # t
      BY <1>0, <2>1, ControlAssumption DEF OperatorsKeepTokens
    <2> QED
      BY <1>0, <2>2, <2>3, <2>4 DEF OperatorsKeepTokens
  <1>3. ASSUME NEW h \in Handlers, RotateOwnToken(h)
        PROVE  OperatorsKeepTokens'
    <2>1. CASE operators' = operators /\ keeper' = keeper
      BY <2>1 DEF OperatorsKeepTokens
    <2>2. ASSUME NEW o \in Rotatable(h), NEW t \in Tokens, Fresh(t),
                 operators' = [operators EXCEPT ![o].token = t],
                 keeper' = [keeper EXCEPT ![t] = req[h].who]
          PROVE  OperatorsKeepTokens'
      <3>1. o \in Operators /\ operators[o].exists /\ req[h].who = o
        BY DEF Rotatable
      <3>2. operators[o] \in OperatorRows
        BY <3>1, RowFields
      <3>3. /\ operators'[o].token = t /\ keeper'[t] = o
            /\ \A q \in Operators : q # o => operators'[q] = operators[q]
            /\ \A u \in Tokens : u # t => keeper'[u] = keeper[u]
        BY <1>0, <2>2, <3>1, <3>2 DEF OperatorRows
      <3>4. \A q \in Operators : operators[q].exists => operators[q].token # t
        BY <1>0, <2>2, ControlAssumption DEF OperatorsKeepTokens, Fresh
      <3> QED
        BY <1>0, <3>3, <3>4 DEF OperatorsKeepTokens
    <2> QED
      BY <1>3, <2>1, <2>2 DEF RotateOwnToken
  <1>4. ASSUME NEW h \in Handlers, SetOperatorStatus(h)
        PROVE  OperatorsKeepTokens'
    <2>1. keeper' = keeper
      BY <1>4 DEF SetOperatorStatus, history
    <2> DEFINE o == Order(h).operator
    <2>2. CASE operators[o].exists
      <3>0. o \in Operators
        BY <1>4, Busy, ReqFields, OrderFields DEF SetOperatorStatus, In, Order
      <3>1. operators[o] \in OperatorRows
        BY <2>2, <3>0, RowFields
      <3>2. operators' = [operators EXCEPT ![o].enabled = Order(h).enabled]
        BY <1>4, <2>2 DEF SetOperatorStatus
      <3> HIDE DEF o
      <3>3. /\ operators'[o].token = operators[o].token
            /\ \A q \in Operators : q # o => operators'[q] = operators[q]
        BY <1>0, <3>0, <3>1, <3>2 DEF OperatorRows
      <3> QED
        BY <2>1, <2>2, <3>0, <3>3 DEF OperatorsKeepTokens
    <2>3. CASE ~ operators[o].exists
      BY <1>4, <2>1, <2>3 DEF SetOperatorStatus, OperatorsKeepTokens
    <2> QED
      BY <2>2, <2>3
  <1> QED
    BY <1>1, <1>2, <1>3, <1>4, OperatorSteps

\* A request gets its identity from the token it comes with, and keeps it.
LEMMA RequestsNameKeepersNext ==
    ASSUME Types, Credentials, [Next]_vars
    PROVE  RequestsNameKeepers'
  <1> SUFFICES ASSUME NEW h \in Handlers, req'[h] # Idle
               PROVE  \/ req'[h].token = AdminToken /\ req'[h].who = Shared
                      \/ /\ req'[h].token \in Tokens
                         /\ keeper'[req'[h].token] = req'[h].who
    BY DEF RequestsNameKeepers
  <1>1. ASSUME req[h] # Idle, req'[h].who = req[h].who, req'[h].token = req[h].token
        PROVE  \/ req'[h].token = AdminToken /\ req'[h].who = Shared
               \/ /\ req'[h].token \in Tokens
                  /\ keeper'[req'[h].token] = req'[h].who
    <2>1. CASE req[h].token = AdminToken /\ req[h].who = Shared
      BY <1>1, <2>1
    <2>2. CASE req[h].token \in Tokens /\ keeper[req[h].token] = req[h].who
      <3>1. req[h].who # "nobody"
        BY <1>1, ReqFields, ControlAssumption DEF Shared
      <3> QED
        BY <1>1, <2>2, <3>1, KeepersStay
    <2> QED
      BY <1>1, <2>1, <2>2 DEF Credentials, RequestsNameKeepers
  <1>2. ASSUME NEW t \in Tokens \cup {AdminToken}, NEW order \in Orders,
               NEW c \in Resolved(t),
               req'[h] = [at |-> "handler", who |-> c.who,
                          workspace |-> c.workspace, token |-> t, order |-> order,
                          read |-> "none"]
        PROVE  \/ req'[h].token = AdminToken /\ req'[h].who = Shared
               \/ /\ req'[h].token \in Tokens
                  /\ keeper'[req'[h].token] = req'[h].who
    <2>1. req'[h].token = t /\ req'[h].who = c.who
      BY <1>2
    <2>2. CASE t = AdminToken /\ c.who = Shared
      BY <2>1, <2>2
    <2>3. CASE /\ t \in Tokens /\ c.who \in Operators
               /\ operators[c.who].exists /\ operators[c.who].token = t
      <3>1. keeper[t] = c.who /\ keeper[t] # "nobody"
        BY <2>3, ControlAssumption DEF Credentials, OperatorsKeepTokens
      <3> QED
        BY <2>1, <2>3, <3>1, KeepersStay
    <2> QED
      BY <2>2, <2>3, ResolvedType
  <1>3. req' # [g \in Handlers |-> Idle]
    OBVIOUS
  <1>4. CASE req'[h] = req[h]
    BY <1>1, <1>4
  <1> QED
    BY <1>1, <1>2, <1>3, <1>4, OneRequestMoves

\* What one approval may become in one step: raised, decided by a request while
\* it is pending, or consumed.
LEMMA ApprovalMoves ==
    ASSUME Types, [Next]_vars, NEW p \in Approvals
    PROVE  \/ approvals'[p] = approvals[p]
           \/ ~ approvals[p].exists /\ approvals'[p].state = "pending"
           \/ /\ approvals[p].exists /\ approvals[p].state = "pending"
              /\ \E h \in Handlers :
                     /\ req[h] # Idle /\ keeper' = keeper
                     /\ approvals'[p].by = req[h].who
                     /\ approvals'[p].with = req[h].token
           \/ /\ approvals[p].exists /\ approvals[p].state = "approved"
              /\ approvals'[p].state = "consumed"
              /\ approvals'[p].by = approvals[p].by
              /\ approvals'[p].with = approvals[p].with
  <1>0. /\ approvals \in [Approvals -> {None} \cup ApprovalRows]
        /\ approvals[p].exists => approvals[p] \in ApprovalRows
    BY RowFields DEF Types
  <1>1. CASE approvals' = approvals
    BY <1>1
  <1>2. ASSUME NEW h \in Handlers, DecideApproval(h)
        PROVE  \/ approvals'[p] = approvals[p]
               \/ /\ approvals[p].exists /\ approvals[p].state = "pending"
                  /\ req[h] # Idle /\ keeper' = keeper
                  /\ approvals'[p].by = req[h].who
                  /\ approvals'[p].with = req[h].token
    <2> DEFINE q == Order(h).approval
    <2>1. req[h] # Idle /\ keeper' = keeper
      BY <1>2, Busy DEF DecideApproval, In, history
    <2>2. CASE ~ Decidable(q)
      BY <1>2, <2>2 DEF DecideApproval
    <2>3. CASE Decidable(q)
      <3>1. approvals' = [approvals EXCEPT ![q].state = Order(h).verdict,
                              ![q].by = req[h].who, ![q].with = req[h].token]
        BY <1>2, <2>3 DEF DecideApproval
      <3>2. CASE p # q
        BY <1>0, <3>1, <3>2
      <3>3. CASE p = q
        <4>1. approvals[p] \in ApprovalRows /\ approvals[p].state = "pending"
              /\ approvals[p].exists
          BY <1>0, <2>3, <3>3 DEF Decidable
        <4> HIDE DEF q
        <4> QED
          BY <1>0, <2>1, <3>1, <3>3, <4>1 DEF ApprovalRows
      <3> QED
        BY <3>2, <3>3
    <2> QED
      BY <2>2, <2>3
  <1>3. ASSUME NEW q \in Approvals, ConsumeApproval(q)
        PROVE  \/ approvals'[p] = approvals[p]
               \/ /\ approvals[p].exists /\ approvals[p].state = "approved"
                  /\ approvals'[p].state = "consumed"
                  /\ approvals'[p].by = approvals[p].by
                  /\ approvals'[p].with = approvals[p].with
    BY <1>0, <1>3 DEF ConsumeApproval, ApprovalRows
  <1>4. ASSUME NEW q \in Approvals, NEW a \in Agents, RaiseApproval(q, a)
        PROVE  \/ approvals'[p] = approvals[p]
               \/ ~ approvals[p].exists /\ approvals'[p].state = "pending"
    BY <1>0, <1>4 DEF RaiseApproval
  <1> QED
    BY <1>1, <1>2, <1>3, <1>4, ApprovalSteps

\* A decision is made by a request, and afterwards only consumed.
LEMMA DecisionsNameKeepersNext ==
    ASSUME Types, Credentials, [Next]_vars
    PROVE  DecisionsNameKeepers'
  <1> DEFINE Named(by, with) ==
           IF by = Shared THEN with = AdminToken
           ELSE /\ with \in Tokens /\ keeper'[with] = by /\ by # "nobody"
  <1> SUFFICES ASSUME NEW p \in Approvals,
                      approvals'[p].exists /\ approvals'[p].state # "pending"
               PROVE  Named(approvals'[p].by, approvals'[p].with)
    BY DEF DecisionsNameKeepers
  <1>1. ASSUME approvals[p].exists, approvals[p].state # "pending"
        PROVE  Named(approvals[p].by, approvals[p].with)
    BY <1>1, KeepersStay DEF Credentials, DecisionsNameKeepers
  <1>2. ASSUME NEW h \in Handlers, req[h] # Idle, keeper' = keeper
        PROVE  Named(req[h].who, req[h].token)
    <2>1. req[h].who \in Operators \cup {Shared}
      BY <1>2, ReqFields
    <2>2. req[h].who # "nobody"
      BY <2>1, ControlAssumption DEF Shared
    <2>3. req[h].token \in Tokens /\ req[h].who = Shared => FALSE
      <3>1. ASSUME req[h].token \in Tokens, req[h].who = Shared PROVE FALSE
        <4>1. req[h].token # AdminToken
          BY <3>1, ControlAssumption
        <4>2. keeper[req[h].token] = Shared
          BY <1>2, <3>1, <4>1 DEF Credentials, RequestsNameKeepers
        <4>3. keeper[req[h].token] \in Operators \cup {"nobody"}
          BY <3>1 DEF Types
        <4> QED
          BY <4>2, <4>3, ControlAssumption DEF Shared
      <3> QED
        BY <3>1
    <2> QED
      BY <1>2, <2>2, <2>3 DEF Credentials, RequestsNameKeepers
  <1> HIDE DEF Named
  <1> QED
    BY <1>1, <1>2, ApprovalMoves

\* At first every token that exists has exactly its operator as keeper.
LEMMA CredentialsInit == Init => Credentials
  <1> SUFFICES ASSUME Init PROVE Credentials
    OBVIOUS
  <1>1. PICK first \in [DOMAIN Scopes -> Tokens] :
          /\ \A o, q \in DOMAIN Scopes : first[o] = first[q] => o = q
          /\ operators = [o \in Operators |->
                 IF o \in DOMAIN Scopes
                 THEN [exists |-> TRUE, token |-> first[o],
                       workspace |-> Scopes[o], enabled |-> TRUE]
                 ELSE None]
          /\ keeper = [t \in Tokens |->
                 IF \E o \in DOMAIN Scopes : first[o] = t
                 THEN CHOOSE o \in DOMAIN Scopes : first[o] = t ELSE "nobody"]
    BY DEF Init
  <1>2. OperatorsKeepTokens
    <2> SUFFICES ASSUME NEW o \in Operators, operators[o].exists
                 PROVE  keeper[operators[o].token] = o
      BY DEF OperatorsKeepTokens
    <2>0. None.exists = FALSE
      BY DEF None
    <2>1. o \in DOMAIN Scopes
      BY <1>1, <2>0
    <2>2. operators[o].token = first[o] /\ first[o] \in Tokens
      BY <1>1, <2>1
    <2> DEFINE k(t) == CHOOSE x \in DOMAIN Scopes : first[x] = t
    <2>3. keeper[first[o]] = k(first[o])
      BY <1>1, <2>1, <2>2
    <2>4. k(first[o]) \in DOMAIN Scopes /\ first[k(first[o])] = first[o]
      BY <2>1
    <2> HIDE DEF k
    <2> QED
      BY <1>1, <2>1, <2>2, <2>3, <2>4
  <1>3. None.exists = FALSE
    BY DEF None
  <1> QED
    BY <1>2, <1>3 DEF Init, Credentials, RequestsNameKeepers, DecisionsNameKeepers

\* A credential is resolved once, and the request acts on later, with rotations
\* and revocations in between: every decision is still recorded under the
\* operator whose token was behind it.
THEOREM DecisionsAreAttributed == Spec => []DecisionNamesItsHolder
  <1>1. Types /\ Credentials /\ [Next]_vars => Credentials'
    BY OperatorsKeepTokensNext, RequestsNameKeepersNext, DecisionsNameKeepersNext
       DEF Credentials
  <1>2. Types => ControlTypeOK
    <2> SUFFICES ASSUME Types PROVE ControlTypeOK
      OBVIOUS
    <2>1. \A h \in Handlers : req[h] # Idle =>
              /\ req[h].at \in {"handler", "set_policy", "registry"}
              /\ req[h].who \in Operators \cup {Shared}
              /\ req[h].workspace \in Tenants
              /\ req[h].order \in Orders
      BY ReqFields DEF Order
    <2> QED
      BY <2>1 DEF Types, ControlTypeOK
  <1>3. Types /\ Credentials => DecisionNamesItsHolder
    BY <1>2 DEF DecisionNamesItsHolder, Credentials, DecisionsNameKeepers
  <1> QED
    BY <1>1, <1>3, CredentialsInit, TypesInvariance, PTL DEF Spec

\* A verdict and its author are final, whoever else decides at the same time.
THEOREM VerdictsAreFinal == Spec => DecisionIsFinal
  <1> DEFINE Final ==
           \A p \in Approvals :
               approvals[p].exists /\ approvals[p].state # "pending" =>
                   /\ approvals'[p].by = approvals[p].by
                   /\ \/ approvals'[p].state = approvals[p].state
                      \/ /\ approvals[p].state = "approved"
                         /\ approvals'[p].state = "consumed"
  <1>1. Types /\ [Next]_vars => [Final]_vars
    BY ApprovalMoves
  <1>2. [][Final]_vars <=> DecisionIsFinal
    BY DEF DecisionIsFinal
  <1> HIDE DEF Final
  <1> QED
    BY <1>1, <1>2, TypesInvariance, PTL DEF Spec

-----------------------------------------------------------------------------
(***************************************************************************)
(* Agents: autonomy and tenancy.                                           *)
(***************************************************************************)

\* What one agent may become in one step: created by a request that named its
\* mode or left it out, given the mode and envelope an authorization carries, or
\* suspended or resumed; the last two by a request that may touch it.
LEMMA AgentMoves ==
    ASSUME Types, [Next]_vars, NEW a \in Agents
    PROVE  \/ agents'[a] = agents[a]
           \/ /\ ~ agents[a].exists
              /\ \E h \in Handlers :
                     /\ req[h] # Idle /\ req'[h] = Idle
                     /\ agents'[a].mode = "autonomous" =>
                            "autonomous" \in Order(h).mode
           \/ \E h \in Handlers :
                  /\ req[h].at # "idle" /\ req'[h] = Idle /\ req'[h] # req[h]
                  /\ Found(h, a) /\ agents'[a].exists
                  /\ \/ agents'[a].mode = agents[a].mode
                     \/ /\ SetPolicy(h) /\ Order(h).agent = a
                        /\ agents'[a].mode = ModeToWrite(h)
  <1>0. /\ agents \in [Agents -> {None} \cup AgentRows]
        /\ agents[a].exists => agents[a] \in AgentRows
        /\ req \in [Handlers -> {Idle} \cup RequestRecords]
    BY RowFields DEF Types
  <1>1. CASE agents' = agents
    BY <1>1
  <1>2. ASSUME NEW h \in Handlers, CreateAgent(h)
        PROVE  \/ agents'[a] = agents[a]
               \/ /\ ~ agents[a].exists
                  /\ req[h] # Idle /\ req'[h] = Idle
                  /\ agents'[a].mode = "autonomous" => "autonomous" \in Order(h).mode
    <2>1. Order(h).mode \in Optional(Modes) /\ req[h] # Idle
      BY <1>2, Busy, ReqFields, OrderFields DEF CreateAgent, In, Order
    <2>2. ModeAsked(Order(h).mode) = "autonomous" => "autonomous" \in Order(h).mode
      BY <2>1 DEF ModeAsked, Optional
    <2> DEFINE r == [exists |-> TRUE, wallet |-> Order(h).wallet,
                     workspace |-> req[h].workspace,
                     mode |-> ModeAsked(Order(h).mode),
                     status |-> "active", policy |-> {}]
    <2>3. r.mode = ModeAsked(Order(h).mode)
      OBVIOUS
    <2>4. \/ agents' = agents
          \/ \E b \in Agents : /\ ~ agents[b].exists
                               /\ agents' = [agents EXCEPT ![b] = r]
      BY <1>2 DEF CreateAgent
    <2>5. req'[h] = Idle
      BY <1>0, <1>2 DEF CreateAgent, End
    <2> HIDE DEF r
    <2> QED
      BY <1>0, <2>1, <2>2, <2>3, <2>4, <2>5
  <1>3. ASSUME NEW h \in Handlers, SetPolicy(h)
        PROVE  \/ agents'[a] = agents[a]
               \/ /\ req[h].at # "idle" /\ req'[h] = Idle /\ req'[h] # req[h]
                  /\ Found(h, a) /\ agents'[a].exists
                  /\ Order(h).agent = a /\ agents'[a].mode = ModeToWrite(h)
    <2>1. req[h].at = "set_policy" /\ req[h] # Idle
      BY <1>3, Busy DEF SetPolicy
    <2>2. req'[h] = Idle
      BY <1>0, <1>3 DEF SetPolicy, End
    <2> DEFINE m == ModeToWrite(h)
    <2>3. CASE ~ Found(h, Order(h).agent)
      BY <1>3, <2>3 DEF SetPolicy
    <2>4. CASE Found(h, Order(h).agent)
      <3>1. agents' = [agents EXCEPT ![Order(h).agent].mode = m,
                           ![Order(h).agent].policy = {Order(h).envelope}]
        BY <1>3, <2>4 DEF SetPolicy
      <3> HIDE DEF m
      <3>2. CASE Order(h).agent # a
        BY <1>0, <3>1, <3>2
      <3>3. CASE Order(h).agent = a
        <4>1. agents[a] \in AgentRows /\ agents[a].exists
          BY <1>0, <2>4, <3>3 DEF Found
        <4>2. agents'[a].mode = m /\ agents'[a].exists
          BY <1>0, <3>1, <3>3, <4>1 DEF AgentRows
        <4> QED
          BY <2>1, <2>2, <2>4, <3>3, <4>2 DEF m
      <3> QED
        BY <3>2, <3>3
    <2> QED
      BY <2>3, <2>4
  <1>4. ASSUME NEW h \in Handlers, SetAgentStatus(h)
        PROVE  \/ agents'[a] = agents[a]
               \/ /\ req[h].at # "idle" /\ req'[h] = Idle /\ req'[h] # req[h]
                  /\ Found(h, a) /\ agents'[a].exists
                  /\ agents'[a].mode = agents[a].mode
    <2>1. req[h].at = "handler" /\ req[h] # Idle
      BY <1>4, Busy DEF SetAgentStatus, In
    <2>2. req'[h] = Idle
      BY <1>0, <1>4 DEF SetAgentStatus, End
    <2>3. CASE ~ Found(h, Order(h).agent)
      BY <1>4, <2>3 DEF SetAgentStatus
    <2>4. CASE Found(h, Order(h).agent)
      <3>1. agents' = [agents EXCEPT ![Order(h).agent].status = Order(h).status]
        BY <1>4, <2>4 DEF SetAgentStatus
      <3>2. CASE Order(h).agent # a
        BY <1>0, <3>1, <3>2
      <3>3. CASE Order(h).agent = a
        <4>1. agents[a] \in AgentRows /\ agents[a].exists
          BY <1>0, <2>4, <3>3 DEF Found
        <4>2. agents'[a].mode = agents[a].mode /\ agents'[a].exists
          BY <1>0, <3>1, <3>3, <4>1 DEF AgentRows
        <4> QED
          BY <2>1, <2>2, <2>4, <3>3, <4>2
      <3> QED
        BY <3>2, <3>3
    <2> QED
      BY <2>3, <2>4
  <1> QED
    BY <1>1, <1>2, <1>3, <1>4, AgentSteps

\* The mode an authorization has read is still the agent's, unless another one
\* has changed it.
ReadingsAreFresh ==
    \A h \in Handlers :
        req[h].at = "set_policy" =>
            /\ agents[Order(h).agent].exists
            /\ req[h].read = agents[Order(h).agent].mode \/ h \in overruled

\* A request stays overruled as long as it waits.
LEMMA OverruledStays ==
    ASSUME Types, [Next]_vars, NEW h \in Handlers, h \in overruled,
           req'[h] = req[h], req[h] # Idle
    PROVE  h \in overruled'
  <1>0. req \in [Handlers -> {Idle} \cup RequestRecords]
    BY DEF Types
  <1>1. \/ overruled' = overruled
        \/ \E g \in Handlers : SetPolicy(g) \/ Abandon(g)
        \/ Restart
    BY DEF Next, vars, tables, history, RequireAdmin, CreateOperator,
           RotateOwnToken, SetOperatorStatus, CreateAgent, AuthorizeRead,
           SetAgentStatus, DecideApproval, RegisterProvider, DeleteProvider,
           ToRegistry, UpdateRegistry, ConsumeApproval, RaiseApproval
  <1>2. ASSUME NEW g \in Handlers, SetPolicy(g) \/ Abandon(g)
        PROVE  h \in overruled'
    <2>1. g # h
      BY <1>0, <1>2 DEF SetPolicy, Abandon, End
    <2> QED
      BY <1>2, <2>1 DEF SetPolicy, Abandon
  <1>3. ASSUME Restart PROVE FALSE
    BY <1>3 DEF Restart
  <1> QED
    BY <1>1, <1>2, <1>3

\* Readings are fresh, or known to be stale: between the reading and the write
\* only another authorization changes the agent's mode.
LEMMA ReadingsAreFreshNext ==
    ASSUME Types, ReadingsAreFresh, [Next]_vars
    PROVE  ReadingsAreFresh'
  <1>0. Idle.at = "idle"
    BY DEF Idle
  <1> SUFFICES ASSUME NEW h \in Handlers, req'[h].at = "set_policy"
               PROVE  /\ agents'[req'[h].order.agent].exists
                      /\ \/ req'[h].read = agents'[req'[h].order.agent].mode
                         \/ h \in overruled'
    BY DEF ReadingsAreFresh, Order
  <1>1. CASE req'[h] = req[h]
    <2> DEFINE a == Order(h).agent
    <2>1. /\ req[h].at = "set_policy" /\ req[h] # Idle /\ req'[h] # Idle
          /\ req'[h].order.agent = a /\ req'[h].read = req[h].read
      BY <1>0, <1>1 DEF Order
    <2>2. a \in Agents
      BY <2>1, ReqFields, OrderFields DEF Types, StageFitsRoute
    <2>3. agents[a].exists /\ (req[h].read = agents[a].mode \/ h \in overruled)
      BY <2>1 DEF ReadingsAreFresh
    <2>4. h \in overruled => h \in overruled'
      BY <1>1, <2>1, OverruledStays
    <2> HIDE DEF a
    <2>5. CASE agents'[a] = agents[a]
      BY <2>1, <2>3, <2>4, <2>5
    <2>6. ASSUME agents'[a].exists, agents'[a].mode = agents[a].mode
          PROVE  /\ agents'[a].exists
                 /\ req'[h].read = agents'[a].mode \/ h \in overruled'
      BY <2>1, <2>3, <2>4, <2>6
    <2>7. ASSUME NEW g \in Handlers, SetPolicy(g), Order(g).agent = a, Found(g, a),
                 req'[g] = Idle, agents'[a].exists, agents'[a].mode = ModeToWrite(g)
          PROVE  /\ agents'[a].exists
                 /\ req'[h].read = agents'[a].mode \/ h \in overruled'
      <3>1. g # h
        BY <2>1, <2>7
      <3>2. req[h].read # ModeToWrite(g) => h \in overruled'
        BY <2>1, <2>7, <3>1 DEF SetPolicy, a
      <3> QED
        BY <2>1, <2>7, <3>2
    <2> QED
      BY <2>1, <2>2, <2>3, <2>5, <2>6, <2>7, AgentMoves
  <1>2. ASSUME AuthorizeRead(h), Found(h, Order(h).agent), req'[h].order = Order(h),
               req'[h].read = agents[Order(h).agent].mode
        PROVE  /\ agents'[req'[h].order.agent].exists
               /\ req'[h].read = agents'[req'[h].order.agent].mode
    BY <1>2 DEF AuthorizeRead, tables, Found
  <1>3. req' # [g \in Handlers |-> Idle] /\ req'[h] # Idle
    BY <1>0
  <1>4. ASSUME NEW t \in Tokens \cup {AdminToken}, NEW order \in Orders,
               NEW c \in Resolved(t),
               req'[h] = [at |-> "handler", who |-> c.who,
                          workspace |-> c.workspace, token |-> t, order |-> order,
                          read |-> "none"]
        PROVE  req'[h].at = "handler"
    BY <1>4
  <1>5. \/ req'[h] = req[h]
        \/ req'[h].at \in {"handler", "registry"}
        \/ /\ AuthorizeRead(h) /\ Found(h, Order(h).agent)
           /\ req'[h].order = Order(h)
           /\ req'[h].read = agents[Order(h).agent].mode
    BY <1>3, <1>4, OneRequestMoves
  <1> QED
    BY <1>1, <1>2, <1>5

\* No agent becomes autonomous by a field that was left out, except by an
\* authorization that another one has overruled since it looked.
THEOREM AutonomyIsOnlyNamed == Spec => AutonomyIsNamed
  <1> DEFINE Named ==
           \A a \in Agents :
               /\ agents'[a].exists /\ agents'[a].mode = "autonomous"
               /\ ~ (agents[a].exists /\ agents[a].mode = "autonomous")
               => \E h \in Handlers :
                     /\ req[h] # Idle /\ req'[h] = Idle
                     /\ \/ "autonomous" \in Order(h).mode
                        \/ req[h].read = "autonomous" /\ h \in overruled
  <1>1. Init => ReadingsAreFresh
    <2>1. Idle.at = "idle"
      BY DEF Idle
    <2> QED
      BY <2>1 DEF Init, ReadingsAreFresh
  <1>2. Types /\ ReadingsAreFresh /\ [Next]_vars => ReadingsAreFresh'
    BY ReadingsAreFreshNext
  <1>3. Types /\ ReadingsAreFresh /\ [Next]_vars => Named
    <2> SUFFICES ASSUME Types, ReadingsAreFresh, [Next]_vars, NEW a \in Agents,
                        agents'[a].exists, agents'[a].mode = "autonomous",
                        ~ (agents[a].exists /\ agents[a].mode = "autonomous")
                 PROVE  \E h \in Handlers :
                            /\ req[h] # Idle /\ req'[h] = Idle
                            /\ \/ "autonomous" \in Order(h).mode
                               \/ req[h].read = "autonomous" /\ h \in overruled
      OBVIOUS
    <2>1. ASSUME NEW h \in Handlers, SetPolicy(h), Order(h).agent = a, Found(h, a),
                 ModeToWrite(h) = "autonomous"
          PROVE  \/ "autonomous" \in Order(h).mode
                 \/ req[h].read = "autonomous" /\ h \in overruled
      <3>1. CASE Order(h).mode # {}
        BY <2>1, <3>1 DEF ModeToWrite
      <3>2. CASE Order(h).mode = {}
        <4>1. req[h].read = "autonomous" /\ agents[a].exists
          BY <2>1, <3>2 DEF ModeToWrite, Found
        <4>2. req[h].read = agents[a].mode \/ h \in overruled
          BY <2>1 DEF SetPolicy, ReadingsAreFresh
        <4> QED
          BY <4>1, <4>2
      <3> QED
        BY <3>1, <3>2
    <2>2. \A h \in Handlers : Found(h, a) => agents[a].exists
      BY DEF Found
    <2>3. \A h \in Handlers : req[h].at # "idle" => req[h] # Idle
      BY Busy
    <2> QED
      BY <2>1, <2>2, <2>3, AgentMoves
  <1>4. [][Named]_vars <=> AutonomyIsNamed
    BY DEF AutonomyIsNamed
  <1> HIDE DEF Named
  <1> QED
    BY <1>1, <1>2, <1>3, <1>4, TypesInvariance, PTL DEF Spec

-----------------------------------------------------------------------------
(***************************************************************************)
(* Providers: the table, the registry and tenancy.                         *)
(***************************************************************************)

\* What one provider's row may become in one step.
LEMMA ProviderMoves ==
    ASSUME Types, [Next]_vars, NEW p \in Providers
    PROVE  \/ providers'[p] = providers[p]
           \/ \E h \in Handlers :
                  /\ req[h].at # "idle" /\ req'[h] # req[h]
                  /\ providers[p].exists => MayTouch(h, providers[p].workspace)
           \/ /\ p = Default
              /\ ~ providers[p].exists \/ providers[p].workspace = NoWorkspace
  <1>0. /\ providers \in [Providers -> {None} \cup ProviderRows]
        /\ req \in [Handlers -> {Idle} \cup RequestRecords]
    BY DEF Types
  <1>1. CASE providers' = providers
    BY <1>1
  <1>2. ASSUME NEW h \in Handlers, RegisterProvider(h) \/ DeleteProvider(h)
        PROVE  \/ providers'[p] = providers[p]
               \/ /\ req[h].at # "idle" /\ req'[h] # req[h]
                  /\ providers[p].exists => MayTouch(h, providers[p].workspace)
    <2>1. PICK x \in RequestRecords :
              req' = [req EXCEPT ![h] = x] /\ x.at = "registry" /\ req[h].at = "handler"
      BY <1>2, ProviderGoesOn
    <2>2. req[h].at # "idle" /\ req'[h] # req[h]
      BY <1>0, <2>1
    <2>3. \/ providers'[p] = providers[p]
          \/ providers[p].exists => MayTouch(h, providers[p].workspace)
      BY <1>0, <1>2 DEF RegisterProvider, DeleteProvider, ToRegistry, MayTouch
    <2> QED
      BY <2>2, <2>3
  <1>3. ASSUME NEW h \in Handlers, UpdateRegistry(h) \/ Abandon(h)
        PROVE  providers' = providers
    BY <1>3 DEF UpdateRegistry, Abandon, tables
  <1>4. CASE Restart
    BY <1>0, <1>4, UpstreamEntered DEF Restart
  <1> QED
    BY <1>1, <1>2, <1>3, <1>4, ProviderSteps

\* A tenant's requests change the tenant's own agents and providers only.
THEOREM TenantsStayApart == Spec => TenantsApart
  <1> DEFINE Acting(workspace) ==
               \E h \in Handlers : /\ req'[h] # req[h]
                                   /\ req[h].at # "idle"
                                   /\ MayTouch(h, workspace)
             Apart ==
               /\ \A a \in Agents :
                     agents[a].exists /\ agents'[a] # agents[a] =>
                         Acting(agents[a].workspace)
               /\ \A p \in Providers :
                     providers[p].exists /\ providers'[p] # providers[p] =>
                         \/ Acting(providers[p].workspace)
                         \/ p = Default /\ providers[p].workspace = NoWorkspace
  <1>1. Types /\ [Next]_vars => Apart
    <2> SUFFICES ASSUME Types, [Next]_vars PROVE Apart
      OBVIOUS
    <2>1. ASSUME NEW a \in Agents, agents[a].exists, agents'[a] # agents[a]
          PROVE  Acting(agents[a].workspace)
      BY <2>1, AgentMoves DEF Found
    <2>2. ASSUME NEW p \in Providers, providers[p].exists,
                 providers'[p] # providers[p]
          PROVE  \/ Acting(providers[p].workspace)
                 \/ p = Default /\ providers[p].workspace = NoWorkspace
      BY <2>2, ProviderMoves
    <2> HIDE DEF Acting
    <2> QED
      BY <2>1, <2>2
  <1>2. [][Apart]_vars <=> TenantsApart
    BY DEF TenantsApart
  <1> HIDE DEF Apart
  <1> QED
    BY <1>1, <1>2, TypesInvariance, PTL DEF Spec

\* A request that has changed the table of p and not yet the registry, and what
\* it will write there.
AtRegistry(h, p) == req[h].at = "registry" /\ Order(h).provider = p
Entry(order) ==
    IF order.route = "register" THEN [exists |-> TRUE, listing |-> order.listing]
    ELSE None

\* The inductive invariant behind RegistryShowsNewest: the request that wrote the
\* newest row is still half way, and will write what the table says.
NewestAgrees ==
    \A p \in Providers :
        /\ newest[p] = "shown" => registry[p] = Public(providers[p])
        /\ \A h \in Handlers :
               newest[p] = h =>
                   AtRegistry(h, p) /\ Entry(Order(h)) = Public(providers[p])

\* Steps of other routes leave the requests that are half way alone.
LEMMA OtherRoutes ==
    ASSUME Types, [Next]_vars
    PROVE  \/ /\ UNCHANGED <<providers, registry, newest>>
              /\ \A h \in Handlers :
                     \/ req'[h] = req[h]
                     \/ req[h].at # "registry" /\ req'[h].at # "registry"
           \/ \E h \in Handlers :
                  \/ RegisterProvider(h) \/ DeleteProvider(h)
                  \/ UpdateRegistry(h) \/ Abandon(h)
           \/ Restart
  <1>0. Idle.at = "idle" /\ req \in [Handlers -> {Idle} \cup RequestRecords]
    BY DEF Idle, Types
  <1> DEFINE Quiet ==
           /\ UNCHANGED <<providers, registry, newest>>
           /\ \A h \in Handlers :
                  \/ req'[h] = req[h]
                  \/ req[h].at # "registry" /\ req'[h].at # "registry"
  <1>1. ASSUME NEW h \in Handlers, NEW t \in Tokens \cup {AdminToken},
               NEW order \in Orders, RequireAdmin(h, t, order)
        PROVE  Quiet
    <2>1. UNCHANGED <<providers, registry, newest>> /\ req[h].at = "idle"
      BY <1>0, <1>1 DEF RequireAdmin, tables, history
    <2>2. PICK c \in Resolved(t) : req' = [req EXCEPT ![h] =
              [at |-> "handler", who |-> c.who, workspace |-> c.workspace,
               token |-> t, order |-> order, read |-> "none"]]
      BY <1>1 DEF RequireAdmin
    <2>3. req'[h].at = "handler" /\ \A g \in Handlers : g # h => req'[g] = req[g]
      BY <1>0, <2>2
    <2> QED
      BY <2>1, <2>3
  <1>2. ASSUME NEW h \in Handlers, End(h), req[h].at # "registry"
        PROVE  \A g \in Handlers :
                  \/ req'[g] = req[g]
                  \/ req[g].at # "registry" /\ req'[g].at # "registry"
    BY <1>0, <1>2 DEF End
  <1>3. ASSUME NEW h \in Handlers,
               \/ CreateOperator(h) \/ RotateOwnToken(h) \/ SetOperatorStatus(h)
               \/ CreateAgent(h) \/ SetPolicy(h) \/ SetAgentStatus(h)
               \/ DecideApproval(h)
        PROVE  Quiet
    <2>1. End(h) /\ req[h].at # "registry"
      BY <1>3 DEF CreateOperator, RotateOwnToken, SetOperatorStatus, CreateAgent,
                  SetPolicy, SetAgentStatus, DecideApproval, In
    <2>2. UNCHANGED <<providers, registry, newest>>
      BY <1>3 DEF CreateOperator, RotateOwnToken, SetOperatorStatus, CreateAgent,
                  SetPolicy, SetAgentStatus, DecideApproval, history
    <2> QED
      BY <1>2, <2>1, <2>2
  <1>4. ASSUME NEW h \in Handlers, AuthorizeRead(h)
        PROVE  Quiet
    <2>1. UNCHANGED <<providers, registry, newest>> /\ req[h].at = "handler"
      BY <1>4 DEF AuthorizeRead, tables, history, In
    <2>2. CASE End(h)
      BY <1>2, <2>1, <2>2
    <2>3. ASSUME NEW x \in RequestRecords, req' = [req EXCEPT ![h] = x],
                 x.at = "set_policy"
          PROVE  Quiet
      BY <1>0, <2>1, <2>3
    <2> QED
      BY <1>4, <2>2, <2>3, AuthorizeGoesOn
  <1>5. ASSUME NEW p \in Approvals,
               ConsumeApproval(p) \/ \E a \in Agents : RaiseApproval(p, a)
        PROVE  Quiet
    BY <1>5 DEF ConsumeApproval, RaiseApproval, history
  <1>6. ASSUME UNCHANGED vars PROVE Quiet
    BY <1>6 DEF vars
  <1>7. \/ \E h \in Handlers : \E t \in Tokens \cup {AdminToken}, order \in Orders :
               RequireAdmin(h, t, order)
        \/ \E h \in Handlers :
               \/ CreateOperator(h) \/ RotateOwnToken(h) \/ SetOperatorStatus(h)
               \/ CreateAgent(h) \/ SetPolicy(h) \/ SetAgentStatus(h)
               \/ DecideApproval(h)
        \/ \E h \in Handlers : AuthorizeRead(h)
        \/ \E p \in Approvals :
               ConsumeApproval(p) \/ \E a \in Agents : RaiseApproval(p, a)
        \/ UNCHANGED vars
        \/ \E h \in Handlers :
               \/ RegisterProvider(h) \/ DeleteProvider(h)
               \/ UpdateRegistry(h) \/ Abandon(h)
        \/ Restart
    BY DEF Next
  <1> HIDE DEF Quiet
  <1>8. \/ Quiet \/ Restart
        \/ \E h \in Handlers :
                  \/ RegisterProvider(h) \/ DeleteProvider(h)
                  \/ UpdateRegistry(h) \/ Abandon(h)
    <2>1. CASE \E h \in Handlers : \E t \in Tokens \cup {AdminToken}, order \in Orders :
                   RequireAdmin(h, t, order)
      BY <1>1, <2>1
    <2>2. CASE \E h \in Handlers :
                   \/ CreateOperator(h) \/ RotateOwnToken(h) \/ SetOperatorStatus(h)
                   \/ CreateAgent(h) \/ SetPolicy(h) \/ SetAgentStatus(h)
                   \/ DecideApproval(h)
      BY <1>3, <2>2
    <2>3. CASE \E h \in Handlers : AuthorizeRead(h)
      BY <1>4, <2>3
    <2>4. CASE \E p \in Approvals :
                   ConsumeApproval(p) \/ \E a \in Agents : RaiseApproval(p, a)
      BY <1>5, <2>4
    <2>5. CASE UNCHANGED vars
      BY <1>6, <2>5
    <2>6. CASE \E h \in Handlers :
                   \/ RegisterProvider(h) \/ DeleteProvider(h)
                   \/ UpdateRegistry(h) \/ Abandon(h)
      BY <2>6
    <2>7. CASE Restart
      BY <2>7
    <2> QED
      BY <1>7, <2>1, <2>2, <2>3, <2>4, <2>5, <2>6, <2>7
  <1> QED
    BY <1>8 DEF Quiet

\* Changing the table: the row is the newest, and the request that wrote it is
\* half way; a statement that was refused changes neither.
LEMMA TableStep ==
    ASSUME Types, NewestAgrees, NEW h \in Handlers,
           RegisterProvider(h) \/ DeleteProvider(h)
    PROVE  NewestAgrees'
  <1>0. /\ providers \in [Providers -> {None} \cup ProviderRows]
        /\ req \in [Handlers -> {Idle} \cup RequestRecords]
        /\ newest \in [Providers -> Handlers \cup {"shown", "hidden"}]
        /\ "shown" \notin Handlers
    BY ControlAssumption DEF Types
  <1>1. PICK x \in RequestRecords :
            /\ req' = [req EXCEPT ![h] = x]
            /\ x.at = "registry" /\ x.order = Order(h)
            /\ Order(h).route \in {"register", "delete"}
            /\ Order(h).provider \in Providers /\ req[h].at = "handler"
    BY ProviderGoesOn
  <1>p. PICK p \in Providers : p = Order(h).provider
    BY <1>1
  <1>r. PICK row : row = IF Order(h).route = "register"
                         THEN Registered(Order(h).listing, req[h].workspace)
                         ELSE None
    OBVIOUS
  <1>2. /\ req'[h] = x /\ \A g \in Handlers : g # h => req'[g] = req[g]
        /\ registry' = registry
    BY <1>0, <1>1 DEF RegisterProvider, DeleteProvider, ToRegistry
  <1>3. \/ providers' = providers /\ newest' = newest
        \/ /\ providers' = [providers EXCEPT ![p] = row]
           /\ newest' = [newest EXCEPT ![p] = h]
    <2>1. CASE RegisterProvider(h)
      BY <1>p, <1>r, <2>1 DEF RegisterProvider, ToRegistry, In, Order
    <2>2. CASE DeleteProvider(h)
      BY <1>p, <1>r, <2>2 DEF DeleteProvider, ToRegistry, In, Order
    <2> QED
      BY <2>1, <2>2
  <1>4. Entry(Order(h)) = Public(row)
    <2>0. Public(None) = None
      BY DEF Public, None
    <2>1. Order(h) \in Orders /\ req[h].workspace \in Tenants
      BY <1>1, Busy, ReqFields
    <2>2. Order(h).route = "register" =>
              Public(Registered(Order(h).listing, req[h].workspace))
                  = [exists |-> TRUE, listing |-> Order(h).listing]
      BY <2>1, OrderFields, RegisteredType
    <2> QED
      BY <1>r, <2>0, <2>2 DEF Entry
  <1>5. AtRegistry(h, p)' /\ Order(h)' = Order(h)
    BY <1>1, <1>2, <1>p DEF AtRegistry, Order
  <1>6. \A g \in Handlers, q \in Providers :
            AtRegistry(g, q) => AtRegistry(g, q)' /\ Order(g)' = Order(g)
    BY <1>1, <1>2 DEF AtRegistry, Order
  <1> SUFFICES ASSUME NEW q \in Providers
      PROVE  /\ newest'[q] = "shown" => registry'[q] = Public(providers'[q])
             /\ \A g \in Handlers :
                    newest'[q] = g =>
                        AtRegistry(g, q)' /\ Entry(Order(g)') = Public(providers'[q])
    BY DEF NewestAgrees
  <1>7. CASE newest'[q] = newest[q] /\ providers'[q] = providers[q]
    BY <1>2, <1>6, <1>7 DEF NewestAgrees
  <1>8. CASE q = p /\ providers'[p] = row /\ newest'[p] = h
    BY <1>0, <1>4, <1>5, <1>8
  <1> QED
    BY <1>0, <1>3, <1>7, <1>8

\* Changing the registry, or giving up half way: the request is gone, and the
\* newest row is shown if it was the request's own.
LEMMA RegistryStep ==
    ASSUME Types, NewestAgrees, NEW h \in Handlers,
           UpdateRegistry(h) \/ Abandon(h)
    PROVE  NewestAgrees'
  <1>0. /\ registry \in [Providers -> {None} \cup RegistryRows]
        /\ req \in [Handlers -> {Idle} \cup RequestRecords]
        /\ newest \in [Providers -> Handlers \cup {"shown", "hidden"}]
        /\ "shown" \notin Handlers /\ "hidden" \notin Handlers
    BY ControlAssumption DEF Types
  <1>1. /\ \A g \in Handlers : g # h => req'[g] = req[g]
        /\ providers' = providers
    BY <1>0 DEF UpdateRegistry, Abandon, End, tables
  <1>2. \A g \in Handlers, q \in Providers :
            g # h => (AtRegistry(g, q) => AtRegistry(g, q)' /\ Order(g)' = Order(g))
    BY <1>1 DEF AtRegistry, Order
  <1> SUFFICES ASSUME NEW q \in Providers
      PROVE  /\ newest'[q] = "shown" => registry'[q] = Public(providers'[q])
             /\ \A g \in Handlers :
                    newest'[q] = g =>
                        AtRegistry(g, q)' /\ Entry(Order(g)') = Public(providers'[q])
    BY DEF NewestAgrees
  <1>3. CASE newest'[q] = newest[q] /\ newest[q] # h /\
             (newest[q] = "shown" => registry'[q] = registry[q])
    BY <1>1, <1>2, <1>3 DEF NewestAgrees
  <1>4. CASE newest'[q] = "hidden"
    BY <1>0, <1>4
  <1>5. CASE newest'[q] = "shown" /\ newest[q] = h /\ UpdateRegistry(h)
    <2>1. AtRegistry(h, q) /\ Entry(Order(h)) = Public(providers[q])
      BY <1>5 DEF NewestAgrees
    <2>2. registry'[q] = Entry(Order(h))
      BY <1>0, <1>5, <2>1 DEF UpdateRegistry, AtRegistry, Entry
    <2> QED
      BY <1>0, <1>1, <1>5, <2>1, <2>2
  <1>6. CASE Abandon(h)
    BY <1>0, <1>3, <1>4, <1>6 DEF Abandon
  <1>7. CASE UpdateRegistry(h)
    <2>1. CASE Order(h).provider # q
      <3>1. newest'[q] = newest[q] /\ registry'[q] = registry[q]
        BY <1>0, <1>7, <2>1 DEF UpdateRegistry
      <3>2. newest[q] # h
        BY <2>1 DEF NewestAgrees, AtRegistry
      <3> QED
        BY <1>3, <3>1, <3>2
    <2>2. CASE Order(h).provider = q
      <3>1. newest'[q] = ShownBy(h, q)
        BY <1>0, <1>7, <2>2 DEF UpdateRegistry
      <3> QED
        BY <1>0, <1>3, <1>4, <1>5, <1>7, <3>1 DEF ShownBy
    <2> QED
      BY <2>1, <2>2
  <1> QED
    BY <1>6, <1>7

\* A boot shows what it has loaded, and the upstream it has also written.
LEMMA RestartStep ==
    ASSUME Types, Restart
    PROVE  NewestAgrees'
  <1>0. /\ providers \in [Providers -> {None} \cup ProviderRows]
        /\ "shown" \notin Handlers /\ "hidden" \notin Handlers
        /\ Default \in Providers
    BY ControlAssumption DEF Types
  <1>1. PICK url \in Upstreams, readable \in BOOLEAN, written \in BOOLEAN :
            /\ registry' = Loaded(IF readable THEN providers ELSE EmptyTable, url)
            /\ providers' = IF written THEN WithUpstream(providers, url) ELSE providers
            /\ newest' = [p \in Providers |->
                   IF IF p = Default /\ url # {}
                      THEN written /\ ~ Foreign(providers[p]) ELSE readable
                   THEN "shown" ELSE "hidden"]
    BY DEF Restart
  <1>2. PICK table \in [Providers -> {None} \cup ProviderRows] :
            /\ table = IF readable THEN providers ELSE EmptyTable
            /\ registry' = Loaded(table, url)
    BY <1>0, <1>1, EmptyTableType
  <1>3. \A p \in Providers : newest'[p] \in {"shown", "hidden"}
    BY <1>1
  <1>4. ASSUME NEW p \in Providers, newest'[p] = "shown"
        PROVE  registry'[p] = Public(providers'[p])
    <2>1. CASE p = Default /\ url # {}
      <3>1. written /\ ~ Foreign(providers[Default])
        BY <1>1, <1>4, <2>1
      <3>2. providers'[Default] = Registered(CHOOSE u \in url : TRUE, NoWorkspace)
        BY <1>0, <1>1, <2>1, <3>1, UpstreamEntered
      <3>3. registry'[Default] = Public(Registered(CHOOSE u \in url : TRUE, NoWorkspace))
        BY <1>2, <2>1, LoadedType
      <3> QED
        BY <2>1, <3>2, <3>3
    <2>2. CASE ~ (p = Default /\ url # {})
      <3>1. readable
        BY <1>1, <1>4, <2>2
      <3>2. providers'[p] = providers[p]
        BY <1>0, <1>1, <2>2, UpstreamEntered
      <3>3. registry'[p] = Public(table[p])
        BY <1>2, <2>2, LoadedType
      <3> QED
        BY <1>2, <3>1, <3>2, <3>3
    <2> QED
      BY <2>1, <2>2
  <1> QED
    BY <1>0, <1>3, <1>4 DEF NewestAgrees

\* The registry shows the newest row of the table once the request that wrote it,
\* or the boot, has come to the registry and nobody has written that since.
THEOREM RegistryShowsTheNewest == Spec => []RegistryShowsNewest
  <1>1. Init => NewestAgrees
    <2> SUFFICES ASSUME Init PROVE NewestAgrees
      OBVIOUS
    <2>0. "shown" \notin Handlers /\ Default \in Providers
          /\ None.exists = FALSE
      BY ControlAssumption DEF None
    <2>1. PICK url \in Upstreams : /\ providers = WithUpstream(EmptyTable, url)
                                   /\ registry = Loaded(EmptyTable, url)
      BY DEF Init
    <2>2. ~ Foreign(EmptyTable[Default])
      BY <2>0, EmptyTableType DEF Foreign
    <2>3. ASSUME NEW p \in Providers PROVE registry[p] = Public(providers[p])
      <3>1. CASE p = Default /\ url # {}
        BY <2>1, <2>2, <3>1, EmptyTableType, UpstreamEntered, LoadedType
      <3>2. CASE ~ (p = Default /\ url # {})
        <4>1. providers[p] = EmptyTable[p]
          BY <2>1, <3>2, EmptyTableType, UpstreamEntered
        <4>2. registry[p] = Public(EmptyTable[p])
          BY <2>1, <3>2, EmptyTableType, LoadedType
        <4> QED
          BY <4>1, <4>2
      <3> QED
        BY <3>1, <3>2
    <2> QED
      BY <2>0, <2>3 DEF Init, NewestAgrees
  <1>2. Types /\ NewestAgrees /\ [Next]_vars => NewestAgrees'
    <2> SUFFICES ASSUME Types, NewestAgrees, [Next]_vars PROVE NewestAgrees'
      OBVIOUS
    <2>1. ASSUME UNCHANGED <<providers, registry, newest>>,
                 \A h \in Handlers :
                     \/ req'[h] = req[h]
                     \/ req[h].at # "registry" /\ req'[h].at # "registry"
          PROVE  NewestAgrees'
      <3>1. \A h \in Handlers, p \in Providers :
                AtRegistry(h, p) => AtRegistry(h, p)' /\ Order(h)' = Order(h)
        BY <2>1 DEF AtRegistry, Order
      <3>2. providers' = providers /\ registry' = registry /\ newest' = newest
        BY <2>1
      <3> SUFFICES ASSUME NEW q \in Providers
          PROVE  /\ newest'[q] = "shown" => registry'[q] = Public(providers'[q])
                 /\ \A g \in Handlers :
                        newest'[q] = g =>
                            /\ AtRegistry(g, q)'
                            /\ Entry(Order(g)') = Public(providers'[q])
        BY DEF NewestAgrees
      <3> QED
        BY <3>1, <3>2 DEF NewestAgrees
    <2> QED
      BY <2>1, TableStep, RegistryStep, RestartStep, OtherRoutes
  <1>3. NewestAgrees => RegistryShowsNewest
    BY DEF NewestAgrees, RegistryShowsNewest
  <1> QED
    BY <1>1, <1>2, <1>3, TypesInvariance, PTL DEF Spec
=============================================================================
