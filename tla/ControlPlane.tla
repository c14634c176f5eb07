---------------------------- MODULE ControlPlane ----------------------------
(***************************************************************************)
(* The operators' side of the gateway: who may call (auth.rs), and what a  *)
(* call does to the operators, the agents, the approvals and the providers *)
(* (control.rs, control_db.rs, registry.rs, and the boot in main.rs).      *)
(*                                                                         *)
(* A request is authenticated first and acts later, as the operator it was *)
(* resolved to then: the credential may be gone by the time it acts.  It   *)
(* may end at any await.  A request that is malformed or finds nothing to  *)
(* change ends without an effect; listings change nothing.                 *)
(*                                                                         *)
(* An admin token is configured: without one the gateway binds to loopback *)
(* only and every caller is the shared operator.  A token is itself its    *)
(* hash.  What a provider registration says (label, URL, key, enabled) is  *)
(* one value, its listing; so is an agent's envelope.  A workspace of NULL *)
(* is NoWorkspace: the shared token, and every operator minted here.       *)
(***************************************************************************)
EXTENDS Integers, FiniteSets

CONSTANTS
    Operators,      \* operator ids
    Tokens,         \* tokens that may be minted
    Scopes,         \* the operators that exist at first: id -> workspace
    Workspaces, NoWorkspace,
    Agents,         \* agent ids
    Wallets,        \* agent keys
    Envelopes,      \* policies
    Approvals,      \* approval ids
    Providers,      \* provider ids
    Listings,       \* what a registration may say
    Upstreams,      \* what AGENTPAY_UPSTREAM_URL may say at a boot, or {}
    Handlers        \* requests under way at once

VARIABLES
    operators, agents, approvals, providers,    \* tables
    registry,       \* the in-memory provider registry
    req,            \* requests under way
    keeper,         \* whom a token was minted for (history)
    overruled,      \* requests whose reading of a mode another one has changed
                    \* since (history)
    newest          \* how far the newest row of a provider has come: the request
                    \* that is about to show it, "shown" in the registry, or
                    \* "hidden" (history)

tables == <<operators, agents, approvals, providers>>
history == <<keeper, overruled, newest>>
vars == <<operators, agents, approvals, providers, registry, req,
          keeper, overruled, newest>>

Shared == "op_shared_token"     \* SHARED_TOKEN_OPERATOR
AdminToken == "admin_token"     \* AGENTPAY_ADMIN_TOKEN
Default == "default"            \* DEFAULT_PROVIDER_ID
None == [exists |-> FALSE]
Modes == {"human", "autonomous"}
Statuses == {"active", "suspended"}
Tenants == Workspaces \cup {NoWorkspace}

\* Optional settings and fields are sets of at most one element.
Optional(S) == {{}} \cup {{x} : x \in S}

ASSUME ControlAssumption ==
    /\ DOMAIN Scopes \subseteq Operators
    /\ \A o \in DOMAIN Scopes : Scopes[o] \in Tenants
    /\ Cardinality(DOMAIN Scopes) <= Cardinality(Tokens)
    /\ NoWorkspace \notin Workspaces
    /\ Shared \notin Operators /\ "nobody" \notin Operators
    /\ AdminToken \notin Tokens
    /\ "shown" \notin Handlers /\ "hidden" \notin Handlers
    /\ Default \in Providers
    /\ Upstreams \subseteq Optional(Listings)

OperatorRows ==
    [exists : {TRUE}, token : Tokens, workspace : Tenants, enabled : BOOLEAN]
AgentRows ==
    [exists : {TRUE}, wallet : Wallets, workspace : Tenants, mode : Modes,
     status : Statuses, policy : Optional(Envelopes)]
ApprovalStates == {"pending", "approved", "rejected", "consumed"}
\* by is decided_by; with, the token behind the decision, is history.
ApprovalRows ==
    [exists : {TRUE}, agent : Agents, state : ApprovalStates,
     by : Operators \cup {Shared, "nobody"},
     with : Tokens \cup {AdminToken, "none"}]
ProviderRows ==
    [exists : {TRUE}, listing : Listings, workspace : Tenants]
RegistryRows == [exists : {TRUE}, listing : Listings]

Orders ==
    [route : {"create_operator", "rotate"}]
    \cup [route : {"set_operator_status"}, operator : Operators, enabled : BOOLEAN]
    \cup [route : {"create_agent"}, wallet : Wallets, mode : Optional(Modes)]
    \cup [route : {"authorize"}, agent : Agents, mode : Optional(Modes),
          envelope : Envelopes]
    \cup [route : {"set_agent_status"}, agent : Agents, status : Statuses]
    \cup [route : {"decide"}, approval : Approvals, verdict : {"approved", "rejected"}]
    \cup [route : {"register"}, provider : Providers, listing : Listings]
    \cup [route : {"delete"}, provider : Providers]

Idle == [at |-> "idle"]

-----------------------------------------------------------------------------
(***************************************************************************)
(* Authentication.                                                         *)
(***************************************************************************)

\* operator_by_token_hash: the enabled operator a token belongs to.
Holder(t) ==
    {o \in Operators : /\ operators[o].exists
                       /\ operators[o].token = t /\ operators[o].enabled}

ResolvedByToken(t) ==
    IF t = AdminToken THEN {[who |-> t, workspace |-> NoWorkspace]}
    ELSE {[who |-> o, workspace |-> operators[o].workspace] : o \in Holder(t)}

\* Whom require_admin resolves a token to: the shared token first, then the
\* table.
Resolved(t) ==
    IF t = AdminToken THEN {[who |-> Shared, workspace |-> NoWorkspace]}
    ELSE {[who |-> o, workspace |-> operators[o].workspace] : o \in Holder(t)}

\* The caller presents token t with an order; what follows acts as caller c.
RequireAdmin(h, t, order) ==
    /\ req[h] = Idle
    /\ \E c \in Resolved(t) :
          req' = [req EXCEPT ![h] =
              [at |-> "handler", who |-> c.who, workspace |-> c.workspace,
               token |-> t, order |-> order, read |-> "none"]]
    /\ UNCHANGED <<tables, registry, history>>

\* The request of h is in its handler for this route.
In(h, route) == req[h].at = "handler" /\ req[h].order.route = route
Order(h) == req[h].order
End(h) == req' = [req EXCEPT ![h] = Idle]

\* Tenant predicate of a scoped statement on a row's workspace.
MayTouch(h, workspace) ==
    req[h].workspace = NoWorkspace \/ req[h].workspace = workspace

-----------------------------------------------------------------------------
(***************************************************************************)
(* Operators.                                                              *)
(***************************************************************************)

\* 256 random bits: a token nobody has had.
Fresh(t) == keeper[t] = "nobody"

\* create_operator: a new id, no workspace.
CreateOperator(h) ==
    /\ In(h, "create_operator")
    /\ \E o \in Operators, t \in Tokens :
          /\ ~ operators[o].exists /\ Fresh(t)
          /\ operators' = [operators EXCEPT ![o] =
                 [exists |-> TRUE, token |-> t, workspace |-> NoWorkspace,
                  enabled |-> TRUE]]
          /\ keeper' = [keeper EXCEPT ![t] = o]
    /\ End(h)
    /\ UNCHANGED <<agents, approvals, providers, registry, overruled, newest>>

RotatableAny(h) ==
    {o \in Operators : operators[o].exists /\ operators[o].enabled}

\* The row rotate_operator_token updates: the caller's own, if still enabled.
Rotatable(h) ==
    {o \in Operators : /\ o = req[h].who
                       /\ operators[o].exists /\ operators[o].enabled}

\* rotate_own_token: the answer, with the new token, goes to the caller.  The
\* shared token has no row and is refused.
RotateOwnToken(h) ==
    /\ In(h, "rotate")
    /\ \/ \E o \in Rotatable(h), t \in Tokens :
             /\ Fresh(t)
             /\ operators' = [operators EXCEPT ![o].token = t]
             /\ keeper' = [keeper EXCEPT ![t] = req[h].who]
       \/ Rotatable(h) = {} /\ UNCHANGED <<operators, keeper>>
    /\ End(h)
    /\ UNCHANGED <<agents, approvals, providers, registry, overruled, newest>>

SetOperatorStatus(h) ==
    /\ In(h, "set_operator_status")
    /\ LET o == Order(h).operator
       IN  operators' = IF operators[o].exists
                        THEN [operators EXCEPT ![o].enabled = Order(h).enabled]
                        ELSE operators
    /\ End(h)
    /\ UNCHANGED <<agents, approvals, providers, registry, history>>

-----------------------------------------------------------------------------
(***************************************************************************)
(* Agents.                                                                 *)
(***************************************************************************)

Taken(wallet) == \E a \in Agents : agents[a].exists /\ agents[a].wallet = wallet

AutonomousUnlessNamed(modes) ==
    IF modes = {} THEN "autonomous" ELSE CHOOSE m \in modes : TRUE

\* A mode that is left out is human, the more restrictive one.
ModeAsked(modes) ==
    IF modes = {} THEN "human" ELSE CHOOSE m \in modes : TRUE

\* create_agent: in the caller's workspace, human unless asked otherwise; a
\* wallet that has an agent gets no second one.
CreateAgent(h) ==
    /\ In(h, "create_agent")
    /\ LET wallet == Order(h).wallet
       IN  \/ /\ Taken(wallet)
              /\ UNCHANGED agents
           \/ \E a \in Agents :
                 /\ ~ agents[a].exists /\ ~ Taken(wallet)
                 /\ agents' = [agents EXCEPT ![a] =
                        [exists |-> TRUE, wallet |-> wallet,
                         workspace |-> req[h].workspace,
                         mode |-> ModeAsked(Order(h).mode),
                         status |-> "active", policy |-> {}]]
    /\ End(h)
    /\ UNCHANGED <<operators, approvals, providers, registry, history>>

\* The agent row a scoped SELECT or UPDATE finds.
Found(h, a) == agents[a].exists /\ MayTouch(h, agents[a].workspace)

\* authorize_agent reads the agent, for the mode the request does not name ...
AuthorizeRead(h) ==
    /\ In(h, "authorize")
    /\ IF Found(h, Order(h).agent)
       THEN req' = [req EXCEPT ![h].at = "set_policy",
                               ![h].read = agents[Order(h).agent].mode]
       ELSE End(h)
    /\ UNCHANGED <<tables, registry, history>>

\* req.mode.unwrap_or(existing.mode)
ModeToWrite(h) ==
    IF Order(h).mode = {} THEN req[h].read ELSE CHOOSE m \in Order(h).mode : TRUE

\* ... and writes mode and envelope in one transaction (set_policy).
SetPolicy(h) ==
    /\ req[h].at = "set_policy"
    /\ LET a == Order(h).agent
       IN  IF Found(h, a)
           THEN /\ agents' = [agents EXCEPT ![a].mode = ModeToWrite(h),
                                            ![a].policy = {Order(h).envelope}]
                /\ overruled' = (overruled \cup
                       {g \in Handlers : /\ req[g].at = "set_policy"
                                         /\ Order(g).agent = a
                                         /\ req[g].read # ModeToWrite(h)}) \ {h}
           ELSE agents' = agents /\ overruled' = overruled \ {h}
    /\ End(h)
    /\ UNCHANGED <<operators, approvals, providers, registry, keeper, newest>>

SuspendUnscoped(h) ==
    /\ In(h, "set_agent_status")
    /\ LET a == Order(h).agent
       IN  agents' = IF agents[a].exists
                     THEN [agents EXCEPT ![a].status = Order(h).status]
                     ELSE agents
    /\ End(h)
    /\ UNCHANGED <<operators, approvals, providers, registry, history>>

\* set_agent_status: the tenant predicate is on the UPDATE itself.
SetAgentStatus(h) ==
    /\ In(h, "set_agent_status")
    /\ LET a == Order(h).agent
       IN  agents' = IF Found(h, a)
                     THEN [agents EXCEPT ![a].status = Order(h).status]
                     ELSE agents
    /\ End(h)
    /\ UNCHANGED <<operators, approvals, providers, registry, history>>

-----------------------------------------------------------------------------
(***************************************************************************)
(* Approvals.                                                              *)
(***************************************************************************)

\* create_approval, by a purchase that needs one (Purchase models the buyer).
RaiseApproval(p, a) ==
    /\ agents[a].exists /\ ~ approvals[p].exists
    /\ approvals' = [approvals EXCEPT ![p] =
           [exists |-> TRUE, agent |-> a, state |-> "pending", by |-> "nobody",
            with |-> "none"]]
    /\ UNCHANGED <<operators, agents, providers, registry, req, history>>

\* consume_approval, by the purchase.
ConsumeApproval(p) ==
    /\ approvals[p].exists /\ approvals[p].state = "approved"
    /\ approvals' = [approvals EXCEPT ![p].state = "consumed"]
    /\ UNCHANGED <<operators, agents, providers, registry, req, history>>

DecidableAny(p) == approvals[p].exists

\* WHERE approval_id = $1 AND state = 'pending'
Decidable(p) == approvals[p].exists /\ approvals[p].state = "pending"

\* decide_approval: recorded under the operator the request was resolved to.
DecideApproval(h) ==
    /\ In(h, "decide")
    /\ LET p == Order(h).approval
       IN  approvals' = IF Decidable(p)
                        THEN [approvals EXCEPT ![p].state = Order(h).verdict,
                                 ![p].by = req[h].who, ![p].with = req[h].token]
                        ELSE approvals
    /\ End(h)
    /\ UNCHANGED <<operators, agents, providers, registry, history>>

-----------------------------------------------------------------------------
(***************************************************************************)
(* Providers: the table first, then the registry.                          *)
(***************************************************************************)

Registered(listing, workspace) ==
    [exists |-> TRUE, listing |-> listing, workspace |-> workspace]

\* The outcome of the statement on the table; the handler goes on to the
\* registry even if the tenant guard has refused it.
ToRegistry(h, refused, row) ==
    /\ providers' = IF refused THEN providers
                    ELSE [providers EXCEPT ![Order(h).provider] = row]
    /\ newest' = IF refused THEN newest
                 ELSE [newest EXCEPT ![Order(h).provider] = h]
    /\ req' = [req EXCEPT ![h].at = "registry"]
    /\ UNCHANGED <<operators, agents, approvals, registry, keeper, overruled>>

\* upsert_provider: a row of another tenant is left alone.
RegisterProvider(h) ==
    /\ In(h, "register")
    /\ LET row == providers[Order(h).provider]
       IN  ToRegistry(h, row.exists /\ row.workspace # req[h].workspace,
                      Registered(Order(h).listing, req[h].workspace))

\* delete_provider
DeleteProvider(h) ==
    /\ In(h, "delete")
    /\ LET row == providers[Order(h).provider]
       IN  ToRegistry(h, row.exists /\ ~ MayTouch(h, row.workspace), None)

\* The registry has been written by h: the newest row is shown if it is h's, and
\* one that was shown before is hidden again.
ShownBy(h, p) ==
    IF newest[p] = h THEN "shown"
    ELSE IF newest[p] = "shown" THEN "hidden" ELSE newest[p]

RegistrySkipsDelete(h) ==
    /\ req[h].at = "registry"
    /\ registry' = IF Order(h).route = "register"
                   THEN [registry EXCEPT ![Order(h).provider] =
                            [exists |-> TRUE, listing |-> Order(h).listing]]
                   ELSE registry
    /\ newest' = [newest EXCEPT ![Order(h).provider] =
                      ShownBy(h, Order(h).provider)]
    /\ End(h)
    /\ UNCHANGED <<tables, keeper, overruled>>

\* Registry::upsert, Registry::remove
UpdateRegistry(h) ==
    /\ req[h].at = "registry"
    /\ registry' = [registry EXCEPT ![Order(h).provider] =
           IF Order(h).route = "register"
           THEN [exists |-> TRUE, listing |-> Order(h).listing] ELSE None]
    /\ newest' = [newest EXCEPT ![Order(h).provider] =
                      ShownBy(h, Order(h).provider)]
    /\ End(h)
    /\ UNCHANGED <<tables, keeper, overruled>>

\* What the registry holds for a row of the table.
Public(row) ==
    IF row.exists THEN [exists |-> TRUE, listing |-> row.listing] ELSE None

\* A row that an unscoped registration leaves alone.
Foreign(row) == row.exists /\ row.workspace # NoWorkspace

\* The configured upstream, if any, entered into the table as an unscoped
\* registration ...
WithUpstream(table, url) ==
    IF url = {} \/ Foreign(table[Default]) THEN table
    ELSE [table EXCEPT ![Default] =
              Registered(CHOOSE u \in url : TRUE, NoWorkspace)]

\* ... and into the registry loaded from the table, or from none.
Loaded(table, url) ==
    [p \in Providers |->
        IF p = Default /\ url # {}
        THEN [exists |-> TRUE, listing |-> CHOOSE u \in url : TRUE]
        ELSE Public(table[p])]

EmptyTable == [p \in Providers |-> None]

\* The gateway restarts: requests are gone, the registry is loaded from the
\* table (empty if that cannot be read), the configured upstream is entered, and
\* a failure to write it to the table is ignored.
Restart ==
    /\ req' = [h \in Handlers |-> Idle]
    /\ \E url \in Upstreams, readable, written \in BOOLEAN :
          /\ registry' = Loaded(IF readable THEN providers ELSE EmptyTable, url)
          /\ providers' = IF written THEN WithUpstream(providers, url) ELSE providers
          /\ newest' = [p \in Providers |->
                 IF IF p = Default /\ url # {}
                    THEN written /\ ~ Foreign(providers[p]) ELSE readable
                 THEN "shown" ELSE "hidden"]
    /\ overruled' = {}
    /\ UNCHANGED <<operators, agents, approvals, keeper>>

\* The request is dropped at an await: the caller is gone, or 15 s are over.
Abandon(h) ==
    /\ req[h].at # "idle"
    /\ newest' = [p \in Providers |-> IF newest[p] = h THEN "hidden" ELSE newest[p]]
    /\ overruled' = overruled \ {h}
    /\ End(h)
    /\ UNCHANGED <<tables, registry, keeper>>

-----------------------------------------------------------------------------
\* At first: some operators with a token each, and a gateway just booted.
Init ==
    /\ \E first \in [DOMAIN Scopes -> Tokens] :
          /\ \A o, q \in DOMAIN Scopes : first[o] = first[q] => o = q
          /\ operators = [o \in Operators |->
                 IF o \in DOMAIN Scopes
                 THEN [exists |-> TRUE, token |-> first[o],
                       workspace |-> Scopes[o], enabled |-> TRUE]
                 ELSE None]
          /\ keeper = [t \in Tokens |->
                 IF \E o \in DOMAIN Scopes : first[o] = t
                 THEN CHOOSE o \in DOMAIN Scopes : first[o] = t ELSE "nobody"]
    /\ agents = [a \in Agents |-> None]
    /\ approvals = [p \in Approvals |-> None]
    /\ \E url \in Upstreams :
          /\ providers = WithUpstream(EmptyTable, url)
          /\ registry = Loaded(EmptyTable, url)
    /\ req = [h \in Handlers |-> Idle]
    /\ overruled = {}
    /\ newest = [p \in Providers |-> "shown"]

Next ==
    \/ \E h \in Handlers :
          \/ \E t \in Tokens \cup {AdminToken}, order \in Orders :
                RequireAdmin(h, t, order)
          \/ CreateOperator(h) \/ RotateOwnToken(h) \/ SetOperatorStatus(h)
          \/ CreateAgent(h) \/ AuthorizeRead(h) \/ SetPolicy(h)
          \/ SetAgentStatus(h) \/ DecideApproval(h)
          \/ RegisterProvider(h) \/ DeleteProvider(h) \/ UpdateRegistry(h)
          \/ Abandon(h)
    \/ \E p \in Approvals : ConsumeApproval(p) \/ \E a \in Agents : RaiseApproval(p, a)
    \/ Restart

Spec == Init /\ [][Next]_vars

-----------------------------------------------------------------------------
(***************************************************************************)
(* Properties.                                                             *)
(***************************************************************************)

\* Every table holds rows of its type, and a request what its stage needs.
ControlTypeOK ==
    /\ operators \in [Operators -> {None} \cup OperatorRows]
    /\ agents \in [Agents -> {None} \cup AgentRows]
    /\ approvals \in [Approvals -> {None} \cup ApprovalRows]
    /\ providers \in [Providers -> {None} \cup ProviderRows]
    /\ registry \in [Providers -> {None} \cup RegistryRows]
    /\ \A h \in Handlers :
           \/ req[h] = Idle
           \/ /\ req[h].at \in {"handler", "set_policy", "registry"}
              /\ req[h].who \in Operators \cup {Shared}
              /\ req[h].workspace \in Tenants
              /\ req[h].order \in Orders

\* A decision is made once: whoever decides at the same time, an approval that
\* was decided keeps its verdict and its decider, and only moves on from
\* approved to consumed (control_db.rs decide_approval, "a second click cannot
\* flip an already-rejected spend into an approved one").
DecisionIsFinal ==
    [][\A p \in Approvals :
          approvals[p].exists /\ approvals[p].state # "pending" =>
              /\ approvals'[p].by = approvals[p].by
              /\ \/ approvals'[p].state = approvals[p].state
                 \/ /\ approvals[p].state = "approved"
                    /\ approvals'[p].state = "consumed"]_vars

\* decided_by means that person acted: the token behind a decision was minted
\* for exactly the operator the decision is recorded under, through every
\* rotation, revocation and request still under way (control.rs
\* rotate_own_token, "That breaks the one thing the trail is for").  Stated with
\* the types, so that the decider is an operator and never a token.
DecisionNamesItsHolder ==
    /\ ControlTypeOK
    /\ \A p \in Approvals :
           approvals[p].exists /\ approvals[p].state # "pending" =>
               IF approvals[p].by = Shared THEN approvals[p].with = AdminToken
               ELSE /\ approvals[p].with \in Tokens
                    /\ keeper[approvals[p].with] = approvals[p].by

\* Tenants do not touch each other's agents and providers: a row changes only
\* in a step of a request whose caller is unscoped or of the row's workspace,
\* or when the gateway boots (control_db.rs set_agent_status, "Any tenant could
\* stop any other tenant's agents from spending, and the 404 hid it").
TenantsApart ==
    [][LET Acting(workspace) ==
               \E h \in Handlers : /\ req'[h] # req[h]
                                   /\ req[h].at # "idle"
                                   /\ MayTouch(h, workspace)
       IN  /\ \A a \in Agents :
                 agents[a].exists /\ agents'[a] # agents[a] =>
                     Acting(agents[a].workspace)
           /\ \A p \in Providers :
                 providers[p].exists /\ providers'[p] # providers[p] =>
                     \/ Acting(providers[p].workspace)
                     \/ p = Default /\ providers[p].workspace = NoWorkspace]_vars

\* An agent becomes autonomous only by a request that names that mode, with one
\* exception: an authorization that names none writes back the autonomy it
\* found, although another request has made the agent human since it looked.  A
\* field that is left out never does it otherwise, neither at creation nor with
\* any interleaving, abandoned request or restart (control.rs
\* CreateAgentRequest, "An agent should not become autonomous because a field was
\* omitted"; authorize_agent).
AutonomyIsNamed ==
    [][\A a \in Agents :
          /\ agents'[a].exists /\ agents'[a].mode = "autonomous"
          /\ ~ (agents[a].exists /\ agents[a].mode = "autonomous")
          => \E h \in Handlers :
                /\ req[h] # Idle /\ req'[h] = Idle
                /\ \/ "autonomous" \in Order(h).mode
                   \/ req[h].read = "autonomous" /\ h \in overruled]_vars

\* The registry shows the table's row of a provider whenever the request that
\* wrote the row last was also the last one to write the registry, or the boot
\* has loaded it and nobody has touched it since: however requests about the
\* provider overlap, whatever was dropped or refused before, and even if a boot
\* could not read or write the table, the next request that completes both
\* writes undisturbed brings the two together (control.rs register_provider and
\* delete_provider, two writes without a lock).
RegistryShowsNewest ==
    \A p \in Providers : newest[p] = "shown" => registry[p] = Public(providers[p])
=============================================================================
