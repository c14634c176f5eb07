------------------------------ MODULE Purchase ------------------------------
(***************************************************************************)
(* The paid path, GET /v1/buy/{resource} (gateway/src/routes.rs buy and    *)
(* enforce_agent_policy), on top of the session store and the permission   *)
(* envelope: the approvals queue, and the order of checking, charging and  *)
(* fetching.                                                               *)
(*                                                                         *)
(* A handler is one step from await to await, and can end at any of them:  *)
(* a store error, a timeout, the client gone.  What it read earlier may be *)
(* stale by then.  A request that fails before the store is touched (no    *)
(* claim, unknown resource, undecodable claim, bad signature) changes      *)
(* nothing and is left out; so are the usage rows of refusals, which       *)
(* nothing reads.                                                          *)
(*                                                                         *)
(* Approvals of one agent, resource and price differ only in their id:     *)
(* they are counted by state; a rejected one, which nothing reads, is no   *)
(* longer counted.                                                         *)
(***************************************************************************)
EXTENDS AgentPolicy

CONSTANTS
    DirectClaims,   \* claims that may also be sent to POST /v1/claim/verify
    RequirePolicy,  \* AGENTPAY_REQUIRE_AGENT_POLICY
    Workers,        \* buy handlers that may run at once
    MaxApprovals,   \* bound on the approvals counted
    MaxLog          \* bound on the entries of one session's log

VARIABLES
    price,          \* the cached catalogue
    agent,          \* tables agents and agent_policies, by key
    approvals,      \* table approvals, counted by state
    pc, req,        \* buy handlers
    receipt,        \* the answers to paid requests
    forwarded,      \* how often a claim's request reached the provider
    billed          \* usage rows of accepted claims

controlVars == <<price, agent, approvals>>
outVars == <<receipt, forwarded, billed>>
buyVars == <<pc, req, receipt, forwarded, billed>>
vars == <<row, ticket, log, price, agent, approvals, pc, req,
          receipt, forwarded, billed>>

ASSUME PurchaseAssumption ==
    /\ DirectClaims \subseteq Claims
    /\ RequirePolicy \in BOOLEAN
    /\ IsFiniteSet(Workers)
    /\ MaxApprovals \in Nat /\ MaxLog \in Nat

\* What an approval is for.
Asks == AgentKeys \X Resources \X Prices
ApprovalStates == {"pending", "approved", "consumed"}

NoReq == [at |-> 0]
Requests ==
    [claim : Claims, at : Times, resource : Resources, price : Prices,
     who : {NoAgent} \cup Agents, approved : BOOLEAN, delta : Nat]

\* BuyResponse; approved says whether an approval was spent on it.
Receipts == [claim : Claims, resource : Resources, price : Prices, delta : Nat,
             approved : BOOLEAN]

-----------------------------------------------------------------------------
(***************************************************************************)
(* The buy handler.                                                        *)
(***************************************************************************)

\* The handler of w goes on at label l, or answers and ends.
Goto(w, l) == pc' = [pc EXCEPT ![w] = l] /\ UNCHANGED req
End(w) == pc' = [pc EXCEPT ![w] = "idle"] /\ req' = [req EXCEPT ![w] = NoReq]

Session(w) == req[w].claim.session
Key(w) == row[Session(w)].agent
Ask(w) == <<Key(w), req[w].resource, req[w].price>>

\* The clock is read, then the price; the claim must not have expired.
BuyQuote(w, c, resource, t) ==
    /\ pc[w] = "idle"
    /\ ~ ClaimExpired(c, t)
    /\ pc' = [pc EXCEPT ![w] = "quoted"]
    /\ req' = [req EXCEPT ![w] =
           [claim |-> c, at |-> t, resource |-> resource,
            price |-> price[resource], who |-> NoAgent, approved |-> FALSE,
            delta |-> 0]]
    /\ UNCHANGED <<storeVars, controlVars, outVars>>

PaysAtLeast(accepted, cost, c) == c.cumulative >= accepted + cost

\* The claim must pay for this resource.
Pays(accepted, cost, c) == c.cumulative = accepted + cost

\* store.get: the accepted total is read here and compared here.
BuyRecord(w) ==
    /\ pc[w] = "quoted"
    /\ IF /\ row[Session(w)].known
          /\ Pays(ticket[Session(w)].cumulative, req[w].price, req[w].claim)
       THEN Goto(w, "checked") ELSE End(w)
    /\ UNCHANGED <<storeVars, controlVars, outVars>>

\* get_agent_by_pubkey: a suspended agent is refused even without an envelope;
\* without a record or an envelope the escrow is the only bound, unless the
\* operator requires one.
BuyAgent(w) ==
    /\ pc[w] = "checked"
    /\ LET a == agent[Key(w)]
       IN  \/ /\ IF a.exists THEN a.status = "active" /\ a.policy = {} ELSE TRUE
              /\ IF RequirePolicy THEN End(w) ELSE Goto(w, "admit")
           \/ /\ a.exists /\ a.status # "active"
              /\ End(w)
           \/ /\ a.exists /\ a.status = "active" /\ a.policy # {}
              /\ pc' = [pc EXCEPT ![w] = "enveloped"]
              /\ req' = [req EXCEPT ![w].who = a]
    /\ UNCHANGED <<storeVars, controlVars, outVars>>

\* agent_spend and evaluate, with the record read before.
BuySpend(w) ==
    /\ pc[w] = "enveloped"
    /\ \E p \in req[w].who.policy :
           LET d == EvaluatePolicy(req[w].who, p, req[w].resource, req[w].price,
                                   Spent(Key(w)), Calls(Key(w)))
           IN  IF ~ Refused(d)
               THEN /\ pc' = [pc EXCEPT ![w] =
                          IF d = "Allow" THEN "admit" ELSE "asking"]
                    /\ req' = [req EXCEPT ![w].who = NoAgent]
               ELSE End(w)
    /\ UNCHANGED <<storeVars, controlVars, outVars>>

\* One approval of ask k moves from one state to another.
Move(k, from, to) ==
    [approvals EXCEPT ![k][from] = @ - 1, ![k][to] = @ + 1]

GrantUnchecked(k) == {k}

GrantAnyPrice(k) ==
    {j \in Asks : j[1] = k[1] /\ j[2] = k[2] /\ approvals[j]["approved"] > 0}

\* The granted approvals an ask may spend: same agent, resource and price.
Granted(k) == {j \in {k} : approvals[j]["approved"] > 0}

\* consume_approval: one granted approval is spent, atomically.
BuyConsume(w) ==
    /\ pc[w] = "asking"
    /\ \/ \E k \in Granted(Ask(w)) :
              /\ approvals' = Move(k, "approved", "consumed")
              /\ pc' = [pc EXCEPT ![w] = "admit"]
              /\ req' = [req EXCEPT ![w].approved = TRUE]
       \/ /\ Granted(Ask(w)) = {}
          /\ Goto(w, "unapproved")
          /\ UNCHANGED approvals
    /\ UNCHANGED <<storeVars, price, agent, outVars>>

PendingUnseen(k) == FALSE

\* has_pending_approval
HasPending(k) == approvals[k]["pending"] > 0

BuyPending(w) ==
    /\ pc[w] = "unapproved"
    /\ IF HasPending(Ask(w)) THEN End(w) ELSE Goto(w, "raising")
    /\ UNCHANGED <<storeVars, controlVars, outVars>>

Raised == MapThenSumSet(LAMBDA k :
              MapThenSumSet(LAMBDA st : approvals[k][st], ApprovalStates), Asks)

\* create_approval; the agent is told to wait.
BuyRaise(w) ==
    /\ pc[w] = "raising"
    /\ Raised < MaxApprovals
    /\ approvals' = [approvals EXCEPT ![Ask(w)]["pending"] = @ + 1]
    /\ End(w)
    /\ UNCHANGED <<storeVars, price, agent, outVars>>

ForwardAnyway(w) ==
    /\ EvaluateClaim(row[Session(w)], ticket[Session(w)], req[w].claim,
                     req[w].at) # "Allowed"
    /\ Goto(w, "paid")
    /\ UNCHANGED storeVars

\* A claim the store refuses ends the handler, whether the refusal leaves an
\* entry (any but SessionSettled) or not; so does one too large for a column.
Denied(w) ==
    LET c == req[w].claim
        d == EvaluateClaim(row[Session(w)], ticket[Session(w)], c, req[w].at)
    IN  /\ End(w)
        /\ \/ RefuseClaim(c, req[w].at)
           \/ /\ ~ Recorded(d) \/ (d = "Allowed" /\ ~ Storable(c))
              /\ UNCHANGED storeVars

\* admit_claim: the charge.
BuyAdmit(w) ==
    /\ pc[w] = "admit"
    /\ Len(log[Session(w)]) < MaxLog
    /\ \/ /\ AcceptClaim(req[w].claim, req[w].at)
          /\ pc' = [pc EXCEPT ![w] = "paid"]
          /\ req' = [req EXCEPT ![w].delta =
                 req[w].claim.cumulative - ticket[Session(w)].cumulative]
       \/ Denied(w)
    /\ UNCHANGED <<controlVars, outVars>>

\* An accepted purchase is metered, best effort: nothing reads the row, so the
\* insert is one step with the request that follows.
Meter(c) == billed' \in {billed, [billed EXCEPT ![c] = @ + 1]}

\* The request goes to the provider, whose answer, good or bad, is returned; or
\* it cannot be reached, and the charge stands.
BuyForward(w) ==
    /\ pc[w] = "paid"
    /\ Meter(req[w].claim)
    /\ \/ /\ forwarded' = [forwarded EXCEPT ![req[w].claim] = @ + 1]
          /\ receipt' = receipt \cup
                 {[claim |-> req[w].claim, resource |-> req[w].resource,
                   price |-> req[w].price, delta |-> req[w].delta,
                   approved |-> req[w].approved]}
       \/ UNCHANGED <<forwarded, receipt>>
    /\ End(w)
    /\ UNCHANGED <<storeVars, controlVars>>

\* The handler is dropped at an await.
Abandon(w) ==
    /\ pc[w] # "idle"
    /\ End(w)
    /\ UNCHANGED <<storeVars, controlVars, outVars>>

-----------------------------------------------------------------------------
(***************************************************************************)
(* Everybody else.                                                         *)
(***************************************************************************)

\* The catalogue is fetched again and one price is another.
Relist(resource, cost) ==
    /\ price' = [price EXCEPT ![resource] = cost]
    /\ UNCHANGED <<storeVars, agent, approvals, buyVars>>

CreateAgent(k, mode) ==
    /\ ~ agent[k].exists
    /\ agent' = [agent EXCEPT ![k] =
           [exists |-> TRUE, mode |-> mode, status |-> "active",
            policy |-> {}]]
    /\ UNCHANGED <<storeVars, price, approvals, buyVars>>

\* authorize_agent: mode and envelope move together.
AuthorizeAgent(k, mode, p) ==
    /\ agent[k].exists
    /\ agent' = [agent EXCEPT ![k].mode = mode, ![k].policy = {p}]
    /\ UNCHANGED <<storeVars, price, approvals, buyVars>>

SetAgentStatus(k, status) ==
    /\ agent[k].exists
    /\ agent' = [agent EXCEPT ![k].status = status]
    /\ UNCHANGED <<storeVars, price, approvals, buyVars>>

\* decide_approval: only a pending approval can be decided, approved or
\* rejected.
DecideApproval(k) ==
    /\ approvals[k]["pending"] > 0
    /\ approvals' \in {Move(k, "pending", "approved"),
                       [approvals EXCEPT ![k]["pending"] = @ - 1]}
    /\ UNCHANGED <<storeVars, price, agent, buyVars>>

\* The rest of the gateway: sessions are opened and settled, and a claim sent
\* to POST /v1/claim/verify is admitted by the store alone.
Elsewhere ==
    /\ \/ \E s \in Rows, k \in AgentKeys, deposit \in Amounts,
             expires \in Expiries : OpenRow(s, k, deposit, expires, TRUE)
       \/ \E s \in Rows : MarkSettled(s)
       \/ \E c \in DirectClaims, t \in Times :
             /\ ~ ClaimExpired(c, t)
             /\ Len(log[c.session]) < MaxLog
             /\ AcceptClaim(c, t) \/ RefuseClaim(c, t)
    /\ UNCHANGED <<controlVars, buyVars>>

Init ==
    /\ StoreInit
    /\ price \in [Resources -> Prices]
    /\ agent = [k \in AgentKeys |-> NoAgent]
    /\ approvals = [k \in Asks |-> [st \in ApprovalStates |-> 0]]
    /\ pc = [w \in Workers |-> "idle"]
    /\ req = [w \in Workers |-> NoReq]
    /\ receipt = {}
    /\ forwarded = [c \in Claims |-> 0]
    /\ billed = [c \in Claims |-> 0]

Next ==
    \/ \E w \in Workers, c \in Claims, resource \in Resources, t \in Times :
          BuyQuote(w, c, resource, t)
    \/ \E w \in Workers :
          \/ BuyRecord(w) \/ BuyAgent(w) \/ BuySpend(w) \/ BuyConsume(w)
          \/ BuyPending(w) \/ BuyRaise(w) \/ BuyAdmit(w)
          \/ BuyForward(w) \/ Abandon(w)
    \/ \E resource \in Resources, cost \in Prices : Relist(resource, cost)
    \/ \E k \in AgentKeys, mode \in Modes :
          \/ CreateAgent(k, mode)
          \/ \E p \in Policies : AuthorizeAgent(k, mode, p)
    \/ \E k \in AgentKeys, status \in Statuses : SetAgentStatus(k, status)
    \/ \E k \in Asks : DecideApproval(k)
    \/ Elsewhere

Spec == Init /\ [][Next]_vars

-----------------------------------------------------------------------------
(***************************************************************************)
(* Properties.                                                             *)
(***************************************************************************)

\* Every variable of the paid path holds a value of its type; a count of
\* approvals is never negative.
PurchaseTypeOK ==
    /\ StoreTypeOK
    /\ price \in [Resources -> Prices]
    /\ agent \in [AgentKeys -> {NoAgent} \cup Agents]
    /\ approvals \in [Asks -> [ApprovalStates -> Nat]]
    /\ \A w \in Workers : IF pc[w] = "idle" THEN req[w] = NoReq
                                            ELSE req[w] \in Requests
    /\ receipt \subseteq Receipts
    /\ forwarded \in [Claims -> Nat] /\ billed \in [Claims -> Nat]

\* Goods and bills follow acceptance, and only once: whatever is retried, run
\* twice at once or dropped half way, a claim reaches the provider and the
\* usage table at most once each, and only if the evidence log shows it as
\* accepted (buy.rs denied_requests_never_reach_upstream, "denied requests
\* never touch the provider at all").  Stated with the types, which keep the
\* counts from going below zero.
GoodsFollowAcceptance ==
    /\ PurchaseTypeOK
    /\ \A c \in Claims :
           /\ forwarded[c] <= 1 /\ billed[c] <= 1
           /\ forwarded[c] + billed[c] > 0 =>
                  \E i \in Allowed(c.session) :
                      /\ log[c.session][i].cumulative = c.cumulative
                      /\ log[c.session][i].nonce = c.nonce

\* A purchase is never charged more than the price it was quoted, although the
\* total it was computed from is read several awaits before the charge.
ChargedAtMostTheQuote ==
    \A x \in receipt : x.delta > 0 /\ x.delta <= x.price

\* The handlers that hold a spent approval for ask k, and the purchases made on
\* one.
Holders(k) ==
    {w \in Workers : pc[w] # "idle" /\ req[w].approved /\ Ask(w) = k}
Approved(k) ==
    {x \in receipt :
        x.approved /\ k = <<row[x.claim.session].agent, x.resource, x.price>>}

\* One approval, one purchase: the purchases made or under way on an approval
\* never outnumber the approvals consumed for exactly their agent, resource and
\* price (control_db.rs consume_approval, "Two concurrent purchases cannot both
\* claim the same approval"; "an approval granted for a cheap resource cannot be
\* spent on an expensive one after a provider changes its catalogue").
ApprovalSpentOnce ==
    \A k \in Asks :
        Cardinality(Holders(k)) + Cardinality(Approved(k))
            <= approvals[k]["consumed"]

\* The handlers about to raise an approval for ask k.
Raising(k) == {w \in Workers : pc[w] = "raising" /\ Ask(w) = k}

\* A retrying agent cannot flood the queue: looking for a pending approval and
\* raising one are separate statements, so duplicates happen, but never more of
\* them than handlers that run at once (control_db.rs has_pending_approval).
QueueIsNotFlooded ==
    \A k \in Asks :
        approvals[k]["pending"] + Cardinality(Raising(k))
            <= Cardinality(Workers)

-----------------------------------------------------------------------------
(***************************************************************************)
(* What comments of the repository say, and the code does not do.          *)
(***************************************************************************)

\* routes.rs buy: "The claim must pay for THIS resource."
ChargedTheAskingPrice == \A x \in receipt : x.delta = x.price

\* policy.rs AgentPolicy::max_total: "Ceiling across everything this agent
\* spends."  Stated for agents whose envelope is the only one there is.
SpentWithinBudget ==
    \A k \in AgentKeys, p \in Policies :
        agent[k].exists /\ agent[k].policy = {p} => Spent(k) <= p.max_total
=============================================================================
