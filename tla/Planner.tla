------------------------------ MODULE Planner -------------------------------
(***************************************************************************)
(* The planners, POST /v1/agent/plan and POST /v1/session/plan (gateway/   *)
(* src/control.rs plan, plan_for_session, plan_options): who sells a       *)
(* resource (registry.rs aggregate), and how many calls the agent's        *)
(* envelope affords.  An agent proves who it is with a signed claim over   *)
(* the current state of its session.                                       *)
(*                                                                         *)
(* A planner reads the session, the agent, the agent's spend and the       *)
(* catalogues one after the other, and writes nothing: purchases and       *)
(* operators go on in between and afterwards.  It may end at any await.    *)
(***************************************************************************)
EXTENDS AgentPolicy

CONSTANTS
    Providers,      \* registered providers
    Demands         \* how many calls a plan may be asked for

ASSUME PlannerAssumption == Demands \subseteq Nat

VARIABLES
    agents,         \* tables agents and agent_policies, by key
    plan,           \* the planner under way
    advice,         \* the last answer
    planned         \* the claims the agents' planner accepted as proof (history)

planVars == <<plan, advice, planned>>
vars == <<row, ticket, log, agents, plan, advice, planned>>

NoPlan == [at |-> "idle"]
NoAdvice == [given |-> FALSE]

-----------------------------------------------------------------------------
(***************************************************************************)
(* plan_options.                                                           *)
(***************************************************************************)

AfterUncounted(spend, unit, n) ==
    [spent |-> spend.spent + n * unit, calls |-> spend.calls]

\* The running spend n calls later.
After(spend, unit, n) ==
    [spent |-> spend.spent + n * unit, calls |-> spend.calls + n]

\* What the envelope says of the call after the first n.
Decision(a, p, resource, unit, spend, n) ==
    LET running == After(spend, unit, n)
    IN  EvaluatePolicy(a, p, resource, unit, running.spent, running.calls)

\* The walk, one call at a time, until a call is refused or all are counted.
Affordable(a, p, resource, unit, spend, calls) ==
    LET Stops(n) == Refused(Decision(a, p, resource, unit, spend, n))
    IN  CHOOSE n \in 0 .. calls :
            /\ \A m \in 0 .. n - 1 : ~ Stops(m)
            /\ n = calls \/ Stops(n)

\* What is said of one offer.  Without an envelope: the request as it is.
Option(a, offer, resource, spend, calls) ==
    IF a.policy = {}
    THEN [provider |-> offer.provider, unit |-> offer.unit,
          affordable |-> calls, refused_by |-> {}, needs_approval |-> FALSE]
    ELSE LET p == CHOOSE e \in a.policy : TRUE
             first == Decision(a, p, resource, offer.unit, spend, 0)
         IN  [provider |-> offer.provider, unit |-> offer.unit,
              affordable |-> IF Refused(first) THEN 0
                             ELSE Affordable(a, p, resource, offer.unit, spend,
                                             calls),
              refused_by |-> IF Refused(first) THEN {first} ELSE {},
              needs_approval |-> first = "NeedsApproval"]

\* The options among which the cheapest wins.
Recommendable(options) == {o \in options : o.affordable > 0}

Dearest(options) ==
    {o \in options : \A q \in options : o.unit >= q.unit}

\* min_by_key over the unit price
Cheapest(options) ==
    {o \in options : \A q \in options : o.unit <= q.unit}

\* aggregate, for one resource: each provider may be down, not sell it, ask
\* something that is no number, or list it at a price, perhaps twice.
Offers == SUBSET [provider : Providers, unit : Prices]

-----------------------------------------------------------------------------
(***************************************************************************)
(* The handlers.                                                           *)
(***************************************************************************)

DescribesAtLeast(k, c) == c.cumulative >= k.cumulative

\* The binding rule: the claim repeats the session's mark, exactly.
Describes(k, c) ==
    /\ c.cumulative = k.cumulative
    /\ c.nonce = IF k.exists THEN k.nonce ELSE 0

Ask(k, resource, calls) ==
    [at |-> "agent", key |-> k, resource |-> resource, calls |-> calls]

\* plan_for_session, up to the signature: the session is live and the claim
\* describes it.
PlanForSession(c, t, resource, calls) ==
    /\ plan = NoPlan
    /\ calls > 0
    /\ ~ ClaimExpired(c, t)
    /\ row[c.session].known
    /\ ~ row[c.session].settled
    /\ t <= Limit(row[c.session].expires_at)
    /\ Describes(ticket[c.session], c)
    /\ planned' = planned \cup {c}
    /\ plan' = Ask(row[c.session].agent, resource, calls)
    /\ UNCHANGED <<storeVars, agents, advice>>

\* plan: an operator names the agent.
PlanForOperator(k, resource, calls) ==
    /\ plan = NoPlan
    /\ calls > 0
    /\ plan' = Ask(k, resource, calls)
    /\ UNCHANGED <<storeVars, agents, advice, planned>>

\* get_agent, get_agent_by_pubkey
ReadAgent ==
    /\ plan.at = "agent"
    /\ plan' = IF agents[plan.key].exists
               THEN [at |-> "spend", key |-> plan.key, who |-> agents[plan.key],
                     resource |-> plan.resource, calls |-> plan.calls]
               ELSE NoPlan
    /\ UNCHANGED <<storeVars, agents, advice, planned>>

\* agent_spend
ReadSpend ==
    /\ plan.at = "spend"
    /\ plan' = [at |-> "offers", key |-> plan.key, who |-> plan.who,
                resource |-> plan.resource, calls |-> plan.calls,
                spend |-> [spent |-> Spent(plan.key), calls |-> Calls(plan.key)]]
    /\ UNCHANGED <<storeVars, agents, advice, planned>>

\* The catalogues are read and the answer goes out.
Answer(offers) ==
    /\ plan.at = "offers"
    /\ LET options == {Option(plan.who, o, plan.resource, plan.spend, plan.calls) :
                           o \in offers}
           best == Cheapest(Recommendable(options))
       IN  \E recommended \in IF best = {} THEN {{}} ELSE {{o} : o \in best} :
              advice' = [given |-> TRUE, key |-> plan.key, who |-> plan.who,
                         resource |-> plan.resource, calls |-> plan.calls,
                         spend |-> plan.spend, options |-> options,
                         recommended |-> recommended]
    /\ plan' = NoPlan
    /\ UNCHANGED <<storeVars, agents, planned>>

\* The planner ends at an await.
Abandon ==
    /\ plan # NoPlan
    /\ plan' = NoPlan
    /\ UNCHANGED <<storeVars, agents, advice, planned>>

\* Operators create agents, set their envelope and suspend them (ControlPlane).
Operate(k, a) ==
    /\ agents' = [agents EXCEPT ![k] = a]
    /\ UNCHANGED <<storeVars, planVars>>

-----------------------------------------------------------------------------
PlanInit ==
    /\ StoreInit
    /\ agents = [k \in AgentKeys |-> NoAgent]
    /\ plan = NoPlan
    /\ advice = NoAdvice
    /\ planned = {}

PlanStep ==
    \/ \E resource \in Resources, calls \in Demands :
          \/ \E c \in Claims, t \in Times : PlanForSession(c, t, resource, calls)
          \/ \E k \in AgentKeys : PlanForOperator(k, resource, calls)
    \/ ReadAgent \/ ReadSpend \/ Abandon
    \/ \E offers \in Offers : Answer(offers)

PlanNext ==
    \/ StoreNext /\ UNCHANGED <<agents, planVars>>
    \/ PlanStep
    \/ \E k \in AgentKeys, a \in Agents : Operate(k, a)

PlanSpec == PlanInit /\ [][PlanNext]_vars

-----------------------------------------------------------------------------
(***************************************************************************)
(* Properties.                                                             *)
(***************************************************************************)

\* A planning claim adds nothing to what is owed: the gateway refuses a claim
\* that authenticated a plan from then on, at whatever instant it is presented
\* and whatever was accepted since, and the claim is for no more than the mark,
\* so that the program, which does pay it while it has settled less, pays
\* nothing that was not accepted before (control.rs plan_for_session, "A claim
\* at exactly the mark is therefore refused").
PlanningClaimAddsNothing ==
    \A c \in planned :
        /\ \A t \in Times :
              EvaluateClaim(row[c.session], ticket[c.session], c, t) # "Allowed"
        /\ c.cumulative <= ticket[c.session].cumulative

\* A plan is kept: once n of the calls it counted were made at the price it
\* quoted, in whatever sessions, and the agent's record is still the one it was
\* made for, the envelope refuses the next of the requested calls exactly if
\* n has reached the count (control.rs plan_options, "so the count cannot
\* disagree with what will actually be admitted").
PlanIsKept ==
    advice.given /\ agents[advice.key] = advice.who =>
        \A o \in advice.options, p \in advice.who.policy :
            LET n == Calls(advice.key) - advice.spend.calls
                now == EvaluatePolicy(advice.who, p, advice.resource, o.unit,
                                      Spent(advice.key), Calls(advice.key))
            IN  /\ n < advice.calls
                /\ Spent(advice.key) = advice.spend.spent + n * o.unit
                => (Refused(now) <=> n >= o.affordable)

\* The recommendation cannot be bettered: there is one exactly if some option
\* affords a call, and no option affords more calls than it, although it is
\* picked by price alone (control.rs plan_options, "Cheapest usable option
\* wins").
RecommendationAffordsMost ==
    advice.given =>
        /\ advice.recommended = {} <=> \A o \in advice.options : o.affordable = 0
        /\ \A r \in advice.recommended, o \in advice.options :
               /\ r.affordable > 0 /\ r.affordable >= o.affordable
               /\ o.affordable = 0 <=> o.refused_by # {}
=============================================================================
