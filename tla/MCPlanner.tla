----------------------------- MODULE MCPlanner ------------------------------
(***************************************************************************)
(* An instance of Planner, and of the session store it reads, for TLC.  A  *)
(* behaviour is about one of two settings:                                 *)
(*   - "store": one session, and claims around every boundary, zero and    *)
(*     values past MaxI64 included, some of them used for planning;        *)
(*   - "plan": two sessions of one agent, and claims of unit steps.        *)
(***************************************************************************)
EXTENDS Planner

CONSTANTS
    MaxLog,         \* bound on the entries of one session's log
    MaxOptions      \* bound on the options of a plan

VARIABLE setting

Edge == [session : {"s1"}, cumulative : {0, 1, 2, 8}, nonce : {0, 1, 8},
         expires : {5}]
Step(s, n) == [session |-> s, cumulative |-> n, nonce |-> n, expires |-> 4]
Steps == {Step("s1", n) : n \in 0 .. 2} \cup {Step("s2", n) : n \in 0 .. 1}
MCClaims == Edge \cup Steps

Envelope(total, each, threshold, calls, resources) ==
    [max_total |-> total, max_per_call |-> each, approval_threshold |-> threshold,
     allowed_resources |-> resources, max_calls |-> calls]

MCPolicies == {Envelope(3, 2, {2}, {}, {}), Envelope(9, 1, {}, {2}, {"r1"})}

MCInit == PlanInit /\ setting \in {"store", "plan"}

Opened == {s \in Rows : row'[s].known}
Asking == plan' # NoPlan

\* An operator's choices: each envelope or none, granted to an autonomous agent
\* that is active; and a human, suspended one.
Granted(a) ==
    \/ a.mode = "autonomous" /\ a.status = "active"
    \/ a.mode = "human" /\ a.status = "suspended" /\ a.policy # {}

\* One claim authenticates a plan, early; no agent is registered.
StoreSetting ==
    /\ Opened \subseteq {"s1"}
    /\ planned' \subseteq Edge /\ Cardinality(planned') <= 1
    /\ agents' = agents
    /\ Asking => /\ plan'.resource = "r1" /\ plan'.calls = 1
                 /\ Len(log'["s1"]) <= 1

\* Sessions alike, no refusals, one plan of at most MaxOptions options; the
\* operator acts until it is answered.
PlanSetting ==
    /\ planned' \subseteq Steps /\ Cardinality(planned') <= 1
    /\ \A s \in Opened :
          /\ row'[s].deposited_total = 2 /\ row'[s].expires_at = 6
          /\ row'[s].chain_verified /\ ~ row'[s].settled
    /\ \A s \in Rows : \A i \in DOMAIN log'[s] :
          log'[s][i].decision = "Allowed" /\ log'[s][i].nonce = log'[s][i].cumulative
    /\ \A k \in AgentKeys : agents'[k].exists => Granted(agents'[k])
    /\ advice.given => ~ Asking /\ agents' = agents
    /\ advice'.given => Cardinality(advice'.options) <= MaxOptions

MCNext ==
    /\ PlanNext
    /\ \A s \in Rows : Len(log'[s]) <= MaxLog
    /\ setting = "store" => StoreSetting
    /\ setting = "plan" => PlanSetting
    /\ UNCHANGED setting

MCSpec == MCInit /\ [][MCNext]_<<vars, setting>>
=============================================================================
