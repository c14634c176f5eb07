---------------------------- MODULE AgentPolicy -----------------------------
(***************************************************************************)
(* The permission envelope a human grants an agent (gateway/src/policy.rs),*)
(* measured against what the agent has spent according to the session      *)
(* store (control_db.rs agent_spend).  Used where a purchase is decided    *)
(* (Purchase) and where one is planned (Planner).                          *)
(*                                                                         *)
(* Resources are in normal form.  An optional column is a set with at most *)
(* one element.                                                            *)
(***************************************************************************)
EXTENDS ClaimStore, FiniteSets, FiniteSetsExt

CONSTANTS
    Resources,      \* what the providers sell
    Prices,         \* what they may ask
    Policies        \* envelopes an operator may set

ASSUME PolicyAssumption ==
    /\ Prices \subseteq Nat
    /\ \A p \in Policies :
           /\ p.max_per_call \in Nat \ {0}
           /\ p.max_total \in Nat
           /\ p.max_per_call <= p.max_total
           /\ p.allowed_resources \subseteq Resources
           /\ p.approval_threshold \subseteq Nat
           /\ p.max_calls \subseteq Nat

Modes == {"human", "autonomous"}
Statuses == {"active", "suspended"}
NoAgent == [exists |-> FALSE]
Agents == [exists : {TRUE}, mode : Modes, status : Statuses,
           policy : {{}} \cup {{p} : p \in Policies}]

SessionsOf(k) == {s \in Rows : row[s].known /\ row[s].agent = k}

\* agent_spend: the high-water marks of the agent's sessions, and its admitted
\* decisions.
Spent(k) == MapThenSumSet(LAMBDA s : ticket[s].cumulative, SessionsOf(k))
Calls(k) == MapThenSumSet(LAMBDA s : Cardinality(Allowed(s)), SessionsOf(k))

\* policy::evaluate for agent record a, its envelope p, and a price.
EvaluatePolicy(a, p, resource, cost, spent, calls) ==
    IF a.status # "active" THEN "Suspended"
    ELSE IF p.allowed_resources # {} /\ resource \notin p.allowed_resources
         THEN "ResourceNotAllowed"
    ELSE IF cost > p.max_per_call THEN "PriceCap"
    ELSE IF \E n \in p.max_calls : calls >= n THEN "CallLimit"
    ELSE IF spent + cost > p.max_total THEN "Budget"
    ELSE IF a.mode = "human" \/ \E t \in p.approval_threshold : cost >= t
         THEN "NeedsApproval"
    ELSE "Allow"

\* PolicyDecision::Refuse
Refused(d) == d \notin {"Allow", "NeedsApproval"}

\* Claim::is_expired; an expiry that overflows with the skew is never past.
ClaimExpired(c, t) == c.expires + Skew <= MaxI64 /\ t > c.expires + Skew
=============================================================================
