--------------------------- MODULE MCControlPlane ---------------------------
(***************************************************************************)
(* An instance of ControlPlane for TLC.  The routes touch the operators and*)
(* approvals, the agents, or the providers, and meet only in how a caller  *)
(* is resolved: a behaviour uses the routes of one group, and one provider.*)
(***************************************************************************)
EXTENDS ControlPlane, TLC

VARIABLE group      \* the routes used, and the provider they are about

Groups ==
    {[routes |-> {"create_operator", "rotate", "set_operator_status", "decide",
                  "create_agent"}, provider |-> "none"],
     [routes |-> {"create_agent", "authorize", "set_agent_status"},
      provider |-> "none"]}
    \cup [routes : {{"register", "delete"}}, provider : Providers]

\* One operator of a workspace, one of another.
MCScopes == [o \in {"o1", "o2"} |-> IF o = "o1" THEN "ws1" ELSE "ws2"]

\* Without routes about providers, every boot finds them as they are.
MCInit ==
    /\ Init
    /\ group \in Groups
    /\ group.provider = "none" => registry[Default].exists

\* Approvals are raised once there is an agent; with the operators' routes, an
\* agent is created in one way only.
MCNext ==
    /\ Next
    /\ \A h \in Handlers : req'[h] # Idle =>
           /\ req'[h].order.route \in group.routes
           /\ req'[h].order.route \in {"register", "delete"} =>
                  req'[h].order.provider = group.provider
           /\ "decide" \in group.routes /\ req'[h].order.route = "create_agent" =>
                  req'[h].token = AdminToken /\ req'[h].order.mode = {}
    /\ approvals' = approvals \/ "decide" \in group.routes
    /\ group.provider = "none" => UNCHANGED <<providers, registry, newest>>
    /\ UNCHANGED group

MCSpec == MCInit /\ [][MCNext]_<<vars, group>>

MCSymmetry == Permutations(Handlers) \cup Permutations(Tokens)
=============================================================================
