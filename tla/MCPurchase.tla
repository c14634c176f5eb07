----------------------------- MODULE MCPurchase -----------------------------
(***************************************************************************)
(* Instances of Purchase for TLC.                                          *)
(***************************************************************************)
EXTENDS Purchase, TLC

Claim(s, cumulative, nonce) ==
    [session |-> s, cumulative |-> cumulative, nonce |-> nonce, expires |-> 1]

\* Two purchases of one session: the second claim follows the first, or takes
\* its place when the price has doubled.
MCClaims == {Claim("s1", 1, 1), Claim("s1", 2, 2)}
MCDirectClaims == {Claim("s1", 1, 1)}

\* One purchase in each of two sessions of one agent.
MCTwoSessions == {Claim("s1", 1, 1), Claim("s2", 1, 1)}

Envelope(total, each, threshold, calls) ==
    [max_total |-> total, max_per_call |-> each, approval_threshold |-> threshold,
     allowed_resources |-> {}, max_calls |-> calls]

MCPolicies == {Envelope(2, 2, {2}, {1})}
\* Handlers are alike.
MCSymmetry == Permutations(Workers)

MCBudget == {Envelope(1, 1, {}, {})}
=============================================================================
