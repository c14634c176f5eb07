----------------------------- MODULE MCGateway ------------------------------
(***************************************************************************)
(* Instances of Gateway for TLC: one session, two claims of its agent and  *)
(* one signed by a key that a believed open request may name as agent.     *)
(***************************************************************************)
EXTENDS Gateway, TLC

S1 == [agent |-> "a1", provider |-> "p1", id |-> 1]

Sig(k, cumulative, nonce, expires) ==
    [signer |-> k,
     msg |-> [session |-> S1, cumulative |-> cumulative, nonce |-> nonce,
              expires |-> expires]]

MCSignable == {Sig("a1", 1, 1, 2), Sig("a1", 2, 2, 1), Sig("x1", 2, 1, 2)}

MCSignablePair == {Sig("a1", 1, 1, 2), Sig("a1", 2, 2, 2)}

\* Two settle_session handlers run at once in the first instant only, for a
\* session whose row is in the store, with no transaction of an earlier
\* handler pending; a restart from there orphans both.
MCBound ==
    (\E w, v \in Workers : w # v /\ pc[w] # "idle" /\ pc[v] # "idle")
        => /\ now = 0 /\ ~ trust /\ verified = {}
           /\ \A x \in inflight : x.by # NoWorker
           /\ \A x \in signed : x.signer \in Agents
           /\ \A s \in Sessions : row[s].known /\ row[s].deposited_total = 2

MCSymmetry == Permutations(Workers)

MCForeignRoot == -1
MCRoots == {MCForeignRoot} \cup 0..MaxLog
=============================================================================
