---------------------------- MODULE EscrowPromise ----------------------------
(***************************************************************************)
(* What the escrow promises its two parties, with no mechanism: per        *)
(* session, an amount deposited, an amount paid and an amount returned.    *)
(*                                                                         *)
(*   - a payment raises the total paid to an amount the agent authorised   *)
(*     for that session, within the deposit, and never after a return;     *)
(*   - a return gives back everything that was not paid, once.             *)
(***************************************************************************)
EXTENDS Integers

CONSTANT Sessions

VARIABLES deposited, paid, returned, authorised

promiseVars == <<deposited, paid, returned, authorised>>

PromiseInit ==
    /\ deposited = [s \in Sessions |-> 0]
    /\ paid = [s \in Sessions |-> 0]
    /\ returned = [s \in Sessions |-> 0]
    /\ authorised = [s \in Sessions |-> {}]

Deposit(s) ==
    /\ deposited[s] = 0
    /\ deposited'[s] > 0
    /\ deposited' = [deposited EXCEPT ![s] = deposited'[s]]
    /\ UNCHANGED <<paid, returned, authorised>>

Authorise ==
    /\ \A s \in Sessions : authorised[s] \subseteq authorised'[s]
    /\ UNCHANGED <<deposited, paid, returned>>

Pay(s, total) ==
    /\ total \in authorised[s]
    /\ paid[s] < total
    /\ total <= deposited[s]
    /\ returned[s] = 0
    /\ paid' = [paid EXCEPT ![s] = total]
    /\ UNCHANGED <<deposited, returned, authorised>>

Return(s) ==
    /\ returned[s] = 0
    /\ paid[s] < deposited[s]
    /\ returned' = [returned EXCEPT ![s] = deposited[s] - paid[s]]
    /\ UNCHANGED <<deposited, paid, authorised>>

PromiseNext ==
    \/ Authorise
    \/ \E s \in Sessions :
          \/ Deposit(s)
          \/ \E total \in authorised[s] : Pay(s, total)
          \/ Return(s)

PromiseSpec == PromiseInit /\ [][PromiseNext]_promiseVars
=============================================================================
