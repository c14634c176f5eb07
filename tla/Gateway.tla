------------------------------ MODULE Gateway -------------------------------
(***************************************************************************)
(* The gateway between the agents' claims and the on-chain program         *)
(* (gateway/src/routes.rs: open_session, reconcile_session, verify_claim,  *)
(* settle_session; chain.rs verify_on_chain_session; settle.rs             *)
(* submit_settlement).  Its store is ClaimStore, the chain is Escrow.      *)
(*                                                                         *)
(* A handler runs between two awaits; everything else may happen at an     *)
(* await: other handlers, the chain, the agent, the provider, the end of   *)
(* the handler itself (timeout, client gone, gateway restarted).  A        *)
(* submitted transaction outlives its handler.                             *)
(*                                                                         *)
(* A Merkle root is the length of the log prefix it commits to; a provider *)
(* who settles without the gateway commits ForeignRoot.  The row's copy of *)
(* provider and mint is left out: the program's account constraints refuse *)
(* a settlement that names others, as Lose may refuse any.                 *)
(***************************************************************************)
EXTENDS Escrow, Sequences

CONSTANTS
    GatewayKey,     \* the gateway's settlement authority
    ForeignRoot,    \* a root the gateway did not compute
    Modes,          \* values AGENTPAY_TRUST_OPEN_REQUESTS may take
    Workers,        \* settle_session handlers that may run at once
    NoWorker,       \* the owner of a transaction whose handler is gone
    Lag,            \* how old a handler's reading of the clock may be
    MaxLog          \* bound on the entries of one session's log

VARIABLES
    row, ticket, log,   \* the store (ClaimStore)
    trust,              \* reconciliation is disabled in this deployment
    verified,           \* handlers whose chain check passed, not yet saved
    pc, job,            \* settle_session handlers
    inflight            \* settlement transactions the cluster may yet run

storeVars == <<row, ticket, log>>
settleVars == <<pc, job, inflight>>
gatewayVars == <<row, ticket, log, trust, verified, pc, job, inflight>>
vars == <<now, session, record, vault, wallet, signed,
          row, ticket, log, trust, verified, pc, job, inflight>>

ASSUME GatewayAssumption ==
    /\ GatewayKey \in Authorities
    /\ ForeignRoot \in Int \ Nat
    /\ Roots = {ForeignRoot} \cup 0..MaxLog
    /\ Modes \subseteq BOOLEAN
    /\ NoWorker \notin Workers
    /\ Lag \in Nat /\ MaxLog \in Nat

Store == INSTANCE ClaimStore WITH
    Rows <- Sessions, AgentKeys <- Agents \cup Strangers, Amounts <- Deposits,
    Claims <- {x.msg : x \in Signable}, Times <- 0..MaxTime, Skew <- ClockSkew

Idle == [root |-> ForeignRoot]

Transactions ==
    [by : Workers \cup {NoWorker}, session : Sessions,
     agent : Agents \cup Strangers, claim : Messages, root : Roots]

-----------------------------------------------------------------------------
(***************************************************************************)
(* Opening and reconciling.                                                *)
(***************************************************************************)

VerifyDepositUnread(s, agent, deposit, expires) ==
    /\ session[s].open
    /\ ~ session[s].is_settled
    /\ agent = s.agent
    /\ expires = session[s].expires_at

VerifyAgentUnread(s, agent, deposit, expires) ==
    /\ session[s].open
    /\ ~ session[s].is_settled
    /\ deposit = session[s].deposited_total
    /\ expires = session[s].expires_at

\* verify_on_chain_session: the account exists under the program and agrees
\* with every field the gateway will rely on.
VerifyOnChainSession(s, agent, deposit, expires) ==
    /\ session[s].open
    /\ ~ session[s].is_settled
    /\ deposit = session[s].deposited_total
    /\ agent = s.agent
    /\ expires = session[s].expires_at

\* open_session up to its chain check.
OpenVerify(s, agent, deposit, expires) ==
    /\ ~ trust
    /\ VerifyOnChainSession(s, agent, deposit, expires)
    /\ verified' = verified \cup
           {[for |-> "open", session |-> s, agent |-> agent,
             deposit |-> deposit, expires |-> expires]}
    /\ UNCHANGED <<trust, chainVars, storeVars, settleVars>>

\* open_session from its chain check on; a row that exists is left alone.
OpenSave(v) ==
    /\ v \in verified /\ v.for = "open"
    /\ verified' = verified \ {v}
    /\ \/ row[v.session].known /\ UNCHANGED storeVars
       \/ Store!OpenRow(v.session, v.agent, v.deposit, v.expires, TRUE)
    /\ UNCHANGED <<trust, chainVars, settleVars>>

\* open_session with AGENTPAY_TRUST_OPEN_REQUESTS: the request is believed.
OpenTrusted(s, agent, deposit, expires) ==
    /\ trust
    /\ Store!OpenRow(s, agent, deposit, expires, FALSE)
    /\ UNCHANGED <<trust, verified, chainVars, settleVars>>

\* reconcile_session up to its chain check of the stored row.
ReconcileVerify(s) ==
    /\ ~ trust
    /\ row[s].known
    /\ VerifyOnChainSession(s, row[s].agent, row[s].deposited_total,
                            row[s].expires_at)
    /\ verified' = verified \cup {[for |-> "reconcile", session |-> s]}
    /\ UNCHANGED <<trust, chainVars, storeVars, settleVars>>

\* reconcile_session raises the flag.
ReconcileMark(v) ==
    /\ v \in verified /\ v.for = "reconcile"
    /\ verified' = verified \ {v}
    /\ Store!MarkChainVerified(v.session)
    /\ UNCHANGED <<trust, chainVars, settleVars>>

-----------------------------------------------------------------------------
(***************************************************************************)
(* Claims.                                                                 *)
(***************************************************************************)

\* Claim::is_expired: an expiry that overflows with the skew is never past.
IsExpired(c, t) == ~ Overflows(c.expires) /\ t > c.expires + ClockSkew

SignedByAnyone(x) == TRUE

\* verify_claim_signature under the key of the stored row.
SignatureValid(x) == row[x.msg.session].agent = x.signer

\* verify_claim: t is the clock at the start of the handler, the store decides
\* later.  Only a claim with a valid signature reaches the store.
VerifyClaim(x, t) ==
    /\ x \in signed
    /\ ~ IsExpired(x.msg, t)
    /\ row[x.msg.session].known
    /\ SignatureValid(x)
    /\ Len(log[x.msg.session]) < MaxLog
    /\ Store!AcceptClaim(x.msg, t) \/ Store!RefuseClaim(x.msg, t)
    /\ UNCHANGED <<trust, verified, chainVars, settleVars>>

-----------------------------------------------------------------------------
(***************************************************************************)
(* Settling.                                                               *)
(***************************************************************************)

\* settle_session computes the evidence root first.
SettleRoot(w, s) ==
    /\ pc[w] = "idle"
    /\ pc' = [pc EXCEPT ![w] = "rooted"]
    /\ job' = [job EXCEPT ![w] = [session |-> s, root |-> Len(log[s])]]
    /\ UNCHANGED <<inflight, trust, verified, chainVars, storeVars>>

\* The claim a settlement submits, rebuilt from the ticket (row_to_record).
HighestClaim(s) ==
    [session |-> s, cumulative |-> ticket[s].cumulative,
     nonce |-> ticket[s].nonce, expires |-> ticket[s].expires]

\* It then loads the record; a session unknown, settled or without a claim ends
\* the handler.
SettleLoad(w) ==
    /\ pc[w] = "rooted"
    /\ LET s == job[w].session
           go == row[s].known /\ ~ row[s].settled /\ ticket[s].exists
       IN  /\ pc' = [pc EXCEPT ![w] = IF go THEN "loaded" ELSE "idle"]
           /\ job' = [job EXCEPT ![w] =
                  IF go
                  THEN [by |-> w, session |-> s, agent |-> row[s].agent,
                        claim |-> HighestClaim(s), root |-> @.root]
                  ELSE Idle]
    /\ UNCHANGED <<inflight, trust, verified, chainVars, storeVars>>

\* It reads the session account (which must exist, and reconciliation must be
\* enabled) and submits the transaction, signed by the settlement authority.
SettleSend(w) ==
    /\ pc[w] = "loaded"
    /\ LET go == ~ trust /\ session[job[w].session].open
       IN  /\ pc' = [pc EXCEPT ![w] = IF go THEN "sent" ELSE "idle"]
           /\ inflight' = IF go THEN inflight \cup {job[w]} ELSE inflight
           /\ job' = [job EXCEPT ![w] = IF go THEN @ ELSE Idle]
    /\ UNCHANGED <<trust, verified, chainVars, storeVars>>

WaitingFor(x) == {w \in Workers : w = x.by}

\* The cluster runs the transaction and its handler learns of it.
Land(x) ==
    /\ x \in inflight
    /\ x.agent = x.session.agent
    /\ SettleSession(x.session, GatewayKey, x.claim, x.root)
    /\ inflight' = inflight \ {x}
    /\ pc' = [w \in Workers |->
                 IF w \in WaitingFor(x) THEN "confirmed" ELSE pc[w]]
    /\ UNCHANGED <<job, trust, verified, storeVars>>

\* The transaction is refused by the program or expires unprocessed.
Lose(x) ==
    /\ x \in inflight
    /\ inflight' = inflight \ {x}
    /\ pc' = [w \in Workers |-> IF w \in WaitingFor(x) THEN "idle" ELSE pc[w]]
    /\ job' = [w \in Workers |-> IF w \in WaitingFor(x) THEN Idle ELSE job[w]]
    /\ UNCHANGED <<trust, verified, chainVars, storeVars>>

MarkAsSent(w) == pc[w] \in {"sent", "confirmed"}

\* A settlement is booked only after the chain confirms.
MayMark(w) == pc[w] = "confirmed"

\* mark_settled, after the chain confirmed.  A session another handler has
\* marked meanwhile stays as it is.
SettleMark(w) ==
    /\ MayMark(w)
    /\ pc' = [pc EXCEPT ![w] = "idle"]
    /\ job' = [job EXCEPT ![w] = Idle]
    /\ \/ row[job[w].session].settled /\ UNCHANGED storeVars
       \/ Store!MarkSettled(job[w].session)
    /\ UNCHANGED <<inflight, trust, verified, chainVars>>

StillOwned(W) == inflight

\* What the transactions of a handler become when it ends without them.
Orphaned(W) ==
    {[x EXCEPT !.by = IF @ \in W THEN NoWorker ELSE @] : x \in inflight}

\* The handler ends early: an RPC error or timeout, the client gone, or the
\* store refusing the final mark.  Its transaction may still land.
Abandon(w) ==
    /\ pc[w] # "idle"
    /\ pc' = [pc EXCEPT ![w] = "idle"]
    /\ job' = [job EXCEPT ![w] = Idle]
    /\ inflight' = Orphaned({w})
    /\ UNCHANGED <<trust, verified, chainVars, storeVars>>

\* The gateway stops and starts, possibly with another configuration.  Only
\* the store survives.
Restart(mode) ==
    /\ trust' = mode
    /\ verified' = {}
    /\ pc' = [w \in Workers |-> "idle"]
    /\ job' = [w \in Workers |-> Idle]
    /\ inflight' = Orphaned(Workers)
    /\ UNCHANGED <<chainVars, storeVars>>

-----------------------------------------------------------------------------
(***************************************************************************)
(* The parties that do not go through the gateway.                         *)
(***************************************************************************)
Outside ==
    /\ \/ Tick
       \/ \E x \in Signable : SignClaim(x)
       \/ \E s \in Sessions, authority \in {GatewayKey, NoAuthority},
             amount \in Deposits, expires \in Expiries :
             OpenSession(s, authority, amount, expires)
       \/ \E s \in Sessions, x \in signed :
             SettleSession(s, s.provider, x.msg, ForeignRoot)
       \/ \E s \in Sessions, caller \in Keys : RefundSession(s, caller)
    /\ UNCHANGED gatewayVars

Init ==
    /\ EscrowInit
    /\ Store!StoreInit
    /\ trust \in Modes
    /\ verified = {}
    /\ pc = [w \in Workers |-> "idle"]
    /\ job = [w \in Workers |-> Idle]
    /\ inflight = {}

Next ==
    \/ Outside
    \/ \E s \in Sessions, agent \in Agents \cup Strangers,
          deposit \in Deposits, expires \in Expiries :
          \/ OpenVerify(s, agent, deposit, expires)
          \/ OpenTrusted(s, agent, deposit, expires)
    \/ \E v \in verified : OpenSave(v) \/ ReconcileMark(v)
    \/ \E s \in Sessions : ReconcileVerify(s)
    \/ \E x \in signed, t \in 0..now : t + Lag >= now /\ VerifyClaim(x, t)
    \/ \E w \in Workers, s \in Sessions : SettleRoot(w, s)
    \/ \E w \in Workers :
          SettleLoad(w) \/ SettleSend(w) \/ SettleMark(w) \/ Abandon(w)
    \/ \E x \in inflight : Land(x) \/ Lose(x)
    \/ \E mode \in Modes : Restart(mode)

Spec == Init /\ [][Next]_vars

-----------------------------------------------------------------------------
(***************************************************************************)
(* Properties.                                                             *)
(***************************************************************************)

\* Every variable of the gateway holds a value of its type.
GatewayTypeOK ==
    /\ Store!StoreTypeOK
    /\ trust \in BOOLEAN
    /\ pc \in [Workers -> {"idle", "rooted", "loaded", "sent", "confirmed"}]
    /\ inflight \subseteq Transactions
    /\ \A w \in Workers :
           pc[w] = "sent" <=> \E x \in inflight : x.by = w

\* A row marked chain_verified describes a session that exists on chain, with
\* the very agent, deposit and expiry the gateway judges claims by, whatever
\* configuration it was opened under (routes.rs reconcile_session, "a row that
\* was invented ... cannot talk its way to verified").
VerifiedRowsAreBacked ==
    \A s \in Sessions : row[s].known /\ row[s].chain_verified =>
        /\ session[s].open
        /\ row[s].agent = s.agent
        /\ row[s].deposited_total = session[s].deposited_total
        /\ row[s].expires_at = session[s].expires_at

\* What the gateway accepted for a verified session is in the vault until the
\* session is settled on chain or its window ends: accepting a claim never
\* extends credit (chain.rs, "would let anyone open tracking under a key they
\* control and have the gateway authorise claims the chain will never settle").
AcceptedIsEscrowed ==
    \A s \in Sessions :
        /\ row[s].known /\ row[s].chain_verified
        /\ ~ session[s].is_settled
        /\ now <= session[s].expires_at + ClockSkew
        => vault[s] >= ticket[s].cumulative

\* The claim the gateway would settle carries a signature the program accepts:
\* the session's own agent signed exactly the fields rebuilt from the ticket
\* (db.rs row_to_record; verify.rs, a laxer check "would let the gateway
\* authorise a claim that then fails at settlement").
AcceptedClaimIsSigned ==
    \A s \in Sessions :
        row[s].known /\ row[s].chain_verified /\ ticket[s].exists =>
            [signer |-> s.agent, msg |-> HighestClaim(s)] \in signed

\* The settled flag is only ever raised for a session the chain has settled
\* (routes.rs settle_session, "Only after the chain confirms"), and the gateway
\* never books a refused or lost transaction: each handler that waits has its
\* own transaction in flight, as GatewayTypeOK says.
MarkedOnlyAfterChain ==
    /\ GatewayTypeOK
    /\ \A s \in Sessions :
           row[s].known /\ row[s].settled => session[s].is_settled

\* Whatever the gateway itself settles is a claim its log shows as accepted,
\* and the root it commits is the root of a prefix of that log, also when the
\* transaction lands after its handler, or the gateway process, is gone.
SettledClaimIsInLog ==
    \A s \in Sessions : record[s].exists /\ record[s].root # ForeignRoot =>
        /\ record[s].root <= Len(log[s])
        /\ \E i \in DOMAIN log[s] :
               /\ log[s][i].decision = "Allowed"
               /\ log[s][i].cumulative = record[s].claim.cumulative
               /\ log[s][i].nonce = record[s].claim.nonce

-----------------------------------------------------------------------------
(***************************************************************************)
(* What a comment of the repository says, and the code does not do.        *)
(***************************************************************************)

\* routes.rs settle_session: the highest claim the gateway accepted "settles
\* the whole session".
SettledMeansPaidInFull ==
    \A s \in Sessions : row[s].known /\ row[s].settled =>
        session[s].cumulative_settled >= ticket[s].cumulative
=============================================================================
