------------------------------- MODULE Escrow -------------------------------
(***************************************************************************)
(* The on-chain program (programs/agentpay/src/lib.rs).                    *)
(*                                                                         *)
(* A session is an account whose address is derived from its agent, its    *)
(* provider and a session id; it owns a token vault.  open_session moves   *)
(* the agent's deposit into the vault, settle_session pays the provider up *)
(* to an amount the agent signed, refund_session returns what is left to   *)
(* the agent.  Settlement is repeatable: each one advances the cumulative  *)
(* amount and the settlement record.                                       *)
(*                                                                         *)
(* An instruction is atomic: the runtime discards a transaction whose      *)
(* instruction fails, so a refused call is a step that does not exist.     *)
(* Amounts are u64 and bounded by a deposit, so no sum of them can         *)
(* overflow before the bound refuses it; instants are i64 and a checked    *)
(* addition of the skew may overflow, which MaxI64 models.                 *)
(***************************************************************************)
EXTENDS Integers

CONSTANTS
    Agents, Providers,      \* wallets that deposit, wallets that are paid
    SessionIds,             \* the 16-byte id chosen by the agent
    Authorities,            \* keys an agent may name as settlement authority
    NoAuthority,            \* the all-zero key, which signs nothing
    Strangers,              \* any other key that can submit a transaction
    Deposits,               \* deposit amounts an agent may ask for
    Expiries,               \* session expiries an agent may ask for
    Signable,               \* claim signatures the environment may produce
    Roots,                  \* Merkle roots a settler may submit
    Funds,                  \* tokens each wallet holds at first
    MaxSessionDuration,     \* MAX_SESSION_DURATION_SECS
    ClockSkew,              \* CLOCK_SKEW_TOLERANCE_SECS
    MaxI64,                 \* the largest instant
    MaxTime                 \* bound on the modelled clock

VARIABLES
    now,        \* Clock::get()?.unix_timestamp
    session,    \* the session accounts, by address
    record,     \* the SettlementRecord accounts, by session
    vault,      \* token balance of each session's vault
    wallet,     \* token balance of each agent and provider
    signed      \* claim signatures that exist in the world

chainVars == <<now, session, record, vault, wallet, signed>>

-----------------------------------------------------------------------------
(***************************************************************************)
(* Accounts.                                                               *)
(***************************************************************************)

Keys == Agents \cup Providers \cup Authorities \cup Strangers

\* A session's address: the seeds of its PDA, so no two sessions share one and
\* agent and provider can never change.
Sessions == [agent : Agents, provider : Providers, id : SessionIds]

\* The message an agent signs.  Every field is fixed-width, so two messages are
\* equal exactly when their fields are.
Messages == [session : Sessions, cumulative : Nat, nonce : Nat, expires : Int]

Signatures == [signer : Keys, msg : Messages]

SessionAccounts ==
    [open : BOOLEAN, settlement_authority : Authorities \cup {NoAuthority},
     deposited_total : Nat, cumulative_settled : Nat, refunded_total : Nat,
     expires_at : Int, is_settled : BOOLEAN]

\* An address at which nothing has been initialised.
NoSession ==
    [open |-> FALSE, settlement_authority |-> NoAuthority,
     deposited_total |-> 0, cumulative_settled |-> 0, refunded_total |-> 0,
     expires_at |-> 0, is_settled |-> FALSE]

\* The receipt account of a session; claim stands for the hash of the message.
SettlementRecords ==
    [exists : {TRUE}, settled_amount : Nat, settled_at : Int,
     claim : Messages, root : Roots]

NoRecord == [exists |-> FALSE, settled_amount |-> 0]

ASSUME ConstantsAssumption ==
    /\ Signable \subseteq Signatures
    /\ Deposits \subseteq Nat
    /\ Expiries \subseteq Int
    /\ Funds \in Nat
    /\ MaxSessionDuration \in Nat
    /\ ClockSkew \in Nat
    /\ MaxI64 \in Nat
    /\ MaxTime \in Nat
    /\ NoAuthority \notin Keys
    \* A session accepted by open_session cannot overflow its own window.
    /\ MaxTime + MaxSessionDuration + ClockSkew <= MaxI64

-----------------------------------------------------------------------------
(***************************************************************************)
(* The rules of the program, one operator per rule.                        *)
(***************************************************************************)

\* expires_at.checked_add(CLOCK_SKEW_TOLERANCE_SECS) overflows.
Overflows(expires) == expires + ClockSkew > MaxI64

\* now <= expires_at + skew, and an error when the sum overflows.
Within(expires) == ~ Overflows(expires) /\ now <= expires + ClockSkew

\* The settler is the session's authority or its provider.
MaySettle(s, settler) ==
    settler \in {session[s].settlement_authority, s.provider}

\* build_claim_message: the message the precompile must have verified, for the
\* arguments m of the instruction.
ExpectedClaim(s, m) ==
    [session |-> s, cumulative |-> m.cumulative, nonce |-> m.nonce,
     expires |-> m.expires]

ClaimOfAnySigner(s, m) == \E x \in signed : x.msg = m

ClaimOfAnySession(s, m) ==
    \E x \in signed : x.signer = s.agent /\ x.msg.cumulative = m.cumulative

\* verify_ed25519_claim: the transaction carries a precompile instruction that
\* verified exactly this message under exactly the session's agent key.
VerifyEd25519Claim(s, m) == [signer |-> s.agent, msg |-> m] \in signed

DeltaWhole(s, cumulative) == cumulative

\* What this settlement moves.
Delta(s, cumulative) == cumulative - session[s].cumulative_settled

\* The amount checks of settle_session.
PayoutAllowed(s, cumulative) ==
    /\ cumulative > session[s].cumulative_settled
    /\ cumulative <= session[s].deposited_total
    /\ cumulative + session[s].refunded_total <= session[s].deposited_total

RecordOfDelta(s, m, root) ==
    [exists |-> TRUE,
     settled_amount |-> m.cumulative - session[s].cumulative_settled,
     settled_at |-> now, claim |-> m, root |-> root]

RecordAllocatedOnly(s, m, root) == [exists |-> TRUE, settled_amount |-> 0]

\* The receipt: created by the first settlement, overwritten by every later
\* one.  The amount is cumulative, not this transaction's delta.
RecordAfter(s, m, root) ==
    [exists |-> TRUE, settled_amount |-> m.cumulative, settled_at |-> now,
     claim |-> m, root |-> root]

\* Past the window (the sum cannot overflow: open_session bounds it).
Expired(s) == now > session[s].expires_at + ClockSkew

RefundByAgentOnly(s, caller) == caller = s.agent /\ Expired(s)

RefundUnsettled(s, caller) == Expired(s) \/ caller = s.agent

\* Permissionless once the window has closed; before that only the agent, and
\* only after a settlement.
MayRefund(s, caller) ==
    \/ Expired(s)
    \/ caller = s.agent /\ session[s].is_settled

RemainingButOne(s) ==
    session[s].deposited_total - session[s].cumulative_settled
        - session[s].refunded_total - 1

\* What refund_session returns.
Remaining(s) ==
    session[s].deposited_total - session[s].cumulative_settled
        - session[s].refunded_total

-----------------------------------------------------------------------------
(***************************************************************************)
(* Actions.                                                                *)
(***************************************************************************)

\* open_session, signed by the agent.  `init` refuses an address in use.
OpenSession(s, authority, amount, expires) ==
    /\ ~ session[s].open
    /\ amount > 0
    /\ expires > now
    /\ expires - now <= MaxSessionDuration
    /\ wallet[s.agent] >= amount
    /\ session' = [session EXCEPT ![s] =
           [NoSession EXCEPT !.open = TRUE,
                             !.settlement_authority = authority,
                             !.deposited_total = amount,
                             !.expires_at = expires]]
    /\ wallet' = [wallet EXCEPT ![s.agent] = @ - amount]
    /\ vault' = [vault EXCEPT ![s] = @ + amount]
    /\ UNCHANGED <<now, record, signed>>

\* settle_session: the token program moves delta only if the vault holds it.
SettleSession(s, settler, m, root) ==
    /\ session[s].open
    /\ MaySettle(s, settler)
    /\ Within(session[s].expires_at)
    /\ Within(m.expires)
    /\ PayoutAllowed(s, m.cumulative)
    /\ VerifyEd25519Claim(s, ExpectedClaim(s, m))
    /\ vault[s] >= Delta(s, m.cumulative)
    /\ vault' = [vault EXCEPT ![s] = @ - Delta(s, m.cumulative)]
    /\ wallet' = [wallet EXCEPT ![s.provider] = @ + Delta(s, m.cumulative)]
    /\ session' = [session EXCEPT ![s].cumulative_settled = m.cumulative,
                                  ![s].is_settled = TRUE]
    /\ record' = [record EXCEPT ![s] = RecordAfter(s, ExpectedClaim(s, m), root)]
    /\ UNCHANGED <<now, signed>>

\* refund_session, submitted by any key.
RefundSession(s, caller) ==
    /\ session[s].open
    /\ MayRefund(s, caller)
    /\ Remaining(s) > 0
    /\ vault[s] >= Remaining(s)
    /\ vault' = [vault EXCEPT ![s] = @ - Remaining(s)]
    /\ wallet' = [wallet EXCEPT ![s.agent] = @ + Remaining(s)]
    /\ session' = [session EXCEPT ![s].refunded_total = @ + Remaining(s)]
    /\ UNCHANGED <<now, record, signed>>

\* A key signs a claim message; the signature may then reach anybody, any
\* number of times and in any order.
SignClaim(x) ==
    /\ x \in Signable \ signed
    /\ signed' = signed \cup {x}
    /\ UNCHANGED <<now, session, record, vault, wallet>>

\* The cluster's clock advances.
Tick ==
    /\ now < MaxTime
    /\ now' = now + 1
    /\ UNCHANGED <<session, record, vault, wallet, signed>>

-----------------------------------------------------------------------------
EscrowInit ==
    /\ now = 0
    /\ session = [s \in Sessions |-> NoSession]
    /\ record = [s \in Sessions |-> NoRecord]
    /\ vault = [s \in Sessions |-> 0]
    /\ wallet = [k \in Agents \cup Providers |-> Funds]
    /\ signed = {}

EscrowNext ==
    \/ Tick
    \/ \E x \in Signable : SignClaim(x)
    \/ \E s \in Sessions, authority \in Authorities \cup {NoAuthority},
          amount \in Deposits, expires \in Expiries :
          OpenSession(s, authority, amount, expires)
    \/ \E s \in Sessions, settler \in Keys, x \in signed, root \in Roots :
          SettleSession(s, settler, x.msg, root)
    \/ \E s \in Sessions, caller \in Keys : RefundSession(s, caller)

EscrowSpec == EscrowInit /\ [][EscrowNext]_chainVars

-----------------------------------------------------------------------------
(***************************************************************************)
(* Fairness: time passes, and some key keeps asking for the refund of an   *)
(* expired session.  Nobody else (agent, provider, gateway) is obliged to  *)
(* act.                                                                    *)
(***************************************************************************)
EscrowFairSpec ==
    /\ EscrowSpec
    /\ WF_chainVars(Tick)
    /\ \A s \in Sessions :
          WF_chainVars(\E k \in Strangers : RefundSession(s, k))

-----------------------------------------------------------------------------
(***************************************************************************)
(* Properties.                                                             *)
(***************************************************************************)

\* Every variable holds a value the accounts can hold.
EscrowTypeOK ==
    /\ now \in 0..MaxTime
    /\ session \in [Sessions -> SessionAccounts]
    /\ record \in [Sessions -> {NoRecord} \cup SettlementRecords]
    /\ vault \in [Sessions -> Nat]
    /\ wallet \in [Agents \cup Providers -> Nat]
    /\ signed \subseteq Signable

\* The vault always holds exactly what the books of the session say is neither
\* paid nor returned, whatever sequence of settlements and refunds ran
\* (lib.rs settle_session and refund_session move tokens and update the books
\* in separate statements).
VaultMatchesBooks ==
    \A s \in Sessions :
        vault[s] = session[s].deposited_total - session[s].cumulative_settled
                       - session[s].refunded_total

\* What a provider has received is an amount the session's own agent signed for
\* this very session: no other key's signature and no other session's claim can
\* pay it (lib.rs verify_ed25519_claim over build_claim_message).
PaidOnlyWhatTheAgentSigned ==
    \A s \in Sessions : session[s].is_settled =>
        \E x \in signed :
            /\ x.signer = s.agent
            /\ x.msg.session = s
            /\ x.msg.cumulative = session[s].cumulative_settled

\* The settlement record is the session's receipt: it exists exactly when the
\* session was settled and states the total paid over all its settlements, with
\* the claim that authorised it (lib.rs settle_session, "CUMULATIVE, not the
\* delta").
ReceiptMatchesSession ==
    \A s \in Sessions :
        /\ record[s].exists <=> session[s].is_settled
        /\ record[s].settled_amount = session[s].cumulative_settled
        /\ record[s].exists =>
               /\ record[s].claim.session = s
               /\ record[s].claim.cumulative =
                      session[s].cumulative_settled

\* Until the first settlement or the end of the window, the whole deposit backs
\* the claims of the session: the agent cannot take it back first
\* (lib.rs refund_session, SessionStillActive).
UnsettledDepositIsWhole ==
    \A s \in Sessions :
        session[s].open /\ ~ session[s].is_settled
            /\ now <= session[s].expires_at + ClockSkew
        => vault[s] = session[s].deposited_total

\* A refund is final: once anything was returned to the agent the session is
\* closed, nothing more is ever paid or returned (lib.rs settle_session,
\* PayoutExceedsDeposit, and refund_session, NothingToRefund).
RefundIsFinal ==
    [][\A s \in Sessions : session[s].refunded_total > 0 =>
          session'[s] = session[s] /\ vault'[s] = vault[s]]_chainVars

\* Tokens of a session only ever flow vault -> its provider (in a step that
\* raises cumulative_settled by the same amount) or vault -> its agent.
\* In particular no sequence of calls by the other parties moves a wallet that
\* is neither (lib.rs, the token-account owner constraints).
FlowsStayInTheSession ==
    [][\A k \in Agents \cup Providers : wallet'[k] > wallet[k] =>
          \E s \in Sessions :
              /\ wallet'[k] - wallet[k] = vault[s] - vault'[s]
              /\ \/ /\ k = s.provider
                    /\ session'[s].cumulative_settled
                           - session[s].cumulative_settled
                       = vault[s] - vault'[s]
                 \/ /\ k = s.agent
                    /\ session'[s].refunded_total - session[s].refunded_total
                       = vault[s] - vault'[s]]_chainVars

\* Escrow is always recoverable: every opened session's vault is eventually
\* empty, with no gateway, no provider and no agent taking part
\* (lib.rs refund_session, "what makes recovery possible with no gateway").
EscrowIsRecovered ==
    \A s \in Sessions : session[s].open ~> vault[s] = 0

\* SETTLEMENT_CUSTODY.md, threat table: settling low is harmless because
\* "provider re-settles higher".  A claim the agent signed, inside its window,
\* above what was settled and within the deposit, can still be paid in full.
HigherClaimStillPayable ==
    \A s \in Sessions, x \in signed :
        /\ session[s].open
        /\ x.signer = s.agent /\ x.msg.session = s
        /\ Within(session[s].expires_at) /\ Within(x.msg.expires)
        /\ x.msg.cumulative > session[s].cumulative_settled
        /\ x.msg.cumulative <= session[s].deposited_total
        => vault[s] >= x.msg.cumulative - session[s].cumulative_settled

-----------------------------------------------------------------------------
(***************************************************************************)
(* The program implements the escrow promise, which knows no clock, no     *)
(* accounts and no receipts.                                               *)
(***************************************************************************)
Promise == INSTANCE EscrowPromise WITH
    deposited <- [s \in Sessions |-> session[s].deposited_total],
    paid <- [s \in Sessions |-> session[s].cumulative_settled],
    returned <- [s \in Sessions |-> session[s].refunded_total],
    authorised <- [s \in Sessions |->
        {x.msg.cumulative : x \in {y \in signed :
                                     y.signer = s.agent /\ y.msg.session = s}}]

\* Every behaviour of the program is one the escrow promise allows.
PromiseKept == Promise!PromiseSpec
=============================================================================
