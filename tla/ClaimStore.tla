----------------------------- MODULE ClaimStore -----------------------------
(***************************************************************************)
(* The gateway's session store as its callers see it (gateway/src/state.rs,*)
(* trait SessionStore, and its PostgreSQL implementation in db.rs): every  *)
(* call is one atomic step.  ClaimTx models the transactions behind it.    *)
(*                                                                         *)
(* A row is a tracked session; its ticket is the highest claim accepted so *)
(* far; its log is the evidence log, one entry per authenticated decision. *)
(* Entry hashes chain every entry to its predecessors, so the log itself   *)
(* stands for its Merkle root: two logs have the same root exactly when    *)
(* they are equal.                                                         *)
(*                                                                         *)
(* Claims carry u64 amounts and nonces; a BIGINT column holds up to MaxI64.*)
(***************************************************************************)
EXTENDS Integers, Sequences

CONSTANTS
    Rows,           \* session keys
    AgentKeys,      \* keys a row may name as its agent
    Amounts,        \* deposits a row may be opened with (u64)
    Expiries,       \* expiries a row may be opened with (i64)
    Claims,         \* claims that may be presented, signature verified
    Times,          \* instants at which a claim may be judged
    Skew,           \* CLOCK_SKEW_TOLERANCE_SECS
    MaxI64          \* the largest BIGINT

VARIABLES
    row,            \* table sessions
    ticket,         \* table claim_tickets
    log             \* table evidence_log, by session, in sequence_id order

storeVars == <<row, ticket, log>>

ClaimTypes ==
    [session : Rows, cumulative : Nat, nonce : Nat, expires : Int]

ASSUME StoreAssumption ==
    /\ Claims \subseteq ClaimTypes
    /\ Amounts \subseteq Nat
    /\ Expiries \subseteq Int
    /\ Times \subseteq Int
    /\ Skew \in Nat
    /\ MaxI64 \in Nat

SessionRows ==
    [known : BOOLEAN, agent : AgentKeys, deposited_total : Nat,
     expires_at : Int, settled : BOOLEAN, chain_verified : BOOLEAN]

\* No row under this key.
NoRow == [known |-> FALSE]

Tickets == [exists : {TRUE}, cumulative : Nat, nonce : Nat, expires : Int]

\* No claim accepted yet: the LEFT JOIN yields cumulative 0 and no nonce.
NoTicket == [exists |-> FALSE, cumulative |-> 0]

Refusals == {"SessionSettled", "SessionExpired", "NotMonotonic",
             "NonceNotMonotonic", "ExceedsDeposit"}

\* A refusal of a settled session leaves no entry.
Decisions == {"Allowed"} \cup (Refusals \ {"SessionSettled"})

Entries == [decision : Decisions, cumulative : Nat, nonce : Nat]

-----------------------------------------------------------------------------
(***************************************************************************)
(* The rules.                                                              *)
(***************************************************************************)

\* expires_at.checked_add(skew).unwrap_or(i64::MAX)
Limit(expires) == IF expires + Skew > MaxI64 THEN MaxI64 ELSE expires + Skew

\* A claim moves the session strictly forward.
Forward(k, c) == c.cumulative > k.cumulative

NonceNotLower(k, c) == k.exists => c.nonce >= k.nonce

\* The nonce is above the last accepted one, if there is one.
FreshNonce(k, c) == k.exists => c.nonce > k.nonce

\* evaluate_claim: the verdict on claim c at instant t for row r and ticket k.
\* The order of the checks decides which reason is recorded.
EvaluateClaim(r, k, c, t) ==
    IF r.settled THEN "SessionSettled"
    ELSE IF t > Limit(r.expires_at) THEN "SessionExpired"
    ELSE IF ~ Forward(k, c) THEN "NotMonotonic"
    ELSE IF ~ FreshNonce(k, c) THEN "NonceNotMonotonic"
    ELSE IF c.cumulative > r.deposited_total THEN "ExceedsDeposit"
    ELSE "Allowed"

\* .min(i64::MAX as u64)
Clamp(n) == IF n > MaxI64 THEN MaxI64 ELSE n

\* The evidence entry of a decision: what the columns hold, which is also what
\* the entry hash covers.
Entry(d, c) ==
    [decision |-> d, cumulative |-> Clamp(c.cumulative),
     nonce |-> Clamp(c.nonce)]

RecordedAlways(d) == TRUE

\* Which decisions append an entry.
Recorded(d) == d # "SessionSettled"

AlwaysStorable(c) == TRUE

\* The accepted claim fits the columns of claim_tickets; otherwise to_i64 fails
\* and the transaction rolls back, the evidence entry included.
Storable(c) == c.cumulative <= MaxI64 /\ c.nonce <= MaxI64

TicketOf(c) ==
    [exists |-> TRUE, cumulative |-> c.cumulative, nonce |-> c.nonce,
     expires |-> c.expires]

-----------------------------------------------------------------------------
(***************************************************************************)
(* Operations.                                                             *)
(***************************************************************************)

\* open / save_session: ON CONFLICT DO NOTHING; the columns refuse a deposit of
\* zero and one that does not fit.
OpenRow(s, agent, deposit, expires, verified) ==
    /\ ~ row[s].known
    /\ deposit > 0 /\ deposit <= MaxI64
    /\ row' = [row EXCEPT ![s] =
           [known |-> TRUE, agent |-> agent, deposited_total |-> deposit,
            expires_at |-> expires, settled |-> FALSE,
            chain_verified |-> verified]]
    /\ UNCHANGED <<ticket, log>>

AcceptUnlogged(c, t) ==
    /\ row[c.session].known
    /\ EvaluateClaim(row[c.session], ticket[c.session], c, t) = "Allowed"
    /\ Storable(c)
    /\ ticket' = [ticket EXCEPT ![c.session] = TicketOf(c)]
    /\ UNCHANGED <<row, log>>

\* admit_claim, accepting: evidence and high-water mark in one transaction.
AcceptClaim(c, t) ==
    /\ row[c.session].known
    /\ EvaluateClaim(row[c.session], ticket[c.session], c, t) = "Allowed"
    /\ Storable(c)
    /\ log' = [log EXCEPT ![c.session] = Append(@, Entry("Allowed", c))]
    /\ ticket' = [ticket EXCEPT ![c.session] = TicketOf(c)]
    /\ UNCHANGED row

\* admit_claim, refusing: the evidence entry is committed, the mark stays.
RefuseClaim(c, t) ==
    /\ row[c.session].known
    /\ LET d == EvaluateClaim(row[c.session], ticket[c.session], c, t)
       IN  /\ d # "Allowed"
           /\ Recorded(d)
           /\ log' = [log EXCEPT ![c.session] = Append(@, Entry(d, c))]
    /\ UNCHANGED <<row, ticket>>

\* mark_settled: a second call finds no row to update.
MarkSettled(s) ==
    /\ row[s].known
    /\ ~ row[s].settled
    /\ row' = [row EXCEPT ![s].settled = TRUE]
    /\ UNCHANGED <<ticket, log>>

\* mark_chain_verified: the flag only travels from false to true.
MarkChainVerified(s) ==
    /\ row[s].known
    /\ row' = [row EXCEPT ![s].chain_verified = TRUE]
    /\ UNCHANGED <<ticket, log>>

-----------------------------------------------------------------------------
StoreInit ==
    /\ row = [s \in Rows |-> NoRow]
    /\ ticket = [s \in Rows |-> NoTicket]
    /\ log = [s \in Rows |-> << >>]

StoreNext ==
    \/ \E s \in Rows, agent \in AgentKeys, deposit \in Amounts,
          expires \in Expiries, verified \in BOOLEAN :
          OpenRow(s, agent, deposit, expires, verified)
    \/ \E c \in Claims, t \in Times : AcceptClaim(c, t) \/ RefuseClaim(c, t)
    \/ \E s \in Rows : MarkSettled(s) \/ MarkChainVerified(s)

StoreSpec == StoreInit /\ [][StoreNext]_storeVars

-----------------------------------------------------------------------------
(***************************************************************************)
(* Properties.                                                             *)
(***************************************************************************)

\* Every table holds values of its columns; in particular no entry records a
\* refusal of a settled session.
StoreTypeOK ==
    /\ row \in [Rows -> {NoRow} \cup SessionRows]
    /\ ticket \in [Rows -> {NoTicket} \cup Tickets]
    /\ log \in [Rows -> Seq(Entries)]

Allowed(s) == {i \in DOMAIN log[s] : log[s][i].decision = "Allowed"}

\* Money moves forward once: along the evidence log, accepted claims have
\* strictly increasing amounts and strictly increasing nonces, so no signed
\* claim buys twice, however requests are repeated, reordered or mixed with
\* refused ones (state.rs evaluate_claim, "equal is a replay, lower is a
\* regression").
AllowedEntriesClimb ==
    \A s \in Rows : \A i, j \in Allowed(s) : i < j =>
        /\ log[s][i].cumulative < log[s][j].cumulative
        /\ log[s][i].nonce < log[s][j].nonce

\* The evidence explains the high-water mark: the ticket is exactly the last
\* accepted entry of the log, values unclamped, and it is within the deposit;
\* there is no ticket when nothing was accepted (db.rs
\* upsert_claim_high_water_mark writes the two tables one after the other).
MarkIsLastAllowed ==
    \A s \in Rows :
        /\ ticket[s].exists <=> Allowed(s) # {}
        /\ ticket[s].exists =>
               /\ ticket[s].cumulative <= row[s].deposited_total
               /\ \E i \in Allowed(s) :
                      /\ \A j \in Allowed(s) : j <= i
                      /\ log[s][i].cumulative = ticket[s].cumulative
                      /\ log[s][i].nonce = ticket[s].nonce

\* Once a session is settled its evidence and its mark stop moving, whatever is
\* still presented (db.rs: appending afterwards "would change a root that is
\* already published"), and the flag never falls back.
SettledLogFrozen ==
    [][\A s \in Rows : row[s].known /\ row[s].settled =>
          /\ row'[s].known /\ row'[s].settled
          /\ log'[s] = log[s]
          /\ ticket'[s] = ticket[s]]_storeVars
=============================================================================
