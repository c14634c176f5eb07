# AgentPay: TLA+ models and proofs

AgentPay lets an AI agent pay an API provider out of an on-chain escrow. The
agent deposits once, then signs off-chain *claims* with growing cumulative
amounts; a gateway checks and records each claim before it forwards the call,
and later settles the highest one on chain. This directory models the parts
that decide whether money can be lost, and checks and proves what they promise.

Line numbers refer to files of the repository (`programs/agentpay/src/lib.rs` is
"the program", everything in `gateway/src/` "the gateway").

## 1. Inventory

| Part | State | Operations | Talks to | What makes it correct |
|---|---|---|---|---|
| **Program** (`programs/agentpay/src/lib.rs`) | session accounts, settlement records, vaults | `open_session`, `settle_session` (repeatable, by the settlement authority or the provider), `refund_session` (anyone after expiry; the agent after a settlement) | token program, Ed25519 precompile | the vault follows the books; only amounts the agent signed for this session are paid; the receipt is true; escrow always comes back |
| **Claim rules and store** (`state.rs`, `db.rs`, migrations 0001-0003, 0007) | rows, claim tickets (high-water mark), evidence log | `open`, `admit_claim`, `mark_settled`, `mark_chain_verified` | PostgreSQL transactions with a row lock | no claim admitted twice; mark and log agree; a settled log is frozen |
| **Gateway handlers** (`routes.rs`, `chain.rs`, `settle.rs`, `claim.rs`, `verify.rs`) | requests in progress, submitted transactions | `open_session`, `reconcile_session`, `verify_claim`, `settle_session` | store, RPC node, program | a verified row is what the chain says; accepted claims are escrowed and signed; settled only after the chain |
| **Purchase path, policy** (`buy.rs`, `policy.rs`, `routes.rs` `buy`, `enforce_agent_policy`) | usage records, budgets, approvals | `buy`, approve, deny, consume | store, upstream API | no spend over the envelope; no call without a charge |
| **Planners** (`control.rs` `plan`, `plan_for_session`) | none of their own | two planning endpoints | store, envelope, registry | the claim that authenticates a plan adds nothing to what is owed; the count is what the paid path then admits |
| **Control plane** (`control.rs`, `control_db.rs`) | tables of agents, envelopes, approvals, providers, operators | create, authorise, suspend, decide, register, delete | PostgreSQL, purchase path | tenants are isolated; a decision is final and names who made it |
| **Operator authentication** (`auth.rs`) | operators' token hashes | `require_admin`, rotation, revocation | control plane | a revoked or replaced credential gains nothing |
| **Provider registry** (`registry.rs`) | in-memory map of providers | `upsert`, `remove`, `aggregate`, load at boot | providers table, upstream APIs | it comes to show what the table says |
| **Evidence algorithms** (`evidence.rs`) | evidence log, published root | entry hash, `verify_chain`, Merkle root, proofs | store, auditors | every entry is provable; any change is detected |
| **Rate limiter** (`ratelimit.rs`) | token buckets of two limiters | `check`, eviction | every open route | nobody exceeds the quota, pays for others or is locked out; bounded memory |
| **SDK** (`sdk/src`) | next cumulative and nonce | sign, buy, resume | gateway | never signs more than it means to pay |
| **Console, demo provider, scripts** | - | - | gateway | user interface and deployment; not modelled |

**What is hard here.** The gateway is asynchronous: every `await` is a point where
another request, a settlement, a refund or the chain's clock may step in. Its
clock reading is taken at the start of a handler. A submitted transaction
outlives its handler, which a timeout layer (`main.rs:141`) may drop. Settlement
is repeatable and open to the provider and the gateway, while the agent may
refund. The store's guarantees rest on one `SELECT ... FOR UPDATE`. An operator's
request is authenticated once and acts later. A limiter must forget callers
without forgetting what they used. Each of these is a hazard in `PROJECT.json`, at
its line.

## 2. Modules

| Module | Models | State |
|---|---|---|
| `Escrow` | the program; claims signed by anybody, delivered to anybody, any number of times | `session`, `record`, `vault`, `wallet`, `signed`, `now` |
| `EscrowPromise` | what an escrow promises, with no clock, accounts or receipts: deposit once, pay growing authorised amounts, return the rest once | `deposited`, `paid`, `returned`, `authorised` |
| `ClaimStore` | the store as its callers see it, one atomic step per call | `row`, `ticket`, `log` |
| `ClaimStoreProofs` | theorems about `ClaimStore` | - |
| `ClaimTx` | `admit_claim` statement by statement, with the row lock, the unique index, the conditional upsert, aborts and lost acknowledgements; extends `ClaimStore` | + `pc`, `arg`, `seen`, `tail`, `lock`, `reply` |
| `ClaimTxProofs` | theorems about `ClaimTx`; extends `ClaimStoreProofs` | - |
| `Gateway` | the handlers, composed with `Escrow` (extended) and `ClaimStore` (instantiated) | + `trust`, `verified`, `pc`, `job`, `inflight` |
| `GatewayProofs` | theorems about `Escrow` and about `Gateway` | - |
| `AgentPolicy` | the envelope, `policy::evaluate` and `agent_spend`; extends `ClaimStore` | - |
| `Purchase` | the paid path; extends `AgentPolicy` | + `price`, `agent`, `approvals`, `pc`, `req`, `receipt`, `forwarded`, `billed` |
| `PurchaseProofs` | theorems about `Purchase`; extends `ClaimStoreProofs` | - |
| `Planner` | the two planners; extends `AgentPolicy` | + `agents`, `plan`, `advice`, `planned` |
| `PlannerProofs` | theorems about `Planner`; extends `ClaimStoreProofs` | - |
| `ControlPlane` | authentication, and everything an operator may change, the registry included | `operators`, `agents`, `approvals`, `providers`, `registry`, `req`; history `keeper`, `overruled`, `newest` |
| `ControlPlaneProofs` | theorems about `ControlPlane` | - |
| `Evidence` | hash chain, Merkle tree and audit endpoints against changes of the table | `log`, `root`, `settled`, `edits`; history `committed` |
| `EvidenceProofs` | theorems about `Evidence` | - |
| `RateLimit` | the two limiters and the address they are keyed on | `tracked`, `tokens`, `age`, `passed`, `lone`; history `meter` |
| `RateLimitProofs` | theorems about `RateLimit` | - |
| `MCEscrow`, `MCClaimTx`, `MCGateway`, `MCPurchase`, `MCPlanner`, `MCControlPlane`, `MCEvidence`, `MCRateLimit` | the instances TLC checks | - |

An operator whose name is used nowhere else in a module and which stands just
before another one (`DeltaWhole` before `Delta`) is a faulty variant of it: the
properties are shown to fail when it takes the other's place.

### How the models correspond to the code

*Program.* One action per instruction, guarded by its `require!`s in order. A
failing instruction is rolled back by the runtime, so it is no step. A session's
address is the record of its PDA seeds. `VerifyEd25519Claim` is membership of
exactly the expected message under exactly the agent's key in the set of
existing signatures, which is what the precompile plus the offset checks
establish; SHA-256 and Ed25519 are taken to be perfect. The token program is
represented by the balance guards. The mint charges no transfer fee, and gifts
of tokens to a vault and rent are left out.

*Store.* `EvaluateClaim` keeps the order of the checks because it decides the
reason recorded. Claims are unsigned 64-bit, columns signed 64-bit: `MaxI64` is
a constant, `Clamp` is what `append_evidence` stores and hashes, `Storable` is
the checked conversion that makes an accepted claim fail as a whole. The hash
chain makes an entry hash determine its whole prefix, so the model compares logs
instead of hashes.

*Transactions.* READ COMMITTED with the row lock: a `FOR UPDATE` and the UPDATEs
of the row wait for each other, plain SELECTs do not, an insert that collides
with an open transaction's waits, one that collides with a committed row fails.
`Abort` is a failing statement, a dropped handler or a crash at any point; in
`Commit` the answer may get lost after the effect.

*Gateway.* A handler is cut at the awaits that matter. `verify_claim` reads the
clock first and the store decides later, so the claim is judged at an instant up
to `Lag` old. `settle_session` is `SettleRoot` (reads the log), `SettleLoad`
(reads the claim), `SettleSend`, `Land` or `Lose` (the cluster), `SettleMark`;
`Abandon` ends it anywhere and leaves its transaction in flight, `Restart` does so
for all handlers and may change `AGENTPAY_TRUST_OPEN_REQUESTS`. A Merkle root is the
length of the log prefix it covers. `Outside` is everybody else: time, agents that
deposit, sign and refund, a provider that settles by itself, strangers.

*Purchases.* `buy` with `enforce_agent_policy`, one step from await to await:
`BuyQuote` (clock, price, expiry), `BuyRecord` (accepted total, asking price),
`BuyAgent` (agent and envelope), `BuySpend` (spend so far, `policy::evaluate`),
`BuyConsume`, `BuyPending`, `BuyRaise` (approvals), `BuyAdmit` (the charge),
`BuyForward` (meter, request, answer). `Abandon` drops the handler at any of them,
and a retry is another `BuyQuote` with the same claim. Around it, prices change
(`Relist`), operators create, authorise and suspend agents and decide approvals,
and `Elsewhere` is the rest of the gateway: sessions open and settle, claims come
by `POST /v1/claim/verify`, which asks no envelope. Approvals for one agent,
resource and price are counted by state, since nothing tells them apart;
`receipt`, `forwarded` and `billed` record what callers, providers and the usage
table have seen. Left out: answers that change nothing (the 402 quote, bad
signatures), usage rows of refusals, rejected approvals, tenants, and the mode
without a database, where no envelope exists.

*Planners.* A planner reads the session (`PlanForSession`, where the binding rule
is), the agent, the spend and the catalogues in four steps, and purchases and
operators act in between. `Affordable` is the walk of `plan_options`: the number of
calls before the first one that `policy::evaluate` refuses. `planned` remembers
the claims that authenticated a plan. What the catalogues answer is any set of
offers.

*Operators.* `RequireAdmin` resolves a token to a caller and its workspace; from
then on the request acts as that caller, whatever becomes of the token. A tenant
predicate is part of the statement that writes. `authorize_agent` is a read and a
transaction, `register_provider` and `delete_provider` are a write of the table and
one of the registry; `Abandon` may fall between. `Restart` does what `main` does: it
loads the registry from the table, or from nothing if that cannot be read, enters the
configured upstream, if there is one, into the registry, and then into the table,
where the write may be refused or fail without anybody noticing. `keeper` remembers
for whom a token was minted, and `with` in an approval which token stood behind the
decision. `overruled` are the authorizations under way whose reading of the mode
another one has changed since. `newest` follows the newest row of each provider: it
names the request that is still to show it in the registry, or says that it is
`"shown"` there, or `"hidden"` because that request was dropped, the boot failed, or
somebody else wrote the registry afterwards.

*Evidence.* A hash is the tuple of what was hashed, which is all a collision-free
hash does. `Publish` is the reading of the root that goes on chain, `Settle` the mark
that follows the confirmation; entries can still come in between. After that `Edit`
changes the table: a row is
overwritten or added with any contents and any link, its hash recomputed (for this
session or another) or copied, a row is deleted, two trade places, the tail is
duplicated. `SessionEvidence` and `EvidenceProof` are what the endpoints answer from
that table.

*Rate limiter.* A request comes along a path of hops; each proxy has appended the
address it saw to whatever the caller wrote, in one header (nginx's
`$proxy_add_x_forwarded_for`). `ClientIp` is the key the code computes, `Caller` the hop
that answers for the request. An entry is an address, `Garbage` that does not parse,
or `Unreadable`: with one of the last kind `to_str` fails, and the whole header counts
for nothing (`Readable`). `Account` says from the real path whom a request should be
charged to: its caller, or, if the header cannot be read, the proxy it came through.
`RateLimiter::check` reads the clock before it has the lock, so a check works with a
reading that is `late` ticks old, up to `Lag`; `Elapsed` saturates at zero as
`duration_since` does, and `bucket.last` may move back. Every check may be that late,
also one that nobody else competes with, which is more than the code can do. Tokens
are counted in parts of `1/Period`, so that refilling is exact. `meter` adds up what
each account was admitted beyond what time has paid for, where time that an overtaken
check sets back (`SetBack`) pays again; no action reads it.

## 3. Runs

| Run | Question | Instance | Result |
|---|---|---|---|
| `escrow` | Do the books, the receipt, the flows and the promise survive every order of deposits, settlements and refunds, and is every vault eventually emptied? | 2 sessions sharing an agent, 5 signatures (wrong signer, wrong session, early expiry, overflowing expiry), clock past every window | holds, 97,184 states |
| `escrow_resettle` | Can a higher signed claim still be paid after a low settlement? | 1 session, 4 claims | **violated** |
| `claim_tx` | Do the transactions implement the atomic store, is nothing admitted twice, is everybody answered? | 3 requests, 4 claims (same, higher, above the deposit, nonce too large) | holds, 132,473 states |
| `gateway` | Do chain, store and handlers agree under restarts, believed requests, late and lost transactions, and two settlements at once? | 1 session, 3 signatures (one by a stranger), 2 settle handlers, clock past the window | holds, 1,766,785 states |
| `gateway_paid` | Does a settled session mean that everything accepted was paid? | 1 handler, 2 claims | **violated** |
| `purchase` | Do goods and bills follow acceptance once, is no purchase charged more than its quote, no approval spent twice, and is the queue bounded? | 1 session, 2 claims (one also sent directly), 2 interchangeable handlers, prices 1 and 2, an envelope with threshold and call limit | holds, 943,518 states |
| `purchase_price` | Is a purchase charged its asking price? | same, no envelope required | **violated** |
| `purchase_budget` | Does the budget bound what the agent spends? | 2 sessions of one agent, budget for 1 purchase | **violated** |
| `planner` | Do log and mark agree, do accepted claims climb, is a settled log frozen; does a planning claim add nothing, and is a plan what the envelope then admits? | two settings: 12 claims around 0, the deposit and `MaxI64`; and 2 sessions of one agent with 2 envelopes and up to 2 offers | holds, about 250,000 states |
| `control` | Do late requests respect revocation, tenants, earlier decisions and the registry? | 3 operators (2 tenants, 1 minted), 3 tokens, 2 requests at once, 2 providers, with and without an upstream, one group of routes and one provider at a time | holds, 249,841 states |
| `evidence` | Does any change of the table show, and does every proof tell the truth? | logs of up to 6 entries, one of them after the root was read; 2 changes up to 3 entries, 1 beyond | holds, 404,891 states |
| `ratelimit` | Quotas, refusals, the cap and eventual service with more callers than buckets? | 4 addresses, 2 of them trusted proxies, 3 paths, 7 forged headers (one unreadable), readings up to 1 tick late, 1 bucket, capacities 2 and 1 | holds, 99,171 states |

The four violated properties are sentences of the repository's own comments and
documents; `findings` in `PROJECT.json` quotes them. In short:

* After any settlement the agent may refund inside the window, which makes every
  higher claim unpayable: settling low is more than a delay.
* `settle_session` reads the log, then the claim, then submits, then marks. Claims
  admitted meanwhile are accepted and recorded but not paid, and the mark makes
  that final for the gateway.
* `buy` compares a claim with the total accepted when it was read. Two purchases of
  different price that read the same total are both served, the later one for the
  difference of their claims. It can be undercharged, never overcharged
  (`ChargedAtMostTheQuote`).
* The budget is checked before the charge and nothing is reserved in between.
  Within one session this is harmless, because the claim itself is the read total
  plus the price and a second one for the same total is no higher; purchases in
  two sessions of one agent overrun it.

Seen while modelling, and not a run of its own:

* The same window of `settle_session` leaves such claims out of the published root
  (`routes.rs:1040`), although `db.rs:503-505` wants the root to stay verifiable. `Evidence`
  has such late entries: the chain then verifies, its root is not the published
  one, and an auditor cannot tell this from an addition made afterwards.
* An expiry within the skew of `i64::MAX` counts as valid in the gateway
  (`claim.rs:65`) and as an arithmetic error in the program (`lib.rs:157-162`).
* `evidence_proof` neither recomputes the entry's hash nor returns `prev_hash`, so
  whoever receives a proof cannot tie the contents to the leaf without the chain;
  `ProofOnlyOfRecorded` therefore asks for a hash that is right, and says nothing of a
  row whose decision was edited in place; `TamperEvident` does. The entry hash does
  not contain `sequence_id`; its place in the chain fixes it.
* Registry and table of a provider can stay different: two requests about it that
  overlap may write the two in opposite orders; a request may be dropped between its
  writes; `register_provider` and `delete_provider` change the registry even when the
  tenant guard has refused the table (`control.rs:499-502`, `540-544`); a boot goes on
  without a table it cannot read (`main.rs:357-360`), ignores that the upstream could
  not be written (`main.rs:377`), and shows the upstream as `default` although a tenant
  owns that row. `RegistryShowsNewest` says that this is all: the next request that
  gets through both writes undisturbed brings the two together.
* `authorize_agent` writes back the mode it has read (`control.rs:340-356`). If another
  operator has made the agent human in between, a request that names no mode makes it
  autonomous again, against "An agent should not become autonomous because a field
  was omitted" (`control.rs`, `CreateAgentRequest`). `AutonomyIsNamed` says that nothing
  else does.
* A planning claim is refused by the gateway, but not by the program: that compares
  with `cumulative_settled` (`lib.rs:163-166`), which lags behind the mark, so that
  `settle_session` pays it, against `control.rs:1026-1034` ("the on-chain program
  applies the same rule", "no code path in the system accepts it as payment"). It
  pays no more than the gateway has accepted already (`PlanningClaimAddsNothing`).
* A forwarding header with one byte that is not visible ASCII is dropped as a whole
  (`ratelimit.rs:480-488`), and the request is charged to the proxy. A caller behind it
  thus has two buckets, its own and one it shares with all who do the same, against
  `FINAL_GAP_AUDIT.md:545` ("cannot be bypassed by forging") and the comment at
  `ratelimit.rs:491-493` ("one bad hop must not make the whole header unusable").
  `QuotaHolds` and `RefusalIsEarned` therefore speak of accounts.
* A check that is overtaken on the way to the lock sets `bucket.last` back, and the time
  in between is refilled twice (`ratelimit.rs:93`, `120`). One overtaking gives at most
  the refill of the delay; the code puts no bound on their number, and `QuotaHolds`
  counts their time as `b`.
* `decide_approval` is not scoped to a workspace, and `create_operator` mints
  operators without one.
* Without an envelope a plan reports all requested calls, also for a suspended agent
  and where a policy is required, which the paid path refuses; `PlanIsKept` is about
  agents with an envelope. A resource priced at zero can be planned but never
  bought: a claim must exceed the mark.

The type invariants of `ClaimTx`, `Gateway`, `Purchase` and `ControlPlane` are checked
and proved as conjuncts of `NoDoubleAdmission`, `MarkedOnlyAfterChain`,
`GoodsFollowAcceptance` and `DecisionNamesItsHolder`; those of `ClaimStore` and
`RateLimit` are proved on their own (§4).

### Bounds

Amounts up to 3 are enough to have two successive partial settlements and a
remainder; two sessions with a common agent are the smallest instance in which a
claim can be mistaken for another session's. `MaxTime` lies past the last expiry
plus skew wherever expiry matters. In `gateway` two settle handlers are busy at
once only at the first instant (`MCBound`), which is enough for one to overtake the
other at every step; a restart then leaves both transactions in flight. Three
requests allow one to hold the lock, one to wait and one to abort or retry. Two buy handlers are the smallest number that race; in
`purchase` they are a symmetry set, which is sound because no property names one
and none is temporal. `MaxApprovals` allows a duplicate request or a second
approval. `MaxI64` is small, so that values beyond it occur. `MaxLog` caps
the evidence log in the guards of `MCNext` and `VerifyClaim`. Six entries give a
tree with an odd level above the leaves; three entries and two changes are the
smallest case in which a change can be covered up by another. In `ratelimit` two
callers and a proxy's account compete for one bucket, the shortest eviction time is
used that `RateAssumption` admits, and time has no bound: ages stop at `Oldest`, when
every bucket is full again. More buckets are beyond TLC together with late readings;
the proofs cover every `MaxBuckets` and `Lag`. One tick of `Lag` is enough for a check to
be overtaken; without the slack for it in `QuotaHolds`, or without `b`, TLC finds the
property violated. In `control` the routes are taken in groups, which share no table
except through the resolution of the caller, and a behaviour registers and deletes
one provider; tokens and requests are symmetric. Deadlock
is not an error where every claim may be spent and the clock reach its bound; the
gateway, the control plane and the limiters never stop.

### Fairness

`EscrowFairSpec`: time passes, and for each session some stranger that may call
`refund_session` eventually does. Nothing is assumed of agent, provider or
gateway; the instruction is permissionless after expiry precisely so that any one
caller suffices. `TxFairSpec`: the database runs the next statement of an open
transaction and hands a free row lock to a waiting one. `Begin` and `Abort` are not
fair: nobody must call, nothing must fail. `FairSpec` of `RateLimit`: time passes, a
request that passed the first limiter reaches the second, and a caller that is
left alone keeps asking; nothing is assumed while others compete.

## 4. Proofs

A theorem holds for every value of the constants that satisfies the assumptions of
its module; the runs evaluate those assumptions. Each proof module has an
inductive invariant, which TLC also finds true on the instance of the module's run;
the lemmas `...Inv` go through the actions one by one.

| Module | Theorem | States |
|---|---|---|
| `ClaimStoreProofs` | `StoreTypes`, `AcceptedClaimsClimb`, `MarkIsExplained`, `SettledIsFrozen` | the store's properties of run `planner` |
| `ClaimTxProofs` | `AdmissionIsExclusive`, `AcceptanceIsDurable`, `TransactionsImplementStore` | `NoDoubleAdmission`, `AcceptedIsDurable`, `Serialisable` |
| `GatewayProofs` | `TypeCorrect`, `BooksBalance`, `PaymentsAreSigned`, `ReceiptsAreTrue`, `DepositStaysWhole`, `RefundsAreFinal`, `FlowsAreBooked`, `ProgramKeepsPromise` | the invariants, the action properties and the refinement of run `escrow` |
| | `GatewayUsesProgram`, `CompositionKeepsPromise`, `GatewayUsesStore` | the composition only takes steps of its parts |
| | `VerifiedMeansBacked`, `AcceptanceIsEscrowed`, `AcceptanceIsSigned`, `BookedAfterChain`, `SettlementsAreEvidenced` | every invariant of run `gateway` |
| `PurchaseProofs` | `GoodsAreAccepted`, `NobodyIsOvercharged`, `ApprovalsAreSpentOnce`, `QueueStaysBounded`, `PurchasesUseStore` | every invariant of run `purchase`; the paid path only takes steps of the store |
| `ControlPlaneProofs` | `DecisionsAreAttributed`, `VerdictsAreFinal`, `AutonomyIsOnlyNamed`, `TenantsStayApart`, `RegistryShowsTheNewest` | every property of run `control` |
| `RateLimitProofs` | `RateTypes`, `MapStaysBounded`, `NobodyExceedsTheQuota`, `RefusalsAreEarned` | the invariants of run `ratelimit` |
| `PlannerProofs` | `PlanningClaimsAddNothing`, `PlansAreKept`, `CheapestAffordsMost`, `PlannersOnlyRead` | the planners' invariants of run `planner`; around them only steps of the store are taken |
| `EvidenceProofs` | `TableIsChain`, `EntriesAreProvable`, `ProofsSpeakOfRecorded`, `TamperingShows` | every invariant of run `evidence` |

### The arguments

*The program.* `GatewayProofs` begins with `Escrow` and proves, for all sets of
wallets, sessions, deposits, claims and any clock bound, under `ConstantsAssumption` (types of the constants, the zero key
signs nothing, an accepted window cannot overflow):

* `TypeCorrect`, `BooksBalance`, `PaymentsAreSigned`, `ReceiptsAreTrue`,
  `DepositStaysWhole`: the invariants of run `escrow`;
* `RefundsAreFinal`, `FlowsAreBooked`: the action properties;
* `ProgramKeepsPromise`: every step of the program is a step of `EscrowPromise` or
  invisible there.

The inductive invariant is `EscrowInv`: types, books, signatures and receipts, with
two facts the properties alone do not give. *Fresh*: an address that is not open
has empty books and no record, without which a new deposit could meet an old
balance. *RefundCloses*: a refunded session has nothing left in its books, and was
settled or had expired, from which finality and the wholeness of an unsettled
deposit follow. Each instruction has a lemma that it preserves `EscrowInv`; the
`...Effect` lemmas restate what it does to the amounts and carry finality and
refinement.

`ClaimStoreProofs` proves, for all rows, claims and instants, under
`StoreAssumption`: `StoreTypes`, `AcceptedClaimsClimb`, `MarkIsExplained` and
`SettledIsFrozen`. Its inductive invariant `StoreInv` adds to the properties that
every accepted entry is at most the ticket, in amount and in nonce: the rule
compares a claim with the ticket only, so this is what makes it higher than the
whole log.

`RateLimitProofs` proves, for all addresses, proxies, paths, headers, quotas, caps,
delays and eviction times, under `RateAssumption` (quotas above zero, and an eviction
time of at least the period plus the delay; the code has 300 s against 60 s):
`RateTypes`, `MapStaysBounded`, `NobodyExceedsTheQuota` and `RefusalsAreEarned`. Three
arguments carry them. *Keys*: with a readable header, `ClientIp` of a request is the
nearest untrusted hop of its real path (`KeyIsCaller`), because forged entries stand to
the left of what the proxies append; otherwise it is the last hop (`KeyIsPeer`). So
the key is the account (`RequestKey`). *Ledger*: the inductive invariant `RateInv` adds
`LedgerBalances`: an account's meter and what its bucket is worth (its tokens and the
time since `bucket.last`, uncapped) make at least the capacity as long as it has a
bucket, and at most the capacity plus the refill of one delay as long as the meter is
not zero; earned refusal and quota are the two sides. A check
that sets the clock back makes the bucket worth more by `SetBack`, which is what the
meter pays off in the same step. *Eviction*: a bucket is dropped only at an age at
which it is full again, so a fresh one balances the same ledger (`EvictionIsFair`);
this is where `IdleEviction >= Period + Lag` is needed.

`PlannerProofs` holds for all claims, sessions, agents, envelopes and offers. For
`PlanningClaimsAddNothing` the invariant is, beside `StoreInv`, that every claim ever
used for planning is at most the mark of its session, which only climbs.
`PlansAreKept` and `CheapestAffordsMost` have `AdviceInv`: finitely many sessions are
known; the spend a planner has read counts no more calls than the agent has now
(*PastSpend*); and the options are those `plan_options` computes from it. Two lemmas carry the plan. *RefusalStays*: an envelope that refuses a
call refuses it with more calls and more spent, so the first refusal of the walk
separates what is admitted from what is not, and the cheapest option has the longest
walk. *CallsGrow*: a step of the store never lowers the calls of an agent, which are
a sum over its sessions, so the calls since the plan can be counted. `PlannersOnlyRead` carries the theorems of
`ClaimStoreProofs` over.

`EvidenceProofs` holds for logs of every length and any number of changes.
*The tree* (`LevelsAreTree`): the loop of `MerkleTree::new` ends in a level of at most
one node within as many rounds as there are leaves, and each level is paired up from
the one below. *The path* (`AscentIsPath`, `ClimbsThePath`): the positions `proof`
goes through stay inside the levels, also where an odd node is its own sibling, and
`verify_proof` meets exactly the nodes at those positions; so it ends at the root
(`EntriesAreProvable`). *Down from a common root* (`ProvedIsIn`): if two trees have the
same root, an entry on a path of one is a leaf of the other. Going down both at once,
the same hash is a pair on both sides or a leaf on both sides, because the preimages
of a pair and of an entry differ; two trees therefore cannot be read at different
heights. *Chains* (`OnePlace`, `RootPinsChain`): an entry contains its predecessor's
hash, so it stands at the same place in every chain that has it, and two chains with
the same root are equal. This is why the copies an odd level makes do no harm: a
chain cannot contain an entry twice. The inductive invariant `EvidenceInv` says that
the table holds rows, is a chain until the mark, and that the root is that of
`committed`, a chain itself; after the mark nothing but "rows" is left of the table,
and the theorems follow from the root alone.

Induction in these two modules is by least counterexample: `LeastNatural`, from the
library's well-founded induction, and `InductionUpTo`, stated for a set of numbers
instead of a predicate. With it recursive functions are shown to exist before their
equations are used (`GrownExists`, `AscentExists`; the `CHOOSE` of a walk, the sums of
`MapThenSumSet`).

`ClaimTxProofs` proves, for any number of requests, rows and claims, that
`admit_claim` is safe at statement grain. Its invariant `TxInv` says why one `FOR
UPDATE` is enough. *LockDiscipline*: whoever is past the lock holds it, so two
transactions past it are on different rows. *ViewIsCurrent*: the row and the ticket
a transaction has read are still those of the tables, because everything else that
could change them waits for the lock; the verdict reached in memory is therefore the
verdict on the tables at the commit. *ReadyIsStorable*: only a claim that fits the columns
gets as far as a commit that accepts. *AnsweredAtTheEnd* and *AcceptedIsDurable*: an
answer is given after the effect, and the log keeps it. *AmountsDiffer*: two accepted
answers of one row carry different amounts; it needs the durability of the earlier one,
which puts the mark at or above it. For the refinement, `Commit` maps to `AcceptClaim`
or `RefuseClaim` of `ClaimStore` and every other statement to a stutter. With it the
theorems of `ClaimStoreProofs` hold of the transactions.

*The gateway.* `GatewayProofs` then proves that the composition is a
behaviour of the program (`GatewayUsesProgram`: a transaction that lands is one
`settle_session` allows, for a signature that exists). So every theorem about the
program holds with the gateway around it. The invariant `GatewayInv` consists of
`EscrowInv`, the types, and the relations between chain, tables and handlers that the
properties alone do not give. *TicketsAreSound*: a ticket belongs to a known row, is
within its deposit, is in the log, and its claim is signed by the key the row names; this
is needed for every row, verified or not, since a row can be verified after claims were
accepted. *ChecksStillHold*: what a chain check found is still true when the
handler acts on it, because an open session never changes agent, deposit or expiry;
without it, check and write could not be separate awaits. *HandlersFit*: a handler that
loaded a claim, and a transaction in flight, has it in the log and a root of a prefix of
the log; a transaction in flight belongs to the one handler that waits for it or to
nobody. This survives `Abandon` and `Restart`, which orphan transactions, and is what
makes a late landing harmless. `GatewayUsesStore` shows that the tables only take
steps of `ClaimStore`.

`PurchaseProofs` proves the paid path for any number of handlers, sessions, agents,
resources and prices. Four facts make up `PurchaseInv`. *HandlersFit*: between the
comparison and the charge, the claim is at most the price above the mark. The mark
may have risen since the comparison but never falls (`MarkNeverFalls`), so the
charge is at most the quote; it is above zero because the store demands an increase.
*PaidAlone* and *DeliveredOnce*: a claim that a handler carries to the provider is in the
log and has been neither delivered nor billed; a claim in the log is at or below the
mark, so it cannot be accepted again (`AcceptedIsNew`), and no second handler can get
there. *ReceiptsAreKnown*: handlers and receipts past the lookup belong to known rows,
whose agent never changes, so that an approval cannot drift to another ask.
*Counting*: a handler comes to hold an approval only in the step that consumes one
(`SpendIsBooked`), and passes it on to its receipt; it comes to raise one only when none is
pending (`RaiseIsBooked`), so at most every handler raises one. The lemma `HandlerStep`
turns these into the invariant for all actions except the delivery itself. The
bounds `MaxApprovals` and `MaxLog` play no part in the proofs.

`ControlPlaneProofs` has a layer for each theorem, on top of the types. *Credentials*:
an enabled operator's token was minted for that operator, a request under way acts
as the keeper of the token it came with, and so does every decision; tokens are never
minted twice, so rotation and revocation between authentication and write cannot
shift a decision to somebody else. This is where the proof needs that neither the
shared operator nor the word that stands for nobody is the name of an operator, and
that the admin token is never minted, which is part of `ControlAssumption`.
*ReadingsAreFresh*: the mode an authorization has read is still the agent's, or it is
`overruled`; only another authorization can change the mode meanwhile, so a
write-back that is not overruled changes nothing. *NewestAgrees*: the request that
wrote the newest row of a provider is still between its two writes and will put into
the registry what that row says; so when it gets there the two agree, and they stay so
until either is written again.

### Model-checked only

* Liveness: `EscrowIsRecovered`, `EveryRequestIsAnswered`, `PatientCallerIsServed`. The
  prover treats neither fairness nor `ENABLED`.
* The four violated properties of §3, which are false.

## 5. Not modelled

* The v1 program and the legacy settlement path, which only drain old sessions.
* The in-memory store (development only; a restart loses the high-water mark by
  its own documentation).
* The listings (`list_sessions`, `recent_decisions`, `load_active_sessions`,
  `list_agents`, `list_operators`, `list_approvals`) and `on_chain_settlement`: they
  read and format, and change nothing.
* The client counters of the SDK; environment parsing; the mapping of reasons to
  HTTP statuses.
* Rounding of `f64` in the buckets (taken as exact), a poisoned limiter lock
  (nothing in the critical section panics), and the mode without an admin token
  (loopback only, every caller is the shared operator).
* Byte layouts, events, HTTP, logging, the console.

## 6. Plan

Every safety property the runs check is a theorem. What is left:

1. *Client* (`AgentClient`): the SDK's counters against a gateway that answers late or
   not at all.
