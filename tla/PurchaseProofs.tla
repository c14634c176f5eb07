--------------------------- MODULE PurchaseProofs ---------------------------
(***************************************************************************)
(* Proofs about Purchase, for any number of handlers, sessions, agents and *)
(* approvals: goods follow acceptance, nobody is charged above the quote,  *)
(* an approval is spent once, and the queue is not flooded.                *)
(***************************************************************************)
EXTENDS Purchase, ClaimStoreProofs, FiniteSetTheorems

\* Where a buy handler can be, and where it is between the comparison of the
\* claim with the accepted total and the charge.
Undecided == {"checked", "enveloped", "asking", "unapproved", "raising", "admit"}
Labels == {"idle", "quoted", "paid"} \cup Undecided

HandlersTyped ==
    /\ pc \in [Workers -> Labels]
    /\ req \in [Workers -> {NoReq} \cup Requests]

\* The evidence log shows claim c as accepted.
IsLogged(c) ==
    \E i \in Allowed(c.session) :
        /\ log[c.session][i].cumulative = c.cumulative
        /\ log[c.session][i].nonce = c.nonce

\* What handler w may rely on at its label.  Past the lookup its session is
\* known.  Before the charge the claim is at most the price above the mark,
\* which may have risen since the two were compared.  After it, the claim is in
\* the log, the charge is known, and nothing was delivered or billed yet.
HandlerFits(w) ==
    /\ pc[w] # "idle" => req[w] \in Requests
    /\ pc[w] = "idle" => req[w] = NoReq
    /\ pc[w] = "quoted" => ~ req[w].approved
    /\ pc[w] \notin {"idle", "quoted"} => row[Session(w)].known
    /\ pc[w] \in Undecided =>
           req[w].claim.cumulative <= ticket[Session(w)].cumulative + req[w].price
    /\ pc[w] = "paid" =>
           /\ req[w].delta > 0 /\ req[w].delta <= req[w].price
           /\ IsLogged(req[w].claim)
           /\ forwarded[req[w].claim] = 0 /\ billed[req[w].claim] = 0

HandlersFit == \A w \in Workers : HandlerFits(w)

\* A claim is carried to the provider by one handler at most.
PaidAlone ==
    \A v, w \in Workers :
        pc[v] = "paid" /\ pc[w] = "paid" /\ req[v].claim = req[w].claim => v = w

\* What is delivered or billed was accepted, once.
DeliveredOnce ==
    \A c \in Claims :
        /\ forwarded[c] <= 1 /\ billed[c] <= 1
        /\ forwarded[c] > 0 \/ billed[c] > 0 => IsLogged(c)

\* There are finitely many receipts, each of a known session.
ReceiptsAreKnown ==
    /\ IsFiniteSet(receipt)
    /\ \A x \in receipt : row[x.claim.session].known

\* Catalogue, agents and approvals.
ControlTypes ==
    /\ price \in [Resources -> Prices]
    /\ agent \in [AgentKeys -> {NoAgent} \cup Agents]
    /\ approvals \in [Asks -> [ApprovalStates -> Nat]]

OutTypes ==
    /\ receipt \subseteq Receipts
    /\ forwarded \in [Claims -> Nat] /\ billed \in [Claims -> Nat]

\* The inductive invariant.
PurchaseInv ==
    /\ StoreInv
    /\ ControlTypes /\ OutTypes /\ HandlersTyped
    /\ HandlersFit
    /\ PaidAlone
    /\ DeliveredOnce
    /\ ReceiptsAreKnown
    /\ ChargedAtMostTheQuote
    /\ ApprovalSpentOnce
    /\ QueueIsNotFlooded

\* What a step of the store leaves standing.
Grows ==
    \A s \in Rows :
        /\ row[s].known => row'[s].known /\ row'[s].agent = row[s].agent
        /\ ticket[s].cumulative <= ticket'[s].cumulative
        /\ \A i \in Allowed(s) : i \in Allowed(s)' /\ log'[s][i] = log[s][i]

-----------------------------------------------------------------------------
(***************************************************************************)
(* The store under the paid path.                                          *)
(***************************************************************************)

\* Appending to one session's log keeps every accepted entry of every log.
LEMMA LogKeepsEntries ==
    ASSUME StoreInv, NEW s \in Rows, NEW e \in Entries,
           log' = [log EXCEPT ![s] = Append(@, e)], NEW r \in Rows,
           NEW i \in Allowed(r)
    PROVE  i \in Allowed(r)' /\ log'[r][i] = log[r][i]
  <1>1. log[s] \in Seq(Entries) /\ log \in [Rows -> Seq(Entries)]
    BY DEF StoreInv, StoreTypeOK
  <1>2. i \in DOMAIN log[r] /\ log[r][i].decision = "Allowed"
    BY DEF Allowed
  <1>3. CASE r = s
    <2>1. log'[s] = Append(log[s], e)
      BY <1>1
    <2>2. i \in DOMAIN log'[s] /\ log'[s][i] = log[s][i]
      BY <2>1, <1>1, <1>2, <1>3, AppendPositions
    <2> QED
      BY <2>2, <1>2, <1>3 DEF Allowed
  <1>4. CASE r # s
    <2>1. log'[r] = log[r]
      BY <1>1, <1>4
    <2> QED
      BY <2>1, <1>2 DEF Allowed
  <1> QED
    BY <1>3, <1>4

\* Every step of the store, and a step that leaves it alone, keeps sessions,
\* their agents and accepted entries, and lowers no mark.
LEMMA StoreGrows ==
    ASSUME StoreInv, [StoreNext]_storeVars
    PROVE  StoreInv' /\ Grows
  <1>1. StoreInv'
    BY StoreNextInv
  <1>2. CASE UNCHANGED storeVars
    <2>1. row' = row /\ ticket' = ticket /\ log' = log
      BY <1>2 DEF storeVars
    <2>2. \A s \in Rows : ticket[s].cumulative \in Nat
      BY MarkIsNat
    <2>3. \A s \in Rows : Allowed(s)' = Allowed(s)
      BY <2>1 DEF Allowed
    <2> QED
      BY <1>1, <2>1, <2>2, <2>3 DEF Grows
  <1>3. CASE StoreNext
    <2>1. \A s \in Rows : ticket[s].cumulative <= ticket'[s].cumulative
      BY <1>1, <1>3, MarkNeverFalls
    <2>2. ASSUME NEW c \in Claims, NEW t \in Times,
                 AcceptClaim(c, t) \/ RefuseClaim(c, t)
          PROVE  Grows
      <3>1. c \in ClaimTypes /\ c.session \in Rows
        BY StoreAssumption DEF ClaimTypes
      <3>2. PICK d \in Decisions :
                log' = [log EXCEPT ![c.session] = Append(@, Entry(d, c))]
        BY <2>2, VerdictType DEF AcceptClaim, RefuseClaim, Recorded, Decisions
      <3>3. Entry(d, c) \in Entries
        BY <3>1, EntryType
      <3>4. PICK e \in Entries : log' = [log EXCEPT ![c.session] = Append(@, e)]
        BY <3>2, <3>3
      <3>5. \A s \in Rows : \A i \in Allowed(s) :
                i \in Allowed(s)' /\ log'[s][i] = log[s][i]
        BY <3>1, <3>4, LogKeepsEntries
      <3>6. row' = row
        BY <2>2 DEF AcceptClaim, RefuseClaim
      <3> QED
        BY <2>1, <3>5, <3>6 DEF Grows
    <2>3. ASSUME log' = log,
                 \A s \in Rows : row[s].known =>
                     row'[s].known /\ row'[s].agent = row[s].agent
          PROVE  Grows
      <3>1. \A s \in Rows : Allowed(s)' = Allowed(s)
        BY <2>3 DEF Allowed
      <3> QED
        BY <2>1, <2>3, <3>1 DEF Grows
    <2>4. row \in [Rows -> {NoRow} \cup SessionRows]
      BY DEF StoreInv, StoreTypeOK
    <2>5. ASSUME NEW s \in Rows, NEW k \in AgentKeys, NEW deposit \in Amounts,
                 NEW expires \in Expiries, NEW verified \in BOOLEAN,
                 OpenRow(s, k, deposit, expires, verified)
          PROVE  Grows
      <3>1. ~ row[s].known /\ log' = log
        BY <2>5 DEF OpenRow
      <3>2. \A r \in Rows : r # s => row'[r] = row[r]
        BY <2>4, <2>5 DEF OpenRow
      <3> QED
        BY <2>3, <3>1, <3>2
    <2>6. ASSUME NEW s \in Rows, MarkSettled(s) \/ MarkChainVerified(s)
          PROVE  Grows
      <3>1. row[s] \in SessionRows /\ row[s].known /\ log' = log
        BY <2>6, KnownRow DEF MarkSettled, MarkChainVerified
      <3>2. PICK r1 : /\ row' = [row EXCEPT ![s] = r1]
                      /\ \/ r1 = [row[s] EXCEPT !.settled = TRUE]
                         \/ r1 = [row[s] EXCEPT !.chain_verified = TRUE]
        BY <2>6 DEF MarkSettled, MarkChainVerified
      <3>3. r1.known = row[s].known /\ r1.agent = row[s].agent
        BY <3>1, <3>2 DEF SessionRows
      <3>4. \A r \in Rows : row'[r] = IF r = s THEN r1 ELSE row[r]
        BY <2>4, <3>2
      <3> QED
        BY <2>3, <3>1, <3>3, <3>4
    <2>7. CASE \E s \in Rows, k \in AgentKeys, deposit \in Amounts,
                  expires \in Expiries, verified \in BOOLEAN :
                  OpenRow(s, k, deposit, expires, verified)
      BY <1>1, <2>5, <2>7
    <2>8. CASE \E c \in Claims, t \in Times : AcceptClaim(c, t) \/ RefuseClaim(c, t)
      BY <1>1, <2>2, <2>8
    <2>9. CASE \E s \in Rows : MarkSettled(s) \/ MarkChainVerified(s)
      BY <1>1, <2>6, <2>9
    <2> QED
      BY <1>3, <2>7, <2>8, <2>9 DEF StoreNext
  <1> QED
    BY <1>2, <1>3

-----------------------------------------------------------------------------
(***************************************************************************)
(* What a step leaves to the handlers that do not take it.                 *)
(***************************************************************************)

\* The parts of a request.
LEMMA RequestParts ==
    ASSUME NEW r \in Requests
    PROVE  /\ r.claim \in Claims /\ r.claim \in ClaimTypes /\ r.at \in Times
           /\ r.claim.session \in Rows /\ r.claim.cumulative \in Nat
           /\ r.claim.nonce \in Nat
           /\ r.resource \in Resources /\ r.price \in Prices /\ r.price \in Nat
           /\ r.approved \in BOOLEAN /\ r.delta \in Nat
  BY StoreAssumption, PolicyAssumption DEF Requests, ClaimTypes

\* A claim in the log stays there.
LEMMA LoggedStays ==
    ASSUME Grows, NEW c \in ClaimTypes, IsLogged(c)
    PROVE  IsLogged(c)'
  <1>1. c.session \in Rows
    BY DEF ClaimTypes
  <1>2. PICK i \in Allowed(c.session) :
            /\ log[c.session][i].cumulative = c.cumulative
            /\ log[c.session][i].nonce = c.nonce
    BY DEF IsLogged
  <1>3. i \in Allowed(c.session)' /\ log'[c.session][i] = log[c.session][i]
    BY <1>1 DEF Grows
  <1> QED
    BY <1>2, <1>3 DEF IsLogged

\* A handler that does not move keeps what it relies on, as long as nobody
\* delivers or bills its claim.
LEMMA OthersFit ==
    ASSUME StoreInv, StoreInv', Grows, NEW v \in Workers, HandlerFits(v),
           pc'[v] = pc[v], req'[v] = req[v],
           pc[v] = "paid" => /\ forwarded'[req[v].claim] = forwarded[req[v].claim]
                             /\ billed'[req[v].claim] = billed[req[v].claim]
    PROVE  HandlerFits(v)'
  <1>1. CASE pc[v] = "idle"
    BY <1>1 DEF HandlerFits, Undecided
  <1>2. CASE pc[v] # "idle"
    <2>1. req[v] \in Requests
      BY <1>2 DEF HandlerFits
    <2>2. Session(v) \in Rows /\ Session(v)' = Session(v)
      BY <2>1, RequestParts DEF Session
    <2>3. /\ row[Session(v)].known => row'[Session(v)].known
          /\ ticket[Session(v)].cumulative <= ticket'[Session(v)].cumulative
      BY <2>2 DEF Grows
    <2>4. ticket[Session(v)].cumulative \in Nat
      BY <2>2, MarkIsNat
    <2>5. ticket'[Session(v)].cumulative \in Nat
      BY <2>2, MarkValue DEF StoreInv, StoreTypeOK
    <2>6. (pc[v] \in Undecided =>
           req[v].claim.cumulative <= ticket[Session(v)].cumulative + req[v].price)'
      BY <2>1, <2>2, <2>3, <2>4, <2>5, RequestParts DEF HandlerFits
    <2>7. IsLogged(req[v].claim) => IsLogged(req[v].claim)'
      <3>1. PICK c : c = req[v].claim
        OBVIOUS
      <3>2. c \in ClaimTypes
        BY <2>1, <3>1, RequestParts
      <3>3. req'[v].claim = c
        BY <3>1
      <3>4. IsLogged(c) => IsLogged(c)'
        BY <3>2, LoggedStays
      <3> QED
        BY <3>1, <3>3, <3>4 DEF IsLogged
    <2>8. (pc[v] = "paid" =>
              /\ req[v].delta > 0 /\ req[v].delta <= req[v].price
              /\ IsLogged(req[v].claim)
              /\ forwarded[req[v].claim] = 0 /\ billed[req[v].claim] = 0)'
      BY <2>7 DEF HandlerFits
    <2>9. /\ (pc[v] # "idle" => req[v] \in Requests)'
          /\ (pc[v] = "idle" => req[v] = NoReq)'
          /\ (pc[v] = "quoted" => ~ req[v].approved)'
          /\ (pc[v] \notin {"idle", "quoted"} => row[Session(v)].known)'
      BY <2>2, <2>3 DEF HandlerFits
    <2> QED
      BY <2>6, <2>8, <2>9 DEF HandlerFits
  <1> QED
    BY <1>1, <1>2

\* Beyond the lookup, what a handler that does not move asks for stays the
\* same; so it holds and raises approvals for nothing new.
LEMMA OthersAsk ==
    ASSUME Grows, NEW v \in Workers, HandlerFits(v),
           pc'[v] = pc[v], req'[v] = req[v], NEW k
    PROVE  /\ v \in Holders(k)' => v \in Holders(k)
           /\ v \in Raising(k)' => v \in Raising(k)
  <1> SUFFICES ASSUME pc[v] \notin {"idle", "quoted"}
               PROVE  /\ v \in Holders(k)' => v \in Holders(k)
                      /\ v \in Raising(k)' => v \in Raising(k)
    BY DEF Holders, Raising, HandlerFits
  <1>1. req[v].claim.session \in Rows /\ row[req[v].claim.session].known
    BY RequestParts DEF HandlerFits, Session
  <1>2. row'[req[v].claim.session].agent = row[req[v].claim.session].agent
    BY <1>1 DEF Grows
  <1>3. Ask(v)' = Ask(v)
    BY <1>2 DEF Ask, Key, Session
  <1> QED
    BY <1>3 DEF Holders, Raising

\* Without a new receipt, the purchases made on an ask's approvals are the same.
LEMMA ReceiptsStand ==
    ASSUME Grows, OutTypes, ReceiptsAreKnown, NEW k
    PROVE  {x \in receipt : /\ x.approved
                            /\ k = <<row'[x.claim.session].agent, x.resource,
                                     x.price>>} = Approved(k)
  <1>1. ASSUME NEW x \in receipt
        PROVE  /\ x.claim.session \in Rows
               /\ row'[x.claim.session].agent = row[x.claim.session].agent
    <2>1. x.claim \in ClaimTypes
      BY StoreAssumption DEF OutTypes, Receipts
    <2>2. x.claim.session \in Rows /\ row[x.claim.session].known
      BY <2>1 DEF ClaimTypes, ReceiptsAreKnown
    <2> QED
      BY <2>2 DEF Grows
  <1> QED
    BY <1>1 DEF Approved

\* A subset counts no more, and one element more counts one more at most.
LEMMA CountBounds ==
    ASSUME NEW S, IsFiniteSet(S), NEW T, NEW x, T \subseteq S \cup {x}
    PROVE  /\ IsFiniteSet(T)
           /\ Cardinality(T) \in Nat /\ Cardinality(S) \in Nat
           /\ Cardinality(T) <= Cardinality(S) + 1
           /\ x \notin T \/ x \in S => Cardinality(T) <= Cardinality(S)
           /\ x \notin T /\ x \in S => Cardinality(T) + 1 <= Cardinality(S)
  <1>1. /\ IsFiniteSet(S \cup {x})
        /\ Cardinality(S \cup {x}) =
               IF x \in S THEN Cardinality(S) ELSE Cardinality(S) + 1
    BY FS_AddElement
  <1>2. Cardinality(S) \in Nat
    BY FS_CardinalityType
  <1>3. IsFiniteSet(T) /\ Cardinality(T) <= Cardinality(S \cup {x})
    BY <1>1, FS_Subset
  <1>4. Cardinality(T) \in Nat
    BY <1>3, FS_CardinalityType
  <1>5. ASSUME x \notin T \/ x \in S PROVE Cardinality(T) <= Cardinality(S)
    <2>1. T \in SUBSET S
      BY <1>5
    <2> QED
      BY <2>1, FS_Subset
  <1>6. ASSUME x \notin T, x \in S PROVE Cardinality(T) + 1 <= Cardinality(S)
    <2>1. T \in SUBSET (S \ {x})
      BY <1>6
    <2>2. IsFiniteSet(S \ {x}) /\ Cardinality(S \ {x}) = Cardinality(S) - 1
      BY <1>6, FS_RemoveElement
    <2>3. Cardinality(T) <= Cardinality(S \ {x})
      BY <2>1, <2>2, FS_Subset
    <2> QED
      BY <2>2, <2>3, <1>2, <1>4
  <1> QED
    BY <1>1, <1>2, <1>3, <1>4, <1>5, <1>6

LEMMA HandlersAreFinite ==
    ASSUME NEW k
    PROVE  /\ IsFiniteSet(Holders(k)) /\ IsFiniteSet(Raising(k))
           /\ IsFiniteSet(Holders(k)') /\ IsFiniteSet(Raising(k)')
           /\ Cardinality(Raising(k)') <= Cardinality(Workers)
           /\ Cardinality(Workers) \in Nat
  <1>1. /\ Holders(k) \in SUBSET Workers /\ Raising(k) \in SUBSET Workers
        /\ Holders(k)' \in SUBSET Workers /\ Raising(k)' \in SUBSET Workers
    BY DEF Holders, Raising
  <1>2. IsFiniteSet(Workers)
    BY PurchaseAssumption
  <1> QED
    BY <1>1, <1>2, FS_Subset, FS_CardinalityType

-----------------------------------------------------------------------------
(***************************************************************************)
(* A step of one handler, or of none.                                      *)
(***************************************************************************)

\* Everybody but w stays where it is.
OnlyMoves(w) ==
    \A v \in Workers : v # w => pc'[v] = pc[v] /\ req'[v] = req[v]

\* Whoever comes to hold an approval has had one consumed.
SpendIsBooked(w) ==
    \A k \in Asks :
        \/ /\ approvals'[k]["consumed"] >= approvals[k]["consumed"]
           /\ w \in Holders(k)' => w \in Holders(k)
        \/ approvals'[k]["consumed"] >= approvals[k]["consumed"] + 1

\* An approval is raised by a handler that was about to, and a handler is about
\* to only when none is pending.
RaiseIsBooked(w) ==
    \A k \in Asks :
        \/ approvals'[k]["pending"] = 0
        \/ /\ approvals'[k]["pending"] <= approvals[k]["pending"]
           /\ w \in Raising(k)' => w \in Raising(k)
        \/ /\ approvals'[k]["pending"] <= approvals[k]["pending"] + 1
           /\ w \in Raising(k) /\ w \notin Raising(k)'

\* The counts of one kind of approval.
LEMMA CountTypes ==
    ASSUME ControlTypes, NEW k \in Asks, NEW st \in ApprovalStates
    PROVE  approvals[k][st] \in Nat
  BY DEF ControlTypes

LEMMA SpendStaysBooked ==
    ASSUME PurchaseInv, Grows, NEW w, ControlTypes', OnlyMoves(w),
           SpendIsBooked(w), receipt' = receipt
    PROVE  ApprovalSpentOnce'
  <1> SUFFICES ASSUME NEW k \in Asks
               PROVE  (Cardinality(Holders(k)) + Cardinality(Approved(k))
                          <= approvals[k]["consumed"])'
    BY DEF ApprovalSpentOnce
  <1>1. Approved(k)' = Approved(k)
    BY ReceiptsStand DEF PurchaseInv, Approved
  <1>2. Cardinality(Approved(k)) \in Nat
    <2>1. Approved(k) \in SUBSET receipt /\ IsFiniteSet(receipt)
      BY DEF Approved, PurchaseInv, ReceiptsAreKnown
    <2> QED
      BY <2>1, FS_Subset, FS_CardinalityType
  <1>3. Holders(k)' \subseteq Holders(k) \cup {w}
    <2>1. ASSUME NEW v \in Holders(k)', v # w PROVE v \in Holders(k)
      <3>1. v \in Workers
        BY DEF Holders
      <3>2. HandlerFits(v) /\ pc'[v] = pc[v] /\ req'[v] = req[v]
        BY <2>1, <3>1 DEF OnlyMoves, PurchaseInv, HandlersFit
      <3> QED
        BY <3>1, <3>2, OthersAsk
    <2> QED
      BY <2>1
  <1>4. IsFiniteSet(Holders(k))
    BY HandlersAreFinite
  <1>5. PICK S, T : S = Holders(k) /\ T = Holders(k)'
    OBVIOUS
  <1>6. /\ Cardinality(T) \in Nat /\ Cardinality(S) \in Nat
        /\ Cardinality(T) <= Cardinality(S) + 1
        /\ w \notin T \/ w \in S => Cardinality(T) <= Cardinality(S)
    BY <1>3, <1>4, <1>5, CountBounds
  <1>7. /\ approvals[k]["consumed"] \in Nat
        /\ approvals'[k]["consumed"] \in Nat
    BY DEF PurchaseInv, ControlTypes, ApprovalStates
  <1>8. Cardinality(S) + Cardinality(Approved(k)) <= approvals[k]["consumed"]
    BY <1>5 DEF PurchaseInv, ApprovalSpentOnce
  <1>9. Cardinality(T) + Cardinality(Approved(k)) <= approvals'[k]["consumed"]
    <2>1. CASE /\ approvals'[k]["consumed"] >= approvals[k]["consumed"]
               /\ w \in T => w \in S
      BY <2>1, <1>2, <1>6, <1>7, <1>8
    <2>2. CASE approvals'[k]["consumed"] >= approvals[k]["consumed"] + 1
      BY <2>2, <1>2, <1>6, <1>7, <1>8
    <2> QED
      BY <2>1, <2>2, <1>5 DEF SpendIsBooked
  <1> QED
    BY <1>1, <1>5, <1>9

LEMMA QueueStaysBooked ==
    ASSUME PurchaseInv, Grows, NEW w, ControlTypes', OnlyMoves(w),
           RaiseIsBooked(w)
    PROVE  QueueIsNotFlooded'
  <1> SUFFICES ASSUME NEW k \in Asks
               PROVE  (approvals[k]["pending"] + Cardinality(Raising(k))
                          <= Cardinality(Workers))'
    BY DEF QueueIsNotFlooded
  <1>1. Raising(k)' \subseteq Raising(k) \cup {w}
    <2>1. ASSUME NEW v \in Raising(k)', v # w PROVE v \in Raising(k)
      <3>1. v \in Workers
        BY DEF Raising
      <3>2. HandlerFits(v) /\ pc'[v] = pc[v] /\ req'[v] = req[v]
        BY <2>1, <3>1 DEF OnlyMoves, PurchaseInv, HandlersFit
      <3> QED
        BY <3>1, <3>2, OthersAsk
    <2> QED
      BY <2>1
  <1>2. /\ IsFiniteSet(Raising(k)) /\ Cardinality(Workers) \in Nat
        /\ Cardinality(Raising(k)') <= Cardinality(Workers)
    BY HandlersAreFinite
  <1>3. PICK S, T : S = Raising(k) /\ T = Raising(k)'
    OBVIOUS
  <1>4. /\ Cardinality(T) \in Nat /\ Cardinality(S) \in Nat
        /\ w \notin T \/ w \in S => Cardinality(T) <= Cardinality(S)
        /\ w \notin T /\ w \in S => Cardinality(T) + 1 <= Cardinality(S)
    BY <1>1, <1>2, <1>3, CountBounds
  <1>5. /\ approvals[k]["pending"] \in Nat
        /\ approvals'[k]["pending"] \in Nat
    BY DEF PurchaseInv, ControlTypes, ApprovalStates
  <1>6. approvals[k]["pending"] + Cardinality(S) <= Cardinality(Workers)
    BY <1>3 DEF PurchaseInv, QueueIsNotFlooded
  <1>7. approvals'[k]["pending"] + Cardinality(T) <= Cardinality(Workers)
    <2>1. CASE approvals'[k]["pending"] = 0
      BY <2>1, <1>2, <1>3, <1>4
    <2>2. CASE /\ approvals'[k]["pending"] <= approvals[k]["pending"]
               /\ w \in T => w \in S
      BY <2>2, <1>2, <1>4, <1>5, <1>6
    <2>3. CASE /\ approvals'[k]["pending"] <= approvals[k]["pending"] + 1
               /\ w \in S /\ w \notin T
      BY <2>3, <1>2, <1>4, <1>5, <1>6
    <2> QED
      BY <2>1, <2>2, <2>3, <1>3 DEF RaiseIsBooked
  <1> QED
    BY <1>3, <1>7

\* A step that delivers and bills nothing keeps the invariant if the store only
\* grows, the handler that moves fits its new label, the approvals are booked,
\* and no other handler carries a claim that was just charged.
LEMMA HandlerStep ==
    ASSUME PurchaseInv, StoreInv', Grows, NEW w, UNCHANGED outVars,
           ControlTypes', HandlersTyped', OnlyMoves(w),
           w \in Workers => HandlerFits(w)',
           SpendIsBooked(w), RaiseIsBooked(w),
           w \in Workers /\ pc'[w] = "paid" =>
               \A v \in Workers : v # w /\ pc[v] = "paid" =>
                   req[v].claim # req'[w].claim
    PROVE  PurchaseInv'
  <1>0. receipt' = receipt /\ forwarded' = forwarded /\ billed' = billed
    BY DEF outVars
  <1>1. HandlersFit'
    <2>1. ASSUME NEW v \in Workers, v # w PROVE HandlerFits(v)'
      <3>1. HandlerFits(v) /\ pc'[v] = pc[v] /\ req'[v] = req[v]
        BY <2>1 DEF OnlyMoves, PurchaseInv, HandlersFit
      <3> QED
        BY <3>1, <1>0, OthersFit DEF PurchaseInv
    <2>2. \A v \in Workers : HandlerFits(v)'
      BY <2>1
    <2> QED
      BY <2>2 DEF HandlersFit
  <1>2. PaidAlone'
    BY DEF PaidAlone, OnlyMoves, PurchaseInv
  <1>3. DeliveredOnce'
    <2>1. ASSUME NEW c \in Claims PROVE IsLogged(c) => IsLogged(c)'
      BY StoreAssumption, LoggedStays
    <2> QED
      BY <2>1, <1>0 DEF DeliveredOnce, PurchaseInv
  <1>4. ReceiptsAreKnown'
    <2>1. ASSUME NEW x \in receipt PROVE row'[x.claim.session].known
      <3>1. x.claim \in ClaimTypes
        BY StoreAssumption DEF PurchaseInv, OutTypes, Receipts
      <3>2. x.claim.session \in Rows /\ row[x.claim.session].known
        BY <3>1 DEF ClaimTypes, PurchaseInv, ReceiptsAreKnown
      <3> QED
        BY <3>2 DEF Grows
    <2> QED
      BY <2>1, <1>0 DEF PurchaseInv, ReceiptsAreKnown
  <1>5. ChargedAtMostTheQuote' /\ OutTypes'
    BY <1>0 DEF PurchaseInv, ChargedAtMostTheQuote, OutTypes
  <1>6. ApprovalSpentOnce' /\ QueueIsNotFlooded'
    BY <1>0, SpendStaysBooked, QueueStaysBooked
  <1> QED
    BY <1>1, <1>2, <1>3, <1>4, <1>5, <1>6 DEF PurchaseInv

\* A step that moves no handler and touches no receipt, consumes no approval
\* without need and raises none.
LEMMA OutsideStep ==
    ASSUME PurchaseInv, StoreInv', Grows, UNCHANGED buyVars, ControlTypes',
           \A k \in Asks :
               /\ approvals'[k]["consumed"] >= approvals[k]["consumed"]
               /\ approvals'[k]["pending"] <= approvals[k]["pending"]
    PROVE  PurchaseInv'
  <1>1. /\ pc' = pc /\ req' = req /\ UNCHANGED outVars
        /\ forwarded' = forwarded /\ billed' = billed
    BY DEF buyVars, outVars
  <1>2. PICK w : TRUE
    OBVIOUS
  <1>3. OnlyMoves(w) /\ HandlersTyped'
    BY <1>1 DEF OnlyMoves, PurchaseInv, HandlersTyped
  <1>4. w \in Workers => HandlerFits(w)'
    BY <1>1, OthersFit DEF PurchaseInv, HandlersFit
  <1>5. \A k : /\ w \in Holders(k)' => w \in Holders(k)
               /\ w \in Raising(k)' => w \in Raising(k)
    <2>1. CASE w \in Workers
      BY <2>1, <1>1, OthersAsk DEF PurchaseInv, HandlersFit
    <2>2. CASE w \notin Workers
      BY <2>2 DEF Holders, Raising
    <2> QED
      BY <2>1, <2>2
  <1>6. SpendIsBooked(w) /\ RaiseIsBooked(w)
    BY <1>5 DEF SpendIsBooked, RaiseIsBooked
  <1>7. w \in Workers /\ pc'[w] = "paid" =>
            \A v \in Workers : v # w /\ pc[v] = "paid" =>
                req[v].claim # req'[w].claim
    BY <1>1 DEF PurchaseInv, PaidAlone
  <1> QED
    BY <1>1, <1>3, <1>4, <1>6, <1>7, HandlerStep

\* Ending a handler keeps the invariant, whatever the store and the queue did
\* meanwhile, provided that no approval was raised but the one it was about to.
LEMMA EndStep ==
    ASSUME PurchaseInv, StoreInv', Grows, NEW w \in Workers, End(w),
           UNCHANGED outVars, ControlTypes', RaiseIsBooked(w),
           \A k \in Asks : approvals'[k]["consumed"] >= approvals[k]["consumed"]
    PROVE  PurchaseInv'
  <1>1. /\ pc'[w] = "idle" /\ req'[w] = NoReq
        /\ OnlyMoves(w) /\ HandlersTyped'
    BY DEF End, PurchaseInv, HandlersTyped, OnlyMoves, Labels
  <1>2. HandlerFits(w)'
    BY <1>1 DEF HandlerFits, Undecided
  <1>3. \A k : w \notin Holders(k)'
    BY <1>1 DEF Holders
  <1>4. SpendIsBooked(w)
    BY <1>3 DEF SpendIsBooked
  <1> QED
    BY <1>1, <1>2, <1>4, HandlerStep

\* A handler goes from a label past the lookup to another, short of the charge:
\* it relies on what it relied on, if the approval it may hold is booked.
LEMMA AdvanceStep ==
    ASSUME PurchaseInv, NEW w \in Workers, NEW l \in Undecided, NEW r,
           r \in Requests, pc[w] \in Undecided,
           r.claim = req[w].claim, r.price = req[w].price,
           r.resource = req[w].resource,
           pc' = [pc EXCEPT ![w] = l], req' = [req EXCEPT ![w] = r],
           UNCHANGED <<storeVars, outVars>>, ControlTypes',
           \A k \in Asks :
               /\ approvals'[k]["consumed"] >= approvals[k]["consumed"]
               /\ approvals'[k]["pending"] = approvals[k]["pending"],
           \/ r.approved = req[w].approved
           \/ approvals'[Ask(w)]["consumed"] >= approvals[Ask(w)]["consumed"] + 1,
           l = "raising" => approvals[Ask(w)]["pending"] = 0
    PROVE  PurchaseInv'
  <1>1. /\ row' = row /\ ticket' = ticket /\ log' = log
        /\ UNCHANGED storeVars /\ UNCHANGED outVars
    BY DEF storeVars
  <1>2. StoreInv' /\ Grows
    BY <1>1, StoreGrows DEF PurchaseInv
  <1>3. /\ pc'[w] = l /\ req'[w] = r /\ OnlyMoves(w) /\ HandlersTyped'
        /\ l \notin {"idle", "quoted", "paid"} /\ pc[w] \notin {"idle", "quoted"}
    BY DEF PurchaseInv, HandlersTyped, OnlyMoves, Labels, Undecided
  <1>4. HandlerFits(w)
    BY DEF PurchaseInv, HandlersFit
  <1>5. HandlerFits(w)'
    BY <1>1, <1>3, <1>4 DEF HandlerFits, Session
  <1>6. Ask(w)' = Ask(w)
    BY <1>1, <1>3 DEF Ask, Key, Session
  <1>7. SpendIsBooked(w)
    BY <1>3, <1>6 DEF SpendIsBooked, Holders
  <1>8. RaiseIsBooked(w)
    <2>1. ASSUME NEW k \in Asks PROVE
             \/ approvals'[k]["pending"] = 0
             \/ /\ approvals'[k]["pending"] <= approvals[k]["pending"]
                /\ w \in Raising(k)' => w \in Raising(k)
      <3>1. approvals[k]["pending"] \in Nat
        BY DEF PurchaseInv, ControlTypes, ApprovalStates
      <3>2. w \in Raising(k)' => k = Ask(w) /\ l = "raising"
        BY <1>3, <1>6 DEF Raising
      <3> QED
        BY <3>1, <3>2
    <2> QED
      BY <2>1 DEF RaiseIsBooked
  <1> QED
    BY <1>1, <1>2, <1>3, <1>5, <1>7, <1>8, HandlerStep

-----------------------------------------------------------------------------
(***************************************************************************)
(* The steps of the buy handler.                                           *)
(***************************************************************************)

\* An answer that changes nothing else.
LEMMA QuietEnd ==
    ASSUME PurchaseInv, NEW w \in Workers, End(w),
           UNCHANGED <<storeVars, controlVars, outVars>>
    PROVE  PurchaseInv'
  <1>1. UNCHANGED storeVars /\ UNCHANGED outVars
    OBVIOUS
  <1>2. price' = price /\ agent' = agent /\ approvals' = approvals
    BY DEF controlVars
  <1>3. StoreInv' /\ Grows
    BY <1>1, StoreGrows DEF PurchaseInv
  <1>4. ControlTypes'
    BY <1>2 DEF PurchaseInv, ControlTypes
  <1>5. \A k \in Asks :
            approvals[k]["consumed"] \in Nat /\ approvals[k]["pending"] \in Nat
    BY DEF PurchaseInv, ControlTypes, ApprovalStates
  <1>6. \A k : w \notin Raising(k)'
    BY DEF Raising, End, PurchaseInv, HandlersTyped
  <1>7. RaiseIsBooked(w)
    BY <1>2, <1>5, <1>6 DEF RaiseIsBooked
  <1>8. \A k \in Asks : approvals'[k]["consumed"] >= approvals[k]["consumed"]
    BY <1>2, <1>5
  <1> QED
    BY <1>1, <1>3, <1>4, <1>7, <1>8, EndStep

\* A handler goes on with another request record and nothing else changes.
LEMMA QuietAdvance ==
    ASSUME PurchaseInv, NEW w \in Workers, NEW l \in Undecided,
           NEW r \in Requests, pc[w] \in Undecided,
           r.claim = req[w].claim, r.price = req[w].price,
           r.resource = req[w].resource, r.approved = req[w].approved,
           pc' = [pc EXCEPT ![w] = l], req' = [req EXCEPT ![w] = r],
           UNCHANGED <<storeVars, controlVars, outVars>>,
           l = "raising" => approvals[Ask(w)]["pending"] = 0
    PROVE  PurchaseInv'
  <1>1. price' = price /\ agent' = agent /\ approvals' = approvals
    BY DEF controlVars
  <1>2. ControlTypes'
    BY <1>1 DEF PurchaseInv, ControlTypes
  <1>3. \A k \in Asks :
               /\ approvals'[k]["consumed"] >= approvals[k]["consumed"]
               /\ approvals'[k]["pending"] = approvals[k]["pending"]
    BY <1>1 DEF PurchaseInv, ControlTypes, ApprovalStates
  <1>4. UNCHANGED <<storeVars, outVars>>
    OBVIOUS
  <1> QED
    BY <1>2, <1>3, <1>4, AdvanceStep

\* What is known of a busy handler, and its request under Goto.
LEMMA Busy ==
    ASSUME PurchaseInv, NEW w \in Workers, pc[w] # "idle"
    PROVE  /\ HandlerFits(w) /\ req[w] \in Requests
           /\ Session(w) = req[w].claim.session /\ Session(w) \in Rows
           /\ ticket[Session(w)].cumulative \in Nat
           /\ req = [req EXCEPT ![w] = req[w]]
  <1>1. HandlerFits(w) /\ req[w] \in Requests
    BY DEF PurchaseInv, HandlersFit, HandlerFits
  <1>2. Session(w) = req[w].claim.session /\ Session(w) \in Rows
    BY <1>1, RequestParts DEF Session
  <1>3. ticket[Session(w)].cumulative \in Nat
    BY <1>2, MarkIsNat DEF PurchaseInv
  <1>4. req = [req EXCEPT ![w] = req[w]]
    BY DEF PurchaseInv, HandlersTyped
  <1> QED
    BY <1>1, <1>2, <1>3, <1>4

\* The ask of a handler past the lookup is one the approvals are counted for.
LEMMA AskType ==
    ASSUME PurchaseInv, NEW w \in Workers, pc[w] \notin {"idle", "quoted"}
    PROVE  Ask(w) \in Asks /\ Key(w) \in AgentKeys
  <1>1. req[w] \in Requests /\ Session(w) \in Rows /\ row[Session(w)].known
    BY Busy DEF HandlerFits
  <1>2. row[Session(w)] \in SessionRows
    BY <1>1, KnownRow DEF PurchaseInv
  <1>3. Key(w) \in AgentKeys
    BY <1>2 DEF Key, SessionRows
  <1> QED
    BY <1>1, <1>3, RequestParts DEF Ask, Asks

LEMMA BuyQuoteInv ==
    ASSUME PurchaseInv, NEW w \in Workers, NEW c \in Claims,
           NEW resource \in Resources, NEW t \in Times, BuyQuote(w, c, resource, t)
    PROVE  PurchaseInv'
  <1>1. PICK r : r = [claim |-> c, at |-> t, resource |-> resource,
                      price |-> price[resource], who |-> NoAgent,
                      approved |-> FALSE, delta |-> 0]
    OBVIOUS
  <1>2. r \in Requests /\ r.approved = FALSE
    BY <1>1 DEF Requests, PurchaseInv, ControlTypes
  <1>3. /\ pc' = [pc EXCEPT ![w] = "quoted"] /\ req' = [req EXCEPT ![w] = r]
        /\ UNCHANGED storeVars /\ UNCHANGED outVars
        /\ price' = price /\ agent' = agent /\ approvals' = approvals
    BY <1>1 DEF BuyQuote, controlVars
  <1>4. /\ pc'[w] = "quoted" /\ req'[w] = r /\ OnlyMoves(w) /\ HandlersTyped'
    BY <1>2, <1>3 DEF PurchaseInv, HandlersTyped, OnlyMoves, Labels
  <1>5. HandlerFits(w)'
    BY <1>2, <1>4 DEF HandlerFits, Undecided
  <1>6. StoreInv' /\ Grows
    BY <1>3, StoreGrows DEF PurchaseInv
  <1>7. ControlTypes'
    BY <1>3 DEF PurchaseInv, ControlTypes
  <1>8. \A k : w \notin Holders(k)' /\ w \notin Raising(k)'
    BY <1>2, <1>4 DEF Holders, Raising
  <1>9. SpendIsBooked(w) /\ RaiseIsBooked(w)
    BY <1>3, <1>8 DEF SpendIsBooked, RaiseIsBooked, PurchaseInv, ControlTypes,
                      ApprovalStates
  <1> QED
    BY <1>3, <1>4, <1>5, <1>6, <1>7, <1>9, HandlerStep

LEMMA BuyRecordInv ==
    ASSUME PurchaseInv, NEW w \in Workers, BuyRecord(w)
    PROVE  PurchaseInv'
  <1>1. CASE End(w)
    BY <1>1, QuietEnd DEF BuyRecord
  <1>2. CASE /\ row[Session(w)].known
             /\ Pays(ticket[Session(w)].cumulative, req[w].price, req[w].claim)
             /\ Goto(w, "checked")
    <2>1. pc[w] = "quoted"
      BY DEF BuyRecord
    <2>2. /\ pc' = [pc EXCEPT ![w] = "checked"] /\ req' = req
          /\ UNCHANGED storeVars /\ UNCHANGED outVars
          /\ row' = row /\ ticket' = ticket
          /\ price' = price /\ agent' = agent /\ approvals' = approvals
      BY <1>2 DEF BuyRecord, Goto, controlVars, storeVars
    <2>3. /\ HandlerFits(w) /\ req[w] \in Requests
          /\ ticket[Session(w)].cumulative \in Nat
      BY <2>1, Busy
    <2>4. pc'[w] = "checked" /\ OnlyMoves(w) /\ HandlersTyped'
      BY <2>2 DEF PurchaseInv, HandlersTyped, OnlyMoves, Labels, Undecided
    <2>5. req[w].claim.cumulative <= ticket[Session(w)].cumulative + req[w].price
      BY <1>2, <2>3, RequestParts DEF Pays
    <2>6. HandlerFits(w)'
      BY <1>2, <2>2, <2>3, <2>4, <2>5 DEF HandlerFits, Session
    <2>7. StoreInv' /\ Grows
      BY <2>2, StoreGrows DEF PurchaseInv
    <2>8. ControlTypes'
      BY <2>2 DEF PurchaseInv, ControlTypes
    <2>9. \A k : w \notin Holders(k)' /\ w \notin Raising(k)'
      BY <2>1, <2>2, <2>3, <2>4 DEF Holders, Raising, HandlerFits
    <2>10. SpendIsBooked(w) /\ RaiseIsBooked(w)
      BY <2>2, <2>9 DEF SpendIsBooked, RaiseIsBooked, PurchaseInv, ControlTypes,
                        ApprovalStates
    <2> QED
      BY <2>2, <2>4, <2>6, <2>7, <2>8, <2>10, HandlerStep
  <1> QED
    BY <1>1, <1>2 DEF BuyRecord

\* A handler past the lookup goes on with the request it has.
LEMMA GotoInv ==
    ASSUME PurchaseInv, NEW w \in Workers, pc[w] \in Undecided,
           NEW l \in Undecided, Goto(w, l),
           UNCHANGED <<storeVars, controlVars, outVars>>,
           l = "raising" => approvals[Ask(w)]["pending"] = 0
    PROVE  PurchaseInv'
  <1>1. req[w] \in Requests /\ req = [req EXCEPT ![w] = req[w]]
    BY Busy DEF Undecided
  <1>2. PICK r \in Requests : r = req[w]
    BY <1>1
  <1>3. pc' = [pc EXCEPT ![w] = l] /\ req' = [req EXCEPT ![w] = r]
    BY <1>1, <1>2 DEF Goto
  <1> QED
    BY <1>2, <1>3, QuietAdvance

\* The request record with another agent record, or with an approval.
LEMMA RequestUpdates ==
    ASSUME NEW r \in Requests, NEW a \in {NoAgent} \cup Agents
    PROVE  /\ [r EXCEPT !.who = a] \in Requests
           /\ [r EXCEPT !.who = a].claim = r.claim
           /\ [r EXCEPT !.who = a].price = r.price
           /\ [r EXCEPT !.who = a].resource = r.resource
           /\ [r EXCEPT !.who = a].approved = r.approved
           /\ [r EXCEPT !.approved = TRUE] \in Requests
           /\ [r EXCEPT !.approved = TRUE].claim = r.claim
           /\ [r EXCEPT !.approved = TRUE].price = r.price
           /\ [r EXCEPT !.approved = TRUE].resource = r.resource
  BY DEF Requests

LEMMA WhoInv ==
    ASSUME PurchaseInv, NEW w \in Workers, pc[w] \in Undecided,
           NEW l \in Undecided \ {"raising"}, NEW a \in {NoAgent} \cup Agents,
           pc' = [pc EXCEPT ![w] = l], req' = [req EXCEPT ![w].who = a],
           UNCHANGED <<storeVars, controlVars, outVars>>
    PROVE  PurchaseInv'
  <1>1. req[w] \in Requests
    BY Busy DEF Undecided
  <1>2. PICK r : r = [req[w] EXCEPT !.who = a]
    OBVIOUS
  <1>3. /\ r \in Requests /\ r.claim = req[w].claim /\ r.price = req[w].price
        /\ r.resource = req[w].resource /\ r.approved = req[w].approved
    BY <1>1, <1>2, RequestUpdates
  <1>4. req' = [req EXCEPT ![w] = r]
    BY <1>2
  <1> QED
    BY <1>3, <1>4, QuietAdvance

LEMMA BuyAgentInv ==
    ASSUME PurchaseInv, NEW w \in Workers, BuyAgent(w)
    PROVE  PurchaseInv'
  <1>1. /\ pc[w] = "checked" /\ pc[w] \in Undecided
        /\ UNCHANGED <<storeVars, controlVars, outVars>>
    BY DEF BuyAgent, Undecided
  <1>2. Key(w) \in AgentKeys
    BY <1>1, AskType
  <1>3. agent[Key(w)] \in {NoAgent} \cup Agents
    BY <1>2 DEF PurchaseInv, ControlTypes
  <1>4. CASE End(w)
    BY <1>1, <1>4, QuietEnd
  <1>5. CASE Goto(w, "admit")
    BY <1>1, <1>5, GotoInv DEF Undecided
  <1>6. CASE /\ pc' = [pc EXCEPT ![w] = "enveloped"]
             /\ req' = [req EXCEPT ![w].who = agent[Key(w)]]
    BY <1>1, <1>3, <1>6, WhoInv DEF Undecided
  <1> QED
    BY <1>4, <1>5, <1>6 DEF BuyAgent

LEMMA BuySpendInv ==
    ASSUME PurchaseInv, NEW w \in Workers, BuySpend(w)
    PROVE  PurchaseInv'
  <1>1. /\ pc[w] = "enveloped" /\ pc[w] \in Undecided
        /\ UNCHANGED <<storeVars, controlVars, outVars>>
    BY DEF BuySpend, Undecided
  <1>2. CASE End(w)
    BY <1>1, <1>2, QuietEnd
  <1>3. ASSUME NEW l \in {"admit", "asking"}, pc' = [pc EXCEPT ![w] = l],
               req' = [req EXCEPT ![w].who = NoAgent]
        PROVE  PurchaseInv'
    BY <1>1, <1>3, WhoInv DEF Undecided
  <1>4. \/ End(w)
        \/ \E l \in {"admit", "asking"} :
               pc' = [pc EXCEPT ![w] = l] /\ req' = [req EXCEPT ![w].who = NoAgent]
    BY DEF BuySpend
  <1> QED
    BY <1>2, <1>3, <1>4

LEMMA BuyPendingInv ==
    ASSUME PurchaseInv, NEW w \in Workers, BuyPending(w)
    PROVE  PurchaseInv'
  <1>1. /\ pc[w] = "unapproved" /\ pc[w] \in Undecided
        /\ UNCHANGED <<storeVars, controlVars, outVars>>
    BY DEF BuyPending, Undecided
  <1>2. CASE End(w)
    BY <1>1, <1>2, QuietEnd
  <1>3. CASE Goto(w, "raising") /\ ~ HasPending(Ask(w))
    <2>1. approvals[Ask(w)]["pending"] \in Nat
      BY <1>1, AskType DEF PurchaseInv, ControlTypes, ApprovalStates
    <2>2. approvals[Ask(w)]["pending"] = 0
      BY <1>3, <2>1 DEF HasPending
    <2> QED
      BY <1>1, <1>3, <2>2, GotoInv DEF Undecided
  <1> QED
    BY <1>2, <1>3 DEF BuyPending

LEMMA AbandonInv ==
    ASSUME PurchaseInv, NEW w \in Workers, Abandon(w)
    PROVE  PurchaseInv'
  BY QuietEnd DEF Abandon

\* Moving one approval of ask k, and raising one: the counts afterwards.
LEMMA MoveCounts ==
    ASSUME ControlTypes, NEW k \in Asks, NEW from \in ApprovalStates,
           NEW to \in ApprovalStates, from # to, approvals[k][from] > 0,
           approvals' = Move(k, from, to)
    PROVE  /\ approvals' \in [Asks -> [ApprovalStates -> Nat]]
           /\ approvals'[k][from] = approvals[k][from] - 1
           /\ approvals'[k][to] = approvals[k][to] + 1
           /\ \A st \in ApprovalStates \ {from, to} :
                  approvals'[k][st] = approvals[k][st]
           /\ \A j \in Asks : j # k => approvals'[j] = approvals[j]
  <1>1. PICK a : a = [approvals[k] EXCEPT ![from] = @ - 1]
    OBVIOUS
  <1>2. PICK b : b = [a EXCEPT ![to] = @ + 1]
    OBVIOUS
  <1>3. approvals \in [Asks -> [ApprovalStates -> Nat]]
    BY DEF ControlTypes
  <1>4. approvals' = [approvals EXCEPT ![k] = b]
    BY <1>1, <1>2, <1>3 DEF Move
  <1>5. /\ a \in [ApprovalStates -> Nat] /\ a[from] = approvals[k][from] - 1
        /\ \A st \in ApprovalStates : st # from => a[st] = approvals[k][st]
    BY <1>1, <1>3
  <1>6. /\ b \in [ApprovalStates -> Nat] /\ b[to] = a[to] + 1
        /\ \A st \in ApprovalStates : st # to => b[st] = a[st]
    BY <1>2, <1>5
  <1> QED
    BY <1>3, <1>4, <1>5, <1>6

LEMMA BuyConsumeInv ==
    ASSUME PurchaseInv, NEW w \in Workers, BuyConsume(w)
    PROVE  PurchaseInv'
  <1>1. /\ pc[w] = "asking" /\ pc[w] \in Undecided
        /\ UNCHANGED <<storeVars, price, agent, outVars>>
    BY DEF BuyConsume, Undecided
  <1>2. CASE Goto(w, "unapproved") /\ UNCHANGED approvals
    <2>1. UNCHANGED <<storeVars, controlVars, outVars>>
      BY <1>1, <1>2 DEF controlVars
    <2> QED
      BY <1>1, <1>2, <2>1, GotoInv DEF Undecided
  <1>3. CASE \E k \in Granted(Ask(w)) :
                /\ approvals' = Move(k, "approved", "consumed")
                /\ pc' = [pc EXCEPT ![w] = "admit"]
                /\ req' = [req EXCEPT ![w].approved = TRUE]
    <2>1. /\ approvals[Ask(w)]["approved"] > 0
          /\ approvals' = Move(Ask(w), "approved", "consumed")
          /\ pc' = [pc EXCEPT ![w] = "admit"]
          /\ req' = [req EXCEPT ![w].approved = TRUE]
      BY <1>3 DEF Granted
    <2>2. PICK k \in Asks : k = Ask(w)
      BY <1>1, AskType
    <2>3. ControlTypes
      BY DEF PurchaseInv
    <2>4. /\ "approved" \in ApprovalStates /\ "consumed" \in ApprovalStates
          /\ "pending" \in ApprovalStates \ {"approved", "consumed"}
      BY DEF ApprovalStates
    <2>5. /\ approvals' \in [Asks -> [ApprovalStates -> Nat]]
          /\ approvals'[k]["consumed"] = approvals[k]["consumed"] + 1
          /\ \A st \in ApprovalStates \ {"approved", "consumed"} :
                 approvals'[k][st] = approvals[k][st]
          /\ \A j \in Asks : j # k => approvals'[j] = approvals[j]
      BY <2>1, <2>2, <2>3, <2>4, MoveCounts
    <2>6. \A j \in Asks : approvals[j]["consumed"] \in Nat
      BY <2>3, <2>4, CountTypes
    <2>7. \A j \in Asks :
               /\ approvals'[j]["consumed"] >= approvals[j]["consumed"]
               /\ approvals'[j]["pending"] = approvals[j]["pending"]
      BY <2>4, <2>5, <2>6
    <2>8. ControlTypes'
      BY <1>1, <2>3, <2>5 DEF ControlTypes
    <2>9. req[w] \in Requests
      BY <1>1, Busy
    <2>10. PICK r : r = [req[w] EXCEPT !.approved = TRUE]
      OBVIOUS
    <2>11. /\ r \in Requests /\ r.claim = req[w].claim /\ r.price = req[w].price
           /\ r.resource = req[w].resource
      BY <2>9, <2>10, RequestUpdates
    <2>12. req' = [req EXCEPT ![w] = r]
      BY <2>1, <2>10
    <2>13. UNCHANGED <<storeVars, outVars>>
      BY <1>1
    <2>14. approvals'[Ask(w)]["consumed"] >= approvals[Ask(w)]["consumed"] + 1
      BY <2>2, <2>5, <2>6
    <2>15. "admit" \in Undecided
      BY DEF Undecided
    <2> QED
      BY <1>1, <2>1, <2>7, <2>8, <2>11, <2>12, <2>13, <2>14, <2>15, AdvanceStep
  <1> QED
    BY <1>2, <1>3 DEF BuyConsume

LEMMA BuyRaiseInv ==
    ASSUME PurchaseInv, NEW w \in Workers, BuyRaise(w)
    PROVE  PurchaseInv'
  <1>1. /\ pc[w] = "raising" /\ End(w) /\ UNCHANGED storeVars
        /\ UNCHANGED outVars /\ price' = price /\ agent' = agent
        /\ approvals' = [approvals EXCEPT ![Ask(w)]["pending"] = @ + 1]
    BY DEF BuyRaise
  <1>2. PICK k \in Asks : k = Ask(w)
    BY <1>1, AskType
  <1>3. approvals \in [Asks -> [ApprovalStates -> Nat]]
    BY DEF PurchaseInv, ControlTypes
  <1>4. PICK a : a = [approvals[k] EXCEPT !["pending"] = @ + 1]
    OBVIOUS
  <1>5. approvals' = [approvals EXCEPT ![k] = a]
    BY <1>1, <1>2, <1>4
  <1>6. /\ a \in [ApprovalStates -> Nat]
        /\ a["pending"] = approvals[k]["pending"] + 1
        /\ a["consumed"] = approvals[k]["consumed"]
    BY <1>3, <1>4 DEF ApprovalStates
  <1>7. /\ approvals' \in [Asks -> [ApprovalStates -> Nat]]
        /\ approvals'[k] = a
        /\ \A j \in Asks : j # k => approvals'[j] = approvals[j]
    BY <1>3, <1>5, <1>6
  <1>8. ControlTypes'
    BY <1>1, <1>7 DEF PurchaseInv, ControlTypes
  <1>9. \A j \in Asks :
            approvals[j]["consumed"] \in Nat /\ approvals[j]["pending"] \in Nat
    BY <1>3 DEF ApprovalStates
  <1>10. w \in Raising(k) /\ \A j : w \notin Raising(j)'
    <2>1. pc'[w] = "idle"
      BY <1>1 DEF End, PurchaseInv, HandlersTyped
    <2> QED
      BY <1>1, <1>2, <2>1 DEF Raising
  <1>11. RaiseIsBooked(w)
    BY <1>6, <1>7, <1>9, <1>10 DEF RaiseIsBooked
  <1>12. \A j \in Asks : approvals'[j]["consumed"] >= approvals[j]["consumed"]
    BY <1>6, <1>7, <1>9
  <1>13. StoreInv' /\ Grows
    BY <1>1, StoreGrows DEF PurchaseInv
  <1> QED
    BY <1>1, <1>8, <1>11, <1>12, <1>13, EndStep

\* The charge of handler w is a step of the store.
LEMMA AdmitUsesStore ==
    ASSUME PurchaseInv, NEW w \in Workers, BuyAdmit(w)
    PROVE  [StoreNext]_storeVars
  <1>1. req[w].claim \in Claims /\ req[w].at \in Times
    BY Busy, RequestParts DEF BuyAdmit
  <1>2. \/ AcceptClaim(req[w].claim, req[w].at)
        \/ RefuseClaim(req[w].claim, req[w].at)
        \/ UNCHANGED storeVars
    BY DEF BuyAdmit, Denied
  <1> QED
    BY <1>1, <1>2 DEF StoreNext

\* What a claim that is accepted cannot have been before: in the log.
LEMMA AcceptedIsNew ==
    ASSUME StoreInv, NEW c \in ClaimTypes, NEW t, AcceptClaim(c, t)
    PROVE  /\ ~ IsLogged(c) /\ IsLogged(c)'
           /\ c.cumulative > ticket[c.session].cumulative
  <1>1. c.session \in Rows /\ c.cumulative \in Nat /\ c.nonce \in Nat
    BY DEF ClaimTypes
  <1>2. c.cumulative > ticket[c.session].cumulative
    BY AllowedMeans DEF AcceptClaim, Forward
  <1>3. ticket[c.session].cumulative \in Nat
    BY <1>1, MarkIsNat
  <1>4. ~ IsLogged(c)
    <2>1. ASSUME NEW i \in Allowed(c.session),
                 log[c.session][i].cumulative = c.cumulative
          PROVE  FALSE
      BY <1>1, <1>2, <1>3, <2>1 DEF StoreInv, MarkCoversLog
    <2> QED
      BY <2>1 DEF IsLogged
  <1>5. PICK e : e = Entry("Allowed", c)
    OBVIOUS
  <1>6. /\ e \in Entries /\ e.decision = "Allowed"
        /\ e.cumulative = c.cumulative /\ e.nonce = c.nonce
    <2>1. Entry("Allowed", c) \in Entries
      BY EntryType DEF Decisions
    <2> QED
      BY <1>1, <1>5, <2>1, StoreAssumption DEF AcceptClaim, Storable, Entry, Clamp
  <1>7. PICK l \in Seq(Entries) : l = log[c.session]
    BY <1>1 DEF StoreInv, StoreTypeOK
  <1>8. log'[c.session] = Append(l, e)
    BY <1>1, <1>5, <1>7 DEF AcceptClaim, StoreInv, StoreTypeOK
  <1>9. /\ Len(l) + 1 \in DOMAIN log'[c.session]
        /\ log'[c.session][Len(l) + 1] = e
    BY <1>6, <1>8, AppendPositions
  <1>10. Len(l) + 1 \in Allowed(c.session)'
    BY <1>6, <1>9 DEF Allowed
  <1>11. IsLogged(c)'
    BY <1>6, <1>9, <1>10 DEF IsLogged
  <1> QED
    BY <1>2, <1>4, <1>11

LEMMA BuyAdmitInv ==
    ASSUME PurchaseInv, NEW w \in Workers, BuyAdmit(w)
    PROVE  PurchaseInv'
  <1>1. /\ pc[w] = "admit" /\ UNCHANGED controlVars /\ UNCHANGED outVars
        /\ price' = price /\ agent' = agent /\ approvals' = approvals
        /\ forwarded' = forwarded /\ billed' = billed
    BY DEF BuyAdmit, controlVars, outVars
  <1>2. StoreInv' /\ Grows
    BY AdmitUsesStore, StoreGrows DEF PurchaseInv
  <1>3. ControlTypes'
    BY <1>1 DEF PurchaseInv, ControlTypes
  <1>4. \A k \in Asks :
            approvals[k]["consumed"] \in Nat /\ approvals[k]["pending"] \in Nat
    BY DEF PurchaseInv, ControlTypes, ApprovalStates
  <1>5. CASE Denied(w)
    <2>1. End(w)
      BY <1>5 DEF Denied
    <2>2. \A k : w \notin Raising(k)'
      BY <2>1 DEF Raising, End, PurchaseInv, HandlersTyped
    <2>3. RaiseIsBooked(w)
      BY <1>1, <1>4, <2>2 DEF RaiseIsBooked
    <2>4. \A k \in Asks : approvals'[k]["consumed"] >= approvals[k]["consumed"]
      BY <1>1, <1>4
    <2> QED
      BY <1>1, <1>2, <1>3, <2>1, <2>3, <2>4, EndStep
  <1>6. CASE /\ AcceptClaim(req[w].claim, req[w].at)
             /\ pc' = [pc EXCEPT ![w] = "paid"]
             /\ req' = [req EXCEPT ![w].delta =
                    req[w].claim.cumulative - ticket[Session(w)].cumulative]
    <2>1. /\ HandlerFits(w) /\ req[w] \in Requests
          /\ Session(w) = req[w].claim.session /\ Session(w) \in Rows
          /\ ticket[Session(w)].cumulative \in Nat
      BY <1>1, Busy
    <2>2. PICK c \in ClaimTypes : c = req[w].claim
      BY <2>1, RequestParts
    <2>3. /\ c \in Claims /\ c.cumulative \in Nat /\ req[w].price \in Nat
      BY <2>1, <2>2, RequestParts
    <2>4. /\ ~ IsLogged(c) /\ IsLogged(c)'
          /\ c.cumulative > ticket[Session(w)].cumulative
      BY <1>6, <2>1, <2>2, AcceptedIsNew DEF PurchaseInv
    <2>5. PICK d : d = c.cumulative - ticket[Session(w)].cumulative
      OBVIOUS
    <2>6. c.cumulative <= ticket[Session(w)].cumulative + req[w].price
      BY <1>1, <2>1, <2>2 DEF HandlerFits, Undecided
    <2>7. d \in Nat /\ d > 0 /\ d <= req[w].price
      BY <2>1, <2>3, <2>4, <2>5, <2>6
    <2>8. PICK r : r = [req[w] EXCEPT !.delta = d]
      OBVIOUS
    <2>9. /\ r \in Requests /\ r.claim = c /\ r.price = req[w].price
          /\ r.resource = req[w].resource /\ r.approved = req[w].approved
          /\ r.delta = d
      BY <2>1, <2>2, <2>7, <2>8 DEF Requests
    <2>10. req' = [req EXCEPT ![w] = r]
      BY <1>6, <2>2, <2>5, <2>8
    <2>11. pc'[w] = "paid" /\ req'[w] = r /\ OnlyMoves(w) /\ HandlersTyped'
      BY <1>6, <2>9, <2>10 DEF PurchaseInv, HandlersTyped, OnlyMoves, Labels
    <2>12. forwarded[c] = 0 /\ billed[c] = 0
      BY <2>3, <2>4 DEF PurchaseInv, DeliveredOnce, OutTypes
    <2>13. row' = row /\ row[Session(w)].known
      BY <1>6, <2>1 DEF AcceptClaim
    <2>14. IsLogged(req[w].claim)'
      BY <2>4, <2>9, <2>11 DEF IsLogged
    <2>15. HandlerFits(w)'
      BY <1>1, <2>1, <2>2, <2>7, <2>9, <2>11, <2>12, <2>13, <2>14
         DEF HandlerFits, Session, Undecided
    <2>16. Ask(w)' = Ask(w)
      BY <2>2, <2>9, <2>11, <2>13 DEF Ask, Key, Session
    <2>17. \A k : /\ w \in Holders(k)' => w \in Holders(k)
                  /\ w \notin Raising(k)'
      BY <1>1, <2>9, <2>11, <2>16 DEF Holders, Raising
    <2>18. SpendIsBooked(w) /\ RaiseIsBooked(w)
      BY <1>1, <1>4, <2>17 DEF SpendIsBooked, RaiseIsBooked
    <2>19. ASSUME NEW v \in Workers, pc[v] = "paid" PROVE req[v].claim # c
      BY <2>4, <2>19 DEF PurchaseInv, HandlersFit, HandlerFits
    <2>20. \A v \in Workers : v # w /\ pc[v] = "paid" =>
               req[v].claim # req'[w].claim
      BY <2>9, <2>11, <2>19
    <2> QED
      BY <1>1, <1>2, <1>3, <2>11, <2>15, <2>18, <2>20, HandlerStep
  <1> QED
    BY <1>5, <1>6 DEF BuyAdmit

\* The request goes out: at most one delivery and one bill for a claim that had
\* neither, and the approval the handler holds becomes the receipt's.
LEMMA BuyForwardInv ==
    ASSUME PurchaseInv, NEW w \in Workers, BuyForward(w)
    PROVE  PurchaseInv'
  <1>1. /\ pc[w] = "paid" /\ End(w) /\ Meter(req[w].claim)
        /\ UNCHANGED storeVars
        /\ row' = row /\ ticket' = ticket /\ log' = log
        /\ price' = price /\ agent' = agent /\ approvals' = approvals
    BY DEF BuyForward, storeVars, controlVars
  <1>2. StoreInv' /\ Grows
    BY <1>1, StoreGrows DEF PurchaseInv
  <1>3. ControlTypes'
    BY <1>1 DEF PurchaseInv, ControlTypes
  <1>4. /\ HandlerFits(w) /\ req[w] \in Requests
        /\ Session(w) = req[w].claim.session /\ Session(w) \in Rows
    BY <1>1, Busy
  <1>5. PICK c \in Claims : c = req[w].claim
    BY <1>4, RequestParts
  <1>6. PICK x : x = [claim |-> req[w].claim, resource |-> req[w].resource,
                      price |-> req[w].price, delta |-> req[w].delta,
                      approved |-> req[w].approved]
    OBVIOUS
  <1>7. /\ x \in Receipts /\ x.claim = c /\ x.resource = req[w].resource
        /\ x.price = req[w].price /\ x.delta = req[w].delta
        /\ x.approved = req[w].approved
    BY <1>4, <1>5, <1>6, RequestParts DEF Receipts
  <1>8. /\ forwarded[c] = 0 /\ billed[c] = 0 /\ IsLogged(c)
        /\ row[c.session].known /\ x.delta > 0 /\ x.delta <= x.price
    BY <1>1, <1>4, <1>5, <1>7 DEF HandlerFits
  <1>9. /\ receipt' = receipt \/ receipt' = receipt \cup {x}
        /\ forwarded' = forwarded \/ forwarded' = [forwarded EXCEPT ![c] = @ + 1]
        /\ billed' = billed \/ billed' = [billed EXCEPT ![c] = @ + 1]
    BY <1>5, <1>6 DEF BuyForward, Meter
  <1>10. forwarded \in [Claims -> Nat] /\ billed \in [Claims -> Nat]
    BY DEF PurchaseInv, OutTypes
  <1>11. /\ forwarded' \in [Claims -> Nat] /\ billed' \in [Claims -> Nat]
         /\ forwarded'[c] <= 1 /\ billed'[c] <= 1
         /\ \A b \in Claims : b # c =>
                forwarded'[b] = forwarded[b] /\ billed'[b] = billed[b]
    BY <1>8, <1>9, <1>10
  <1>12. OutTypes' /\ ChargedAtMostTheQuote'
    BY <1>7, <1>8, <1>9, <1>11
       DEF PurchaseInv, OutTypes, ChargedAtMostTheQuote
  <1>13. ReceiptsAreKnown'
    <2>1. IsFiniteSet(receipt) /\ IsFiniteSet(receipt \cup {x})
      BY FS_AddElement DEF PurchaseInv, ReceiptsAreKnown
    <2> QED
      BY <1>1, <1>7, <1>8, <1>9, <2>1 DEF PurchaseInv, ReceiptsAreKnown
  <1>14. DeliveredOnce'
    <2>1. \A b \in Claims : IsLogged(b)' = IsLogged(b)
      BY <1>1 DEF IsLogged, Allowed
    <2>2. ASSUME NEW b \in Claims
          PROVE  /\ forwarded'[b] <= 1 /\ billed'[b] <= 1
                 /\ forwarded'[b] > 0 \/ billed'[b] > 0 => IsLogged(b)
      BY <1>8, <1>11 DEF PurchaseInv, DeliveredOnce
    <2> QED
      BY <2>1, <2>2 DEF DeliveredOnce
  <1>15. pc'[w] = "idle" /\ req'[w] = NoReq /\ OnlyMoves(w) /\ HandlersTyped'
    BY <1>1 DEF End, PurchaseInv, HandlersTyped, OnlyMoves, Labels
  <1>16. HandlersFit'
    <2>1. HandlerFits(w)'
      BY <1>15 DEF HandlerFits, Undecided
    <2>2. ASSUME NEW v \in Workers, v # w PROVE HandlerFits(v)'
      <3>1. HandlerFits(v) /\ pc'[v] = pc[v] /\ req'[v] = req[v]
        BY <1>15, <2>2 DEF OnlyMoves, PurchaseInv, HandlersFit
      <3>2. pc[v] = "paid" => req[v].claim # c /\ req[v].claim \in Claims
        BY <1>1, <1>5, <2>2, <3>1, RequestParts
           DEF PurchaseInv, PaidAlone, HandlerFits
      <3>3. pc[v] = "paid" =>
                /\ forwarded'[req[v].claim] = forwarded[req[v].claim]
                /\ billed'[req[v].claim] = billed[req[v].claim]
        BY <1>11, <3>2
      <3> QED
        BY <1>2, <3>1, <3>3, OthersFit DEF PurchaseInv
    <2>3. \A v \in Workers : HandlerFits(v)'
      BY <2>1, <2>2
    <2> QED
      BY <2>3 DEF HandlersFit
  <1>17. PaidAlone'
    BY <1>15 DEF PurchaseInv, PaidAlone, OnlyMoves
  <1>18. QueueIsNotFlooded'
    <2>1. \A k : w \notin Raising(k)'
      BY <1>15 DEF Raising
    <2>2. RaiseIsBooked(w)
      BY <1>1, <2>1 DEF RaiseIsBooked, PurchaseInv, ControlTypes, ApprovalStates
    <2> QED
      BY <1>2, <1>3, <1>15, <2>2, QueueStaysBooked
  <1>19. ApprovalSpentOnce'
    <2> SUFFICES ASSUME NEW k \in Asks
                 PROVE  (Cardinality(Holders(k)) + Cardinality(Approved(k))
                            <= approvals[k]["consumed"])'
      BY DEF ApprovalSpentOnce
    <2>1. PICK S, T : S = Holders(k) /\ T = Holders(k)'
      OBVIOUS
    <2>2. PICK A, B : A = Approved(k) /\ B = Approved(k)'
      OBVIOUS
    <2>3. T \subseteq S \cup {w} /\ w \notin T
      <3>1. ASSUME NEW v \in Holders(k)' PROVE v \in Holders(k)
        <4>1. v \in Workers /\ v # w
          BY <1>15 DEF Holders
        <4>2. HandlerFits(v) /\ pc'[v] = pc[v] /\ req'[v] = req[v]
          BY <1>15, <4>1 DEF OnlyMoves, PurchaseInv, HandlersFit
        <4> QED
          BY <1>2, <4>1, <4>2, OthersAsk
      <3>2. w \notin Holders(k)'
        BY <1>15 DEF Holders
      <3> QED
        BY <2>1, <3>1, <3>2
    <2>4. IsFiniteSet(S)
      BY <2>1, HandlersAreFinite
    <2>5. /\ Cardinality(T) \in Nat /\ Cardinality(S) \in Nat
          /\ Cardinality(T) <= Cardinality(S)
          /\ w \in S => Cardinality(T) + 1 <= Cardinality(S)
      BY <2>3, <2>4, CountBounds
    <2>6. IsFiniteSet(A)
      <3>1. A \in SUBSET receipt /\ IsFiniteSet(receipt)
        BY <2>2 DEF Approved, PurchaseInv, ReceiptsAreKnown
      <3> QED
        BY <3>1, FS_Subset
    <2>7. B \subseteq A \cup {x} /\ (x \in B => x \in A \/ w \in S)
      <3>1. ASSUME NEW y \in Approved(k)', y # x PROVE y \in Approved(k)
        BY <1>1, <1>9, <3>1 DEF Approved
      <3>2. ASSUME x \in Approved(k)' PROVE w \in Holders(k)
        <4>1. x.approved /\ k = <<row'[x.claim.session].agent, x.resource, x.price>>
          BY <3>2 DEF Approved
        <4>2. k = Ask(w)
          BY <1>1, <1>4, <1>5, <1>7, <4>1 DEF Ask, Key
        <4> QED
          BY <1>1, <1>7, <4>1, <4>2 DEF Holders
      <3> QED
        BY <2>1, <2>2, <3>1, <3>2
    <2>8. /\ Cardinality(B) \in Nat /\ Cardinality(A) \in Nat
          /\ Cardinality(B) <= Cardinality(A) + 1
          /\ x \notin B \/ x \in A => Cardinality(B) <= Cardinality(A)
      BY <2>6, <2>7, CountBounds
    <2>9. /\ Cardinality(S) + Cardinality(A) <= approvals[k]["consumed"]
          /\ approvals[k]["consumed"] \in Nat
      BY <2>1, <2>2 DEF PurchaseInv, ApprovalSpentOnce, ControlTypes, ApprovalStates
    <2>10. Cardinality(T) + Cardinality(B) <= approvals[k]["consumed"]
      <3>1. CASE w \in S
        BY <3>1, <2>5, <2>8, <2>9
      <3>2. CASE w \notin S
        BY <3>2, <2>5, <2>7, <2>8, <2>9
      <3> QED
        BY <3>1, <3>2
    <2> QED
      BY <1>1, <2>1, <2>2, <2>10
  <1> QED
    BY <1>2, <1>3, <1>12, <1>13, <1>14, <1>15, <1>16, <1>17, <1>18, <1>19
       DEF PurchaseInv

-----------------------------------------------------------------------------
(***************************************************************************)
(* Everybody else.                                                         *)
(***************************************************************************)

\* A change of the catalogue or of an agent.
LEMMA OperatorStep ==
    ASSUME PurchaseInv, UNCHANGED <<storeVars, approvals, buyVars>>,
           price' \in [Resources -> Prices],
           agent' \in [AgentKeys -> {NoAgent} \cup Agents]
    PROVE  PurchaseInv'
  <1>1. UNCHANGED storeVars /\ UNCHANGED buyVars /\ approvals' = approvals
    OBVIOUS
  <1>2. StoreInv' /\ Grows
    BY <1>1, StoreGrows DEF PurchaseInv
  <1>3. ControlTypes'
    BY <1>1 DEF PurchaseInv, ControlTypes
  <1>4. \A k \in Asks :
               /\ approvals'[k]["consumed"] >= approvals[k]["consumed"]
               /\ approvals'[k]["pending"] <= approvals[k]["pending"]
    BY <1>1 DEF PurchaseInv, ControlTypes, ApprovalStates
  <1> QED
    BY <1>1, <1>2, <1>3, <1>4, OutsideStep

\* The agent records an operator can make of an existing one.
LEMMA AgentUpdates ==
    ASSUME NEW a \in {NoAgent} \cup Agents, a.exists,
           NEW mode \in Modes, NEW p \in Policies, NEW status \in Statuses
    PROVE  /\ [a EXCEPT !.mode = mode, !.policy = {p}] \in Agents
           /\ [a EXCEPT !.status = status] \in Agents
  <1>1. NoAgent.exists = FALSE
    BY DEF NoAgent
  <1>2. a \in Agents
    BY <1>1
  <1> QED
    BY <1>2 DEF Agents

LEMMA AgentsInv ==
    ASSUME PurchaseInv, NEW k \in AgentKeys, NEW mode \in Modes,
           CreateAgent(k, mode) \/ \E p \in Policies : AuthorizeAgent(k, mode, p)
    PROVE  PurchaseInv'
  <1>1. /\ agent \in [AgentKeys -> {NoAgent} \cup Agents]
        /\ price \in [Resources -> Prices]
    BY DEF PurchaseInv, ControlTypes
  <1>2. /\ UNCHANGED <<storeVars, approvals, buyVars>> /\ price' = price
    BY DEF CreateAgent, AuthorizeAgent
  <1>3. CASE CreateAgent(k, mode)
    <2>1. [exists |-> TRUE, mode |-> mode, status |-> "active", policy |-> {}]
              \in Agents
      BY DEF Agents, Statuses
    <2>2. agent' \in [AgentKeys -> {NoAgent} \cup Agents]
      BY <1>1, <1>3, <2>1 DEF CreateAgent
    <2> QED
      BY <1>1, <1>2, <2>2, OperatorStep
  <1>4. ASSUME NEW p \in Policies, AuthorizeAgent(k, mode, p) PROVE PurchaseInv'
    <2>1. PICK a : a = [agent[k] EXCEPT !.mode = mode, !.policy = {p}]
      OBVIOUS
    <2>2. "active" \in Statuses
      BY DEF Statuses
    <2>3. a \in Agents
      BY <1>1, <1>4, <2>1, <2>2, AgentUpdates DEF AuthorizeAgent
    <2>4. agent' = [agent EXCEPT ![k] = a]
      BY <1>1, <1>4, <2>1 DEF AuthorizeAgent
    <2>5. agent' \in [AgentKeys -> {NoAgent} \cup Agents]
      BY <1>1, <2>3, <2>4
    <2> QED
      BY <1>1, <1>2, <2>5, OperatorStep
  <1> QED
    BY <1>3, <1>4

LEMMA SetAgentStatusInv ==
    ASSUME PurchaseInv, NEW k \in AgentKeys, NEW status \in Statuses,
           SetAgentStatus(k, status)
    PROVE  PurchaseInv'
  <1>1. /\ agent \in [AgentKeys -> {NoAgent} \cup Agents]
        /\ price \in [Resources -> Prices]
    BY DEF PurchaseInv, ControlTypes
  <1>2. PICK a : a = [agent[k] EXCEPT !.status = status]
    OBVIOUS
  <1>3. a \in Agents
    <2>1. NoAgent.exists = FALSE
      BY DEF NoAgent
    <2>2. agent[k] \in Agents
      BY <1>1, <2>1 DEF SetAgentStatus
    <2> QED
      BY <1>2, <2>2 DEF Agents
  <1>4. agent' = [agent EXCEPT ![k] = a]
    BY <1>1, <1>2 DEF SetAgentStatus
  <1>5. agent' \in [AgentKeys -> {NoAgent} \cup Agents]
    BY <1>1, <1>3, <1>4
  <1> QED
    BY <1>1, <1>5, OperatorStep DEF SetAgentStatus

LEMMA DecideApprovalInv ==
    ASSUME PurchaseInv, NEW k \in Asks, DecideApproval(k)
    PROVE  PurchaseInv'
  <1>1. /\ approvals[k]["pending"] > 0 /\ UNCHANGED storeVars
        /\ UNCHANGED buyVars /\ price' = price /\ agent' = agent
    BY DEF DecideApproval
  <1>2. ControlTypes /\ approvals \in [Asks -> [ApprovalStates -> Nat]]
    BY DEF PurchaseInv, ControlTypes
  <1>3. /\ approvals' \in [Asks -> [ApprovalStates -> Nat]]
        /\ approvals'[k]["pending"] = approvals[k]["pending"] - 1
        /\ approvals'[k]["consumed"] = approvals[k]["consumed"]
        /\ \A j \in Asks : j # k => approvals'[j] = approvals[j]
    <2>1. CASE approvals' = Move(k, "pending", "approved")
      <3>1. /\ "pending" \in ApprovalStates /\ "approved" \in ApprovalStates
            /\ "consumed" \in ApprovalStates \ {"pending", "approved"}
        BY DEF ApprovalStates
      <3>2. /\ approvals' \in [Asks -> [ApprovalStates -> Nat]]
            /\ approvals'[k]["pending"] = approvals[k]["pending"] - 1
            /\ \A st \in ApprovalStates \ {"pending", "approved"} :
                   approvals'[k][st] = approvals[k][st]
            /\ \A j \in Asks : j # k => approvals'[j] = approvals[j]
        BY <1>1, <1>2, <2>1, <3>1, MoveCounts
      <3> QED
        BY <3>1, <3>2
    <2>2. CASE approvals' = [approvals EXCEPT ![k]["pending"] = @ - 1]
      <3>1. PICK a : a = [approvals[k] EXCEPT !["pending"] = @ - 1]
        OBVIOUS
      <3>2. approvals' = [approvals EXCEPT ![k] = a]
        BY <2>2, <3>1
      <3>3. /\ a \in [ApprovalStates -> Nat]
            /\ a["pending"] = approvals[k]["pending"] - 1
            /\ a["consumed"] = approvals[k]["consumed"]
        BY <1>1, <1>2, <3>1 DEF ApprovalStates
      <3> QED
        BY <1>2, <3>2, <3>3
    <2> QED
      BY <2>1, <2>2 DEF DecideApproval
  <1>4. ControlTypes'
    BY <1>1, <1>2, <1>3 DEF ControlTypes
  <1>5. \A j \in Asks :
            approvals[j]["consumed"] \in Nat /\ approvals[j]["pending"] \in Nat
    BY <1>2 DEF ApprovalStates
  <1>6. \A j \in Asks :
               /\ approvals'[j]["consumed"] >= approvals[j]["consumed"]
               /\ approvals'[j]["pending"] <= approvals[j]["pending"]
    BY <1>3, <1>5
  <1>7. StoreInv' /\ Grows
    BY <1>1, StoreGrows DEF PurchaseInv
  <1> QED
    BY <1>1, <1>4, <1>6, <1>7, OutsideStep

\* The rest of the gateway takes steps of the store.
LEMMA ElsewhereUsesStore == Elsewhere => StoreNext
  <1>1. DirectClaims \subseteq Claims
    BY PurchaseAssumption
  <1> QED
    BY <1>1 DEF Elsewhere, StoreNext

LEMMA ElsewhereInv ==
    ASSUME PurchaseInv, Elsewhere
    PROVE  PurchaseInv'
  <1>1. UNCHANGED buyVars /\ price' = price /\ agent' = agent
        /\ approvals' = approvals
    BY DEF Elsewhere, controlVars
  <1>2. StoreInv' /\ Grows
    BY ElsewhereUsesStore, StoreGrows DEF PurchaseInv
  <1>3. ControlTypes'
    BY <1>1 DEF PurchaseInv, ControlTypes
  <1>4. \A k \in Asks :
               /\ approvals'[k]["consumed"] >= approvals[k]["consumed"]
               /\ approvals'[k]["pending"] <= approvals[k]["pending"]
    BY <1>1 DEF PurchaseInv, ControlTypes, ApprovalStates
  <1> QED
    BY <1>1, <1>2, <1>3, <1>4, OutsideStep

-----------------------------------------------------------------------------
(***************************************************************************)
(* The invariant of the specification, and the theorems.                   *)
(***************************************************************************)

LEMMA PurchaseInitInv == Init => PurchaseInv
  <1> SUFFICES ASSUME Init PROVE PurchaseInv
    OBVIOUS
  <1>1. StoreInv
    BY StoreInitInv DEF Init
  <1>2. /\ receipt = {} /\ pc = [w \in Workers |-> "idle"]
        /\ req = [w \in Workers |-> NoReq]
        /\ forwarded = [c \in Claims |-> 0] /\ billed = [c \in Claims |-> 0]
        /\ approvals = [k \in Asks |-> [st \in ApprovalStates |-> 0]]
    BY DEF Init
  <1>3. ControlTypes
    BY <1>2 DEF Init, ControlTypes
  <1>4. OutTypes /\ HandlersTyped
    BY <1>2 DEF OutTypes, HandlersTyped, Labels
  <1>5. HandlersFit
    BY <1>2 DEF HandlersFit, HandlerFits, Undecided
  <1>6. PaidAlone /\ DeliveredOnce /\ ChargedAtMostTheQuote
    BY <1>2 DEF PaidAlone, DeliveredOnce, ChargedAtMostTheQuote
  <1>7. IsFiniteSet({}) /\ Cardinality({}) = 0
    BY FS_EmptySet
  <1>8. ReceiptsAreKnown
    BY <1>2, <1>7 DEF ReceiptsAreKnown
  <1>9. \A k : Holders(k) = {} /\ Raising(k) = {} /\ Approved(k) = {}
    BY <1>2 DEF Holders, Raising, Approved
  <1>10. \A k \in Asks :
             approvals[k]["consumed"] = 0 /\ approvals[k]["pending"] = 0
    BY <1>2 DEF ApprovalStates
  <1>11. ApprovalSpentOnce
    BY <1>7, <1>9, <1>10 DEF ApprovalSpentOnce
  <1>12. QueueIsNotFlooded
    <2>1. Cardinality(Workers) \in Nat
      BY PurchaseAssumption, FS_CardinalityType
    <2>2. \A k \in Asks : approvals[k]["pending"] + Cardinality(Raising(k)) = 0
      BY <1>7, <1>9, <1>10
    <2>3. 0 <= Cardinality(Workers)
      BY <2>1
    <2> QED
      BY <2>2, <2>3 DEF QueueIsNotFlooded
  <1> QED
    BY <1>1, <1>3, <1>4, <1>5, <1>6, <1>8, <1>11, <1>12 DEF PurchaseInv

LEMMA StutterInv ==
    ASSUME PurchaseInv, UNCHANGED vars
    PROVE  PurchaseInv'
  <1>1. /\ UNCHANGED <<storeVars, approvals, buyVars>>
        /\ price' = price /\ agent' = agent
    BY DEF vars, storeVars, buyVars
  <1> QED
    BY <1>1, OperatorStep DEF PurchaseInv, ControlTypes

\* One step per action.
LEMMA PurchaseNextInv == PurchaseInv /\ [Next]_vars => PurchaseInv'
  <1> SUFFICES ASSUME PurchaseInv, [Next]_vars PROVE PurchaseInv'
    OBVIOUS
  <1>1. CASE \E w \in Workers, c \in Claims, resource \in Resources, t \in Times :
                BuyQuote(w, c, resource, t)
    BY <1>1, BuyQuoteInv
  <1>2. ASSUME NEW w \in Workers,
               \/ BuyRecord(w) \/ BuyAgent(w) \/ BuySpend(w) \/ BuyConsume(w)
               \/ BuyPending(w) \/ BuyRaise(w) \/ BuyAdmit(w)
               \/ BuyForward(w) \/ Abandon(w)
        PROVE  PurchaseInv'
    BY <1>2, BuyRecordInv, BuyAgentInv, BuySpendInv, BuyConsumeInv, BuyPendingInv,
       BuyRaiseInv, BuyAdmitInv, BuyForwardInv, AbandonInv
  <1>3. ASSUME NEW resource \in Resources, NEW cost \in Prices,
               Relist(resource, cost)
        PROVE  PurchaseInv'
    <2>1. /\ UNCHANGED <<storeVars, approvals, buyVars>> /\ agent' = agent
          /\ price' = [price EXCEPT ![resource] = cost]
      BY <1>3 DEF Relist
    <2>2. /\ price' \in [Resources -> Prices]
          /\ agent' \in [AgentKeys -> {NoAgent} \cup Agents]
      BY <2>1 DEF PurchaseInv, ControlTypes
    <2> QED
      BY <2>1, <2>2, OperatorStep
  <1>4. CASE \E k \in AgentKeys, mode \in Modes :
                \/ CreateAgent(k, mode)
                \/ \E p \in Policies : AuthorizeAgent(k, mode, p)
    BY <1>4, AgentsInv
  <1>5. CASE \E k \in AgentKeys, status \in Statuses : SetAgentStatus(k, status)
    BY <1>5, SetAgentStatusInv
  <1>6. CASE \E k \in Asks : DecideApproval(k)
    BY <1>6, DecideApprovalInv
  <1>7. CASE Elsewhere
    BY <1>7, ElsewhereInv
  <1>8. CASE UNCHANGED vars
    BY <1>8, StutterInv
  <1> QED
    BY <1>1, <1>2, <1>3, <1>4, <1>5, <1>6, <1>7, <1>8 DEF Next

LEMMA PurchaseInvariance == Spec => []PurchaseInv
  BY PurchaseInitInv, PurchaseNextInv, PTL DEF Spec

\* Whatever is retried, run twice at once or dropped half way, a claim reaches
\* the provider and the usage table at most once each, and only after the
\* evidence log shows it as accepted (routes.rs buy), for any number of
\* handlers, sessions and claims.
THEOREM GoodsAreAccepted == Spec => []GoodsFollowAcceptance
  <1>1. ASSUME PurchaseInv PROVE GoodsFollowAcceptance
    <2>1. \A w \in Workers : IF pc[w] = "idle" THEN req[w] = NoReq
                                               ELSE req[w] \in Requests
      BY <1>1 DEF PurchaseInv, HandlersFit, HandlerFits
    <2>2. PurchaseTypeOK
      BY <1>1, <2>1 DEF PurchaseInv, StoreInv, ControlTypes, OutTypes,
                        PurchaseTypeOK
    <2>3. ASSUME NEW c \in Claims
          PROVE  /\ forwarded[c] <= 1 /\ billed[c] <= 1
                 /\ forwarded[c] + billed[c] > 0 => IsLogged(c)
      <3>1. forwarded[c] \in Nat /\ billed[c] \in Nat
        BY <1>1 DEF PurchaseInv, OutTypes
      <3> QED
        BY <1>1, <3>1 DEF PurchaseInv, DeliveredOnce
    <2> QED
      BY <2>2, <2>3 DEF GoodsFollowAcceptance, IsLogged
  <1> QED
    BY <1>1, PurchaseInvariance, PTL

\* The charge of a purchase is above zero and at most the price it was quoted,
\* although the accepted total is read several awaits before admit_claim.
THEOREM NobodyIsOvercharged == Spec => []ChargedAtMostTheQuote
  <1>1. PurchaseInv => ChargedAtMostTheQuote
    BY DEF PurchaseInv
  <1> QED
    BY <1>1, PurchaseInvariance, PTL

\* The purchases made or under way on approvals of one agent, resource and
\* price never outnumber the approvals consumed for them (consume_approval).
THEOREM ApprovalsAreSpentOnce == Spec => []ApprovalSpentOnce
  <1>1. PurchaseInv => ApprovalSpentOnce
    BY DEF PurchaseInv
  <1> QED
    BY <1>1, PurchaseInvariance, PTL

\* The approvals pending for one ask, with those about to be raised, never
\* outnumber the handlers (has_pending_approval, then create_approval).
THEOREM QueueStaysBounded == Spec => []QueueIsNotFlooded
  <1>1. PurchaseInv => QueueIsNotFlooded
    BY DEF PurchaseInv
  <1> QED
    BY <1>1, PurchaseInvariance, PTL

\* Every step of the paid path is a step of the store or leaves it alone, so
\* that what ClaimStoreProofs proves of the store holds under purchases.
THEOREM PurchasesUseStore == Spec => StoreSpec
  <1>1. Init => StoreInit
    BY DEF Init
  <1>2. ASSUME PurchaseInv, [Next]_vars PROVE [StoreNext]_storeVars
    <2>1. ASSUME NEW w \in Workers, BuyAdmit(w) PROVE [StoreNext]_storeVars
      BY <1>2, <2>1, AdmitUsesStore
    <2>2. CASE Elsewhere
      BY <2>2, ElsewhereUsesStore
    <2>3. CASE \E w \in Workers, c \in Claims, resource \in Resources,
                  t \in Times : BuyQuote(w, c, resource, t)
      BY <2>3 DEF BuyQuote
    <2>4. ASSUME NEW w \in Workers,
                 \/ BuyRecord(w) \/ BuyAgent(w) \/ BuySpend(w) \/ BuyConsume(w)
                 \/ BuyPending(w) \/ BuyRaise(w) \/ BuyForward(w) \/ Abandon(w)
          PROVE  UNCHANGED storeVars
      BY <2>4 DEF BuyRecord, BuyAgent, BuySpend, BuyConsume, BuyPending, BuyRaise,
                  BuyForward, Abandon
    <2>5. CASE \/ \E resource \in Resources, cost \in Prices :
                      Relist(resource, cost)
               \/ \E k \in AgentKeys, mode \in Modes :
                      \/ CreateAgent(k, mode)
                      \/ \E p \in Policies : AuthorizeAgent(k, mode, p)
               \/ \E k \in AgentKeys, status \in Statuses :
                      SetAgentStatus(k, status)
               \/ \E k \in Asks : DecideApproval(k)
      BY <2>5 DEF Relist, CreateAgent, AuthorizeAgent, SetAgentStatus, DecideApproval
    <2>6. CASE UNCHANGED vars
      BY <2>6 DEF vars, storeVars
    <2> QED
      BY <1>2, <2>1, <2>2, <2>3, <2>4, <2>5, <2>6 DEF Next
  <1> QED
    BY <1>1, <1>2, PurchaseInvariance, PTL DEF Spec, StoreSpec
=============================================================================
