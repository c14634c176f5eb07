-------------------------- MODULE ClaimStoreProofs --------------------------
(***************************************************************************)
(* Proofs about ClaimStore, for every set of rows, claims and instants.    *)
(***************************************************************************)
EXTENDS ClaimStore, TLAPS

\* Every accepted entry is at most the ticket, in amount and in nonce.  The
\* rule compares a claim with the ticket alone; this makes it higher than the
\* whole log.
MarkCoversLog ==
    \A s \in Rows : \A i \in Allowed(s) :
        /\ ticket[s].exists
        /\ log[s][i].cumulative <= ticket[s].cumulative
        /\ log[s][i].nonce <= ticket[s].nonce

\* A ticket and a log belong to a row that exists.
OnlyKnownRows ==
    \A s \in Rows : ~ row[s].known => ticket[s] = NoTicket /\ log[s] = << >>

\* The inductive invariant.
StoreInv ==
    /\ StoreTypeOK
    /\ OnlyKnownRows
    /\ MarkCoversLog
    /\ AllowedEntriesClimb
    /\ MarkIsLastAllowed

-----------------------------------------------------------------------------
\* An entry of a recorded decision has the type of the log's entries.
LEMMA EntryType ==
    ASSUME NEW c \in ClaimTypes, NEW d \in Decisions
    PROVE  Entry(d, c) \in Entries
  BY StoreAssumption DEF Entry, Entries, Clamp, ClaimTypes

\* The verdict on a claim is acceptance or one of the refusals.
LEMMA VerdictType ==
    ASSUME NEW r, NEW k, NEW c, NEW t
    PROVE  EvaluateClaim(r, k, c, t) \in {"Allowed"} \cup Refusals
  BY DEF EvaluateClaim, Refusals

\* What acceptance says: the claim is above the ticket, its nonce is fresh, and
\* it is within the deposit.
LEMMA AllowedMeans ==
    ASSUME NEW r, NEW k, NEW c, NEW t,
           EvaluateClaim(r, k, c, t) = "Allowed"
    PROVE  Forward(k, c) /\ FreshNonce(k, c) /\ ~ r.settled
           /\ ~ (c.cumulative > r.deposited_total)
  BY DEF EvaluateClaim

\* Appending one entry: the old positions keep their entry, and exactly one
\* position, the last, is new.
LEMMA AppendPositions ==
    ASSUME NEW S, NEW l \in Seq(S), NEW e \in S
    PROVE  /\ Append(l, e) \in Seq(S)
           /\ DOMAIN Append(l, e) = DOMAIN l \cup {Len(l) + 1}
           /\ \A i \in DOMAIN l :
                 Append(l, e)[i] = l[i] /\ i \in Nat /\ i < Len(l) + 1
           /\ Append(l, e)[Len(l) + 1] = e
           /\ Len(l) + 1 \in Nat /\ Len(l) + 1 \notin DOMAIN l
  OBVIOUS

\* The empty store satisfies StoreInv.
LEMMA StoreInitInv == StoreInit => StoreInv
  <1> SUFFICES ASSUME StoreInit PROVE StoreInv
    OBVIOUS
  <1>1. \A s \in Rows : log[s] = << >> /\ ticket[s] = NoTicket /\ row[s] = NoRow
    BY DEF StoreInit
  <1>2. StoreTypeOK
    BY DEF StoreInit, StoreTypeOK
  <1>3. \A s \in Rows : Allowed(s) = {}
    <2>1. DOMAIN << >> = {}
      OBVIOUS
    <2>2. ASSUME NEW s \in Rows, NEW i \in Allowed(s) PROVE FALSE
      BY <1>1, <2>1 DEF Allowed
    <2> QED
      BY <2>2
  <1>4. OnlyKnownRows /\ MarkCoversLog /\ AllowedEntriesClimb
    BY <1>1, <1>3 DEF OnlyKnownRows, MarkCoversLog, AllowedEntriesClimb
  <1>5. MarkIsLastAllowed
    <2>0. NoTicket.exists = FALSE
      BY DEF NoTicket
    <2>1. \A s \in Rows : ticket[s].exists = FALSE
      BY <1>1, <2>0
    <2> QED
      BY <2>1, <1>3 DEF MarkIsLastAllowed
  <1> QED
    BY <1>2, <1>4, <1>5 DEF StoreInv

\* Accepting a claim preserves StoreInv: the new entry is above the ticket,
\* hence above every accepted entry, and the ticket becomes the new entry.
LEMMA AcceptInv ==
    ASSUME StoreInv, NEW c \in ClaimTypes, NEW t, AcceptClaim(c, t)
    PROVE  StoreInv'
  <1> DEFINE s == c.session
             e == Entry("Allowed", c)
             n == Len(log[s]) + 1
  <1>1. s \in Rows /\ c.cumulative \in Nat /\ c.nonce \in Nat /\ c.expires \in Int
    BY DEF ClaimTypes
  <1>2. /\ row' = row
        /\ log'[s] = Append(log[s], e)
        /\ ticket'[s] = TicketOf(c)
        /\ \A r \in Rows : r # s => log'[r] = log[r] /\ ticket'[r] = ticket[r]
    BY <1>1 DEF AcceptClaim, StoreInv, StoreTypeOK
  <1>3. e \in Entries /\ log[s] \in Seq(Entries)
    BY <1>1, EntryType DEF Decisions, StoreInv, StoreTypeOK
  <1>4. e.decision = "Allowed" /\ e.cumulative = c.cumulative /\ e.nonce = c.nonce
    BY <1>1, StoreAssumption DEF AcceptClaim, Storable, Entry, Clamp
  <1>5. /\ Forward(ticket[s], c) /\ FreshNonce(ticket[s], c)
        /\ ~ (c.cumulative > row[s].deposited_total)
        /\ row[s].known
    BY AllowedMeans DEF AcceptClaim
  <1>6. TicketOf(c) \in Tickets
    BY <1>1 DEF TicketOf, Tickets
  <1> HIDE DEF s, e, n
  <1>7. StoreTypeOK'
    <2>1. log' \in [Rows -> Seq(Entries)]
      <3>1. log' = [log EXCEPT ![s] = Append(log[s], e)]
        BY DEF AcceptClaim, s, e
      <3> QED
        BY <3>1, <1>1, <1>3, AppendPositions DEF StoreInv, StoreTypeOK
    <2>2. ticket' \in [Rows -> {NoTicket} \cup Tickets]
      <3>1. ticket' = [ticket EXCEPT ![s] = TicketOf(c)]
        BY DEF AcceptClaim, s
      <3> QED
        BY <3>1, <1>1, <1>6 DEF StoreInv, StoreTypeOK
    <2> QED
      BY <2>1, <2>2, <1>2 DEF StoreInv, StoreTypeOK
  <1>8. /\ Allowed(s)' = Allowed(s) \cup {n}
        /\ \A i \in Allowed(s) : log'[s][i] = log[s][i] /\ i \in Nat /\ i < n
        /\ log'[s][n] = e /\ n \in Nat
    <2>1. /\ DOMAIN log'[s] = DOMAIN log[s] \cup {n}
          /\ \A i \in DOMAIN log[s] :
                 log'[s][i] = log[s][i] /\ i \in Nat /\ i < n
          /\ log'[s][n] = e /\ n \in Nat
      BY <1>2, <1>3, AppendPositions DEF n
    <2> QED
      BY <2>1, <1>4 DEF Allowed
  <1>9. \A r \in Rows : r # s => Allowed(r)' = Allowed(r)
    BY <1>2 DEF Allowed
  <1>10. \A i \in Allowed(s) :
             /\ log[s][i].cumulative < c.cumulative
             /\ log[s][i].nonce < c.nonce
    <2> SUFFICES ASSUME NEW i \in Allowed(s)
                 PROVE  /\ log[s][i].cumulative < c.cumulative
                        /\ log[s][i].nonce < c.nonce
      OBVIOUS
    <2>1. /\ ticket[s].exists
          /\ log[s][i].cumulative <= ticket[s].cumulative
          /\ log[s][i].nonce <= ticket[s].nonce
      BY <1>1 DEF StoreInv, MarkCoversLog
    <2>2. log[s][i] \in Entries
      BY <1>3 DEF Allowed
    <2>3. ticket[s] \in Tickets
      BY <1>1, <2>1 DEF StoreInv, StoreTypeOK, NoTicket
    <2>4. /\ log[s][i].cumulative \in Nat /\ log[s][i].nonce \in Nat
          /\ ticket[s].cumulative \in Nat /\ ticket[s].nonce \in Nat
      BY <2>2, <2>3 DEF Entries, Tickets
    <2>5. c.cumulative > ticket[s].cumulative
      BY <1>5 DEF Forward
    <2>6. c.nonce > ticket[s].nonce
      BY <1>5, <2>1 DEF FreshNonce
    <2>7. log[s][i].cumulative < c.cumulative
      BY <1>1, <2>1, <2>4, <2>5
    <2>8. log[s][i].nonce < c.nonce
      BY <1>1, <2>1, <2>4, <2>6
    <2> QED
      BY <2>7, <2>8
  <1>11. /\ ticket'[s].exists = TRUE
         /\ ticket'[s].cumulative = c.cumulative
         /\ ticket'[s].nonce = c.nonce
    BY <1>2 DEF TicketOf
  <1>12. OnlyKnownRows'
    BY <1>2, <1>5 DEF StoreInv, OnlyKnownRows
  <1>13. MarkCoversLog'
    <2> SUFFICES ASSUME NEW r \in Rows, NEW i \in Allowed(r)'
                 PROVE  /\ ticket'[r].exists
                        /\ log'[r][i].cumulative <= ticket'[r].cumulative
                        /\ log'[r][i].nonce <= ticket'[r].nonce
      BY DEF MarkCoversLog
    <2>1. CASE r # s
      BY <2>1, <1>2, <1>9 DEF StoreInv, MarkCoversLog
    <2>2. CASE r = s /\ i = n
      BY <2>2, <1>1, <1>4, <1>8, <1>11
    <2>3. CASE r = s /\ i \in Allowed(s)
      <3>1. log[s][i] \in Entries
        BY <2>3, <1>3 DEF Allowed
      <3> QED
        BY <2>3, <3>1, <1>1, <1>8, <1>10, <1>11 DEF Entries
    <2> QED
      BY <2>1, <2>2, <2>3, <1>8
  <1>14. AllowedEntriesClimb'
    <2> SUFFICES ASSUME NEW r \in Rows, NEW i \in Allowed(r)',
                        NEW j \in Allowed(r)', i < j
                 PROVE  /\ log'[r][i].cumulative < log'[r][j].cumulative
                        /\ log'[r][i].nonce < log'[r][j].nonce
      BY DEF AllowedEntriesClimb
    <2>1. CASE r # s
      BY <2>1, <1>2, <1>9 DEF StoreInv, AllowedEntriesClimb
    <2>2. CASE r = s /\ i \in Allowed(s) /\ j \in Allowed(s)
      BY <2>2, <1>8 DEF StoreInv, AllowedEntriesClimb
    <2>3. CASE r = s /\ i \in Allowed(s) /\ j = n
      BY <2>3, <1>4, <1>8, <1>10
    <2>4. CASE r = s /\ i = n
      BY <2>4, <1>8
    <2> QED
      BY <2>1, <2>2, <2>3, <2>4, <1>8
  <1>15. MarkIsLastAllowed'
    <2> SUFFICES ASSUME NEW r \in Rows
                 PROVE  (/\ ticket[r].exists <=> Allowed(r) # {}
                         /\ ticket[r].exists =>
                                /\ ticket[r].cumulative <= row[r].deposited_total
                                /\ \E i \in Allowed(r) :
                                       /\ \A j \in Allowed(r) : j <= i
                                       /\ log[r][i].cumulative = ticket[r].cumulative
                                       /\ log[r][i].nonce = ticket[r].nonce)'
      BY DEF MarkIsLastAllowed
    <2>1. CASE r # s
      BY <2>1, <1>2, <1>9 DEF StoreInv, MarkIsLastAllowed
    <2>2. CASE r = s
      <3>1. row[s].deposited_total \in Nat
        BY <1>1, <1>5 DEF StoreInv, StoreTypeOK, SessionRows, NoRow
      <3>2. c.cumulative <= row[s].deposited_total
        BY <3>1, <1>1, <1>5
      <3>3. \A j \in Allowed(s)' : j <= n
        BY <1>8
      <3> QED
        BY <2>2, <3>2, <3>3, <1>2, <1>4, <1>8, <1>11
    <2> QED
      BY <2>1, <2>2
  <1> QED
    BY <1>7, <1>12, <1>13, <1>14, <1>15 DEF StoreInv

\* Refusing a claim preserves StoreInv: the new entry is not an accepted one,
\* so the accepted entries, and the ticket they explain, stay what they were.
LEMMA RefuseInv ==
    ASSUME StoreInv, NEW c \in ClaimTypes, NEW t, RefuseClaim(c, t)
    PROVE  StoreInv'
  <1> DEFINE s == c.session
             d == EvaluateClaim(row[s], ticket[s], c, t)
             e == Entry(d, c)
  <1>1. s \in Rows
    BY DEF ClaimTypes
  <1>2. d \in Decisions /\ d # "Allowed"
    BY VerdictType DEF RefuseClaim, Recorded, Decisions, Refusals
  <1> HIDE DEF d
  <1>3. e \in Entries /\ e.decision # "Allowed"
    BY <1>2, EntryType DEF Entry
  <1>4. /\ row' = row /\ ticket' = ticket /\ row[s].known
        /\ log' = [log EXCEPT ![s] = Append(log[s], e)]
    BY DEF RefuseClaim, d
  <1> HIDE DEF s, e
  <1>5. log \in [Rows -> Seq(Entries)] /\ log[s] \in Seq(Entries)
    BY <1>1 DEF StoreInv, StoreTypeOK
  <1>6. /\ log' \in [Rows -> Seq(Entries)]
        /\ log'[s] = Append(log[s], e)
        /\ \A r \in Rows : r # s => log'[r] = log[r]
    BY <1>1, <1>3, <1>4, <1>5, AppendPositions
  <1>7. Allowed(s)' = Allowed(s) /\ \A i \in Allowed(s) : log'[s][i] = log[s][i]
    <2>1. /\ DOMAIN log'[s] = DOMAIN log[s] \cup {Len(log[s]) + 1}
          /\ \A i \in DOMAIN log[s] : log'[s][i] = log[s][i]
          /\ log'[s][Len(log[s]) + 1] = e
      BY <1>3, <1>5, <1>6, AppendPositions
    <2> QED
      BY <2>1, <1>3 DEF Allowed
  <1>8. \A r \in Rows : /\ Allowed(r)' = Allowed(r)
                        /\ \A i \in Allowed(r) : log'[r][i] = log[r][i]
    BY <1>6, <1>7 DEF Allowed
  <1>9. StoreTypeOK'
    BY <1>4, <1>6 DEF StoreInv, StoreTypeOK
  <1>10. OnlyKnownRows'
    BY <1>4, <1>6 DEF StoreInv, OnlyKnownRows
  <1>11. MarkCoversLog'
    BY <1>4, <1>8 DEF StoreInv, MarkCoversLog
  <1>12. AllowedEntriesClimb'
    BY <1>8 DEF StoreInv, AllowedEntriesClimb
  <1>13. MarkIsLastAllowed'
    <2> SUFFICES ASSUME NEW r \in Rows
                 PROVE  (/\ ticket[r].exists <=> Allowed(r) # {}
                         /\ ticket[r].exists =>
                                /\ ticket[r].cumulative <= row[r].deposited_total
                                /\ \E i \in Allowed(r) :
                                       /\ \A j \in Allowed(r) : j <= i
                                       /\ log[r][i].cumulative = ticket[r].cumulative
                                       /\ log[r][i].nonce = ticket[r].nonce)'
      BY DEF MarkIsLastAllowed
    <2>1. ticket[r].exists <=> Allowed(r) # {}
      BY DEF StoreInv, MarkIsLastAllowed
    <2>2. ASSUME ticket[r].exists
          PROVE  ticket[r].cumulative <= row[r].deposited_total
      BY <2>2 DEF StoreInv, MarkIsLastAllowed
    <2>3. ASSUME ticket[r].exists
          PROVE  \E i \in Allowed(r)' :
                     /\ \A j \in Allowed(r)' : j <= i
                     /\ log'[r][i].cumulative = ticket[r].cumulative
                     /\ log'[r][i].nonce = ticket[r].nonce
      <3>1. PICK i \in Allowed(r) :
                     /\ \A j \in Allowed(r) : j <= i
                     /\ log[r][i].cumulative = ticket[r].cumulative
                     /\ log[r][i].nonce = ticket[r].nonce
        BY <2>3 DEF StoreInv, MarkIsLastAllowed
      <3> QED
        BY <3>1, <1>8
    <2>4. Allowed(r)' = Allowed(r)
      BY <1>8
    <2> QED
      BY <2>1, <2>2, <2>3, <2>4, <1>4
  <1> QED
    BY <1>9, <1>10, <1>11, <1>12, <1>13 DEF StoreInv

\* Opening a row preserves StoreInv: an unknown key has neither ticket nor log.
LEMMA OpenRowInv ==
    ASSUME StoreInv, NEW s \in Rows, NEW agent \in AgentKeys,
           NEW deposit \in Amounts, NEW expires \in Expiries,
           NEW verified \in BOOLEAN,
           OpenRow(s, agent, deposit, expires, verified)
    PROVE  StoreInv'
  <1> DEFINE r0 == [known |-> TRUE, agent |-> agent,
                    deposited_total |-> deposit, expires_at |-> expires,
                    settled |-> FALSE, chain_verified |-> verified]
  <1>1. r0 \in SessionRows
    BY StoreAssumption DEF SessionRows
  <1>2. /\ row' = [row EXCEPT ![s] = r0]
        /\ ticket' = ticket /\ log' = log /\ ~ row[s].known
    BY DEF OpenRow
  <1>3. r0.known = TRUE
    OBVIOUS
  <1> HIDE DEF r0
  <1>4. row \in [Rows -> {NoRow} \cup SessionRows]
    BY DEF StoreInv, StoreTypeOK
  <1>5. /\ row' \in [Rows -> {NoRow} \cup SessionRows]
        /\ row'[s] = r0
        /\ \A r \in Rows : r # s => row'[r] = row[r]
    BY <1>1, <1>2, <1>4
  <1>6. \A r \in Rows : Allowed(r)' = Allowed(r)
    BY <1>2 DEF Allowed
  <1>7. ticket[s].exists = FALSE
    <2>1. NoTicket.exists = FALSE
      BY DEF NoTicket
    <2> QED
      BY <1>2, <2>1 DEF StoreInv, OnlyKnownRows
  <1>8. StoreTypeOK'
    BY <1>2, <1>5 DEF StoreInv, StoreTypeOK
  <1>9. OnlyKnownRows'
    BY <1>2, <1>3, <1>5 DEF StoreInv, OnlyKnownRows
  <1>10. MarkCoversLog' /\ AllowedEntriesClimb'
    BY <1>2, <1>6 DEF StoreInv, MarkCoversLog, AllowedEntriesClimb
  <1>11. MarkIsLastAllowed'
    BY <1>2, <1>5, <1>6, <1>7 DEF StoreInv, MarkIsLastAllowed
  <1> QED
    BY <1>8, <1>9, <1>10, <1>11 DEF StoreInv

\* Setting a flag of a known row preserves StoreInv: neither flag takes part in
\* what the log and the ticket say of each other.
LEMMA FlagInv ==
    ASSUME StoreInv, NEW s \in Rows, row[s].known,
           row' \in [Rows -> {NoRow} \cup SessionRows],
           row'[s].known, row'[s].deposited_total = row[s].deposited_total,
           \A r \in Rows : r # s => row'[r] = row[r],
           ticket' = ticket, log' = log
    PROVE  StoreInv'
  <1>1. \A r \in Rows : Allowed(r)' = Allowed(r)
    BY DEF Allowed
  <1>2. \A r \in Rows : row'[r].deposited_total = row[r].deposited_total
    OBVIOUS
  <1>3. StoreTypeOK'
    BY DEF StoreInv, StoreTypeOK
  <1>4. OnlyKnownRows'
    BY DEF StoreInv, OnlyKnownRows
  <1>5. MarkCoversLog' /\ AllowedEntriesClimb'
    BY <1>1 DEF StoreInv, MarkCoversLog, AllowedEntriesClimb
  <1>6. MarkIsLastAllowed'
    BY <1>1, <1>2 DEF StoreInv, MarkIsLastAllowed
  <1> QED
    BY <1>3, <1>4, <1>5, <1>6 DEF StoreInv

\* A known row is a session row, not the absence of one.
LEMMA KnownRow ==
    ASSUME StoreInv, NEW s \in Rows, row[s].known
    PROVE  row[s] \in SessionRows
  <1>1. NoRow.known = FALSE
    BY DEF NoRow
  <1> QED
    BY <1>1 DEF StoreInv, StoreTypeOK

\* Marking a session settled preserves StoreInv.
LEMMA MarkSettledInv ==
    ASSUME StoreInv, NEW s \in Rows, MarkSettled(s)
    PROVE  StoreInv'
  <1>1. row[s] \in SessionRows /\ row[s].known
    BY KnownRow DEF MarkSettled
  <1>2. row \in [Rows -> {NoRow} \cup SessionRows]
    BY DEF StoreInv, StoreTypeOK
  <1> DEFINE r1 == [row[s] EXCEPT !.settled = TRUE]
  <1>3. r1 \in SessionRows /\ r1.known = row[s].known
        /\ r1.deposited_total = row[s].deposited_total
    BY <1>1 DEF SessionRows
  <1>4. row' = [row EXCEPT ![s] = r1] /\ ticket' = ticket /\ log' = log
    BY DEF MarkSettled
  <1> HIDE DEF r1
  <1>5. /\ row' \in [Rows -> {NoRow} \cup SessionRows]
        /\ row'[s] = r1
        /\ \A r \in Rows : r # s => row'[r] = row[r]
    BY <1>2, <1>3, <1>4
  <1> QED
    BY <1>1, <1>3, <1>4, <1>5, FlagInv

\* Marking a session chain-verified preserves StoreInv.
LEMMA MarkChainVerifiedInv ==
    ASSUME StoreInv, NEW s \in Rows, MarkChainVerified(s)
    PROVE  StoreInv'
  <1>1. row[s] \in SessionRows /\ row[s].known
    BY KnownRow DEF MarkChainVerified
  <1>2. row \in [Rows -> {NoRow} \cup SessionRows]
    BY DEF StoreInv, StoreTypeOK
  <1> DEFINE r1 == [row[s] EXCEPT !.chain_verified = TRUE]
  <1>3. r1 \in SessionRows /\ r1.known = row[s].known
        /\ r1.deposited_total = row[s].deposited_total
    BY <1>1 DEF SessionRows
  <1>4. row' = [row EXCEPT ![s] = r1] /\ ticket' = ticket /\ log' = log
    BY DEF MarkChainVerified
  <1> HIDE DEF r1
  <1>5. /\ row' \in [Rows -> {NoRow} \cup SessionRows]
        /\ row'[s] = r1
        /\ \A r \in Rows : r # s => row'[r] = row[r]
    BY <1>2, <1>3, <1>4
  <1> QED
    BY <1>1, <1>3, <1>4, <1>5, FlagInv

\* Every step of the store preserves StoreInv.
LEMMA StoreNextInv == StoreInv /\ [StoreNext]_storeVars => StoreInv'
  <1> SUFFICES ASSUME StoreInv, [StoreNext]_storeVars PROVE StoreInv'
    OBVIOUS
  <1>1. ASSUME NEW s \in Rows, NEW agent \in AgentKeys, NEW deposit \in Amounts,
               NEW expires \in Expiries, NEW verified \in BOOLEAN,
               OpenRow(s, agent, deposit, expires, verified)
        PROVE  StoreInv'
    BY <1>1, OpenRowInv
  <1>2. ASSUME NEW c \in Claims, NEW t \in Times, AcceptClaim(c, t)
        PROVE  StoreInv'
    BY <1>2, AcceptInv, StoreAssumption
  <1>3. ASSUME NEW c \in Claims, NEW t \in Times, RefuseClaim(c, t)
        PROVE  StoreInv'
    BY <1>3, RefuseInv, StoreAssumption
  <1>4. ASSUME NEW s \in Rows, MarkSettled(s)
        PROVE  StoreInv'
    BY <1>4, MarkSettledInv
  <1>5. ASSUME NEW s \in Rows, MarkChainVerified(s)
        PROVE  StoreInv'
    BY <1>5, MarkChainVerifiedInv
  <1>6. CASE UNCHANGED storeVars
    <2>1. row' = row /\ ticket' = ticket /\ log' = log
      BY <1>6 DEF storeVars
    <2>2. \A s \in Rows : Allowed(s)' = Allowed(s)
      BY <2>1 DEF Allowed
    <2> QED
      BY <2>1, <2>2 DEF StoreInv, StoreTypeOK, OnlyKnownRows, MarkCoversLog,
                        AllowedEntriesClimb, MarkIsLastAllowed
  <1> QED
    BY <1>1, <1>2, <1>3, <1>4, <1>5, <1>6 DEF StoreNext

\* StoreInv holds in every reachable state of the store.
LEMMA StoreInvariance == StoreSpec => []StoreInv
  BY StoreInitInv, StoreNextInv, PTL DEF StoreSpec

\* A mark is a number, also where there is none yet.
LEMMA MarkValue ==
    ASSUME NEW k \in {NoTicket} \cup Tickets
    PROVE  k.cumulative \in Nat
  <1>1. NoTicket.cumulative = 0
    BY DEF NoTicket
  <1>2. \A j \in Tickets : j.cumulative \in Nat
    BY DEF Tickets
  <1> QED
    BY <1>1, <1>2

LEMMA MarkIsNat ==
    ASSUME StoreInv, NEW s \in Rows
    PROVE  ticket[s].cumulative \in Nat
  BY MarkValue DEF StoreInv, StoreTypeOK

\* No step of the store lowers a mark.
LEMMA MarkNeverFalls ==
    ASSUME StoreInv, StoreInv', StoreNext, NEW s \in Rows
    PROVE  ticket[s].cumulative <= ticket'[s].cumulative
  <1>1. ticket[s].cumulative \in Nat
    BY MarkIsNat
  <1>2. ASSUME NEW c \in Claims, NEW t \in Times, AcceptClaim(c, t)
        PROVE  ticket[s].cumulative <= ticket'[s].cumulative
    <2>1. c \in ClaimTypes
      BY <1>2, StoreAssumption
    <2>2. c.session \in Rows /\ c.cumulative \in Nat
      BY <2>1 DEF ClaimTypes
    <2>3. Forward(ticket[c.session], c)
      BY <1>2, AllowedMeans DEF AcceptClaim
    <2>4. ticket' = [ticket EXCEPT ![c.session] = TicketOf(c)]
      BY <1>2 DEF AcceptClaim
    <2>5. ticket'[s] = IF s = c.session THEN TicketOf(c) ELSE ticket[s]
      BY <2>2, <2>4 DEF StoreInv, StoreTypeOK
    <2>6. TicketOf(c).cumulative = c.cumulative
      BY DEF TicketOf
    <2>7. CASE s = c.session
      BY <2>7, <2>2, <2>3, <2>5, <2>6, <1>1 DEF Forward
    <2>8. CASE s # c.session
      BY <2>8, <2>5, <1>1
    <2> QED
      BY <2>7, <2>8
  <1>3. ASSUME ticket' = ticket PROVE ticket[s].cumulative <= ticket'[s].cumulative
    BY <1>1, <1>3
  <1> QED
    BY <1>2, <1>3 DEF StoreNext, OpenRow, RefuseClaim, MarkSettled, MarkChainVerified

-----------------------------------------------------------------------------
\* The tables always hold values of their columns (db.rs), whatever is opened,
\* presented, refused or settled.
THEOREM StoreTypes == StoreSpec => []StoreTypeOK
  <1>1. StoreInv => StoreTypeOK
    BY DEF StoreInv
  <1> QED
    BY <1>1, StoreInvariance, PTL

\* Accepted claims of a session climb strictly in amount and in nonce along the
\* whole evidence log, although evaluate_claim looks at the last one only.
THEOREM AcceptedClaimsClimb == StoreSpec => []AllowedEntriesClimb
  <1>1. StoreInv => AllowedEntriesClimb
    BY DEF StoreInv
  <1> QED
    BY <1>1, StoreInvariance, PTL

\* The high-water mark of claim_tickets is always the last accepted entry of
\* the evidence log, and is covered by the deposit.
THEOREM MarkIsExplained == StoreSpec => []MarkIsLastAllowed
  <1>1. StoreInv => MarkIsLastAllowed
    BY DEF StoreInv
  <1> QED
    BY <1>1, StoreInvariance, PTL

\* No step of the store moves the log or the mark of a settled session, or
\* takes the settled flag back.
THEOREM SettledIsFrozen == StoreSpec => SettledLogFrozen
  <1> DEFINE Frozen ==
        \A s \in Rows : row[s].known /\ row[s].settled =>
            /\ row'[s].known /\ row'[s].settled
            /\ log'[s] = log[s]
            /\ ticket'[s] = ticket[s]
  <1>1. ASSUME StoreInv, [StoreNext]_storeVars PROVE [Frozen]_storeVars
    <2> SUFFICES ASSUME StoreNext, NEW s \in Rows, row[s].known, row[s].settled
                 PROVE  /\ row'[s].known /\ row'[s].settled
                        /\ log'[s] = log[s] /\ ticket'[s] = ticket[s]
      BY <1>1
    <2>1. row \in [Rows -> {NoRow} \cup SessionRows] /\ row[s] \in SessionRows
      BY <1>1, KnownRow DEF StoreInv, StoreTypeOK
    <2>2. log \in [Rows -> Seq(Entries)]
          /\ ticket \in [Rows -> {NoTicket} \cup Tickets]
      BY <1>1 DEF StoreInv, StoreTypeOK
    <2>3. ASSUME NEW r \in Rows, NEW agent \in AgentKeys,
                 NEW deposit \in Amounts, NEW expires \in Expiries,
                 NEW verified \in BOOLEAN,
                 OpenRow(r, agent, deposit, expires, verified)
          PROVE  row'[s] = row[s] /\ log' = log /\ ticket' = ticket
      BY <2>3, <2>1 DEF OpenRow
    <2>4. ASSUME NEW c \in Claims, NEW t \in Times,
                 AcceptClaim(c, t) \/ RefuseClaim(c, t)
          PROVE  row' = row /\ log'[s] = log[s] /\ ticket'[s] = ticket[s]
      <3>1. c.session \in Rows
        BY StoreAssumption DEF ClaimTypes
      <3>2. c.session # s
        BY <2>4 DEF AcceptClaim, RefuseClaim, EvaluateClaim, Recorded
      <3> QED
        BY <2>2, <2>4, <3>1, <3>2 DEF AcceptClaim, RefuseClaim
    <2>5. ASSUME NEW r \in Rows, MarkSettled(r)
          PROVE  row'[s] = row[s] /\ log' = log /\ ticket' = ticket
      BY <2>5, <2>1 DEF MarkSettled
    <2>6. ASSUME NEW r \in Rows, MarkChainVerified(r)
          PROVE  /\ row'[s].known = row[s].known
                 /\ row'[s].settled = row[s].settled
                 /\ log' = log /\ ticket' = ticket
      BY <2>6, <2>1 DEF MarkChainVerified, SessionRows
    <2> QED
      BY <2>3, <2>4, <2>5, <2>6 DEF StoreNext
  <1>2. [][Frozen]_storeVars <=> SettledLogFrozen
    BY DEF SettledLogFrozen
  <1> HIDE DEF Frozen
  <1> QED
    BY <1>1, <1>2, StoreInvariance, PTL DEF StoreSpec
=============================================================================
