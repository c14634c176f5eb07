--------------------------- MODULE GatewayProofs ----------------------------
(***************************************************************************)
(* Proofs about the on-chain program and about the gateway in front of it, *)
(* for any parties, deposits, claims and expiries, any length of the clock *)
(* and of the logs, and any number of settlement handlers.  The theorems   *)
(* about the program come first: the gateway has the program's state among *)
(* its own, and its invariant builds on the program's.                     *)
(***************************************************************************)
EXTENDS Gateway, TLAPS

-----------------------------------------------------------------------------
(***************************************************************************)
(* The on-chain program.                                                   *)
(***************************************************************************)

\* An address at which open_session has not run holds nothing, and a session
\* that was never settled has paid nothing.
Fresh ==
    \A s \in Sessions :
        /\ ~ session[s].open => session[s] = NoSession
        /\ ~ session[s].is_settled => session[s].cumulative_settled = 0

\* A refund empties the books of the session, and happens only after a
\* settlement or after the window.
RefundCloses ==
    \A s \in Sessions : session[s].refunded_total > 0 =>
        /\ session[s].cumulative_settled + session[s].refunded_total
               = session[s].deposited_total
        /\ session[s].is_settled \/ Expired(s)

\* The inductive invariant.
EscrowInv ==
    /\ EscrowTypeOK
    /\ VaultMatchesBooks
    /\ Fresh
    /\ RefundCloses
    /\ PaidOnlyWhatTheAgentSigned
    /\ ReceiptMatchesSession

-----------------------------------------------------------------------------
\* An uninitialised address holds a value of the account type.
LEMMA NoSessionType == NoSession \in SessionAccounts
  BY DEF NoSession, SessionAccounts

\* The initial state, with no account and no signature, satisfies EscrowInv.
LEMMA InitInv == EscrowInit => EscrowInv
  <1> SUFFICES ASSUME EscrowInit PROVE EscrowInv
    OBVIOUS
  <1>1. EscrowTypeOK
    BY ConstantsAssumption, NoSessionType
       DEF EscrowInit, EscrowTypeOK
  <1>2. VaultMatchesBooks /\ Fresh /\ RefundCloses
    BY DEF EscrowInit, VaultMatchesBooks, Fresh, RefundCloses, NoSession
  <1>3. PaidOnlyWhatTheAgentSigned /\ ReceiptMatchesSession
    BY DEF EscrowInit, PaidOnlyWhatTheAgentSigned, ReceiptMatchesSession,
           NoSession, NoRecord
  <1> QED
    BY <1>1, <1>2, <1>3 DEF EscrowInv

\* open_session preserves EscrowInv.
LEMMA OpenInv ==
  ASSUME EscrowInv, NEW s \in Sessions,
         NEW authority \in Authorities \cup {NoAuthority},
         NEW amount \in Deposits, NEW expires \in Expiries,
         OpenSession(s, authority, amount, expires)
  PROVE  EscrowInv'
  <1> USE DEF EscrowInv
  <1> DEFINE acc == [NoSession EXCEPT !.open = TRUE,
                                      !.settlement_authority = authority,
                                      !.deposited_total = amount,
                                      !.expires_at = expires]
  <1>a. /\ amount \in Nat /\ amount > 0 /\ expires \in Int
        /\ s.agent \in Agents \cup Providers
    BY ConstantsAssumption DEF OpenSession, Sessions
  <1>b. /\ acc \in SessionAccounts
        /\ acc.open /\ ~ acc.is_settled
        /\ acc.deposited_total = amount
        /\ acc.cumulative_settled = 0 /\ acc.refunded_total = 0
    BY <1>a DEF NoSession, SessionAccounts
  <1>c. session[s] = NoSession
    BY DEF OpenSession, Fresh
  <1>d. vault[s] = 0 /\ ~ NoSession.is_settled
        /\ NoSession.cumulative_settled = 0
    BY <1>c DEF VaultMatchesBooks, NoSession
  <1>e. /\ session' = [session EXCEPT ![s] = acc]
        /\ vault' = [vault EXCEPT ![s] = @ + amount]
        /\ wallet' = [wallet EXCEPT ![s.agent] = @ - amount]
        /\ wallet[s.agent] >= amount
        /\ UNCHANGED <<now, record, signed>>
    BY DEF OpenSession
  <1> HIDE DEF acc
  <1>f. /\ session'[s] = acc /\ vault'[s] = amount
        /\ \A t \in Sessions : t # s => /\ session'[t] = session[t]
                                        /\ vault'[t] = vault[t]
    BY <1>a, <1>d, <1>e DEF EscrowTypeOK
  <1>1. EscrowTypeOK'
    BY <1>a, <1>b, <1>e DEF EscrowTypeOK
  <1>2. VaultMatchesBooks'
    BY <1>a, <1>b, <1>f DEF VaultMatchesBooks
  <1>3. Fresh'
    BY <1>b, <1>f DEF Fresh
  <1>4. RefundCloses'
    BY <1>b, <1>e, <1>f DEF RefundCloses, Expired
  <1>5. PaidOnlyWhatTheAgentSigned'
    BY <1>b, <1>e, <1>f DEF PaidOnlyWhatTheAgentSigned
  <1>6. ReceiptMatchesSession'
    BY <1>b, <1>c, <1>d, <1>e, <1>f DEF ReceiptMatchesSession
  <1> QED
    BY <1>1, <1>2, <1>3, <1>4, <1>5, <1>6

\* settle_session preserves EscrowInv: the delta it moves is the difference it
\* books, and the claim it books is one the agent signed.
LEMMA SettleInv ==
  ASSUME EscrowInv, NEW s \in Sessions, NEW settler \in Keys,
         NEW x \in signed, NEW root \in Roots,
         SettleSession(s, settler, x.msg, root)
  PROVE  EscrowInv'
  <1> USE DEF EscrowInv
  <1> DEFINE m == x.msg
             acc == [session[s] EXCEPT !.cumulative_settled = m.cumulative,
                                       !.is_settled = TRUE]
             claim == ExpectedClaim(s, m)
             rec == RecordAfter(s, claim, root)
             delta == m.cumulative - session[s].cumulative_settled
  <1>a. /\ m \in Messages /\ m.cumulative \in Nat
        /\ session[s] \in SessionAccounts
        /\ s.provider \in Agents \cup Providers
    BY ConstantsAssumption DEF EscrowTypeOK, Signatures, Messages, Sessions
  <1>b. /\ session[s].open
        /\ m.cumulative > session[s].cumulative_settled
        /\ m.cumulative <= session[s].deposited_total
        /\ m.cumulative + session[s].refunded_total
               <= session[s].deposited_total
        /\ [signer |-> s.agent, msg |-> claim] \in signed
        /\ vault[s] >= delta
    BY DEF SettleSession, PayoutAllowed, VerifyEd25519Claim, Delta
  <1>c. /\ session' = [session EXCEPT ![s] = acc]
        /\ record' = [record EXCEPT ![s] = rec]
        /\ vault' = [vault EXCEPT ![s] = @ - delta]
        /\ wallet' = [wallet EXCEPT ![s.provider] = @ + delta]
        /\ UNCHANGED <<now, signed>>
    BY <1>a DEF SettleSession, Delta, EscrowTypeOK, SessionAccounts
  <1>d. /\ acc \in SessionAccounts
        /\ acc.open = session[s].open /\ acc.is_settled
        /\ acc.deposited_total = session[s].deposited_total
        /\ acc.cumulative_settled = m.cumulative
        /\ acc.refunded_total = session[s].refunded_total
        /\ acc.expires_at = session[s].expires_at
    BY <1>a DEF SessionAccounts
  <1>e. /\ claim \in Messages /\ claim.session = s
        /\ claim.cumulative = m.cumulative
    BY <1>a DEF ExpectedClaim, Messages
  <1>f. /\ rec \in SettlementRecords
        /\ rec.exists /\ rec.settled_amount = m.cumulative
        /\ rec.claim = claim
    BY <1>a, <1>e DEF RecordAfter, SettlementRecords, EscrowTypeOK
  <1> HIDE DEF acc, claim, rec, m
  <1>g. /\ session'[s] = acc /\ record'[s] = rec
        /\ vault'[s] = vault[s] - delta
        /\ \A t \in Sessions : t # s => /\ session'[t] = session[t]
                                        /\ record'[t] = record[t]
                                        /\ vault'[t] = vault[t]
    BY <1>c DEF EscrowTypeOK
  <1>1. EscrowTypeOK'
    <2>1. delta \in Nat /\ vault[s] - delta \in Nat
      BY <1>a, <1>b DEF EscrowTypeOK, SessionAccounts
    <2> HIDE DEF delta
    <2> QED
      BY <1>a, <1>c, <1>d, <1>f, <2>1 DEF EscrowTypeOK
  <1>2. VaultMatchesBooks'
    BY <1>a, <1>d, <1>g DEF VaultMatchesBooks, SessionAccounts
  <1>3. Fresh'
    BY <1>b, <1>d, <1>g DEF Fresh
  <1>4. RefundCloses'
    <2>1. session[s].refunded_total = 0
      BY <1>a, <1>b DEF RefundCloses, SessionAccounts
    <2> QED
      BY <2>1, <1>c, <1>d, <1>g DEF RefundCloses, Expired
  <1>5. PaidOnlyWhatTheAgentSigned'
    <2>1. \E y \in signed : /\ y.signer = s.agent
                            /\ y.msg.session = s
                            /\ y.msg.cumulative = acc.cumulative_settled
      BY <1>b, <1>d, <1>e
    <2> QED
      BY <2>1, <1>c, <1>g DEF PaidOnlyWhatTheAgentSigned
  <1>6. ReceiptMatchesSession'
    BY <1>d, <1>e, <1>f, <1>g DEF ReceiptMatchesSession
  <1> QED
    BY <1>1, <1>2, <1>3, <1>4, <1>5, <1>6

\* refund_session preserves EscrowInv: it returns exactly what the books leave.
LEMMA RefundInv ==
  ASSUME EscrowInv, NEW s \in Sessions, NEW caller \in Keys,
         RefundSession(s, caller)
  PROVE  EscrowInv'
  <1> USE DEF EscrowInv
  <1> DEFINE rem == session[s].deposited_total
                        - session[s].cumulative_settled
                        - session[s].refunded_total
             acc == [session[s] EXCEPT
                        !.refunded_total = session[s].refunded_total + rem]
  <1>a. /\ session[s] \in SessionAccounts
        /\ s.agent \in Agents \cup Providers
    BY DEF EscrowTypeOK, Sessions
  <1>b. /\ session[s].open /\ rem > 0 /\ vault[s] = rem
        /\ session[s].is_settled \/ Expired(s)
    BY DEF RefundSession, MayRefund, Remaining, VaultMatchesBooks
  <1>c. /\ session' = [session EXCEPT ![s] = acc]
        /\ vault' = [vault EXCEPT ![s] = @ - rem]
        /\ wallet' = [wallet EXCEPT ![s.agent] = @ + rem]
        /\ UNCHANGED <<now, record, signed>>
    BY <1>a DEF RefundSession, Remaining, EscrowTypeOK, SessionAccounts
  <1>d. /\ acc \in SessionAccounts
        /\ acc.open = session[s].open /\ acc.is_settled = session[s].is_settled
        /\ acc.deposited_total = session[s].deposited_total
        /\ acc.cumulative_settled = session[s].cumulative_settled
        /\ acc.refunded_total = session[s].refunded_total + rem
        /\ acc.expires_at = session[s].expires_at
    <2>1. rem \in Nat /\ session[s].refunded_total + rem \in Nat
      BY <1>a, <1>b DEF SessionAccounts
    <2> HIDE DEF rem
    <2> QED
      BY <1>a, <2>1 DEF SessionAccounts
  <1> HIDE DEF acc
  <1>e. /\ session'[s] = acc /\ vault'[s] = 0
        /\ \A t \in Sessions : t # s => /\ session'[t] = session[t]
                                        /\ vault'[t] = vault[t]
    BY <1>a, <1>b, <1>c DEF EscrowTypeOK, SessionAccounts
  <1>1. EscrowTypeOK'
    <2>1. rem \in Nat
      BY <1>a, <1>b DEF SessionAccounts
    <2> HIDE DEF rem
    <2> QED
      BY <1>a, <1>b, <1>c, <1>d, <2>1 DEF EscrowTypeOK
  <1>2. VaultMatchesBooks'
    BY <1>a, <1>d, <1>e DEF VaultMatchesBooks, SessionAccounts
  <1>3. Fresh'
    BY <1>b, <1>d, <1>e DEF Fresh
  <1>4. RefundCloses'
    BY <1>a, <1>b, <1>c, <1>d, <1>e
       DEF RefundCloses, Expired, SessionAccounts
  <1>5. PaidOnlyWhatTheAgentSigned'
    BY <1>c, <1>d, <1>e DEF PaidOnlyWhatTheAgentSigned
  <1>6. ReceiptMatchesSession'
    BY <1>c, <1>d, <1>e DEF ReceiptMatchesSession
  <1> QED
    BY <1>1, <1>2, <1>3, <1>4, <1>5, <1>6

\* A new signature, a tick of the clock and a stuttering step preserve
\* EscrowInv.
LEMMA EnvironmentInv ==
  ASSUME EscrowInv,
         (\E x \in Signable : SignClaim(x)) \/ Tick \/ UNCHANGED chainVars
  PROVE  EscrowInv'
  <1> USE DEF EscrowInv
  <1>1. /\ UNCHANGED <<session, record, vault, wallet>>
        /\ signed \subseteq signed' /\ signed' \subseteq Signable
        /\ now' \in 0..MaxTime /\ now <= now'
    BY ConstantsAssumption DEF SignClaim, Tick, chainVars, EscrowTypeOK
  <1>2. EscrowTypeOK'
    BY <1>1 DEF EscrowTypeOK
  <1>3. VaultMatchesBooks' /\ Fresh' /\ ReceiptMatchesSession'
    BY <1>1 DEF VaultMatchesBooks, Fresh, ReceiptMatchesSession
  <1>4. RefundCloses'
    <2>1. \A s \in Sessions : Expired(s) => Expired(s)'
      BY <1>1, ConstantsAssumption
         DEF Expired, EscrowTypeOK, SessionAccounts
    <2> QED
      BY <1>1, <2>1 DEF RefundCloses
  <1>5. PaidOnlyWhatTheAgentSigned'
    BY <1>1 DEF PaidOnlyWhatTheAgentSigned
  <1> QED
    BY <1>2, <1>3, <1>4, <1>5

\* Every step of the program, and every step that changes nothing, preserves
\* EscrowInv.
LEMMA NextInv == EscrowInv /\ [EscrowNext]_chainVars => EscrowInv'
  <1> SUFFICES ASSUME EscrowInv, [EscrowNext]_chainVars PROVE EscrowInv'
    OBVIOUS
  <1>1. CASE \E s \in Sessions, authority \in Authorities \cup {NoAuthority},
                amount \in Deposits, expires \in Expiries :
                OpenSession(s, authority, amount, expires)
    BY <1>1, OpenInv
  <1>2. CASE \E s \in Sessions, settler \in Keys, x \in signed, root \in Roots :
                SettleSession(s, settler, x.msg, root)
    BY <1>2, SettleInv
  <1>3. CASE \E s \in Sessions, caller \in Keys : RefundSession(s, caller)
    BY <1>3, RefundInv
  <1>4. CASE (\E x \in Signable : SignClaim(x)) \/ Tick \/ UNCHANGED chainVars
    BY <1>4, EnvironmentInv
  <1> QED
    BY <1>1, <1>2, <1>3, <1>4 DEF EscrowNext

\* EscrowInv holds in every state the program reaches.
LEMMA EscrowInvariance == EscrowSpec => []EscrowInv
  BY InitInv, NextInv, PTL DEF EscrowSpec

-----------------------------------------------------------------------------
\* Every account always holds a value of its type.
THEOREM TypeCorrect == EscrowSpec => []EscrowTypeOK
  <1>1. EscrowInv => EscrowTypeOK
    BY DEF EscrowInv
  <1> QED
    BY <1>1, EscrowInvariance, PTL

\* The tokens in the vault are those the session's books leave over: paying the
\* provider and repaying the agent never draw on tokens that are not there, and
\* never leave tokens behind.
THEOREM BooksBalance == EscrowSpec => []VaultMatchesBooks
  <1>1. EscrowInv => VaultMatchesBooks
    BY DEF EscrowInv
  <1> QED
    BY <1>1, EscrowInvariance, PTL

\* Whoever settles, and however often, the provider only ever received an
\* amount its session's agent signed for that session.
THEOREM PaymentsAreSigned == EscrowSpec => []PaidOnlyWhatTheAgentSigned
  <1>1. EscrowInv => PaidOnlyWhatTheAgentSigned
    BY DEF EscrowInv
  <1> QED
    BY <1>1, EscrowInvariance, PTL

\* The receipt states the total over all settlements of the session.
THEOREM ReceiptsAreTrue == EscrowSpec => []ReceiptMatchesSession
  <1>1. EscrowInv => ReceiptMatchesSession
    BY DEF EscrowInv
  <1> QED
    BY <1>1, EscrowInvariance, PTL

\* The deposit stays whole until it is settled or its window ends.
THEOREM DepositStaysWhole == EscrowSpec => []UnsettledDepositIsWhole
  <1>1. EscrowInv => UnsettledDepositIsWhole
    <2> SUFFICES ASSUME EscrowInv, NEW s \in Sessions,
                        ~ session[s].is_settled, ~ Expired(s)
                 PROVE  vault[s] = session[s].deposited_total
      BY ConstantsAssumption
         DEF UnsettledDepositIsWhole, Expired, EscrowInv, EscrowTypeOK,
             SessionAccounts
    <2>1. session[s] \in SessionAccounts
      BY DEF EscrowInv, EscrowTypeOK
    <2>2. session[s].cumulative_settled = 0
      BY DEF EscrowInv, Fresh
    <2>3. session[s].refunded_total = 0
      BY <2>1 DEF EscrowInv, RefundCloses, SessionAccounts
    <2> QED
      BY <2>1, <2>2, <2>3 DEF EscrowInv, VaultMatchesBooks, SessionAccounts
  <1> QED
    BY <1>1, EscrowInvariance, PTL

-----------------------------------------------------------------------------
(***************************************************************************)
(* What each instruction does to the amounts of a session, in the terms of *)
(* the escrow promise.                                                     *)
(***************************************************************************)
\* open_session books the deposit of one fresh session and touches no other.
LEMMA OpenEffect ==
  ASSUME EscrowInv, NEW s \in Sessions,
         NEW authority \in Authorities \cup {NoAuthority},
         NEW amount \in Deposits, NEW expires \in Expiries,
         OpenSession(s, authority, amount, expires)
  PROVE  /\ session[s].deposited_total = 0 /\ session[s].refunded_total = 0
         /\ session'[s].deposited_total > 0
         /\ session'[s].cumulative_settled = session[s].cumulative_settled
         /\ session'[s].refunded_total = session[s].refunded_total
         /\ \A t \in Sessions : t # s => /\ session'[t] = session[t]
                                         /\ vault'[t] = vault[t]
         /\ signed' = signed
  <1> USE DEF EscrowInv
  <1>1. session[s] = NoSession
    BY DEF OpenSession, Fresh
  <1>2. /\ session' = [session EXCEPT ![s] =
              [NoSession EXCEPT !.open = TRUE,
                                !.settlement_authority = authority,
                                !.deposited_total = amount,
                                !.expires_at = expires]]
        /\ vault' = [vault EXCEPT ![s] = @ + amount]
        /\ signed' = signed /\ amount > 0
    BY DEF OpenSession
  <1> QED
    BY <1>1, <1>2 DEF NoSession, EscrowTypeOK

\* settle_session raises what one session has paid to an amount its agent
\* signed, within the deposit, and touches no other session.
LEMMA SettleEffect ==
  ASSUME EscrowInv, NEW s \in Sessions, NEW settler \in Keys,
         NEW x \in signed, NEW root \in Roots,
         SettleSession(s, settler, x.msg, root)
  PROVE  /\ session[s].refunded_total = 0
         /\ [signer |-> s.agent, msg |-> ExpectedClaim(s, x.msg)] \in signed
         /\ session'[s].cumulative_settled = x.msg.cumulative
         /\ session[s].cumulative_settled < x.msg.cumulative
         /\ x.msg.cumulative <= session[s].deposited_total
         /\ session'[s].deposited_total = session[s].deposited_total
         /\ session'[s].refunded_total = session[s].refunded_total
         /\ \A t \in Sessions : t # s => /\ session'[t] = session[t]
                                         /\ vault'[t] = vault[t]
         /\ signed' = signed
  <1> USE DEF EscrowInv
  <1>1. session[s] \in SessionAccounts /\ x.msg.cumulative \in Nat
    BY ConstantsAssumption DEF EscrowTypeOK, Signatures, Messages
  <1>2. /\ session[s].cumulative_settled < x.msg.cumulative
        /\ x.msg.cumulative <= session[s].deposited_total
        /\ x.msg.cumulative + session[s].refunded_total
               <= session[s].deposited_total
    BY <1>1 DEF SettleSession, PayoutAllowed, SessionAccounts
  <1>3. session[s].refunded_total = 0
    BY <1>1, <1>2 DEF RefundCloses, SessionAccounts
  <1> QED
    BY <1>1, <1>2, <1>3
       DEF SettleSession, VerifyEd25519Claim, EscrowTypeOK, SessionAccounts

\* refund_session books everything that is left of one session as returned and
\* touches no other.
LEMMA RefundEffect ==
  ASSUME EscrowInv, NEW s \in Sessions, NEW caller \in Keys,
         RefundSession(s, caller)
  PROVE  /\ session[s].refunded_total = 0
         /\ session[s].cumulative_settled < session[s].deposited_total
         /\ session'[s].refunded_total =
                session[s].deposited_total - session[s].cumulative_settled
         /\ session'[s].deposited_total = session[s].deposited_total
         /\ session'[s].cumulative_settled = session[s].cumulative_settled
         /\ \A t \in Sessions : t # s => /\ session'[t] = session[t]
                                         /\ vault'[t] = vault[t]
         /\ signed' = signed
  <1> USE DEF EscrowInv
  <1>1. session[s] \in SessionAccounts
    BY DEF EscrowTypeOK
  <1>2. Remaining(s) > 0
    BY DEF RefundSession
  <1>3. session[s].refunded_total = 0
    BY <1>1, <1>2 DEF RefundCloses, Remaining, SessionAccounts
  <1> QED
    BY <1>1, <1>2, <1>3
       DEF RefundSession, Remaining, EscrowTypeOK, SessionAccounts

\* A refund is final: in every step after it, the session's account and vault
\* stay as they are.
THEOREM RefundsAreFinal == EscrowSpec => RefundIsFinal
  <1> DEFINE Closed == \A s \in Sessions : session[s].refunded_total > 0 =>
                           session'[s] = session[s] /\ vault'[s] = vault[s]
  <1>1. EscrowInv /\ [EscrowNext]_chainVars => [Closed]_chainVars
    <2> SUFFICES ASSUME EscrowInv, EscrowNext PROVE Closed
      OBVIOUS
    <2>1. ASSUME NEW s \in Sessions,
                 NEW authority \in Authorities \cup {NoAuthority},
                 NEW amount \in Deposits, NEW expires \in Expiries,
                 OpenSession(s, authority, amount, expires)
          PROVE  Closed
      BY <2>1, OpenEffect
    <2>2. ASSUME NEW s \in Sessions, NEW settler \in Keys, NEW x \in signed,
                 NEW root \in Roots, SettleSession(s, settler, x.msg, root)
          PROVE  Closed
      <3>1. /\ session[s].refunded_total = 0
            /\ \A t \in Sessions : t # s => /\ session'[t] = session[t]
                                            /\ vault'[t] = vault[t]
        BY <2>2, SettleEffect
      <3> QED
        BY <3>1
    <2>3. ASSUME NEW s \in Sessions, NEW caller \in Keys,
                 RefundSession(s, caller)
          PROVE  Closed
      BY <2>3, RefundEffect
    <2>4. CASE (\E x \in Signable : SignClaim(x)) \/ Tick
      BY <2>4 DEF SignClaim, Tick
    <2> QED
      BY <2>1, <2>2, <2>3, <2>4 DEF EscrowNext
  <1> QED
    BY <1>1, EscrowInvariance, PTL DEF EscrowSpec, RefundIsFinal

\* Tokens leave a vault only towards its own parties: whenever a wallet grows, it
\* grows by what one session's vault loses, and that session books the same amount
\* as paid to its provider or as returned to its agent (settle_session,
\* refund_session).
THEOREM FlowsAreBooked == EscrowSpec => FlowsStayInTheSession
  <1> DEFINE From(k, s) ==
                 /\ wallet'[k] - wallet[k] = vault[s] - vault'[s]
                 /\ \/ /\ k = s.provider
                       /\ session'[s].cumulative_settled
                              - session[s].cumulative_settled
                          = vault[s] - vault'[s]
                    \/ /\ k = s.agent
                       /\ session'[s].refunded_total - session[s].refunded_total
                          = vault[s] - vault'[s]
             Booked == \A k \in Agents \cup Providers : wallet'[k] > wallet[k] =>
                           \E s \in Sessions : From(k, s)
  <1>1. EscrowInv /\ [EscrowNext]_chainVars => [Booked]_chainVars
    <2> SUFFICES ASSUME EscrowInv, EscrowNext PROVE Booked
      OBVIOUS
    <2>t. /\ wallet \in [Agents \cup Providers -> Nat]
          /\ vault \in [Sessions -> Nat]
          /\ session \in [Sessions -> SessionAccounts]
      BY DEF EscrowInv, EscrowTypeOK
    <2>1. ASSUME NEW s \in Sessions,
                 NEW authority \in Authorities \cup {NoAuthority},
                 NEW amount \in Deposits, NEW expires \in Expiries,
                 OpenSession(s, authority, amount, expires)
          PROVE  Booked
      <3>1. wallet' = [wallet EXCEPT ![s.agent] = @ - amount] /\ amount > 0
        BY <2>1 DEF OpenSession
      <3>2. amount \in Nat
        BY ConstantsAssumption
      <3>3. \A k \in Agents \cup Providers : ~ (wallet'[k] > wallet[k])
        BY <2>t, <3>1, <3>2
      <3> QED
        BY <3>3
    <2>2. ASSUME NEW s \in Sessions, NEW settler \in Keys, NEW x \in signed,
                 NEW root \in Roots, SettleSession(s, settler, x.msg, root)
          PROVE  Booked
      <3>1. PICK d : d = x.msg.cumulative - session[s].cumulative_settled
        OBVIOUS
      <3>2. /\ wallet' = [wallet EXCEPT ![s.provider] = @ + d]
            /\ vault' = [vault EXCEPT ![s] = @ - d]
            /\ session'[s].cumulative_settled = x.msg.cumulative
        <4>1. d = Delta(s, x.msg.cumulative)
          BY <3>1 DEF Delta
        <4>2. /\ wallet' = [wallet EXCEPT ![s.provider] = @ + d]
              /\ vault' = [vault EXCEPT ![s] = @ - d]
          BY <2>2, <4>1 DEF SettleSession
        <4>3. session'[s].cumulative_settled = x.msg.cumulative
          BY <2>2, SettleEffect
        <4> QED
          BY <4>2, <4>3
      <3>3. x.msg.cumulative \in Nat /\ session[s].cumulative_settled \in Nat
        BY ConstantsAssumption, <2>t
           DEF EscrowInv, EscrowTypeOK, Signatures, Messages, SessionAccounts
      <3>4. d \in Int
        BY <3>1, <3>3
      <3>5. vault[s] - vault'[s] = d
        BY <2>t, <3>2, <3>4
      <3>6. session'[s].cumulative_settled - session[s].cumulative_settled = d
        BY <3>1, <3>2
      <3>7. ASSUME NEW k \in Agents \cup Providers, wallet'[k] > wallet[k]
            PROVE  From(k, s)
        <4>1. k = s.provider
          BY <2>t, <3>2, <3>7
        <4>2. wallet'[k] - wallet[k] = d
          BY <2>t, <3>2, <3>4, <4>1
        <4> QED
          BY <3>5, <3>6, <4>1, <4>2
      <3> HIDE DEF From
      <3> QED
        BY <3>7
    <2>3. ASSUME NEW s \in Sessions, NEW caller \in Keys,
                 RefundSession(s, caller)
          PROVE  Booked
      <3>1. PICK d : d = Remaining(s)
        OBVIOUS
      <3>2. /\ wallet' = [wallet EXCEPT ![s.agent] = @ + d]
            /\ vault' = [vault EXCEPT ![s] = @ - d]
            /\ session[s].refunded_total = 0
            /\ session'[s].refunded_total =
                   session[s].deposited_total - session[s].cumulative_settled
        BY <2>3, <3>1, RefundEffect DEF RefundSession
      <3>3. /\ session[s].deposited_total \in Nat
            /\ session[s].cumulative_settled \in Nat
        BY <2>t DEF SessionAccounts
      <3>4. /\ d \in Int
            /\ d = session[s].deposited_total - session[s].cumulative_settled
        BY <3>1, <3>2, <3>3 DEF Remaining
      <3>5. vault[s] - vault'[s] = d
        BY <2>t, <3>2, <3>4
      <3>6. session'[s].refunded_total - session[s].refunded_total = d
        BY <3>2, <3>4
      <3>7. ASSUME NEW k \in Agents \cup Providers, wallet'[k] > wallet[k]
            PROVE  From(k, s)
        <4>1. k = s.agent
          BY <2>t, <3>2, <3>7
        <4>2. wallet'[k] - wallet[k] = d
          BY <2>t, <3>2, <3>4, <4>1
        <4> QED
          BY <3>5, <3>6, <4>1, <4>2
      <3> HIDE DEF From
      <3> QED
        BY <3>7
    <2>4. CASE (\E x \in Signable : SignClaim(x)) \/ Tick
      <3>1. wallet' = wallet
        BY <2>4 DEF SignClaim, Tick
      <3>2. \A k \in Agents \cup Providers : ~ (wallet'[k] > wallet[k])
        BY <2>t, <3>1
      <3> QED
        BY <3>2
    <2> HIDE DEF Booked
    <2> QED
      BY <2>1, <2>2, <2>3, <2>4 DEF EscrowNext
  <1> QED
    BY <1>1, EscrowInvariance, PTL DEF EscrowSpec, FlowsStayInTheSession

-----------------------------------------------------------------------------
\* The program keeps the escrow promise: every step of it is a deposit, an
\* authorisation, a payment or a return that EscrowPromise allows, or invisible
\* there.
THEOREM ProgramKeepsPromise == EscrowSpec => PromiseKept
  <1> DEFINE dep == [s \in Sessions |-> session[s].deposited_total]
             pay == [s \in Sessions |-> session[s].cumulative_settled]
             ret == [s \in Sessions |-> session[s].refunded_total]
             aut == [s \in Sessions |->
                        {x.msg.cumulative : x \in {y \in signed :
                              y.signer = s.agent /\ y.msg.session = s}}]
  <1>1. EscrowInit => Promise!PromiseInit
    BY DEF EscrowInit, Promise!PromiseInit, NoSession
  <1>2. EscrowInv /\ [EscrowNext]_chainVars
            => [Promise!PromiseNext]_(Promise!promiseVars)
    <2> SUFFICES ASSUME EscrowInv, [EscrowNext]_chainVars
                 PROVE  Promise!PromiseNext \/ UNCHANGED <<dep, pay, ret, aut>>
      BY DEF Promise!promiseVars
    <2>1. ASSUME NEW s \in Sessions,
                 NEW authority \in Authorities \cup {NoAuthority},
                 NEW amount \in Deposits, NEW expires \in Expiries,
                 OpenSession(s, authority, amount, expires)
          PROVE  Promise!PromiseNext
      <3>1. Promise!Deposit(s)
        BY <2>1, OpenEffect DEF Promise!Deposit
      <3> QED
        BY <3>1 DEF Promise!PromiseNext
    <2>2. ASSUME NEW s \in Sessions, NEW settler \in Keys, NEW x \in signed,
                 NEW root \in Roots, SettleSession(s, settler, x.msg, root)
          PROVE  Promise!PromiseNext
      <3>1. x.msg.cumulative \in aut[s]
        <4> DEFINE sig == [signer |-> s.agent, msg |-> ExpectedClaim(s, x.msg)]
        <4>1. sig \in signed
          BY <2>2, SettleEffect
        <4>2. /\ sig.signer = s.agent /\ sig.msg.session = s
              /\ sig.msg.cumulative = x.msg.cumulative
          BY DEF ExpectedClaim
        <4> HIDE DEF sig
        <4> QED
          BY <4>1, <4>2
      <3>2. Promise!Pay(s, x.msg.cumulative)
        BY <2>2, <3>1, SettleEffect DEF Promise!Pay
      <3> QED
        BY <3>1, <3>2 DEF Promise!PromiseNext
    <2>3. ASSUME NEW s \in Sessions, NEW caller \in Keys,
                 RefundSession(s, caller)
          PROVE  Promise!PromiseNext
      <3>1. Promise!Return(s)
        BY <2>3, RefundEffect DEF Promise!Return
      <3> QED
        BY <3>1 DEF Promise!PromiseNext
    <2>4. CASE \E x \in Signable : SignClaim(x)
      <3>1. session' = session /\ signed \subseteq signed'
        BY <2>4 DEF SignClaim
      <3>2. Promise!Authorise
        BY <3>1 DEF Promise!Authorise
      <3> QED
        BY <3>2 DEF Promise!PromiseNext
    <2>5. CASE Tick \/ UNCHANGED chainVars
      BY <2>5 DEF Tick, chainVars
    <2> QED
      BY <2>1, <2>2, <2>3, <2>4, <2>5 DEF EscrowNext
  <1> QED
    BY <1>1, <1>2, EscrowInvariance, PTL
       DEF EscrowSpec, PromiseKept, Promise!PromiseSpec

-----------------------------------------------------------------------------
(***************************************************************************)
(* The gateway.                                                            *)
(***************************************************************************)

\* The log of s shows claim c as accepted.
Logged(s, c) ==
    \E i \in DOMAIN log[s] : /\ log[s][i].decision = "Allowed"
                             /\ log[s][i].cumulative = c.cumulative
                             /\ log[s][i].nonce = c.nonce

\* What the chain says of s: an open session with these fields.
OnChain(s, agent, deposit, expires) ==
    /\ session[s].open
    /\ agent = s.agent
    /\ deposit = session[s].deposited_total
    /\ expires = session[s].expires_at

Checks ==
    [for : {"open"}, session : Sessions, agent : Agents \cup Strangers,
     deposit : Deposits, expires : Expiries]
    \cup [for : {"reconcile"}, session : Sessions]

Stages == {"idle", "rooted", "loaded", "sent", "confirmed"}

\* The types of the gateway's variables.
Types ==
    /\ Store!StoreTypeOK
    /\ trust \in BOOLEAN
    /\ verified \subseteq Checks
    /\ pc \in [Workers -> Stages]
    /\ DOMAIN job = Workers
    /\ inflight \subseteq Transactions
    /\ \A s \in Sessions : Len(log[s]) <= MaxLog

\* A ticket belongs to a row, is within its deposit, is in the log, and is a
\* claim signed by the key the row names.
TicketsAreSound ==
    \A s \in Sessions :
        /\ ~ row[s].known => ticket[s] = Store!NoTicket
        /\ ticket[s].exists =>
               /\ ticket[s].cumulative <= row[s].deposited_total
               /\ Logged(s, ticket[s])
               /\ [signer |-> row[s].agent, msg |-> HighestClaim(s)] \in signed

\* What a handler's chain check found is still so when the handler acts on it.
ChecksStillHold ==
    \A v \in verified :
        /\ v.for = "open" => OnChain(v.session, v.agent, v.deposit, v.expires)
        /\ v.for = "reconcile" =>
               /\ row[v.session].known
               /\ OnChain(v.session, row[v.session].agent,
                          row[v.session].deposited_total, row[v.session].expires_at)

\* The log justifies settling x: it shows the claim, and the root is of a prefix.
Justified(x) ==
    x.root \in 0..Len(log[x.session]) /\ Logged(x.session, x.claim)

\* A handler has what its stage needs.
HandlerFits(w) ==
    /\ pc[w] = "rooted" => /\ job[w].session \in Sessions
                           /\ job[w].root \in 0..Len(log[job[w].session])
    /\ pc[w] \in {"loaded", "sent", "confirmed"} =>
           job[w] \in Transactions /\ job[w].by = w
    /\ pc[w] = "loaded" => Justified(job[w])
    /\ pc[w] = "sent" => job[w] \in inflight
    /\ pc[w] = "confirmed" => session[job[w].session].is_settled

\* A transaction in flight belongs to the one handler that waits for it, or to
\* none.
OwnerWaits(x) == x.by \in Workers => pc[x.by] = "sent" /\ job[x.by] = x

\* All handlers and all transactions.
HandlersFit ==
    /\ \A w \in Workers : HandlerFits(w)
    /\ \A x \in inflight : Justified(x) /\ OwnerWaits(x)

\* The settled flag follows the chain.
SettledFollowsChain ==
    \A s \in Sessions : row[s].known /\ row[s].settled => session[s].is_settled

\* The inductive invariant: the program's own, and how store and handlers relate
\* to the chain.
GatewayInv ==
    /\ EscrowInv
    /\ Types
    /\ TicketsAreSound
    /\ ChecksStillHold
    /\ VerifiedRowsAreBacked
    /\ HandlersFit
    /\ SettledFollowsChain
    /\ SettledClaimIsInLog

-----------------------------------------------------------------------------
(***************************************************************************)
(* The chain: the gateway adds no step to the program's.                   *)
(***************************************************************************)

\* A settlement that lands is one the program allows for a signature that
\* exists: the claim rebuilt from the ticket is exactly a signed one.
LEMMA LandSettles ==
    ASSUME Types, NEW x \in inflight, Land(x)
    PROVE  /\ x \in Transactions /\ x.session \in Sessions /\ x.root \in Roots
           /\ GatewayKey \in Keys
           /\ \E y \in signed :
                  SettleSession(x.session, GatewayKey, y.msg, x.root)
  <1>1. x \in Transactions
    BY DEF Types
  <1>2. x.session \in Sessions /\ x.root \in Roots /\ x.claim \in Messages
    BY <1>1 DEF Transactions
  <1>3. GatewayKey \in Keys
    BY GatewayAssumption DEF Keys
  <1> DEFINE s == x.session
             m == ExpectedClaim(s, x.claim)
             y == [signer |-> s.agent, msg |-> m]
  <1>4. y \in signed /\ y.msg = m
    BY DEF Land, SettleSession, VerifyEd25519Claim
  <1>5. /\ m.cumulative = x.claim.cumulative /\ m.nonce = x.claim.nonce
        /\ m.expires = x.claim.expires
        /\ ExpectedClaim(s, m) = m
    BY DEF ExpectedClaim
  <1>6. SettleSession(s, GatewayKey, x.claim, x.root)
    BY DEF Land
  <1> HIDE DEF s, m, y
  <1>7. SettleSession(s, GatewayKey, m, x.root)
    <2>1. ExpectedClaim(s, m) = ExpectedClaim(s, x.claim)
      BY <1>5 DEF m
    <2> QED
      BY <1>5, <1>6, <2>1 DEF SettleSession
  <1> QED
    BY <1>1, <1>2, <1>3, <1>4, <1>7 DEF s

\* What Outside may do to the chain.
LEMMA OutsideSteps ==
    ASSUME EscrowInv, Outside
    PROVE  EscrowNext
  <1>1. /\ {GatewayKey, NoAuthority} \subseteq Authorities \cup {NoAuthority}
        /\ ForeignRoot \in Roots
    BY GatewayAssumption
  <1>2. \A s \in Sessions : s.provider \in Keys
    BY DEF Sessions, Keys
  <1>3. ASSUME NEW s \in Sessions, NEW authority \in {GatewayKey, NoAuthority},
               NEW amount \in Deposits, NEW expires \in Expiries,
               OpenSession(s, authority, amount, expires)
        PROVE  EscrowNext
    BY <1>1, <1>3 DEF EscrowNext
  <1>4. ASSUME NEW s \in Sessions, NEW x \in signed,
               SettleSession(s, s.provider, x.msg, ForeignRoot)
        PROVE  EscrowNext
    BY <1>1, <1>2, <1>4 DEF EscrowNext
  <1>5. ASSUME \/ Tick \/ \E x \in Signable : SignClaim(x)
               \/ \E s \in Sessions, caller \in Keys : RefundSession(s, caller)
        PROVE  EscrowNext
    BY <1>5 DEF EscrowNext
  <1> QED
    BY <1>3, <1>4, <1>5 DEF Outside

\* Only the outside and a landing settlement touch the chain.
LEMMA ChainSteps ==
    ASSUME [Next]_vars
    PROVE  UNCHANGED chainVars \/ Outside \/ \E x \in inflight : Land(x)
  BY DEF Next, vars, chainVars, OpenVerify, OpenTrusted, OpenSave, ReconcileMark,
         ReconcileVerify, VerifyClaim, SettleRoot, SettleLoad, SettleSend,
         SettleMark, Abandon, Lose, Restart

\* Every step of the composition is a step of the program, or leaves it alone.
LEMMA ProgramStep ==
    ASSUME EscrowInv, Types, [Next]_vars
    PROVE  [EscrowNext]_chainVars
  <1>1. ASSUME NEW x \in inflight, Land(x) PROVE EscrowNext
    <2>1. PICK y \in signed : SettleSession(x.session, GatewayKey, y.msg, x.root)
      BY <1>1, LandSettles
    <2>2. x.session \in Sessions /\ GatewayKey \in Keys /\ x.root \in Roots
      BY <1>1, LandSettles
    <2> QED
      BY <2>1, <2>2 DEF EscrowNext
  <1> QED
    BY <1>1, ChainSteps, OutsideSteps

\* What the gateway read of the chain stays true: an open session keeps its
\* deposit and expiry, a settled one stays settled, signatures stay.
LEMMA ChainStays ==
    ASSUME EscrowInv, [EscrowNext]_chainVars
    PROVE  /\ signed \subseteq signed'
           /\ \A s \in Sessions :
                  /\ session[s].open =>
                         /\ session'[s].open
                         /\ session'[s].deposited_total = session[s].deposited_total
                         /\ session'[s].expires_at = session[s].expires_at
                  /\ session[s].is_settled => session'[s].is_settled
  <1>0. session \in [Sessions -> SessionAccounts]
    BY DEF EscrowInv, EscrowTypeOK
  <1>1. CASE UNCHANGED chainVars
    BY <1>1 DEF chainVars
  <1>2. ASSUME NEW s \in Sessions, NEW authority \in Authorities \cup {NoAuthority},
               NEW amount \in Deposits, NEW expires \in Expiries,
               OpenSession(s, authority, amount, expires), NEW t \in Sessions
        PROVE  /\ signed' = signed
               /\ \/ session'[t] = session[t]
                  \/ ~ session[t].open /\ ~ session[t].is_settled
    <2>1. NoSession.is_settled = FALSE
      BY DEF NoSession
    <2>2. ~ session[s].open /\ session[s] = NoSession /\ signed' = signed
      BY <1>2 DEF OpenSession, EscrowInv, Fresh
    <2>3. t # s => session'[t] = session[t]
      BY <1>0, <1>2 DEF OpenSession
    <2>4. CASE t = s
      <3>1. ~ session[t].is_settled
        BY <2>1, <2>2, <2>4
      <3> QED
        BY <2>2, <2>4, <3>1
    <2> QED
      BY <2>2, <2>3, <2>4
  <1>3. ASSUME NEW s \in Sessions, NEW settler, NEW m, NEW root,
               SettleSession(s, settler, m, root), NEW t \in Sessions
        PROVE  /\ signed' = signed
               /\ session'[t].open = session[t].open
               /\ session'[t].deposited_total = session[t].deposited_total
               /\ session'[t].expires_at = session[t].expires_at
               /\ session[t].is_settled => session'[t].is_settled
    BY <1>0, <1>3 DEF SettleSession, SessionAccounts
  <1>4. ASSUME NEW s \in Sessions, NEW caller \in Keys, RefundSession(s, caller),
               NEW t \in Sessions
        PROVE  /\ signed' = signed
               /\ session'[t].open = session[t].open
               /\ session'[t].deposited_total = session[t].deposited_total
               /\ session'[t].expires_at = session[t].expires_at
               /\ session'[t].is_settled = session[t].is_settled
    BY <1>0, <1>4 DEF RefundSession, SessionAccounts
  <1>5. CASE Tick \/ \E x \in Signable : SignClaim(x)
    BY <1>5 DEF Tick, SignClaim
  <1>6. CASE \E s \in Sessions, authority \in Authorities \cup {NoAuthority},
                amount \in Deposits, expires \in Expiries :
                OpenSession(s, authority, amount, expires)
    BY <1>2, <1>6
  <1>7. CASE \E s \in Sessions, settler \in Keys, x \in signed, root \in Roots :
                SettleSession(s, settler, x.msg, root)
    BY <1>3, <1>7
  <1>8. CASE \E s \in Sessions, caller \in Keys : RefundSession(s, caller)
    BY <1>4, <1>8
  <1> QED
    BY <1>1, <1>5, <1>6, <1>7, <1>8 DEF EscrowNext

-----------------------------------------------------------------------------
(***************************************************************************)
(* The store.                                                              *)
(***************************************************************************)

\* Rows that are known are session rows.
LEMMA RowType ==
    ASSUME Types, NEW s \in Sessions, row[s].known
    PROVE  row[s] \in Store!SessionRows
  <1>1. Store!NoRow.known = FALSE
    BY DEF Store!NoRow
  <1> QED
    BY <1>1 DEF Types, Store!StoreTypeOK

\* Tickets that exist are tickets, and they make a claim message.
LEMMA TicketType ==
    ASSUME Types, NEW s \in Sessions, ticket[s].exists
    PROVE  ticket[s] \in Store!Tickets /\ HighestClaim(s) \in Messages
  <1>1. Store!NoTicket.exists = FALSE
    BY DEF Store!NoTicket
  <1>2. ticket[s] \in Store!Tickets
    BY <1>1 DEF Types, Store!StoreTypeOK
  <1> QED
    BY <1>2 DEF HighestClaim, Messages, Store!Tickets

\* Five actions touch the store.
LEMMA StoreSteps ==
    ASSUME [Next]_vars
    PROVE  \/ row' = row /\ ticket' = ticket /\ log' = log
           \/ \E s \in Sessions, agent \in Agents \cup Strangers,
                 deposit \in Deposits, expires \in Expiries :
                 OpenTrusted(s, agent, deposit, expires)
           \/ \E v \in verified : OpenSave(v) \/ ReconcileMark(v)
           \/ \E x \in signed, t \in 0..now : VerifyClaim(x, t)
           \/ \E w \in Workers : SettleMark(w)
  BY DEF Next, vars, gatewayVars, storeVars, Outside, OpenVerify, ReconcileVerify,
         SettleRoot, SettleLoad, SettleSend, Land, Lose, Abandon, Restart

\* Opening a row.
LEMMA OpenRowEffect ==
    ASSUME Types, NEW s \in Sessions, NEW agent \in Agents \cup Strangers,
           NEW deposit \in Deposits, NEW expires \in Expiries,
           NEW flag \in BOOLEAN,
           Store!OpenRow(s, agent, deposit, expires, flag)
    PROVE  /\ row' \in [Sessions -> {Store!NoRow} \cup Store!SessionRows]
           /\ ticket' = ticket /\ log' = log /\ ~ row[s].known
           /\ \A r \in Sessions : r # s => row'[r] = row[r]
           /\ row'[s].known /\ ~ row'[s].settled /\ row'[s].chain_verified = flag
           /\ row'[s].agent = agent /\ row'[s].deposited_total = deposit
           /\ row'[s].expires_at = expires
  <1> DEFINE r0 == [known |-> TRUE, agent |-> agent, deposited_total |-> deposit,
                    expires_at |-> expires, settled |-> FALSE,
                    chain_verified |-> flag]
  <1>1. r0 \in Store!SessionRows
    BY ConstantsAssumption DEF Store!SessionRows
  <1>2. /\ row' = [row EXCEPT ![s] = r0]
        /\ ticket' = ticket /\ log' = log /\ ~ row[s].known
    BY DEF Store!OpenRow
  <1>3. /\ r0.known /\ ~ r0.settled /\ r0.chain_verified = flag
        /\ r0.agent = agent /\ r0.deposited_total = deposit
        /\ r0.expires_at = expires
    OBVIOUS
  <1> HIDE DEF r0
  <1>4. row \in [Sessions -> {Store!NoRow} \cup Store!SessionRows]
    BY DEF Types, Store!StoreTypeOK
  <1>5. /\ row' \in [Sessions -> {Store!NoRow} \cup Store!SessionRows]
        /\ row'[s] = r0 /\ \A r \in Sessions : r # s => row'[r] = row[r]
    BY <1>1, <1>2, <1>4
  <1> QED
    BY <1>2, <1>3, <1>5

\* Raising a flag of a row.
LEMMA FlagEffect ==
    ASSUME Types, NEW s \in Sessions,
           Store!MarkSettled(s) \/ Store!MarkChainVerified(s)
    PROVE  /\ row' \in [Sessions -> {Store!NoRow} \cup Store!SessionRows]
           /\ ticket' = ticket /\ log' = log /\ row[s].known
           /\ \A r \in Sessions : r # s => row'[r] = row[r]
           /\ row'[s].known /\ row'[s].agent = row[s].agent
           /\ row'[s].deposited_total = row[s].deposited_total
           /\ row'[s].expires_at = row[s].expires_at
           /\ Store!MarkSettled(s) => row'[s].chain_verified = row[s].chain_verified
           /\ Store!MarkChainVerified(s) => row'[s].settled = row[s].settled
  <1>1. row[s].known /\ ticket' = ticket /\ log' = log
    BY DEF Store!MarkSettled, Store!MarkChainVerified
  <1>2. row[s] \in Store!SessionRows
    BY <1>1, RowType
  <1>3. row \in [Sessions -> {Store!NoRow} \cup Store!SessionRows]
    BY DEF Types, Store!StoreTypeOK
  <1>4. ASSUME Store!MarkSettled(s)
        PROVE  /\ row' \in [Sessions -> {Store!NoRow} \cup Store!SessionRows]
               /\ \A r \in Sessions : r # s => row'[r] = row[r]
               /\ row'[s].known /\ row'[s].agent = row[s].agent
               /\ row'[s].deposited_total = row[s].deposited_total
               /\ row'[s].expires_at = row[s].expires_at
               /\ row'[s].chain_verified = row[s].chain_verified
    <2> DEFINE r0 == [row[s] EXCEPT !.settled = TRUE]
    <2>1. row' = [row EXCEPT ![s] = r0]
      BY <1>3, <1>4 DEF Store!MarkSettled
    <2>2. /\ r0 \in Store!SessionRows /\ r0.known = row[s].known
          /\ r0.agent = row[s].agent /\ r0.expires_at = row[s].expires_at
          /\ r0.deposited_total = row[s].deposited_total
          /\ r0.chain_verified = row[s].chain_verified
      BY <1>2 DEF Store!SessionRows
    <2> HIDE DEF r0
    <2> QED
      BY <1>1, <1>3, <2>1, <2>2
  <1>5. ASSUME Store!MarkChainVerified(s)
        PROVE  /\ row' \in [Sessions -> {Store!NoRow} \cup Store!SessionRows]
               /\ \A r \in Sessions : r # s => row'[r] = row[r]
               /\ row'[s].known /\ row'[s].agent = row[s].agent
               /\ row'[s].deposited_total = row[s].deposited_total
               /\ row'[s].expires_at = row[s].expires_at
               /\ row'[s].settled = row[s].settled
    <2> DEFINE r0 == [row[s] EXCEPT !.chain_verified = TRUE]
    <2>1. row' = [row EXCEPT ![s] = r0]
      BY <1>3, <1>5 DEF Store!MarkChainVerified
    <2>2. /\ r0 \in Store!SessionRows /\ r0.known = row[s].known
          /\ r0.agent = row[s].agent /\ r0.expires_at = row[s].expires_at
          /\ r0.deposited_total = row[s].deposited_total
          /\ r0.settled = row[s].settled
      BY <1>2 DEF Store!SessionRows
    <2> HIDE DEF r0
    <2> QED
      BY <1>1, <1>3, <2>1, <2>2
  <1> QED
    BY <1>1, <1>4, <1>5

\* Appending to a log: the entries before stay where they are.
LEMMA AppendEntry ==
    ASSUME NEW S, NEW l \in Seq(S), NEW e \in S
    PROVE  /\ Append(l, e) \in Seq(S) /\ Len(Append(l, e)) = Len(l) + 1
           /\ DOMAIN Append(l, e) = DOMAIN l \cup {Len(l) + 1}
           /\ \A i \in DOMAIN l : Append(l, e)[i] = l[i]
           /\ Append(l, e)[Len(l) + 1] = e
           /\ Len(l) \in Nat
  OBVIOUS

\* Judging a claim appends one entry, and a claim that is allowed becomes the
\* ticket.
LEMMA ClaimEffect ==
    ASSUME Types, signed \subseteq Signable, NEW x \in signed, NEW t, VerifyClaim(x, t)
    PROVE  LET s == x.msg.session
           IN  /\ s \in Sessions /\ row[s].known /\ row[s].agent = x.signer
               /\ x = [signer |-> x.signer, msg |-> x.msg] /\ x.msg \in Messages
               /\ row' = row /\ signed' = signed
               /\ \A r \in Sessions : r # s => log'[r] = log[r] /\ ticket'[r] = ticket[r]
               /\ \E e \in Store!Entries :
                      /\ log' = [log EXCEPT ![s] = Append(log[s], e)]
                      /\ \/ ticket' = ticket
                         \/ /\ ticket' = [ticket EXCEPT ![s] = Store!TicketOf(x.msg)]
                            /\ e.decision = "Allowed"
                            /\ e.cumulative = x.msg.cumulative
                            /\ e.nonce = x.msg.nonce
                            /\ x.msg.cumulative <= row[s].deposited_total
               /\ Len(log[s]) < MaxLog
  <1> DEFINE s == x.msg.session
             c == x.msg
  <1>1. x \in Signatures
    BY ConstantsAssumption
  <1>2. /\ c \in Messages /\ x = [signer |-> x.signer, msg |-> x.msg]
        /\ s \in Sessions /\ c.cumulative \in Nat /\ c.nonce \in Nat
    BY <1>1 DEF Signatures, Messages
  <1>3. /\ row[s].known /\ row[s].agent = x.signer /\ row' = row
        /\ Len(log[s]) < MaxLog /\ signed' = signed
    BY DEF VerifyClaim, SignatureValid, Store!AcceptClaim, Store!RefuseClaim, chainVars
  <1>4. /\ log \in [Sessions -> Seq(Store!Entries)]
        /\ ticket \in [Sessions -> {Store!NoTicket} \cup Store!Tickets]
    BY DEF Types, Store!StoreTypeOK
  <1>5. row[s].deposited_total \in Nat
    BY <1>2, <1>3, RowType DEF Store!SessionRows
  <1>6. ASSUME NEW d \in Store!Decisions
        PROVE  Store!Entry(d, c) \in Store!Entries
    BY <1>2, <1>6, ConstantsAssumption DEF Store!Entry, Store!Entries, Store!Clamp
  <1>7. CASE Store!AcceptClaim(c, t)
    <2> DEFINE e == Store!Entry("Allowed", c)
    <2>1. e \in Store!Entries
      BY <1>6 DEF Store!Decisions
    <2>2. /\ e.decision = "Allowed" /\ e.cumulative = c.cumulative
          /\ e.nonce = c.nonce
      BY <1>2, <1>7, ConstantsAssumption
         DEF Store!AcceptClaim, Store!Storable, Store!Entry, Store!Clamp
    <2>3. c.cumulative <= row[s].deposited_total
      BY <1>2, <1>5, <1>7 DEF Store!AcceptClaim, Store!EvaluateClaim
    <2>4. /\ log' = [log EXCEPT ![s] = Append(log[s], e)]
          /\ ticket' = [ticket EXCEPT ![s] = Store!TicketOf(c)]
      BY <1>7 DEF Store!AcceptClaim
    <2> HIDE DEF e
    <2>5. \A r \in Sessions : r # s => log'[r] = log[r] /\ ticket'[r] = ticket[r]
      BY <1>4, <2>4
    <2> QED
      BY <1>2, <1>3, <2>1, <2>2, <2>3, <2>4, <2>5
  <1>8. CASE Store!RefuseClaim(c, t)
    <2> DEFINE d == Store!EvaluateClaim(row[s], ticket[s], c, t)
               e == Store!Entry(d, c)
    <2>1. d \in Store!Decisions
      BY <1>8 DEF Store!RefuseClaim, Store!Recorded, Store!EvaluateClaim,
                  Store!Decisions, Store!Refusals
    <2>2. e \in Store!Entries
      BY <1>6, <2>1
    <2>3. /\ log' = [log EXCEPT ![s] = Append(log[s], e)]
          /\ ticket' = ticket
      BY <1>8 DEF Store!RefuseClaim
    <2> HIDE DEF e, d
    <2>4. \A r \in Sessions : r # s => log'[r] = log[r] /\ ticket'[r] = ticket[r]
      BY <1>4, <2>3
    <2> QED
      BY <1>2, <1>3, <2>2, <2>3, <2>4
  <1> QED
    BY <1>7, <1>8 DEF VerifyClaim

\* What the gateway read of the store stays true: a known row keeps its agent,
\* deposit and expiry, and a log only grows.
LEMMA StoreStays ==
    ASSUME Types, HandlersFit, signed \subseteq Signable, [Next]_vars, NEW s \in Sessions
    PROVE  /\ row[s].known =>
                  /\ row'[s].known /\ row'[s].agent = row[s].agent
                  /\ row'[s].deposited_total = row[s].deposited_total
                  /\ row'[s].expires_at = row[s].expires_at
           /\ Len(log[s]) \in Nat /\ Len(log'[s]) \in Nat
           /\ Len(log[s]) <= Len(log'[s])
           /\ DOMAIN log[s] \subseteq DOMAIN log'[s]
           /\ \A i \in DOMAIN log[s] : log'[s][i] = log[s][i]
  <1>0. /\ log \in [Sessions -> Seq(Store!Entries)] /\ Len(log[s]) \in Nat
        /\ log[s] \in Seq(Store!Entries)
    BY DEF Types, Store!StoreTypeOK
  <1>1. CASE row' = row /\ ticket' = ticket /\ log' = log
    BY <1>0, <1>1
  <1>2. ASSUME NEW r \in Sessions, NEW agent \in Agents \cup Strangers,
               NEW deposit \in Deposits, NEW expires \in Expiries,
               NEW flag \in BOOLEAN, Store!OpenRow(r, agent, deposit, expires, flag)
        PROVE  log' = log /\ (row[s].known => row'[s] = row[s])
    BY <1>2, OpenRowEffect
  <1>3. ASSUME NEW r \in Sessions, NEW agent \in Agents \cup Strangers,
               NEW deposit \in Deposits, NEW expires \in Expiries,
               OpenTrusted(r, agent, deposit, expires)
        PROVE  log' = log /\ (row[s].known => row'[s] = row[s])
    BY <1>2, <1>3 DEF OpenTrusted
  <1>4. ASSUME NEW v \in verified, OpenSave(v)
        PROVE  log' = log /\ (row[s].known => row'[s] = row[s])
    <2>1. /\ v.session \in Sessions /\ v.agent \in Agents \cup Strangers
          /\ v.deposit \in Deposits /\ v.expires \in Expiries
      BY <1>4 DEF OpenSave, Types, Checks
    <2> QED
      BY <1>2, <1>4, <2>1 DEF OpenSave, storeVars
  <1>5. ASSUME NEW r \in Sessions, Store!MarkSettled(r) \/ Store!MarkChainVerified(r)
        PROVE  /\ log' = log
               /\ row[s].known =>
                  /\ row'[s].known /\ row'[s].agent = row[s].agent
                  /\ row'[s].deposited_total = row[s].deposited_total
                  /\ row'[s].expires_at = row[s].expires_at
    <2>1. CASE r = s
      BY <1>5, <2>1, FlagEffect
    <2>2. CASE r # s
      BY <1>5, <2>2, FlagEffect
    <2> QED
      BY <2>1, <2>2
  <1>6. ASSUME NEW v \in verified, ReconcileMark(v)
        PROVE  /\ log' = log
               /\ row[s].known =>
                  /\ row'[s].known /\ row'[s].agent = row[s].agent
                  /\ row'[s].deposited_total = row[s].deposited_total
                  /\ row'[s].expires_at = row[s].expires_at
    <2>1. v.session \in Sessions
      BY <1>6 DEF ReconcileMark, Types, Checks
    <2> QED
      BY <1>5, <1>6, <2>1 DEF ReconcileMark
  <1>7. ASSUME NEW w \in Workers, SettleMark(w)
        PROVE  /\ log' = log
               /\ row[s].known =>
                  /\ row'[s].known /\ row'[s].agent = row[s].agent
                  /\ row'[s].deposited_total = row[s].deposited_total
                  /\ row'[s].expires_at = row[s].expires_at
    <2>1. job[w].session \in Sessions
      BY <1>7 DEF SettleMark, MayMark, HandlersFit, HandlerFits, Transactions
    <2> QED
      BY <1>5, <1>7, <2>1 DEF SettleMark, storeVars
  <1>8. ASSUME NEW x \in signed, NEW t \in 0..now, VerifyClaim(x, t)
        PROVE  /\ row' = row
               /\ Len(log'[s]) \in Nat
               /\ Len(log[s]) <= Len(log'[s])
               /\ DOMAIN log[s] \subseteq DOMAIN log'[s]
               /\ \A i \in DOMAIN log[s] : log'[s][i] = log[s][i]
    <2>1. PICK e \in Store!Entries :
              log' = [log EXCEPT ![x.msg.session] = Append(log[x.msg.session], e)]
      BY <1>8, ClaimEffect
    <2>2. row' = row
      BY <1>8, ClaimEffect
    <2>3. CASE s = x.msg.session
      <3>1. log'[s] = Append(log[s], e)
        BY <1>0, <2>1, <2>3
      <3> QED
        BY <1>0, <2>2, <3>1, AppendEntry
    <2>4. CASE s # x.msg.session
      BY <1>0, <2>1, <2>2, <2>4
    <2> QED
      BY <2>3, <2>4
  <1> QED
    BY <1>0, <1>1, <1>3, <1>4, <1>6, <1>7, <1>8, StoreSteps

\* What the log shows it goes on showing.
LEMMA LogStays ==
    ASSUME Types, HandlersFit, signed \subseteq Signable, [Next]_vars
    PROVE  /\ \A s \in Sessions : \A c : Logged(s, c) => Logged(s, c)'
           /\ \A x : x.session \in Sessions /\ Justified(x) => Justified(x)'
  <1>1. ASSUME NEW s \in Sessions, NEW c, Logged(s, c) PROVE Logged(s, c)'
    BY <1>1, StoreStays DEF Logged
  <1>2. ASSUME NEW x, x.session \in Sessions, Justified(x) PROVE Justified(x)'
    <2>1. x.root \in 0..Len(log'[x.session])
      BY <1>2, StoreStays DEF Justified
    <2> QED
      BY <1>1, <1>2, <2>1 DEF Justified
  <1> QED
    BY <1>1, <1>2

\* The types of the store.
LEMMA StoreTypes ==
    ASSUME Types, HandlersFit, signed \subseteq Signable, [Next]_vars
    PROVE  Store!StoreTypeOK' /\ \A s \in Sessions : Len(log'[s]) <= MaxLog
  <1>0. /\ log \in [Sessions -> Seq(Store!Entries)]
        /\ ticket \in [Sessions -> {Store!NoTicket} \cup Store!Tickets]
        /\ row \in [Sessions -> {Store!NoRow} \cup Store!SessionRows]
        /\ \A s \in Sessions : Len(log[s]) <= MaxLog
    BY DEF Types, Store!StoreTypeOK
  <1>1. ASSUME ticket' = ticket, log' = log,
               row' \in [Sessions -> {Store!NoRow} \cup Store!SessionRows]
        PROVE  Store!StoreTypeOK' /\ \A s \in Sessions : Len(log'[s]) <= MaxLog
    BY <1>0, <1>1 DEF Store!StoreTypeOK
  <1>2. CASE row' = row /\ ticket' = ticket /\ log' = log
    BY <1>0, <1>1, <1>2
  <1>3. CASE \E s \in Sessions, agent \in Agents \cup Strangers,
                deposit \in Deposits, expires \in Expiries :
                OpenTrusted(s, agent, deposit, expires)
    BY <1>1, <1>3, OpenRowEffect DEF OpenTrusted
  <1>4. ASSUME NEW v \in verified, OpenSave(v) \/ ReconcileMark(v)
        PROVE  Store!StoreTypeOK' /\ \A s \in Sessions : Len(log'[s]) <= MaxLog
    <2>1. /\ v.session \in Sessions
          /\ v.for = "open" => /\ v.agent \in Agents \cup Strangers
                               /\ v.deposit \in Deposits /\ v.expires \in Expiries
      BY DEF Types, Checks
    <2>2. CASE OpenSave(v)
      BY <1>0, <1>1, <2>1, <2>2, OpenRowEffect DEF OpenSave, storeVars
    <2>3. CASE ReconcileMark(v)
      BY <1>1, <2>1, <2>3, FlagEffect DEF ReconcileMark
    <2> QED
      BY <1>4, <2>2, <2>3
  <1>5. ASSUME NEW w \in Workers, SettleMark(w)
        PROVE  Store!StoreTypeOK' /\ \A s \in Sessions : Len(log'[s]) <= MaxLog
    <2>1. job[w].session \in Sessions
      BY <1>5 DEF SettleMark, MayMark, HandlersFit, HandlerFits, Transactions
    <2> QED
      BY <1>0, <1>1, <1>5, <2>1, FlagEffect DEF SettleMark, storeVars
  <1>6. ASSUME NEW x \in signed, NEW t \in 0..now, VerifyClaim(x, t)
        PROVE  Store!StoreTypeOK' /\ \A s \in Sessions : Len(log'[s]) <= MaxLog
    <2>1. PICK e \in Store!Entries :
              /\ log' = [log EXCEPT ![x.msg.session] = Append(log[x.msg.session], e)]
              /\ \/ ticket' = ticket
                 \/ ticket' = [ticket EXCEPT ![x.msg.session] = Store!TicketOf(x.msg)]
      BY <1>6, ClaimEffect
    <2>2. /\ row' = row /\ x.msg.session \in Sessions /\ x.msg \in Messages
          /\ Len(log[x.msg.session]) < MaxLog
      BY <1>6, ClaimEffect
    <2>3. Store!TicketOf(x.msg) \in Store!Tickets
      BY <2>2 DEF Store!TicketOf, Store!Tickets, Messages
    <2>4. ticket' \in [Sessions -> {Store!NoTicket} \cup Store!Tickets]
      BY <1>0, <2>1, <2>3
    <2> DEFINE l == Append(log[x.msg.session], e)
    <2>5. l \in Seq(Store!Entries) /\ Len(l) <= MaxLog
      BY <1>0, <2>2, AppendEntry, GatewayAssumption
    <2>6. log' = [log EXCEPT ![x.msg.session] = l]
      BY <2>1
    <2> HIDE DEF l
    <2>7. /\ log' \in [Sessions -> Seq(Store!Entries)]
          /\ \A s \in Sessions : Len(log'[s]) <= MaxLog
      BY <1>0, <2>5, <2>6
    <2> QED
      BY <1>0, <2>2, <2>4, <2>7 DEF Store!StoreTypeOK
  <1> QED
    BY <1>2, <1>3, <1>4, <1>5, <1>6, StoreSteps

\* What one ticket may become in one step.
LEMMA TicketMoves ==
    ASSUME Types, HandlersFit, signed \subseteq Signable, [Next]_vars, NEW s \in Sessions
    PROVE  \/ ticket'[s] = ticket[s]
           \/ \E x \in signed :
                  /\ x = [signer |-> row[s].agent, msg |-> x.msg]
                  /\ x.msg \in Messages /\ x.msg.session = s
                  /\ ticket'[s] = Store!TicketOf(x.msg)
                  /\ row' = row /\ row[s].known
                  /\ x.msg.cumulative <= row[s].deposited_total
                  /\ Logged(s, x.msg)'
  <1>0. /\ log \in [Sessions -> Seq(Store!Entries)]
        /\ ticket \in [Sessions -> {Store!NoTicket} \cup Store!Tickets]
    BY DEF Types, Store!StoreTypeOK
  <1>1. CASE row' = row /\ ticket' = ticket /\ log' = log
    BY <1>1
  <1>2. CASE \/ \E r \in Sessions, agent \in Agents \cup Strangers,
                   deposit \in Deposits, expires \in Expiries :
                   OpenTrusted(r, agent, deposit, expires)
             \/ \E v \in verified : OpenSave(v) \/ ReconcileMark(v)
             \/ \E w \in Workers : SettleMark(w)
    BY <1>2 DEF OpenTrusted, OpenSave, ReconcileMark, SettleMark, storeVars,
                Store!OpenRow, Store!MarkSettled, Store!MarkChainVerified
  <1>3. ASSUME NEW x \in signed, NEW t \in 0..now, VerifyClaim(x, t),
               ticket'[s] # ticket[s]
        PROVE  /\ x = [signer |-> row[s].agent, msg |-> x.msg]
               /\ x.msg \in Messages /\ x.msg.session = s
               /\ ticket'[s] = Store!TicketOf(x.msg)
               /\ row' = row /\ row[s].known
               /\ x.msg.cumulative <= row[s].deposited_total
               /\ Logged(s, x.msg)'
    <2>1. /\ x.msg.session = s /\ row[s].known /\ row[s].agent = x.signer
          /\ x = [signer |-> x.signer, msg |-> x.msg] /\ x.msg \in Messages
          /\ row' = row
      BY <1>3, ClaimEffect
    <2>2. PICK e \in Store!Entries :
              /\ log' = [log EXCEPT ![s] = Append(log[s], e)]
              /\ ticket' = [ticket EXCEPT ![s] = Store!TicketOf(x.msg)]
              /\ e.decision = "Allowed"
              /\ e.cumulative = x.msg.cumulative
              /\ e.nonce = x.msg.nonce
              /\ x.msg.cumulative <= row[s].deposited_total
      BY <1>3, <2>1, ClaimEffect
    <2>3. log'[s] = Append(log[s], e) /\ ticket'[s] = Store!TicketOf(x.msg)
      BY <1>0, <2>2
    <2>4. Logged(s, x.msg)'
      <3>1. Len(log[s]) + 1 \in DOMAIN log'[s] /\ log'[s][Len(log[s]) + 1] = e
        BY <1>0, <2>3, AppendEntry
      <3> QED
        BY <2>2, <3>1 DEF Logged
    <2> QED
      BY <2>1, <2>2, <2>3, <2>4
  <1> QED
    BY <1>1, <1>2, <1>3, StoreSteps

\* Tickets stay sound: the new one is the claim just verified.
LEMMA TicketsNext ==
    ASSUME GatewayInv, [Next]_vars
    PROVE  TicketsAreSound'
  <1>0. /\ Types /\ HandlersFit /\ EscrowInv /\ TicketsAreSound
        /\ signed \subseteq Signable /\ signed \subseteq signed'
        /\ Store!NoTicket.exists = FALSE
    BY ProgramStep, ChainStays
       DEF GatewayInv, EscrowInv, EscrowTypeOK, Store!NoTicket
  <1> SUFFICES ASSUME NEW s \in Sessions
      PROVE  /\ ~ row'[s].known => ticket'[s] = Store!NoTicket
             /\ ticket'[s].exists =>
                    /\ ticket'[s].cumulative <= row'[s].deposited_total
                    /\ Logged(s, ticket[s])'
                    /\ [signer |-> row'[s].agent, msg |-> HighestClaim(s)'] \in signed'
    BY DEF TicketsAreSound
  <1>1. CASE ticket'[s] = ticket[s]
    <2>1. ~ row'[s].known => ticket'[s] = Store!NoTicket
      BY <1>0, <1>1, StoreStays DEF TicketsAreSound
    <2>2. ASSUME ticket[s].exists
          PROVE  /\ ticket'[s].cumulative <= row'[s].deposited_total
                 /\ Logged(s, ticket[s])'
                 /\ [signer |-> row'[s].agent, msg |-> HighestClaim(s)'] \in signed'
      <3>1. row[s].known
        BY <1>0, <2>2 DEF TicketsAreSound
      <3>2. /\ row'[s].agent = row[s].agent
            /\ row'[s].deposited_total = row[s].deposited_total
        BY <1>0, <3>1, StoreStays
      <3>3. Logged(s, ticket[s])'
        <4>1. PICK k : k = ticket[s]
          OBVIOUS
        <4>2. Logged(s, k)
          BY <1>0, <2>2, <4>1 DEF TicketsAreSound
        <4>3. Logged(s, k)'
          BY <1>0, <4>2, LogStays
        <4> QED
          BY <1>1, <4>1, <4>3
      <3>4. HighestClaim(s)' = HighestClaim(s)
        BY <1>1 DEF HighestClaim
      <3> QED
        BY <1>0, <1>1, <2>2, <3>2, <3>3, <3>4 DEF TicketsAreSound
    <2> QED
      BY <1>1, <2>1, <2>2
  <1>2. ASSUME NEW x \in signed,
               x = [signer |-> row[s].agent, msg |-> x.msg],
               x.msg \in Messages, x.msg.session = s,
               ticket'[s] = Store!TicketOf(x.msg),
               row' = row, row[s].known,
               x.msg.cumulative <= row[s].deposited_total,
               Logged(s, x.msg)'
        PROVE  /\ row'[s].known
               /\ ticket'[s].cumulative <= row'[s].deposited_total
               /\ Logged(s, ticket[s])'
               /\ [signer |-> row'[s].agent, msg |-> HighestClaim(s)'] \in signed'
    <2>1. /\ ticket'[s].cumulative = x.msg.cumulative
          /\ ticket'[s].nonce = x.msg.nonce
          /\ ticket'[s].expires = x.msg.expires
      BY <1>2 DEF Store!TicketOf
    <2>2. HighestClaim(s)' = x.msg
      BY <1>2, <2>1 DEF HighestClaim, Messages
    <2>3. Logged(s, ticket[s])'
      BY <1>2, <2>1 DEF Logged
    <2> QED
      BY <1>0, <1>2, <2>1, <2>2, <2>3
  <1> QED
    BY <1>0, <1>1, <1>2, TicketMoves

-----------------------------------------------------------------------------
(***************************************************************************)
(* Chain checks and flags.                                                 *)
(***************************************************************************)

\* A session found on chain stays there, with the fields that were found.
LEMMA OnChainStays ==
    ASSUME EscrowInv, Types, [Next]_vars, NEW s \in Sessions,
           NEW agent, NEW deposit, NEW expires,
           OnChain(s, agent, deposit, expires)
    PROVE  OnChain(s, agent, deposit, expires)'
  BY ProgramStep, ChainStays DEF OnChain

\* A check is new, or was there before.
LEMMA CheckSteps ==
    ASSUME [Next]_vars, NEW v \in verified'
    PROVE  \/ v \in verified
           \/ \E s \in Sessions, agent \in Agents \cup Strangers,
                 deposit \in Deposits, expires \in Expiries :
                 /\ OpenVerify(s, agent, deposit, expires)
                 /\ v = [for |-> "open", session |-> s, agent |-> agent,
                         deposit |-> deposit, expires |-> expires]
           \/ \E s \in Sessions :
                 /\ ReconcileVerify(s)
                 /\ v = [for |-> "reconcile", session |-> s]
  <1>1. \/ verified' \subseteq verified
        \/ \E s \in Sessions, agent \in Agents \cup Strangers,
              deposit \in Deposits, expires \in Expiries :
              OpenVerify(s, agent, deposit, expires)
        \/ \E s \in Sessions : ReconcileVerify(s)
    BY DEF Next, vars, gatewayVars, Outside, OpenTrusted, OpenSave, ReconcileMark,
           VerifyClaim, SettleRoot, SettleLoad, SettleSend, SettleMark, Land,
           Lose, Abandon, Restart
  <1>2. ASSUME NEW s \in Sessions, NEW agent \in Agents \cup Strangers,
               NEW deposit \in Deposits, NEW expires \in Expiries,
               OpenVerify(s, agent, deposit, expires), v \notin verified
        PROVE  v = [for |-> "open", session |-> s, agent |-> agent,
                    deposit |-> deposit, expires |-> expires]
    BY <1>2 DEF OpenVerify
  <1>3. ASSUME NEW s \in Sessions, ReconcileVerify(s), v \notin verified
        PROVE  v = [for |-> "reconcile", session |-> s]
    BY <1>3 DEF ReconcileVerify
  <1> QED
    BY <1>1, <1>2, <1>3

\* Checks hold until they are used: what was checked cannot change.
LEMMA ChecksNext ==
    ASSUME GatewayInv, [Next]_vars
    PROVE  ChecksStillHold' /\ verified' \subseteq Checks
  <1>0. /\ Types /\ HandlersFit /\ EscrowInv /\ ChecksStillHold
        /\ signed \subseteq Signable
    BY DEF GatewayInv, EscrowInv, EscrowTypeOK
  <1> SUFFICES ASSUME NEW v \in verified'
      PROVE  /\ v \in Checks
             /\ v.for = "open" => OnChain(v.session, v.agent, v.deposit, v.expires)'
             /\ v.for = "reconcile" =>
                    /\ row'[v.session].known
                    /\ OnChain(v.session, row[v.session].agent,
                          row[v.session].deposited_total, row[v.session].expires_at)'
    BY DEF ChecksStillHold
  <1>1. ASSUME NEW s \in Sessions, row[s].known,
               OnChain(s, row[s].agent, row[s].deposited_total, row[s].expires_at)
        PROVE  /\ row'[s].known
               /\ OnChain(s, row[s].agent, row[s].deposited_total, row[s].expires_at)'
    <2>1. PICK a, d, e : a = row[s].agent /\ d = row[s].deposited_total
                             /\ e = row[s].expires_at
      OBVIOUS
    <2>2. OnChain(s, a, d, e)'
      BY <1>0, <1>1, <2>1, OnChainStays
    <2>3. /\ row'[s].known /\ row'[s].agent = a /\ row'[s].deposited_total = d
          /\ row'[s].expires_at = e
      BY <1>0, <1>1, <2>1, StoreStays
    <2> QED
      BY <2>2, <2>3 DEF OnChain
  <1>2. CASE v \in verified
    <2>1. v \in Checks /\ v.session \in Sessions
      BY <1>0, <1>2 DEF Types, Checks
    <2>2. v.for = "open" => OnChain(v.session, v.agent, v.deposit, v.expires)'
      BY <1>0, <1>2, <2>1, OnChainStays DEF ChecksStillHold
    <2>3. v.for = "reconcile" =>
              /\ row[v.session].known
              /\ OnChain(v.session, row[v.session].agent,
                         row[v.session].deposited_total, row[v.session].expires_at)
      BY <1>0, <1>2 DEF ChecksStillHold
    <2> QED
      BY <1>1, <2>1, <2>2, <2>3
  <1>3. ASSUME NEW s \in Sessions, NEW agent \in Agents \cup Strangers,
               NEW deposit \in Deposits, NEW expires \in Expiries,
               OpenVerify(s, agent, deposit, expires),
               v = [for |-> "open", session |-> s, agent |-> agent,
                    deposit |-> deposit, expires |-> expires]
        PROVE  /\ v \in Checks /\ v.for = "open"
               /\ OnChain(v.session, v.agent, v.deposit, v.expires)'
    <2>1. /\ v \in Checks /\ v.for = "open" /\ v.session = s /\ v.agent = agent
          /\ v.deposit = deposit /\ v.expires = expires
      BY <1>3 DEF Checks
    <2>2. OnChain(s, agent, deposit, expires)
      BY <1>3 DEF OpenVerify, VerifyOnChainSession, OnChain
    <2> QED
      BY <1>0, <2>1, <2>2, OnChainStays
  <1>4. ASSUME NEW s \in Sessions, ReconcileVerify(s),
               v = [for |-> "reconcile", session |-> s]
        PROVE  /\ v \in Checks /\ v.for = "reconcile"
               /\ row'[v.session].known
               /\ OnChain(v.session, row[v.session].agent,
                          row[v.session].deposited_total, row[v.session].expires_at)'
    <2>1. v \in Checks /\ v.for = "reconcile" /\ v.session = s
      BY <1>4 DEF Checks
    <2>2. /\ row[s].known
          /\ OnChain(s, row[s].agent, row[s].deposited_total, row[s].expires_at)
      BY <1>4 DEF ReconcileVerify, VerifyOnChainSession, OnChain
    <2> QED
      BY <1>1, <2>1, <2>2
  <1> QED
    BY <1>2, <1>3, <1>4, CheckSteps

\* What one row may become in one step: opened, as the request or as the chain
\* says; marked settled by a handler whose settlement the chain confirmed; or
\* marked verified after a check that still holds.
LEMMA RowMoves ==
    ASSUME GatewayInv, [Next]_vars, NEW s \in Sessions
    PROVE  \/ row'[s] = row[s]
           \/ /\ ~ row[s].known /\ ~ row'[s].settled
              /\ row'[s].chain_verified =>
                     OnChain(s, row'[s].agent, row'[s].deposited_total,
                             row'[s].expires_at)
           \/ /\ row[s].known /\ row'[s].chain_verified = row[s].chain_verified
              /\ session[s].is_settled
           \/ /\ row[s].known /\ row'[s].settled = row[s].settled
              /\ OnChain(s, row[s].agent, row[s].deposited_total, row[s].expires_at)
  <1>0. Types /\ HandlersFit /\ ChecksStillHold /\ signed \subseteq Signable
    BY DEF GatewayInv, EscrowInv, EscrowTypeOK
  <1>1. CASE row' = row
    BY <1>1
  <1>2. ASSUME NEW r \in Sessions, NEW agent \in Agents \cup Strangers,
               NEW deposit \in Deposits, NEW expires \in Expiries,
               OpenTrusted(r, agent, deposit, expires), row'[s] # row[s]
        PROVE  ~ row[s].known /\ ~ row'[s].settled /\ ~ row'[s].chain_verified
    BY <1>0, <1>2, OpenRowEffect DEF OpenTrusted
  <1>3. ASSUME NEW v \in verified, OpenSave(v), row'[s] # row[s]
        PROVE  /\ ~ row[s].known /\ ~ row'[s].settled
               /\ OnChain(s, row'[s].agent, row'[s].deposited_total,
                          row'[s].expires_at)
    <2>1. /\ v.session \in Sessions /\ v.agent \in Agents \cup Strangers
          /\ v.deposit \in Deposits /\ v.expires \in Expiries
          /\ OnChain(v.session, v.agent, v.deposit, v.expires)
      BY <1>0, <1>3 DEF OpenSave, Types, Checks, ChecksStillHold
    <2>2. Store!OpenRow(v.session, v.agent, v.deposit, v.expires, TRUE)
      BY <1>3 DEF OpenSave, storeVars
    <2>3. /\ v.session = s /\ ~ row[s].known /\ ~ row'[s].settled
          /\ row'[s].agent = v.agent /\ row'[s].deposited_total = v.deposit
          /\ row'[s].expires_at = v.expires
      BY <1>0, <1>3, <2>1, <2>2, OpenRowEffect
    <2> QED
      BY <2>1, <2>3
  <1>4. ASSUME NEW v \in verified, ReconcileMark(v), row'[s] # row[s]
        PROVE  /\ row[s].known /\ row'[s].settled = row[s].settled
               /\ OnChain(s, row[s].agent, row[s].deposited_total, row[s].expires_at)
    <2>1. /\ v.session \in Sessions
          /\ OnChain(v.session, row[v.session].agent,
                     row[v.session].deposited_total, row[v.session].expires_at)
          /\ Store!MarkChainVerified(v.session)
      BY <1>0, <1>4 DEF ReconcileMark, Types, Checks, ChecksStillHold
    <2>2. v.session = s /\ row[s].known /\ row'[s].settled = row[s].settled
      BY <1>0, <1>4, <2>1, FlagEffect
    <2> QED
      BY <2>1, <2>2
  <1>5. ASSUME NEW w \in Workers, SettleMark(w), row'[s] # row[s]
        PROVE  /\ row[s].known /\ row'[s].chain_verified = row[s].chain_verified
               /\ session[s].is_settled
    <2>1. job[w].session \in Sessions /\ session[job[w].session].is_settled
      BY <1>0, <1>5 DEF SettleMark, MayMark, HandlersFit, HandlerFits, Transactions
    <2>2. Store!MarkSettled(job[w].session)
      BY <1>5 DEF SettleMark, storeVars
    <2>3. /\ job[w].session = s /\ row[s].known
          /\ row'[s].chain_verified = row[s].chain_verified
      BY <1>0, <1>5, <2>1, <2>2, FlagEffect
    <2> QED
      BY <2>1, <2>3
  <1>6. ASSUME NEW x \in signed, NEW t \in 0..now, VerifyClaim(x, t)
        PROVE  row' = row
    BY <1>0, <1>6, ClaimEffect
  <1> QED
    BY <1>1, <1>2, <1>3, <1>4, <1>5, <1>6, StoreSteps

\* The flags stay true: chain_verified because what it says is permanent, settled
\* because the chain's flag is.
LEMMA FlagsNext ==
    ASSUME GatewayInv, [Next]_vars
    PROVE  VerifiedRowsAreBacked' /\ SettledFollowsChain'
  <1>0. /\ Types /\ HandlersFit /\ EscrowInv /\ VerifiedRowsAreBacked
        /\ SettledFollowsChain /\ signed \subseteq Signable
        /\ \A s \in Sessions : session[s].is_settled => session'[s].is_settled
    BY ProgramStep, ChainStays DEF GatewayInv, EscrowInv, EscrowTypeOK
  <1>1. ASSUME NEW s \in Sessions, row'[s].known, row'[s].settled
        PROVE  session'[s].is_settled
    <2>1. CASE row'[s] = row[s]
      BY <1>0, <1>1, <2>1 DEF SettledFollowsChain
    <2>2. CASE session[s].is_settled
      BY <1>0, <2>2
    <2>3. CASE row[s].known /\ row'[s].settled = row[s].settled
      BY <1>0, <1>1, <2>3 DEF SettledFollowsChain
    <2> QED
      BY <1>1, <2>1, <2>2, <2>3, RowMoves
  <1>2. ASSUME NEW s \in Sessions, row'[s].known, row'[s].chain_verified
        PROVE  OnChain(s, row[s].agent, row[s].deposited_total, row[s].expires_at)'
    <2>1. PICK a, d, e : a = row'[s].agent /\ d = row'[s].deposited_total
                             /\ e = row'[s].expires_at
      OBVIOUS
    <2>2. row[s].known =>
              a = row[s].agent /\ d = row[s].deposited_total /\ e = row[s].expires_at
      BY <1>0, <2>1, StoreStays
    <2>3. OnChain(s, a, d, e)
      <3>1. ASSUME row[s].known, row[s].chain_verified PROVE OnChain(s, a, d, e)
        BY <1>0, <2>2, <3>1 DEF VerifiedRowsAreBacked, OnChain
      <3>2. CASE row'[s] = row[s]
        BY <1>2, <3>1, <3>2
      <3>3. CASE ~ row[s].known /\ OnChain(s, row'[s].agent,
                     row'[s].deposited_total, row'[s].expires_at)
        BY <2>1, <3>3
      <3>4. CASE row[s].known /\ row'[s].chain_verified = row[s].chain_verified
        BY <1>2, <3>1, <3>4
      <3>5. CASE row[s].known /\ OnChain(s, row[s].agent,
                     row[s].deposited_total, row[s].expires_at)
        BY <2>2, <3>5
      <3> QED
        BY <1>2, <3>2, <3>3, <3>4, <3>5, RowMoves
    <2>4. OnChain(s, a, d, e)'
      BY <1>0, <2>3, OnChainStays
    <2> QED
      BY <2>1, <2>4 DEF OnChain
  <1> QED
    BY <1>1, <1>2 DEF VerifiedRowsAreBacked, SettledFollowsChain, OnChain

-----------------------------------------------------------------------------
(***************************************************************************)
(* Settlement handlers and transactions in flight.                         *)
(***************************************************************************)

\* Eight actions touch them.
LEMMA SettleSteps ==
    ASSUME [Next]_vars
    PROVE  \/ pc' = pc /\ job' = job /\ inflight' = inflight
           \/ \E w \in Workers, s \in Sessions : SettleRoot(w, s)
           \/ \E w \in Workers : SettleLoad(w) \/ SettleSend(w)
           \/ \E w \in Workers : SettleMark(w)
           \/ \E w \in Workers : Abandon(w)
           \/ \E x \in inflight : Land(x) \/ Lose(x)
           \/ \E mode \in Modes : Restart(mode)
  BY DEF Next, vars, gatewayVars, settleVars, Outside, OpenVerify, OpenTrusted,
         OpenSave, ReconcileVerify, ReconcileMark, VerifyClaim

\* What is left of the transactions whose handlers end.
LEMMA OrphanFacts ==
    ASSUME Types, NEW W \in SUBSET Workers
    PROVE  /\ Orphaned(W) \subseteq Transactions
           /\ \A y \in Orphaned(W) : \E x \in inflight :
                  /\ y.session = x.session /\ y.claim = x.claim /\ y.root = x.root
                  /\ (y = x /\ x.by \notin W) \/ y.by = NoWorker
           /\ \A x \in inflight : x.by \notin W => x \in Orphaned(W)
  <1> DEFINE o(x) == [x EXCEPT !.by = IF x.by \in W THEN NoWorker ELSE x.by]
  <1>1. Orphaned(W) = {o(x) : x \in inflight}
    BY DEF Orphaned
  <1>2. \A x \in inflight : x \in Transactions
    BY DEF Types
  <1>3. ASSUME NEW x \in inflight
        PROVE  /\ o(x) \in Transactions
               /\ o(x).session = x.session /\ o(x).claim = x.claim
               /\ o(x).root = x.root
               /\ x.by \notin W => o(x) = x
               /\ x.by \in W => o(x).by = NoWorker
    BY <1>2 DEF Transactions
  <1> HIDE DEF o
  <1> QED
    BY <1>1, <1>3

\* A handler that is left alone still has what its stage needs.
LEMMA HandlerStays ==
    ASSUME GatewayInv, [Next]_vars, NEW w \in Workers,
           pc'[w] = pc[w], job'[w] = job[w],
           pc[w] = "sent" => job[w] \in inflight'
    PROVE  HandlerFits(w)'
  <1>0. /\ Types /\ HandlersFit /\ HandlerFits(w) /\ signed \subseteq Signable
        /\ \A s \in Sessions : session[s].is_settled => session'[s].is_settled
    BY ProgramStep, ChainStays DEF GatewayInv, HandlersFit, EscrowInv, EscrowTypeOK
  <1>1. PICK j : j = job[w]
    OBVIOUS
  <1>2. pc[w] = "rooted" => j.session \in Sessions /\ j.root \in 0..Len(log'[j.session])
    BY <1>0, <1>1, StoreStays DEF HandlerFits
  <1>3. pc[w] \in {"loaded", "sent", "confirmed"} =>
            j \in Transactions /\ j.by = w /\ j.session \in Sessions
    BY <1>0, <1>1 DEF HandlerFits, Transactions
  <1>4. pc[w] = "loaded" => Justified(j)'
    BY <1>0, <1>1, <1>3, LogStays DEF HandlerFits
  <1>5. pc[w] = "confirmed" => session'[j.session].is_settled
    BY <1>0, <1>1, <1>3 DEF HandlerFits
  <1>6. pc'[w] = pc[w] /\ job'[w] = j
    BY <1>1
  <1> QED
    BY <1>1, <1>2, <1>3, <1>4, <1>5, <1>6 DEF HandlerFits

\* An idle handler needs nothing.
LEMMA IdleFits ==
    ASSUME NEW w \in Workers, pc'[w] = "idle"
    PROVE  HandlerFits(w)'
  BY DEF HandlerFits

\* A transaction in flight stays justified.
LEMMA TransactionStays ==
    ASSUME GatewayInv, [Next]_vars, NEW x \in inflight
    PROVE  x \in Transactions /\ x.session \in Sessions /\ Justified(x)'
  <1>1. x \in Transactions /\ x.session \in Sessions
    BY DEF GatewayInv, Types, Transactions
  <1>2. Types /\ HandlersFit /\ Justified(x) /\ signed \subseteq Signable
    BY DEF GatewayInv, HandlersFit, EscrowInv, EscrowTypeOK
  <1> QED
    BY <1>1, <1>2, LogStays

\* A handler computes the root and loads the claim to settle.
LEMMA PrepareStep ==
    ASSUME GatewayInv, [Next]_vars, NEW w \in Workers,
           (\E s \in Sessions : SettleRoot(w, s)) \/ SettleLoad(w)
    PROVE  /\ pc' \in [Workers -> Stages] /\ DOMAIN job' = Workers
           /\ inflight' \subseteq Transactions /\ HandlersFit'
  <1>0. /\ Types /\ HandlersFit /\ TicketsAreSound
        /\ pc \in [Workers -> Stages] /\ DOMAIN job = Workers
        /\ inflight \subseteq Transactions
        /\ log \in [Sessions -> Seq(Store!Entries)]
    BY DEF GatewayInv, Types, Store!StoreTypeOK
  <1>1. /\ inflight' = inflight /\ row' = row /\ ticket' = ticket /\ log' = log
        /\ pc[w] # "sent"
    BY DEF SettleRoot, SettleLoad, storeVars
  <1>2. /\ pc' \in [Workers -> Stages] /\ DOMAIN job' = Workers
        /\ \A v \in Workers : v # w => pc'[v] = pc[v] /\ job'[v] = job[v]
    BY <1>0 DEF SettleRoot, SettleLoad, Stages
  <1>3. ASSUME NEW s \in Sessions, SettleRoot(w, s) PROVE HandlerFits(w)'
    <2> DEFINE j == [session |-> s, root |-> Len(log[s])]
    <2>1. pc'[w] = "rooted" /\ job'[w] = j
      BY <1>0, <1>3 DEF SettleRoot
    <2>2. j.session = s /\ j.root = Len(log[s])
      OBVIOUS
    <2> HIDE DEF j
    <2>3. Len(log[s]) \in 0..Len(log'[s])
      BY <1>0, <1>1
    <2> QED
      BY <2>1, <2>2, <2>3 DEF HandlerFits
  <1>4. ASSUME SettleLoad(w) PROVE HandlerFits(w)'
    <2> DEFINE s == job[w].session
               go == row[s].known /\ ~ row[s].settled /\ ticket[s].exists
               j == [by |-> w, session |-> s, agent |-> row[s].agent,
                     claim |-> HighestClaim(s), root |-> job[w].root]
    <2>1. s \in Sessions /\ job[w].root \in 0..Len(log[s])
      BY <1>0, <1>4 DEF SettleLoad, HandlersFit, HandlerFits
    <2>2. CASE ~ go
      <3>1. pc'[w] = "idle"
        BY <1>0, <1>4, <2>2 DEF SettleLoad
      <3> QED
        BY <3>1, IdleFits
    <2>3. CASE go
      <3>1. pc'[w] = "loaded" /\ job'[w] = j
        BY <1>0, <1>4, <2>3 DEF SettleLoad
      <3>2. HighestClaim(s) \in Messages
        BY <1>0, <2>1, <2>3, TicketType
      <3>3. row[s].agent \in Agents \cup Strangers
        BY <1>0, <2>1, <2>3, RowType DEF Store!SessionRows
      <3>4. job[w].root \in Roots
        <4>1. Len(log[s]) \in Nat /\ Len(log[s]) <= MaxLog
          BY <1>0, <2>1 DEF Types
        <4> QED
          BY <2>1, <4>1, GatewayAssumption
      <3>5. j \in Transactions
        BY <2>1, <3>2, <3>3, <3>4 DEF Transactions
      <3>6. /\ j.by = w /\ j.session = s /\ j.root = job[w].root
            /\ j.claim = HighestClaim(s)
        OBVIOUS
      <3>7. Logged(s, HighestClaim(s))
        <4>1. Logged(s, ticket[s])
          BY <1>0, <2>1, <2>3 DEF TicketsAreSound
        <4> QED
          BY <4>1 DEF Logged, HighestClaim
      <3>8. PICK k : k = j
        OBVIOUS
      <3> HIDE DEF j
      <3>9. Justified(k)'
        BY <1>1, <2>1, <3>6, <3>7, <3>8 DEF Justified, Logged
      <3> QED
        BY <3>1, <3>5, <3>6, <3>8, <3>9 DEF HandlerFits
    <2> QED
      BY <2>2, <2>3
  <1>5. ASSUME NEW v \in Workers, v # w PROVE HandlerFits(v)'
    <2>1. pc[v] = "sent" => job[v] \in inflight'
      BY <1>0, <1>1 DEF HandlersFit, HandlerFits
    <2> QED
      BY <1>2, <1>5, <2>1, HandlerStays
  <1>6. ASSUME NEW x \in inflight' PROVE Justified(x)' /\ OwnerWaits(x)'
    <2>1. x \in inflight /\ OwnerWaits(x)
      BY <1>0, <1>1 DEF HandlersFit
    <2>2. OwnerWaits(x)'
      BY <1>1, <1>2, <2>1 DEF OwnerWaits
    <2> QED
      BY <2>1, <2>2, TransactionStays
  <1> QED
    BY <1>0, <1>1, <1>2, <1>3, <1>4, <1>5, <1>6 DEF HandlersFit

\* The handler submits what it loaded; the transaction is then its own.
LEMMA SendStep ==
    ASSUME GatewayInv, [Next]_vars, NEW w \in Workers, SettleSend(w)
    PROVE  /\ pc' \in [Workers -> Stages] /\ DOMAIN job' = Workers
           /\ inflight' \subseteq Transactions /\ HandlersFit'
  <1>0. /\ Types /\ HandlersFit /\ HandlerFits(w)
        /\ pc \in [Workers -> Stages] /\ DOMAIN job = Workers
        /\ inflight \subseteq Transactions
    BY DEF GatewayInv, Types, HandlersFit
  <1>1. PICK j : j = job[w]
    OBVIOUS
  <1>2. /\ pc[w] = "loaded" /\ j \in Transactions /\ j.by = w /\ Justified(j)
        /\ j.session \in Sessions /\ log' = log
    BY <1>0, <1>1 DEF SettleSend, HandlerFits, Transactions, storeVars
  <1>3. /\ pc' \in [Workers -> Stages] /\ DOMAIN job' = Workers
        /\ \A v \in Workers : v # w => pc'[v] = pc[v] /\ job'[v] = job[v]
    BY <1>0 DEF SettleSend, Stages
  <1>4. \/ inflight' = inflight /\ pc'[w] = "idle"
        \/ inflight' = inflight \cup {j} /\ pc'[w] = "sent" /\ job'[w] = j
    BY <1>0, <1>1 DEF SettleSend
  <1>5. inflight' \subseteq Transactions
    BY <1>0, <1>2, <1>4
  <1>6. HandlerFits(w)'
    BY <1>2, <1>4, IdleFits DEF HandlerFits
  <1>7. ASSUME NEW v \in Workers, v # w PROVE HandlerFits(v)'
    <2>1. pc[v] = "sent" => job[v] \in inflight'
      BY <1>0, <1>4 DEF HandlersFit, HandlerFits
    <2> QED
      BY <1>3, <1>7, <2>1, HandlerStays
  <1>8. ASSUME NEW x \in inflight PROVE Justified(x)' /\ OwnerWaits(x)'
    <2>1. OwnerWaits(x)
      BY <1>0 DEF HandlersFit
    <2>2. OwnerWaits(x)'
      BY <1>2, <1>3, <2>1 DEF OwnerWaits
    <2> QED
      BY <2>2, TransactionStays
  <1>9. ASSUME inflight' = inflight \cup {j}, pc'[w] = "sent", job'[w] = j
        PROVE  Justified(j)' /\ OwnerWaits(j)'
    <2>1. OwnerWaits(j)'
      BY <1>2, <1>9 DEF OwnerWaits
    <2>2. Justified(j)'
      BY <1>2 DEF Justified, Logged
    <2> QED
      BY <2>1, <2>2
  <1>10. \A x \in inflight' : Justified(x)' /\ OwnerWaits(x)'
    BY <1>4, <1>8, <1>9
  <1> QED
    BY <1>3, <1>5, <1>6, <1>7, <1>10 DEF HandlersFit

\* The transaction lands or is lost, and its handler, if it still waits, learns
\* which; no other handler does.
LEMMA OutcomeStep ==
    ASSUME GatewayInv, [Next]_vars, NEW x \in inflight, Land(x) \/ Lose(x)
    PROVE  /\ pc' \in [Workers -> Stages] /\ DOMAIN job' = Workers
           /\ inflight' \subseteq Transactions /\ HandlersFit'
  <1>0. /\ Types /\ HandlersFit /\ EscrowInv
        /\ pc \in [Workers -> Stages] /\ DOMAIN job = Workers
        /\ inflight \subseteq Transactions
        /\ session \in [Sessions -> SessionAccounts]
    BY DEF GatewayInv, Types, HandlersFit, EscrowInv, EscrowTypeOK
  <1>1. x \in Transactions /\ x.session \in Sessions /\ OwnerWaits(x)
    BY <1>0 DEF HandlersFit, Transactions
  <1>2. inflight' = inflight \ {x}
    BY DEF Land, Lose
  <1>3. /\ pc' \in [Workers -> Stages] /\ DOMAIN job' = Workers
        /\ \A w \in Workers : w # x.by => pc'[w] = pc[w] /\ job'[w] = job[w]
    BY <1>0 DEF Land, Lose, WaitingFor, Stages
  <1>4. ASSUME NEW y \in inflight, y # x, y.by \in Workers PROVE y.by # x.by
    BY <1>0, <1>1, <1>4 DEF HandlersFit, OwnerWaits
  <1>5. ASSUME NEW w \in Workers, w = x.by PROVE HandlerFits(w)'
    <2>1. job[w] = x
      BY <1>1, <1>5 DEF OwnerWaits
    <2>2. CASE Lose(x)
      <3>1. pc'[w] = "idle"
        BY <1>5, <2>2 DEF Lose, WaitingFor
      <3> QED
        BY <3>1, IdleFits
    <2>3. CASE Land(x)
      <3>1. pc'[w] = "confirmed" /\ job'[w] = x
        BY <1>5, <2>1, <2>3 DEF Land, WaitingFor
      <3>2. session'[x.session].is_settled
        BY <1>0, <1>1, <2>3 DEF Land, SettleSession, SessionAccounts
      <3> QED
        BY <1>1, <1>5, <3>1, <3>2 DEF HandlerFits
    <2> QED
      BY <2>2, <2>3
  <1>6. ASSUME NEW w \in Workers, w # x.by PROVE HandlerFits(w)'
    <2>1. pc[w] = "sent" => job[w] \in inflight /\ job[w].by = w
      BY <1>0 DEF HandlersFit, HandlerFits
    <2>2. pc[w] = "sent" => job[w] \in inflight'
      BY <1>2, <1>6, <2>1
    <2> QED
      BY <1>3, <1>6, <2>2, HandlerStays
  <1>7. ASSUME NEW y \in inflight' PROVE Justified(y)' /\ OwnerWaits(y)'
    <2>1. y \in inflight /\ y # x /\ OwnerWaits(y)
      BY <1>0, <1>2, <1>7 DEF HandlersFit
    <2>2. OwnerWaits(y)'
      BY <1>3, <1>4, <2>1 DEF OwnerWaits
    <2> QED
      BY <2>1, <2>2, TransactionStays
  <1>8. inflight' \subseteq Transactions
    BY <1>0, <1>2
  <1> QED
    BY <1>3, <1>5, <1>6, <1>7, <1>8 DEF HandlersFit

\* Handlers end: after booking the settlement, early, or all of them at once
\* with the process.  Their transactions are nobody's from then on.
LEMMA EndStep ==
    ASSUME GatewayInv, [Next]_vars, NEW W \in SUBSET Workers,
           \A w \in Workers \ W : pc'[w] = pc[w] /\ job'[w] = job[w],
           \A w \in W : pc'[w] = "idle",
           pc' \in [Workers -> Stages], DOMAIN job' = Workers,
           \/ inflight' = Orphaned(W)
           \/ inflight' = inflight /\ \A w \in W : pc[w] # "sent"
    PROVE  inflight' \subseteq Transactions /\ HandlersFit'
  <1>0. /\ Types /\ HandlersFit /\ inflight \subseteq Transactions
        /\ NoWorker \notin Workers
    BY GatewayAssumption DEF GatewayInv, Types
  <1>1. /\ inflight' \subseteq Transactions
        /\ \A y \in inflight' : \E x \in inflight :
               /\ y.session = x.session /\ y.claim = x.claim /\ y.root = x.root
               /\ y.by \in Workers => y = x /\ y.by \notin W
        /\ \A x \in inflight : x.by \notin W => x \in inflight'
    <2>1. CASE inflight' = Orphaned(W)
      BY <1>0, <2>1, OrphanFacts
    <2>2. CASE inflight' = inflight /\ \A w \in W : pc[w] # "sent"
      <3>1. \A x \in inflight : x.by \notin W
        BY <1>0, <2>2 DEF HandlersFit, OwnerWaits
      <3> QED
        BY <1>0, <2>2, <3>1
    <2> QED
      BY <2>1, <2>2
  <1>2. ASSUME NEW w \in Workers PROVE HandlerFits(w)'
    <2>1. CASE w \in W
      BY <2>1, IdleFits
    <2>2. CASE w \notin W
      <3>1. pc[w] = "sent" => job[w] \in inflight'
        BY <1>0, <1>1, <2>2 DEF HandlersFit, HandlerFits
      <3> QED
        BY <2>2, <3>1, HandlerStays
    <2> QED
      BY <2>1, <2>2
  <1>3. ASSUME NEW y \in inflight' PROVE Justified(y)' /\ OwnerWaits(y)'
    <2>1. PICK x \in inflight :
               /\ y.session = x.session /\ y.claim = x.claim /\ y.root = x.root
               /\ y.by \in Workers => y = x /\ y.by \notin W
      BY <1>1
    <2>2. Justified(x)' /\ OwnerWaits(x)
      BY <1>0, TransactionStays DEF HandlersFit
    <2>3. Justified(y)'
      BY <2>1, <2>2 DEF Justified, Logged
    <2>4. OwnerWaits(y)'
      BY <2>1, <2>2 DEF OwnerWaits
    <2> QED
      BY <2>3, <2>4
  <1> QED
    BY <1>1, <1>2, <1>3 DEF HandlersFit

\* Handlers and transactions always fit.
LEMMA HandlersNext ==
    ASSUME GatewayInv, [Next]_vars
    PROVE  /\ pc' \in [Workers -> Stages] /\ DOMAIN job' = Workers
           /\ inflight' \subseteq Transactions /\ HandlersFit'
  <1> DEFINE Goal == /\ pc' \in [Workers -> Stages] /\ DOMAIN job' = Workers
                     /\ inflight' \subseteq Transactions /\ HandlersFit'
  <1>0. /\ pc \in [Workers -> Stages] /\ DOMAIN job = Workers /\ "idle" \in Stages
    BY DEF GatewayInv, Types, Stages
  <1>1. ASSUME pc' = pc, job' = job, inflight' = inflight PROVE Goal
    <2>1. PICK W \in SUBSET Workers : W = {}
      OBVIOUS
    <2>2. /\ \A w \in W : pc'[w] = "idle" /\ pc[w] # "sent"
          /\ \A w \in Workers \ W : pc'[w] = pc[w] /\ job'[w] = job[w]
          /\ pc' \in [Workers -> Stages] /\ DOMAIN job' = Workers
      BY <1>0, <1>1, <2>1
    <2> QED
      BY <1>1, <2>2, EndStep
  <1>2. ASSUME NEW w \in Workers, SettleMark(w) PROVE Goal
    <2>1. /\ pc' = [pc EXCEPT ![w] = "idle"] /\ job' = [job EXCEPT ![w] = Idle]
          /\ inflight' = inflight /\ pc[w] = "confirmed"
      BY <1>2 DEF SettleMark, MayMark
    <2>2. /\ pc' \in [Workers -> Stages] /\ DOMAIN job' = Workers
          /\ \A v \in Workers \ {w} : pc'[v] = pc[v] /\ job'[v] = job[v]
          /\ \A v \in {w} : pc'[v] = "idle" /\ pc[v] # "sent"
      BY <1>0, <2>1
    <2>3. {w} \in SUBSET Workers
      OBVIOUS
    <2> QED
      BY <2>1, <2>2, <2>3, EndStep
  <1>3. ASSUME NEW w \in Workers, Abandon(w) PROVE Goal
    <2>1. /\ pc' = [pc EXCEPT ![w] = "idle"] /\ job' = [job EXCEPT ![w] = Idle]
          /\ inflight' = Orphaned({w})
      BY <1>3 DEF Abandon
    <2>2. /\ pc' \in [Workers -> Stages] /\ DOMAIN job' = Workers
          /\ \A v \in Workers \ {w} : pc'[v] = pc[v] /\ job'[v] = job[v]
          /\ \A v \in {w} : pc'[v] = "idle"
      BY <1>0, <2>1
    <2>3. {w} \in SUBSET Workers
      OBVIOUS
    <2> QED
      BY <2>1, <2>2, <2>3, EndStep
  <1>4. ASSUME NEW mode \in Modes, Restart(mode) PROVE Goal
    <2>1. /\ pc' = [w \in Workers |-> "idle"] /\ job' = [w \in Workers |-> Idle]
          /\ inflight' = Orphaned(Workers)
      BY <1>4 DEF Restart
    <2>2. /\ pc' \in [Workers -> Stages] /\ DOMAIN job' = Workers
          /\ \A v \in Workers \ Workers : pc'[v] = pc[v] /\ job'[v] = job[v]
          /\ \A v \in Workers : pc'[v] = "idle"
      BY <1>0, <2>1
    <2>3. Workers \in SUBSET Workers
      OBVIOUS
    <2> QED
      BY <2>1, <2>2, <2>3, EndStep
  <1>5. ASSUME NEW w \in Workers, NEW s \in Sessions, SettleRoot(w, s) PROVE Goal
    BY <1>5, PrepareStep
  <1>6. ASSUME NEW w \in Workers, SettleLoad(w) PROVE Goal
    BY <1>6, PrepareStep
  <1>7. ASSUME NEW w \in Workers, SettleSend(w) PROVE Goal
    BY <1>7, SendStep
  <1>8. ASSUME NEW x \in inflight, Land(x) \/ Lose(x) PROVE Goal
    BY <1>8, OutcomeStep
  <1> HIDE DEF Goal
  <1>9. Goal
    BY <1>1, <1>2, <1>3, <1>4, <1>5, <1>6, <1>7, <1>8, SettleSteps
  <1> QED
    BY <1>9 DEF Goal

-----------------------------------------------------------------------------
(***************************************************************************)
(* Receipts, and the theorems.                                             *)
(***************************************************************************)

\* A receipt on chain is the provider's own, or one the log justifies.
LEMMA ReceiptsNext ==
    ASSUME GatewayInv, [Next]_vars
    PROVE  SettledClaimIsInLog'
  <1>0. /\ Types /\ HandlersFit /\ EscrowInv /\ SettledClaimIsInLog
        /\ signed \subseteq Signable
        /\ record \in [Sessions -> {NoRecord} \cup SettlementRecords]
        /\ NoRecord.exists = FALSE
    BY DEF GatewayInv, EscrowInv, EscrowTypeOK, NoRecord
  <1> DEFINE Shown(s, r) ==
           /\ r.root <= Len(log'[s])
           /\ \E i \in DOMAIN log'[s] : /\ log'[s][i].decision = "Allowed"
                                        /\ log'[s][i].cumulative = r.claim.cumulative
                                        /\ log'[s][i].nonce = r.claim.nonce
  <1> SUFFICES ASSUME NEW s \in Sessions, record'[s].exists,
                      record'[s].root # ForeignRoot
               PROVE  Shown(s, record'[s])
    BY DEF SettledClaimIsInLog
  <1>1. CASE record'[s] = record[s]
    <2>1. PICK r : r = record[s]
      OBVIOUS
    <2>2. r.root <= Len(log[s]) /\ Logged(s, r.claim)
      BY <1>0, <1>1, <2>1 DEF SettledClaimIsInLog, Logged
    <2>3. r.root \in Nat
      <3>1. r \in SettlementRecords /\ r.root # ForeignRoot
        BY <1>0, <1>1, <2>1
      <3> QED
        BY <3>1, GatewayAssumption DEF SettlementRecords
    <2>4. /\ Len(log[s]) \in Nat /\ Len(log'[s]) \in Nat
          /\ Len(log[s]) <= Len(log'[s])
      BY <1>0, StoreStays
    <2>5. r.root <= Len(log'[s])
      BY <2>2, <2>3, <2>4
    <2>6. Logged(s, r.claim)'
      BY <1>0, <2>2, LogStays
    <2> QED
      BY <1>1, <2>1, <2>5, <2>6 DEF Logged
  <1>2. ASSUME NEW t \in Sessions, NEW settler, NEW m, NEW root,
               SettleSession(t, settler, m, root), record'[s] # record[s]
        PROVE  /\ s = t /\ record'[s].root = root
               /\ record'[s].claim.cumulative = m.cumulative
               /\ record'[s].claim.nonce = m.nonce
    <2>1. record' = [record EXCEPT ![t] = RecordAfter(t, ExpectedClaim(t, m), root)]
      BY <1>2 DEF SettleSession
    <2>2. s = t /\ record'[s] = RecordAfter(t, ExpectedClaim(t, m), root)
      BY <1>0, <1>2, <2>1
    <2> QED
      BY <2>2 DEF RecordAfter, ExpectedClaim
  <1>3. CASE Outside
    <2>1. \/ record' = record
          \/ \E t \in Sessions, x \in signed :
                 SettleSession(t, t.provider, x.msg, ForeignRoot)
      BY <1>3 DEF Outside, Tick, SignClaim, OpenSession, RefundSession
    <2> QED
      BY <1>1, <1>2, <2>1
  <1>4. ASSUME NEW x \in inflight, Land(x), record'[s] # record[s]
        PROVE  Shown(s, record'[s])
    <2>1. x \in Transactions /\ x.session \in Sessions /\ Justified(x)'
      BY TransactionStays
    <2>2. SettleSession(x.session, GatewayKey, x.claim, x.root)
      BY <1>4 DEF Land
    <2>3. /\ s = x.session /\ record'[s].root = x.root
          /\ record'[s].claim.cumulative = x.claim.cumulative
          /\ record'[s].claim.nonce = x.claim.nonce
      BY <1>2, <1>4, <2>1, <2>2
    <2>4. x.root \in 0..Len(log'[s]) /\ Logged(s, x.claim)'
      BY <2>1, <2>3 DEF Justified
    <2>5. record'[s].root <= Len(log'[s])
      BY <2>3, <2>4
    <2> QED
      BY <2>3, <2>4, <2>5 DEF Logged
  <1>5. CASE UNCHANGED chainVars
    BY <1>1, <1>5 DEF chainVars
  <1> QED
    BY <1>1, <1>3, <1>4, <1>5, ChainSteps

\* The initial state: nothing on chain, nothing in the store, nobody at work.
LEMMA GatewayInit == Init => GatewayInv
  <1> SUFFICES ASSUME Init PROVE GatewayInv
    OBVIOUS
  <1>0. /\ Store!NoRow.known = FALSE /\ Store!NoTicket.exists = FALSE
        /\ NoRecord.exists = FALSE
    BY DEF Store!NoRow, Store!NoTicket, NoRecord
  <1>1. EscrowInv
    BY InitInv DEF Init
  <1>2. \A s \in Sessions : /\ row[s] = Store!NoRow /\ ticket[s] = Store!NoTicket
                            /\ log[s] = << >> /\ record[s] = NoRecord
    BY DEF Init, Store!StoreInit, EscrowInit
  <1>3. Types
    <2>1. Store!StoreTypeOK
      BY DEF Init, Store!StoreInit, Store!StoreTypeOK
    <2>2. \A s \in Sessions : Len(log[s]) <= MaxLog
      BY <1>2, GatewayAssumption
    <2>3. trust \in BOOLEAN
      BY GatewayAssumption DEF Init
    <2> QED
      BY <2>1, <2>2, <2>3 DEF Init, Types, Stages
  <1>4. TicketsAreSound /\ VerifiedRowsAreBacked /\ SettledFollowsChain
        /\ SettledClaimIsInLog
    BY <1>0, <1>2
       DEF TicketsAreSound, VerifiedRowsAreBacked, SettledFollowsChain,
           SettledClaimIsInLog
  <1>5. ChecksStillHold /\ HandlersFit
    BY DEF Init, ChecksStillHold, HandlersFit, HandlerFits
  <1> QED
    BY <1>1, <1>3, <1>4, <1>5 DEF GatewayInv

\* The invariant holds throughout.
LEMMA GatewayInvariance == Spec => []GatewayInv
  <1>1. GatewayInv /\ [Next]_vars => GatewayInv'
    <2> SUFFICES ASSUME GatewayInv, [Next]_vars PROVE GatewayInv'
      OBVIOUS
    <2>0. Types /\ HandlersFit /\ EscrowInv /\ signed \subseteq Signable
      BY DEF GatewayInv, EscrowInv, EscrowTypeOK
    <2>1. EscrowInv'
      BY <2>0, ProgramStep, NextInv
    <2>2. trust' \in BOOLEAN
      BY <2>0, GatewayAssumption
         DEF Types, Next, vars, gatewayVars, Outside, OpenVerify, OpenTrusted,
             OpenSave, ReconcileVerify, ReconcileMark, VerifyClaim, SettleRoot,
             SettleLoad, SettleSend, SettleMark, Land, Lose, Abandon, Restart
    <2>3. Types'
      BY <2>0, <2>2, StoreTypes, ChecksNext, HandlersNext DEF Types
    <2> QED
      BY <2>1, <2>3, TicketsNext, ChecksNext, FlagsNext, HandlersNext, ReceiptsNext
         DEF GatewayInv
  <1> QED
    BY <1>1, GatewayInit, PTL DEF Spec

\* The gateway, whatever it does and in whatever order, uses the program only as
\* its instructions allow: everything proved of EscrowSpec holds of the whole.
THEOREM GatewayUsesProgram == Spec => EscrowSpec
  <1>1. Init => EscrowInit
    BY DEF Init
  <1>2. GatewayInv /\ [Next]_vars => [EscrowNext]_chainVars
    BY ProgramStep DEF GatewayInv
  <1> QED
    BY <1>1, <1>2, GatewayInvariance, PTL DEF Spec, EscrowSpec

\* Hence whatever the gateway, the agents and the providers do together, a session
\* pays out and returns as the escrow promise says.
THEOREM CompositionKeepsPromise == Spec => PromiseKept
  BY GatewayUsesProgram, ProgramKeepsPromise

\* Likewise the gateway uses its store only through the store's operations, with
\* the arguments these expect: what ClaimStoreProofs shows of StoreSpec holds of
\* the tables of the whole.
THEOREM GatewayUsesStore == Spec => Store!StoreSpec
  <1>1. Init => Store!StoreInit
    BY DEF Init
  <1>2. ASSUME GatewayInv, [Next]_vars
        PROVE  [Store!StoreNext]_(Store!storeVars)
    <2>0. /\ Types /\ HandlersFit /\ signed \subseteq Signable
          /\ now \in 0..MaxTime /\ MaxTime \in Nat
      BY <1>2, ConstantsAssumption DEF GatewayInv, EscrowInv, EscrowTypeOK
    <2>1. CASE row' = row /\ ticket' = ticket /\ log' = log
      BY <2>1 DEF Store!storeVars
    <2>2. ASSUME NEW s \in Sessions, NEW agent \in Agents \cup Strangers,
                 NEW deposit \in Deposits, NEW expires \in Expiries,
                 OpenTrusted(s, agent, deposit, expires)
          PROVE  Store!StoreNext
      BY <2>2 DEF OpenTrusted, Store!StoreNext
    <2>3. ASSUME NEW v \in verified, OpenSave(v)
          PROVE  Store!StoreNext \/ UNCHANGED storeVars
      <3>1. /\ v.session \in Sessions /\ v.agent \in Agents \cup Strangers
            /\ v.deposit \in Deposits /\ v.expires \in Expiries
        BY <2>0, <2>3 DEF OpenSave, Types, Checks
      <3> QED
        BY <2>3, <3>1 DEF OpenSave, Store!StoreNext
    <2>4. ASSUME NEW v \in verified, ReconcileMark(v)
          PROVE  Store!StoreNext
      <3>1. v.session \in Sessions
        BY <2>0, <2>4 DEF Types, Checks
      <3> QED
        BY <2>4, <3>1 DEF ReconcileMark, Store!StoreNext
    <2>5. ASSUME NEW w \in Workers, SettleMark(w)
          PROVE  Store!StoreNext \/ UNCHANGED storeVars
      <3>1. job[w].session \in Sessions
        BY <2>0, <2>5 DEF SettleMark, MayMark, HandlersFit, HandlerFits, Transactions
      <3> QED
        BY <2>5, <3>1 DEF SettleMark, Store!StoreNext
    <2>6. ASSUME NEW x \in signed, NEW t \in 0..now, VerifyClaim(x, t)
          PROVE  Store!StoreNext
      <3>1. x.msg \in {y.msg : y \in Signable} /\ t \in 0..MaxTime
        BY <2>0
      <3> QED
        BY <2>6, <3>1 DEF VerifyClaim, Store!StoreNext
    <2> QED
      BY <1>2, <2>1, <2>2, <2>3, <2>4, <2>5, <2>6, StoreSteps
         DEF storeVars, Store!storeVars
  <1> QED
    BY <1>1, <1>2, GatewayInvariance, PTL DEF Spec, Store!StoreSpec

\* The flag means what it says, although the row and the chain check that
\* raises it are read at different times.
THEOREM VerifiedMeansBacked == Spec => []VerifiedRowsAreBacked
  <1>1. GatewayInv => VerifiedRowsAreBacked
    BY DEF GatewayInv
  <1> QED
    BY <1>1, GatewayInvariance, PTL

\* Accepting a claim never extends credit.
THEOREM AcceptanceIsEscrowed == Spec => []AcceptedIsEscrowed
  <1>1. GatewayInv => AcceptedIsEscrowed
    <2> SUFFICES ASSUME GatewayInv, NEW s \in Sessions,
                        row[s].known, row[s].chain_verified,
                        ~ session[s].is_settled,
                        now <= session[s].expires_at + ClockSkew
                 PROVE  vault[s] >= ticket[s].cumulative
      BY DEF AcceptedIsEscrowed
    <2>1. /\ session[s].open /\ session[s] \in SessionAccounts
          /\ row[s].deposited_total = session[s].deposited_total
          /\ now \in Nat /\ ClockSkew \in Nat /\ vault[s] \in Nat
      BY ConstantsAssumption
         DEF GatewayInv, VerifiedRowsAreBacked, EscrowInv, EscrowTypeOK
    <2>2. ~ Expired(s)
      BY <2>1 DEF Expired, SessionAccounts
    <2>3. vault[s] = session[s].deposited_total
      BY <2>1, <2>2
         DEF GatewayInv, EscrowInv, VaultMatchesBooks, Fresh, RefundCloses,
             SessionAccounts
    <2>4. CASE ticket[s].exists
      <3>1. ticket[s].cumulative <= row[s].deposited_total
        BY <2>4 DEF GatewayInv, TicketsAreSound
      <3>2. ticket[s].cumulative \in Nat
        BY <2>4, TicketType DEF GatewayInv, Store!Tickets
      <3> QED
        BY <2>1, <2>3, <3>1, <3>2
    <2>5. CASE ~ ticket[s].exists
      <3>1. ticket[s] = Store!NoTicket
        BY <2>5 DEF GatewayInv, Types, Store!StoreTypeOK, Store!Tickets
      <3>2. ticket[s].cumulative = 0
        BY <3>1 DEF Store!NoTicket
      <3> QED
        BY <2>1, <3>2
    <2> QED
      BY <2>4, <2>5
  <1> QED
    BY <1>1, GatewayInvariance, PTL

\* Whatever the gateway would submit, the program can verify.
THEOREM AcceptanceIsSigned == Spec => []AcceptedClaimIsSigned
  <1>1. GatewayInv => AcceptedClaimIsSigned
    <2> SUFFICES ASSUME GatewayInv, NEW s \in Sessions,
                        row[s].known, row[s].chain_verified, ticket[s].exists
                 PROVE  [signer |-> s.agent, msg |-> HighestClaim(s)] \in signed
      BY DEF AcceptedClaimIsSigned
    <2>1. row[s].agent = s.agent
      BY DEF GatewayInv, VerifiedRowsAreBacked
    <2>2. [signer |-> row[s].agent, msg |-> HighestClaim(s)] \in signed
      BY DEF GatewayInv, TicketsAreSound
    <2> QED
      BY <2>1, <2>2
  <1> QED
    BY <1>1, GatewayInvariance, PTL

\* A settlement is booked only when the chain has it, and exactly the handlers
\* that wait have a transaction in flight.
THEOREM BookedAfterChain == Spec => []MarkedOnlyAfterChain
  <1>1. GatewayInv => MarkedOnlyAfterChain
    <2> SUFFICES ASSUME GatewayInv PROVE MarkedOnlyAfterChain
      OBVIOUS
    <2>1. ASSUME NEW w \in Workers
          PROVE  pc[w] = "sent" <=> \E x \in inflight : x.by = w
      <3>1. ASSUME pc[w] = "sent" PROVE \E x \in inflight : x.by = w
        BY <3>1 DEF GatewayInv, HandlersFit, HandlerFits
      <3>2. ASSUME NEW x \in inflight, x.by = w PROVE pc[w] = "sent"
        BY <3>2 DEF GatewayInv, HandlersFit, OwnerWaits
      <3> QED
        BY <3>1, <3>2
    <2> QED
      BY <2>1 DEF GatewayInv, Types, Stages, SettledFollowsChain, GatewayTypeOK,
                  MarkedOnlyAfterChain
  <1> QED
    BY <1>1, GatewayInvariance, PTL

\* What the gateway settled is in its evidence, under the root it committed.
THEOREM SettlementsAreEvidenced == Spec => []SettledClaimIsInLog
  <1>1. GatewayInv => SettledClaimIsInLog
    BY DEF GatewayInv
  <1> QED
    BY <1>1, GatewayInvariance, PTL
=============================================================================
