--------------------------- MODULE ClaimTxProofs ----------------------------
(***************************************************************************)
(* Proofs about ClaimTx, for every number of requests, claims and rows: the*)
(* transactions of admit_claim implement the atomic store of ClaimStore,   *)
(* and what a caller was told stays true.                                  *)
(***************************************************************************)
EXTENDS ClaimTx, ClaimStoreProofs

\* The stages in which a transaction holds its session row, and those in which
\* it has read the ticket, too.
Holding == {"locked", "read", "tailed", "inserted", "ready"}
Informed == {"read", "tailed", "inserted", "ready"}

Args == [claim : Claims, at : Times]
Views == [row : {NoRow} \cup SessionRows, ticket : {NoTicket} \cup Tickets]

\* The variables of the transactions hold values of their types, and a request
\* that has begun has a claim and an instant.
TxTypes ==
    /\ pc \in [Requests -> Stages]
    /\ arg \in [Requests -> {<< >>} \cup Args]
    /\ seen \in [Requests -> Views]
    /\ tail \in [Requests -> Nat]
    /\ lock \in [Rows -> Requests \cup {Nobody}]
    /\ reply \in [Requests -> Replies]
    /\ \A q \in Requests : pc[q] # "idle" => arg[q] \in Args

\* A transaction past its first SELECT holds the row of its own session, and a
\* lock is only ever held by such a transaction.
LockDiscipline ==
    /\ \A q \in Requests : pc[q] \in Holding => lock[Key(q)] = q
    /\ \A s \in Rows : lock[s] # Nobody =>
           pc[lock[s]] \in Holding /\ Key(lock[s]) = s

\* What a transaction has read is what the tables hold: nobody changes row and
\* ticket of a session under the lock.
ViewIsCurrent ==
    \A q \in Requests :
        /\ pc[q] \in Holding =>
               row[Key(q)].known /\ seen[q].row = row[Key(q)]
        /\ pc[q] \in Informed => seen[q].ticket = ticket[Key(q)]

\* Only a claim that fits its columns is about to be committed as accepted.
ReadyIsStorable ==
    \A q \in Requests :
        /\ pc[q] = "inserted" => Verdict(q) = "Allowed"
        /\ pc[q] = "ready" /\ Verdict(q) = "Allowed" => Storable(arg[q].claim)

\* A caller is told something only at the end.
AnsweredAtTheEnd == \A q \in Requests : reply[q] # "None" => pc[q] = "done"

\* Two accepted requests of one session never have the same amount.
AmountsDiffer ==
    \A p, q \in Requests :
        /\ p # q
        /\ reply[p] = "Allowed" /\ reply[q] = "Allowed"
        /\ Key(p) = Key(q)
        => arg[p].claim.cumulative # arg[q].claim.cumulative

\* The inductive invariant: that of the store, and the above.
TxInv ==
    /\ StoreInv
    /\ TxTypes
    /\ LockDiscipline
    /\ ViewIsCurrent
    /\ ReadyIsStorable
    /\ AnsweredAtTheEnd
    /\ AcceptedIsDurable
    /\ AmountsDiffer

-----------------------------------------------------------------------------
\* A request that has begun has a claim on a row, with amounts.
LEMMA ArgTypes ==
    ASSUME TxTypes, NEW q \in Requests, pc[q] # "idle"
    PROVE  /\ arg[q] \in Args
           /\ arg[q].claim \in Claims /\ arg[q].at \in Times
           /\ arg[q].claim \in ClaimTypes
           /\ Key(q) \in Rows
           /\ arg[q].claim.cumulative \in Nat
  <1>1. arg[q] \in Args
    BY DEF TxTypes
  <1>2. arg[q].claim \in Claims /\ arg[q].at \in Times
    BY <1>1 DEF Args
  <1>3. arg[q].claim \in ClaimTypes
    BY <1>2, StoreAssumption
  <1> QED
    BY <1>1, <1>2, <1>3 DEF ClaimTypes, Key

\* Two transactions that hold a row hold different rows.
LEMMA HoldersDiffer ==
    ASSUME LockDiscipline, NEW p \in Requests, NEW q \in Requests, p # q,
           pc[p] \in Holding, pc[q] \in Holding
    PROVE  Key(p) # Key(q)
  BY DEF LockDiscipline

\* The ticket of a session has an amount.
LEMMA TicketAmount ==
    ASSUME StoreInv, NEW s \in Rows
    PROVE  ticket[s].cumulative \in Nat
  <1>1. ticket[s] \in {NoTicket} \cup Tickets
    BY DEF StoreInv, StoreTypeOK
  <1>2. NoTicket.cumulative = 0
    BY DEF NoTicket
  <1>3. \A k \in Tickets : k.cumulative \in Nat
    BY DEF Tickets
  <1> QED
    BY <1>1, <1>2, <1>3

-----------------------------------------------------------------------------
(***************************************************************************)
(* The refinement, step by step.                                           *)
(***************************************************************************)

\* COMMIT is the atomic acceptance or refusal of the claim, or no step at all:
\* under the lock, the verdict reached on what was read is the verdict on what
\* is there.
LEMMA CommitRefines ==
    ASSUME TxInv, NEW q \in Requests, Commit(q)
    PROVE  \/ Verdict(q) = "Allowed" /\ AcceptClaim(arg[q].claim, arg[q].at)
           \/ Verdict(q) # "Allowed" /\ RefuseClaim(arg[q].claim, arg[q].at)
           \/ Verdict(q) # "Allowed" /\ UNCHANGED storeVars
  <1> DEFINE s == Key(q)
             c == arg[q].claim
             d == Verdict(q)
  <1>1. pc[q] = "ready" /\ s = c.session /\ s \in Rows
    BY ArgTypes DEF Commit, Key, TxInv
  <1>2. d = EvaluateClaim(row[s], ticket[s], c, arg[q].at) /\ row[s].known
    BY <1>1 DEF Verdict, TxInv, ViewIsCurrent, Holding, Informed
  <1>3. d = "Allowed" => Storable(c)
    BY <1>1 DEF TxInv, ReadyIsStorable
  <1>4. /\ log' = [log EXCEPT ![s] =
               IF Recorded(d) THEN Append(@, Entry(d, c)) ELSE @]
        /\ ticket' = [ticket EXCEPT ![s] =
               IF d = "Allowed" THEN TicketOf(c) ELSE @]
        /\ row' = row
    BY DEF Commit, Finish
  <1>5. log = [log EXCEPT ![s] = @] /\ ticket = [ticket EXCEPT ![s] = @]
    BY DEF TxInv, StoreInv, StoreTypeOK
  <1> HIDE DEF s, c, d
  <1>6. CASE d = "Allowed"
    <2>1. Recorded(d)
      BY <1>6 DEF Recorded
    <2> QED
      BY <1>1, <1>2, <1>3, <1>4, <1>6, <2>1 DEF AcceptClaim, s, c, d
  <1>7. CASE d # "Allowed" /\ Recorded(d)
    <2>1. RefuseClaim(c, arg[q].at)
      BY <1>1, <1>2, <1>4, <1>5, <1>7 DEF RefuseClaim
    <2> QED
      BY <2>1, <1>7 DEF c, d
  <1>8. CASE ~ Recorded(d)
    <2>1. d # "Allowed"
      BY <1>8 DEF Recorded
    <2> QED
      BY <2>1, <1>4, <1>5, <1>8 DEF storeVars, d
  <1> QED
    BY <1>6, <1>7, <1>8

\* Every step of the transactions is a step of the atomic store, or none.
LEMMA StepRefines ==
    ASSUME TxInv, [TxNext]_vars
    PROVE  [StoreNext]_storeVars
  <1>1. CASE UNCHANGED vars
    BY <1>1 DEF vars, storeVars
  <1>2. ASSUME NEW q \in Requests, NEW c \in Claims, NEW t \in Times,
               Begin(q, c, t)
        PROVE  UNCHANGED storeVars
    BY <1>2 DEF Begin, storeVars
  <1>3. ASSUME NEW q \in Requests,
               \/ FindNoRow(q) \/ LockRow(q) \/ ReadTicket(q) \/ ReadTail(q)
               \/ InsertEntry(q) \/ UpsertTicket(q) \/ Abort(q)
        PROVE  UNCHANGED storeVars
    BY <1>3 DEF FindNoRow, LockRow, ReadTicket, ReadTail, InsertEntry,
                UpsertTicket, Abort, RollBack, Finish, storeVars
  <1>4. ASSUME NEW q \in Requests, Commit(q)
        PROVE  StoreNext \/ UNCHANGED storeVars
    <2>1. arg[q].claim \in Claims /\ arg[q].at \in Times
      BY <1>4, ArgTypes DEF Commit, TxInv
    <2> QED
      BY <1>4, <2>1, CommitRefines DEF StoreNext
  <1>5. ASSUME NEW s \in Rows, UpdateRow(s)
        PROVE  StoreNext
    BY <1>5 DEF UpdateRow, StoreNext
  <1>6. ASSUME NEW s \in Rows, NEW agent \in AgentKeys, NEW deposit \in Amounts,
               NEW expires \in Expiries, NEW verified \in BOOLEAN,
               InsertRow(s, agent, deposit, expires, verified)
        PROVE  StoreNext
    BY <1>6 DEF InsertRow, StoreNext
  <1> QED
    BY <1>1, <1>2, <1>3, <1>4, <1>5, <1>6 DEF TxNext, Statement

-----------------------------------------------------------------------------
(***************************************************************************)
(* The invariant, action by action.                                        *)
(***************************************************************************)

\* The initial state satisfies TxInv.
LEMMA TxInitInv == TxInit => TxInv
  <1> SUFFICES ASSUME TxInit PROVE TxInv
    OBVIOUS
  <1>1. StoreInv
    BY StoreInitInv DEF TxInit
  <1>2. NothingSeen \in Views
    BY DEF NothingSeen, Views
  <1>3. /\ \A q \in Requests : pc[q] = "idle" /\ reply[q] = "None"
        /\ \A s \in Rows : lock[s] = Nobody
    BY DEF TxInit
  <1>4. TxTypes
    BY <1>2, <1>3 DEF TxInit, TxTypes, Stages, Replies
  <1>5. LockDiscipline /\ ViewIsCurrent /\ ReadyIsStorable
    BY <1>3 DEF LockDiscipline, ViewIsCurrent, ReadyIsStorable, Holding, Informed
  <1>6. AnsweredAtTheEnd /\ AcceptedIsDurable /\ AmountsDiffer
    BY <1>3 DEF AnsweredAtTheEnd, AcceptedIsDurable, AmountsDiffer
  <1> QED
    BY <1>1, <1>4, <1>5, <1>6 DEF TxInv

\* A step of request q leaves the other requests alone.
OthersKeep(q) ==
    \A p \in Requests : p # q =>
        /\ pc'[p] = pc[p] /\ arg'[p] = arg[p]
        /\ seen'[p] = seen[p] /\ reply'[p] = reply[p]

\* What the others are about to do, and under which key, stays as it is.
LEMMA OthersJudgeAlike ==
    ASSUME NEW q \in Requests, OthersKeep(q)
    PROVE  \A p \in Requests : p # q =>
               Key(p)' = Key(p) /\ Verdict(p)' = Verdict(p)
  BY DEF OthersKeep, Key, Verdict

\* A step of q that does not touch mark and log, and does not tell q that its
\* claim is accepted, keeps what others were told true.
LEMMA AnswersKept ==
    ASSUME TxInv, NEW q \in Requests, OthersKeep(q),
           ticket' = ticket, log' = log, reply'[q] # "Allowed"
    PROVE  AcceptedIsDurable' /\ AmountsDiffer'
  <1>1. \A p \in Requests : reply'[p] = "Allowed" =>
            p # q /\ reply[p] = "Allowed" /\ arg'[p] = arg[p] /\ Key(p)' = Key(p)
    BY OthersJudgeAlike DEF OthersKeep
  <1>2. AcceptedIsDurable'
    BY <1>1 DEF TxInv, AcceptedIsDurable
  <1>3. AmountsDiffer'
    BY <1>1 DEF TxInv, AmountsDiffer
  <1> QED
    BY <1>2, <1>3

\* A step of q that leaves row and ticket alone keeps the others' views current
\* and their claims storable.
LEMMA OthersStayInformed ==
    ASSUME TxInv, NEW q \in Requests, OthersKeep(q),
           row' = row, ticket' = ticket
    PROVE  \A p \in Requests : p # q =>
               /\ pc'[p] \in Holding =>
                      row'[Key(p)'].known /\ seen'[p].row = row'[Key(p)']
               /\ pc'[p] \in Informed => seen'[p].ticket = ticket'[Key(p)']
               /\ pc'[p] = "inserted" => Verdict(p)' = "Allowed"
               /\ pc'[p] = "ready" /\ Verdict(p)' = "Allowed" =>
                      Storable(arg'[p].claim)
  BY OthersJudgeAlike
     DEF OthersKeep, TxInv, ViewIsCurrent, ReadyIsStorable

\* A caller sends a request.
LEMMA BeginInv ==
    ASSUME TxInv, StoreInv', NEW q \in Requests, NEW c \in Claims, NEW t \in Times,
           Begin(q, c, t)
    PROVE  TxInv'
  <1> DEFINE a == [claim |-> c, at |-> t]
  <1>1. a \in Args
    BY DEF Args
  <1>2. /\ pc' = [pc EXCEPT ![q] = "begun"] /\ pc[q] = "idle"
        /\ arg' = [arg EXCEPT ![q] = a]
        /\ row' = row /\ ticket' = ticket /\ log' = log /\ seen' = seen
        /\ tail' = tail /\ lock' = lock /\ reply' = reply
    BY DEF Begin
  <1> HIDE DEF a
  <1>3. /\ TxTypes /\ "begun" \in Stages
    BY DEF TxInv, Stages
  <1>4. TxTypes'
    BY <1>1, <1>2, <1>3 DEF TxTypes
  <1>5. OthersKeep(q) /\ pc'[q] = "begun"
    BY <1>2, <1>3 DEF TxTypes, OthersKeep
  <1>6. reply[q] = "None"
    BY <1>2 DEF TxInv, AnsweredAtTheEnd
  <1>7. LockDiscipline'
    <2>1. pc[q] \notin Holding /\ pc'[q] \notin Holding
      BY <1>2, <1>5 DEF Holding
    <2>2. \A s \in Rows : lock[s] # Nobody => lock[s] \in Requests /\ lock[s] # q
      BY <1>3, <2>1 DEF TxInv, TxTypes, LockDiscipline
    <2> QED
      BY <1>2, <1>5, <2>1, <2>2, OthersJudgeAlike
         DEF TxInv, LockDiscipline, OthersKeep
  <1>8. ViewIsCurrent' /\ ReadyIsStorable'
    BY <1>2, <1>5, OthersStayInformed
       DEF ViewIsCurrent, ReadyIsStorable, Holding, Informed
  <1>9. AnsweredAtTheEnd'
    BY <1>2, <1>5, <1>6 DEF TxInv, AnsweredAtTheEnd, OthersKeep
  <1>10. AcceptedIsDurable' /\ AmountsDiffer'
    BY <1>2, <1>5, <1>6, AnswersKept
  <1> QED
    BY <1>4, <1>7, <1>8, <1>9, <1>10 DEF TxInv

\* The end of a transaction, whatever it leaves in the tables: its lock is given
\* back, and the locks of the others stay.
LEMMA FinishKeepsOrder ==
    ASSUME TxInv, NEW q \in Requests, NEW answer \in Replies,
           Finish(q, answer), pc[q] # "idle"
    PROVE  /\ TxTypes' /\ LockDiscipline' /\ AnsweredAtTheEnd'
           /\ OthersKeep(q) /\ pc'[q] = "done" /\ reply'[q] = answer
           /\ arg' = arg /\ row' = row
  <1>1. /\ pc' = [pc EXCEPT ![q] = "done"]
        /\ reply' = [reply EXCEPT ![q] = answer]
        /\ seen' = [seen EXCEPT ![q] = NothingSeen]
        /\ tail' = [tail EXCEPT ![q] = 0]
        /\ lock' = [s \in Rows |-> IF lock[s] = q THEN Nobody ELSE lock[s]]
        /\ row' = row /\ arg' = arg
    BY DEF Finish, Release
  <1>2. NothingSeen \in Views
    BY DEF NothingSeen, Views
  <1>3. TxTypes /\ "done" \in Stages
    BY DEF TxInv, Stages
  <1>4. TxTypes'
    BY <1>1, <1>2, <1>3 DEF TxTypes
  <1>5. OthersKeep(q) /\ pc'[q] = "done" /\ reply'[q] = answer
    BY <1>1, <1>3 DEF TxTypes, OthersKeep
  <1>6. LockDiscipline'
    <2>1. \A s \in Rows : lock'[s] # Nobody => lock'[s] = lock[s] /\ lock[s] # q
      BY <1>1
    <2>2. \A s \in Rows : lock[s] # Nobody => lock[s] \in Requests
      BY <1>3 DEF TxTypes
    <2>3. \A s \in Rows : lock[s] # q => lock'[s] = lock[s]
      BY <1>1
    <2>4. \A p \in Requests : p # q /\ pc[p] \in Holding => Key(p) \in Rows
      BY <1>3, ArgTypes DEF Holding
    <2> QED
      BY <1>5, <2>1, <2>2, <2>3, <2>4, OthersJudgeAlike
         DEF TxInv, LockDiscipline, Holding, OthersKeep
  <1>7. AnsweredAtTheEnd'
    BY <1>5 DEF TxInv, AnsweredAtTheEnd, OthersKeep
  <1> QED
    BY <1>1, <1>4, <1>5, <1>6, <1>7

\* A transaction that is rolled back.
LEMMA RollBackInv ==
    ASSUME TxInv, StoreInv', NEW q \in Requests,
           NEW answer \in Replies \ {"Allowed"},
           RollBack(q, answer), pc[q] # "idle"
    PROVE  TxInv'
  <1>1. Finish(q, answer) /\ ticket' = ticket /\ log' = log
    BY DEF RollBack
  <1>2. /\ TxTypes' /\ LockDiscipline' /\ AnsweredAtTheEnd'
        /\ OthersKeep(q) /\ pc'[q] = "done" /\ reply'[q] = answer
        /\ row' = row
    BY <1>1, FinishKeepsOrder
  <1>3. ViewIsCurrent' /\ ReadyIsStorable'
    BY <1>1, <1>2, OthersStayInformed
       DEF ViewIsCurrent, ReadyIsStorable, Holding, Informed
  <1>4. AcceptedIsDurable' /\ AmountsDiffer'
    BY <1>1, <1>2, AnswersKept
  <1> QED
    BY <1>2, <1>3, <1>4 DEF TxInv

\* SELECT ... FOR UPDATE takes a free row and reads it.
LEMMA LockRowInv ==
    ASSUME TxInv, StoreInv', NEW q \in Requests, LockRow(q)
    PROVE  TxInv'
  <1> DEFINE k == Key(q)
             v == [seen[q] EXCEPT !.row = row[k]]
  <1>1. TxTypes /\ pc[q] = "begun" /\ k \in Rows /\ "locked" \in Stages
    BY ArgTypes DEF TxInv, LockRow, Stages
  <1>2. /\ pc' = [pc EXCEPT ![q] = "locked"]
        /\ lock' = [lock EXCEPT ![k] = q]
        /\ seen' = [seen EXCEPT ![q] = v]
        /\ row' = row /\ ticket' = ticket /\ log' = log /\ arg' = arg
        /\ tail' = tail /\ reply' = reply
        /\ lock[k] = Nobody /\ row[k].known
    BY <1>1 DEF LockRow, RowFree, TxTypes
  <1>3. v \in Views /\ v.row = row[k]
    <2>1. row[k] \in {NoRow} \cup SessionRows
      BY <1>1 DEF TxInv, StoreInv, StoreTypeOK
    <2>2. seen[q] \in Views
      BY <1>1 DEF TxTypes
    <2> HIDE DEF k
    <2> QED
      BY <2>1, <2>2 DEF Views
  <1> HIDE DEF v
  <1>4. TxTypes'
    BY <1>1, <1>2, <1>3 DEF TxTypes
  <1>5. /\ OthersKeep(q) /\ pc'[q] = "locked" /\ seen'[q].row = row[k]
        /\ Key(q)' = k /\ reply'[q] = reply[q]
    BY <1>1, <1>2, <1>3 DEF TxTypes, OthersKeep, Key
  <1>6. /\ lock'[k] = q
        /\ \A s \in Rows : s # k => lock'[s] = lock[s]
    BY <1>1, <1>2 DEF TxTypes
  <1>7. LockDiscipline'
    <2>1. \A s \in Rows : s # k /\ lock[s] # Nobody =>
              lock[s] \in Requests /\ lock[s] # q
      BY <1>1 DEF TxInv, TxTypes, LockDiscipline, Holding
    <2>2. \A p \in Requests : p # q /\ pc[p] \in Holding => Key(p) # k
      BY <1>2, NobodyAssumption DEF TxInv, LockDiscipline
    <2>3. \A p \in Requests : pc[p] \in Holding => Key(p) \in Rows
      BY <1>1, ArgTypes DEF Holding
    <2> HIDE DEF k
    <2>4. (\A p \in Requests : pc[p] \in Holding => lock[Key(p)] = p)'
      BY <1>5, <1>6, <2>2, <2>3, OthersJudgeAlike
         DEF TxInv, LockDiscipline, OthersKeep
    <2>5. (\A s \in Rows : lock[s] # Nobody =>
              pc[lock[s]] \in Holding /\ Key(lock[s]) = s)'
      BY <1>5, <1>6, <2>1, OthersJudgeAlike
         DEF TxInv, LockDiscipline, Holding, OthersKeep
    <2> QED
      BY <2>4, <2>5 DEF LockDiscipline
  <1>8. ViewIsCurrent' /\ ReadyIsStorable'
    BY <1>2, <1>5, OthersStayInformed
       DEF ViewIsCurrent, ReadyIsStorable, Holding, Informed
  <1>9. reply[q] = "None"
    BY <1>1 DEF TxInv, AnsweredAtTheEnd
  <1>10. AnsweredAtTheEnd'
    BY <1>2, <1>5, <1>9 DEF TxInv, AnsweredAtTheEnd, OthersKeep
  <1>11. AcceptedIsDurable' /\ AmountsDiffer'
    BY <1>2, <1>5, <1>9, AnswersKept
  <1> QED
    BY <1>4, <1>7, <1>8, <1>10, <1>11 DEF TxInv

\* A statement that moves a transaction on under its lock.
LEMMA AdvanceInv ==
    ASSUME TxInv, StoreInv', NEW q \in Requests, pc[q] \in Holding,
           NEW l \in Holding, NEW v \in Views,
           pc' = [pc EXCEPT ![q] = l],
           seen' = [seen EXCEPT ![q] = v],
           tail' \in [Requests -> Nat],
           row' = row, ticket' = ticket, log' = log,
           arg' = arg, lock' = lock, reply' = reply,
           v.row = seen[q].row,
           l \in Informed => v.ticket = ticket[Key(q)],
           l = "inserted" => Verdict(q)' = "Allowed",
           l = "ready" /\ Verdict(q)' = "Allowed" => Storable(arg[q].claim)
    PROVE  TxInv'
  <1>1. TxTypes /\ l \in Stages /\ pc[q] # "idle" /\ pc[q] # "done"
    BY DEF TxInv, Holding, Stages
  <1>2. TxTypes'
    BY <1>1 DEF TxTypes
  <1>3. /\ OthersKeep(q) /\ pc'[q] = l /\ seen'[q] = v
        /\ Key(q)' = Key(q)
    BY <1>1 DEF TxTypes, OthersKeep, Key
  <1>4. LockDiscipline'
    <2>1. \A p \in Requests : Key(p)' = Key(p) /\ (pc'[p] \in Holding <=> pc[p] \in Holding)
      BY <1>3, OthersJudgeAlike DEF OthersKeep
    <2>2. \A s \in Rows : lock[s] # Nobody => lock[s] \in Requests
      BY <1>1 DEF TxTypes
    <2> QED
      BY <2>1, <2>2 DEF TxInv, LockDiscipline
  <1>5. ViewIsCurrent' /\ ReadyIsStorable'
    <2>1. row[Key(q)].known /\ v.row = row[Key(q)]
      BY DEF TxInv, ViewIsCurrent
    <2> QED
      BY <1>3, <2>1, OthersStayInformed
         DEF ViewIsCurrent, ReadyIsStorable
  <1>6. reply[q] = "None"
    BY <1>1 DEF TxInv, AnsweredAtTheEnd
  <1>7. AnsweredAtTheEnd'
    BY <1>3, <1>6 DEF TxInv, AnsweredAtTheEnd, OthersKeep
  <1>8. AcceptedIsDurable' /\ AmountsDiffer'
    BY <1>3, <1>6, AnswersKept
  <1> QED
    BY <1>2, <1>4, <1>5, <1>7, <1>8 DEF TxInv

\* A statement that reads nothing keeps the view and the verdict.
LEMMA ViewKept ==
    ASSUME TxTypes, NEW q \in Requests, seen' = seen, arg' = arg
    PROVE  /\ seen[q] \in Views
           /\ seen' = [seen EXCEPT ![q] = seen[q]]
           /\ Verdict(q)' = Verdict(q)
  BY DEF TxTypes, Verdict

\* The statements under the lock that go on, each an instance of AdvanceInv.
LEMMA ReadTicketInv ==
    ASSUME TxInv, StoreInv', NEW q \in Requests, ReadTicket(q)
    PROVE  TxInv'
  <1> DEFINE v == [seen[q] EXCEPT !.ticket = ticket[Key(q)]]
  <1>1. TxTypes /\ pc[q] = "locked" /\ Key(q) \in Rows
    BY ArgTypes DEF TxInv, ReadTicket
  <1>2. /\ pc' = [pc EXCEPT ![q] = "read"] /\ seen' = [seen EXCEPT ![q] = v]
        /\ row' = row /\ ticket' = ticket /\ log' = log /\ arg' = arg
        /\ tail' = tail /\ lock' = lock /\ reply' = reply
    BY <1>1 DEF ReadTicket, TxTypes
  <1>3. v \in Views /\ v.row = seen[q].row /\ v.ticket = ticket[Key(q)]
    <2>1. ticket[Key(q)] \in {NoTicket} \cup Tickets
      BY <1>1 DEF TxInv, StoreInv, StoreTypeOK
    <2>2. seen[q] \in Views
      BY <1>1 DEF TxTypes
    <2> QED
      BY <2>1, <2>2 DEF Views
  <1>4. tail' \in [Requests -> Nat]
    BY <1>1, <1>2 DEF TxTypes
  <1>5. pc[q] \in Holding /\ "read" \in Holding
    BY <1>1 DEF Holding
  <1> HIDE DEF v
  <1> QED
    BY <1>2, <1>3, <1>4, <1>5, AdvanceInv

LEMMA ReadTailInv ==
    ASSUME TxInv, StoreInv', NEW q \in Requests, ReadTail(q)
    PROVE  TxInv'
  <1> DEFINE l == IF Recorded(Verdict(q)) THEN "tailed" ELSE "ready"
             n == Len(log[Key(q)])
  <1>1. TxTypes /\ pc[q] = "read" /\ Key(q) \in Rows
    BY ArgTypes DEF TxInv, ReadTail
  <1>2. /\ pc' = [pc EXCEPT ![q] = l] /\ seen' = seen
        /\ tail' = [tail EXCEPT ![q] = n]
        /\ row' = row /\ ticket' = ticket /\ log' = log /\ arg' = arg
        /\ lock' = lock /\ reply' = reply
    BY DEF ReadTail
  <1>3. n \in Nat
    BY <1>1 DEF TxInv, StoreInv, StoreTypeOK
  <1>4. l \in Holding /\ pc[q] \in Holding /\ pc[q] \in Informed
    BY <1>1 DEF Holding, Informed
  <1>5. l # "inserted" /\ (l = "ready" => Verdict(q) # "Allowed")
    BY DEF Recorded
  <1> HIDE DEF l, n
  <1>6. tail' \in [Requests -> Nat]
    BY <1>1, <1>2, <1>3 DEF TxTypes
  <1>7. seen[q].ticket = ticket[Key(q)]
    BY <1>4 DEF TxInv, ViewIsCurrent
  <1> QED
    BY <1>1, <1>2, <1>4, <1>5, <1>6, <1>7, ViewKept, AdvanceInv

LEMMA InsertEntryInv ==
    ASSUME TxInv, StoreInv', NEW q \in Requests, InsertEntry(q)
    PROVE  TxInv'
  <1> DEFINE l == IF Verdict(q) = "Allowed" THEN "inserted" ELSE "ready"
  <1>1. TxTypes /\ pc[q] = "tailed"
    BY DEF TxInv, InsertEntry
  <1>2. CASE RollBack(q, "Error")
    BY <1>1, <1>2, RollBackInv DEF Replies
  <1>3. CASE /\ pc' = [pc EXCEPT ![q] = l] /\ seen' = seen /\ tail' = tail
             /\ row' = row /\ ticket' = ticket /\ log' = log /\ arg' = arg
             /\ lock' = lock /\ reply' = reply
    <2>1. l \in Holding /\ pc[q] \in Holding /\ pc[q] \in Informed
      BY <1>1 DEF Holding, Informed
    <2>2. /\ l = "inserted" => Verdict(q) = "Allowed"
          /\ l = "ready" => Verdict(q) # "Allowed"
      OBVIOUS
    <2> HIDE DEF l
    <2>3. tail' \in [Requests -> Nat] /\ seen[q].ticket = ticket[Key(q)]
      BY <1>1, <1>3, <2>1 DEF TxTypes, TxInv, ViewIsCurrent
    <2> QED
      BY <1>1, <1>3, <2>1, <2>2, <2>3, ViewKept, AdvanceInv
  <1> QED
    BY <1>2, <1>3 DEF InsertEntry

LEMMA UpsertTicketInv ==
    ASSUME TxInv, StoreInv', NEW q \in Requests, UpsertTicket(q)
    PROVE  TxInv'
  <1>1. TxTypes /\ pc[q] = "inserted"
    BY DEF TxInv, UpsertTicket
  <1>2. CASE RollBack(q, "Error") \/ RollBack(q, "NotMonotonic")
    BY <1>1, <1>2, RollBackInv DEF Replies, Refusals
  <1>3. CASE /\ pc' = [pc EXCEPT ![q] = "ready"] /\ seen' = seen /\ tail' = tail
             /\ row' = row /\ ticket' = ticket /\ log' = log /\ arg' = arg
             /\ lock' = lock /\ reply' = reply
             /\ Storable(arg[q].claim)
    <2>1. "ready" \in Holding /\ pc[q] \in Holding /\ pc[q] \in Informed
      BY <1>1 DEF Holding, Informed
    <2>2. tail' \in [Requests -> Nat] /\ seen[q].ticket = ticket[Key(q)]
      BY <1>1, <1>3, <2>1 DEF TxTypes, TxInv, ViewIsCurrent
    <2> QED
      BY <1>1, <1>3, <2>1, <2>2, ViewKept, AdvanceInv
  <1> QED
    BY <1>2, <1>3 DEF UpsertTicket

\* COMMIT: the ticket of the session rises above everything accepted before, and
\* no other transaction holds that session.
LEMMA CommitInv ==
    ASSUME TxInv, StoreInv', NEW q \in Requests, Commit(q)
    PROVE  TxInv'
  <1> DEFINE k == Key(q)
             c == arg[q].claim
  <1>1. /\ TxTypes /\ pc[q] = "ready" /\ k \in Rows /\ k = c.session
        /\ c \in ClaimTypes /\ c.cumulative \in Nat
    BY ArgTypes DEF TxInv, Commit, Key
  <1>2. PICK answer \in {Verdict(q), "Error"} : Finish(q, answer)
    BY DEF Commit
  <1>3. answer \in Replies
    BY VerdictType DEF Replies, Verdict
  <1>4. /\ TxTypes' /\ LockDiscipline' /\ AnsweredAtTheEnd'
        /\ OthersKeep(q) /\ pc'[q] = "done" /\ reply'[q] = answer
        /\ arg' = arg /\ row' = row
    BY <1>1, <1>2, <1>3, FinishKeepsOrder
  <1>5. \A s \in Rows : s # k => log'[s] = log[s] /\ ticket'[s] = ticket[s]
    BY <1>1 DEF Commit, TxInv, StoreInv, StoreTypeOK
  <1>6. \A p \in Requests : p # q /\ pc[p] \in Holding => Key(p) \in Rows /\ Key(p) # k
    BY <1>1, ArgTypes, HoldersDiffer DEF TxInv, Holding
  <1>7. ViewIsCurrent'
    BY <1>4, <1>5, <1>6, OthersJudgeAlike
       DEF TxInv, ViewIsCurrent, OthersKeep, Holding, Informed
  <1>8. ReadyIsStorable'
    BY <1>4, OthersJudgeAlike DEF TxInv, ReadyIsStorable, OthersKeep
  <1>9. log[k] \in Seq(Entries) /\ log'[k] \in Seq(Entries)
    BY <1>1 DEF TxInv, StoreInv, StoreTypeOK
  <1>10. \/ /\ Verdict(q) = "Allowed" /\ Forward(ticket[k], c) /\ Storable(c)
            /\ log'[k] = Append(log[k], Entry("Allowed", c))
            /\ ticket'[k] = TicketOf(c)
         \/ /\ Verdict(q) # "Allowed" /\ ticket'[k] = ticket[k]
            /\ \/ log'[k] = log[k]
               \/ \E e \in Entries : log'[k] = Append(log[k], e)
    <2>1. log'[k] = IF Recorded(Verdict(q))
                    THEN Append(log[k], Entry(Verdict(q), c)) ELSE log[k]
      BY <1>1 DEF Commit, TxInv, StoreInv, StoreTypeOK
    <2>2. ticket'[k] = IF Verdict(q) = "Allowed" THEN TicketOf(c) ELSE ticket[k]
      BY <1>1 DEF Commit, TxInv, StoreInv, StoreTypeOK
    <2>3. CASE Verdict(q) = "Allowed"
      <3>1. Storable(c) /\ Recorded(Verdict(q))
        BY <1>1, <2>3 DEF TxInv, ReadyIsStorable, Recorded
      <3>2. Forward(seen[q].ticket, c) /\ seen[q].ticket = ticket[k]
        BY <1>1, <2>3, AllowedMeans
           DEF TxInv, ViewIsCurrent, Informed, Verdict
      <3> QED
        BY <2>1, <2>2, <2>3, <3>1, <3>2
    <2>4. CASE Verdict(q) # "Allowed"
      <3>1. Recorded(Verdict(q)) => Entry(Verdict(q), c) \in Entries
        BY <1>1, <2>4, EntryType, VerdictType DEF Recorded, Decisions, Verdict
      <3> QED
        BY <2>1, <2>2, <2>4, <3>1
    <2> QED
      BY <2>3, <2>4
  <1>11. Entry("Allowed", c) \in Entries
    BY <1>1, EntryType DEF Decisions
  <1>12. /\ ticket[k].cumulative \in Nat /\ ticket'[k].cumulative \in Nat
         /\ ticket'[k].cumulative >= ticket[k].cumulative
         /\ Verdict(q) = "Allowed" =>
                /\ ticket'[k].cumulative = c.cumulative
                /\ c.cumulative > ticket[k].cumulative
    <2>1. ticket[k].cumulative \in Nat
      BY <1>1, TicketAmount DEF TxInv
    <2>2. TicketOf(c).cumulative = c.cumulative
      BY DEF TicketOf
    <2>3. c.cumulative \in Nat
      BY <1>1
    <2> HIDE DEF k, c
    <2>4. CASE Verdict(q) = "Allowed"
      <3>1. ticket'[k].cumulative = c.cumulative
        BY <1>10, <2>2, <2>4
      <3>2. c.cumulative > ticket[k].cumulative
        BY <1>10, <2>4 DEF Forward
      <3> QED
        BY <2>1, <2>3, <3>1, <3>2
    <2>5. CASE Verdict(q) # "Allowed"
      BY <1>10, <2>1, <2>5
    <2> QED
      BY <2>4, <2>5
  <1>13. /\ \A i \in DOMAIN log[k] : i \in DOMAIN log'[k] /\ log'[k][i] = log[k][i]
         /\ Verdict(q) = "Allowed" =>
                \E i \in DOMAIN log'[k] : log'[k][i] = Entry("Allowed", c)
    <2> HIDE DEF k, c
    <2>1. CASE log'[k] = log[k] /\ Verdict(q) # "Allowed"
      BY <2>1
    <2>2. ASSUME NEW e \in Entries, log'[k] = Append(log[k], e),
                 Verdict(q) = "Allowed" => e = Entry("Allowed", c)
          PROVE  /\ \A i \in DOMAIN log[k] :
                        i \in DOMAIN log'[k] /\ log'[k][i] = log[k][i]
                 /\ Verdict(q) = "Allowed" =>
                        \E i \in DOMAIN log'[k] : log'[k][i] = Entry("Allowed", c)
      BY <1>9, <2>2, AppendPositions
    <2> QED
      BY <1>10, <1>11, <2>1, <2>2
  <1>14. \A p \in Requests : reply'[p] = "Allowed" =>
             \/ p = q /\ Verdict(q) = "Allowed"
             \/ /\ p # q /\ reply[p] = "Allowed" /\ Key(p) \in Rows
                /\ ticket[Key(p)].cumulative >= arg[p].claim.cumulative
                /\ arg[p].claim.cumulative \in Nat
    <2> SUFFICES ASSUME NEW p \in Requests, reply'[p] = "Allowed", p # q
                 PROVE  /\ reply[p] = "Allowed" /\ Key(p) \in Rows
                        /\ ticket[Key(p)].cumulative >= arg[p].claim.cumulative
                        /\ arg[p].claim.cumulative \in Nat
      BY <1>2, <1>4
    <2>1. reply[p] = "Allowed"
      BY <1>4 DEF OthersKeep
    <2>2. pc[p] # "idle"
      BY <2>1 DEF TxInv, AnsweredAtTheEnd
    <2> QED
      BY <1>1, <2>1, <2>2, ArgTypes DEF TxInv, AcceptedIsDurable
  <1>15. \A p \in Requests : Key(p)' = Key(p) /\ arg'[p] = arg[p]
    BY <1>4 DEF Key
  <1>16. AcceptedIsDurable'
    <2> SUFFICES ASSUME NEW p \in Requests, reply'[p] = "Allowed"
                 PROVE  /\ ticket'[Key(p)].cumulative >= arg[p].claim.cumulative
                        /\ \E i \in DOMAIN log'[Key(p)] :
                               log'[Key(p)][i] = Entry("Allowed", arg[p].claim)
      BY <1>15 DEF AcceptedIsDurable
    <2>1. CASE p = q /\ Verdict(q) = "Allowed"
      BY <1>1, <1>12, <1>13, <2>1
    <2>2. CASE p # q /\ reply[p] = "Allowed"
      <3>1. PICK i \in DOMAIN log[Key(p)] :
                    log[Key(p)][i] = Entry("Allowed", arg[p].claim)
        BY <2>2 DEF TxInv, AcceptedIsDurable
      <3>2. CASE Key(p) # k
        BY <1>5, <1>14, <2>2, <3>1, <3>2
      <3>3. CASE Key(p) = k
        <4>1. i \in DOMAIN log'[k] /\ log'[k][i] = log[k][i]
          BY <1>13, <3>1, <3>3
        <4>2. /\ ticket[k].cumulative >= arg[p].claim.cumulative
              /\ arg[p].claim.cumulative \in Nat
          BY <1>14, <2>2, <3>3
        <4>3. ticket'[k].cumulative >= ticket[k].cumulative
              /\ ticket'[k].cumulative \in Nat
          BY <1>12
        <4> QED
          BY <1>12, <3>1, <3>3, <4>1, <4>2, <4>3
      <3> QED
        BY <3>2, <3>3
    <2> QED
      BY <1>14, <2>1, <2>2
  <1>17. AmountsDiffer'
    <2> SUFFICES ASSUME NEW p \in Requests, NEW r \in Requests, p # r,
                        reply'[p] = "Allowed", reply'[r] = "Allowed",
                        Key(p) = Key(r),
                        arg[p].claim.cumulative = arg[r].claim.cumulative
                 PROVE  FALSE
      BY <1>15 DEF AmountsDiffer
    <2>1. CASE p # q /\ r # q
      BY <1>14, <2>1 DEF TxInv, AmountsDiffer
    <2>2. CASE p = q
      BY <1>1, <1>12, <1>14, <2>2
    <2>3. CASE r = q
      BY <1>1, <1>12, <1>14, <2>3
    <2> QED
      BY <2>1, <2>2, <2>3
  <1> QED
    BY <1>4, <1>7, <1>8, <1>16, <1>17 DEF TxInv

\* A change of a row that no transaction holds.
LEMMA RowChangeInv ==
    ASSUME TxInv, StoreInv', UNCHANGED txVars, ticket' = ticket, log' = log,
           NEW s \in Rows, \A r \in Rows : r # s => row'[r] = row[r],
           \A q \in Requests : pc[q] \in Holding => Key(q) # s
    PROVE  TxInv'
  <1>1. /\ pc' = pc /\ arg' = arg /\ seen' = seen /\ tail' = tail
        /\ lock' = lock /\ reply' = reply
    BY DEF txVars
  <1>2. \A q \in Requests : Key(q)' = Key(q) /\ Verdict(q)' = Verdict(q)
    BY <1>1 DEF Key, Verdict
  <1>3. \A q \in Requests : pc[q] \in Holding => row'[Key(q)] = row[Key(q)]
    BY ArgTypes DEF TxInv, Holding
  <1>4. TxTypes'
    BY <1>1 DEF TxInv, TxTypes
  <1>5. LockDiscipline'
    <2>1. \A r \in Rows : lock[r] # Nobody => lock[r] \in Requests
      BY DEF TxInv, TxTypes
    <2> QED
      BY <1>1, <1>2, <2>1 DEF TxInv, LockDiscipline
  <1>6. ViewIsCurrent'
    BY <1>1, <1>2, <1>3 DEF TxInv, ViewIsCurrent
  <1>7. ReadyIsStorable' /\ AnsweredAtTheEnd'
    BY <1>1, <1>2 DEF TxInv, ReadyIsStorable, AnsweredAtTheEnd
  <1>8. AcceptedIsDurable' /\ AmountsDiffer'
    BY <1>1, <1>2 DEF TxInv, AcceptedIsDurable, AmountsDiffer
  <1> QED
    BY <1>4, <1>5, <1>6, <1>7, <1>8 DEF TxInv

\* Every step of the transactions preserves TxInv.
LEMMA TxNextInv == TxInv /\ [TxNext]_vars => TxInv'
  <1> SUFFICES ASSUME TxInv, [TxNext]_vars PROVE TxInv'
    OBVIOUS
  <1>0. StoreInv'
    BY StepRefines, StoreNextInv DEF TxInv
  <1>1. ASSUME NEW q \in Requests, NEW c \in Claims, NEW t \in Times,
               Begin(q, c, t)
        PROVE  TxInv'
    BY <1>0, <1>1, BeginInv
  <1>2. ASSUME NEW q \in Requests, FindNoRow(q)
        PROVE  TxInv'
    BY <1>0, <1>2, RollBackInv DEF FindNoRow, Replies
  <1>3. ASSUME NEW q \in Requests, Abort(q)
        PROVE  TxInv'
    BY <1>0, <1>3, RollBackInv DEF Abort, AbortReply, Replies
  <1>4. ASSUME NEW q \in Requests,
               \/ LockRow(q) \/ ReadTicket(q) \/ ReadTail(q)
               \/ InsertEntry(q) \/ UpsertTicket(q) \/ Commit(q)
        PROVE  TxInv'
    BY <1>0, <1>4, LockRowInv, ReadTicketInv, ReadTailInv, InsertEntryInv,
       UpsertTicketInv, CommitInv
  <1>5. ASSUME NEW s \in Rows, UpdateRow(s)
        PROVE  TxInv'
    <2>1. \A q \in Requests : pc[q] \in Holding => Key(q) # s
      BY <1>5, NobodyAssumption DEF UpdateRow, RowFree, TxInv, LockDiscipline
    <2>2. /\ \A r \in Rows : r # s => row'[r] = row[r]
          /\ ticket' = ticket /\ log' = log /\ UNCHANGED txVars
      BY <1>5 DEF UpdateRow, MarkSettled, MarkChainVerified, TxInv, StoreInv,
                  StoreTypeOK
    <2> QED
      BY <1>0, <2>1, <2>2, RowChangeInv
  <1>6. ASSUME NEW s \in Rows, NEW agent \in AgentKeys, NEW deposit \in Amounts,
               NEW expires \in Expiries, NEW verified \in BOOLEAN,
               InsertRow(s, agent, deposit, expires, verified)
        PROVE  TxInv'
    <2>1. \A q \in Requests : pc[q] \in Holding => Key(q) # s
      BY <1>6 DEF InsertRow, OpenRow, TxInv, ViewIsCurrent
    <2>2. /\ \A r \in Rows : r # s => row'[r] = row[r]
          /\ ticket' = ticket /\ log' = log /\ UNCHANGED txVars
      BY <1>6 DEF InsertRow, OpenRow, TxInv, StoreInv, StoreTypeOK
    <2> QED
      BY <1>0, <2>1, <2>2, RowChangeInv
  <1>7. CASE UNCHANGED vars
    <2>1. /\ row' = row /\ ticket' = ticket /\ log' = log
          /\ pc' = pc /\ arg' = arg /\ seen' = seen /\ tail' = tail
          /\ lock' = lock /\ reply' = reply
      BY <1>7 DEF vars
    <2>2. \A q \in Requests : Key(q)' = Key(q) /\ Verdict(q)' = Verdict(q)
      BY <2>1 DEF Key, Verdict
    <2>3. \A s \in Rows : lock[s] # Nobody => lock[s] \in Requests
      BY DEF TxInv, TxTypes
    <2> QED
      BY <1>0, <2>1, <2>2, <2>3
         DEF TxInv, TxTypes, LockDiscipline, ViewIsCurrent, ReadyIsStorable,
             AnsweredAtTheEnd, AcceptedIsDurable, AmountsDiffer
  <1> QED
    BY <1>1, <1>2, <1>3, <1>4, <1>5, <1>6, <1>7 DEF TxNext, Statement

\* TxInv holds in every state the transactions reach.
LEMMA TxInvariance == TxSpec => []TxInv
  BY TxInitInv, TxNextInv, PTL DEF TxSpec

-----------------------------------------------------------------------------
\* However many admit_claim calls race, time out or die, no two callers are told
\* that the same amount of one session was accepted, and each transaction under
\* way holds its row alone.
THEOREM AdmissionIsExclusive == TxSpec => []NoDoubleAdmission
  <1>1. TxInv => NoDoubleAdmission
    <2> SUFFICES ASSUME TxInv PROVE NoDoubleAdmission
      OBVIOUS
    <2>1. ASSUME NEW q \in Requests
          PROVE  pc[q] \in Holding <=> \E s \in Rows : lock[s] = q
      <3>1. pc[q] \in Holding => Key(q) \in Rows /\ lock[Key(q)] = q
        BY ArgTypes DEF TxInv, LockDiscipline, Holding
      <3>2. ASSUME NEW s \in Rows, lock[s] = q PROVE pc[q] \in Holding
        BY <3>2, NobodyAssumption DEF TxInv, LockDiscipline
      <3> QED
        BY <3>1, <3>2
    <2>2. TxTypeOK
      BY <2>1 DEF TxTypeOK, TxInv, TxTypes, Holding
    <2> QED
      BY <2>2 DEF NoDoubleAdmission, TxInv, AmountsDiffer
  <1> QED
    BY <1>1, TxInvariance, PTL

\* A caller that was told its claim is accepted finds it in the evidence log and
\* under the mark for ever after, whatever fails later.
THEOREM AcceptanceIsDurable == TxSpec => []AcceptedIsDurable
  <1>1. TxInv => AcceptedIsDurable
    BY DEF TxInv
  <1> QED
    BY <1>1, TxInvariance, PTL

\* The transactions of admit_claim implement the atomic store: statement by
\* statement, with crashes and waiting, they do nothing the store could not do
\* in one step.
THEOREM TransactionsImplementStore == TxSpec => Serialisable
  <1>1. TxInit => StoreInit
    BY DEF TxInit
  <1>2. TxInv /\ [TxNext]_vars => [StoreNext]_storeVars
    BY StepRefines
  <1> QED
    BY <1>1, <1>2, TxInvariance, PTL DEF TxSpec, Serialisable, StoreSpec
=============================================================================
