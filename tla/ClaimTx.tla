------------------------------ MODULE ClaimTx -------------------------------
(***************************************************************************)
(* admit_claim at the grain of its PostgreSQL transaction (gateway/src/    *)
(* db.rs, upsert_claim_high_water_mark and append_evidence): one step per  *)
(* statement, with other requests, UPDATEs of the session row, timeouts    *)
(* and crashes in between.  row, ticket and log are the committed tables;  *)
(* what a transaction has written is visible to nobody until it commits.   *)
(*                                                                         *)
(* SELECT ... FOR UPDATE holds the session row against other FOR UPDATEs   *)
(* and against UPDATE until the transaction ends; plain SELECTs see the    *)
(* committed tables (READ COMMITTED).                                      *)
(***************************************************************************)
EXTENDS ClaimStore

CONSTANTS
    Requests,       \* admit_claim calls; a retry is another request
    Nobody          \* the holder of a free row lock

ASSUME NobodyAssumption == Nobody \notin Requests

VARIABLES
    pc,             \* the statement each request is about to run
    arg,            \* the claim and the instant each request was given
    seen,           \* the row and the ticket it has read
    tail,           \* the sequence_id it is going to insert
    lock,           \* the transaction holding each session row
    reply           \* what its caller was told

txVars == <<pc, arg, seen, tail, lock, reply>>
vars == <<row, ticket, log, pc, arg, seen, tail, lock, reply>>

Stages == {"idle", "begun", "locked", "read", "tailed", "inserted", "ready",
           "done"}

Replies == {"None", "Unknown", "Error", "Allowed"} \cup Refusals

NothingSeen == [row |-> NoRow, ticket |-> NoTicket]

Key(q) == arg[q].claim.session

\* evaluate_claim over what the transaction has read.
Verdict(q) ==
    EvaluateClaim(seen[q].row, seen[q].ticket, arg[q].claim, arg[q].at)

RowFreeAlways(s) == TRUE

\* No transaction holds the session row.
RowFree(s) == lock[s] = Nobody

ReleaseNever(q) == lock

\* Ending a transaction, either way, gives its row lock back.
Release(q) == [s \in Rows |-> IF lock[s] = q THEN Nobody ELSE lock[s]]

\* Another open transaction has inserted the same (session, sequence_id): the
\* unique index makes this insert wait for it.
Collides(q) ==
    \E p \in Requests \ {q} :
        /\ pc[p] \in {"inserted", "ready"}
        /\ Key(p) = Key(q) /\ tail[p] = tail[q] /\ Recorded(Verdict(p))

\* Another open transaction has written the session's ticket.
TicketBusy(q) ==
    \E p \in Requests \ {q} :
        pc[p] = "ready" /\ Key(p) = Key(q) /\ Verdict(p) = "Allowed"

\* The WHERE clause of the conditional upsert, against the committed ticket.
Upserts(q) ==
    LET k == ticket[Key(q)]
    IN  Forward(k, arg[q].claim) /\ FreshNonce(k, arg[q].claim)

ReplyBeforeCommit(q) == IF pc[q] = "ready" THEN Verdict(q) ELSE "Error"

\* What the caller of an aborted transaction is told: the reply comes after the
\* commit, so never the verdict.
AbortReply(q) == "Error"

\* The transaction is over: what it had read is gone.
Finish(q, answer) ==
    /\ pc' = [pc EXCEPT ![q] = "done"]
    /\ lock' = Release(q)
    /\ reply' = [reply EXCEPT ![q] = answer]
    /\ seen' = [seen EXCEPT ![q] = NothingSeen]
    /\ tail' = [tail EXCEPT ![q] = 0]
    /\ UNCHANGED <<row, arg>>

\* It ends without a trace.
RollBack(q, answer) == Finish(q, answer) /\ UNCHANGED <<ticket, log>>

-----------------------------------------------------------------------------
\* A caller (verify_claim or buy) asks for a claim to be admitted.
Begin(q, c, t) ==
    /\ pc[q] = "idle"
    /\ pc' = [pc EXCEPT ![q] = "begun"]
    /\ arg' = [arg EXCEPT ![q] = [claim |-> c, at |-> t]]
    /\ UNCHANGED <<row, ticket, log, seen, tail, lock, reply>>

\* SELECT ... FOR UPDATE finds no row.
FindNoRow(q) ==
    /\ pc[q] = "begun"
    /\ ~ row[Key(q)].known
    /\ RollBack(q, "Unknown")

\* SELECT ... FOR UPDATE waits for the row and reads its latest version.
LockRow(q) ==
    /\ pc[q] = "begun"
    /\ row[Key(q)].known
    /\ RowFree(Key(q))
    /\ pc' = [pc EXCEPT ![q] = "locked"]
    /\ lock' = [lock EXCEPT ![Key(q)] = q]
    /\ seen' = [seen EXCEPT ![q].row = row[Key(q)]]
    /\ UNCHANGED <<row, ticket, log, arg, tail, reply>>

\* SELECT cumulative_amount, nonce FROM claim_tickets.
ReadTicket(q) ==
    /\ pc[q] = "locked"
    /\ pc' = [pc EXCEPT ![q] = "read"]
    /\ seen' = [seen EXCEPT ![q].ticket = ticket[Key(q)]]
    /\ UNCHANGED <<row, ticket, log, arg, tail, lock, reply>>

\* append_evidence reads the latest sequence_id, unless nothing is recorded.
ReadTail(q) ==
    /\ pc[q] = "read"
    /\ pc' = [pc EXCEPT ![q] =
           IF Recorded(Verdict(q)) THEN "tailed" ELSE "ready"]
    /\ tail' = [tail EXCEPT ![q] = Len(log[Key(q)])]
    /\ UNCHANGED <<row, ticket, log, arg, seen, lock, reply>>

\* append_evidence inserts; a taken sequence_id violates uq_session_sequence.
InsertEntry(q) ==
    /\ pc[q] = "tailed"
    /\ ~ Collides(q)
    /\ IF Len(log[Key(q)]) = tail[q]
       THEN /\ pc' = [pc EXCEPT ![q] =
                   IF Verdict(q) = "Allowed" THEN "inserted" ELSE "ready"]
            /\ UNCHANGED <<row, ticket, log, arg, seen, tail, lock, reply>>
       ELSE RollBack(q, "Error")

\* The conditional upsert of the high-water mark.  A value that does not fit
\* its column is an error; a row that was not written is a refusal.
UpsertTicket(q) ==
    /\ pc[q] = "inserted"
    /\ ~ TicketBusy(q)
    /\ IF ~ Storable(arg[q].claim) THEN RollBack(q, "Error")
       ELSE IF ~ Upserts(q) THEN RollBack(q, "NotMonotonic")
       ELSE /\ pc' = [pc EXCEPT ![q] = "ready"]
            /\ UNCHANGED <<row, ticket, log, arg, seen, tail, lock, reply>>

\* COMMIT makes entry and mark visible together.  The acknowledgement may be
\* lost, or the handler may be gone: the caller then sees an error.
Commit(q) ==
    /\ pc[q] = "ready"
    /\ log' = [log EXCEPT ![Key(q)] =
           IF Recorded(Verdict(q)) THEN Append(@, Entry(Verdict(q), arg[q].claim))
           ELSE @]
    /\ ticket' = [ticket EXCEPT ![Key(q)] =
           IF Verdict(q) = "Allowed" THEN TicketOf(arg[q].claim) ELSE @]
    /\ \E answer \in {Verdict(q), "Error"} : Finish(q, answer)

\* A statement fails, the request times out, the client goes away or the
\* gateway dies: the connection closes and the transaction is rolled back.
Abort(q) ==
    /\ pc[q] \notin {"idle", "done"}
    /\ RollBack(q, AbortReply(q))

\* The UPDATEs of the session row wait for its lock.
UpdateRow(s) ==
    /\ RowFree(s)
    /\ MarkSettled(s) \/ MarkChainVerified(s)
    /\ UNCHANGED txVars

InsertRow(s, agent, deposit, expires, verified) ==
    /\ OpenRow(s, agent, deposit, expires, verified)
    /\ UNCHANGED txVars

-----------------------------------------------------------------------------
TxInit ==
    /\ StoreInit
    /\ pc = [q \in Requests |-> "idle"]
    /\ arg = [q \in Requests |-> << >>]
    /\ seen = [q \in Requests |-> NothingSeen]
    /\ tail = [q \in Requests |-> 0]
    /\ lock = [s \in Rows |-> Nobody]
    /\ reply = [q \in Requests |-> "None"]

\* The statements of one transaction.
Statement(q) ==
    \/ FindNoRow(q) \/ LockRow(q) \/ ReadTicket(q) \/ ReadTail(q)
    \/ InsertEntry(q) \/ UpsertTicket(q) \/ Commit(q)

TxNext ==
    \/ \E q \in Requests, c \in Claims, t \in Times : Begin(q, c, t)
    \/ \E q \in Requests : Statement(q) \/ Abort(q)
    \/ \E s \in Rows : UpdateRow(s)
    \/ \E s \in Rows, agent \in AgentKeys, deposit \in Amounts,
          expires \in Expiries, verified \in BOOLEAN :
          InsertRow(s, agent, deposit, expires, verified)

TxSpec == TxInit /\ [][TxNext]_vars

\* The database runs the next statement of every open transaction, and grants
\* a free row lock to a transaction that waits for it.
TxFairSpec == TxSpec /\ \A q \in Requests : WF_vars(Statement(q))

-----------------------------------------------------------------------------
\* Every variable holds a value of its type, and a transaction past its first
\* SELECT and before its end holds the row lock of its session, alone.
TxTypeOK ==
    /\ pc \in [Requests -> Stages]
    /\ reply \in [Requests -> Replies]
    /\ lock \in [Rows -> Requests \cup {Nobody}]
    /\ tail \in [Requests -> Nat]
    /\ \A q \in Requests :
           pc[q] \in {"locked", "read", "tailed", "inserted", "ready"}
           <=> \E s \in Rows : lock[s] = q

\* Two requests are never both told that the same amount of the same session
\* was accepted, and the row lock is held as TxTypeOK says (state.rs, admit_claim
\* "Must be atomic: two concurrent requests carrying the same claim have to
\* serialise").
NoDoubleAdmission ==
    /\ TxTypeOK
    /\ \A p, q \in Requests :
           /\ p # q
           /\ reply[p] = "Allowed" /\ reply[q] = "Allowed"
           /\ Key(p) = Key(q)
           => arg[p].claim.cumulative # arg[q].claim.cumulative

\* A caller that was told "accepted" can rely on it: the entry is in the log
\* and the mark is at least there, whatever failed since.
AcceptedIsDurable ==
    \A q \in Requests : reply[q] = "Allowed" =>
        /\ ticket[Key(q)].cumulative >= arg[q].claim.cumulative
        /\ Entry("Allowed", arg[q].claim) \in
               {log[Key(q)][i] : i \in DOMAIN log[Key(q)]}

\* No request waits for ever on the row lock: every call is answered, also when
\* other transactions die holding the row.
EveryRequestIsAnswered ==
    \A q \in Requests : pc[q] = "begun" ~> pc[q] = "done"

\* The transactions implement the atomic store.
Serialisable == StoreSpec
=============================================================================
