------------------------------ MODULE Evidence ------------------------------
(***************************************************************************)
(* The evidence log of one session (gateway/src/evidence.rs): the hash     *)
(* chain, the Merkle tree over it, the root a settlement publishes, and    *)
(* what an auditor can conclude from GET /v1/session/{session}/evidence    *)
(* and POST /v1/evidence/proof when rows were changed in the database      *)
(* behind the gateway's back.                                              *)
(*                                                                         *)
(* SHA-256 is taken to be collision free: a hash is the tuple of its       *)
(* preimage's fields.  The preimage of an entry is longer than that of a   *)
(* pair (at least 87 bytes against 64), so the two never meet.             *)
(*                                                                         *)
(* ClaimTx shows that appends to one session do not interleave; here an    *)
(* append is one step.  What a decision was about (amount, nonce, outcome) *)
(* is one value, its contents.                                             *)
(***************************************************************************)
EXTENDS Integers, Sequences, FiniteSets, SequencesExt

CONSTANTS
    Session, Other, \* the session audited, and another one
    Contents,       \* what an entry may record
    MaxEntries,     \* bound on the entries of the log when it is published
    MaxLate,        \* bound on the entries added between that and the mark
    MaxEdits        \* bound on the changes made behind the gateway's back, by
                    \* the number of entries there were

VARIABLES
    log,            \* table evidence_log: the rows of Session, in the order
                    \* every query asks for, sequence_id ASC
    root,           \* the Merkle root published on chain, once there is one
    settled,        \* the session is marked settled
    committed,      \* what had been recorded when root was read (history)
    edits           \* changes yet to be made

vars == <<log, root, settled, committed, edits>>

ASSUME EvidenceAssumption ==
    /\ Session # Other
    /\ MaxEntries \in Nat /\ MaxLate \in Nat
    /\ MaxEdits \in [0 .. MaxEntries + MaxLate -> Nat]

-----------------------------------------------------------------------------
(***************************************************************************)
(* Hashes.                                                                 *)
(***************************************************************************)

\* GENESIS_PREV_HASH and EMPTY_ROOT: 32 zero bytes, which nothing hashes to.
Zeroes == <<"zeroes">>

HashWithoutPrev(prev, session, contents) ==
    <<Zeroes, session, contents>>

HashWithoutContents(prev, session, contents) ==
    <<prev, session, Zeroes>>

\* compute_entry_hash
EntryHash(prev, session, contents) == <<prev, session, contents>>

HashPair(left, right) == <<left, right>>

-----------------------------------------------------------------------------
(***************************************************************************)
(* The Merkle tree.                                                        *)
(***************************************************************************)

\* The next level: neighbours are paired, an odd node out with itself.
Up(level) ==
    LET k == Len(level)
    IN  [i \in 1 .. (k + 1) \div 2 |->
            HashPair(level[2 * i - 1], level[IF 2 * i <= k THEN 2 * i ELSE 2 * i - 1])]

\* One round of the loop in MerkleTree::new: a level is added until one has a
\* single node.
Round(levels) ==
    LET top == Last(levels)
    IN  IF Len(top) > 1 THEN Append(levels, Up(top)) ELSE levels

Grown(leaves) ==
    LET levels[n \in 0 .. Len(leaves)] ==
            IF n = 0 THEN <<leaves>> ELSE Round(levels[n - 1])
    IN  levels

\* MerkleTree::new: the levels from the leaves to the root.  There are enough
\* rounds: a level of two nodes or more is longer than the next.  For an empty
\* log the code keeps no level instead of an empty one; only root looks at it.
Levels(leaves) == Grown(leaves)[Len(leaves)]

\* MerkleTree::root
MerkleRoot(leaves) ==
    IF leaves = << >> THEN Zeroes ELSE Last(Levels(leaves))[1]

SiblingPastEnd(level, i) ==
    LET j == IF i % 2 = 0 THEN i + 1 ELSE i - 1
    IN  IF j < Len(level) THEN level[j + 1] ELSE Zeroes

\* The node that node i of a level (from 0) is paired with.
Sibling(level, i) ==
    LET j == IF i % 2 = 0 THEN i + 1 ELSE i - 1
    IN  IF j < Len(level) THEN level[j + 1] ELSE level[i + 1]

\* The position, level by level, of what leaf index (from 0) goes into.
Ascent(index, height) ==
    LET idx[n \in 0 .. height] == IF n = 0 THEN index ELSE idx[n - 1] \div 2
    IN  idx

\* MerkleTree::proof: one sibling per level below the root, and the side it is
\* on.
ProofOf(leaves, index) ==
    LET levels == Levels(leaves)
        idx == Ascent(index, Len(levels))
    IN  [n \in 1 .. Len(levels) - 1 |->
            [hash |-> Sibling(levels[n], idx[n - 1]),
             side |-> IF idx[n - 1] % 2 = 0 THEN "right" ELSE "left"]]

\* One step of verify_proof.
Join(current, node) ==
    IF node.side = "right" THEN HashPair(current, node.hash)
    ELSE HashPair(node.hash, current)

\* Its running hash, after each node of the proof.
Climb(leaf, proof) ==
    LET current[n \in 0 .. Len(proof)] ==
            IF n = 0 THEN leaf ELSE Join(current[n - 1], proof[n])
    IN  current

\* verify_proof
VerifyProof(leaf, proof, expected) == Climb(leaf, proof)[Len(proof)] = expected

-----------------------------------------------------------------------------
(***************************************************************************)
(* The chain.                                                              *)
(***************************************************************************)

\* load_evidence_leaves
Leaves == [i \in DOMAIN log |-> log[i].entry_hash]

\* The prev_hash entry i should have.
ExpectedPrev(i) == IF i = 1 THEN Zeroes ELSE log[i - 1].entry_hash

\* The stored hash is the hash of the row's own contents.
HashMatches(r) == r.entry_hash = EntryHash(r.prev_hash, Session, r.contents)

\* What verify_chain finds wrong with the i-th entry.
Fault(i) ==
    IF log[i].sequence_id # i - 1 THEN "SequenceGap"
    ELSE IF log[i].prev_hash # ExpectedPrev(i) THEN "BrokenLink"
    ELSE IF ~ HashMatches(log[i]) THEN "HashMismatch"
    ELSE "none"

\* verify_chain: the first fault is the one reported.
ChainError ==
    LET faulty == {i \in DOMAIN log : Fault(i) # "none"}
    IN  IF faulty = {} THEN "none" ELSE Fault(Min(faulty))

\* session_evidence: what the endpoint answers.
SessionEvidence ==
    [merkle_root |-> MerkleRoot(Leaves), entries |-> log,
     chain_error |-> ChainError]

\* evidence_proof for the i-th row, found by its sequence_id: the proof is
\* checked against its own root before it is returned.  The answer says what the
\* decision was and its leaf, not the hash of the row before.
EvidenceProof(i) ==
    LET proof == ProofOf(Leaves, i - 1)
        top == MerkleRoot(Leaves)
    IN  IF ~ VerifyProof(log[i].entry_hash, proof, top)
        THEN [status |-> "ERR_EVIDENCE_UNAVAILABLE"]
        ELSE [status |-> "ok", sequence_id |-> log[i].sequence_id,
              contents |-> log[i].contents, leaf_hash |-> log[i].entry_hash,
              proof |-> proof, merkle_root |-> top]

-----------------------------------------------------------------------------
(***************************************************************************)
(* The gateway.                                                            *)
(***************************************************************************)

Row(id, contents, prev, hash) ==
    [sequence_id |-> id, contents |-> contents, prev_hash |-> prev,
     entry_hash |-> hash]

Room == IF root = << >> THEN MaxEntries ELSE Len(committed) + MaxLate

\* append_evidence: after the row with the highest sequence_id, until the session
\* is marked settled, which is some time after its root was read.
AppendEvidence(contents) ==
    LET n == Len(log)
        id == IF n = 0 THEN 0 ELSE log[n].sequence_id + 1
        prev == IF n = 0 THEN Zeroes ELSE log[n].entry_hash
    IN  /\ ~ settled /\ n < Room
        /\ log' = Append(log, Row(id, contents, prev,
                                  EntryHash(prev, Session, contents)))
        /\ UNCHANGED <<root, settled, committed, edits>>

\* settle_session reads the leaves; their root goes on chain.
Publish ==
    /\ root = << >>
    /\ root' = MerkleRoot(Leaves)
    /\ committed' = log
    /\ UNCHANGED <<log, settled, edits>>

\* settle_session, once the chain has confirmed: mark_settled.
Settle ==
    /\ root # << >> /\ ~ settled
    /\ settled' = TRUE
    /\ edits' = MaxEdits[Len(log)]
    /\ UNCHANGED <<log, root, committed>>

-----------------------------------------------------------------------------
(***************************************************************************)
(* Whoever can write to the database, after the settlement.                *)
(***************************************************************************)

\* The rows numbered below id come first.
Below(id) == Cardinality({i \in DOMAIN log : log[i].sequence_id < id})

\* The rows with r among them, in place of one with its number if there is.
With(r) ==
    SubSeq(log, 1, Below(r.sequence_id)) \o <<r>>
        \o SubSeq(log, Below(r.sequence_id + 1) + 1, Len(log))

Hashes == {Zeroes} \cup {log[i].entry_hash : i \in DOMAIN log}

\* A row is overwritten, or a new one put in: any contents, linked to any hash
\* of the log, with its own hash made right (for this session, or as another's)
\* or copied from a row.
Overwrite(id, contents, prev) ==
    log' \in {With(Row(id, contents, prev, hash)) :
        hash \in Hashes \cup {EntryHash(prev, s, contents) :
                                 s \in {Session, Other}}}

Delete(i) == log' = RemoveAt(log, i)

\* Two rows trade their numbers.
Swap(i, j) ==
    log' = [log EXCEPT ![i] = [log[j] EXCEPT !.sequence_id = log[i].sequence_id],
                       ![j] = [log[i] EXCEPT !.sequence_id = log[j].sequence_id]]

\* The last n rows once more, under the next numbers: the copies that an odd
\* level of the tree would make by itself.
CopyTail(n) ==
    log' = log \o [i \in 1 .. n |->
        LET k == Len(log)
        IN  [log[k - n + i] EXCEPT !.sequence_id = log[k].sequence_id + i]]

Edit ==
    /\ settled /\ edits > 0
    /\ edits' = edits - 1
    /\ \/ \E id \in 0 .. Len(log), contents \in Contents, prev \in Hashes :
              Overwrite(id, contents, prev)
       \/ \E i \in DOMAIN log : Delete(i)
       \/ \E i, j \in DOMAIN log : i < j /\ Swap(i, j)
       \/ \E n \in DOMAIN log : CopyTail(n)
    /\ UNCHANGED <<root, settled, committed>>

-----------------------------------------------------------------------------
Init ==
    /\ log = << >>
    /\ root = << >>
    /\ settled = FALSE
    /\ committed = << >>
    /\ edits = 0

Next ==
    \/ \E contents \in Contents : AppendEvidence(contents)
    \/ Publish
    \/ Settle
    \/ Edit

Spec == Init /\ [][Next]_vars

-----------------------------------------------------------------------------
(***************************************************************************)
(* Properties.                                                             *)
(***************************************************************************)

\* Tampering shows: whatever was changed in the table (or changed back), or added
\* to it late, the chain the endpoint returns verifies and its root is the
\* published one exactly if its entries are those the gateway had recorded when
\* it read the root, in that order (evidence.rs verify_chain, "the published root
\* pins the whole set"; the module's comment on duplicated last nodes).
TamperEvident ==
    root # << >> =>
        LET answer == SessionEvidence
        IN  answer.chain_error = "none" /\ answer.merkle_root = root
            <=> answer.entries = committed

\* A proof cannot vouch for a decision that was not made: if an entry whose hash
\* is right for its contents is proved against the published root, the gateway
\* had recorded that entry before it settled, even when the other rows are gone
\* or changed and the chain does not verify any more.
ProofOnlyOfRecorded ==
    \A i \in DOMAIN log :
        LET x == EvidenceProof(i)
        IN  /\ root # << >> /\ HashMatches(log[i])
            /\ x.status = "ok" /\ x.merkle_root = root
            => \E j \in DOMAIN committed :
                   /\ committed[j].entry_hash = x.leaf_hash
                   /\ committed[j].contents = x.contents

\* Every entry can be proved, in a log of any length: the proof the endpoint
\* makes always verifies against its own root, also with gaps in the numbering
\* (routes.rs evidence_proof, "generated a proof that does not verify against
\* its own root").
EveryEntryProvable ==
    \A i \in DOMAIN log : EvidenceProof(i).status = "ok"
=============================================================================
