-------------------------- MODULE RecoveryVerifier --------------------------
(***************************************************************************)
(* recovery.py: the read-only verification of a restored database against  *)
(* checkpoints that were published off-site.  It is a second               *)
(* implementation of the ledger checks, without the code of store.py.      *)
(*                                                                         *)
(* A restored database db has the fields metadata ("missing", "other" or   *)
(* "current" schema version), recovering (pg_is_in_recovery), readable     *)
(* (the queries do not raise), rows, ledger and checkpoints.  A published  *)
(* envelope has the fields checkpoint, age ("future", "current", "stale")  *)
(* and signed (verify_checkpoint holds).  trusted is the set of artifact   *)
(* envelopes that are unsigned or that the keyring verifies.               *)
(***************************************************************************)
EXTENDS LedgerAudit, FiniteSets

CONSTANT MaxLedgerEntries     \* max_ledger_entries of the verifier

ASSUME LimitAssumption == MaxLedgerEntries \in Nat \ {0} /\ MaxLedgerEntries <= 1000000

Failure(holds, code) == IF holds THEN {code} ELSE {}

(* Failures of the envelope itself, found without the database. *)
EnvelopeFailures(p) ==
    Failure(p.age = "future", "checkpoint_future")
    \cup Failure(p.age = "stale", "checkpoint_stale")
    \cup Failure(~p.signed, "checkpoint_signature")
    \cup Failure(p.checkpoint.sequence > MaxLedgerEntries, "ledger_limit")

(* SELECT ... FROM ledger_checkpoints WHERE checkpoint_id = ...; a restored *)
(* row that differs in any field is a mismatch.                             *)
PersistedFailures(db, c) ==
    LET found == {i \in DOMAIN db.checkpoints : db.checkpoints[i].id = c.id} IN
    Failure(found = {}, "checkpoint_missing")
    \cup Failure(\E i \in found : db.checkpoints[i] # c, "checkpoint_mismatch")

(* The rows of led at the positions kept, in their order: of the ledger,   *)
(* which is in insertion order, ORDER BY ledger.sequence.                  *)
RowsAt(led, kept) ==
    LET rank(i) == Cardinality({j \in kept : j <= i}) IN
    [r \in 1..Cardinality(kept) |-> led[CHOOSE i \in kept : rank(i) = r]]

(* Mutant: the entry at the checkpoint itself is left out. *)
RowsBelow(led, n) == RowsAt(led, {i \in DOMAIN led : led[i].sequence < n})

(* WHERE ledger.sequence <= n ORDER BY ledger.sequence *)
RowsUpTo(led, n) == RowsAt(led, {i \in DOMAIN led : led[i].sequence <= n})

(* The body of the loop over the joined rows.  (artifact_digest and         *)
(* artifact_envelope compare the two halves of an envelope.)                *)
EntryFailures(db, none, trusted, rows, i) ==
    LET row == rows[i]
        previous == IF i = 1 THEN Genesis ELSE rows[i - 1].hash
        source == db.rows[row.artifact]
    IN  Failure(row.sequence # i, "ledger_sequence")
        \cup Failure(row.previous # previous, "ledger_previous_hash")
        \cup Failure(row.hash # Digest(row.sequence, row.artifact, row.envelope,
                                       row.previous), "ledger_entry_hash")
        \cup Failure(source = none, "artifact_missing")
        \cup Failure(source # none /\ source # row.envelope, "artifact_envelope")
        \cup Failure(source # none /\ row.envelope \notin trusted,
                     "artifact_signature")

(* Mutant: the chain is checked, but not where it ends. *)
HeadUnchecked(rows, c) == {}

HeadFailures(rows, c) ==
    Failure(LedgerHead(rows).hash # c.hash, "ledger_head")

(* RecoveryVerifier._verify_checkpoint.  An envelope that fails by itself,  *)
(* or a query that raises, ends it early.                                   *)
VerifyCheckpoint(db, none, trusted, p) ==
    LET c == p.checkpoint
        rows == RowsUpTo(db.ledger, c.sequence)
    IN  IF EnvelopeFailures(p) # {} THEN EnvelopeFailures(p)
        ELSE IF ~db.readable THEN {"database_schema"}
        ELSE PersistedFailures(db, c)
             \cup Failure(Len(rows) # c.entries \/ Len(rows) # c.sequence,
                          "ledger_count")
             \cup (UNION {EntryFailures(db, none, trusted, rows, i) :
                             i \in DOMAIN rows})
             \cup HeadFailures(rows, c)

(* The checks of verify that precede the checkpoints. *)
DatabaseFailures(db) ==
    Failure(db.metadata = "missing", "schema_metadata")
    \cup Failure(db.metadata = "other", "schema_version")
    \cup Failure(db.recovering, "recovery_in_progress")

(* A query that raised leaves the transaction aborted: the set_config of a  *)
(* later checkpoint raises RecoveryVerificationError, and no report is made. *)
Aborted(db, published) ==
    /\ ~db.readable
    /\ Cardinality({i \in DOMAIN published : EnvelopeFailures(published[i]) = {}}) > 1

(* RecoveryVerifier.verify: the report on a sequence of published envelopes. *)
Verify(db, none, trusted, published) ==
    LET first == DatabaseFailures(db)
        results == [i \in DOMAIN published |->
                      VerifyCheckpoint(db, none, trusted, published[i])]
        failures == IF first # {} THEN first
                    ELSE UNION {results[i] : i \in DOMAIN published}
    IN  [error |-> first = {} /\ Aborted(db, published),
         failures |-> failures,
         success |-> failures = {}]
=============================================================================
