---------------------------- MODULE LedgerAudit -----------------------------
(***************************************************************************)
(* The hash chain of the artifact ledger and the two checks the audit runs *)
(* over what it has read (src/aecontrol/store.py, integrity.py).  SHA-256  *)
(* is modelled as an injective function: the tuple of what it digests.     *)
(***************************************************************************)
EXTENDS Naturals, Sequences

(* integrity.ledger_entry_digest, and LEDGER_GENESIS_SHA256. *)
Digest(sequence, a, e, previous) == <<sequence, a, e, previous>>
Genesis == <<>>

(* SELECT sequence, entry_sha256 ... ORDER BY sequence DESC LIMIT 1 *)
LedgerHead(led) ==
    IF led = <<>> THEN [sequence |-> 0, hash |-> Genesis]
    ELSE [sequence |-> led[Len(led)].sequence, hash |-> led[Len(led)].hash]

(* The row _append_ledger_values inserts for artifact a after head h. *)
Entry(h, a, e) ==
    [sequence |-> h.sequence + 1, artifact |-> a, envelope |-> e,
     previous |-> h.hash, hash |-> Digest(h.sequence + 1, a, e, h.hash)]

Recorded(led) == {led[i].artifact : i \in 1..Len(led)}

(* _verify_artifact_ledger on row i of the rows read ORDER BY sequence; src *)
(* maps an artifact to the envelope of its source row, or to none.          *)
LedgerFailure(led, src, none, i) ==
    LET row == led[i]
        before == LedgerHead(SubSeq(led, 1, i - 1))
    IN  IF row.sequence # before.sequence + 1 THEN "sequence_gap"
        ELSE IF row.previous # before.hash THEN "previous_hash"
        ELSE IF row.hash # Digest(row.sequence, row.artifact, row.envelope,
                                  row.previous) THEN "entry_hash"
        ELSE IF src[row.artifact] = none THEN "missing_artifact"
        ELSE IF src[row.artifact] # row.envelope THEN "artifact_mismatch"
        ELSE "valid"

(* _verify_ledger_checkpoints on one checkpoint whose own digest and        *)
(* signature hold; heads[0] is the genesis hash.                            *)
CheckpointFailure(led, c) ==
    LET sequences == {0} \cup {led[i].sequence : i \in 1..Len(led)}
        matches == \/ c.sequence = 0 /\ c.hash = Genesis
                   \/ \E i \in 1..Len(led) :
                         led[i].sequence = c.sequence /\ led[i].hash = c.hash
    IN  IF c.entries # c.sequence THEN "envelope"
        ELSE IF c.sequence \notin sequences THEN "missing_sequence"
        ELSE IF ~matches THEN "head_mismatch"
        ELSE "valid"
=============================================================================
