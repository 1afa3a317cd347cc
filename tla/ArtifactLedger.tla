--------------------------- MODULE ArtifactLedger ---------------------------
(***************************************************************************)
(* The evidence of one tenant in src/aecontrol/store.py: the source tables *)
(* (runs, comparisons, guardrail evidence), the hash-chained               *)
(* artifact_ledger, the signed ledger_checkpoints, the transactions that   *)
(* write them concurrently, the multi-statement audit that reads them, and *)
(* the databases restored from their backups.                              *)
(*                                                                         *)
(* An envelope stands for (payload_sha256, signature_algorithm, key id,    *)
(* signature): two saves of one artifact have the same envelope iff they   *)
(* have the same payload and the same signature.                           *)
(***************************************************************************)
EXTENDS RecoveryVerifier, SequencesExt

CONSTANTS
    Artifacts,       \* artifact ids
    TableOf,         \* [Artifacts -> the source table of each]
    Envelopes,
    NoArtifact,      \* a process that saves nothing
    NoEnvelope,      \* no source row
    Procs,           \* API requests, workers and publishers
    NoProc,
    MaxCheckpoints   \* bound: checkpoints signed in one behaviour

(* The source tables, in the order the audit reads them. *)
Tables == <<"run", "comparison", "guardrail_evidence">>

ASSUME ConstantsAssumption ==
    /\ TableOf \in [Artifacts -> {Tables[i] : i \in 1..3}]
    /\ NoArtifact \notin Artifacts
    /\ NoEnvelope \notin Envelopes
    /\ NoProc \notin Procs
    /\ MaxCheckpoints \in Nat

VARIABLES
    rows,          \* committed source rows: the envelope of each artifact
    ledger,        \* artifact_ledger in insertion order
    checkpoints,   \* ledger_checkpoints in insertion order
    fresh,         \* positions of the checkpoints younger than five minutes
    migrated,      \* the schema transaction has committed
    lock,          \* holder of the artifact-ledger advisory lock
    pc,            \* where each process's transaction is
    saving,        \* the artifact and envelope it saves
    seenHead,      \* the ledger head it read
    (* one audit, verify_artifacts *)
    step,          \* its next SELECT
    seenLedger, seenRows, seenCheckpoints,
    alarms         \* failures of the last finished audit

dbVars == <<rows, ledger, checkpoints, fresh, migrated>>
txVars == <<lock, pc, saving, seenHead>>
auditVars == <<step, seenLedger, seenRows, seenCheckpoints, alarms>>
vars == <<dbVars, txVars, auditVars>>

Nothing == [artifact |-> NoArtifact, envelope |-> NoEnvelope]
NoRows == [a \in Artifacts |-> NoEnvelope]

InTable(t) == {a \in Artifacts : TableOf[a] = t}

(* The foreign keys of a comparison: its runs are stored. *)
RunStored(r) == \E a \in InTable("run") : r[a] # NoEnvelope

(* A database of an earlier schema may hold evidence and no ledger. *)
Init ==
    /\ rows \in {r \in [Artifacts -> Envelopes \cup {NoEnvelope}] :
                    \A a \in InTable("comparison") :
                        r[a] # NoEnvelope => RunStored(r)}
    /\ ledger = <<>>
    /\ checkpoints = <<>>
    /\ fresh = {}
    /\ migrated = FALSE
    /\ lock = NoProc
    /\ pc = [p \in Procs |-> "idle"]
    /\ saving = [p \in Procs |-> Nothing]
    /\ seenHead = [p \in Procs |-> LedgerHead(<<>>)]
    /\ step = 0
    /\ seenLedger = <<>>
    /\ seenRows = NoRows
    /\ seenCheckpoints = <<>>
    /\ alarms = {}

-----------------------------------------------------------------------------
(* Schema initialization: _backfill_artifact_ledger, in one transaction    *)
(* that holds the migration lock and exclusive table locks, so that its    *)
(* steps are not interleaved with others.  A later start finds every       *)
(* artifact recorded and appends nothing.                                  *)

Backfill(a) ==
    /\ ~migrated
    /\ rows[a] # NoEnvelope
    /\ a \notin Recorded(ledger)
    /\ ledger' = Append(ledger, Entry(LedgerHead(ledger), a, rows[a]))
    /\ UNCHANGED <<rows, checkpoints, fresh, migrated, txVars, auditVars>>

CommitSchema ==
    /\ ~migrated
    /\ \A a \in Artifacts : rows[a] # NoEnvelope => a \in Recorded(ledger)
    /\ migrated' = TRUE
    /\ UNCHANGED <<rows, ledger, checkpoints, fresh, txVars, auditVars>>

-----------------------------------------------------------------------------
(* save_run, save_comparison and save_guardrail_evidence. *)

(* Mutant: no transaction waits for another. *)
Unlocked == TRUE

LockFree == lock = NoProc

(* The transaction of p ends, with or without effect, and frees its locks. *)
EndTransaction(p) ==
    /\ pc' = [pc EXCEPT ![p] = "idle"]
    /\ saving' = [saving EXCEPT ![p] = Nothing]
    /\ seenHead' = [seenHead EXCEPT ![p] = LedgerHead(<<>>)]
    /\ lock' = IF lock = p THEN NoProc ELSE lock

(* INSERT of the source row.  A concurrent insert of the same id waits for *)
(* the end of the transaction that holds it.                               *)
InsertRow(p, a, e) ==
    /\ migrated
    /\ pc[p] = "idle"
    /\ \A q \in Procs : saving[q].artifact # a
    /\ pc' = [pc EXCEPT ![p] = "inserted"]
    /\ saving' = [saving EXCEPT ![p] = [artifact |-> a, envelope |-> e]]
    /\ UNCHANGED <<dbVars, lock, seenHead, auditVars>>

(* A run may exist already: ON CONFLICT DO UPDATE. *)
SaveRun(p, a, e) ==
    /\ a \in InTable("run")
    /\ InsertRow(p, a, e)

(* The ids of comparisons and of guardrail evidence are fresh. *)
SaveComparison(p, a, e) ==
    /\ a \in InTable("comparison")
    /\ rows[a] = NoEnvelope
    /\ RunStored(rows)
    /\ InsertRow(p, a, e)

SaveGuardrailEvidence(p, a, e) ==
    /\ a \in InTable("guardrail_evidence")
    /\ rows[a] = NoEnvelope
    /\ InsertRow(p, a, e)

(* Mutant: require_match = False, as in the backfill. *)
MatchesById(s) == s.artifact \in Recorded(ledger)

(* persisted = envelope in _append_ledger_values. *)
MatchesLedger(s) ==
    \E i \in 1..Len(ledger) :
        ledger[i].artifact = s.artifact /\ ledger[i].envelope = s.envelope

(* An artifact that the ledger has already: the same envelope commits the  *)
(* row again and appends nothing.                                          *)
SaveAgain(p) ==
    /\ pc[p] = "inserted"
    /\ LockFree
    /\ saving[p].artifact \in Recorded(ledger)
    /\ MatchesLedger(saving[p])
    /\ rows' = [rows EXCEPT ![saving[p].artifact] = saving[p].envelope]
    /\ EndTransaction(p)
    /\ UNCHANGED <<ledger, checkpoints, fresh, migrated, auditVars>>

(* A new artifact: _append_artifact_ledger takes the advisory lock and     *)
(* reads the head.  (Another envelope of a recorded artifact raises        *)
(* "artifact ledger conflict" and rolls the row back: see Rollback.)       *)
ReadHead(p) ==
    /\ pc[p] = "inserted"
    /\ LockFree
    /\ saving[p].artifact \notin Recorded(ledger)
    /\ lock' = p
    /\ seenHead' = [seenHead EXCEPT ![p] = LedgerHead(ledger)]
    /\ pc' = [pc EXCEPT ![p] = "append"]
    /\ UNCHANGED <<dbVars, saving, auditVars>>

(* The INSERT of the entry, and the commit. *)
AppendEntry(p) ==
    LET s == saving[p] IN
    /\ pc[p] = "append"
    /\ ledger' = Append(ledger, Entry(seenHead[p], s.artifact, s.envelope))
    /\ rows' = [rows EXCEPT ![s.artifact] = s.envelope]
    /\ EndTransaction(p)
    /\ UNCHANGED <<checkpoints, fresh, migrated, auditVars>>

(* The transaction of p fails: a conflict with the ledger, a lost          *)
(* connection, a crashed process.  PostgreSQL undoes all of it.            *)
Rollback(p) ==
    /\ pc[p] # "idle"
    /\ EndTransaction(p)
    /\ UNCHANGED <<dbVars, auditVars>>

-----------------------------------------------------------------------------
(* create_ledger_checkpoint. *)

(* Mutant: every request signs a checkpoint of its own. *)
NeverReusable(h) == FALSE

(* A checkpoint of this head signed in the last five minutes is returned   *)
(* as it is, without a change of state.                                    *)
Reusable(h) ==
    \E i \in fresh : checkpoints[i].sequence = h.sequence
                     /\ checkpoints[i].hash = h.hash

LockHead(p) ==
    /\ migrated
    /\ pc[p] = "idle"
    /\ LockFree
    /\ ~Reusable(LedgerHead(ledger))
    /\ Len(checkpoints) < MaxCheckpoints
    /\ lock' = p
    /\ seenHead' = [seenHead EXCEPT ![p] = LedgerHead(ledger)]
    /\ pc' = [pc EXCEPT ![p] = "sign"]
    /\ UNCHANGED <<dbVars, saving, auditVars>>

(* The row count, the signature, the INSERT and the commit. *)
SignCheckpoint(p) ==
    /\ pc[p] = "sign"
    /\ checkpoints' = Append(checkpoints,
                             [id |-> Len(checkpoints) + 1,
                              sequence |-> seenHead[p].sequence,
                              hash |-> seenHead[p].hash,
                              entries |-> Len(ledger)])
    /\ fresh' = fresh \cup {Len(checkpoints) + 1}
    /\ EndTransaction(p)
    /\ UNCHANGED <<rows, ledger, migrated, auditVars>>

(* Five minutes pass. *)
CheckpointAges(i) ==
    /\ i \in fresh
    /\ fresh' = fresh \ {i}
    /\ UNCHANGED <<rows, ledger, checkpoints, migrated, txVars, auditVars>>

-----------------------------------------------------------------------------
(* verify_artifacts: SELECTs at READ COMMITTED, each with its own snapshot. *)
(* (The rows' own digests and signatures depend on one row each.)           *)

AuditLedger ==
    /\ migrated
    /\ step = 0
    /\ seenLedger' = ledger
    /\ alarms' = {}
    /\ step' = 1
    /\ UNCHANGED <<dbVars, txVars, seenRows, seenCheckpoints>>

AuditTable ==
    /\ step \in 1..3
    /\ seenRows' = [a \in Artifacts |->
                      IF TableOf[a] = Tables[step] THEN rows[a] ELSE seenRows[a]]
    /\ step' = step + 1
    /\ UNCHANGED <<dbVars, txVars, seenLedger, seenCheckpoints, alarms>>

AuditCheckpoints ==
    /\ step = 4
    /\ seenCheckpoints' = checkpoints
    /\ step' = 5
    /\ UNCHANGED <<dbVars, txVars, seenLedger, seenRows, alarms>>

(* Mutant: the first read of the ledger is used again. *)
HeadsSeenBefore == seenLedger

(* The second SELECT of _verify_ledger_checkpoints reads the heads after   *)
(* the checkpoints.                                                        *)
HeadsRead == ledger

(* That SELECT, and the report. *)
AuditHeads ==
    /\ step = 5
    /\ alarms' =
          {LedgerFailure(seenLedger, seenRows, NoEnvelope, i) :
              i \in 1..Len(seenLedger)}
          \cup {CheckpointFailure(HeadsRead, seenCheckpoints[i]) :
              i \in 1..Len(seenCheckpoints)}
    /\ step' = 0
    /\ seenLedger' = <<>>
    /\ seenRows' = NoRows
    /\ seenCheckpoints' = <<>>
    /\ UNCHANGED <<dbVars, txVars>>

Audit == AuditLedger \/ AuditTable \/ AuditCheckpoints \/ AuditHeads

-----------------------------------------------------------------------------
Next ==
    \/ \E a \in Artifacts : Backfill(a)
    \/ CommitSchema
    \/ \E p \in Procs :
        \/ \E a \in Artifacts, e \in Envelopes :
              \/ SaveRun(p, a, e)
              \/ SaveComparison(p, a, e)
              \/ SaveGuardrailEvidence(p, a, e)
        \/ SaveAgain(p) \/ ReadHead(p) \/ AppendEntry(p) \/ Rollback(p)
        \/ LockHead(p) \/ SignCheckpoint(p)
    \/ \E i \in fresh : CheckpointAges(i)
    \/ Audit

Spec == Init /\ [][Next]_vars

-----------------------------------------------------------------------------

TypeOK ==
    /\ rows \in [Artifacts -> Envelopes \cup {NoEnvelope}]
    /\ \A i \in 1..Len(ledger) :
          /\ ledger[i].artifact \in Artifacts
          /\ ledger[i].envelope \in Envelopes
    /\ fresh \subseteq 1..Len(checkpoints)
    /\ migrated \in BOOLEAN
    /\ lock \in Procs \cup {NoProc}
    /\ pc \in [Procs -> {"idle", "inserted", "append", "sign"}]
    /\ \A p \in Procs :
          saving[p] = Nothing \/ saving[p] \in [artifact : Artifacts,
                                                envelope : Envelopes]
    /\ step \in 0..5

(* The ledger is one chain: however saves, rollbacks and checkpoints       *)
(* interleave, entry i has sequence i, names the hash of entry i - 1 and   *)
(* digests its own fields.                                                 *)
ChainIntact ==
    \A i \in 1..Len(ledger) :
        LET row == ledger[i] IN
        /\ row.sequence = i
        /\ row.previous = IF i = 1 THEN Genesis ELSE ledger[i - 1].hash
        /\ row.hash = Digest(i, row.artifact, row.envelope, row.previous)

(* Source tables and ledger agree in every committed state: no artifact is *)
(* recorded twice, every entry has its source row with the recorded        *)
(* envelope, and after the migration every source row is recorded.         *)
EvidenceRecorded ==
    /\ \A i, j \in 1..Len(ledger) :
          ledger[i].artifact = ledger[j].artifact => i = j
    /\ \A i \in 1..Len(ledger) : rows[ledger[i].artifact] = ledger[i].envelope
    /\ migrated => \A a \in Artifacts :
          rows[a] # NoEnvelope => a \in Recorded(ledger)

(* "the signed head cannot move during capture": every checkpoint stays    *)
(* verifiable against the ledger of every later state.                     *)
CheckpointsAnchored ==
    \A i \in 1..Len(checkpoints) :
        CheckpointFailure(ledger, checkpoints[i]) = "valid"

(* Retries within five minutes reuse the persisted envelope: two           *)
(* publishers never sign two fresh checkpoints of one head.                *)
FreshCheckpointUnique ==
    \A i, j \in fresh :
        checkpoints[i].sequence = checkpoints[j].sequence => i = j

(* An audit of a database that only this code wrote reports nothing, even  *)
(* though its SELECTs see different moments of concurrent saves and        *)
(* publications.                                                           *)
NoFalseAlarm == alarms \subseteq {"valid"}

(* Evidence is immutable: a retry or a conflicting save never changes the  *)
(* committed envelope of an artifact.                                      *)
EvidenceImmutable ==
    [][\A a \in Artifacts : rows[a] # NoEnvelope => rows'[a] = rows[a]]_rows
-----------------------------------------------------------------------------
(* Databases restored from backups of this one (recovery.py). *)

(* Point-in-time recovery to a moment with k ledger entries and m          *)
(* checkpoints, in a state the verifier may find it in.                    *)
Restored(k, m, state) ==
    LET led == SubSeq(ledger, 1, k) IN
    [metadata |-> IF state = "old_schema" THEN "other" ELSE "current",
     recovering |-> state = "recovering",
     readable |-> state # "unreadable",
     rows |-> [a \in Artifacts |-> IF a \in Recorded(led) THEN rows[a]
                                   ELSE NoEnvelope],
     ledger |-> led,
     checkpoints |-> SubSeq(checkpoints, 1, m)]

(* A checkpoint as the verifier loads it from its directory. *)
Published(i) == [checkpoint |-> checkpoints[i], age |-> "current", signed |-> TRUE]

AcceptsRestore(db, trusted, i) ==
    Verify(db, NoEnvelope, trusted, <<Published(i)>>).success

(* A ledger built by _append_ledger_values from other evidence, an entry at *)
(* a time.                                                                  *)
Chain(items) ==
    LET built[n \in 0..Len(items)] ==
          IF n = 0 THEN <<>>
          ELSE Append(built[n - 1],
                      Entry(LedgerHead(built[n - 1]), items[n][1], items[n][2]))
    IN  built[Len(items)]

(* Copies that are not what was written: evidence replaced or lost; an     *)
(* entry edited or lost; another history, consistent in itself.            *)
DamagedRows(db) ==
    {[db EXCEPT !.rows[a] = e] : a \in Artifacts, e \in Envelopes \cup {NoEnvelope}}
DamagedEntries(db) ==
    {[db EXCEPT !.ledger[i].envelope = e] : i \in DOMAIN db.ledger, e \in Envelopes}
    \cup {[db EXCEPT !.ledger = RemoveAt(@, i)] : i \in DOMAIN db.ledger}
Histories(db) ==
    {[db EXCEPT !.ledger = Chain(items),
                !.rows = [a \in Artifacts |->
                    IF \E i \in DOMAIN items : items[i][1] = a
                    THEN items[CHOOSE i \in DOMAIN items : items[i][1] = a][2]
                    ELSE NoEnvelope]] :
        items \in SeqOf(Artifacts \X Envelopes, Cardinality(Artifacts))}

(* The committed state alone matters to a restore: it is enough to look    *)
(* when no transaction and no audit is open.                               *)
Quiet == step = 0 /\ \A p \in Procs : pc[p] = "idle"

(* Accepted are exactly the usable restores that hold the checkpoint and   *)
(* everything it attests, if that is not over the limit of the verifier    *)
(* and the keyring verifies it.                                            *)
FaithfulAccepted ==
    \A k \in 0..Len(ledger), m \in 0..Len(checkpoints), i \in DOMAIN checkpoints,
       state \in {"usable", "old_schema", "recovering", "unreadable"},
       trusted \in SUBSET Envelopes :
        AcceptsRestore(Restored(k, m, state), trusted, i)
          <=> /\ state = "usable"
              /\ i <= m
              /\ checkpoints[i].sequence <= k
              /\ checkpoints[i].sequence <= MaxLedgerEntries
              /\ \A j \in 1..checkpoints[i].sequence :
                    ledger[j].envelope \in trusted

(* No copy is accepted with the evidence below the checkpoint changed, not *)
(* even one whose ledger was rebuilt consistently.                         *)
DamageDetected ==
    LET db == Restored(Len(ledger), Len(checkpoints), "usable") IN
    \A i \in DOMAIN checkpoints :
        \A copy \in DamagedRows(db) \cup DamagedEntries(db) \cup Histories(db) :
            AcceptsRestore(copy, Envelopes, i) =>
                \A j \in 1..checkpoints[i].sequence :
                    /\ copy.ledger[j] = ledger[j]
                    /\ copy.rows[ledger[j].artifact] = ledger[j].envelope

(* The recovery verifier, a second implementation of the ledger checks,    *)
(* judges every backup of every reachable state rightly: neither a lagging *)
(* backup nor a missing key nor damaged evidence passes, and evidence      *)
(* saved later does not disturb an older checkpoint.                       *)
RestoreJudged == Quiet => FaithfulAccepted /\ DamageDetected
=============================================================================
