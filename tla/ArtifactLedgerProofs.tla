------------------------ MODULE ArtifactLedgerProofs ------------------------
(***************************************************************************)
(* The properties of the artifact ledger for any artifacts, envelopes,     *)
(* processes and number of checkpoints.  The advisory lock keeps the head  *)
(* that a transaction read current until its INSERT, so the ledger only    *)
(* ever grows, by entries that continue the chain; everything a checkpoint *)
(* or an open audit has seen of it is a prefix of it for good.             *)
(***************************************************************************)
EXTENDS ArtifactLedger, FiniteSetTheorems, SequenceTheorems, TLAPS

(* Hashes are nested without bound: a sequence of rows is typed by its     *)
(* length and its domain alone.                                            *)
IsSequence(s) == Len(s) \in Nat /\ s = [i \in 1..Len(s) |-> s[i]]

Typed ==
    /\ TypeOK
    /\ IsSequence(ledger) /\ IsSequence(checkpoints)
    /\ IsSequence(seenLedger) /\ IsSequence(seenCheckpoints)
    /\ saving = [p \in Procs |-> saving[p]]
    /\ seenHead = [p \in Procs |-> seenHead[p]]

(* What holds between the statements of an open transaction: what it read  *)
(* under the advisory lock is still so.                                    *)
OpenTransactions ==
    \A p \in Procs :
        /\ pc[p] # "idle" => migrated
        /\ pc[p] \in {"inserted", "append"} =>
              saving[p] \in [artifact : Artifacts, envelope : Envelopes]
        /\ pc[p] \in {"append", "sign"} =>
              lock = p /\ seenHead[p] = LedgerHead(ledger)
        /\ pc[p] = "append" => saving[p].artifact \notin Recorded(ledger)
        /\ pc[p] = "sign" =>
              \A i \in fresh : checkpoints[i].sequence # Len(ledger)

(* What a checkpoint attests is in the ledger. *)
Anchored(led, c) ==
    /\ c.entries = c.sequence
    /\ \/ c.sequence = 0 /\ c.hash = Genesis
       \/ \E i \in 1..Len(led) :
             led[i].sequence = c.sequence /\ led[i].hash = c.hash

Prefix(s, t) == Len(s) <= Len(t) /\ \A i \in 1..Len(s) : s[i] = t[i]

(* What an open audit has read is still so: a prefix of the ledger, for    *)
(* each of its entries in a table read since then the source row, and      *)
(* checkpoints that the ledger contains.                                   *)
AuditCurrent ==
    /\ Prefix(seenLedger, ledger)
    /\ \A i \in 1..Len(seenLedger), j \in 1..3 :
          j < step /\ TableOf[seenLedger[i].artifact] = Tables[j] =>
              seenRows[seenLedger[i].artifact] = seenLedger[i].envelope
    /\ step = 5 \/ seenCheckpoints = <<>>
    /\ \A i \in 1..Len(seenCheckpoints) : Anchored(ledger, seenCheckpoints[i])

LedgerInv ==
    /\ Typed /\ OpenTransactions
    /\ ChainIntact /\ EvidenceRecorded
    /\ CheckpointsAnchored /\ FreshCheckpointUnique
    /\ AuditCurrent /\ NoFalseAlarm

-----------------------------------------------------------------------------
(* Lemmas about the operators. *)

(* A sequence of rows stays one when a row is appended, and keeps the      *)
(* others in place.                                                        *)
LEMMA AppendRow ==
  ASSUME NEW s, IsSequence(s), NEW e
  PROVE  /\ IsSequence(Append(s, e))
         /\ Len(Append(s, e)) = Len(s) + 1
         /\ \A i \in 1..Len(s) : Append(s, e)[i] = s[i]
         /\ Append(s, e)[Len(s) + 1] = e
<1> DEFINE S == {s[i] : i \in 1..Len(s)} \cup {e}
<1>1. s \in Seq(S)
  BY DEF IsSequence
<1>2. Append(s, e) \in Seq(S) /\ Len(Append(s, e)) = Len(s) + 1
  BY <1>1
<1>3. IsSequence(Append(s, e))
  BY <1>2, LenProperties DEF IsSequence
<1>4. /\ \A i \in 1..Len(s) : Append(s, e)[i] = s[i]
      /\ Append(s, e)[Len(s) + 1] = e
  BY <1>1 DEF IsSequence
<1> QED
  BY <1>2, <1>3, <1>4

(* The empty sequence. *)
LEMMA EmptyRows == IsSequence(<<>>) /\ Len(<<>>) = 0
BY DEF IsSequence

(* A sequence of rows is empty iff it has no row.                          *)
LEMMA NoRow ==
  ASSUME NEW s, IsSequence(s)
  PROVE  s = <<>> <=> Len(s) = 0
<1> DEFINE S == {s[i] : i \in 1..Len(s)}
<1>1. s \in Seq(S)
  BY DEF IsSequence
<1> QED
  BY <1>1

(* CheckpointFailure finds nothing exactly in the anchored checkpoints. *)
LEMMA ValidIffAnchored ==
  ASSUME NEW led, NEW c
  PROVE  CheckpointFailure(led, c) = "valid" <=> Anchored(led, c)
BY DEF CheckpointFailure, Anchored, Genesis

(* The head of an intact chain is its last entry, numbered by its length. *)
LEMMA HeadOfChain ==
  ASSUME Typed, ChainIntact
  PROVE  /\ LedgerHead(ledger).sequence = Len(ledger)
         /\ LedgerHead(ledger).hash =
              IF Len(ledger) = 0 THEN Genesis ELSE ledger[Len(ledger)].hash
BY NoRow DEF Typed, IsSequence, ChainIntact, LedgerHead

(* What was anchored in the ledger is anchored in a longer one. *)
LEMMA AnchoredInLonger ==
  ASSUME NEW led, IsSequence(led), NEW e, NEW c, Anchored(led, c)
  PROVE  Anchored(Append(led, e), c)
BY AppendRow DEF Anchored, IsSequence

(* An audit of an intact chain whose entries have their source rows finds  *)
(* nothing.                                                                *)
LEMMA IntactIsValid ==
  ASSUME NEW led, IsSequence(led), NEW src, NEW i \in 1..Len(led),
         \A j \in 1..i :
            /\ led[j].sequence = j
            /\ led[j].previous = (IF j = 1 THEN Genesis ELSE led[j - 1].hash)
            /\ led[j].hash = Digest(j, led[j].artifact, led[j].envelope,
                                    led[j].previous),
         src[led[i].artifact] = led[i].envelope,
         led[i].envelope # NoEnvelope
  PROVE  LedgerFailure(led, src, NoEnvelope, i) = "valid"
<1> DEFINE before == SubSeq(led, 1, i - 1)
<1>1. /\ Len(led) \in Nat /\ i \in Nat /\ i >= 1 /\ i <= Len(led)
  BY DEF IsSequence
<1>2. LedgerHead(before).sequence = i - 1
      /\ LedgerHead(before).hash = (IF i = 1 THEN Genesis ELSE led[i - 1].hash)
  <2>1. CASE i = 1
    <3>1. before = <<>>
      BY <2>1, SubSeqEmpty
    <3> QED BY <2>1, <3>1 DEF LedgerHead
  <2>2. CASE i > 1
    <3> DEFINE S == {led[j] : j \in 1..(i - 1)}
    <3>1. /\ before \in Seq(S)
          /\ Len(before) = i - 1
          /\ \A j \in 1..(i - 1) : before[j] = led[j]
      <4>1. \A j \in 1..(i - 1) : led[j] \in S
        OBVIOUS
      <4>2. i - 1 \in Int /\ 1 <= i - 1 /\ (i - 1) - 1 + 1 = i - 1
            /\ \A j \in 1..(i - 1) : 1 + j - 1 = j
        BY <1>1, <2>2
      <4> HIDE DEF S
      <4> QED BY <4>1, <4>2, SubSeqProperties
    <3>2. before # <<>>
      BY <1>1, <2>2, <3>1
    <3> HIDE DEF before
    <3> QED
      BY <1>1, <2>2, <3>1, <3>2 DEF LedgerHead
  <2> QED BY <1>1, <2>1, <2>2
<1> HIDE DEF before
<1>3. led[i].sequence = LedgerHead(SubSeq(led, 1, i - 1)).sequence + 1
      /\ led[i].previous = LedgerHead(SubSeq(led, 1, i - 1)).hash
  BY <1>1, <1>2 DEF before
<1> QED
  BY <1>1, <1>3 DEF LedgerFailure

-----------------------------------------------------------------------------
(* The invariant holds in a database of an earlier schema. *)
LEMMA InitInv == Init => LedgerInv
<1> SUFFICES ASSUME Init PROVE LedgerInv
  OBVIOUS
<1> USE EmptyRows, ConstantsAssumption DEF Init
<1>1. Typed
  <2>1. TypeOK
    <3>1. /\ rows \in [Artifacts -> Envelopes \cup {NoEnvelope}]
          /\ fresh \subseteq 1..Len(checkpoints)
          /\ lock \in Procs \cup {NoProc} /\ step \in 0..5
      OBVIOUS
    <3>2. pc \in [Procs -> {"idle", "inserted", "append", "sign"}]
          /\ \A p \in Procs : saving[p] = Nothing
      OBVIOUS
    <3>3. migrated \in BOOLEAN
      BY Zenon
    <3>4. 1..Len(ledger) = {}
      OBVIOUS
    <3> QED
      BY <3>1, <3>2, <3>3, <3>4 DEF TypeOK
  <2>2. /\ IsSequence(ledger) /\ IsSequence(checkpoints)
        /\ IsSequence(seenLedger) /\ IsSequence(seenCheckpoints)
    OBVIOUS
  <2>3. saving = [p \in Procs |-> saving[p]] /\ seenHead = [p \in Procs |-> seenHead[p]]
    OBVIOUS
  <2> QED BY <2>1, <2>2, <2>3 DEF Typed
<1>2. OpenTransactions /\ FreshCheckpointUnique /\ NoFalseAlarm
  BY DEF OpenTransactions, FreshCheckpointUnique, NoFalseAlarm
<1>3. ChainIntact /\ EvidenceRecorded /\ CheckpointsAnchored
  BY DEF ChainIntact, EvidenceRecorded, CheckpointsAnchored
<1>4. AuditCurrent
  BY DEF AuditCurrent, Prefix
<1> QED
  BY <1>1, <1>2, <1>3, <1>4 DEF LedgerInv

(* The one way in which the ledger changes: an entry that continues the    *)
(* chain, for an artifact that has none, beside its source row.  Chain,    *)
(* checkpoints and open audits survive it.                                 *)
LEMMA EntryAppended ==
  ASSUME LedgerInv,
         NEW a \in Artifacts, NEW e \in Envelopes, a \notin Recorded(ledger),
         ledger' = Append(ledger, Entry(LedgerHead(ledger), a, e)),
         rows' = [rows EXCEPT ![a] = e],
         UNCHANGED <<checkpoints, fresh, migrated, auditVars>>
  PROVE  /\ IsSequence(ledger')
         /\ Recorded(ledger)' = Recorded(ledger) \cup {a}
         /\ \A i \in 1..Len(ledger') : /\ ledger'[i].artifact \in Artifacts
                                       /\ ledger'[i].envelope \in Envelopes
         /\ ChainIntact' /\ EvidenceRecorded'
         /\ CheckpointsAnchored' /\ FreshCheckpointUnique'
         /\ AuditCurrent' /\ NoFalseAlarm'
<1> DEFINE n == Len(ledger)
           new == Entry(LedgerHead(ledger), a, e)
<1>1. /\ Typed /\ TypeOK /\ IsSequence(ledger) /\ n \in Nat /\ ChainIntact
      /\ EvidenceRecorded /\ CheckpointsAnchored /\ AuditCurrent
  BY DEF LedgerInv, Typed, IsSequence
<1>2. /\ IsSequence(ledger') /\ Len(ledger') = n + 1
      /\ \A i \in 1..n : ledger'[i] = ledger[i]
      /\ ledger'[n + 1] = new
  BY <1>1, AppendRow
<1>3. /\ new.sequence = n + 1 /\ new.artifact = a /\ new.envelope = e
      /\ new.previous = (IF n = 0 THEN Genesis ELSE ledger[n].hash)
      /\ new.hash = Digest(n + 1, a, e, new.previous)
  BY <1>1, HeadOfChain DEF Entry
<1>4. \A i \in 1..n : ledger[i].artifact # a
  BY DEF Recorded
<1> HIDE DEF new
<1>5. Recorded(ledger)' = Recorded(ledger) \cup {a}
  BY <1>1, <1>2, <1>3 DEF Recorded
<1>6. \A i \in 1..Len(ledger') : /\ ledger'[i].artifact \in Artifacts
                                 /\ ledger'[i].envelope \in Envelopes
  <2> SUFFICES ASSUME NEW i \in 1..(n + 1)
               PROVE  /\ ledger'[i].artifact \in Artifacts
                      /\ ledger'[i].envelope \in Envelopes
    BY <1>2
  <2>1. i \in 1..n \/ i = n + 1
    BY <1>1
  <2> QED BY <1>1, <1>2, <1>3, <2>1 DEF TypeOK
<1>7. ChainIntact'
  <2> SUFFICES ASSUME NEW i \in 1..(n + 1)
               PROVE  /\ ledger'[i].sequence = i
                      /\ ledger'[i].previous =
                            IF i = 1 THEN Genesis ELSE ledger'[i - 1].hash
                      /\ ledger'[i].hash = Digest(i, ledger'[i].artifact,
                                     ledger'[i].envelope, ledger'[i].previous)
    BY <1>2 DEF ChainIntact
  <2>1. CASE i \in 1..n
    <3>1. i = 1 \/ i - 1 \in 1..n
      BY <1>1, <2>1
    <3> QED BY <1>1, <1>2, <2>1, <3>1 DEF ChainIntact
  <2>2. CASE i = n + 1
    <3>1. (n = 0 /\ i = 1) \/ (n \in 1..n /\ i - 1 = n /\ i # 1 /\ n # 0)
      BY <1>1, <2>2
    <3> QED BY <1>2, <1>3, <2>2, <3>1
  <2> QED BY <1>1, <2>1, <2>2
<1>8. EvidenceRecorded'
  <2>1. \A i, j \in 1..(n + 1) :
            ledger'[i].artifact = ledger'[j].artifact => i = j
    <3> SUFFICES ASSUME NEW i \in 1..(n + 1), NEW j \in 1..(n + 1),
                        ledger'[i].artifact = ledger'[j].artifact
                 PROVE  i = j
      OBVIOUS
    <3>1. (i \in 1..n \/ i = n + 1) /\ (j \in 1..n \/ j = n + 1)
      BY <1>1
    <3> QED BY <1>1, <1>2, <1>3, <1>4, <3>1 DEF EvidenceRecorded
  <2>2. \A i \in 1..(n + 1) : rows'[ledger'[i].artifact] = ledger'[i].envelope
    <3> SUFFICES ASSUME NEW i \in 1..(n + 1)
                 PROVE  rows'[ledger'[i].artifact] = ledger'[i].envelope
      OBVIOUS
    <3>1. i \in 1..n \/ i = n + 1
      BY <1>1
    <3> QED
      BY <1>1, <1>2, <1>3, <1>4, <3>1 DEF EvidenceRecorded, TypeOK
  <2>3. migrated' => \A b \in Artifacts :
            rows'[b] # NoEnvelope => b \in Recorded(ledger)'
    BY <1>1, <1>5 DEF EvidenceRecorded, TypeOK
  <2> QED
    BY <1>2, <2>1, <2>2, <2>3 DEF EvidenceRecorded
<1>9. CheckpointsAnchored' /\ FreshCheckpointUnique' /\ NoFalseAlarm'
  BY <1>1, AnchoredInLonger, ValidIffAnchored
     DEF LedgerInv, CheckpointsAnchored, FreshCheckpointUnique, NoFalseAlarm, auditVars
<1>10. AuditCurrent'
  <2>1. Prefix(seenLedger, ledger')
    <3>1. Len(seenLedger) \in Nat
      BY DEF LedgerInv, Typed, IsSequence
    <3> QED BY <1>1, <1>2, <3>1 DEF AuditCurrent, Prefix
  <2>2. \A i \in 1..Len(seenCheckpoints) : Anchored(ledger', seenCheckpoints[i])
    BY <1>1, AnchoredInLonger DEF AuditCurrent
  <2> QED
    BY <1>1, <2>1, <2>2 DEF AuditCurrent, auditVars
<1> QED
  BY <1>2, <1>5, <1>6, <1>7, <1>8, <1>9, <1>10

(* Steps of a transaction before its commit, and rollbacks, change nothing *)
(* that others see.                                                        *)
LEMMA NothingCommitted ==
  ASSUME LedgerInv, UNCHANGED <<dbVars, auditVars>>
  PROVE  /\ ChainIntact' /\ EvidenceRecorded'
         /\ CheckpointsAnchored' /\ FreshCheckpointUnique'
         /\ AuditCurrent' /\ NoFalseAlarm'
BY DEF LedgerInv, dbVars, auditVars, ChainIntact, EvidenceRecorded, Recorded,
       CheckpointsAnchored, CheckpointFailure, FreshCheckpointUnique, AuditCurrent,
       Prefix, Anchored, NoFalseAlarm

(* The end of a transaction keeps the types of the transactions. *)
LEMMA EndTyped ==
  ASSUME LedgerInv, NEW p \in Procs, EndTransaction(p)
  PROVE  /\ lock' \in Procs \cup {NoProc}
         /\ pc' \in [Procs -> {"idle", "inserted", "append", "sign"}]
         /\ pc'[p] = "idle"
         /\ \A q \in Procs : saving'[q] = Nothing
                             \/ saving'[q] \in [artifact : Artifacts, envelope : Envelopes]
         /\ saving' = [q \in Procs |-> saving'[q]]
         /\ seenHead' = [q \in Procs |-> seenHead'[q]]
         /\ \A q \in Procs \ {p} :
               /\ pc'[q] = pc[q] /\ saving'[q] = saving[q] /\ seenHead'[q] = seenHead[q]
               /\ lock = q => lock' = q
<1> USE DEF LedgerInv, Typed, TypeOK, EndTransaction
<1>1. saving' = [q \in Procs |-> IF q = p THEN Nothing ELSE saving[q]]
  OBVIOUS
<1>2. seenHead' = [q \in Procs |-> IF q = p THEN LedgerHead(<<>>) ELSE seenHead[q]]
  OBVIOUS
<1>3. pc' = [q \in Procs |-> IF q = p THEN "idle" ELSE pc[q]]
  OBVIOUS
<1>4. saving' = [q \in Procs |-> saving'[q]] /\ seenHead' = [q \in Procs |-> seenHead'[q]]
  BY <1>1, <1>2
<1>5. lock' \in Procs \cup {NoProc} /\ \A q \in Procs \ {p} : lock = q => lock' = q
  OBVIOUS
<1> QED
  BY <1>1, <1>2, <1>3, <1>4, <1>5

(* A transaction that ends without a change of ledger, checkpoints or      *)
(* ages leaves the others as they were.                                    *)
LEMMA EndLeavesOthers ==
  ASSUME LedgerInv, NEW p \in Procs, EndTransaction(p),
         UNCHANGED <<ledger, checkpoints, fresh, migrated>>
  PROVE  OpenTransactions'
BY EndTyped DEF LedgerInv, OpenTransactions, Recorded, LedgerHead

-----------------------------------------------------------------------------
(* Schema initialization. *)

(* A backfilled entry continues the chain and its source row exists. *)
LEMMA BackfillKeeps ==
  ASSUME LedgerInv, NEW a \in Artifacts, Backfill(a)
  PROVE  LedgerInv'
<1>1. rows[a] \in Envelopes /\ rows' = [rows EXCEPT ![a] = rows[a]]
  BY DEF Backfill, LedgerInv, Typed, TypeOK
<1>2. /\ IsSequence(ledger') /\ ChainIntact' /\ EvidenceRecorded'
      /\ CheckpointsAnchored' /\ FreshCheckpointUnique' /\ AuditCurrent' /\ NoFalseAlarm'
      /\ \A i \in 1..Len(ledger') : /\ ledger'[i].artifact \in Artifacts
                                    /\ ledger'[i].envelope \in Envelopes
  BY <1>1, EntryAppended DEF Backfill
<1>3. Typed'
  BY <1>2 DEF Backfill, LedgerInv, Typed, TypeOK, txVars, auditVars, IsSequence
<1>4. OpenTransactions'
  BY DEF Backfill, LedgerInv, OpenTransactions, Typed, TypeOK, txVars
<1> QED
  BY <1>2, <1>3, <1>4 DEF LedgerInv

(* The schema commits when every source row is recorded. *)
LEMMA CommitSchemaKeeps ==
  ASSUME LedgerInv, CommitSchema
  PROVE  LedgerInv'
<1> USE DEF LedgerInv, CommitSchema, txVars, auditVars
<1>1. Typed'
  BY DEF Typed, TypeOK, IsSequence
<1>2. OpenTransactions'
  BY DEF OpenTransactions, Recorded, LedgerHead
<1>3. EvidenceRecorded'
  BY DEF EvidenceRecorded, Recorded
<1>4. /\ ChainIntact' /\ CheckpointsAnchored' /\ FreshCheckpointUnique'
      /\ AuditCurrent' /\ NoFalseAlarm'
  BY DEF ChainIntact, CheckpointsAnchored, CheckpointFailure, FreshCheckpointUnique,
         AuditCurrent, Prefix, Anchored, NoFalseAlarm
<1> QED
  BY <1>1, <1>2, <1>3, <1>4

-----------------------------------------------------------------------------
(* The save of an artifact. *)

(* The INSERT of a source row commits nothing yet. *)
LEMMA InsertRowKeeps ==
  ASSUME LedgerInv, NEW p \in Procs, NEW a \in Artifacts, NEW e \in Envelopes,
         InsertRow(p, a, e)
  PROVE  LedgerInv'
<1> USE DEF InsertRow, dbVars, auditVars
<1>1. saving' = [q \in Procs |-> IF q = p THEN [artifact |-> a, envelope |-> e]
                                 ELSE saving[q]]
  BY DEF LedgerInv, Typed
<1>2. pc' = [q \in Procs |-> IF q = p THEN "inserted" ELSE pc[q]]
  BY DEF LedgerInv, Typed, TypeOK
<1>3. saving' = [q \in Procs |-> saving'[q]]
  BY <1>1
<1>4. Typed'
  BY <1>1, <1>2, <1>3 DEF LedgerInv, Typed, TypeOK, IsSequence
<1>5. OpenTransactions'
  BY <1>1, <1>2 DEF LedgerInv, OpenTransactions, Recorded, LedgerHead
<1> QED
  BY <1>4, <1>5, NothingCommitted DEF LedgerInv

(* A repeated save writes the row that is there. *)
LEMMA SaveAgainKeeps ==
  ASSUME LedgerInv, NEW p \in Procs, SaveAgain(p)
  PROVE  LedgerInv' /\ rows' = rows
<1>1. rows[saving[p].artifact] = saving[p].envelope
      /\ rows' = [rows EXCEPT ![saving[p].artifact] = saving[p].envelope]
  BY DEF SaveAgain, MatchesLedger, LedgerInv, EvidenceRecorded
<1>2. rows' = rows
  BY <1>1 DEF LedgerInv, Typed, TypeOK
<1>3. UNCHANGED <<dbVars, auditVars>>
  BY <1>2 DEF SaveAgain, dbVars
<1>4. Typed'
  BY <1>3, EndTyped DEF SaveAgain, LedgerInv, Typed, TypeOK, dbVars, auditVars, IsSequence
<1>5. OpenTransactions'
  BY EndLeavesOthers DEF SaveAgain
<1> QED
  BY <1>2, <1>3, <1>4, <1>5, NothingCommitted DEF LedgerInv

(* A transaction that reads the head holds the lock from then on. *)
LEMMA ReadHeadKeeps ==
  ASSUME LedgerInv, NEW p \in Procs, ReadHead(p)
  PROVE  LedgerInv'
<1> USE DEF ReadHead, LockFree, dbVars, auditVars
<1>1. seenHead' = [q \in Procs |-> IF q = p THEN LedgerHead(ledger) ELSE seenHead[q]]
  BY DEF LedgerInv, Typed
<1>2. pc' = [q \in Procs |-> IF q = p THEN "append" ELSE pc[q]]
  BY DEF LedgerInv, Typed, TypeOK
<1>3. seenHead' = [q \in Procs |-> seenHead'[q]]
  BY <1>1
<1>4. Typed'
  BY <1>2, <1>3 DEF LedgerInv, Typed, TypeOK, IsSequence
<1>5. OpenTransactions'
  BY <1>1, <1>2, ConstantsAssumption DEF LedgerInv, OpenTransactions, Recorded, LedgerHead
<1> QED
  BY <1>4, <1>5, NothingCommitted DEF LedgerInv

(* The head read under the lock is still the head at the INSERT. *)
LEMMA AppendEntryKeeps ==
  ASSUME LedgerInv, NEW p \in Procs, AppendEntry(p)
  PROVE  LedgerInv'
<1> DEFINE a == saving[p].artifact
           e == saving[p].envelope
<1>1. /\ a \in Artifacts /\ e \in Envelopes /\ a \notin Recorded(ledger)
      /\ lock = p /\ seenHead[p] = LedgerHead(ledger)
  BY DEF AppendEntry, LedgerInv, OpenTransactions
<1>2. /\ ledger' = Append(ledger, Entry(LedgerHead(ledger), a, e))
      /\ rows' = [rows EXCEPT ![a] = e]
      /\ UNCHANGED <<checkpoints, fresh, migrated, auditVars>>
      /\ EndTransaction(p)
  BY <1>1 DEF AppendEntry
<1> HIDE DEF a, e
<1>3. /\ IsSequence(ledger') /\ ChainIntact' /\ EvidenceRecorded'
      /\ CheckpointsAnchored' /\ FreshCheckpointUnique' /\ AuditCurrent' /\ NoFalseAlarm'
      /\ \A i \in 1..Len(ledger') : /\ ledger'[i].artifact \in Artifacts
                                    /\ ledger'[i].envelope \in Envelopes
  BY <1>1, <1>2, EntryAppended
<1>4. Typed'
  BY <1>1, <1>2, <1>3, EndTyped DEF LedgerInv, Typed, TypeOK, auditVars, IsSequence
<1>5. \A q \in Procs \ {p} : pc[q] \notin {"append", "sign"}
  BY <1>1 DEF LedgerInv, OpenTransactions
<1>6. OpenTransactions'
  BY <1>2, <1>5, EndTyped DEF LedgerInv, OpenTransactions
<1> QED
  BY <1>3, <1>4, <1>6 DEF LedgerInv

(* A failed transaction leaves nothing behind. *)
LEMMA RollbackKeeps ==
  ASSUME LedgerInv, NEW p \in Procs, Rollback(p)
  PROVE  LedgerInv'
<1>1. Typed'
  BY EndTyped DEF Rollback, LedgerInv, Typed, TypeOK, dbVars, auditVars, IsSequence
<1>2. OpenTransactions'
  BY EndLeavesOthers DEF Rollback, dbVars
<1> QED
  BY <1>1, <1>2, NothingCommitted DEF Rollback, LedgerInv

-----------------------------------------------------------------------------
(* Checkpoints. *)

(* While a publisher holds the lock no other checkpoint of the head is     *)
(* signed: an unusable fresh checkpoint attests another sequence.          *)
LEMMA LockHeadKeeps ==
  ASSUME LedgerInv, NEW p \in Procs, LockHead(p)
  PROVE  LedgerInv'
<1> USE DEF LockHead, LockFree, dbVars, auditVars
<1>1. seenHead' = [q \in Procs |-> IF q = p THEN LedgerHead(ledger) ELSE seenHead[q]]
  BY DEF LedgerInv, Typed
<1>2. pc' = [q \in Procs |-> IF q = p THEN "sign" ELSE pc[q]]
  BY DEF LedgerInv, Typed, TypeOK
<1>3. seenHead' = [q \in Procs |-> seenHead'[q]]
  BY <1>1
<1>4. Typed'
  BY <1>2, <1>3 DEF LedgerInv, Typed, TypeOK, IsSequence
<1>5. \A i \in fresh : checkpoints[i].sequence # Len(ledger)
  <2> SUFFICES ASSUME NEW i \in fresh, checkpoints[i].sequence = Len(ledger)
               PROVE  FALSE
    OBVIOUS
  <2>1. Typed /\ ChainIntact /\ Len(ledger) \in Nat /\ i \in 1..Len(checkpoints)
    BY DEF LedgerInv, Typed, TypeOK, IsSequence
  <2>2. Anchored(ledger, checkpoints[i])
    BY <2>1, ValidIffAnchored DEF LedgerInv, CheckpointsAnchored
  <2>3. checkpoints[i].hash =
            IF Len(ledger) = 0 THEN Genesis ELSE ledger[Len(ledger)].hash
    BY <2>1, <2>2 DEF Anchored, ChainIntact
  <2> QED
    BY <2>1, <2>3, HeadOfChain DEF Reusable
<1>6. OpenTransactions'
  BY <1>1, <1>2, <1>5, ConstantsAssumption
     DEF LedgerInv, OpenTransactions, Recorded, LedgerHead
<1> QED
  BY <1>4, <1>6, NothingCommitted DEF LedgerInv

(* What is signed is the head of the ledger and its length. *)
LEMMA SignCheckpointKeeps ==
  ASSUME LedgerInv, NEW p \in Procs, SignCheckpoint(p)
  PROVE  LedgerInv'
<1> DEFINE n == Len(checkpoints)
           new == [id |-> n + 1, sequence |-> seenHead[p].sequence,
                   hash |-> seenHead[p].hash, entries |-> Len(ledger)]
<1>1. /\ Typed /\ ChainIntact /\ IsSequence(checkpoints) /\ n \in Nat
      /\ fresh \subseteq 1..n /\ Len(ledger) \in Nat
  BY DEF LedgerInv, Typed, TypeOK, IsSequence
<1>2. /\ lock = p /\ seenHead[p] = LedgerHead(ledger)
      /\ \A i \in fresh : checkpoints[i].sequence # Len(ledger)
  BY DEF SignCheckpoint, LedgerInv, OpenTransactions
<1>3. /\ new.sequence = Len(ledger) /\ new.entries = Len(ledger)
      /\ new.hash = IF Len(ledger) = 0 THEN Genesis ELSE ledger[Len(ledger)].hash
  BY <1>1, <1>2, HeadOfChain
<1>4. Anchored(ledger, new)
  BY <1>1, <1>3 DEF Anchored, ChainIntact
<1>5. /\ checkpoints' = Append(checkpoints, new)
      /\ fresh' = fresh \cup {n + 1}
      /\ EndTransaction(p)
      /\ UNCHANGED <<rows, ledger, migrated, auditVars>>
  BY DEF SignCheckpoint
<1> HIDE DEF new
<1>6. /\ IsSequence(checkpoints') /\ Len(checkpoints') = n + 1
      /\ \A i \in 1..n : checkpoints'[i] = checkpoints[i]
      /\ checkpoints'[n + 1] = new
  BY <1>1, <1>5, AppendRow
<1> HIDE DEF n
<1>7. Typed'
  <2>1. fresh' \subseteq 1..Len(checkpoints')
    BY <1>1, <1>5, <1>6
  <2> QED
    BY <1>5, <1>6, <2>1, EndTyped DEF LedgerInv, Typed, TypeOK, auditVars, IsSequence
<1>8. OpenTransactions'
  <2>1. \A q \in Procs \ {p} : pc[q] \notin {"append", "sign"}
    BY <1>2 DEF LedgerInv, OpenTransactions
  <2> QED
    BY <1>5, <2>1, EndTyped DEF LedgerInv, OpenTransactions
<1>9. CheckpointsAnchored'
  <2> SUFFICES ASSUME NEW i \in 1..(n + 1)
               PROVE  CheckpointFailure(ledger, checkpoints'[i]) = "valid"
    BY <1>5, <1>6 DEF CheckpointsAnchored
  <2>1. i \in 1..n \/ i = n + 1
    BY <1>1
  <2> QED
    BY <1>4, <1>6, <2>1, ValidIffAnchored DEF LedgerInv, CheckpointsAnchored, n
<1>10. FreshCheckpointUnique'
  <2> SUFFICES ASSUME NEW i \in fresh \cup {n + 1}, NEW j \in fresh \cup {n + 1},
                      checkpoints'[i].sequence = checkpoints'[j].sequence
               PROVE  i = j
    BY <1>5 DEF FreshCheckpointUnique
  <2>1. \A k \in fresh : checkpoints'[k] = checkpoints[k]
    BY <1>1, <1>6
  <2> QED
    BY <1>2, <1>3, <1>6, <2>1 DEF LedgerInv, FreshCheckpointUnique
<1>11. ChainIntact' /\ EvidenceRecorded' /\ AuditCurrent' /\ NoFalseAlarm'
  BY <1>5 DEF LedgerInv, auditVars, ChainIntact, EvidenceRecorded, Recorded,
              AuditCurrent, Prefix, Anchored, NoFalseAlarm
<1> QED
  BY <1>7, <1>8, <1>9, <1>10, <1>11 DEF LedgerInv

(* Ageing only removes a checkpoint from the fresh ones. *)
LEMMA CheckpointAgesKeeps ==
  ASSUME LedgerInv, NEW i \in fresh, CheckpointAges(i)
  PROVE  LedgerInv'
<1> USE DEF LedgerInv, CheckpointAges, txVars, auditVars
<1>1. Typed'
  BY DEF Typed, TypeOK, IsSequence
<1>2. OpenTransactions'
  BY DEF OpenTransactions, Recorded, LedgerHead
<1>3. FreshCheckpointUnique'
  BY DEF FreshCheckpointUnique
<1>4. /\ ChainIntact' /\ EvidenceRecorded' /\ CheckpointsAnchored'
      /\ AuditCurrent' /\ NoFalseAlarm'
  BY DEF ChainIntact, EvidenceRecorded, Recorded, CheckpointsAnchored, CheckpointFailure,
         AuditCurrent, Prefix, Anchored, NoFalseAlarm
<1> QED
  BY <1>1, <1>2, <1>3, <1>4

-----------------------------------------------------------------------------
(* The audit. *)

(* A step of the audit changes nothing but what the audit knows. *)
LEMMA AuditOnlyReads ==
  ASSUME LedgerInv, UNCHANGED <<dbVars, txVars>>
  PROVE  /\ OpenTransactions' /\ ChainIntact' /\ EvidenceRecorded'
         /\ CheckpointsAnchored' /\ FreshCheckpointUnique'
BY DEF LedgerInv, dbVars, txVars, OpenTransactions, LedgerHead, ChainIntact,
       EvidenceRecorded, Recorded, CheckpointsAnchored, CheckpointFailure,
       FreshCheckpointUnique

(* A finished audit of what was read before reports nothing. *)
LEMMA NothingReported ==
  ASSUME LedgerInv, AuditHeads
  PROVE  NoFalseAlarm'
<1> USE DEF LedgerInv
<1>1. /\ IsSequence(seenLedger) /\ Len(seenLedger) \in Nat /\ Len(ledger) \in Nat
      /\ Len(seenLedger) <= Len(ledger)
      /\ \A i \in 1..Len(seenLedger) : seenLedger[i] = ledger[i]
  BY DEF Typed, IsSequence, AuditCurrent, Prefix
<1>2. ASSUME NEW i \in 1..Len(seenLedger)
      PROVE  LedgerFailure(seenLedger, seenRows, NoEnvelope, i) = "valid"
  <2>1. \A j \in 1..i :
            /\ j \in 1..Len(ledger) /\ seenLedger[j] = ledger[j]
            /\ j # 1 => seenLedger[j - 1] = ledger[j - 1]
    BY <1>1
  <2>2. \A j \in 1..i :
            /\ seenLedger[j].sequence = j
            /\ seenLedger[j].previous =
                  (IF j = 1 THEN Genesis ELSE seenLedger[j - 1].hash)
            /\ seenLedger[j].hash = Digest(j, seenLedger[j].artifact,
                              seenLedger[j].envelope, seenLedger[j].previous)
    BY <2>1 DEF ChainIntact
  <2>3. /\ seenLedger[i].artifact \in Artifacts
        /\ seenLedger[i].envelope \in Envelopes
    BY <1>1 DEF Typed, TypeOK
  <2>4. PICK j \in 1..3 : TableOf[seenLedger[i].artifact] = Tables[j]
    BY <2>3, ConstantsAssumption
  <2>5. seenRows[seenLedger[i].artifact] = seenLedger[i].envelope
    BY <2>4 DEF AuditHeads, AuditCurrent
  <2> QED
    BY <1>1, <2>2, <2>3, <2>5, IntactIsValid, ConstantsAssumption
<1>3. \A i \in 1..Len(seenCheckpoints) :
          CheckpointFailure(ledger, seenCheckpoints[i]) = "valid"
  BY ValidIffAnchored DEF AuditCurrent
<1> QED
  BY <1>2, <1>3 DEF AuditHeads, HeadsRead, NoFalseAlarm

(* Each SELECT of the audit sees what the others left true. *)
LEMMA AuditKeeps ==
  ASSUME LedgerInv, Audit
  PROVE  LedgerInv'
<1> USE DEF LedgerInv
<1>1. UNCHANGED <<dbVars, txVars>>
  BY DEF Audit, AuditLedger, AuditTable, AuditCheckpoints, AuditHeads
<1>2. Typed' /\ AuditCurrent' /\ NoFalseAlarm'
  <2>1. CASE AuditLedger
    BY <2>1 DEF AuditLedger, Typed, TypeOK, IsSequence, AuditCurrent, Prefix, Anchored,
                NoFalseAlarm, dbVars, txVars
  <2>2. CASE AuditTable
    <3>1. Typed' /\ NoFalseAlarm'
      BY <2>2 DEF AuditTable, Typed, TypeOK, IsSequence, NoFalseAlarm, dbVars, txVars
    <3>2. ASSUME NEW i \in 1..Len(seenLedger), NEW j \in 1..3, j < step + 1,
                 TableOf[seenLedger[i].artifact] = Tables[j]
          PROVE  seenRows'[seenLedger[i].artifact] = seenLedger[i].envelope
      <4> DEFINE a == seenLedger[i].artifact
      <4>1. i \in 1..Len(ledger) /\ seenLedger[i] = ledger[i]
        BY DEF Typed, IsSequence, AuditCurrent, Prefix
      <4>2. a \in Artifacts /\ rows[a] = seenLedger[i].envelope
        BY <4>1 DEF Typed, TypeOK, EvidenceRecorded
      <4>3. CASE TableOf[a] = Tables[step]
        BY <2>2, <4>2, <4>3 DEF AuditTable
      <4>4. CASE TableOf[a] # Tables[step]
        <5>1. j < step
          BY <2>2, <3>2, <4>4 DEF AuditTable
        <5>2. seenRows[a] = seenLedger[i].envelope
          BY <3>2, <5>1 DEF AuditCurrent
        <5> QED
          BY <2>2, <4>2, <4>4, <5>2 DEF AuditTable
      <4> QED
        BY <4>3, <4>4
    <3>3. AuditCurrent'
      BY <2>2, <3>2 DEF AuditTable, AuditCurrent, Prefix, Anchored, dbVars
    <3> QED
      BY <3>1, <3>3
  <2>3. CASE AuditCheckpoints
    <3>1. Typed' /\ NoFalseAlarm'
      BY <2>3 DEF AuditCheckpoints, Typed, TypeOK, IsSequence, NoFalseAlarm, dbVars, txVars
    <3>2. \A i \in 1..Len(checkpoints) : Anchored(ledger, checkpoints[i])
      BY ValidIffAnchored DEF CheckpointsAnchored
    <3>3. \A i \in 1..Len(seenLedger), j \in 1..3 :
            TableOf[seenLedger[i].artifact] = Tables[j] =>
                seenRows[seenLedger[i].artifact] = seenLedger[i].envelope
      BY <2>3 DEF AuditCheckpoints, AuditCurrent
    <3>4. AuditCurrent'
      BY <2>3, <3>2, <3>3 DEF AuditCheckpoints, AuditCurrent, Prefix, Anchored, dbVars
    <3> QED
      BY <3>1, <3>4
  <2>4. CASE AuditHeads
    <3>1. Typed' /\ AuditCurrent'
      BY <2>4, EmptyRows DEF AuditHeads, Typed, TypeOK, IsSequence, AuditCurrent, Prefix,
                             dbVars, txVars
    <3> QED
      BY <2>4, <3>1, NothingReported
  <2> QED
    BY <2>1, <2>2, <2>3, <2>4 DEF Audit
<1> QED
  BY <1>1, <1>2, AuditOnlyReads

-----------------------------------------------------------------------------
(* Every step keeps the invariant. *)
LEMMA NextKeepsInv == LedgerInv /\ [Next]_vars => LedgerInv'
<1> SUFFICES ASSUME LedgerInv, [Next]_vars PROVE LedgerInv'
  OBVIOUS
<1>1. ASSUME NEW a \in Artifacts, Backfill(a) PROVE LedgerInv'
  BY <1>1, BackfillKeeps
<1>2. CASE CommitSchema
  BY <1>2, CommitSchemaKeeps
<1>3. ASSUME NEW p \in Procs, NEW a \in Artifacts, NEW e \in Envelopes,
             SaveRun(p, a, e) \/ SaveComparison(p, a, e) \/ SaveGuardrailEvidence(p, a, e)
      PROVE  LedgerInv'
  BY <1>3, InsertRowKeeps DEF SaveRun, SaveComparison, SaveGuardrailEvidence
<1>4. ASSUME NEW p \in Procs,
             SaveAgain(p) \/ ReadHead(p) \/ AppendEntry(p) \/ Rollback(p)
      PROVE  LedgerInv'
  BY <1>4, SaveAgainKeeps, ReadHeadKeeps, AppendEntryKeeps, RollbackKeeps
<1>5. ASSUME NEW p \in Procs, LockHead(p) \/ SignCheckpoint(p) PROVE LedgerInv'
  BY <1>5, LockHeadKeeps, SignCheckpointKeeps
<1>6. ASSUME NEW i \in fresh, CheckpointAges(i) PROVE LedgerInv'
  BY <1>6, CheckpointAgesKeeps
<1>7. CASE Audit
  BY <1>7, AuditKeeps
<1>8. CASE UNCHANGED vars
  <2>1. UNCHANGED <<dbVars, txVars>> /\ UNCHANGED <<dbVars, auditVars>>
    BY <1>8 DEF vars
  <2>2. Typed'
    BY <2>1 DEF LedgerInv, Typed, TypeOK, IsSequence, dbVars, txVars, auditVars
  <2> QED
    BY <2>1, <2>2, AuditOnlyReads, NothingCommitted DEF LedgerInv
<1> QED
  BY <1>1, <1>2, <1>3, <1>4, <1>5, <1>6, <1>7, <1>8 DEF Next

(* The inductive invariant of the ledger, its writers and its audit.       *)
THEOREM LedgerInvariant == Spec => []LedgerInv
BY InitInv, NextKeepsInv, PTL DEF Spec

(* However saves, rollbacks and checkpoints of any number of processes     *)
(* interleave, the ledger is one chain.                                    *)
THEOREM ChainIsIntact == Spec => []ChainIntact
<1>1. LedgerInv => ChainIntact
  BY DEF LedgerInv
<1> QED BY <1>1, LedgerInvariant, PTL

(* Source tables and ledger agree in every committed state. *)
THEOREM EvidenceIsRecorded == Spec => []EvidenceRecorded
<1>1. LedgerInv => EvidenceRecorded
  BY DEF LedgerInv
<1> QED BY <1>1, LedgerInvariant, PTL

(* A signed checkpoint stays verifiable against every later ledger. *)
THEOREM CheckpointsStayAnchored == Spec => []CheckpointsAnchored
<1>1. LedgerInv => CheckpointsAnchored
  BY DEF LedgerInv
<1> QED BY <1>1, LedgerInvariant, PTL

(* No two publishers sign fresh checkpoints of one head. *)
THEOREM FreshCheckpointsUnique == Spec => []FreshCheckpointUnique
<1>1. LedgerInv => FreshCheckpointUnique
  BY DEF LedgerInv
<1> QED BY <1>1, LedgerInvariant, PTL

(* An audit never reports evidence that only this code wrote. *)
THEOREM AuditNeverAlarms == Spec => []NoFalseAlarm
<1>1. LedgerInv => NoFalseAlarm
  BY DEF LedgerInv
<1> QED BY <1>1, LedgerInvariant, PTL

(* The committed envelope of an artifact never changes. *)
THEOREM EvidenceNeverChanges == Spec => EvidenceImmutable
<1> DEFINE Kept == \A a \in Artifacts : rows[a] # NoEnvelope => rows'[a] = rows[a]
<1>1. LedgerInv /\ [Next]_vars => [Kept]_rows
  <2> SUFFICES ASSUME LedgerInv, Next, rows' # rows, NEW a \in Artifacts,
                      rows[a] # NoEnvelope
               PROVE  rows'[a] = rows[a]
    BY DEF vars, dbVars
  <2>1. PICK p \in Procs : AppendEntry(p)
    BY SaveAgainKeeps
       DEF Next, Backfill, CommitSchema, SaveRun, SaveComparison, SaveGuardrailEvidence,
           InsertRow, ReadHead, Rollback, LockHead, SignCheckpoint, CheckpointAges, Audit,
           AuditLedger, AuditTable, AuditCheckpoints, AuditHeads, dbVars
  <2>2. migrated /\ saving[p].artifact \notin Recorded(ledger)
    BY <2>1 DEF AppendEntry, LedgerInv, OpenTransactions
  <2>3. a # saving[p].artifact
    BY <2>2 DEF LedgerInv, EvidenceRecorded
  <2> QED
    BY <2>1, <2>3 DEF AppendEntry, LedgerInv, Typed, TypeOK
<1>2. EvidenceImmutable <=> [][Kept]_rows
  BY DEF EvidenceImmutable
<1> QED BY <1>1, <1>2, LedgerInvariant, PTL DEF Spec

-----------------------------------------------------------------------------
(* The recovery verifier on a database that anyone may have written.  A    *)
(* checkpoint pins one history: two intact chains with the same head hash  *)
(* are the same chain, from the head downwards.                            *)

(* A nonempty set of natural numbers has a least one.                      *)
LEMMA LeastNumber ==
  ASSUME NEW T \in SUBSET Nat, T # {}
  PROVE  \E n \in T : \A m \in T : n <= m
<1> DEFINE U == {1..n : n \in T}
<1>1. U \subseteq FiniteSubsetsOf(Nat) /\ U # {}
  <2> SUFFICES ASSUME NEW n \in T PROVE 1..n \in FiniteSubsetsOf(Nat)
    OBVIOUS
  <2>1. IsFiniteSet(1..n) /\ 1..n \subseteq Nat
    BY FS_Interval
  <2> QED BY <2>1 DEF FiniteSubsetsOf
<1>2. \E x \in U : \A y \in U : ~(<<y, x>> \in StrictSubsetOrdering(Nat))
  <2> HIDE DEF U
  <2> QED BY <1>1, WFMin, FS_StrictSubsetOrderingWellFounded
<1>3. PICK n \in T : \A m \in T : ~(<<1..m, 1..n>> \in StrictSubsetOrdering(Nat))
  BY <1>2
<1>4. ASSUME NEW m \in T, m < n PROVE FALSE
  <2>1. 1..m \subseteq 1..n /\ 1..m # 1..n
    <3>1. n \in 1..n /\ n \notin 1..m
      BY <1>4
    <3> QED BY <1>4, <3>1
  <2>2. 1..m \in SUBSET Nat /\ 1..n \in SUBSET Nat
    OBVIOUS
  <2>3. <<1..m, 1..n>> \in StrictSubsetOrdering(Nat)
    BY <2>1, <2>2 DEF StrictSubsetOrdering
  <2> QED BY <1>3, <2>3
<1> QED BY <1>4

(* The first n rows of s are a hash chain, numbered from 1. *)
Chained(s, n) ==
    \A j \in 1..n :
        /\ s[j].sequence = j
        /\ s[j].previous = IF j = 1 THEN Genesis ELSE s[j - 1].hash
        /\ s[j].hash = Digest(j, s[j].artifact, s[j].envelope, s[j].previous)

SameRow(r, t) ==
    /\ r.sequence = t.sequence
    /\ r.artifact = t.artifact /\ r.envelope = t.envelope
    /\ r.previous = t.previous /\ r.hash = t.hash

(* Two hash chains of one length that end in the same hash are the same.   *)
LEMMA HeadPinsChain ==
  ASSUME NEW n \in Nat, NEW s, Chained(s, n), NEW t, Chained(t, n),
         n > 0 => s[n].hash = t[n].hash
  PROVE  \A j \in 1..n : SameRow(s[j], t[j])
<1>1. ASSUME NEW j \in 1..n, s[j].hash = t[j].hash
      PROVE  SameRow(s[j], t[j])
  <2>1. Digest(j, s[j].artifact, s[j].envelope, s[j].previous)
          = Digest(j, t[j].artifact, t[j].envelope, t[j].previous)
    BY <1>1 DEF Chained
  <2>2. s[j].sequence = t[j].sequence
    BY DEF Chained
  <2> QED
    BY <1>1, <2>1, <2>2 DEF Digest, SameRow
<1> DEFINE T == {k \in 0..(n - 1) : s[n - k].hash # t[n - k].hash}
<1>2. T = {}
  <2> SUFFICES ASSUME T # {} PROVE FALSE
    OBVIOUS
  <2>1. T \in SUBSET Nat
    OBVIOUS
  <2>2. PICK k \in T : \A m \in T : k <= m
    BY <2>1, LeastNumber
  <2>3. k # 0 /\ k \in 0..(n - 1) /\ s[n - k].hash # t[n - k].hash
    OBVIOUS
  <2>4. k - 1 \in 0..(n - 1) /\ n - (k - 1) \in 1..n /\ n - (k - 1) # 1
        /\ (n - (k - 1)) - 1 = n - k /\ ~(k <= k - 1)
    BY <2>3
  <2>5. s[n - (k - 1)].hash = t[n - (k - 1)].hash
    BY <2>2, <2>4
  <2>6. s[n - (k - 1)].previous = t[n - (k - 1)].previous
    BY <1>1, <2>4, <2>5 DEF SameRow
  <2>7. s[n - k].hash = t[n - k].hash
    BY <2>4, <2>6 DEF Chained
  <2> QED
    BY <2>3, <2>7
<1>3. ASSUME NEW j \in 1..n PROVE s[j].hash = t[j].hash
  <2>1. n - j \in 0..(n - 1) /\ n - (n - j) = j
    OBVIOUS
  <2> QED
    BY <1>2, <2>1
<1> QED
  BY <1>1, <1>3

(* The verifier's query returns a sequence of as many rows as it keeps. *)
LEMMA RowsSequence ==
  ASSUME NEW led, NEW kept, IsFiniteSet(kept)
  PROVE  /\ IsSequence(RowsAt(led, kept))
         /\ Len(RowsAt(led, kept)) = Cardinality(kept)
<1> DEFINE m == Cardinality(kept)
           pos(r) == CHOOSE i \in kept : Cardinality({j \in kept : j <= i}) = r
           rs == [r \in 1..m |-> led[pos(r)]]
<1>1. m \in Nat
  BY FS_CardinalityType
<1>2. RowsAt(led, kept) = rs
  BY DEF RowsAt
<1> HIDE DEF m, pos
<1>3. rs \in Seq({led[pos(r)] : r \in 1..m}) /\ Len(rs) = m
  BY <1>1
<1>4. IsSequence(rs)
  BY <1>1, <1>3 DEF IsSequence
<1> QED BY <1>2, <1>3, <1>4 DEF m

(* A query that keeps the first m rows returns them in their places. *)
LEMMA RowsOfPrefix ==
  ASSUME NEW led, NEW m \in Nat
  PROVE  /\ IsSequence(RowsAt(led, 1..m)) /\ Len(RowsAt(led, 1..m)) = m
         /\ \A j \in 1..m : RowsAt(led, 1..m)[j] = led[j]
<1>1. IsFiniteSet(1..m) /\ Cardinality(1..m) = m
  BY FS_Interval
<1>2. ASSUME NEW j \in 1..m PROVE RowsAt(led, 1..m)[j] = led[j]
  <2> DEFINE rank(i) == Cardinality({l \in 1..m : l <= i})
  <2>1. ASSUME NEW i \in 1..m PROVE rank(i) = i
    <3>1. {l \in 1..m : l <= i} = 1..i
      OBVIOUS
    <3>2. Cardinality(1..i) = i
      BY FS_Interval
    <3> QED BY <3>1, <3>2
  <2>2. RowsAt(led, 1..m)[j] = led[CHOOSE i \in 1..m : rank(i) = j]
    BY <1>1 DEF RowsAt
  <2> HIDE DEF rank
  <2>3. (CHOOSE i \in 1..m : rank(i) = j) = j
    BY <2>1
  <2> QED BY <2>2, <2>3
<1> QED BY <1>1, <1>2, RowsSequence

(* The conditions under which a database whose query returns the rows rs is *)
(* accepted on checkpoint c.                                                *)
Acceptable(db, trusted, c, rs) ==
    /\ DatabaseFailures(db) = {} /\ db.readable
    /\ ~(c.sequence > MaxLedgerEntries)
    /\ PersistedFailures(db, c) = {}
    /\ Len(rs) = c.entries /\ Len(rs) = c.sequence
    /\ \A k \in DOMAIN rs : EntryFailures(db, NoEnvelope, trusted, rs, k) = {}
    /\ LedgerHead(rs).hash = c.hash

(* The verifier accepts under these conditions and no other. *)
LEMMA AcceptsIff ==
  ASSUME NEW db, NEW trusted, NEW i
  PROVE  AcceptsRestore(db, trusted, i)
           <=> Acceptable(db, trusted, checkpoints[i],
                          RowsUpTo(db.ledger, checkpoints[i].sequence))
<1> DEFINE c == checkpoints[i]
           rs == RowsUpTo(db.ledger, c.sequence)
           pub == <<Published(i)>>
           results == [k \in DOMAIN pub |-> VerifyCheckpoint(db, NoEnvelope, trusted, pub[k])]
           count == Failure(Len(rs) # c.entries \/ Len(rs) # c.sequence, "ledger_count")
           entries == UNION {EntryFailures(db, NoEnvelope, trusted, rs, k) : k \in DOMAIN rs}
           head == HeadFailures(rs, c)
           envelope == EnvelopeFailures(Published(i))
           persisted == PersistedFailures(db, c)
<1>1. AcceptsRestore(db, trusted, i)
        <=> DatabaseFailures(db) = {} /\ VerifyCheckpoint(db, NoEnvelope, trusted, Published(i)) = {}
  <2>1. AcceptsRestore(db, trusted, i)
          <=> DatabaseFailures(db) = {} /\ UNION {results[k] : k \in DOMAIN pub} = {}
    BY DEF AcceptsRestore, Verify
  <2>2. DOMAIN pub = {1} /\ pub[1] = Published(i)
    OBVIOUS
  <2>3. UNION {results[k] : k \in DOMAIN pub} = VerifyCheckpoint(db, NoEnvelope, trusted, Published(i))
    BY <2>2
  <2> HIDE DEF results, pub
  <2> QED BY <2>1, <2>3
<1>2. Published(i).checkpoint = c
  BY DEF Published
<1>3. VerifyCheckpoint(db, NoEnvelope, trusted, Published(i))
        = IF envelope # {} THEN envelope
          ELSE IF ~db.readable THEN {"database_schema"}
          ELSE persisted \cup count \cup entries \cup head
  BY <1>2 DEF VerifyCheckpoint
<1>4. envelope = {} <=> ~(c.sequence > MaxLedgerEntries)
  BY DEF Published, EnvelopeFailures, Failure
<1>5. count = {} <=> Len(rs) = c.entries /\ Len(rs) = c.sequence
  BY DEF Failure
<1>6. head = {} <=> LedgerHead(rs).hash = c.hash
  BY DEF HeadFailures, Failure
<1>7. entries = {} <=> \A k \in DOMAIN rs : EntryFailures(db, NoEnvelope, trusted, rs, k) = {}
  OBVIOUS
<1> HIDE DEF envelope, persisted, count, entries, head
<1>8. VerifyCheckpoint(db, NoEnvelope, trusted, Published(i)) = {}
        <=> /\ envelope = {} /\ db.readable /\ persisted = {}
            /\ count = {} /\ entries = {} /\ head = {}
  BY <1>3
<1> QED BY <1>1, <1>4, <1>5, <1>6, <1>7, <1>8 DEF persisted, Acceptable

(* A verification without failures has found each entry in place. *)
LEMMA NoEntryFails ==
  ASSUME NEW db, NEW trusted, NEW rs, NEW i, EntryFailures(db, NoEnvelope, trusted, rs, i) = {}
  PROVE  /\ rs[i].sequence = i
         /\ rs[i].previous = IF i = 1 THEN Genesis ELSE rs[i - 1].hash
         /\ rs[i].hash = Digest(rs[i].sequence, rs[i].artifact, rs[i].envelope,
                                rs[i].previous)
         /\ db.rows[rs[i].artifact] = rs[i].envelope
         /\ rs[i].envelope \in trusted
BY DEF EntryFailures, Failure

(* Rows without a failure, up to the n-th, form the chain the code writes. *)
LEMMA EntriesChain ==
  ASSUME NEW db, NEW trusted, NEW rs, NEW n,
         \A k \in 1..n : EntryFailures(db, NoEnvelope, trusted, rs, k) = {}
  PROVE  Chained(rs, n)
<1> SUFFICES ASSUME NEW k \in 1..n
             PROVE  /\ rs[k].sequence = k
                    /\ rs[k].previous = IF k = 1 THEN Genesis ELSE rs[k - 1].hash
                    /\ rs[k].hash = Digest(k, rs[k].artifact, rs[k].envelope,
                                           rs[k].previous)
  BY DEF Chained
<1>1. EntryFailures(db, NoEnvelope, trusted, rs, k) = {}
  OBVIOUS
<1>2. rs[k].sequence = k
  BY <1>1 DEF EntryFailures, Failure
<1>3. rs[k].previous = IF k = 1 THEN Genesis ELSE rs[k - 1].hash
  BY <1>1 DEF EntryFailures, Failure
<1>4. rs[k].hash = Digest(rs[k].sequence, rs[k].artifact, rs[k].envelope,
                          rs[k].previous)
  BY <1>1 DEF EntryFailures, Failure
<1> QED BY <1>2, <1>3, <1>4

(* Below checkpoint c a database holds what the ledger holds: the same     *)
(* rows, their evidence, and none that the keyring does not verify.        *)
HoldsEvidence(db, trusted, c) ==
    LET rs == RowsUpTo(db.ledger, c.sequence) IN
    /\ Len(rs) = c.sequence
    /\ \A j \in 1..c.sequence :
          /\ SameRow(rs[j], ledger[j])
          /\ db.rows[ledger[j].artifact] = ledger[j].envelope
          /\ ledger[j].envelope \in trusted

(* A checkpoint counts entries that the ledger has, and ends in their head. *)
LEMMA CheckpointInLedger ==
  ASSUME LedgerInv, NEW i \in 1..Len(checkpoints), NEW c, c = checkpoints[i]
  PROVE  /\ c.sequence \in Nat /\ c.sequence <= Len(ledger) /\ c.entries = c.sequence
         /\ c.hash = IF c.sequence = 0 THEN Genesis ELSE ledger[c.sequence].hash
         /\ Chained(ledger, c.sequence)
<1>1. Anchored(ledger, c) /\ ChainIntact /\ Len(ledger) \in Nat
  BY ValidIffAnchored DEF LedgerInv, CheckpointsAnchored, Typed, IsSequence
<1>2. /\ c.sequence \in Nat /\ c.sequence <= Len(ledger) /\ c.entries = c.sequence
      /\ c.hash = IF c.sequence = 0 THEN Genesis ELSE ledger[c.sequence].hash
  BY <1>1 DEF Anchored, ChainIntact
<1>3. Chained(ledger, c.sequence)
  BY <1>1, <1>2 DEF Chained, ChainIntact
<1> QED BY <1>2, <1>3

(* Whatever a database holds, if it is accepted on a checkpoint it holds   *)
(* the evidence that was in the ledger when the checkpoint was signed.     *)
LEMMA AcceptedHoldsEvidence ==
  ASSUME LedgerInv, NEW db, IsFiniteSet(DOMAIN db.ledger), NEW trusted,
         NEW i \in 1..Len(checkpoints), AcceptsRestore(db, trusted, i)
  PROVE  HoldsEvidence(db, trusted, checkpoints[i])
<1> DEFINE c == checkpoints[i]
           n == c.sequence
           kept == {j \in DOMAIN db.ledger : db.ledger[j].sequence <= n}
           rs == RowsUpTo(db.ledger, n)
<1>1. IsFiniteSet(kept)
  BY FS_Subset
<1>2. rs = RowsAt(db.ledger, kept)
  BY DEF RowsUpTo
<1> HIDE DEF kept
<1>3. IsSequence(rs)
  BY <1>1, <1>2, RowsSequence
<1>0. c = checkpoints[i] /\ rs = RowsUpTo(db.ledger, c.sequence)
  OBVIOUS
<1> HIDE DEF c, rs
<1>4. /\ Len(rs) = n
      /\ \A k \in DOMAIN rs : EntryFailures(db, NoEnvelope, trusted, rs, k) = {}
      /\ LedgerHead(rs).hash = c.hash
  <2>1. Acceptable(db, trusted, c, rs)
    BY <1>0, AcceptsIff
  <2> QED BY <2>1 DEF Acceptable
<1>5. /\ n \in Nat /\ n <= Len(ledger) /\ Chained(ledger, n)
      /\ c.hash = IF n = 0 THEN Genesis ELSE ledger[n].hash
  BY CheckpointInLedger DEF c
<1>6. \A k \in 1..n : EntryFailures(db, NoEnvelope, trusted, rs, k) = {}
  BY <1>3, <1>4, <1>5 DEF IsSequence
<1>7. Chained(rs, n)
  BY <1>6, EntriesChain
<1>8. n > 0 => rs[n].hash = ledger[n].hash
  BY <1>3, <1>4, <1>5, NoRow DEF LedgerHead
<1>9. \A j \in 1..n : SameRow(rs[j], ledger[j])
  BY <1>5, <1>7, <1>8, HeadPinsChain
<1>10. \A j \in 1..n : /\ db.rows[ledger[j].artifact] = ledger[j].envelope
                       /\ ledger[j].envelope \in trusted
  BY <1>6, <1>9, NoEntryFails DEF SameRow
<1> QED
  BY <1>4, <1>9, <1>10 DEF HoldsEvidence, rs, c

(* The verifier cannot be satisfied by a database, however it came about,  *)
(* that lacks or changes evidence below a checkpoint this code signed.     *)
THEOREM AcceptanceIsProof ==
  ASSUME NEW CONSTANT db, IsFiniteSet(DOMAIN db.ledger), NEW CONSTANT trusted
  PROVE  Spec => [](\A i \in 1..Len(checkpoints) :
                        AcceptsRestore(db, trusted, i) =>
                            HoldsEvidence(db, trusted, checkpoints[i]))
<1> DEFINE Proof == \A i \in 1..Len(checkpoints) :
                        AcceptsRestore(db, trusted, i) =>
                            HoldsEvidence(db, trusted, checkpoints[i])
<1>1. LedgerInv => Proof
  BY AcceptedHoldsEvidence
<1> QED BY <1>1, LedgerInvariant, PTL

-----------------------------------------------------------------------------
(* The judgement on the backups of this database and on damaged copies.    *)

(* A record of the columns of artifact_ledger and nothing else. *)
IsRow(r) ==
    r = [sequence |-> r.sequence, artifact |-> r.artifact, envelope |-> r.envelope,
         previous |-> r.previous, hash |-> r.hash]

(* Rows are records, and checkpoints are numbered as they were inserted. *)
Shaped ==
    /\ \A i \in 1..Len(ledger) : IsRow(ledger[i])
    /\ \A i \in 1..Len(checkpoints) : checkpoints[i].id = i

(* What _append_ledger_values inserts is such a record. *)
LEMMA EntryIsRow ==
  ASSUME NEW h, NEW a, NEW e
  PROVE  IsRow(Entry(h, a, e))
BY DEF IsRow, Entry

(* Every step keeps the shape of rows and checkpoints. *)
LEMMA ShapedKept == LedgerInv /\ Shaped /\ [Next]_vars => Shaped'
<1> SUFFICES ASSUME LedgerInv, Shaped, [Next]_vars PROVE Shaped'
  OBVIOUS
<1>1. \/ UNCHANGED ledger
      \/ \E h, a, e : ledger' = Append(ledger, Entry(h, a, e))
  BY DEF Next, Backfill, CommitSchema, SaveRun, SaveComparison, SaveGuardrailEvidence,
         InsertRow, SaveAgain, ReadHead, AppendEntry, Rollback, LockHead, SignCheckpoint,
         CheckpointAges, Audit, AuditLedger, AuditTable, AuditCheckpoints, AuditHeads,
         vars, dbVars
<1>2. \/ UNCHANGED checkpoints
      \/ \E c : checkpoints' = Append(checkpoints, c) /\ c.id = Len(checkpoints) + 1
  <2>1. ASSUME NEW q \in Procs, SignCheckpoint(q)
        PROVE  \E c : checkpoints' = Append(checkpoints, c) /\ c.id = Len(checkpoints) + 1
    BY <2>1 DEF SignCheckpoint
  <2> QED
    BY <2>1
       DEF Next, Backfill, CommitSchema, SaveRun, SaveComparison, SaveGuardrailEvidence,
           InsertRow, SaveAgain, ReadHead, AppendEntry, Rollback, LockHead,
           CheckpointAges, Audit, AuditLedger, AuditTable, AuditCheckpoints, AuditHeads,
           vars, dbVars
<1>3. IsSequence(ledger) /\ IsSequence(checkpoints)
  BY DEF LedgerInv, Typed
<1>4. \A i \in 1..Len(ledger') : IsRow(ledger'[i])
  <2>1. CASE UNCHANGED ledger
    BY <2>1 DEF Shaped
  <2>2. CASE \E h, a, e : ledger' = Append(ledger, Entry(h, a, e))
    <3>1. PICK r : ledger' = Append(ledger, r) /\ IsRow(r)
      BY <2>2, EntryIsRow
    <3>2. /\ Len(ledger') = Len(ledger) + 1 /\ Len(ledger) \in Nat
          /\ \A i \in 1..Len(ledger) : ledger'[i] = ledger[i]
          /\ ledger'[Len(ledger) + 1] = r
      BY <1>3, <3>1, AppendRow DEF IsSequence
    <3> QED BY <3>1, <3>2 DEF Shaped
  <2> QED BY <1>1, <2>1, <2>2
<1>5. \A i \in 1..Len(checkpoints') : checkpoints'[i].id = i
  <2>1. CASE UNCHANGED checkpoints
    BY <2>1 DEF Shaped
  <2>2. CASE \E c : checkpoints' = Append(checkpoints, c) /\ c.id = Len(checkpoints) + 1
    <3>1. PICK c : checkpoints' = Append(checkpoints, c) /\ c.id = Len(checkpoints) + 1
      BY <2>2
    <3>2. /\ Len(checkpoints') = Len(checkpoints) + 1 /\ Len(checkpoints) \in Nat
          /\ \A i \in 1..Len(checkpoints) : checkpoints'[i] = checkpoints[i]
          /\ checkpoints'[Len(checkpoints) + 1] = c
      BY <1>3, <3>1, AppendRow DEF IsSequence
    <3> QED BY <3>1, <3>2 DEF Shaped
  <2> QED BY <1>2, <2>1, <2>2
<1> QED BY <1>4, <1>5 DEF Shaped

(* The shape of the database, with the invariant of the ledger. *)
THEOREM ShapeInvariant == Spec => []Shaped
<1>1. Init => Shaped
  BY EmptyRows DEF Init, Shaped
<1> QED BY <1>1, ShapedKept, LedgerInvariant, PTL DEF Spec

(* The first k rows of a sequence of rows. *)
LEMMA FirstRows ==
  ASSUME NEW s, IsSequence(s), NEW k \in 0..Len(s)
  PROVE  /\ IsSequence(SubSeq(s, 1, k)) /\ Len(SubSeq(s, 1, k)) = k
         /\ DOMAIN SubSeq(s, 1, k) = 1..k
         /\ \A j \in 1..k : SubSeq(s, 1, k)[j] = s[j]
<1> DEFINE S == {s[j] : j \in 1..Len(s)}
<1>1. s \in Seq(S) /\ Len(s) \in Nat
  BY DEF IsSequence
<1>2. /\ SubSeq(s, 1, k) \in Seq(S) /\ Len(SubSeq(s, 1, k)) = k
      /\ \A j \in 1..k : SubSeq(s, 1, k)[j] = s[j]
  <2>1. k \in Nat /\ 1 \in Int /\ \A j \in 1..k : s[j] \in S
    BY <1>1
  <2>2. /\ SubSeq(s, 1, k) \in Seq(S)
        /\ Len(SubSeq(s, 1, k)) = IF 1 <= k THEN k - 1 + 1 ELSE 0
        /\ \A j \in 1..k - 1 + 1 : SubSeq(s, 1, k)[j] = s[1 + j - 1]
    <3> HIDE DEF S
    <3> QED BY <2>1, SubSeqProperties
  <2> HIDE DEF S
  <2> QED BY <2>1, <2>2
<1>3. IsSequence(SubSeq(s, 1, k)) /\ DOMAIN SubSeq(s, 1, k) = 1..k
  BY <1>2, LenProperties DEF IsSequence
<1> QED BY <1>2, <1>3

(* A query for the rows up to n of a ledger whose rows carry their numbers. *)
LEMMA RowsOfNumbered ==
  ASSUME NEW led, IsSequence(led), \A j \in 1..Len(led) : led[j].sequence = j,
         NEW n \in Nat, NEW m \in Nat, m = (IF n <= Len(led) THEN n ELSE Len(led))
  PROVE  /\ IsSequence(RowsUpTo(led, n)) /\ Len(RowsUpTo(led, n)) = m
         /\ \A j \in 1..m : RowsUpTo(led, n)[j] = led[j]
<1>1. {j \in DOMAIN led : led[j].sequence <= n} = 1..m
  BY DEF IsSequence
<1>2. RowsUpTo(led, n) = RowsAt(led, 1..m)
  BY <1>1 DEF RowsUpTo
<1> QED BY <1>2, RowsOfPrefix

(* The limit of the verifier is a number. *)
LEMMA LimitIsNumber == MaxLedgerEntries \in Nat
BY LimitAssumption

(* Equal rows form equal chains. *)
LEMMA ChainedCopy ==
  ASSUME NEW n \in Nat, NEW s, NEW t, \A j \in 1..n : s[j] = t[j], Chained(t, n)
  PROVE  Chained(s, n)
<1> SUFFICES ASSUME NEW j \in 1..n
             PROVE  /\ s[j].sequence = j
                    /\ s[j].previous = IF j = 1 THEN Genesis ELSE s[j - 1].hash
                    /\ s[j].hash = Digest(j, s[j].artifact, s[j].envelope, s[j].previous)
  BY DEF Chained
<1>1. j # 1 => j - 1 \in 1..n
  OBVIOUS
<1> QED BY <1>1 DEF Chained

(* An entry of an intact chain that has its source row fails only if the   *)
(* keyring does not verify it.                                             *)
LEMMA EntryJudged ==
  ASSUME NEW db, NEW trusted, NEW rs, NEW n, Chained(rs, n), NEW j \in 1..n,
         db.rows[rs[j].artifact] = rs[j].envelope, rs[j].envelope # NoEnvelope
  PROVE  EntryFailures(db, NoEnvelope, trusted, rs, j) = {} <=> rs[j].envelope \in trusted
<1>1. /\ rs[j].sequence = j
      /\ rs[j].previous = IF j = 1 THEN Genesis ELSE rs[j - 1].hash
      /\ rs[j].hash = Digest(rs[j].sequence, rs[j].artifact, rs[j].envelope,
                             rs[j].previous)
  BY DEF Chained
<1> QED BY <1>1 DEF EntryFailures, Failure

(* The restored database, field by field. *)
LEMMA RestoredFields ==
  ASSUME NEW k, NEW m, NEW state
  PROVE  LET db == Restored(k, m, state) IN
         /\ DatabaseFailures(db) = {} <=> state \notin {"old_schema", "recovering"}
         /\ db.readable <=> state # "unreadable"
         /\ db.ledger = SubSeq(ledger, 1, k)
         /\ db.checkpoints = SubSeq(checkpoints, 1, m)
         /\ \A a \in Artifacts : a \in Recorded(SubSeq(ledger, 1, k)) => db.rows[a] = rows[a]
BY DEF Restored, DatabaseFailures, Failure

(* A restored checkpoint is found by its id, and found unchanged. *)
LEMMA PersistedIff ==
  ASSUME LedgerInv, Shaped, NEW m \in 0..Len(checkpoints), NEW i \in 1..Len(checkpoints),
         NEW db, db.checkpoints = SubSeq(checkpoints, 1, m)
  PROVE  PersistedFailures(db, checkpoints[i]) = {} <=> i <= m
<1> DEFINE found == {j \in DOMAIN db.checkpoints : db.checkpoints[j].id = checkpoints[i].id}
<1>1. IsSequence(checkpoints) /\ Len(checkpoints) \in Nat
  BY DEF LedgerInv, Typed, IsSequence
<1>2. /\ DOMAIN db.checkpoints = 1..m
      /\ \A j \in 1..m : db.checkpoints[j] = checkpoints[j]
  BY <1>1, FirstRows
<1>3. \A j \in 1..m : db.checkpoints[j].id = j /\ checkpoints[i].id = i
  BY <1>1, <1>2 DEF Shaped
<1>4. found = {j \in 1..m : j = i}
  BY <1>2, <1>3
<1>5. PersistedFailures(db, checkpoints[i])
        = Failure(found = {}, "checkpoint_missing")
          \cup Failure(\E j \in found : db.checkpoints[j] # checkpoints[i], "checkpoint_mismatch")
  BY DEF PersistedFailures
<1>6. \A j \in found : db.checkpoints[j] = checkpoints[i]
  BY <1>2, <1>4
<1> HIDE DEF found
<1>7. PersistedFailures(db, checkpoints[i]) = {} <=> found # {}
  BY <1>5, <1>6 DEF Failure
<1> QED BY <1>1, <1>4, <1>7

(* Of the backups of this database the verifier accepts the usable ones    *)
(* that hold what the checkpoint attests.                                  *)
LEMMA FaithfulJudged ==
  ASSUME LedgerInv, Shaped
  PROVE  FaithfulAccepted
<1> SUFFICES ASSUME NEW k \in 0..Len(ledger), NEW m \in 0..Len(checkpoints),
                    NEW i \in DOMAIN checkpoints,
                    NEW state \in {"usable", "old_schema", "recovering", "unreadable"},
                    NEW trusted \in SUBSET Envelopes
             PROVE  AcceptsRestore(Restored(k, m, state), trusted, i)
                      <=> /\ state = "usable"
                          /\ i <= m
                          /\ checkpoints[i].sequence <= k
                          /\ checkpoints[i].sequence <= MaxLedgerEntries
                          /\ \A j \in 1..checkpoints[i].sequence :
                                ledger[j].envelope \in trusted
  BY DEF FaithfulAccepted
<1> DEFINE db == Restored(k, m, state)
           c == checkpoints[i]
           n == c.sequence
           led == SubSeq(ledger, 1, k)
           rs == RowsUpTo(db.ledger, n)
           l == IF n <= k THEN n ELSE k
<1>1. /\ IsSequence(ledger) /\ Len(ledger) \in Nat /\ i \in 1..Len(checkpoints)
      /\ Len(checkpoints) \in Nat
  BY DEF LedgerInv, Typed, IsSequence
<1>2. /\ n \in Nat /\ n <= Len(ledger) /\ c.entries = n /\ Chained(ledger, n)
      /\ c.hash = IF n = 0 THEN Genesis ELSE ledger[n].hash
  BY <1>1, CheckpointInLedger
<1>3. /\ DatabaseFailures(db) = {} <=> state \notin {"old_schema", "recovering"}
      /\ db.readable <=> state # "unreadable"
      /\ db.ledger = led /\ db.checkpoints = SubSeq(checkpoints, 1, m)
      /\ \A a \in Artifacts : a \in Recorded(led) => db.rows[a] = rows[a]
  BY RestoredFields
<1> HIDE DEF db
<1>4. PersistedFailures(db, c) = {} <=> i <= m
  BY <1>1, <1>3, PersistedIff
<1>5. /\ IsSequence(led) /\ Len(led) = k
      /\ \A j \in 1..k : led[j] = ledger[j]
  BY <1>1, FirstRows
<1>6. \A j \in 1..Len(led) : led[j].sequence = j
  BY <1>1, <1>5 DEF LedgerInv, ChainIntact
<1>7. /\ IsSequence(rs) /\ Len(rs) = l
      /\ \A j \in 1..l : rs[j] = led[j]
  <2> HIDE DEF led
  <2>1. l \in Nat /\ l = (IF n <= Len(led) THEN n ELSE Len(led))
    BY <1>2, <1>5
  <2> QED BY <1>2, <1>3, <1>5, <1>6, <2>1, RowsOfNumbered
<1>8. /\ l \in 0..k /\ l \in Nat /\ k \in Nat
      /\ n <= k => l = n
      /\ ~(n <= k) => l = k
  BY <1>2
<1> HIDE DEF l
<1>9. \A j \in 1..l : rs[j] = ledger[j]
  BY <1>5, <1>7, <1>8
<1>10. AcceptsRestore(db, trusted, i) <=> Acceptable(db, trusted, c, rs)
  BY AcceptsIff
<1>11. \A j \in 1..k : ledger[j].artifact \in Artifacts /\ ledger[j].artifact \in Recorded(led)
  BY <1>1, <1>5 DEF LedgerInv, Typed, TypeOK, Recorded
<1>12. \A j \in 1..l : /\ db.rows[rs[j].artifact] = rs[j].envelope
                       /\ rs[j].envelope # NoEnvelope
  <2> SUFFICES ASSUME NEW j \in 1..l
               PROVE  db.rows[rs[j].artifact] = rs[j].envelope /\ rs[j].envelope # NoEnvelope
    OBVIOUS
  <2>1. j \in 1..k /\ j \in 1..Len(ledger) /\ rs[j] = ledger[j]
    BY <1>1, <1>8, <1>9
  <2>2. db.rows[ledger[j].artifact] = rows[ledger[j].artifact]
    BY <1>3, <1>11, <2>1
  <2>3. rows[ledger[j].artifact] = ledger[j].envelope /\ ledger[j].envelope # NoEnvelope
    BY <2>1, ConstantsAssumption DEF LedgerInv, Typed, TypeOK, EvidenceRecorded
  <2> QED BY <2>1, <2>2, <2>3
<1> HIDE DEF rs, c, led
<1>13. CASE n <= k
  <2>1. l = n
    BY <1>8, <1>13
  <2>2. Chained(rs, n)
    BY <1>2, <1>9, <2>1, ChainedCopy
  <2>3. \A j \in 1..n : EntryFailures(db, NoEnvelope, trusted, rs, j) = {}
                          <=> rs[j].envelope \in trusted
    BY <1>12, <2>1, <2>2, EntryJudged
  <2>4. DOMAIN rs = 1..n
    BY <1>2, <1>7, <2>1 DEF IsSequence
  <2>5. LedgerHead(rs).hash = c.hash
    BY <1>2, <1>7, <1>9, <2>1, NoRow DEF LedgerHead
  <2>6. (\A j \in DOMAIN rs : EntryFailures(db, NoEnvelope, trusted, rs, j) = {})
          <=> \A j \in 1..n : ledger[j].envelope \in trusted
    <3>1. \A j \in 1..n : rs[j].envelope = ledger[j].envelope
      BY <1>9, <2>1
    <3> QED BY <2>3, <2>4, <3>1
  <2>7. MaxLedgerEntries \in Nat
    BY LimitIsNumber
  <2> QED
    BY <1>2, <1>3, <1>4, <1>7, <1>10, <1>13, <2>1, <2>5, <2>6, <2>7 DEF Acceptable, c, db
<1>14. CASE ~(n <= k)
  <2>1. Len(rs) # n
    BY <1>2, <1>7, <1>8, <1>14
  <2> QED BY <1>10, <1>14, <2>1 DEF Acceptable, c, db
<1> QED BY <1>13, <1>14

(* Every prefix of the history that Chain builds exists. *)
LEMMA ChainBuilds ==
  ASSUME NEW items, NEW m \in Nat
  PROVE  \E g : g = [n \in 0..m |->
                       IF n = 0 THEN <<>>
                       ELSE Append(g[n - 1], Entry(LedgerHead(g[n - 1]), items[n][1], items[n][2]))]
<1> DEFINE Next1(v, n) == Append(v, Entry(LedgerHead(v), items[n][1], items[n][2]))
           Built(g, N) == g = [n \in 0..N |-> IF n = 0 THEN <<>> ELSE Next1(g[n - 1], n)]
           T == {N \in Nat : ~\E g : Built(g, N)}
<1> HIDE DEF Next1
<1>1. T = {}
  <2> SUFFICES ASSUME T # {} PROVE FALSE
    OBVIOUS
  <2>0. T \in SUBSET Nat
    OBVIOUS
  <2>1. PICK N \in T : \A M \in T : N <= M
    <3> HIDE DEF T
    <3> QED BY <2>0, LeastNumber
  <2>2. N \in Nat /\ ~\E g : Built(g, N)
    OBVIOUS
  <2>3. N # 0
    <3>1. Built([n \in 0..0 |-> <<>>], 0)
      OBVIOUS
    <3> QED BY <2>2, <3>1
  <2>4. N - 1 \in Nat /\ N - 1 \notin T
    <3>1. N - 1 \in Nat /\ ~(N <= N - 1)
      BY <2>2, <2>3
    <3> HIDE DEF T
    <3> QED BY <2>1, <3>1
  <2>5. PICK g : Built(g, N - 1)
    BY <2>4
  <2> DEFINE h == [n \in 0..N |-> IF n = N THEN Next1(g[N - 1], N) ELSE g[n]]
  <2>6. \A n \in 0..N : h[n] = IF n = 0 THEN <<>> ELSE Next1(h[n - 1], n)
    <3> SUFFICES ASSUME NEW n \in 0..N
                 PROVE  h[n] = IF n = 0 THEN <<>> ELSE Next1(h[n - 1], n)
      OBVIOUS
    <3>1. CASE n = N
      <4>1. N - 1 \in 0..N /\ N - 1 # N
        BY <2>2, <2>3
      <4>2. h[N - 1] = g[N - 1]
        BY <4>1
      <4> QED BY <2>3, <3>1, <4>2
    <3>2. CASE n # N
      <4>1. n \in 0..(N - 1) /\ h[n] = g[n]
        BY <2>2, <3>2
      <4>2. g[n] = IF n = 0 THEN <<>> ELSE Next1(g[n - 1], n)
        BY <2>5, <4>1
      <4>3. n # 0 => n - 1 \in 0..N /\ n - 1 # N
        BY <2>2
      <4>4. n # 0 => h[n - 1] = g[n - 1]
        BY <4>3
      <4> QED BY <4>1, <4>2, <4>4
    <3> QED BY <3>1, <3>2
  <2>7. Built(h, N)
    <3>1. h = [n \in 0..N |-> h[n]]
      OBVIOUS
    <3> HIDE DEF h
    <3> QED BY <2>6, <3>1
  <2> QED BY <2>2, <2>7
<1>2. PICK g : Built(g, m)
  BY <1>1
<1> QED BY <1>2 DEF Next1

(* A history built from other evidence is a sequence of numbered rows. *)
LEMMA ChainRows ==
  ASSUME NEW S, NEW m \in Nat, NEW items \in [1..m -> S]
  PROVE  /\ IsSequence(Chain(items)) /\ Len(Chain(items)) = m
         /\ \A j \in 1..m : IsRow(Chain(items)[j]) /\ Chain(items)[j].sequence = j
<1> DEFINE Next1(v, n) == Append(v, Entry(LedgerHead(v), items[n][1], items[n][2]))
           Built(g) == g = [n \in 0..m |-> IF n = 0 THEN <<>> ELSE Next1(g[n - 1], n)]
           built == CHOOSE g : Built(g)
           Good(s, n) == /\ IsSequence(s) /\ Len(s) = n
                         /\ \A j \in 1..n : IsRow(s[j]) /\ s[j].sequence = j
           T == {n \in 0..m : ~Good(built[n], n)}
<1>1. items \in Seq(S) /\ Len(items) = m
  OBVIOUS
<1>2. Chain(items) = built[m]
  BY <1>1 DEF Chain
<1>3. \E g : Built(g)
  BY ChainBuilds
<1> HIDE DEF Next1
<1>4. Built(built)
  <2> HIDE DEF Built
  <2> QED BY <1>3
<1> HIDE DEF built
<1>5. T = {}
  <2> SUFFICES ASSUME T # {} PROVE FALSE
    OBVIOUS
  <2>1. T \in SUBSET Nat
    OBVIOUS
  <2>2. PICK n \in T : \A k \in T : n <= k
    BY <2>1, LeastNumber
  <2>3. n \in 0..m /\ ~Good(built[n], n)
    OBVIOUS
  <2>4. n # 0
    <3>1. built[0] = <<>>
      BY <1>4
    <3>2. Good(<<>>, 0)
      BY EmptyRows
    <3> QED BY <2>3, <3>1, <3>2
  <2> DEFINE v == built[n - 1]
             e == Entry(LedgerHead(v), items[n][1], items[n][2])
  <2>5. n - 1 \in 0..m /\ n - 1 \notin T /\ n \in Nat
    BY <2>2, <2>3, <2>4
  <2>6. Good(v, n - 1)
    BY <2>5
  <2>7. built[n] = Append(v, e)
    BY <1>4, <2>3, <2>4 DEF Next1
  <2> HIDE DEF v
  <2>8. LedgerHead(v).sequence = n - 1
    BY <2>5, <2>6, NoRow DEF LedgerHead
  <2>9. IsRow(e) /\ e.sequence = n
    <3>1. e.sequence = LedgerHead(v).sequence + 1
      BY DEF Entry
    <3> QED BY <2>5, <2>8, <3>1, EntryIsRow
  <2> HIDE DEF e
  <2>10. /\ IsSequence(built[n]) /\ Len(built[n]) = n
         /\ \A j \in 1..(n - 1) : built[n][j] = v[j]
         /\ built[n][n] = e
    <3>1. IsSequence(v) /\ Len(v) = n - 1 /\ Len(v) + 1 = n
      BY <2>5, <2>6
    <3> QED BY <2>7, <3>1, AppendRow
  <2>11. Good(built[n], n)
    <3>1. ASSUME NEW j \in 1..n
          PROVE  IsRow(built[n][j]) /\ built[n][j].sequence = j
      <4>1. CASE j = n
        BY <2>9, <2>10, <4>1
      <4>2. CASE j # n
        <5>1. j \in 1..(n - 1)
          BY <2>5, <4>2
        <5> QED BY <2>6, <2>10, <5>1
      <4> QED BY <4>1, <4>2
    <3> QED BY <2>10, <3>1
  <2> QED BY <2>3, <2>11
<1>6. Good(built[m], m)
  BY <1>5
<1> QED BY <1>2, <1>6

(* The rows of a copy up to n are those in its first m places. *)
PrefixKept(led, n, m) == {j \in 1..Len(led) : led[j].sequence <= n} = 1..m

(* An accepted copy made of rows, of which the query keeps a prefix, has   *)
(* the entries of the ledger in their places.                              *)
LEMMA AcceptedCopy ==
  ASSUME LedgerInv, Shaped, NEW copy, IsSequence(copy.ledger),
         \A j \in 1..Len(copy.ledger) : IsRow(copy.ledger[j]),
         NEW trusted, NEW i \in 1..Len(checkpoints), AcceptsRestore(copy, trusted, i),
         NEW m \in Nat, PrefixKept(copy.ledger, checkpoints[i].sequence, m)
  PROVE  \A j \in 1..checkpoints[i].sequence :
             /\ copy.ledger[j] = ledger[j]
             /\ copy.rows[ledger[j].artifact] = ledger[j].envelope
<1> DEFINE n == checkpoints[i].sequence
           rs == RowsUpTo(copy.ledger, n)
<1>1. DOMAIN copy.ledger = 1..Len(copy.ledger) /\ Len(copy.ledger) \in Nat
  BY DEF IsSequence
<1>2. IsFiniteSet(DOMAIN copy.ledger)
  BY <1>1, FS_Interval
<1>3. /\ Len(rs) = n
      /\ \A j \in 1..n : /\ SameRow(rs[j], ledger[j])
                         /\ copy.rows[ledger[j].artifact] = ledger[j].envelope
  <2>1. HoldsEvidence(copy, trusted, checkpoints[i])
    BY <1>2, AcceptedHoldsEvidence
  <2> QED BY <2>1 DEF HoldsEvidence
<1>4. rs = RowsAt(copy.ledger, 1..m)
  BY <1>1 DEF RowsUpTo, PrefixKept
<1>5. n \in Nat /\ n <= Len(ledger) /\ Len(ledger) \in Nat
  BY CheckpointInLedger DEF LedgerInv, Typed, IsSequence
<1> HIDE DEF n, rs
<1>6. m = n /\ \A j \in 1..n : rs[j] = copy.ledger[j]
  BY <1>3, <1>4, RowsOfPrefix
<1>7. ASSUME NEW j \in 1..n PROVE copy.ledger[j] = ledger[j]
  <2>1. j \in 1..Len(copy.ledger) /\ j \in 1..Len(ledger)
    BY <1>5, <1>6 DEF PrefixKept, n
  <2>2. IsRow(copy.ledger[j]) /\ IsRow(ledger[j])
    BY <2>1 DEF Shaped
  <2>3. SameRow(copy.ledger[j], ledger[j])
    BY <1>3, <1>6
  <2> QED BY <2>2, <2>3 DEF IsRow, SameRow
<1> QED BY <1>3, <1>7 DEF n

(* Rows that carry their numbers are kept as a prefix. *)
LEMMA NumberedKept ==
  ASSUME NEW led, Len(led) \in Nat, \A j \in 1..Len(led) : led[j].sequence = j, NEW n \in Nat
  PROVE  \E m \in Nat : PrefixKept(led, n, m)
<1> DEFINE m == IF n <= Len(led) THEN n ELSE Len(led)
<1>1. m \in Nat /\ PrefixKept(led, n, m)
  BY DEF PrefixKept
<1> QED BY <1>1

(* Without entry i the rows carry their old numbers. *)
LEMMA RemovedKept ==
  ASSUME NEW led, IsSequence(led),
         \A j \in 1..Len(led) : IsRow(led[j]) /\ led[j].sequence = j,
         NEW i \in 1..Len(led), NEW n \in Nat
  PROVE  LET cut == RemoveAt(led, i) IN
         /\ IsSequence(cut) /\ \A j \in 1..Len(cut) : IsRow(cut[j])
         /\ \E m \in Nat : PrefixKept(cut, n, m)
<1> DEFINE S == {led[j] : j \in 1..Len(led)}
           cut == RemoveAt(led, i)
           l == Len(led) - 1
<1>1. led \in Seq(S) /\ Len(led) \in Nat /\ l \in Nat /\ i \in Nat /\ i >= 1 /\ i <= Len(led)
  BY DEF IsSequence
<1>2. /\ cut \in Seq(S) /\ Len(cut) = l
      /\ \A j \in 1..l : cut[j] = IF j < i THEN led[j] ELSE led[j + 1]
  <2> DEFINE s1 == SubSeq(led, 1, i - 1)
             s2 == SubSeq(led, i + 1, Len(led))
  <2>1. \A j \in 1..Len(led) : led[j] \in S
    OBVIOUS
  <2> HIDE DEF S
  <2>2. /\ s1 \in Seq(S) /\ Len(s1) = i - 1
        /\ \A j \in 1..(i - 1) : s1[j] = led[j]
    BY <1>1, <2>1, SubSeqProperties
  <2>3. /\ s2 \in Seq(S) /\ Len(s2) = Len(led) - i
        /\ \A j \in 1..(Len(led) - i) : s2[j] = led[i + j]
    <3>1. \A j \in (i + 1)..Len(led) : led[j] \in S
      BY <1>1, <2>1
    <3>2. i + 1 \in Int /\ Len(led) \in Int
      BY <1>1
    <3>3. s2 \in Seq(S) /\ Len(s2) = IF i + 1 <= Len(led) THEN Len(led) - (i + 1) + 1 ELSE 0
      BY <3>1, <3>2, SubSeqProperties
    <3>4. \A j \in 1..(Len(led) - (i + 1) + 1) : s2[j] = led[(i + 1) + j - 1]
      BY <3>1, <3>2, SubSeqProperties
    <3> HIDE DEF s2
    <3>5. Len(s2) = Len(led) - i
      BY <1>1, <3>3
    <3>6. ASSUME NEW j \in 1..(Len(led) - i) PROVE s2[j] = led[i + j]
      <4>1. j \in 1..(Len(led) - (i + 1) + 1) /\ (i + 1) + j - 1 = i + j
        BY <1>1
      <4> QED BY <3>4, <4>1
    <3> QED BY <3>3, <3>5, <3>6
  <2>4. cut = s1 \o s2
    BY DEF RemoveAt
  <2> HIDE DEF s1, s2, cut
  <2>5. /\ cut \in Seq(S) /\ Len(cut) = Len(s1) + Len(s2)
        /\ \A j \in 1..(Len(s1) + Len(s2)) :
              cut[j] = IF j <= Len(s1) THEN s1[j] ELSE s2[j - Len(s1)]
    BY <2>2, <2>3, <2>4, ConcatProperties
  <2>6. Len(s1) + Len(s2) = l
    BY <1>1, <2>2, <2>3
  <2>7. ASSUME NEW j \in 1..l PROVE cut[j] = IF j < i THEN led[j] ELSE led[j + 1]
    <3>1. cut[j] = IF j <= i - 1 THEN s1[j] ELSE s2[j - (i - 1)]
      BY <2>2, <2>5, <2>6
    <3>2. CASE j < i
      <4>1. j \in 1..(i - 1) /\ j <= i - 1
        BY <1>1, <3>2
      <4> QED BY <2>2, <3>1, <3>2, <4>1
    <3>3. CASE ~(j < i)
      <4>1. /\ ~(j <= i - 1) /\ j - (i - 1) \in 1..(Len(led) - i)
            /\ i + (j - (i - 1)) = j + 1
        BY <1>1, <3>3
      <4> QED BY <2>3, <3>1, <3>3, <4>1
    <3> QED BY <3>2, <3>3
  <2> QED BY <2>5, <2>6, <2>7
<1> HIDE DEF cut
<1>3. IsSequence(cut)
  BY <1>2, LenProperties DEF IsSequence
<1>4. \A j \in 1..l : IsRow(cut[j]) /\ cut[j].sequence = IF j < i THEN j ELSE j + 1
  <2> SUFFICES ASSUME NEW j \in 1..l
               PROVE  IsRow(cut[j]) /\ cut[j].sequence = IF j < i THEN j ELSE j + 1
    OBVIOUS
  <2>1. j \in 1..Len(led) /\ j + 1 \in 1..Len(led)
    BY <1>1
  <2>2. cut[j] = IF j < i THEN led[j] ELSE led[j + 1]
    BY <1>2
  <2>3. CASE j < i
    BY <2>1, <2>2, <2>3
  <2>4. CASE ~(j < i)
    BY <2>1, <2>2, <2>4
  <2> QED BY <2>3, <2>4
<1>5. \E m \in Nat : PrefixKept(cut, n, m)
  <2> DEFINE m == IF n < i THEN n ELSE IF n - 1 <= l THEN n - 1 ELSE l
  <2>1. m \in Nat
    BY <1>1
  <2>2. {j \in 1..l : cut[j].sequence <= n} = 1..m
    <3>1. ASSUME NEW j \in 1..l PROVE cut[j].sequence <= n <=> j <= m
      <4>1. CASE j < i
        BY <1>1, <1>4, <4>1
      <4>2. CASE ~(j < i)
        BY <1>1, <1>4, <4>2
      <4> QED BY <4>1, <4>2
    <3>2. m <= l
      BY <1>1
    <3> HIDE DEF m, l
    <3> QED BY <1>1, <2>1, <3>1, <3>2
  <2> QED BY <1>2, <2>1, <2>2 DEF PrefixKept
<1> QED BY <1>2, <1>3, <1>4, <1>5 DEF cut

(* No copy with other evidence below a checkpoint is accepted on it. *)
LEMMA DamageJudged ==
  ASSUME LedgerInv, Shaped
  PROVE  DamageDetected
<1> DEFINE db == Restored(Len(ledger), Len(checkpoints), "usable")
           led == db.ledger
           Unchanged(copy, i) == \A j \in 1..checkpoints[i].sequence :
                                    /\ copy.ledger[j] = ledger[j]
                                    /\ copy.rows[ledger[j].artifact] = ledger[j].envelope
<1> SUFFICES ASSUME NEW i \in 1..Len(checkpoints),
                    NEW copy \in DamagedRows(db) \cup DamagedEntries(db) \cup Histories(db),
                    AcceptsRestore(copy, Envelopes, i)
             PROVE  Unchanged(copy, i)
  BY DEF DamageDetected, LedgerInv, Typed, IsSequence
<1> DEFINE n == checkpoints[i].sequence
<1>1. n \in Nat
  BY CheckpointInLedger
<1>2. IsSequence(ledger) /\ Len(ledger) \in 0..Len(ledger)
  BY DEF LedgerInv, Typed, IsSequence
<1>3. /\ db = [metadata |-> db.metadata, recovering |-> db.recovering,
               readable |-> db.readable, rows |-> db.rows, ledger |-> db.ledger,
               checkpoints |-> db.checkpoints]
      /\ led = SubSeq(ledger, 1, Len(ledger))
      /\ db.rows = [a \in Artifacts |-> db.rows[a]]
  BY DEF Restored
<1> HIDE DEF db
<1>4. /\ IsSequence(led) /\ Len(led) = Len(ledger) /\ Len(led) \in Nat
      /\ DOMAIN led = 1..Len(led)
      /\ \A j \in 1..Len(led) : IsRow(led[j]) /\ led[j].sequence = j
  <2>1. /\ IsSequence(led) /\ Len(led) = Len(ledger) /\ DOMAIN led = 1..Len(led)
        /\ \A j \in 1..Len(ledger) : led[j] = ledger[j]
    BY <1>2, <1>3, FirstRows
  <2> QED BY <1>2, <2>1 DEF LedgerInv, ChainIntact, Shaped, IsSequence
<1> HIDE DEF n
<1>5. ASSUME IsSequence(copy.ledger), \A j \in 1..Len(copy.ledger) : IsRow(copy.ledger[j]),
             \E m \in Nat : PrefixKept(copy.ledger, n, m)
      PROVE  Unchanged(copy, i)
  BY <1>5, AcceptedCopy DEF n
<1>6. ASSUME IsSequence(copy.ledger), 
             \A j \in 1..Len(copy.ledger) : IsRow(copy.ledger[j]) /\ copy.ledger[j].sequence = j
      PROVE  Unchanged(copy, i)
  <2>1. Len(copy.ledger) \in Nat
    BY <1>6 DEF IsSequence
  <2>2. \E m \in Nat : PrefixKept(copy.ledger, n, m)
    BY <1>1, <1>6, <2>1, NumberedKept
  <2> HIDE DEF Unchanged
  <2> QED BY <1>5, <1>6, <2>2
<1> HIDE DEF Unchanged
<1>7. CASE copy \in DamagedRows(db)
  <2>1. copy.ledger = led
    BY <1>3, <1>7 DEF DamagedRows
  <2> QED BY <1>4, <1>6, <2>1
<1>8. CASE copy \in DamagedEntries(db)
  <2>1. CASE \E p \in DOMAIN led, e \in Envelopes : copy = [db EXCEPT !.ledger[p].envelope = e]
    <3>1. PICK p \in 1..Len(led), e \in Envelopes : copy = [db EXCEPT !.ledger[p].envelope = e]
      BY <1>4, <2>1
    <3>2. copy.ledger = [led EXCEPT ![p].envelope = e]
      BY <1>3, <3>1
    <3>3. copy.ledger = [j \in 1..Len(led) |->
                           IF j = p THEN [led[p] EXCEPT !.envelope = e] ELSE led[j]]
      BY <1>4, <3>2 DEF IsSequence
    <3>4. IsRow([led[p] EXCEPT !.envelope = e]) /\ [led[p] EXCEPT !.envelope = e].sequence = p
      <4>1. IsRow(led[p]) /\ led[p].sequence = p
        BY <1>4
      <4> QED BY <4>1 DEF IsRow
    <3>5. \A j \in 1..Len(led) : IsRow(copy.ledger[j]) /\ copy.ledger[j].sequence = j
      BY <1>4, <3>3, <3>4
    <3>6. IsSequence(copy.ledger) /\ Len(copy.ledger) = Len(led)
      <4> DEFINE row(j) == IF j = p THEN [led[p] EXCEPT !.envelope = e] ELSE led[j]
                 t == [j \in 1..Len(led) |-> row(j)]
      <4> HIDE DEF row
      <4>1. t \in Seq({row(j) : j \in 1..Len(led)}) /\ Len(t) = Len(led)
        BY <1>4
      <4>2. IsSequence(t)
        BY <4>1 DEF IsSequence
      <4>3. copy.ledger = t
        BY <3>3 DEF row
      <4> QED BY <4>1, <4>2, <4>3
    <3> QED BY <1>6, <3>5, <3>6
  <2>2. CASE \E p \in DOMAIN led : copy = [db EXCEPT !.ledger = RemoveAt(@, p)]
    <3>1. PICK p \in 1..Len(led) : copy = [db EXCEPT !.ledger = RemoveAt(@, p)]
      BY <1>4, <2>2
    <3>2. copy.ledger = RemoveAt(led, p)
      BY <1>3, <3>1
    <3>3. /\ IsSequence(copy.ledger) /\ \A j \in 1..Len(copy.ledger) : IsRow(copy.ledger[j])
          /\ \E m \in Nat : PrefixKept(copy.ledger, n, m)
      <4> DEFINE cut == RemoveAt(led, p)
      <4> HIDE DEF led
      <4>1. /\ IsSequence(cut) /\ \A j \in 1..Len(cut) : IsRow(cut[j])
            /\ \E m \in Nat : PrefixKept(cut, n, m)
        BY <1>1, <1>4, RemovedKept
      <4> HIDE DEF cut
      <4>2. copy.ledger = cut
        BY <3>2 DEF cut
      <4> QED BY <4>1, <4>2
    <3> QED BY <1>5, <3>3
  <2> QED BY <1>8, <2>1, <2>2 DEF DamagedEntries
<1>9. CASE copy \in Histories(db)
  <2>1. PICK items \in SeqOf(Artifacts \X Envelopes, Cardinality(Artifacts)) :
               copy.ledger = Chain(items)
    BY <1>3, <1>9 DEF Histories
  <2>2. PICK m \in Nat : items \in [1..m -> Artifacts \X Envelopes]
    BY DEF SeqOf
  <2>3. /\ IsSequence(copy.ledger) /\ Len(copy.ledger) = m
        /\ \A j \in 1..m : IsRow(copy.ledger[j]) /\ copy.ledger[j].sequence = j
    <3> DEFINE built == Chain(items)
    <3>1. /\ IsSequence(built) /\ Len(built) = m
          /\ \A j \in 1..m : IsRow(built[j]) /\ built[j].sequence = j
      BY <2>2, ChainRows
    <3> HIDE DEF built
    <3>2. copy.ledger = built
      BY <2>1 DEF built
    <3> QED BY <3>1, <3>2
  <2> QED BY <1>6, <2>3
<1> QED BY <1>7, <1>8, <1>9

(* The recovery verifier judges the backups of every reachable state, and  *)
(* their damaged copies, rightly.                                          *)
THEOREM RestoresJudged == Spec => []RestoreJudged
<1>1. LedgerInv /\ Shaped => RestoreJudged
  BY FaithfulJudged, DamageJudged DEF RestoreJudged
<1> QED BY <1>1, LedgerInvariant, ShapeInvariant, PTL
=============================================================================
