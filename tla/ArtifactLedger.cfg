SPECIFICATION Spec
CONSTANTS
    run = run
    evidence = evidence
    comparison = comparison
    Artifacts = {run, evidence, comparison}
    TableOf <- SourceTable
    Envelopes = {e1, e2}
    NoArtifact = NoArtifact
    NoEnvelope = NoEnvelope
    Procs = {p1, p2}
    NoProc = NoProc
    MaxCheckpoints = 2
    MaxLedgerEntries = 2
SYMMETRY Symmetry
INVARIANTS
    ChainIntact
    EvidenceRecorded
    CheckpointsAnchored
    FreshCheckpointUnique
    NoFalseAlarm
    RestoreJudged
PROPERTIES
    EvidenceImmutable
