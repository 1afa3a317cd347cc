SPECIFICATION OneSinkSpec
CONSTANTS
    primary = primary
    replica = replica
    archive = archive
    Sinks <- ThreeSinks
    Lax = {archive}
    RequiredCopies = 2
    Publishers = {p1, p2, p3}
    MaxCheckpoints = 2
SYMMETRY PublisherSymmetry
INVARIANTS
    ReceiptSound
    CleanAttemptCompletes
