SPECIFICATION Spec
CONSTANTS
    a = a
    b = b
    v = v
    w = w
    NoJob = NoJob
    NoWorker = NoWorker
    Jobs = {a, b}
    Workers = {v, w}
    Priority <- Ranks
    CreatedAt <- Ranks
    MaxAttempts <- OneOrTwoAttempts
    CudaJobs = {a, b}
    Policies <- QuotaPolicies
    MaxCrashes = 1
SYMMETRY WorkerSymmetry
INVARIANTS
    TypeOK
    RowConsistent
    CompletedLinksLastRun
PROPERTIES
    LiveLeaseNotStolen
    ImplementsLifecycle
    ClaimsWithinQuota
    AdmissionsWithinQuota
