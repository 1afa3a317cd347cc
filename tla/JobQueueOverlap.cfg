SPECIFICATION Spec
CONSTANTS
    a = a
    b = b
    v = v
    w = w
    NoJob = NoJob
    NoWorker = NoWorker
    Jobs = {a, b}
    Workers = {v, w}
    Priority <- Ranks
    CreatedAt <- Ranks
    MaxAttempts <- OneOrTwoAttempts
    CudaJobs = {a, b}
    Policies <- TightPolicy
    MaxCrashes = 0
SYMMETRY WorkerSymmetry
INVARIANTS
    ActiveWithinQuota
