SPECIFICATION FairSpec
CONSTANTS
    a = a
    b = b
    v = v
    w = w
    NoJob = NoJob
    NoWorker = NoWorker
    Jobs = {a, b}
    Workers = {w}
    Priority <- Ranks
    CreatedAt <- Ranks
    MaxAttempts <- OneOrTwoAttempts
    CudaJobs = {a, b}
    Policies <- TightPolicy
    MaxCrashes = 1
PROPERTIES
    QueuedJobServed
    AbandonedJobRecovered
