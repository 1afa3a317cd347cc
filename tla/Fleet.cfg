SPECIFICATION FleetSpec
CONSTANTS
    a = a
    b = b
    k = k
    old = old
    fresh = fresh
    c = c
    d = d
    Registrant = Registrant
    Stranger = Stranger
    Null = Null
    NoSlot = NoSlot
    NoRequest = NoRequest
    NoHistory = NoHistory
    HighSamples = 10
    PlacementQueries <- Placements
    CapacityQueries <- Queues
    DemandQueries <- Histories
    NoQuestion = NoQuestion
    TicksPerHour = 2
    WeekHours = 3
    LookbackHours = 5
    HorizonHours = 2
    HighHours = 4
    HighJobs = 3
    HighDurations = 10
    NoLimit = NoLimit
    NoRow = NoRow
    NoTx = NoTx
    NoReplica = NoReplica
    Jobs = {a, b}
    WorkerIds = {k}
    TenantOf <- Owners
    CudaJobs = {a}
    Capabilities <- Offers
    Registered = {Registrant}
    Quota <- Quotas
    Replicas = {old, fresh}
    Serving = {old}
    Pooled = {old}
    Clients = {c, d}
    ReplicaOf <- Homes
    Hour = 1
    Day = 2
    Window = 1
    LeaseTicks = 1
    MaxTime = 2
INVARIANTS
    RollupsExact
    ReportTruthful
    ServesUpgradedSchema
    DiagnosisMatchesClaim
    CapacityOptimal
    DemandFromWholeHours
