SPECIFICATION OperationsSpec
CONSTANTS
    r1 = r1
    r2 = r2
    r3 = r3
    r4 = r4
    t1 = t1
    t2 = t2
    t3 = t3
    t4 = t4
    Runs = {r1, r2, r3, r4}
    Tokens = {t1, t2, t3, t4}
    TokenOf <- OneTokenEach
    Foreign = {t3}
    Rejected = {t4}
    NoToken = NoToken
    Drills = {d1, d2, d3}
    MaxFailed = 2
    MaxOverlap = 1
SYMMETRY DrillSymmetry
INVARIANTS
    TokenAcceptable
    SuccessMeansPromoted
    LeftoversBounded
    PassedMeansVerified
PROPERTIES
    PatchesEligibleOnly
