SPECIFICATION ServicesSpec
CONSTANTS
    Keys = {admin1, admin2, admin3, reader}
    AdminKeys = {admin1, admin2, admin3}
    Static = Static
    Operator = Operator
    Requests = {r1, r2, r3}
    NoRequest = NoRequest
    NoKey = NoKey
    Versions = {v1, v2}
    Bundles = {b1, b2}
    NoVersion = NoVersion
    NoBundle = NoBundle
    Admins = {q1, q2}
    MaxActivations = 3
    MaxEvidence = 2
SYMMETRY Symmetry
INVARIANTS
    AdminRemains
    EvidenceSound
    ActivationOrder
PROPERTIES
    NoKeyWhileSuspended
