SPECIFICATION Spec
CONSTANTS
    Instances = {i1, i2}
    Requests = {r1, r2}
    Enforcer = enforcer
    Versions = {v1}
    Absent = absent
    MaxCrashes = 1
SYMMETRY Symmetry
INVARIANTS
    LeaseInv
    MutualExclusion
    NoLostUpdate
    NotReadyWhileInjecting
    NoFlagWithoutInstance
    OwnedIsLoaded
PROPERTY
    ImplementsMutex
