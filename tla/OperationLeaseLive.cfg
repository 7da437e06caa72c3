SPECIFICATION FairSpec
CONSTANTS
    Instances = {i1, i2}
    Requests = {r1}
    Enforcer = enforcer
    Versions = {v1}
    Absent = absent
    MaxCrashes = 1
INVARIANTS
    EnforcerActsOnRegistered
PROPERTIES
    LeaseReleased
    PassEnds
