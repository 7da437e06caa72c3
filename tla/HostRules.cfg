SPECIFICATION FairSpec
CONSTANTS
    One = i1
    Ten = i10
    P1 = p1
    P2 = p2
    Instances = {i1, i10}
    Ports = {p1, p2}
    Addresses = {a1, a2}
    Lists <- OneMapped
    Shadows = {}
    MaxFaults = 1
    None = none
CONSTRAINT ChangedAlone
INVARIANTS
    ListedIsForwarded
    ForwardsAreOwn
    FilterIsOwn
PROPERTY
    RulesHeal
