SPECIFICATION Spec
CONSTANTS
    One = i1
    Ten = i10
    P1 = p1
    P2 = p2
    Instances = {i1, i10}
    Ports = {p1, p2}
    Addresses = {a1, a2}
    Lists <- BothMapped
    Shadows <- Prefixes
    MaxFaults = 0
    None = none
PROPERTY
    RulesStay
