SPECIFICATION FairSpec
CONSTANTS
    QemuInstances = {q1}
    IncusInstances = {c1}
    Uplinks = {u1, u2}
    Bridged = bridged
    Addresses = {a1}
    Elsewhere = {}
    MaxFaults = 1
    Foreign = foreign
    None = none
PROPERTIES
    ProxyGoesWithRecord
    LeftoverIsCleaned
