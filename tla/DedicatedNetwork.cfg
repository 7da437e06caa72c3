SPECIFICATION Spec
CONSTANTS
    QemuInstances = {q1}
    IncusInstances = {c1}
    Uplinks = {u1}
    Bridged = bridged
    Addresses = {a1, a2}
    Elsewhere = {a2}
    MaxFaults = 1
    Foreign = foreign
    None = none
INVARIANTS
    OneRecordPerAddress
    ResourcesAreRecorded
    AppliedIsInPlace
    RunningIsProtected
PROPERTIES
    RoutesAreNotTakenOver
    ImplementsPool
