SPECIFICATION Spec
CONSTANTS
    QemuInstances = {q1}
    IncusInstances = {}
    Addresses = {1, 100}
    Gateway = 1
    Managed = {100}
    NoAddress = none
INVARIANT FreeSlotsUsable
