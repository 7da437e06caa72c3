SPECIFICATION Spec
CONSTANTS
    QemuInstances = {q1, q2}
    IncusInstances = {c1}
    Addresses = {1, 100, 101}
    Gateway = 1
    Managed = {100, 101}
    NoAddress = none
SYMMETRY Symmetry
CONSTRAINT TwoAtATime
INVARIANTS
    TableConsistent
    QemuGuestsReserved
PROPERTIES
    SlotKeptWhileUsed
    ImplementsPool
