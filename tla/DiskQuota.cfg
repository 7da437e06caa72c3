SPECIFICATION Spec
CONSTANTS
    QuotaPools = {zfs}
    DirPools = {dir}
    Own = own
    Others = {other}
    Lost = lost
    Sizes = {1, 2, 3}
    MaxFaults = 2
    None = none
INVARIANTS
    RootStays
    PoolHoldsQuota
    QuotaIsEffective
PROPERTY
    QuotaKeeps
