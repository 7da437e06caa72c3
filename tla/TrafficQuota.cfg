SPECIFICATION FairSpec
CONSTANTS
    Drivers = {"incus", "qemu"}
    Quotas = {0, 1, 2}
    NoNetwork = none
    Corrupt = corrupt
    MaxTraffic = 2
    MaxReinstalls = 1
    MaxFaults = 1
    MaxCrashes = 1
CONSTRAINT TwoQuotas
INVARIANTS
    NeverOvercharged
    DisconnectedHasWayBack
PROPERTIES
    CutOnlyOverQuota
    OverQuotaIsCut
    BelowQuotaIsRestored
