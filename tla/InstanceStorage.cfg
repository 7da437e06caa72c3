SPECIFICATION Spec
CONSTANTS
    Drivers = {"qemu", "incus"}
    MaxVolumes = 2
    MaxFailures = 2
    None = none
INVARIANTS
    TargetHasVolume
    RetainedHasPlan
    ReplacedIsWhole
PROPERTIES
    DataSurvives
    CompanionsSurvive
\* No request may come any more once the bounds are reached.
CHECK_DEADLOCK FALSE
