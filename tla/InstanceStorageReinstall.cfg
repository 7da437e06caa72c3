SPECIFICATION Spec
CONSTANTS
    Drivers = {"qemu"}
    MaxVolumes = 1
    MaxFailures = 2
    None = none
PROPERTY
    ReinstallIsFresh
\* No request may come any more once the bounds are reached.
CHECK_DEADLOCK FALSE
