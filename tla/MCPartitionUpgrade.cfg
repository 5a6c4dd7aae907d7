SPECIFICATION Spec
CONSTANTS
    m1 = m1
    m2 = m2
    MountPoint <- TwoMountPoints
    Attempts = 3
    Faults = {"command", "detach", "sink"}
    MaxEvents = 3
CHECK_DEADLOCK FALSE
INVARIANTS
    TypeOK
    SuccessIsWhole
    LoopReleased
PROPERTIES
    CleanupNeverDecides
    WritesAsPromised
    Ends
