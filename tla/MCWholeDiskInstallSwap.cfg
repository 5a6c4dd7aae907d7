SPECIFICATION Spec
CONSTANTS
    Layout <- MCLayout
    Under <- MCUnder
    Mapped <- MCMapped
    Images <- MCNoVolumes
    Tails = "sdb1"
    None = None
    MaxEvents = 0
CHECK_DEADLOCK FALSE
INVARIANT SafeToOverwrite
