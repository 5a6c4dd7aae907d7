SPECIFICATION Spec
CONSTANTS
    w1 = w1
    w2 = w2
    d1 = d1
    d2 = d2
    s1 = s1
    s2 = s2
    m1 = m1
    m2 = m2
    None = None
    Write <- TwoWrites
    Download <- TwoDownloads
    Scan = {s1}
    Medium <- TwoMedia
    OnTails = TRUE
    Workers = 2
    Faults = {"vanish", "sink", "cache"}
CHECK_DEADLOCK FALSE
INVARIANTS
    TypeOK
    Exclusive
    RefusalJustified
PROPERTIES
    SettingsKept
    ResultReported
