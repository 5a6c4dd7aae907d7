SPECIFICATION Spec
CONSTANTS
    w1 = w1
    w2 = w2
    d1 = d1
    d2 = d2
    s1 = s1
    s2 = s2
    m1 = m1
    m2 = m2
    None = None
    Write <- TwoWrites
    Download <- TwoDownloads
    Scan <- TwoScans
    Medium <- TwoMedia
    OnTails = TRUE
    Workers = 2
    Faults = {"cache"}
CHECK_DEADLOCK FALSE
INVARIANT DownloadRefusalTruthful
