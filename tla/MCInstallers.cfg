SPECIFICATION MCSpec
CONSTANTS
    Layout <- MCLayout
    Under <- MCUnder
    Mapped <- MCMapped
    Images <- MCImages
    Tails = "sdb1"
    None = None
    MaxEvents = 2
    run = run
    s1 = s1
    s2 = s2
    p0 = p0
    p1 = p1
    p2 = p2
    Stick <- Sticks
    Port <- Ports
    NoStick = none
    NoPort = nowhere
    Running = run
    Home = p0
    Small <- SmallSticks
    Attempts = 2
    MaxPlugs = 2
    MaxClicks = 3
    Files <- ConfigFiles
    Menus <- MenusOf
    Orders <- ConfiguredOrders
    Lengths <- CutLengths
    MaxRuns = 2
    q1 = q1
    q2 = q2
    Smoke <- Runs
    Free = free
CHECK_DEADLOCK FALSE
SYMMETRY Symmetry
INVARIANTS
    TypesOK
    EndsForCause
    MenuAsConfigured
    ShippedMenuKept
    ErasedAsAgreed
    UpgradesATails
    BackupOnNewTable
    CompleteIsWhole
    PassedInTheGuest
    OneGuestPerLock
PROPERTIES
    SettledWhileWriting
    WritesAsPromised
