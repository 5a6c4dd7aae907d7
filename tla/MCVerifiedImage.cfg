SPECIFICATION MCSpec
CONSTANTS
    v1 = v1
    v2 = v2
    c1 = c1
    r1 = r1
    MaxVersion = 2
    Refresh = {r1}
    MaxSelects = 2
    Image = {v1, v2}
    Gui = gui
    Cli = {c1}
    Found = {"nothing", "folder"}
    MaxChanges = 1
    MaxPicks = 1
    MaxProgress = 2
    MaxFaults = 2
CHECK_DEADLOCK FALSE
SYMMETRY Symmetry
INVARIANTS
    TypesOK
    PreviewOfSelection
    WindowSettled
    WrittenIsVerified
    ChecksumOfSelection
    AnnouncedBeforeWrite
    VerdictIsLast
    ExitTellsEffect
PROPERTIES
    KeepsPromise
    RequestAsShown
    PromotedWhole
