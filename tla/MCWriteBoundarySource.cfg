SPECIFICATION GuiSpec
CONSTANTS
    n1 = n1
    n2 = n2
    a = a
    b = b
    p = p
    r1 = r1
    None = None
    Node <- MCNode
    Drive <- MCDrive
    Serial <- MCSerial
    Looks <- MCLooks
    HasById <- MCHasById
    Protected <- MCProtected
    Tails <- MCTails
    Fits <- MCFits
    SourcePaths <- MCSourcePaths
    Refresher = {r1}
    MaxSwaps = 0
SYMMETRY NodeSymmetry
INVARIANT LiveSourceRefused
