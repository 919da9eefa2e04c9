SPECIFICATION AxisSpec
CONSTANTS
    NumSections = 2
    Pictures <- OneEach
    Inline = {}
    Spare = 4
    KeepRadius = 1
    Flows = TRUE
    MaxGeoms = 1
    MaxBooks = 2
    MaxCopies = 2
    CanRestage = TRUE
    CanFail = TRUE
    LateNeighbours = TRUE
CHECK_DEADLOCK FALSE
INVARIANTS RequestedIsComing
PROPERTIES PicturesAppear
