SPECIFICATION FairSpec
CONSTANTS
    NumSections = 3
    Pictures <- OneEach
    Inline = {}
    Spare = 4
    KeepRadius = 1
    Flows = FALSE
    MaxGeoms = 0
    MaxBooks = 1
    MaxCopies = 2
    CanRestage = FALSE
    CanFail = FALSE
    LateNeighbours = FALSE
CHECK_DEADLOCK FALSE
PROPERTIES PicturesAppear
