CONSTANTS
    NumSections = 3
    Span = 2
    Broken = {}
    SoftOnly = {}
    ThemeAhead = 2
    ThemedCap = 3
    Faithful = {"day"}
    Keys = {"Flip", "Jump", "Restyle", "Modal", "Leave", "Open"}
    MaxKeys = 3
    Slow = TRUE
    Sections <- MCSections
    Books = {"b1"}
    Policies = {"day", "night"}
    Rasters = {"base", "crisp"}
    Spots = {TRUE, FALSE}
    Shapes <- MCShapes
    RetransmitMoves = FALSE
    FrozenShapes = FALSE
    MaxTargets = 2
    None = None
SPECIFICATION FairSpec
INVARIANTS
    ResidentIsHeld
PROPERTIES
    TurnsWhole
    ViewSettles
