CONSTANTS
    NumSections = 3
    Span = 1
    Broken = {1}
    SoftOnly = {2}
    ThemeAhead = 1
    ThemedCap = 4
    Faithful = {"day"}
    Keys = {"Flip", "Jump", "Restyle", "Zoom", "Chrome", "Modal"}
    MaxKeys = 3
    Slow = FALSE
    Sections <- MCSections
    Books = {"b1"}
    Policies = {"day", "night"}
    Rasters = {"base", "crisp"}
    Spots = {TRUE, FALSE}
    Shapes <- MCShapes
    RetransmitMoves = TRUE
    FrozenShapes = TRUE
    MaxTargets = 2
    None = None
SPECIFICATION FairSpec
INVARIANTS
    ScreenTrue
PROPERTIES
    FlipsFromAPageInView
    ComesRight
