SPECIFICATION FlowSpec
CONSTANTS
    LastChapter = 2
    Wrapped <- MC_Wrapped
    Reserved = {0}
    PageLines = 3
    Throttle = FALSE
    Features = {"page", "flow", "lock"}
    Strokes = 4
PROPERTY PageTurns
CHECK_DEADLOCK FALSE
