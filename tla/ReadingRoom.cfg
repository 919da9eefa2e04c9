SPECIFICATION RoomSpec
CONSTANTS
    \* BookRecords: every fault, one of them per behaviour
    p = p
    q = q
    x = x
    F = F
    G = G
    Paths = {p, q, x}
    Books = {a, b}
    Folders = {F, G}
    FolderOf <- MCFolderOf
    FirstRoots = {F}
    Faults = {"external", "crash", "unmount", "unread"}
    MaxOps = 2
    MaxScans = 2
    MaxFaults = 1
    \* ReadingSession
    Titles = {a, b}
    LastSection = 1
    LastLine = 1
    AutosaveEvery = 3
    Life = 5
    \* ReadingFlow
    LastChapter = 2
    Wrapped <- MC_Wrapped
    Reserved = {0}
    PageLines = 3
    Throttle = FALSE
    Features = {"page", "flow", "lock", "jump", "width"}
    Strokes = 4
    \* LibraryDesk
    ByTitle <- MC_ByTitle
    ByName <- MC_ByName
    Found <- MC_Found
    DeskStrokes = 4
    \* Duplicates
    Copies <- MC_Copies
    About <- MC_About
    Contents <- MC_Contents
    Linkings <- MC_Linkings
    Unreadable = {"d"}
    TocMin = 2
    MaxDf = 4
    DupStrokes = 4
SYMMETRY MCSymmetry
INVARIANTS
    IndexSound TimeCounted SavesSound DeskShowsStore ResolverSound
PROPERTIES
    PlaceFollows WorkSurvives
\* Programs are left, and the bounds used up.
CHECK_DEADLOCK FALSE
