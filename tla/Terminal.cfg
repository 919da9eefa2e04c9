SPECIFICATION TerminalSpec
CONSTANTS
    \* SectionLoader: a reflowed book with joined chapters
    NumSections = 2
    Start = 0
    Radius = 1
    Ahead = 1
    CacheCap = 1
    Paged = FALSE
    Flows = TRUE
    Reach = 1
    MaxSettings = 1
    MaxRef = 1
    NoBlocks = NoBlocks
    \* PageMarks
    Laid <- MarksLaid
    Leads <- MarksLeads
    Opens <- MarksOpens
    PageLines = 2
    Columns = 2
    QuoteCap = 3
    LooseFrom = 3
    Colors <- MarksColors
    Queries = {"h", "f"}
    Burst = TRUE
    MaxMarks = 1
    MarkStrokes = 5
    \* Contents
    Outline <- TocOutline
    Typed = {"part", "chapter", "none"}
    Heights = {2, 3}
    TocStrokes = 6
    \* Settings: a hand's edit, or a file that does not parse
    Options <- PrefOptions
    Finds <- PrefFinds
    Presets <- PrefPresets
    Formats <- PrefFormats
    Typeable = {"F", "G"}
    MaxMargin = 40
    MinCap = 40
    MaxCap = 160
    MaxSpacing = 3
    PaneWidth = 120
    SidebarWidth = 30
    Faults = {"edited", "garbled"}
    MaxFaults = 1
    PrefStrokes = 5
INVARIANTS
    NoOrphanRequest ShownStaysCached MarksFoundAgain FoldersSurvive
PROPERTIES
    PagePointers PaneFollows SettingsSound
\* The bounds on keys are used up.
CHECK_DEADLOCK FALSE
