SPECIFICATION TerminalSpec
CONSTANTS
    \* SectionLoader: a reflowed book with joined chapters
    NumSections = 2
    Start = 0
    Radius = 1
    Ahead = 1
    CacheCap = 1
    Paged = FALSE
    Flows = TRUE
    Reach = 1
    MaxSettings = 1
    MaxRef = 1
    NoBlocks = NoBlocks
    \* PageMarks
    Laid <- MarksLaid
    Leads <- MarksLeads
    Opens <- MarksOpens
    PageLines = 2
    Columns = 2
    QuoteCap = 3
    LooseFrom = 3
    Colors <- MarksColors
    Queries = {"h", "f"}
    Burst = TRUE
    MaxMarks = 1
    MarkStrokes = 0
    \* Contents
    Outline <- TocOutline
    Typed = {"part", "chapter", "none"}
    Heights = {2, 3}
    TocStrokes = 0
    \* Settings: a file that cannot be read, or is not UTF-8
    Options <- PrefOptions
    Finds <- PrefFinds
    Presets <- PrefPresets
    Formats <- PrefFormats
    Typeable = {"F", "G"}
    MaxMargin = 40
    MinCap = 40
    MaxCap = 160
    MaxSpacing = 3
    PaneWidth = 120
    SidebarWidth = 30
    Faults = {"unreadable"}
    MaxFaults = 1
    PrefStrokes = 5
INVARIANTS FoldersSurvive
\* The bounds on keys are used up.
CHECK_DEADLOCK FALSE
