SPECIFICATION TextSpec
CONSTANTS
    NumSections = 4
    Start = 0
    Radius = 1
    Ahead = 1
    CacheCap = 2
    Paged = TRUE
    Flows = TRUE
    Reach = 1
    MaxSettings = 0
    MaxRef = 0
    NoBlocks = NoBlocks
    Documents <- MCDocuments
    Columns = {8, 13}
    Toggles = {"justify", "hyphenate", "wrap", "spacing", "sized", "fold", "flip", "pan", "table", "tidy", "numbers"}
    MaxToggles = 2
    FigureRows <- MCFigureRows
    MathCols <- MCMathCols
    MathRows <- MCMathRows
    MinHyphenate = 4
    MaxHyphenate = 6
    HyphenEdge = 2
    MaxStretch = 3
    FoldPreview = 2
    FoldThreshold = 3
    ParaSpacing = 1
    PanBy = 2
    FoldNote = 6
    PopEntries <- MCPopEntries
    PopHeld = {1, 2, 3}
    PopSays = {1, 3}
    PopWords = {"w1", "w2"}
    PopFolders <- MCPopFolders
    PopDraft = 2
    PopStrokes = 8
    FigBook <- MCFigBook
    FigDigit = 2
    FigCode <- MCFigCode
    FigFolders = FALSE
    FigStrokes = 5
    InlKeys = {"fig", "sum"}
    InlBooks = {"b1", "b2"}
    InlLayouts = {"open", "shut"}
    InlFlow <- MCInlFlow
    InlTops = {0, 4}
    InlHeight = 2
    InlColumns = 2
    MaxUploads = 1
    InlMaxIds = 2
    NoBook = "none"
    HtmlPages <- MCHtmlPages
    MaxBlockDepth = 4
    MaxInlineDepth = 3
    EqSites <- MCEqSites
    EqDepth = 12
    EqWidths = {0, 4, 9}
CHECK_DEADLOCK FALSE
INVARIANTS SingleFlight KeptByWrapping FiguresAccounted InlineTrue InkKept EveryWordOnce
PROPERTIES WindowKept StoppedPageArrives LoaderEnds TypedTextStaysInTheField PopupsReturn SelectionHeld SightShown
