SPECIFICATION BackSpec
CONSTANTS
    \* ImageBuilder
    i1 = i1
    i2 = i2
    b1 = b1
    b2 = b2
    Requests <- SmallRequests
    InlineMath <- SmallInlineMath
    SectionOf <- SmallSectionOf
    Sections = {0, 1}
    KeepRadius = 0
    NoRequest = NoRequest
    NumWorkers = 3
    \* CoverLoader
    CWorkers = {1, 2}
    Shelf = 3
    Page = 1
    CoverCap = 2
    Coverless = {2}
    Poison = {3}
    Scrolls = 1
    \* OnlineEditor
    Edited <- MC_Edited
    HitCount = 2
    Presses = 5
INVARIANTS
    SleepersNotNeeded CoversAccounted AnswersBelong
PROPERTIES
    PoolRefined WorkSettles
\* The program is left, and the bounds used up.
CHECK_DEADLOCK FALSE
