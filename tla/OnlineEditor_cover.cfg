SPECIFICATION EditorSpec
CONSTANTS
    Edited <- MC_Edited
    HitCount = 2
    Presses = 8
INVARIANT FiledIsChosen
CHECK_DEADLOCK FALSE
