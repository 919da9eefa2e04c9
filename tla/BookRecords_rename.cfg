\* No fault: a rename while the folders are scanned.
SPECIFICATION RecordSpec
CONSTANTS
    p = p
    q = q
    x = x
    F = F
    G = G
    Paths = {p, q, x}
    Books = {a, b}
    Folders = {F, G}
    FolderOf <- MCFolderOf
    FirstRoots = {F}
    Faults = {}
    MaxOps = 3
    MaxScans = 2
    MaxFaults = 0
SYMMETRY MCSymmetry
PROPERTY RenameKeepsRecords
\* The program may be left, and the bounds used up.
CHECK_DEADLOCK FALSE
