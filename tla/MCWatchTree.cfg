\* Four directories, of which three can be watched.
SPECIFICATION Spec
CONSTANTS
    root = root
    a = a
    b = b
    c = c
    Dirs = {root, a, b, c}
    Root = root
    Parent <- MCParent
    Contents = {1}
    Absent = 0
    MaxWatches = 3
    MaxEdits = 2
    MaxFaults = 1
INVARIANTS
    TypeOK
    TreeCovered
    ChangesNoticed
PROPERTY
    SyncedInTheEnd
CHECK_DEADLOCK FALSE
