\* Safety with one foreign `omniweave sync`, one fault.
SPECIFICATION Spec
CONSTANTS
    f1 = f1
    f2 = f2
    a = a
    b = b
    Files <- MCFiles
    Contents <- MCContents
    Absent = Absent
    NoFile = NoFile
    MaxEdits = 3
    MaxFaults = 1
    MaxCliRuns = 1
    CliModes = {"sync"}
    Hazards = {}
SYMMETRY Symmetry
INVARIANTS
    TypeOK
    PrefilterSound
    FreshOrFlagged
    IndexingFlagHonest
PROPERTY FlagClearedByCoveringSync
CHECK_DEADLOCK FALSE
