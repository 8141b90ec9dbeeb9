\* omniweave index while files change.
SPECIFICATION Spec
CONSTANTS
    f1 = f1
    f2 = f2
    a = a
    b = b
    Files <- MCFiles
    Contents <- MCContents
    Absent = Absent
    NoFile = NoFile
    MaxEdits = 2
    MaxFaults = 0
    MaxCliRuns = 1
    CliModes = {"index"}
    Hazards = {}
INVARIANT PrefilterSound
CHECK_DEADLOCK FALSE
