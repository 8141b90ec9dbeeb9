\* Liveness, with a foreign `omniweave sync` that takes the lock and a fault.
SPECIFICATION FairSpec
CONSTANTS
    f1 = f1
    f2 = f2
    a = a
    b = b
    Files = {f1}
    Contents <- MCContents
    Absent = Absent
    NoFile = NoFile
    MaxEdits = 3
    MaxFaults = 1
    MaxCliRuns = 1
    CliModes = {"sync"}
    Hazards = {}
PROPERTIES
    Convergence
CHECK_DEADLOCK FALSE
