\* A daemon, its successors, two of them killed anywhere.
SPECIFICATION DLSpec
CONSTANTS
    p1 = p1
    p2 = p2
    p3 = p3
    Procs = {p1, p2, p3}
    Nobody = Nobody
    MaxTries = 2
    MaxCrashes = 2
INVARIANTS
    DLTypeOK
    OneDaemonUnlessRaced
PROPERTY TakesOver
CHECK_DEADLOCK FALSE
