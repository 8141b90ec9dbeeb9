SPECIFICATION FairSpec
CONSTANTS
    p1 = p1
    p2 = p2
    p3 = p3
    a1 = a1
    a2 = a2
    a3 = a3
    b1 = b1
    None = None
    Empty = Empty
    Procs = {p1, p2, p3}
    Callers = {a1, a2, a3, b1}
    IndexFiles = {a2}
    Past = {p3}
    Home <- MCHome
    MaxCrashes = 1
INVARIANTS
    MutexSound
    OneWriter
    NothingLeftLocked
PROPERTY
    EveryCallEnds
CHECK_DEADLOCK FALSE
