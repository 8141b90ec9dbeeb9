SPECIFICATION FairSpec
CONSTANTS
    Files = {f1, f2}
    FileLevel = {f2}
    Workers = {w1, w2}
    None = None
    RecycleInterval = 2
INVARIANTS
    CountsAddUp
    StoredOrReported
    NoThreadLeft
PROPERTY
    Ends
CHECK_DEADLOCK FALSE
