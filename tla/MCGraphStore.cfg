\* Syncs and full indexes over a changing tree, one of them killed.
SPECIFICATION Spec
CONSTANTS
    A = A
    B = B
    a1 = a1
    a2 = a2
    b1 = b1
    b2 = b2
    b3 = b3
    b4 = b4
    s = s
    t = t
    u = u
    w = w
    x = x
    Files <- MCFiles
    Versions <- MCVersions
    Absent = Absent
    NoFile = NoFile
    Syms <- MCSyms
    NameOf <- MCNameOf
    KindOf <- MCKindOf
    LineOf <- MCLineOf
    RefsOf <- MCRefsOf
    VersionsOf <- MCVersionsOf
    Oversized <- MCOversized
    RawUnsafe <- MCRawUnsafe
    BatchSize = 1
    MaxEdits = 3
    MaxRuns = 3
    MaxCrashes = 1
INVARIANTS
    TypeOK
    RowVouches
    EdgesKeptWithoutCrash
    EdgesGrounded
    Lockstep
CHECK_DEADLOCK FALSE
