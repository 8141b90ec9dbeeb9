SPECIFICATION Spec
CONSTANTS
    n1 = n1
    n2 = n2
    n3 = n3
    n4 = n4
    Nodes = {n1, n2, n3, n4}
    MaxEdges = 4
    Members <- MCMembers
    Wanted = {n1, n2, n3}
    Bridges <- MCBridges
    Graphs <- MCGraphs
    Depths = {1, 2, 4}
    Limits = {3, 9}
INVARIANTS
    BfsExact
    PathShortest
    WalkExact
    ImpactHonest
    CyclesFound
CHECK_DEADLOCK FALSE
