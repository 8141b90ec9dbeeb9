\* Three connections in every order, with peers that die or close at any time.
SPECIFICATION DCSpec
CONSTANTS
    c1 = c1
    c2 = c2
    c3 = c3
    Conns = {c1, c2, c3}
INVARIANTS
    IdleTimerMatches
PROPERTIES
    LiveClientsStay
    AbandonedStops
    StopEnds
CHECK_DEADLOCK FALSE
