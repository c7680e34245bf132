SPECIFICATION FairSpec
CONSTANTS
    Conns = {c1, c2, c3}
    MaxSeq = 2
CHECK_DEADLOCK FALSE
INVARIANTS
    TypeOK
    ClientsAreAlive
    UiKnowsState
    StopClosesMost
PROPERTIES
    StreamSpec
    GoneAreReleased
