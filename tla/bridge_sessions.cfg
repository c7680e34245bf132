SPECIFICATION Spec
CONSTANTS
    Handlers = {h1, h2}
    Conns = {}
    StallingPeers = {}
    LossySessions = {1, 2}
    MaxGen = 2
    MaxSess = 2
    MaxSeq = 0
SYMMETRY Symmetry
CHECK_DEADLOCK FALSE
INVARIANTS
    RunningConsistent
    NothingClosedTwice
    DegradedHasStopper
    WGCountsLoops
