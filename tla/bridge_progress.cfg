SPECIFICATION FairSpec
CONSTANTS
    Handlers = {h1}
    Conns = {c1}
    StallingPeers = {}
    LossySessions = {1}
    MaxGen = 1
    MaxSess = 1
    MaxSeq = 3
CHECK_DEADLOCK FALSE
PROPERTIES
    StopTakesEffect
    LostSessionStopsBridge
    ClosedEndsLoops
    StreamSpec
