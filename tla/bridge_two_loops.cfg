SPECIFICATION Spec
CONSTANTS
    Handlers = {h1, h2}
    Conns = {c1}
    StallingPeers = {}
    LossySessions = {1}
    MaxGen = 2
    MaxSess = 1
    MaxSeq = 2
CHECK_DEADLOCK FALSE
INVARIANT SequenceIncreases
