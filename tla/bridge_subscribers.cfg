SPECIFICATION Spec
CONSTANTS
    Handlers = {h1, h2}
    Conns = {c1}
    StallingPeers = {c1}
    LossySessions = {}
    MaxGen = 2
    MaxSess = 1
    MaxSeq = 2
SYMMETRY Symmetry
CHECK_DEADLOCK FALSE
INVARIANTS
    TypeOK
    ListedConnsAreOpen
    NoFrameTwice
