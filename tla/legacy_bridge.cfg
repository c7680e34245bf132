SPECIFICATION FairSpec
CONSTANTS
    Conns = {c1, c2}
    None = None
    MaxClients = 1
    SensorCount = 2
    BackoffLimit = 3
    Turn = 2
    Offers = {0, 4, 5}
    MaxSeq = 3
CHECK_DEADLOCK FALSE
INVARIANTS
    TypeOK
    SlotsOwnSockets
    NothingAfterPartOfFrame
    ReadsFoundIds
PROPERTIES
    StreamSpec
    Reconnects
    SignalEnds
