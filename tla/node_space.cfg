SPECIFICATION FairSpec
CONSTANTS
    folder = folder
    spare = spare
    s1 = s1
    s2 = s2
    sim = sim
    Objects = Objects
    Freed = Freed
    EmptyFile = EmptyFile
    CutFile = CutFile
    Folders <- MCFolders
    Sensors <- MCSensors
    SimNode = sim
    Seed <- MCNested
    Addable = {s2, spare}
    NewParents = {spare}
    Written = {s1}
    MaxNodes = 5
    MaxSlots = 3
    MaxTodo = 4
    DepthGuard = 1
    InitialCapacity = 1
INVARIANTS
    TypeOK
    SlotsAreSensors
    ConfigIsSpace
    SimNodeReachable
PROPERTIES
    BuiltBelowParent
    RequestsComplete
