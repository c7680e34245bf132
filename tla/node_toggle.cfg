SPECIFICATION FairSpec
CONSTANTS
    folder = folder
    spare = spare
    s1 = s1
    s2 = s2
    sim = sim
    Objects = Objects
    Freed = Freed
    EmptyFile = EmptyFile
    CutFile = CutFile
    Folders <- MCFolders
    Sensors <- MCSensors
    SimNode = sim
    Seed <- MCSeed
    Addable = {}
    NewParents = {}
    Written = {}
    MaxNodes = 3
    MaxSlots = 3
    MaxTodo = 4
    DepthGuard = 5
    InitialCapacity = 8
PROPERTIES
    SensorsToggle
