SPECIFICATION Spec
CONSTANTS
    folder = folder
    spare = spare
    s1 = s1
    s2 = s2
    sim = sim
    Objects = Objects
    Freed = Freed
    EmptyFile = EmptyFile
    CutFile = CutFile
    Folders <- MCFolders
    Sensors <- MCSensors
    SimNode = sim
    Seed <- MCSeed2
    Addable = {}
    NewParents = {}
    Written = {s1, s2}
    MaxNodes = 4
    MaxSlots = 3
    MaxTodo = 4
    DepthGuard = 5
    InitialCapacity = 8
INVARIANTS
    OverrideReachesSensor
