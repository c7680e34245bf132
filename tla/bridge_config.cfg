SPECIFICATION Spec
CONSTANTS
    Handlers = {h1, h2, h3}
    Endpoints = {demo, plant}
    DefaultEndpoint = demo
    MaxMappings = 2
    Unset = Unset
    NoConfig = NoConfig
SYMMETRY Symmetry
INVARIANTS
    TypeOK
    LoneSaveIsWhole
    AcknowledgedSurvives
