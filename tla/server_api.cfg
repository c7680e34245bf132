SPECIFICATION FairSpec
CONSTANTS
    Conns = {c1}
    Requests <- MCRequests
    Nul = Nul
    Null = Null
    Marker = Marker
    Brace = Brace
    Names <- MCNames
    BadNames <- MCBad
    Short <- MCShort
    Uris <- MCUris
    DefaultUri = "urn:demo"
    ShortUri <- MCShortUri
    Seed <- MCSeed
    HandWritten <- MCHandWritten
    MaxNodes = 3
    Absent = Absent
    NotJson = NotJson
    Root = Root
    Missing = Missing
    CutFile = CutFile
CHECK_DEADLOCK FALSE
INVARIANTS
    TypeOK
    BodyIsWhatWasSent
    AnsweredHoldsNothing
    SavedIsLoaded
    StartsAgain
PROPERTIES
    AnswerIsTrue
    EventuallyAnswered
