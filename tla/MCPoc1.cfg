CONSTANTS
    InitialTypes <- MCTypes
    Served <- MCServed
    MaxNoise = 1
    Segments <- MCSegments
    Slack = 8
    MaxAttempts = 2
    Modes <- MCModes
    Tables <- MCTables
    Messages <- MCMessages
    ConUnits = 6
    ConLimit = 4
    U32 = 1024
SPECIFICATION PocSpec
INVARIANTS
    ConsoleRight
    BootInfoTrue
    StoresInFramebuffer
    PictureExact
PROPERTY
    PocEnds
