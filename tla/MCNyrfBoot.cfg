CONSTANTS
    InitialTypes <- MCTypes
    Served <- MCServed
    MaxNoise = 1
    Segments <- MCSegments
    Slack = 8
    MaxAttempts = 2
    WordBits = 2
    WordSize = 1
    PageSize = 4
    LowMemoryLimit = 4
    KernelStart = 12
    KernelEnd = 18
    SelfTestPages = 2
SPECIFICATION BootSpec
INVARIANTS
    MemoryIntact
    FramesComplete
PROPERTY
    BootEnds
