CONSTANTS
    WordBits = 2
    WordSize = 1
    PageSize = 4
    LowMemoryLimit = 8
    KernelStart = 8
    KernelEnd = 14
    SelfTestPages = 3
    Maps <- MCMaps
SPECIFICATION Spec
INVARIANTS
    TypeOK
    ZeroMeansExhausted
    Conservation
    WritesSafe
    CarveInBounds
    SelfTestVerdict
PROPERTIES
    AllocLowest
    Refinement
