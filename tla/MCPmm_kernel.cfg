CONSTANTS
    WordBits = 2
    WordSize = 1
    PageSize = 4
    LowMemoryLimit = 8
    KernelStart = 8
    KernelEnd = 14
    SelfTestPages = 3
    Maps <- ForgetfulMaps
SPECIFICATION Spec
INVARIANTS
    KernelSurvives
