CONSTANTS
    EFI_PAGE_SIZE = 2
    EhdrSize = 1
    PhdrSize = 1
    MemoryPages = 8
    Files <- MCFiles
    FreeSets <- MCFreeSets
SPECIFICATION Spec
INVARIANTS
    ImageExact
    StoresInside
    TruncatedRefused
PROPERTIES
    KeepsContract
    LoadEnds
