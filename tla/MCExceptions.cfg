CONSTANTS
    Byte = 4
    Vectors <- MCVectors
    CpuErrorCode <- MCCpuErrorCode
    isr_stub <- MCStubs
    isr_unhandled = 42000
    TssAddress = 51367
    StackTops = {1000, 1001}
    IstTop = 2000
    IstWords = 64
    FirmwareSelector = 56
    Addresses = {1, 2}
    MaxNested = 2
SPECIFICATION Spec
INVARIANTS
    TypeOK
    ReportedOnceLoaded
    FrameTrue
    CallAligned
    EvidenceKept
    Cr2True
PROPERTY
    ReportEnds
