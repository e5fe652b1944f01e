SPECIFICATION MSpec
CONSTANTS
    HDR = 12
    ALIGN = 8
    SPLIT = 16
    WORD = 4096
    HEAP_CAPACITY = 136
    RamSizes <- MCRamSizes
    Sizes <- MCSizes
    NewSizes <- MCNewSizes
INVARIANTS
    RoomForRequest
    KfreesAgree
PROPERTIES
    ReallocKeepsData
    MIsAllocator
