SPECIFICATION CSpec
CONSTANTS
    HDR = 12
    ALIGN = 8
    SPLIT = 16
    WORD = 4096
    HEAP_CAPACITY = 152
    RamSizes <- MCRamSizes
    Sizes <- MCSizes
    BufferSizes = {0, 9, 40}
    NODE = 20
    Names = {"a"}
    Entries <- MCEntries
    TASK = 20
    STACK = 24
    FRAME = 20
INVARIANTS
    ListSound
    AttachedAreFound
    StacksApart
PROPERTIES
    FailedCreateLeavesNoTrace
    IsAllocator
