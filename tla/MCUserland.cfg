SPECIFICATION MCSpec
CONSTANTS
    Names = {"x", "echo", "w"}
    OnVfs = {"x", "echo"}
    Programs <- MCPrograms
    PKG_MAX_ENTRIES = 3
    DYN_CMD_MAX = 1
    FaultSets = {{}, {"read"}, {"write"}, {"load"}}
    Typed <- MCTyped
    Sources <- MCSources
    Digits <- MCDigits
    MAX_INPUT = 12
    MAX_ARGS = 5
    Chars <- MCChars
    NUL = "NUL"
    MAX_ENV = 4
    ENV_POOL_SZ = 8
    Paths = {"/f", "/g", "/f/long"}
    Trunc <- MCTrunc
    Byte = {1, 2, 3}
    Contents <- MCContents
    Writes <- MCWrites
    Handles = {h1, h2}
    ReadSizes = {2}
    WORD = 64
    COPY_BUF = 2
    VFS_MAX_NODES = 2
    MaxSize = 2
    Devices = {"disk", "floppy"}
    BootSectors <- MCBootSectors
    LBA_WORD = 64
CHECK_DEADLOCK FALSE
INVARIANTS
    RunnableIsRecorded
    RunnableIsIntact
    EnvIsExports
    
    NoHoles
    CopyIsOverlay
PROPERTIES
    OtherPackagesKept
    CopyEnds
    ContextIsOneVolume
