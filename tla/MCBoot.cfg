SPECIFICATION MCSpec
CONSTANTS
    UINT32 = 8
    EHSIZE = 2
    Images <- MCImages
    INIT_MAXSZ = 5
    SECTOR = 512
    Tables <- MCTables
    STAGE2_LOAD = 1280
    KERNEL_STAGING_ADDR = 65536
    KERNEL_FINAL_ADDR = 1048576
    KERNEL_LBA = 16
    KERNEL_SECTORS = 16
    SectorsPerTrack = 18
    Heads = 2
INVARIANTS
    ImageIsPlaced
    StagesInPlace
PROPERTIES
    LoadEnds
CHECK_DEADLOCK FALSE
