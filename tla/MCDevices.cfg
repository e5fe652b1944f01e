SPECIFICATION FairSpec
CONSTANTS
    POLLS = 3
    E1_POLLS = 3
    TX_MAX = 2
    LenOf <- MCLenOf
    Lines = {1, 4, 12}
    BootMasks <- MCBootMasks
    Texts <- MCTexts
    Causes <- MCCauses
    MaxInits = 2
    MaxCalls = 2
CHECK_DEADLOCK FALSE
INVARIANTS
    
    CardsQuiet
    
    PicInOrder
    SerialFaithful
PROPERTIES
    DriversEnd
    UrgentServed
