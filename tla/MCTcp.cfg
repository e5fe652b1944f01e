SPECIFICATION FairSpec
CONSTANTS
    FRAMES = 2
    BASE = 3
    HDR = 1
    LENS = 16
    MAX_SEG = 2
    MaxLens = {1, 2}
    SendLens = {1, 3}
    PeerFrames <- MCPeerFrames
    FaultSets <- MCFaultSets
    MaxFrames = 3
    MaxConnects = 2
    MaxPushed = 2
INVARIANTS
    SeqFollowsWire
    
    

    
