SPECIFICATION KeyboardSpec
CONSTANTS
    Keys <- MCKeys
    Repeating <- MCRepeating
    Hands <- MCHands
    LayoutIds = {"QWERTY", "AZERTY", "QWERTZ", "DVORAK"}
INVARIANTS
    TextFollowsPresses
    FollowsKeys
