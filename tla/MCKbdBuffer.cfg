SPECIFICATION KbdFairSpec
CONSTANTS
    KBD_BUF_SIZE = 3
    KeyChars = {a, b}
    ZERO = ZERO
    Readers = {r1, r2}
PROPERTIES
    IsFifo
    ReadReturns
