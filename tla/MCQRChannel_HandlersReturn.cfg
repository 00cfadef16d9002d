\* The real numbers: six codes, a buffer of eight.
CONSTANTS
    Codes = 6
    Buffer = 8
    Slots = {1, 2}
    MaxChannels = 2
    MaxConns = 1
    MaxTurns = 2
    CancelUpTo = 1
SPECIFICATION Spec
INVARIANT HandlersReturn
CHECK_DEADLOCK FALSE
