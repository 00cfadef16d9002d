CONSTANTS
    Codes = 1
    Buffer = 2
    Slots = {1, 2}
    MaxChannels = 2
    MaxConns = 1
    MaxTurns = 1
    CancelUpTo = 1
SPECIFICATION FairSpec
INVARIANTS
    TypeOK
    OneResult
    StoppedIsEnding
    BufferedIsCounted
PROPERTY ReadingEnds
\* The add-on stops, or is paired and leaves the module.
CHECK_DEADLOCK FALSE
