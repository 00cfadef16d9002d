CONSTANTS
    m1 = m1
    m2 = m2
    Messages = {m1, m2}
    MaxId = 5
    MaxSent = 4
    PeerTries = 4
    RecentSize = 1
    MaxFaults = 3
SYMMETRY MessageSymmetry
SPECIFICATION Spec
CONSTRAINT StillClean
INVARIANTS
    TypeOK
    KeysUsedOnce
    FewRetries
\* When all messages are sent there is nothing to do.
CHECK_DEADLOCK FALSE
