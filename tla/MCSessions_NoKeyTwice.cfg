CONSTANTS
    m1 = m1
    m2 = m2
    Messages = {m1, m2}
    MaxId = 4
    MaxSent = 4
    PeerTries = 2
    RecentSize = 1
    MaxFaults = 1
SYMMETRY MessageSymmetry
SPECIFICATION Spec
INVARIANT NoKeyTwice
\* When all messages are sent there is nothing to do.
CHECK_DEADLOCK FALSE
