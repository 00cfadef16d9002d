CONSTANTS
    Devices = {d1}
    Others = {}
    Blank = Blank
    None = None
    QueueCap = 1
    MaxChanges = 2
    MaxReconnects = 1
SPECIFICATION FairSpec
INVARIANTS
    TypeOK
    PeerListIsCurrent
    OwnListIsCurrent
    CachedWasTrue
    GroupIsCurrent
PROPERTY StaleLIDListEnds
\* Without changes and messages there is nothing to do.
CHECK_DEADLOCK FALSE
