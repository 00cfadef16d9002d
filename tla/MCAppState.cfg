CONSTANTS
    i = i
    j = j
    Indexes = {i, j}
    Shapes <- MCShapes
    Keys = {1}
    FirstKeys = {}
    Senders = {s1}
    MaxVersion = 2
    MaxFaults = 1
SPECIFICATION FairSpec
INVARIANTS
    TypeOK
    HashIsServers
    MACsMatchVersion
    UploadsAreValid
    NothingElseIsLost
PROPERTY KeyResumesSync
\* A client that nobody notifies has nothing to do.
CHECK_DEADLOCK FALSE
