CONSTANTS
    Sockets = {s1, s2, s3}
    NoSocket = NoSocket
    EnableAutoReconnect = TRUE
    InitialAutoReconnect = FALSE
    QueueCap = 1
    MaxFaults = 1
SPECIFICATION FairSpec
INVARIANTS
    TypeOK
    OneLiveSocket
    RecoveryPending
PROPERTIES
    ImplementsLink
    EventuallyConnected
    SocketGoroutinesEnd
\* A connected client with nothing to do is quiescent.
CHECK_DEADLOCK FALSE
