CONSTANTS
    Queries = {q1}
    Messages = {m1}
    MaxConns = 2
    MaxStreamErrors = 1
SPECIFICATION FairSpec
INVARIANTS
    TypeOK
    WaitersAreEmpty
    NobodyForgotten
PROPERTY QueriesEnd
\* All requests have ended.
CHECK_DEADLOCK FALSE
