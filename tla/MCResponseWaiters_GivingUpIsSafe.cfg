CONSTANTS
    Queries = {q1}
    Messages = {m1}
    MaxConns = 2
    MaxStreamErrors = 0
SPECIFICATION Spec
SYMMETRY Symmetry

INVARIANT GivingUpIsSafe
CHECK_DEADLOCK FALSE
