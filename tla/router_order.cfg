SPECIFICATION Spec

CONSTANTS
    Sender = {s1}
    MaxMsg = 3
    Limit = 2
    HighWater = 1
    MaxConn = 2

INVARIANTS
    InOrder

CHECK_DEADLOCK FALSE
