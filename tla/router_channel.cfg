SPECIFICATION FairSpec

CONSTANTS
    Sender = {s1, s2}
    MaxMsg = 3
    Limit = 2
    HighWater = 1
    MaxConn = 2

INVARIANTS
    TypeOK
    AtMostOnce
    StoppedStaysStopped

PROPERTIES
    PendingServed

CHECK_DEADLOCK FALSE
