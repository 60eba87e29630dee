SPECIFICATION FairSpec

CONSTANTS
    None = None
    n1 = n1  n2 = n2
    Node = {n1, n2}
    User = {u1}
    Conn = {c1, c2}
    Worker = {}
    AtFirst = {c1}
    Msg = {}
    Actor <- MCActor
    HomeOf <- MCHomeOf
    To <- MCTo
    MaxEpoch = 2
    BeatNodes = {}
    CrashNodes = {n1}
    ResetNodes = {}
    Mistypers = {}
    QueueMayFill = FALSE

PROPERTIES
    StaleReclaimed

CHECK_DEADLOCK FALSE
