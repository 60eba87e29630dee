SPECIFICATION Spec

CONSTANTS
    None = None
    n1 = n1  n2 = n2
    Node = {n1, n2}
    User = {u1}
    Conn = {c1, c2}
    Worker = {w1}
    AtFirst = {c1, w1}
    Msg = {m1}
    Actor <- MCActor
    HomeOf <- MCHomeOf
    To <- MCTo
    MaxEpoch = 1
    BeatNodes = {}
    CrashNodes = {}
    ResetNodes = {}
    Mistypers = {}
    QueueMayFill = FALSE

INVARIANTS
    OneNodePerUser

CHECK_DEADLOCK FALSE
