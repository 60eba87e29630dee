SPECIFICATION Spec

CONSTANTS
    None = None
    n1 = n1  n2 = n2
    Node = {n1, n2}
    User = {u1}
    Conn = {c1, c2}
    Worker = {}
    AtFirst = {c1, c2}
    Msg = {}
    Actor <- MCActor
    HomeOf <- MCHomeOf
    To <- MCTo
    MaxEpoch = 1
    BeatNodes = {}
    CrashNodes = {}
    ResetNodes = {}
    Mistypers = {}
    QueueMayFill = FALSE

INVARIANTS
    LoggedInIsFound

CHECK_DEADLOCK FALSE
