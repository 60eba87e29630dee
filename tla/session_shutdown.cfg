SPECIFICATION Spec

CONSTANTS
    None = None
    n1 = n1  n2 = n2
    Node = {n1, n2}
    User = {u1}
    Conn = {c1}
    Worker = {w1, w2}
    AtFirst = {c1, w1}
    Msg = {m1}
    Actor <- MCActor
    HomeOf <- MCHomeOf
    To <- MCTo
    MaxEpoch = 1
    BeatNodes = {n1}
    CrashNodes = {}
    ResetNodes = {n1}
    Mistypers = {}
    QueueMayFill = FALSE

INVARIANTS
    GoneStaysGone
    LateSessionsInvalid

CHECK_DEADLOCK FALSE
