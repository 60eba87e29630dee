SPECIFICATION Spec

CONSTANTS
    None = None
    n1 = n1  n2 = n2
    Node = {n1, n2}
    User = {u1}
    Conn = {c1, c2, c3}
    Worker = {}
    AtFirst = {c1, c2}
    Msg = {}
    Actor <- MCActor
    HomeOf <- MCHomeOf
    To <- MCTo
    MaxEpoch = 1
    BeatNodes = {}
    CrashNodes = {}
    ResetNodes = {}
    Mistypers = {c3}
    QueueMayFill = FALSE

SYMMETRY Symmetry

INVARIANTS
    TypeOK
    TableTruthful
    SessionHeldWhileLoggedIn

CHECK_DEADLOCK FALSE
