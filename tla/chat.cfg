SPECIFICATION GroupSpec

CONSTANTS
    None = None
    n1 = n1  n2 = n2
    Node = {n1, n2}
    User = {u1, u2}
    Conn = {c2}
    Worker = {w1, w2}
    GroupWorker = {g1, g2}
    AtFirst = {g1, w1}
    Msg = {m1}
    Actor <- MCActor
    HomeOf <- MCHomeOf
    To <- MCTo
    Members <- MCMembers
    MaxEpoch = 1
    BeatNodes = {}
    CrashNodes = {}
    ResetNodes = {}
    Mistypers = {}
    QueueMayFill = TRUE

INVARIANTS
    GroupTypeOK
    GroupCopyUnique
    NodeUsersCoverSessions
    LiveCopyUnique

PROPERTIES
    GroupConserves
    HotPathConserves

CHECK_DEADLOCK FALSE
