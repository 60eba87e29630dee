SPECIFICATION FairSpec

CONSTANTS
    None = None
    Loop = loop
    Thread = {loop, t1, t2}
    c1 = c1  c2 = c2
    Conn = {c1, c2}
    Msg = {1, 2, 3, 4, 5}
    ToFirst = {1, 2, 3}
    DestOf <- MCDestOf
    Earlier <- MCEarlier
    Limit = 2

INVARIANTS
    TypeOK
    OneDrain
    BacklogBounded

PROPERTIES
    TakenSettles
    KeepsPromise

CHECK_DEADLOCK FALSE
