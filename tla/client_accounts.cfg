SPECIFICATION FairSpec
CONSTANTS
    None = None
    c1 = c1  c2 = c2
    Client = {c1, c2}
    Thread = {c1, c2}
    PoolSize = 2
    Room = 5
    Text <- MCText
    Stored <- MCStored
    MaxUser = 4
    MaxGroup = 2
    MaxAsk <- MCMaxAsk
    MaxChat = 1
    Knows <- MCKnows
INVARIANTS
    TypeOK
    Exclusive
    NoLostWakeup
    AckedIdIsOwn
    ClientAgrees
    ListsOfOneUser
    GroupFounded
PROPERTIES
    LoginSettles
    PlainKept
    GhostsOfDoubleLogins
CHECK_DEADLOCK FALSE
