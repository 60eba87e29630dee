SPECIFICATION FairSpec
CONSTANTS
    None = None
    Main = main
    Beat = beat
    w1 = w1  w2 = w2
    Worker = {w1, w2}
    Caller <- MCCaller
    Target <- MCTarget
    Ttl = 2
    Gap = 1
    MaxInst = 2
    LapseBetween = FALSE
    Shards = 2
    Remotes = 1
    MaxChan = 3
    MaxTask <- MCMaxTask
INVARIANTS
    TypeOK
    LeaseKept
    NoImmortalSession
    ChannelKnown
    PrewarmCovers
PROPERTIES
    RegistrationEnds
CHECK_DEADLOCK FALSE
