SPECIFICATION MCSpec
CONSTANTS
    Conns <- MCConns
    Clock <- MCClock
    SeqSpace = 4
    MaxLen = 1
    BufSize = 1
    PurgeEvery = 3
    Timeout = 1
    MaxPackets = 5
INVARIANTS
    TypeOK
    ListenerLifecycle
    OpenAccounting
    NoSegmentLeak
    DirectionFaithful
PROPERTIES
    SilentAfterClose
    OneStreamPerPacket
