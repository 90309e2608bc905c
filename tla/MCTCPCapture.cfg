SPECIFICATION CaptureSpec
CONSTANTS
    Conns <- MCConns
    Clock <- MCClock
    ISN <- MCISN
    Cuts <- MCCuts
    SeqSpace = 16
    MaxLen = 2
    BufSize = 2
    PurgeEvery = 64
    Timeout = 1
    MaxCopies = 2
    MaxPackets = 8
INVARIANTS
    GapFree
    OrderlyIsComplete
    FinishedIsClosed
CHECK_DEADLOCK FALSE
