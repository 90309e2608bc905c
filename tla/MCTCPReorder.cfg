SPECIFICATION CaptureSpec
CONSTANTS
    Conns <- MCConns
    Clock <- MCClock
    ISN <- MCPlainISN
    Cuts <- MCPlainCuts
    SeqSpace = 16
    MaxLen = 2
    BufSize = 2
    PurgeEvery = 64
    Timeout = 1
    MaxCopies = 1
    MaxPackets = 8
INVARIANT CapturedIsDelivered
CHECK_DEADLOCK FALSE
