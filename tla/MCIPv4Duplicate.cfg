SPECIFICATION CaptureSpec
CONSTANTS
    d1 = d1
    d2 = d2
    d3 = d3
    Uninit = Uninit
    Datagrams <- MCDatagrams
    Ids <- MCIds
    IdOf <- MCIdOf
    Size <- MCSize
    Wire <- MCWire
    Clock <- MCClock
    PurgeAfter = 1
    MaxCopies = 2
INVARIANT AssembledWasReceived
