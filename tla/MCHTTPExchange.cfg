SPECIFICATION ExchangeSpec
CONSTANTS
    NoHeader = NoHeader
    NoLength = NoLength
    Headers <- MCHeaders
    Exchanges <- MCSound
    Chunks <- MCChunks
INVARIANTS
    TypeOK
    CorruptedTogether
    DecodedAsSent
    AnswersItsRequest
    GivenUpForAReason
    StatsTellMessages
    CloseFinds
PROPERTIES
    CorruptedIsSilent
    LoopEnds
CHECK_DEADLOCK FALSE
