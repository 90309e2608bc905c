CONSTANTS
    Dicts <- TheDicts
    NumBytes = 4
    MaxIdx = 8
    MaxCount = 3
    WordLen = 3
    ContentTypes <- TheTypes
    Unknown = "unknown"
    MaxLatency = 2
    StaticDynamicThreshold = 1
    WordBits = 3
    CodeBits = 2
    Exported <- TheExported
    Configs <- TheConfigs
    Responses <- TheResponses
    MaxResponses = 2
    MaxPayload = 3
SPECIFICATION MCSpec
INVARIANTS
    IndicesAreWords
    RoundTrip
    PayloadComesBack
    DamageIsBounded
    HuffmanComesBack
    HuffmanIsOptimal
    SummaryTells
    FilesTellPayload
PROPERTIES
    LZWSpec
CHECK_DEADLOCK FALSE
