SPECIFICATION ExchangeSpec
CONSTANTS
    NoHeader = NoHeader
    NoLength = NoLength
    Headers <- MCHeaders
    Exchanges <- MCPipelinedHead
    Chunks <- MCChunks
INVARIANT HeadHasNoPayload
CHECK_DEADLOCK FALSE
