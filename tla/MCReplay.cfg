CONSTANTS
    Clients <- MCClients
    Recording <- MCRecording
    Size <- MCSize
    MayMiss <- MCMayMiss
    Options <- MCOptions
    Killable <- MCKillable
    MaxDelays = 1

SPECIFICATION FairSpec
CHECK_DEADLOCK FALSE

INVARIANTS
    ChecksumsMatch
    NeverEarly

PROPERTIES
    ImplementsFileService
    LateOnlyByWork
    EveryoneServed
