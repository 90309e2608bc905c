CONSTANTS
    Clients <- MCClients
    Recording <- MCRecording
    Size <- MCSize
    MayMiss <- MCMayMiss
    Options <- MCOptions
    Killable <- MCNobody
    MaxDelays = 1

SPECIFICATION FairSpec
CHECK_DEADLOCK FALSE

PROPERTY
    ReceivingEnds
