CONSTANTS
    BaseWindows <- TheWindows
    Openers <- TheOpeners
    MaxSignals = 2
    MaxConnections = 1
SPECIFICATION Spec
INVARIANTS
    CleanExit
    FocusIsThere
PROPERTIES
    SignalEnds
    MutexIsReleased
CHECK_DEADLOCK FALSE
