SPECIFICATION Spec
CONSTANTS
    Collected <- Lists
    NegativePids <- Negatives
    MaxProcesses = 2
    MaxMessages = 3
    MaxChunk = 12
    MaxConnections = 2
    Unreadable = Unreadable
INVARIANT FramesIntact
INVARIANT ShownAsCollected
CHECK_DEADLOCK FALSE
