CONSTANTS
    MaxStarts = 3
    MaxCommands = 3
SPECIFICATION FairSpec
INVARIANTS
    TypeOK
    ChainsAddUp
    StoppedIsQuiet
PROPERTIES
    StopReturns
    ReportsKeepComing
CHECK_DEADLOCK FALSE
