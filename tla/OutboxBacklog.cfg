CONSTANTS
    MaxSnapshots = 3
    MaxConnections = 1
SPECIFICATION FairSpec
INVARIANTS
    DuplicatesBounded
PROPERTIES
    ExchangeContinues
    BacklogDrains
CHECK_DEADLOCK FALSE
