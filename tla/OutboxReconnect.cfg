CONSTANTS
    MaxSnapshots = 2
    MaxConnections = 3
SPECIFICATION Spec
INVARIANTS
    TypeOK
    NoSnapshotLost
    SettledInOrder
    SentInOrder
PROPERTIES
    ImplementsDelivery
CHECK_DEADLOCK FALSE
