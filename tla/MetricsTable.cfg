CONSTANTS
    Nodes = {n1, n2}
    Retention = 3
    Period = 2
    Ahead = 1
    MaxRows = 3
SPECIFICATION FairSpec
INVARIANTS
    TypeOK
    RecentIsShown
    NeverBack
PROPERTIES
    ExpiredIsPurged
