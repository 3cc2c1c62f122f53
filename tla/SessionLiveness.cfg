CONSTANTS
    s1 = s1
    s2 = s2
    s3 = s3
    Sessions = {s1, s2}
    LineBudget <- Mixed
SPECIFICATION FairSpec
PROPERTIES
    BroadcastDelivers
    StoppedIsReleased
CHECK_DEADLOCK FALSE
