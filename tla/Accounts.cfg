CONSTANTS
    Sessions = {s1, s2}
    Names = {"admin", "user1", "user2"}
    Passwords = {"admin", "user1"}
    MaxRequests = 4
SPECIFICATION FairSpec
INVARIANTS
    TypeOK
    InsertNeverConflicts
    AdminAvailable
    IdentityBacked
    GrantedOnce
PROPERTIES
    AccountsPermanent
    RequestsAreAnswered
CHECK_DEADLOCK FALSE
