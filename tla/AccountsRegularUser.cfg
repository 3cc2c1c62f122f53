CONSTANTS
    Sessions = {s1, s2}
    Names = {"admin", "user1"}
    Passwords = {"admin", "user1"}
    MaxRequests = 4
SPECIFICATION Spec
INVARIANTS
    RegularUserLogin
CHECK_DEADLOCK FALSE
