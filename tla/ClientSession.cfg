CONSTANTS
    alice = alice
    bob = bob
    Names <- AllNames
    Unreadable <- AwkwardNames
    MaxInFlight = 3
SPECIFICATION Spec
SYMMETRY UserSymmetry
INVARIANTS
    TypeOK
    TabBacked
    Agreement
