CONSTANTS
    Processes = {p1, p2}
    MaxSnapshots = 2
SPECIFICATION Spec
SYMMETRY ProcessSymmetry
INVARIANTS
    TypeOK
    SettledInOrder
PROPERTIES
    ImplementsDelivery
