SPECIFICATION Spec
CONSTANTS
    Opening = 2
    Allowed = 2
    Quantities <- MCQuantities
    Workers = {w1, w2}
    MaxAllocations = 2
    MaxMovements = 3
SYMMETRY MCSymmetry
INVARIANTS
    TypeOK
    TrailMatchesStatus
    AllowanceHeld
PROPERTIES
    ChangesAreRecorded
CHECK_DEADLOCK FALSE
