SPECIFICATION SeededSpec
CONSTANTS
    Collections = {c1, c2}
    MaxId = 4
    Workers = {w1, w2, w3}
    MaxRetries = 1
SYMMETRY MCSymmetry
INVARIANTS
    NoCollisions
CHECK_DEADLOCK FALSE
