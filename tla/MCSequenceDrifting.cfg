SPECIFICATION DriftingSpec
CONSTANTS
    Collections = {c1}
    MaxId = 3
    Workers = {w1, w2}
    MaxRetries = 2
SYMMETRY MCWorkerSymmetry
INVARIANTS
    TypeOK
    RetriesSuffice
CHECK_DEADLOCK FALSE
