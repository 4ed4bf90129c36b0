SPECIFICATION Spec
CONSTANTS
    Requests = {r1, r2}
    Lines = {l1}
    NoLine = NoLine
    Decisions = {"approved", "rejected"}
    MaxQuantity = 1
    MaxReviews = 2
SYMMETRY MCSymmetry
INVARIANTS
    TypeOK
    TotalIsSum
    StatusAgrees
PROPERTIES
    ApprovedIsFrozen
    DecisionsStand
