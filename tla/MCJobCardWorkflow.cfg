SPECIFICATION Spec
CONSTANTS
    Requests = {r1, r2}
    r1 = r1
    r2 = r2
    LastStage = 2
    Siblings <- MCSiblings
    Colour <- MCColour
    NoColour = NoColour
    blue = blue
    Rejoining = {finalCheck}
    StockSteps = {requisition}
    requisition = requisition
    qaCheck = qaCheck
    qaReview = qaReview
    repairs = repairs
    finalCheck = finalCheck
    QaCheck = qaCheck
    QaReview = qaReview
    Repairs = repairs
    certs = certs
    BatchCerts = {certs}
    Downstream <- MCDownstream
    NoStep = NoStep
SYMMETRY MCSymmetry
INVARIANTS
    TypeOK
    PassedIsApproved
    StageGate
    BranchOrder
