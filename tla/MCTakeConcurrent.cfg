SPECIFICATION Spec
CONSTANTS
    Products = {p1, p2}
    MaxOnHand = 1
    Workers = {w1, w2}
    EarlierTakes = TRUE
    MaxTakes = 1
    MaxLines = 4
SYMMETRY MCSymmetry
INVARIANTS
    TypeOK
    StagesInOrder
    OneLinePerProduct
