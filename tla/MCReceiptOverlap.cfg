SPECIFICATION BridgeSpec
CONSTANTS
    p1 = p1
    n1 = n1
    n2 = n2
    i1 = i1
    i2 = i2
    Products = {p1}
    Dates <- MCDates
    Amounts = {2}
    Costs = {1, 2}
    Orders <- MCOneOrder
    Workers = {w1, w2}
    MaxBatches = 2
    MaxSessions = 1
    Notes = {n1}
    Invoices = {i1}
    NoNote = NoNote
    Orphans = {}
    Unclear = {}
    NoteLine <- MCNoteLine
    InvoiceLine <- MCInvoiceLine
    ProvisionalCost = 1
    LegacyDate = 1
    Watched = {}
SYMMETRY MCSymmetry
INVARIANTS
    BridgeTypeOK
    CostsFollowInvoice
CHECK_DEADLOCK FALSE
