SPECIFICATION SerialSpec
CONSTANTS
    p1 = p1
    n1 = n1
    n2 = n2
    i1 = i1
    i2 = i2
    Products = {p1}
    Dates <- MCDates
    Amounts = {2}
    Costs = {1, 2}
    Orders <- MCOneOrder
    Workers = {w1}
    MaxBatches = 3
    MaxSessions = 1
    Notes = {n1, n2}
    Invoices = {i1, i2}
    NoNote = NoNote
    Orphans = {i1}
    Unclear = {i2}
    NoteLine <- MCNoteLine
    InvoiceLine <- MCInvoiceLine
    ProvisionalCost = 1
    LegacyDate = 1
    Watched = {p1, n1, n2, i1, i2}
INVARIANTS
    CacheMatchesFifo
    ReceivedOnce
    PricedIsReceived
    OnlyVoidingWritesOff
CHECK_DEADLOCK FALSE
