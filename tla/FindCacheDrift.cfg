SPECIFICATION SerialSpec
CONSTANTS
    p1 = p1
    p2 = p2
    Products = {p1, p2}
    Dates <- MCDates
    Amounts <- MCAmounts
    Costs = {1}
    Orders <- MCOrders
    Workers = {w1}
    MaxBatches = 2
    MaxSessions = 2
INVARIANTS
    CacheMatchesFifo
CHECK_DEADLOCK FALSE
