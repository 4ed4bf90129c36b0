SPECIFICATION Spec
CONSTANTS
    Tasks = {t1, t2, t3}
    t1 = t1
    t2 = t2
    t3 = t3
    MaxConcurrent = 2
    MaxFaults = 2
    Retriers = {t1}
INVARIANTS
    TypeOK
    SlotsUsed
    NoStrayBrowser
    NoDeadPromise
PROPERTIES
    EveryTaskSettles
CHECK_DEADLOCK FALSE
