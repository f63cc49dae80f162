SPECIFICATION Spec
CONSTANTS
    w1 = w1
    w2 = w2
    t1 = t1
    t2 = t2
    Workers = {w1, w2}
    Tabs = {t1}
    HistorySize = 2
    MaxEvents = 3
    MaxFaults = 2
    None = None
    Undefined = Undefined
INVARIANTS
    TimeOrder
    NothingPassedOver
PROPERTIES
    Delivered
CHECK_DEADLOCK FALSE
