SPECIFICATION Spec

CONSTANTS
    Configs = {c1}
    Workers = {w1, w2}
    Owner = o
    MaxChanges = 2
    MaxRequests = 1
    MaxFaults = 2
    None = None

INVARIANTS
    QuietMeansSaved

PROPERTIES
    ImplementsSwitchboard
    NewerIsKept

CHECK_DEADLOCK FALSE
