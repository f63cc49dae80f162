SPECIFICATION Spec
CONSTANTS
    t1 = t1
    t2 = t2
    e1 = e1
    e2 = e2
    Tabs = {t1, t2}
    Edits = {e1, e2}
    Kinds <- AllKinds
    MaxCalls = 3
    MaxVersion = 4
    MaxFaults = 1
    None = None
SYMMETRY TabSymmetry
INVARIANTS
    TypeOK
    ViewIsTrue
    MemoryIsFile
PROPERTIES
    NoLostUpdate
CHECK_DEADLOCK FALSE
