SPECIFICATION Spec
CONSTANTS
    r1 = r1
    m1 = m1
    b1 = b1
    b2 = b2
    Refresh <- OneRefresh
    Move <- OneMove
    Batch <- TwoBatches
    Collections <- TwoThenOne
    MaxFaults = 2
INVARIANTS
    PendingIsHeld
    OneTaskPerJob
    BatchIsSequential
    CompleteBatchIsComplete
    OutcomeIsRecorded
PROPERTIES
    ImplementsJobBoard
    SettlesOnce
    JobsSettle
    BusyClears
CHECK_DEADLOCK FALSE
