CONSTANTS
    Task = {1, 2, 3, 4}
    Address = {a1, a2}
    Capability = "PriorityQueueing"
    MaxRunningTaskCount = 2
SYMMETRY AddressSymmetry
SPECIFICATION Spec
INVARIANTS
    NoConflictingTasksUnblocked
    CountersMatchQueues
    NoPanic
    WaitersHoldInOrder
    SomeTaskCanRun
PROPERTIES
    UnblockedStaysUnblocked
    PriorityReplacesFifo
