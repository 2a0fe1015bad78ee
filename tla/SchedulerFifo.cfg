CONSTANTS
    Task = {1, 2, 3}
    Address = {a1, a2, a3}
    Capability = "FifoQueueing"
    MaxRunningTaskCount = 2
SYMMETRY AddressSymmetry
SPECIFICATION Spec
INVARIANTS
    TypeOK
    NoConflictingTasksUnblocked
    CountersMatchQueues
    NoPanic
    WaitersHoldInOrder
    SomeTaskCanRun
    ConflictsRunInArrivalOrder
PROPERTIES
    ExecutionIsSerial
