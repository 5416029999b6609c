CONSTANTS
    Workers = {w1, w2}
    Directories = {d1, d2}
    First = w1
    Home = d1
    MaxFaults = 1
    Null = Null
SPECIFICATION MCSpec
CHECK_DEADLOCK FALSE
INVARIANTS
    OneModelPerDirectory
    TwoModelsOnlyAfterLoss
    EndedLeavesNothing
PROPERTIES
    DeadWorkerWithdrawn
    WorkerSettles
