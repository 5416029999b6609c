CONSTANTS
    MaxJobs = 2
    MaxTime = 2
    Workers = {w1}
    Keys = {k1, k2}
    Requests = {r1}
    MaxOutstanding = 2
    QueueTimeout = 2
    Retention = 2
    ClaimLease = 2
    BatchLimit = 2
    Null = Null
SPECIFICATION PgSpec
SYMMETRY KeysAlike
CHECK_DEADLOCK FALSE
INVARIANTS
    LifecycleCheck
    OwnedExactlyWhileProcessing
    NoOvertaking
    RowCountsAgree
    NoLockCycle
    WaitsForRowsOnly
PROPERTIES
    ImplementsContract
