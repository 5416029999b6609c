CONSTANTS
    MaxJobs = 1
    MaxTime = 2
    Workers = {w1}
    Keys = {k1}
    Requests = {r1}
    MaxOutstanding = 1
    QueueTimeout = 1
    Retention = 1
    ClaimLease = 1
    BatchLimit = 1
    Null = Null
SPECIFICATION PgSpec
CHECK_DEADLOCK FALSE
INVARIANT CancellationFindsItsRow
