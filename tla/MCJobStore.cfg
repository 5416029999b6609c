CONSTANTS
    MaxJobs = 3
    MaxTime = 3
    Workers = {w1}
    Keys = {k1, k2, k3}
    Requests = {r1}
    MaxOutstanding = 2
    QueueTimeout = 3
    Retention = 1
    ClaimLease = 2
    BatchLimit = 1
    Null = Null
SPECIFICATION Spec
CHECK_DEADLOCK FALSE
INVARIANTS
    StartedAtMostOnce
    KeyNamesOneJob
PROPERTIES
    PollingNeverGoesBack
