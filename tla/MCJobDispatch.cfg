CONSTANTS
    MaxJobs = 2
    Reconcilers = {r1, r2}
    BatchLimit = 2
    MaxCopies = 1
    MaxFaults = 1
    Nobody = Nobody
    Orphan = Orphan
SPECIFICATION Spec
INVARIANT PutOffOnlyIfSent
PROPERTY QueuedJobLeaves
