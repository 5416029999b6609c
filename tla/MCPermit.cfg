CONSTANTS
    Executions = {e1, e2}
    MaxPermits = 1
SPECIFICATION Spec
CHECK_DEADLOCK FALSE
INVARIANT PermitsReturned
