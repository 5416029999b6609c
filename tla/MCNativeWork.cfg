CONSTANTS
    Executions = {e1, e2}
    MaxPermits = 1
SPECIFICATION Spec
CHECK_DEADLOCK FALSE
INVARIANTS
    CleanupMeansReleased
    NativeWithinPermits
    UnloadedWhenIdle
PROPERTIES
    CancellationFinishes
