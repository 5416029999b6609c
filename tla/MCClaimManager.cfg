CONSTANTS
    Dispatches = {d1, d2}
    MaxActiveClaims = 1
SPECIFICATION Spec
CHECK_DEADLOCK FALSE
INVARIANTS
    ActiveWithinLimit
    RegistryIsExact
    LostForGood
PROPERTIES
    NothingClaimedAfterStop
    OwnedJobSettles
    CancellationHonoured
    ShutdownCompletes
