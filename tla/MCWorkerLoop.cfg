CONSTANT Threads = {t1, t2, t3}
SPECIFICATION Spec
CHECK_DEADLOCK FALSE
INVARIANTS
    NothingCutShort
PROPERTIES
    WarmPayloadReturns
    ShutdownReturns
