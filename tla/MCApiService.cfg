CONSTANTS
    Requests = {r1, r2, r3}
    Probes = {p1}
SPECIFICATION Spec
CHECK_DEADLOCK FALSE
INVARIANTS
    FailFast
PROPERTY RequestSettles
