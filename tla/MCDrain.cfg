CONSTANTS
    Dispatches = {d1, d2}
    MaxActiveClaims = 2
SPECIFICATION Spec
CHECK_DEADLOCK FALSE
INVARIANT HeartbeatsWhileDraining
