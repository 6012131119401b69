SPECIFICATION Spec
CONSTANTS
    c1 = c1
    c2 = c2
    api = api
    Callers <- MCCallers
    Processes = {api}
    ProcessOf <- MCProcessOf
    TTL = 2
    MaxRead = 1
    Window = 2
    Threshold = 2
    Cooldown = 2
    MaxTime = 4
    MaxFailures = 2
    Nobody = Nobody
PROPERTIES
    HaltIsTimely
    BreakerStands
SYMMETRY MCSymmetry
CHECK_DEADLOCK FALSE
