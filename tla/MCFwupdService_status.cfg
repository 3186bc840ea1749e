SPECIFICATION Safety
CONSTANTS
    Requests = {r1, r2, r3}
    Runner = Runner
    None = None
    CacheSeconds = 1
    MaxClock = 1
SYMMETRY RequestSymmetry
PROPERTY
    StatusReportsActiveFlash
