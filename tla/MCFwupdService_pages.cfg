SPECIFICATION Safety
CONSTANTS
    Requests = {r1, r2}
    Runner = Runner
    None = None
    CacheSeconds = 1
    MaxClock = 1
INVARIANT
    FlashPagesNeverWaitForFlash
