SPECIFICATION Spec
CONSTANTS
    None = None
    RefreshInterval = 1
    CacheSeconds = 2
    MaxClock = 5
    MaxBack = 2
INVARIANTS
    StatusOkMeansFresh
