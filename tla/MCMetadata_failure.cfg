SPECIFICATION Spec
CONSTANTS
    None = None
    RefreshInterval = 2
    CacheSeconds = 0
    MaxClock = 4
    MaxBack = 0
INVARIANTS
    RefreshFailureShows
