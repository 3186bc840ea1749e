SPECIFICATION Safety
CONSTANTS
    Faults = {}
    PipeSize = 2
    MaxLines = 4
    TailSize = 2
INVARIANT
    TimeoutMeansExceeded
CHECK_DEADLOCK FALSE
