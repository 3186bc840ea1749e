SPECIFICATION Safety
CONSTANTS
    Faults = {"undecodable"}
    PipeSize = 2
    MaxLines = 4
    TailSize = 2
INVARIANT
    ProcessEndsFirst
CHECK_DEADLOCK FALSE
