SPECIFICATION Spec
CONSTANTS
    Faults = {"helper"}
    PipeSize = 2
    MaxLines = 4
    TailSize = 2
PROPERTY
    KillEndsLoop
CHECK_DEADLOCK FALSE
