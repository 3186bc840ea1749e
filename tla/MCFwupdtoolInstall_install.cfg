SPECIFICATION Spec
CONSTANTS
    Faults = {"undecodable", "no_thread", "helper"}
    PipeSize = 2
    MaxLines = 4
    TailSize = 2
INVARIANTS
    TypeOK
    OkMeansComplete
    KillIsReported
    NamedOutcomeMeansEnded
PROPERTIES
    ImplementsInstallCall
    InstallReturns
CHECK_DEADLOCK FALSE
