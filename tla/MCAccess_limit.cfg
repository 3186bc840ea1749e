SPECIFICATION Spec
CONSTANTS
    None = None
    Blank = Blank
    s = s
    p1 = p1
    p2 = p2
    Passwords = {}
    Settings = {s}
    Clients = {c1, c2, c3}
    Tokens = {t1}
    MaxFailures = 2
    LockoutSeconds = 2
    SessionSeconds = 2
    MaxTracked = 2
    MaxClock = 3
INVARIANT
    FailuresWithinLimit
CHECK_DEADLOCK FALSE
