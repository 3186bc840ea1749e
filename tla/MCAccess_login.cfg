SPECIFICATION Spec
CONSTANTS
    None = None
    Blank = Blank
    s = s
    p1 = p1
    p2 = p2
    Passwords <- MCPasswords
    Settings <- MCSettings
    Clients = {c1, c2}
    Tokens = {t1, t2}
    MaxFailures = 2
    LockoutSeconds = 2
    SessionSeconds = 2
    MaxTracked = 2
    MaxClock = 3
SYMMETRY
    Symmetry
INVARIANTS
    TypeOK
    NeverWithoutPassword
    PasswordCanBeFound
    SavedPasswordStays
    SessionIffGranted
    WrongPasswordsPerMinute
    LockoutIsEarned
    RetryAfterIsEnough
CHECK_DEADLOCK FALSE
