SPECIFICATION Spec
CONSTANTS
    None = None
    f1 = f1
    f2 = f2
    f3 = f3
    f4 = f4
    c1 = c1
    Releases <- MCReleases
    Lists <- MCLists
    MaxChanges = 0
INVARIANTS
    FlashedWasConfirmed
CHECK_DEADLOCK FALSE
