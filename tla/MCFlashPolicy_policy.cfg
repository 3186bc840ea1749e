SPECIFICATION Spec
CONSTANTS
    None = None
    f1 = f1
    f2 = f2
    f3 = f3
    f4 = f4
    c1 = c1
    Releases <- MCReleases
    Lists <- MCLists
    MaxChanges = 1
INVARIANTS
    ShownOnce
    FlashedIsAllowed
    FlashedIsChosen
CHECK_DEADLOCK FALSE
