SPECIFICATION Spec
CONSTANTS
    None = None
    t1 = t1
    t2 = t2
    Tabs <- TwoTabs
    MaxJobs = 2
    MaxRestarts = 0
PROPERTIES
    DismissedWasShown
