SPECIFICATION Spec
CONSTANTS
    None = None
    Threads = {Ann, Bob, Eve}
    MaxJobs = 2
INVARIANTS
    KeepsOrder
    OnlyLatecomersWait
