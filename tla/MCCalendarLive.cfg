SPECIFICATION FairSpec
CONSTANTS
    None = None
    Slots = {s1, s2}
    Requests = {s1, s2}
    Threads = {t1, t2}
    Keys = {k1}
    TTL = 2
    MaxHolds = 3
    MaxTime = 4
PROPERTIES
    HeldSlotComesBack
