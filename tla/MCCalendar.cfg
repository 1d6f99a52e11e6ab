SPECIFICATION Spec
CONSTANTS
    None = None
    Slots = {s1, s2}
    Requests = {s1, s2, Unknown}
    Threads = {t1, t2}
    Keys = {k1, k2}
    TTL = 2
    MaxHolds = 3
    MaxTime = 5
SYMMETRY MCSymmetry
INVARIANTS
    TypeOK
    NoDoubleBooking
    HoldExcludes
    BookedFromHold
    OneKeyPerBooking
    ViewIsActionable
PROPERTIES
    OnlyTheHolderBooks
    BookingsForever
    RetryReturnsSameBooking
    OfferedIsGranted
    ReaperIsInvisible
    KeepsPromise
