CONSTANTS
    Pushers = {u1, u2}
    Poppers = {o1, o2}
    NoWaiter = NoWaiter
    MaxItems = 3
    Layouts <- MCLayouts
SPECIFICATION FairSpec
INVARIANTS
    NoMissedWakeup
    AckMeansPopped
PROPERTIES
    IsClosableFifo
    ClosedPopReturns
CHECK_DEADLOCK FALSE
