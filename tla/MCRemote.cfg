SPECIFICATION FairSpec
CONSTANTS
    Calls = {p1, p2}
    Relay = relay
    Tracks = {t1}
    NoTrack = NoTrack
    MaxConns = 2
    MaxSlots = 4
    MaxEntries = 4
    MaxSubs = 2
INVARIANTS
    OneConnection
    OneSubscription
    ShutdownLeavesNone
PROPERTIES
    CallReturns
    ShutdownIsHeard
CHECK_DEADLOCK FALSE
