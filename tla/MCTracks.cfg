SPECIFICATION FairSpec
CONSTANTS
    Names = {n1}
    Subs = {s1, s2}
    NoOne = NoOne
    MaxTracks = 2
INVARIANTS
    NoDuplicateRequest
PROPERTIES
    OnlyStaleIsEvicted
    RequestIsAnswered
CHECK_DEADLOCK FALSE
