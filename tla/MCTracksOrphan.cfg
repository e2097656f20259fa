SPECIFICATION Spec
CONSTANTS
    Names = {n1}
    Subs = {s1, s2}
    NoOne = NoOne
    MaxTracks = 3
INVARIANT
    DropLeavesNoRequest
CHECK_DEADLOCK FALSE
