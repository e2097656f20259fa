SPECIFICATION FairSpec
CONSTANTS
    Readers = {r1}
    Modes = {"subgroups", "stream", "datagrams"}
    Positions <- Arrivals
    Sizes = {1}
    ChunkSizes = {1}
    MaxEntries = 2
    MaxObjects = 2
INVARIANTS NoGaps CompleteOrError EndComesLast
PROPERTIES ForwardOnly EndIsHeard
CHECK_DEADLOCK FALSE
