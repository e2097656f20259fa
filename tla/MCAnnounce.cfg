SPECIFICATION FairSpec
CONSTANTS
    Namespaces = {n1}
    MaxAnnounces = 3
INVARIANTS
    AnswerIsOwn
    OnlyRejectedLinger
PROPERTIES
    DuplicateHasACause
    AnnounceIsAnswered
    UnannounceIsHeard
CHECK_DEADLOCK FALSE
