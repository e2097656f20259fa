SPECIFICATION FairSpec
CONSTANTS
    MaxSubscribes = 1
    MaxStreams = 2
INVARIANTS
    AliasesAreLive
    RejectedServesNothing
    AnswerPrecedesStreams
PROPERTIES
    EndIsHeard
    UnsubscribeEndsServing
CHECK_DEADLOCK FALSE
