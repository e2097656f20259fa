SPECIFICATION FairSpec
CONSTANTS
    MaxSubscribes = 1
    MaxStreams = 1
PROPERTY
    AcknowledgedOpens
CHECK_DEADLOCK FALSE
