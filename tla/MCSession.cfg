SPECIFICATION FairSpec
CONSTANTS
    VarIntMax = 2147483647
    MaxFields = 3
    MaxValueSize = 4
    MaxReason = 4
    MaxUri = 4
    U16Max = 48
    MaxPath = 8
    Draft14 = 1073741838
    ReadSizes = {1, 100}
    Scenarios <- MCScenarios
INVARIANTS
    DeliveredAsSent
    NeverWaitsPastTheItem
    SetupAgrees
    EndsWithCause
PROPERTIES
    IsDelivery
    EventuallyHandled
CHECK_DEADLOCK FALSE
