SPECIFICATION FairSpec
CONSTANTS
    Capacity = 4
    Uses <- MCUses
    MaxPush = 7
    MaxPending = 6
PROPERTY ImplementsStream
PROPERTY ConsumerCatchesUp
CHECK_DEADLOCK FALSE
