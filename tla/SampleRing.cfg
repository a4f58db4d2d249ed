SPECIFICATION Spec
CONSTANTS
    Capacity = 2
    Slices = {0, 1, 3}
    MaxOffered = 8
    MaxAsked = 8
INVARIANT SlotsNotShared
INVARIANT EverySampleCounted
PROPERTY ImplementsFifo
CHECK_DEADLOCK FALSE
