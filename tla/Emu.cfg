SPECIFICATION FairSpec
CONSTANTS
    QueueCapacity = 2
    Clients = {TRUE, FALSE}
    MaxSend = 3
    MaxStops = 4
CHECK_DEADLOCK FALSE
INVARIANT NoLostWakeup
INVARIANT ToldOfEachStop
PROPERTY EveryCommandApplied
PROPERTY DropEndsThread
