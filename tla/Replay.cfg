SPECIFICATION Spec
CONSTANTS
    Prog <- MCProg
    Addr = {0, 1, 2, 3, 4}
    Targets = {0, 3}
    Vector = 3
    AckTime = 7
    Frame = 17
    Bytes = {2}
    Intervals = {9, 22}
    LogCapacity = 3
    Sessions = {TRUE, FALSE}
    MaxCommands = 4
    MaxT = 40
INVARIANT ReplaysUnlessOverdue
CHECK_DEADLOCK FALSE
