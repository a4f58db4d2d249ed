SPECIFICATION Spec2
CONSTANTS
    Addr = {0, 1, 2, 3, 4, 5}
    SP = {0, 1, 2, 3}
    Port = {}
    PortSets = {}
    MaxId = 1
    MaxHits = 1
    MaxIgnore = 1
    Prog <- MCProg
    StackSize = 4
    StackTop = 3
    MaxDepth = 3
INVARIANT StepOverStaysInFrame
INVARIANT StepOutLeavesFrame
INVARIANT NoStaleLanding
INVARIANT BreakpointsStop
