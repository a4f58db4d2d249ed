SPECIFICATION Spec
CONSTANTS
    MaxEdges = 2
    LineTime = 3
    Lines = 2
    InterruptLength = 2
    AckTime = 2
    Instructions <- MCInstructions
    Matrices = {1}
    Image <- MCImage
    Interval = 4
    MaxT = 13
    MaxWrites = 3
    MaxCommands = 3
CHECK_DEADLOCK FALSE
INVARIANT SoundIsTrue
INVARIANT MicHeardOnce
INVARIANT BorderOnItsLine
PROPERTY RunsInterruptByTheClock
