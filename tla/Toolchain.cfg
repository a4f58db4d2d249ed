SPECIFICATION ToolSpec
CONSTANTS
    Scenarios <- AllScenarios
    Sources <- AllSources
    Blank <- BlankMachine
    PassLimit = 8
    MaxExpansionDepth = 3
    MaxRepetitions = 65
INVARIANTS
    Transparent
    HandlersDoNotNest
    DecimalAdjusts
    BlockMoves
    RoundTrip
    SettledIsFixpoint
    AssembledAsWritten
    SourceTold
    BreakpointsLand
PROPERTIES
    FlowTrue
    ArithmeticTrue
CHECK_DEADLOCK FALSE
