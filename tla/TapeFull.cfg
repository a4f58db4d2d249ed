\* Six tapes, cut short anywhere, wound and stopped anywhere, or copied by a
\* recorder whose buffer is full where a block begins.
SPECIFICATION CassetteSpec
CONSTANTS
    Timing <- MCTiming
    ControlLimit = 14
    Pulses <- MCPulses
    Lengths <- MCLengths
    Tolerance = 30
    MinPilot = 6
    ByteRoom = 5
    BlockRoom = 2
    Shelf <- MCShelf
    Faulty <- MCFaulty
    MaxPlayed = 400
    MaxWound = 3
    MaxVisits = 60
    MaxFaults = 1
CHECK_DEADLOCK FALSE
INVARIANT DroppedMeansLost
