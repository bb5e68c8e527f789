SPECIFICATION PacedSpec
CONSTANTS
    MaxQueuedTicks = 2
    usResolution = 4
    Delays <- UpToResolution
    Word = 64
    MaxRounds = 8
CHECK_DEADLOCK FALSE
INVARIANTS
    PacingInvariant
PROPERTIES
    TicksAreDrained
    StopReturnsUnlessLost
