SPECIFICATION FairClockSpec
CONSTANTS
    Ids = {a, b}
    Timeouts = {3, 4}
    MaxTime = 4
    Resolution = 2
    MaxTicks = 1
    MaxDelay = 1
    MaxLate = 1
CHECK_DEADLOCK FALSE
INVARIANTS
    WheelMatchesEvents
    ClockInvariant
PROPERTIES
    ImplementsTimers
    EveryEventExpires
