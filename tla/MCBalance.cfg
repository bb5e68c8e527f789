SPECIFICATION Spec
CONSTANTS
    Resources = {r1, r2, r3}
    None = None
    RoundRobins = {roundRobin}
    Indexed = {indexed}
    ByRanges = {byRange1, byRange2}
    Ids <- MCIds
    Word = 16
    Limits <- MCLimits
CHECK_DEADLOCK FALSE
INVARIANTS
    RangesDisjoint
    AvailableIsFound
    InTurn
PROPERTIES
    ApplyEndsUnlessNested
