SPECIFICATION Spec
CONSTANTS
    c1 = c1
    c2 = c2
    x1 = x1
    x2 = x2
    Clients = {c1, c2}
    Connections = {x1, x2}
    Nobody = Nobody
    Uses <- MCBoth
    Keys = {k1, k2, k3}
    Values = {o1, o2, o3, o4, o5}
    NoValue = NoValue
    MaxSize = 2
    MaxNode = 4
    MaxCalls = 2
SYMMETRY Symmetry
CHECK_DEADLOCK FALSE
INVARIANTS
    ListMatchesMap
    CachedRowsExist
PROPERTIES
    ImplementsRecentlyUsed
