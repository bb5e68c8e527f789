SPECIFICATION Spec
CONSTANTS
    Clients = {c1, c2}
    Nobody = Nobody
    MaxWrites = 3
    Settings <- MCSettings
CHECK_DEADLOCK FALSE
INVARIANTS
    GuardsAreAtomic
    ConnectionInvariant
PROPERTIES
    CommitsOwnWritesOnly
    LockReturnsUnlessStuck
