SPECIFICATION Spec
CONSTANTS
    Names = {"a", "b"}
    Drivers = {"sqlite", "ldap"}
    MaxConnection = 2
    MaxRows = 2
    MaxCreated = 2
    MaxSessions = 3
    MaxLives = 2
INVARIANTS
    StatementInvariant
    RowsAreFetchedOnce
PROPERTIES
    InitializedMeansConnected
CHECK_DEADLOCK FALSE
