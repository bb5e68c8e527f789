SPECIFICATION Spec
CONSTANTS
    PrimaryKeys = {p}
    Ids = {1, 2, 3}
    MaxSize = 2
    MaxNode = 4
CHECK_DEADLOCK FALSE
INVARIANTS
    SizeIsBounded
