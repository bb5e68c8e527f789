SPECIFICATION GuardsSpec
CONSTANTS
    c1 = c1
    c2 = c2
    c3 = c3
    k1 = k1
    k2 = k2
    s1 = s1
    s2 = s2
    NoUser = NoUser
    Users <- MCUsers
    Connections <- MCConnections
    Statements <- MCStatements
    ConnectionOf <- TwoConnections
    StatementsOf <- MCStatementsOf
CHECK_DEADLOCK FALSE
PROPERTIES
    EveryoneLeaves
