------------------------ MODULE MCGuardStatements ------------------------
(***************************************************************************)
(* GuardStatements for TLC.  c1 and c2 take the statements in opposite     *)
(* orders, c3 takes only the second one with a connection of its own.      *)
(***************************************************************************)
EXTENDS GuardStatements

CONSTANTS c1, c2, c3, k1, k2, s1, s2

MCUsers == {c1, c2, c3}
MCConnections == {k1, k2}
MCStatements == {s1, s2}
MCStatementsOf ==
    [c \in MCUsers |->
        CASE c = c1 -> <<s1, s2>> [] c = c2 -> <<s2, s1>> [] c = c3 -> <<s2>>]

OneConnection == [c \in MCUsers |-> IF c = c3 THEN k2 ELSE k1]
TwoConnections == [c \in MCUsers |-> IF c = c1 THEN k1 ELSE k2]
=============================================================================
