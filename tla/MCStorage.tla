------------------------------ MODULE MCStorage ------------------------------
(***************************************************************************)
(* Storage for TLC: two clients share a connection or have one each.       *)
(***************************************************************************)
EXTENDS Storage

CONSTANTS c1, c2, x1, x2

MCOneConnection == {[c \in Clients |-> x1]}
MCTwoConnections == {[c \in Clients |-> IF c = c1 THEN x1 ELSE x2]}
MCBoth == MCOneConnection \union MCTwoConnections

Symmetry == Permutations(Keys)
=============================================================================
