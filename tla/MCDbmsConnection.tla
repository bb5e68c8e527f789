-------------------------- MODULE MCDbmsConnection --------------------------
(***************************************************************************)
(* DbmsConnection for TLC: the drivers and the hazards of each             *)
(* configuration.  Nothing goes wrong with a plain driver.                 *)
(***************************************************************************)
EXTENDS DbmsConnection, TLC

Queue == [transactions |-> FALSE, breaks |-> FALSE, losses |-> FALSE,
          busyCommits |-> FALSE, explicitCommits |-> FALSE, maxPending |-> 0]
Sqlite == [Queue EXCEPT !.transactions = TRUE]

MCSettings == {[Queue EXCEPT !.breaks = TRUE, !.explicitCommits = TRUE, !.maxPending = 2],
               [Sqlite EXCEPT !.losses = TRUE, !.explicitCommits = TRUE]}

(* What only goes wrong in a transaction of the driver. *)
MCTransactions == {[Sqlite EXCEPT !.maxPending = 2], [Sqlite EXCEPT !.busyCommits = TRUE]}

Symmetry == Permutations(Clients)
=============================================================================
