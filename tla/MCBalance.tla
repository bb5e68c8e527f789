----------------------------- MODULE MCBalance -----------------------------
(***************************************************************************)
(* Balance for TLC: either resources come and go, or strategies by range   *)
(* contain each other.                                                     *)
(***************************************************************************)
EXTENDS Balance

MCIds == -1 .. 1
MCLimits == {[adds |-> 3, ranges |-> 0, changes |-> 2],
             [adds |-> 0, ranges |-> 2, changes |-> 0]}

(* A fourth resource is the first one that leaves the iterators as they are. *)
MCFourLimits == {[adds |-> 4, ranges |-> 0, changes |-> 1]}
=============================================================================
