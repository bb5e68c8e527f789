---------------------------- MODULE Backtracking ----------------------------
(***************************************************************************)
(* coffee::basis::pattern::backtracking: a Solver, which is the root of    *)
(* the tree of TreeNodes it builds, over a problem of its user: what it    *)
(* rejects and accepts.  A node is the sequence of the values on the way   *)
(* to it from the root, which is <<>>.                                     *)
(***************************************************************************)
EXTENDS Naturals, FiniteSets, Sequences, SequencesExt

CONSTANTS
    Verdicts,           \* the problems: functions of Nodes to subsets of {"reject", "accept"}
    Width, MaxDepth,    \* first is 1, and stop comes after Width and at MaxDepth
    MaxApply            \* bound: calls of apply

ASSUME SolverAssumption == Width \in Nat /\ MaxDepth \in Nat

Nodes == UNION {[1 .. n -> 1 .. Width] : n \in 0 .. MaxDepth}

VARIABLES
    verdict,
    successors,    \* m_successors of each node, the values of its children
    frames,        \* the calls of apply and exploreSolutions, with their node, ii and hasSolution
    result,        \* what the last apply returned
    applied,
    leaked         \* the nodes that were cleared, and whose shared_ptr are not all gone

solverVars == <<verdict, successors, frames, result, applied, leaked>>

SolverInit ==
    /\ verdict \in Verdicts
    /\ successors = [n \in Nodes |-> <<>>]
    /\ frames = <<>> /\ result = FALSE /\ applied = 0 /\ leaked = {}

Tree == {n \in Nodes : \A k \in 1 .. Len(n) : n[k] \in Range(successors[SubSeq(n, 1, k - 1)])}
Call(n) == [node |-> n, ii |-> 1, hasSolution |-> FALSE]
Top == Last(frames)
Candidate == Append(Top.node, Top.ii)
Stop == Top.ii > Width \/ Len(Top.node) = MaxDepth
TopAfter(found) == [Top EXCEPT !.ii = @ + 1, !.hasSolution = @ \/ found]

(* A node of the tree has a shared_ptr to its predecessor, and it to the    *)
(* node; only those at the top have none.                                   *)
Apply ==
    /\ frames = <<>> /\ applied < MaxApply
    /\ frames' = <<Call(<<>>)>>
    /\ successors' = [n \in Nodes |-> <<>>]
    /\ leaked' = leaked \cup (Tree \ {<<>>})
    /\ applied' = applied + 1
    /\ UNCHANGED <<verdict, result>>

Rejected == "reject" \in verdict[Candidate]
Accepted == ~Rejected /\ "accept" \in verdict[Candidate]

Reject ==
    /\ frames # <<>> /\ ~Stop /\ Top.node # <<>> /\ Rejected
    /\ frames' = Append(Front(frames), TopAfter(FALSE))
    /\ UNCHANGED <<verdict, successors, result, applied, leaked>>

Accept ==
    /\ frames # <<>> /\ ~Stop /\ Top.node # <<>> /\ Accepted
    /\ successors' = [successors EXCEPT ![Top.node] = Append(@, Top.ii)]
    /\ frames' = Append(Front(frames), TopAfter(TRUE))
    /\ UNCHANGED <<verdict, result, applied, leaked>>

(* The values at the top are neither rejected nor accepted. *)
ExploreSolutions ==
    /\ frames # <<>> /\ ~Stop /\ (Top.node # <<>> => ~Rejected /\ ~Accepted)
    /\ frames' = Append(Append(Front(frames), TopAfter(FALSE)), Call(Candidate))
    /\ UNCHANGED <<verdict, successors, result, applied, leaked>>

AddedAnyway == TRUE                                            \* mutant
IsAdded == Top.hasSolution
Return ==
    /\ Len(frames) > 1 /\ Stop
    /\ LET caller == Front(frames)
           node == Top.node
       IN IF IsAdded
          THEN /\ successors' = [successors EXCEPT ![Front(node)] = Append(@, Last(node))]
               /\ frames' = [caller EXCEPT ![Len(caller)].hasSolution = TRUE]
          ELSE frames' = caller /\ UNCHANGED successors
    /\ UNCHANGED <<verdict, result, applied, leaked>>

ApplyReturns ==
    /\ Len(frames) = 1 /\ Stop
    /\ frames' = <<>> /\ result' = (successors[<<>>] # <<>>)
    /\ UNCHANGED <<verdict, successors, applied, leaked>>

SolverNext == Apply \/ Reject \/ Accept \/ ExploreSolutions \/ Return \/ ApplyReturns
SolverSpec == SolverInit /\ [][SolverNext]_solverVars
-----------------------------------------------------------------------------
Leaves == {n \in Tree : successors[n] = <<>>}
CountSolutions == Cardinality(Leaves)     \* countSolutions of the root
Solutions ==
    {n \in Nodes :
        /\ Len(n) > 1 /\ "accept" \in verdict[n]
        /\ \A k \in 2 .. Len(n) : "reject" \notin verdict[SubSeq(n, 1, k)]
        /\ \A k \in 2 .. Len(n) - 1 : "accept" \notin verdict[SubSeq(n, 1, k)]}

(* apply returns with a tree whose leaves are the solutions, all of them,   *)
(* each once and in the order of the candidates, without dead ends.         *)
SolutionsAreFound ==
    (frames = <<>> /\ applied > 0) =>
        /\ Leaves \ {<<>>} = Solutions
        /\ result = (Solutions # {})
        /\ \A n \in Tree : \A i, j \in DOMAIN successors[n] : i < j => successors[n][i] < successors[n][j]

(* countSolutions: the number of found solutions. *)
CountIsOfSolutions ==
    (frames = <<>> /\ applied > 0) => CountSolutions = Cardinality(Solutions)

(* apply: the solutions will be erased when the solver goes out of scope;   *)
(* it clears them too when it is called again.                              *)
SolutionsAreErased == leaked = {}
=============================================================================
