-------------------------- MODULE GuardStatements --------------------------
(***************************************************************************)
(* coffee::dbms::GuardConnection and GuardStatement: the order in which    *)
(* the clients of a Database lock its connections and its statements, and  *)
(* what a client finds in a statement it shares with others.               *)
(*                                                                         *)
(* A client makes a GuardConnection, then one GuardStatement for each      *)
(* statement it uses, one inside the other, gives the input of a           *)
(* statement its values, executes it and fetches its rows.  The guards go  *)
(* in the opposite order.                                                  *)
(***************************************************************************)
EXTENDS Integers, Sequences

CONSTANTS
    Users, Connections, Statements, NoUser,
    ConnectionOf,    \* the connection each client uses
    StatementsOf     \* the statements each client takes, in its order

ASSUME GuardAssumption ==
    /\ NoUser \notin Users
    /\ ConnectionOf \in [Users -> Connections]
    /\ \A c \in Users : StatementsOf[c] \in Seq(Statements)

VARIABLES
    connectionMutex, statementMutex,       \* owners of the two kinds of m_mutex
    linked,       \* m_countLinkedStatement of the guard of a client
    place,        \* where a client is
    used,         \* what a client has done with a statement
    bound,        \* whose values the input of a statement holds
    rows,         \* whose values the rows of a statement answer
    fetched       \* whose values the rows answered that a client fetched

mutexes == <<connectionMutex, statementMutex>>
data == <<used, bound, rows, fetched>>
guardsVars == <<mutexes, linked, place, data>>

Someone == Users \union {NoUser}
Use == [Users -> [Statements -> {"no", "bound", "executed", "fetched"}]]

GuardsTypeOK ==
    /\ connectionMutex \in [Connections -> Someone]
    /\ statementMutex \in [Statements -> Someone]
    /\ \A c \in Users : linked[c] \in 0 .. Len(StatementsOf[c])
    /\ place \in [Users -> {"outside", "inside", "locking", "leaving", "left"}]
    /\ used \in Use
    /\ bound \in [Statements -> Someone]
    /\ rows \in [Statements -> Someone]
    /\ fetched \in [Users -> [Statements -> Someone]]

GuardsInit ==
    /\ connectionMutex = [k \in Connections |-> NoUser]
    /\ statementMutex = [s \in Statements |-> NoUser]
    /\ linked = [c \in Users |-> 0]
    /\ place = [c \in Users |-> "outside"]
    /\ used = [c \in Users |-> [s \in Statements |-> "no"]]
    /\ bound = [s \in Statements |-> NoUser]
    /\ rows = [s \in Statements |-> NoUser]
    /\ fetched = [c \in Users |-> [s \in Statements |-> NoUser]]

HasAll(c) == linked[c] = Len(StatementsOf[c])
Newest(c) == StatementsOf[c][linked[c]]

-----------------------------------------------------------------------------
(* The constructor of GuardConnection locks the connection. *)
LockNothing(c) ==                                              \* mutant
    /\ place[c] = "outside"
    /\ place' = [place EXCEPT ![c] = "inside"]
    /\ UNCHANGED <<mutexes, linked, data>>
LockConnection(c) ==
    /\ place[c] = "outside"
    /\ connectionMutex[ConnectionOf[c]] = NoUser
    /\ connectionMutex' = [connectionMutex EXCEPT ![ConnectionOf[c]] = c]
    /\ place' = [place EXCEPT ![c] = "inside"]
    /\ UNCHANGED <<statementMutex, linked, data>>

(* The constructor of GuardStatement: linkStatement, *)
Link(c) ==
    /\ place[c] = "inside" /\ ~ HasAll(c)
    /\ linked' = [linked EXCEPT ![c] = @ + 1]
    /\ place' = [place EXCEPT ![c] = "locking"]
    /\ UNCHANGED <<mutexes, data>>

(* and lock. *)
JoinStatement(c) ==                                            \* mutant
    /\ place[c] = "locking"
    /\ place' = [place EXCEPT ![c] = "inside"]
    /\ UNCHANGED <<mutexes, linked, data>>
LockStatement(c) ==
    /\ place[c] = "locking"
    /\ statementMutex[Newest(c)] = NoUser
    /\ statementMutex' = [statementMutex EXCEPT ![Newest(c)] = c]
    /\ place' = [place EXCEPT ![c] = "inside"]
    /\ UNCHANGED <<connectionMutex, linked, data>>

-----------------------------------------------------------------------------
Uses(c, s, from, to) ==
    /\ place[c] = "inside" /\ HasAll(c)
    /\ \E i \in 1 .. linked[c] : StatementsOf[c][i] = s
    /\ used[c][s] = from
    /\ used' = [used EXCEPT ![c][s] = to]
    /\ UNCHANGED <<mutexes, linked, place>>

(* getInputData gives the client the data of the statement to write to. *)
SetInput(c, s) ==
    /\ Uses(c, s, "no", "bound")
    /\ bound' = [bound EXCEPT ![s] = c]
    /\ UNCHANGED <<rows, fetched>>

(* The input is encoded, the rows are those of this execution. *)
Execute(c, s) ==
    /\ Uses(c, s, "bound", "executed")
    /\ rows' = [rows EXCEPT ![s] = bound[s]]
    /\ UNCHANGED <<bound, fetched>>

Fetch(c, s) ==
    /\ Uses(c, s, "executed", "fetched")
    /\ fetched' = [fetched EXCEPT ![c][s] = rows[s]]
    /\ UNCHANGED <<bound, rows>>

-----------------------------------------------------------------------------
(* The block of the guards ends, *)
Finish(c) ==
    /\ place[c] = "inside" /\ HasAll(c)
    /\ \A i \in 1 .. linked[c] : used[c][StatementsOf[c][i]] = "fetched"
    /\ place' = [place EXCEPT ![c] = "leaving"]
    /\ UNCHANGED <<mutexes, linked, data>>

(* or is left by an exception: of a statement, of an operation of the      *)
(* client, or of a GuardStatement that finds the connection unavailable.   *)
Throw(c) ==
    /\ place[c] = "inside"
    /\ place' = [place EXCEPT ![c] = "leaving"]
    /\ UNCHANGED <<mutexes, linked, data>>

(* The destructors of the guards, the last first. *)
UnlockStatement(c) ==
    /\ place[c] = "leaving" /\ linked[c] > 0
    /\ statementMutex' = [statementMutex EXCEPT ![Newest(c)] = NoUser]
    /\ linked' = [linked EXCEPT ![c] = @ - 1]
    /\ UNCHANGED <<connectionMutex, place, data>>

UnlockConnection(c) ==
    /\ place[c] = "leaving" /\ linked[c] = 0
    /\ connectionMutex' = [connectionMutex EXCEPT ![ConnectionOf[c]] = NoUser]
    /\ place' = [place EXCEPT ![c] = "left"]
    /\ UNCHANGED <<statementMutex, linked, data>>

-----------------------------------------------------------------------------
Progress(c) ==
    \/ Link(c)
    \/ \E s \in Statements : SetInput(c, s) \/ Execute(c, s) \/ Fetch(c, s)
    \/ Finish(c)
    \/ UnlockStatement(c) \/ UnlockConnection(c)

GuardsNext == \E c \in Users : LockConnection(c) \/ LockStatement(c) \/ Progress(c) \/ Throw(c)

(* The clients go on with what they do, and a mutex that is free again and *)
(* again is obtained.                                                      *)
GuardsFairness ==
    \A c \in Users :
        /\ WF_guardsVars(Progress(c))
        /\ SF_guardsVars(LockConnection(c)) /\ SF_guardsVars(LockStatement(c))

GuardsSpec == GuardsInit /\ [][GuardsNext]_guardsVars /\ GuardsFairness

-----------------------------------------------------------------------------
(* The rows a client fetches answer its own input, whoever else uses the   *)
(* statement, with this connection or another.                             *)
OwnRows == \A c \in Users, s \in Statements : fetched[c][s] \in {c, NoUser}

(* The guards, and the rows their statements hand out.                      *)
GuardInvariant == GuardsTypeOK /\ OwnRows

(* Every client leaves its guards: there is no deadlock between the        *)
(* mutexes of connections and statements.                                  *)
EveryoneLeaves == \A c \in Users : <>(place[c] = "left")
=============================================================================
