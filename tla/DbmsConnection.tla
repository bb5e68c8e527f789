--------------------------- MODULE DbmsConnection ---------------------------
(***************************************************************************)
(* coffee::dbms: one Connection and the clients that use it through a      *)
(* GuardConnection.  A guard locks the connection, executes statements,    *)
(* and its destructor unlocks it, which commits or rolls back.  The driver *)
(* is either that of SQLite (do_beginTransaction opens a transaction, a    *)
(* write outside of one is committed at once) or one that queues writes    *)
(* until do_commit and may notice by itself that the connection is broken  *)
(* (the mock driver of the tests).                                         *)
(*                                                                         *)
(* Statements that read, and those that fail with ActionOnError::Ignore,   *)
(* leave all of this as it is and are left out, as is execute() when a     *)
(* rollback is pending: it throws before it does anything.  So every       *)
(* statement here is critical: one of ActionOnError::Rollback that writes. *)
(***************************************************************************)
EXTENDS Integers, FiniteSets

CONSTANTS
    Clients,         \* each has one GuardConnection in its life
    Nobody,
    MaxWrites,       \* bound: successful writes of one guard
    Settings         \* the drivers, what may go wrong, and what clients do

(***************************************************************************)
(* A setting: the driver begins transactions (SQLite); isAvailable() may   *)
(* turn false by itself; a statement may find the connection lost;         *)
(* do_commit may throw and leave the transaction open; clients call        *)
(* GuardConnection::commit; m_maxCommitPending, 0 for none.                *)
(***************************************************************************)
Setting == [transactions : BOOLEAN, breaks : BOOLEAN, losses : BOOLEAN,
            busyCommits : BOOLEAN, explicitCommits : BOOLEAN, maxPending : Nat]

ASSUME ConnectionAssumption ==
    /\ Nobody \notin Clients
    /\ MaxWrites \in Nat
    /\ Settings \subseteq Setting

VARIABLES
    mutex,             \* owner of m_mutex
    lockingCounter, commitPending, rollbackPending,     \* members of Connection
    available,         \* isAvailable()
    transaction,       \* the driver has a transaction open
    session,           \* writes the driver has not committed
    table,             \* writes that are committed
    pc,                \* where the guard of a client is
    done,              \* successful writes of the guard
    told,              \* last exception the guard has thrown at its client
    atFailure,         \* history: committed writes of a guard when a critical
                       \* statement failed, NotFailed before
    wentOn,            \* history: clients that committed with a rollback
                       \* pending, or wrote again after a failure
    broken,            \* history: clients whose connection broke under them
    setting            \* never changes

connection == <<mutex, lockingCounter, commitPending, rollbackPending>>
driver == <<available, transaction, session, table>>
guards == <<pc, done, told, atFailure, wentOn, broken>>
vars == <<connection, driver, guards, setting>>

NotFailed == -1
Write == Clients \X (1 .. MaxWrites)
WritesOf(c, writes) == {w \in writes : w[1] = c}

TypeOK ==
    /\ mutex \in Clients \union {Nobody}
    /\ lockingCounter \in 0 .. 1
    /\ commitPending \in 0 .. MaxWrites + 1
    /\ rollbackPending \in BOOLEAN
    /\ available \in BOOLEAN /\ transaction \in BOOLEAN
    /\ session \subseteq Write /\ table \subseteq Write
    /\ pc \in [Clients -> {"outside", "locking", "inside", "refused", "left"}]
    /\ done \in [Clients -> 0 .. MaxWrites]
    /\ told \in [Clients -> {"nothing", "failed", "lost", "commit"}]
    /\ atFailure \in [Clients -> {NotFailed} \union 0 .. MaxWrites]
    /\ wentOn \subseteq Clients /\ broken \subseteq Clients
    /\ setting \in Settings

Init ==
    /\ mutex = Nobody
    /\ lockingCounter = 0 /\ commitPending = 0 /\ rollbackPending = FALSE
    /\ available = TRUE /\ transaction = FALSE
    /\ session = {} /\ table = {}
    /\ pc = [c \in Clients |-> "outside"]
    /\ done = [c \in Clients |-> 0]
    /\ told = [c \in Clients |-> "nothing"]
    /\ atFailure = [c \in Clients |-> NotFailed]
    /\ wentOn = {} /\ broken = {}
    /\ setting \in Settings

-----------------------------------------------------------------------------
(* The driver *)

(* close() and open(): what was not committed is gone. *)
Reopen ==
    /\ available' \in BOOLEAN
    /\ transaction' = FALSE
    /\ session' = {}
    /\ UNCHANGED table

(* A write goes to the session, or to the table outside of a transaction. *)
Autocommit == setting.transactions /\ ~ transaction
SessionWith(w) == IF Autocommit THEN session ELSE session \union {w}
TableWith(w) == IF Autocommit THEN table \union {w} ELSE table

(* Connection::commit and do_commit, after writes that left the session    *)
(* and the table as given.                                                 *)
CommitSucceeds(written, committed) ==
    /\ available
    /\ setting.transactions => transaction
    /\ table' = committed \union written
    /\ session' = {}
    /\ transaction' = FALSE
    /\ commitPending' = 0
    /\ rollbackPending' = FALSE
    /\ UNCHANGED available

CommitFails(written, committed, pending) ==
    /\ ~ available \/ (setting.transactions /\ ~ transaction) \/ setting.busyCommits
    /\ table' = committed
    /\ session' = written
    /\ commitPending' = pending
    /\ UNCHANGED <<available, transaction, rollbackPending>>

Rollback ==
    /\ session' = {}
    /\ transaction' = FALSE
    /\ commitPending' = 0
    /\ rollbackPending' = FALSE
    /\ UNCHANGED <<available, table>>

(* The other end goes away. *)
Break ==
    /\ setting.breaks /\ available
    /\ available' = FALSE
    /\ broken' = broken \union ({mutex} \ {Nobody})
    /\ UNCHANGED <<connection, transaction, session, table, pc, done, told, atFailure,
                   wentOn, setting>>

-----------------------------------------------------------------------------
(* Connection::lock, from the constructor of GuardConnection *)

(* Availability is tested, and the connection recovered, without m_mutex. *)
LockTests(c) ==
    /\ pc[c] = "outside"
    /\ IF available THEN UNCHANGED driver ELSE Reopen
    /\ pc' = [pc EXCEPT ![c] = IF available' THEN "locking" ELSE "refused"]
    /\ UNCHANGED <<connection, done, told, atFailure, wentOn, broken, setting>>

(* The constructor throws when do_beginTransaction does; the mutex is not  *)
(* given back, for the destructor of the guard will not run.               *)
BeginSucceeds == setting.transactions => available /\ ~ transaction

LockTakes(c) ==
    /\ pc[c] = "locking"
    /\ mutex = Nobody
    /\ mutex' = c
    /\ lockingCounter' = lockingCounter + 1
    /\ rollbackPending' = FALSE
    /\ IF BeginSucceeds
       THEN /\ pc' = [pc EXCEPT ![c] = "inside"]
            /\ transaction' = setting.transactions
            /\ commitPending' = IF setting.transactions THEN 1 ELSE 0
       ELSE /\ pc' = [pc EXCEPT ![c] = "refused"]
            /\ commitPending' = 0
            /\ UNCHANGED transaction
    /\ UNCHANGED <<available, session, table, done, told, atFailure, wentOn, broken, setting>>

-----------------------------------------------------------------------------
(* Connection::execute *)

Executes(c) == pc[c] = "inside" /\ ~ rollbackPending

ReachesMaxPending(pending) == setting.maxPending > 0 /\ pending >= setting.maxPending

ExecuteWrite(c) ==
    /\ Executes(c) /\ available
    /\ done[c] < MaxWrites
    /\ done' = [done EXCEPT ![c] = @ + 1]
    /\ wentOn' = IF atFailure[c] = NotFailed THEN wentOn ELSE wentOn \union {c}
    /\ LET w == <<c, done[c] + 1>>
           pending == commitPending + 1
       IN  IF ReachesMaxPending(pending)
           THEN \/ /\ CommitSucceeds(SessionWith(w), TableWith(w))
                   /\ UNCHANGED told
                \/ /\ CommitFails(SessionWith(w), TableWith(w), pending)
                   /\ told' = [told EXCEPT ![c] = "commit"]
           ELSE /\ session' = SessionWith(w)
                /\ table' = TableWith(w)
                /\ commitPending' = pending
                /\ UNCHANGED <<rollbackPending, available, transaction, told>>
    /\ UNCHANGED <<mutex, lockingCounter, pc, atFailure, broken, setting>>

(* A statement of ActionOnError::Rollback fails. *)
ExecuteFails(c) ==
    /\ Executes(c) /\ available
    /\ rollbackPending' = TRUE
    /\ told' = [told EXCEPT ![c] = "failed"]
    /\ atFailure' = [atFailure EXCEPT ![c] = Cardinality(WritesOf(c, table))]
    /\ UNCHANGED <<mutex, lockingCounter, commitPending, driver, pc, done, wentOn, broken, setting>>

(* lostConnection(): recover, and the exception of the statement, before   *)
(* m_rollbackPending is set: what the guard executes next goes to the new  *)
(* session, and unlock commits it without what was written before.         *)
ExecuteLost(c) ==
    /\ Executes(c)
    /\ setting.losses \/ ~ available
    /\ Reopen
    /\ told' = [told EXCEPT ![c] = "lost"]
    /\ atFailure' = [atFailure EXCEPT ![c] = Cardinality(WritesOf(c, table))]
    /\ UNCHANGED <<connection, pc, done, wentOn, broken, setting>>

(* GuardConnection::commit *)
GuardCommit(c) ==
    /\ setting.explicitCommits
    /\ pc[c] = "inside"
    /\ \/ /\ CommitSucceeds(session, table)
          /\ wentOn' = IF rollbackPending THEN wentOn \union {c} ELSE wentOn
          /\ UNCHANGED told
       \/ /\ CommitFails(session, table, commitPending)
          /\ told' = [told EXCEPT ![c] = "commit"]
          /\ UNCHANGED wentOn
    /\ UNCHANGED <<mutex, lockingCounter, pc, done, atFailure, broken, setting>>

-----------------------------------------------------------------------------
(* Connection::unlock, from the destructor of GuardConnection.  It writes  *)
(* the exception of commit to the log.                                     *)
CommitFromTheSecond ==                                         \* mutant
    IF rollbackPending THEN Rollback
    ELSE IF commitPending > 1
    THEN CommitSucceeds(session, table) \/ CommitFails(session, table, commitPending)
    ELSE UNCHANGED <<driver, commitPending, rollbackPending>>
CommitFirst ==                                                 \* mutant
    IF commitPending > 0
    THEN CommitSucceeds(session, table) \/ CommitFails(session, table, commitPending)
    ELSE IF rollbackPending THEN Rollback
    ELSE UNCHANGED <<driver, commitPending, rollbackPending>>
CommitOrRollback ==
    IF rollbackPending THEN Rollback
    ELSE IF commitPending > 0
    THEN CommitSucceeds(session, table) \/ CommitFails(session, table, commitPending)
    ELSE UNCHANGED <<driver, commitPending, rollbackPending>>

UnlockKeepsMutex(c) ==                                         \* mutant
    /\ pc[c] = "inside"
    /\ CommitOrRollback
    /\ lockingCounter' = 0
    /\ mutex' = IF rollbackPending THEN mutex ELSE Nobody
    /\ pc' = [pc EXCEPT ![c] = "left"]
    /\ UNCHANGED <<done, told, atFailure, wentOn, broken, setting>>
Unlock(c) ==
    /\ pc[c] = "inside"
    /\ CommitOrRollback
    /\ lockingCounter' = 0
    /\ mutex' = Nobody
    /\ pc' = [pc EXCEPT ![c] = "left"]
    /\ UNCHANGED <<done, told, atFailure, wentOn, broken, setting>>

-----------------------------------------------------------------------------
Next ==
    \/ Break
    \/ \E c \in Clients :
          \/ LockTests(c) \/ LockTakes(c)
          \/ ExecuteWrite(c) \/ ExecuteFails(c) \/ ExecuteLost(c)
          \/ GuardCommit(c)
          \/ Unlock(c)

(* A guard is a local variable: its destructor runs.  A mutex that is free *)
(* again and again is obtained.                                            *)
Fairness == \A c \in Clients : WF_vars(Unlock(c)) /\ SF_vars(LockTakes(c))

Spec == Init /\ [][Next]_vars /\ Fairness

-----------------------------------------------------------------------------
(* Nobody commits what another guard wrote, whether that guard was rolled  *)
(* back, lost its connection, or could not commit.                         *)
CommitsOwnWritesOnly ==
    [][\A w \in table' \ table : w[1] = mutex]_vars

(* A guard one of whose critical statements failed, by its result or       *)
(* because the connection was lost, adds nothing to what it had committed  *)
(* when it failed.                                                         *)
AddsNothing(c) ==
    pc[c] = "left" /\ atFailure[c] # NotFailed
        => Cardinality(WritesOf(c, table)) = atFailure[c]

(* What Statement::setActionOnError says, of all guards. *)
FailedGuardLeavesNothing == \A c \in Clients : AddsNothing(c)

(* What the code does: neither commit nor a loss keeps a guard from going  *)
(* on, and one that does may commit a part of what it wrote.  A client     *)
(* that lets its guard end after the exception is safe.                    *)
FailedGuardAddsNothing == \A c \in Clients \ wentOn : AddsNothing(c)

(* The same for the losses alone.                                          *)
LossIsNotGoneOver == \A c \in Clients : told[c] = "lost" => AddsNothing(c)

(* A guard that has thrown nothing at its client is committed as a whole.  *)
(* The code does so if the connection does not break under the guard.      *)
IsCommitted(c) ==
    pc[c] = "left" /\ told[c] = "nothing"
        => Cardinality(WritesOf(c, table)) = done[c]

QuietGuardIsCommitted == \A c \in Clients : IsCommitted(c)

UnbrokenGuardIsCommitted == \A c \in Clients \ broken : IsCommitted(c)

(* Both together: a guard that was told of nothing is committed as a whole *)
(* if nothing broke, and nothing more of one that failed is committed if   *)
(* its client does not go on with it (execute, commit and unlock).         *)
GuardsAreAtomic == FailedGuardAddsNothing /\ UnbrokenGuardIsCommitted

(* Between two guards nothing is left in the session of an available       *)
(* connection, and no transaction is open.                                 *)
NothingLeftBehind ==
    mutex = Nobody /\ available => session = {} /\ ~ transaction

(* The connection between the guards and inside of them.                    *)
ConnectionInvariant == TypeOK /\ NothingLeftBehind

(* A write that succeeds is not reported as a failure by the commit that   *)
(* m_maxCommitPending asks for.                                            *)
BatchedWritesSucceed == \A c \in Clients : told[c] # "commit"

(* Every client that waits for the connection obtains it, or an exception. *)
LockReturns == \A c \in Clients : pc[c] = "locking" ~> pc[c] # "locking"

(* The same, unless do_beginTransaction has thrown, out of lock, at the    *)
(* client that has m_mutex.                                                *)
Stuck == mutex # Nobody /\ pc[mutex] = "refused"
LockReturnsUnlessStuck ==
    \A c \in Clients : pc[c] = "locking" ~> pc[c] # "locking" \/ Stuck
=============================================================================
