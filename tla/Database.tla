------------------------------ MODULE Database ------------------------------
(***************************************************************************)
(* coffee::dbms::Database with its connections and one of its statements,  *)
(* and the drivers of SQLite and LDAP under them.  One thread creates      *)
(* connections, initializes and stops the service; a client finds a        *)
(* connection, locks it, executes the statement and fetches its rows; no   *)
(* mutex is between the two.  What a guard commits is in DbmsConnection.   *)
(*                                                                         *)
(* A session is what the library of the driver has open.  sqlite3_close    *)
(* refuses one with statements that are not finalized; nobody looks at     *)
(* what it returns.                                                        *)
(***************************************************************************)
EXTENDS Naturals, FiniteSets, Sequences, SequencesExt

CONSTANTS
    Names,           \* of connections
    Drivers,         \* some of "sqlite", "ldap"
    MaxConnection,   \* Database::MaxConnection, 32 in the code
    MaxRows,         \* bound: rows of the table
    MaxCreated, MaxSessions, MaxLives     \* bounds

None == 0

ASSUME DatabaseAssumption ==
    /\ Drivers \subseteq {"sqlite", "ldap"}
    /\ {MaxConnection, MaxRows, MaxCreated, MaxSessions, MaxLives} \subseteq Nat

VARIABLES
    driver,
    status, walk, lives,   \* Runnable, the iterator of do_initialize and do_stop
    counter, error,        \* the local variables of do_initialize
    connections,           \* m_connections, each <<name, how many were created before>>
    created,
    impl,                  \* the session of each connection, or None
    opened, sessions,      \* how many have been opened, those that are open
    handle, prepared,      \* SqliteStatement::impl, or None, and Statement::m_isPrepared
    unfinalized,           \* the sessions with statements that are not finalized
    rows, cursor,          \* what the last execution found, and the row before the next one
    fetchIsDone,           \* SqliteStatement: the first row has been read by do_execute
    guard, pc,             \* the connection of the client, and where it is
    told,                  \* what execute returned to it, or "throws"
    fetched                \* history: the rows it has fetched

serviceVars == <<status, walk, lives, counter, error>>
registryVars == <<connections, created>>
sessionVars == <<impl, opened, sessions>>
statementVars == <<handle, prepared, unfinalized, rows, cursor, fetchIsDone>>
clientVars == <<guard, pc, told, fetched>>
vars == <<driver, serviceVars, registryVars, sessionVars, statementVars, clientVars>>

Connection == Names \X (0 .. MaxCreated)
NoConnection == <<"", 0>>
Failed == MaxRows + 1        \* the library reports an error, not rows
Lost == MaxRows + 2          \* or that it is no database any more

TypeOK ==
    /\ driver \in Drivers
    /\ status \in {"stopped", "initializing", "running", "stopping"}
    /\ connections \in BoundedSeq(Connection, MaxConnection)
    /\ \A i, j \in DOMAIN connections : connections[i][1] = connections[j][1] => i = j
    /\ walk \in 0 .. MaxConnection + 1 /\ counter \in 0 .. MaxConnection /\ error \in BOOLEAN
    /\ impl \in [Connection -> 0 .. MaxSessions]
    /\ sessions \subseteq 1 .. opened /\ unfinalized \subseteq 1 .. opened
    /\ handle \in 0 .. opened /\ prepared \in BOOLEAN /\ fetchIsDone \in BOOLEAN
    /\ rows \in 0 .. Lost /\ cursor \in 0 .. MaxRows
    /\ guard \in Connection \cup {NoConnection}
    /\ pc \in {"outside", "found", "locked", "prepared", "executed", "exhausted", "undefined"}
    /\ told \in {"nothing", "successful", "notFound", "error", "throws"}

Init ==
    /\ driver \in Drivers
    /\ status = "stopped" /\ walk = 0 /\ lives = 0 /\ counter = 0 /\ error = FALSE
    /\ connections = <<>> /\ created = 0
    /\ impl = [k \in Connection |-> None] /\ opened = 0 /\ sessions = {}
    /\ handle = None /\ prepared = FALSE /\ unfinalized = {}
    /\ rows = 0 /\ cursor = 0 /\ fetchIsDone = FALSE
    /\ guard = NoConnection /\ pc = "outside" /\ told = "nothing" /\ fetched = <<>>

-----------------------------------------------------------------------------
(* open and close of the drivers.  open leaves the session of before, if    *)
(* there was one, to itself; when it fails the connection has none.         *)
IsOpen(k) == impl[k] # None
Reclosed(session) == IF session \in unfinalized THEN sessions ELSE sessions \ {session}

Opens(k, before) ==
    /\ opened < MaxSessions
    /\ opened' = opened + 1
    /\ impl' = [impl EXCEPT ![k] = opened + 1]
    /\ sessions' = before \cup {opened + 1}
OpenFails(k, before) ==
    /\ impl' = [impl EXCEPT ![k] = None]
    /\ sessions' = before
    /\ UNCHANGED opened
Close(k) ==
    /\ impl' = [impl EXCEPT ![k] = None]
    /\ sessions' = Reclosed(impl[k])
    /\ UNCHANGED opened

(* Connection::recover: close and open. *)
Recover(k) == Opens(k, Reclosed(impl[k])) \/ OpenFails(k, Reclosed(impl[k]))

-----------------------------------------------------------------------------
(* createConnection: one that cannot be opened is not registered. *)
RegisteredAnyway(k, isOpen) == Append(connections, k)          \* mutant
Registered(k, isOpen) == IF isOpen THEN Append(connections, k) ELSE connections

IsNew(name) == \A i \in DOMAIN connections : connections[i][1] # name

CreateConnection(name) ==
    LET k == <<name, created>>
    IN /\ status \in {"stopped", "running"} /\ created < MaxCreated
       /\ Len(connections) < MaxConnection
       /\ IsNew(name)
       /\ created' = created + 1
       /\ IF status = "running"
          THEN (Opens(k, sessions) \/ OpenFails(k, sessions)) /\ connections' = Registered(k, impl'[k] # None)
          ELSE connections' = Registered(k, TRUE) /\ UNCHANGED sessionVars
       /\ UNCHANGED <<driver, serviceVars, statementVars, clientVars>>

(* do_initialize: the connections that do not open are only logged, unless  *)
(* none of them does.                                                       *)
Initialize ==
    /\ status = "stopped" /\ lives < MaxLives
    /\ status' = "initializing" /\ walk' = 1 /\ lives' = lives + 1 /\ counter' = 0 /\ error' = FALSE
    /\ UNCHANGED <<driver, registryVars, sessionVars, statementVars, clientVars>>

InitializeNext ==
    /\ status = "initializing" /\ walk <= Len(connections)
    /\ \/ Opens(connections[walk], sessions) /\ counter' = counter + 1 /\ UNCHANGED error
       \/ OpenFails(connections[walk], sessions) /\ error' = TRUE /\ UNCHANGED counter
    /\ walk' = walk + 1
    /\ UNCHANGED <<driver, status, lives, registryVars, statementVars, clientVars>>

NoneAvailable == counter = 0 /\ error
InitializeEnds ==
    /\ status = "initializing" /\ walk > Len(connections)
    /\ status' = IF NoneAvailable THEN "stopped" ELSE "running"
    /\ walk' = 0
    /\ UNCHANGED <<driver, lives, counter, error, registryVars, sessionVars, statementVars, clientVars>>

Stop ==
    /\ status = "running"
    /\ status' = "stopping" /\ walk' = 1
    /\ UNCHANGED <<driver, lives, counter, error, registryVars, sessionVars, statementVars, clientVars>>

StopNext ==
    /\ status = "stopping" /\ walk <= Len(connections)
    /\ Close(connections[walk])
    /\ walk' = walk + 1
    /\ UNCHANGED <<driver, status, lives, counter, error, registryVars, statementVars, clientVars>>

(* The containers are cleared: what a client holds goes on.  (When the      *)
(* statement goes its session has been given up already.)                   *)
StopEnds ==
    /\ status = "stopping" /\ walk > Len(connections)
    /\ status' = "stopped" /\ walk' = 0 /\ connections' = <<>>
    /\ IF pc \in {"outside", "found"} THEN handle' = None /\ prepared' = FALSE
       ELSE UNCHANGED <<handle, prepared>>
    /\ UNCHANGED <<driver, lives, counter, error, created, sessionVars, unfinalized, rows, cursor,
                   fetchIsDone, clientVars>>

-----------------------------------------------------------------------------
(* findConnection, the first of that name. *)
Find(name) ==
    /\ pc = "outside"
    /\ \E i \in DOMAIN connections : connections[i][1] = name /\ guard' = connections[i]
    /\ pc' = "found" /\ told' = "nothing"
    /\ UNCHANGED <<driver, serviceVars, registryVars, sessionVars, statementVars, fetched>>

(* Connection::lock: recovers one that is not available, or throws. *)
Lock ==
    /\ pc = "found"
    /\ IF IsOpen(guard) THEN UNCHANGED sessionVars ELSE Recover(guard)
    /\ pc' = IF impl'[guard] # None THEN "locked" ELSE "outside"
    /\ UNCHANGED <<driver, serviceVars, registryVars, statementVars, guard, told, fetched>>

(* isPrepared: the statement of SQLite compares its owner, which is never   *)
(* set, with the connection.  do_prepare overwrites the handle.             *)
PreparedOnce == prepared                                       \* mutant
IsPrepared == prepared /\ driver = "ldap"

Prepare ==
    /\ pc \in {"locked", "executed", "exhausted"}
    /\ IF IsPrepared
       THEN pc' = "prepared" /\ UNCHANGED <<handle, prepared, unfinalized, told>>
       ELSE IF IsOpen(guard)
       THEN /\ pc' = "prepared" /\ prepared' = TRUE
            /\ handle' = impl[guard]
            /\ unfinalized' = IF driver = "sqlite" THEN unfinalized \cup {impl[guard]} ELSE {}
            /\ UNCHANGED told
       ELSE pc' = "locked" /\ told' = "throws" /\ UNCHANGED <<handle, prepared, unfinalized>>
    /\ fetched' = <<>>
    /\ UNCHANGED <<driver, serviceVars, registryVars, sessionVars, rows, cursor, fetchIsDone, guard>>

(* do_execute: the rows are counted from the one before the first; a select *)
(* of SQLite reads the first one at once and keeps it for do_fetch, LDAP    *)
(* takes its handle from the connection.  What the library reports is found *)
(* out here: rows, none, or an error; LDAP has no error in its rows.        *)
ForgetsFirst(n) == FALSE                                       \* mutant
ReadFirst(n) == driver = "sqlite" /\ n # 0

Answer(n) ==
    IF n \in {Failed, Lost} /\ driver = "ldap" THEN "error"
    ELSE IF n = 0 THEN "notFound" ELSE "successful"

Execute ==
    /\ pc = "prepared"
    /\ \E n \in 0 .. Lost :
          /\ rows' = n
          /\ cursor' = IF driver = "sqlite" /\ n \in 1 .. MaxRows THEN 1 ELSE 0
          /\ fetchIsDone' = ReadFirst(n)
          /\ IF n = Lost /\ driver = "ldap"
             THEN Recover(guard) /\ told' = "throws" /\ pc' = "locked"
             ELSE told' = Answer(n) /\ pc' = "executed" /\ UNCHANGED sessionVars
    /\ handle' = IF driver = "ldap" THEN impl[guard] ELSE handle
    /\ UNCHANGED <<driver, serviceVars, registryVars, prepared, unfinalized, guard, fetched>>

(* do_fetch: the row that do_execute has read, or the next one. *)
Fetch ==
    /\ pc = "executed"
    /\ IF fetchIsDone
       THEN fetchIsDone' = FALSE /\ fetched' = Append(fetched, cursor) /\ UNCHANGED <<cursor, pc>>
       ELSE IF rows <= MaxRows /\ cursor < rows
       THEN cursor' = cursor + 1 /\ fetched' = Append(fetched, cursor + 1) /\ UNCHANGED <<fetchIsDone, pc>>
       ELSE pc' = "exhausted" /\ UNCHANGED <<fetchIsDone, cursor, fetched>>
    /\ UNCHANGED <<driver, serviceVars, registryVars, sessionVars, handle, prepared, unfinalized,
                   rows, guard, told>>

(* Once more after the last row: sqlite3_step begins again, and LDAP looks   *)
(* for the first entry where it has freed it, with which the model of the   *)
(* client ends.                                                             *)
FetchAgain ==
    /\ pc = "exhausted" /\ rows \in 1 .. MaxRows
    /\ IF driver = "sqlite"
       THEN pc' = "executed" /\ cursor' = 1 /\ fetched' = <<1>>
       ELSE pc' = "undefined" /\ UNCHANGED <<cursor, fetched>>
    /\ UNCHANGED <<driver, serviceVars, registryVars, sessionVars, handle, prepared, unfinalized,
                   rows, fetchIsDone, guard, told>>

Leave ==
    /\ pc \in {"locked", "executed", "exhausted"}
    /\ pc' = "outside" /\ fetched' = <<>>
    /\ UNCHANGED <<driver, serviceVars, registryVars, sessionVars, statementVars, guard, told>>

-----------------------------------------------------------------------------
Next ==
    \/ \E name \in Names : CreateConnection(name) \/ Find(name)
    \/ Initialize \/ InitializeNext \/ InitializeEnds \/ Stop \/ StopNext \/ StopEnds
    \/ Lock \/ Prepare \/ Execute \/ Fetch \/ FetchAgain \/ Leave

Spec == Init /\ [][Next]_vars
-----------------------------------------------------------------------------
(* What a guard executes never goes to the session of another connection,   *)
(* whichever the statement was used with before: the guard of another would *)
(* commit it.                                                               *)
ExecutesOnItsConnection ==
    pc = "prepared" /\ driver = "sqlite" => \A k \in Connection \ {guard} : handle # impl[k]

(* The statement and the connections, whatever the service does to them.    *)
StatementInvariant == TypeOK /\ ExecutesOnItsConnection

(* A client that fetches until there is nothing more has got every row of   *)
(* the last execution once and in order, from the first on (FetchAgain).    *)
RowsAreFetchedOnce ==
    pc = "exhausted" /\ rows <= MaxRows => fetched = [i \in 1 .. rows |-> i]

(* The service does not come up with connections none of which opened, but  *)
(* for one that a client has taken and may have lost since; one created     *)
(* while it runs was opened before it was registered.                       *)
InitializedMeansConnected ==
    [][/\ status = "initializing" /\ status' = "running" =>
            connections = <<>> \/ \E k \in Range(connections) : IsOpen(k) \/ k = guard
       /\ status = "running" /\ Len(connections') > Len(connections) => impl'[Last(connections')] # None]_vars

(* It goes to the session that its own guard commits. *)
GuardKeepsItsSession ==
    pc = "prepared" /\ driver = "sqlite" /\ IsOpen(guard) => handle = impl[guard]

(* After a stop nothing of the database is open. *)
StopClosesEverything == status = "stopped" /\ pc = "outside" /\ lives > 0 => sessions = {}

(* A connection of a service that is stopped is not opened. *)
StoppedIsClosed == [][status = "stopped" => \A k \in Connection : IsOpen(k)' => IsOpen(k)]_vars

(* There is nothing behind the last row, however often it is asked for.     *)
NothingAfterTheEnd ==
    [][pc = "exhausted" /\ fetched # <<>> => pc' # "undefined" /\ fetched' \in {fetched, <<>>}]_vars

(* A select that fails is not reported as one that found something. *)
FailuresAreTold == pc = "executed" /\ rows > MaxRows => told \in {"error", "throws"}
=============================================================================
