--------------------------- MODULE DatabaseProofs ---------------------------
(***************************************************************************)
(* Theorems about Database, for any names, numbers of connections, rows    *)
(* and sessions, and both drivers.                                         *)
(***************************************************************************)
EXTENDS Database, TLAPS

(* The registry: connections of different names, each at its place, and no *)
(* more than there are.                                                    *)
Registry ==
    /\ connections \in Seq(Connection) /\ Len(connections) <= MaxConnection
    /\ \A i, j \in DOMAIN connections : connections[i][1] = connections[j][1] => i = j
    /\ created \in 0 .. MaxCreated

(* A session belongs to one connection: each open takes a new one.         *)
Sessions ==
    /\ opened \in 0 .. MaxSessions
    /\ impl \in [Connection -> 0 .. opened]
    /\ \A k, j \in Connection : impl[k] = impl[j] /\ impl[k] # None => k = j
    /\ sessions \subseteq 1 .. opened /\ unfinalized \subseteq 1 .. opened
    /\ handle \in 0 .. opened

Client ==
    /\ guard \in Connection \cup {NoConnection}
    /\ pc # "outside" => guard \in Connection
    /\ pc \in {"outside", "found", "locked", "prepared", "executed", "exhausted", "undefined"}
    /\ told \in {"nothing", "successful", "notFound", "error", "throws"}
    /\ prepared \in BOOLEAN

(* The handle that will be executed is the one of the guard, or one that   *)
(* has been closed since.                                                  *)
Prepared ==
    pc = "prepared" /\ driver = "sqlite" =>
        handle # None /\ \A k \in Connection \ {guard} : handle # impl[k]

(* The rows that have been fetched are those up to the cursor, but for the *)
(* one that has been read in advance.                                      *)
Rows ==
    /\ rows \in 0 .. Lost /\ cursor \in 0 .. MaxRows /\ fetchIsDone \in BOOLEAN
    /\ pc = "prepared" => fetched = <<>>
    /\ pc = "executed" /\ rows <= MaxRows =>
          /\ cursor <= rows
          /\ fetchIsDone => cursor = 1 /\ fetched = <<>>
          /\ ~ fetchIsDone => fetched = [i \in 1 .. cursor |-> i]
    /\ pc = "exhausted" => ~ fetchIsDone
    /\ pc = "exhausted" /\ rows <= MaxRows => fetched = [i \in 1 .. rows |-> i]

(* do_initialize: without an error it has counted all of those it has      *)
(* reached, and what it has counted is open or has been lost by the client *)
(* that holds one of them.                                                 *)
Service ==
    /\ driver \in Drivers
    /\ status \in {"stopped", "initializing", "running", "stopping"}
    /\ walk \in 0 .. MaxConnection + 1 /\ counter \in 0 .. MaxConnection /\ error \in BOOLEAN
    /\ status = "initializing" =>
          /\ walk > 0 /\ walk <= Len(connections) + 1 /\ counter < walk
          /\ error \/ counter = walk - 1
          /\ counter > 0 =>
                \/ \E i \in 1 .. walk - 1 : IsOpen(connections[i])
                \/ \E i \in DOMAIN connections : connections[i] = guard

IInv == Registry /\ Sessions /\ Client /\ Prepared /\ Rows /\ Service
-----------------------------------------------------------------------------
LEMMA Constants == {MaxConnection, MaxRows, MaxCreated, MaxSessions, MaxLives} \subseteq Nat /\ None = 0
BY DatabaseAssumption DEF None

LEMMA Bounded ==
    ASSUME NEW q
    PROVE  q \in BoundedSeq(Connection, MaxConnection) <=> q \in Seq(Connection) /\ Len(q) <= MaxConnection
<1>1. ASSUME q \in BoundedSeq(Connection, MaxConnection)
      PROVE  q \in Seq(Connection) /\ Len(q) <= MaxConnection
  <2>1. PICK m \in 0 .. MaxConnection : q \in [1 .. m -> Connection]
    BY <1>1 DEF BoundedSeq, SeqOf
  <2>2. QED BY <2>1, Constants
<1>2. ASSUME q \in Seq(Connection), Len(q) <= MaxConnection
      PROVE  q \in BoundedSeq(Connection, MaxConnection)
  <2>1. q \in [1 .. Len(q) -> Connection] /\ Len(q) \in 0 .. MaxConnection
    BY <1>2, Constants
  <2>2. QED BY <2>1 DEF BoundedSeq, SeqOf
<1>3. QED BY <1>1, <1>2

(* The session of one connection is opened anew or given up. *)
LEMMA SessionMoves ==
    ASSUME Sessions, NEW k \in Connection, NEW before \in SUBSET sessions,
           Opens(k, before) \/ OpenFails(k, before)
    PROVE  /\ opened' \in 0 .. MaxSessions /\ opened <= opened'
           /\ impl' \in [Connection -> 0 .. opened']
           /\ \A i, j \in Connection : impl'[i] = impl'[j] /\ impl'[i] # None => i = j
           /\ sessions' \subseteq 1 .. opened'
           /\ handle \in 0 .. opened' /\ unfinalized \subseteq 1 .. opened'
           /\ \A j \in Connection : j # k => impl'[j] = impl[j]
           /\ impl'[k] \in {None, opened + 1}
           /\ \A j \in Connection : impl'[j] = handle /\ handle # None => impl[j] = handle
<1> USE Constants
<1>1. opened \in Nat /\ impl \in [Connection -> 0 .. opened] /\ \A j \in Connection : impl[j] \in 0 .. opened
  BY DEF Sessions
<1>2. CASE Opens(k, before)
  <2>1. /\ opened' = opened + 1 /\ opened < MaxSessions
        /\ impl' = [impl EXCEPT ![k] = opened + 1] /\ sessions' = before \cup {opened + 1}
    BY <1>2 DEF Opens
  <2>2. \A j \in Connection : impl'[j] = IF j = k THEN opened + 1 ELSE impl[j]
    BY <1>1, <2>1
  <2>3. opened' \in 0 .. MaxSessions /\ impl' \in [Connection -> 0 .. opened']
    BY <1>1, <2>1 DEF Sessions
  <2>4. \A i, j \in Connection : impl'[i] = impl'[j] /\ impl'[i] # None => i = j
    BY <1>1, <2>2 DEF Sessions
  <2>5. sessions' \subseteq 1 .. opened' /\ handle \in 0 .. opened' /\ unfinalized \subseteq 1 .. opened'
    BY <1>1, <2>1 DEF Sessions
  <2>6. \A j \in Connection : impl'[j] = handle => impl[j] = handle
    BY <1>1, <2>2 DEF Sessions
  <2>7. QED BY <1>1, <2>1, <2>2, <2>3, <2>4, <2>5, <2>6
<1>3. CASE OpenFails(k, before)
  BY <1>1, <1>3 DEF OpenFails, Sessions
<1>4. QED BY <1>2, <1>3

LEMMA Recloses == ASSUME NEW session PROVE Reclosed(session) \in SUBSET sessions
BY DEF Reclosed

LEMMA InitHolds == Init => IInv
<1> SUFFICES ASSUME Init PROVE IInv
  OBVIOUS
<1> USE Constants DEF Init
<1>1. Registry
  BY DEF Registry
<1>2. Sessions
  BY DEF Sessions
<1>3. Client /\ Prepared
  BY DEF Client, Prepared
<1>4. Rows
  <2>1. rows \in 0 .. Lost /\ cursor \in 0 .. MaxRows /\ pc = "outside"
    BY DEF Lost
  <2>2. fetchIsDone \in BOOLEAN
    OBVIOUS
  <2>3. QED BY <2>1, <2>2, Zenon DEF Rows
<1>5. Service
  <2>1. error \in BOOLEAN /\ status = "stopped"
    OBVIOUS
  <2>2. driver \in Drivers /\ walk \in 0 .. MaxConnection + 1 /\ counter \in 0 .. MaxConnection
    OBVIOUS
  <2>3. QED BY <2>1, <2>2 DEF Service
<1>6. QED BY <1>1, <1>2, <1>3, <1>4, <1>5 DEF IInv

-----------------------------------------------------------------------------
(* The service. *)

LEMMA CreateStep ==
    ASSUME IInv, NEW name \in Names, CreateConnection(name)
    PROVE  IInv'
<1> DEFINE k == <<name, created>>
<1> USE Constants DEF IInv, CreateConnection, statementVars, clientVars, serviceVars
<1>1. k \in Connection
  BY DEF Registry, Connection
<1> HIDE DEF k
<1>2. UNCHANGED <<driver, status, walk, counter, error, handle, prepared, unfinalized, rows, cursor, fetchIsDone,
                  guard, pc, told, fetched>> /\ status # "initializing"
  OBVIOUS
<1>3. connections' \in {connections, Append(connections, k)} /\ connections \in Seq(Connection)
  BY DEF k, Registered, Registry
<1>4. Registry'
  <2>1. created' \in 0 .. MaxCreated /\ Len(connections) < MaxConnection
    BY DEF Registry
  <2>2. CASE connections' = connections
    BY <2>1, <2>2 DEF Registry
  <2>3. CASE connections' = Append(connections, k)
    <3>1. k[1] = name
      BY DEF k
    <3>2. /\ connections' \in Seq(Connection) /\ Len(connections') = Len(connections) + 1
          /\ DOMAIN connections' = 1 .. Len(connections) + 1 /\ DOMAIN connections = 1 .. Len(connections)
          /\ Len(connections) \in Nat /\ connections'[Len(connections) + 1] = k
          /\ \A i \in DOMAIN connections : connections'[i] = connections[i]
      BY <1>1, <1>3, <2>3
    <3>3. \A i \in DOMAIN connections : connections[i][1] # name
      BY DEF IsNew
    <3>4. QED BY SMTT(30), <2>1, <3>1, <3>2, <3>3 DEF Registry
  <2>4. QED BY <1>3, <2>2, <2>3
<1>5. Sessions' /\ \A j \in Connection : impl'[j] = handle /\ handle # None => impl[j] = handle
  <2>1. CASE UNCHANGED sessionVars
    BY <1>2, <2>1 DEF Sessions, sessionVars
  <2>2. CASE Opens(k, sessions) \/ OpenFails(k, sessions)
    BY <1>1, <1>2, <2>2, SessionMoves DEF Sessions
  <2>3. QED BY <2>1, <2>2 DEF k
<1>6. Client'
  BY <1>2 DEF Client
<1>7. Prepared'
  BY <1>2, <1>5 DEF Prepared
<1>8. Rows'
  BY <1>2 DEF Rows
<1>9. Service'
  BY <1>2 DEF Service
<1>10. QED BY <1>4, <1>5, <1>6, <1>7, <1>8, <1>9

LEMMA WalkStep ==
    ASSUME IInv, Initialize \/ InitializeEnds \/ Stop
    PROVE  IInv'
<1> USE Constants DEF IInv
<1>1. UNCHANGED <<driver, registryVars, sessionVars, statementVars, clientVars>>
  BY DEF Initialize, InitializeEnds, Stop
<1>2. Registry' /\ Sessions' /\ Client' /\ Prepared'
  BY <1>1 DEF Registry, Sessions, Client, Prepared, registryVars, sessionVars, statementVars, clientVars
<1>3. Rows'
  BY <1>1 DEF Rows, statementVars, clientVars
<1>4. Service'
  <2>1. Len(connections) \in Nat /\ connections' = connections
    BY <1>1 DEF Registry, registryVars
  <2>2. CASE Initialize
    <3>1. error' \in BOOLEAN /\ status' = "initializing" /\ UNCHANGED driver
      BY <1>1, <2>2 DEF Initialize
    <3>2. walk' = 1 /\ counter' = 0
      BY <2>2 DEF Initialize
    <3>3. QED BY <2>1, <3>1, <3>2 DEF Service
  <2>3. CASE InitializeEnds
    BY <2>3 DEF InitializeEnds, Service
  <2>4. CASE Stop
    BY <2>4 DEF Stop, Service
  <2>5. QED BY <2>2, <2>3, <2>4
<1>5. QED BY <1>2, <1>3, <1>4
LEMMA InitializeNextStep ==
    ASSUME IInv, InitializeNext
    PROVE  IInv'
<1> USE Constants DEF IInv
<1> DEFINE k == connections[walk]
<1>1. /\ UNCHANGED <<driver, status, connections, created, handle, prepared, unfinalized, rows, cursor, fetchIsDone,
                     guard, pc, told, fetched>>
      /\ status = "initializing" /\ walk <= Len(connections) /\ walk' = walk + 1
  BY DEF InitializeNext, registryVars, statementVars, clientVars
<1>2. /\ walk > 0 /\ walk <= Len(connections) + 1 /\ counter < walk /\ counter \in Nat /\ walk \in Nat
      /\ error \/ counter = walk - 1
  BY <1>1 DEF Service
<1>3. /\ Len(connections) \in Nat /\ Len(connections) <= MaxConnection
      /\ DOMAIN connections = 1 .. Len(connections) /\ walk \in DOMAIN connections /\ k \in Connection
      /\ \A i \in DOMAIN connections : connections[i] \in Connection
  BY <1>1, <1>2 DEF Registry
<1>4. Opens(k, sessions) \/ OpenFails(k, sessions)
  BY DEF InitializeNext
<1>5. /\ \A j \in Connection : j # k => impl'[j] = impl[j]
      /\ \A j \in Connection : impl'[j] = handle /\ handle # None => impl[j] = handle
  BY <1>3, <1>4, SessionMoves
<1>6. Sessions'
  BY <1>1, <1>3, <1>4, SessionMoves DEF Sessions
<1>7. Registry' /\ Client' /\ Rows'
  BY <1>1 DEF Registry, Client, Rows
<1>8. Prepared'
  BY <1>1, <1>5 DEF Prepared
<1>9. Service'
  <2>1. driver' \in Drivers /\ status' = "initializing" /\ error' \in BOOLEAN
    BY <1>1 DEF Service, InitializeNext
  <2>2. walk' \in 0 .. MaxConnection + 1 /\ walk' > 0 /\ walk' <= Len(connections') + 1
    BY <1>1, <1>2, <1>3
  <2>3. CASE Opens(k, sessions) /\ counter' = counter + 1 /\ UNCHANGED error
    <3>1. counter' \in 0 .. MaxConnection /\ counter' < walk' /\ (error' \/ counter' = walk' - 1)
      BY <1>1, <1>2, <1>3, <2>3
    <3>2. impl'[k] = opened + 1 /\ opened \in Nat
      BY <1>3, <2>3 DEF Opens, Sessions
    <3>3. walk \in 1 .. walk' - 1 /\ connections'[walk] = k
      BY <1>1, <1>2
    <3>4. \E i \in 1 .. walk' - 1 : IsOpen(connections[i])'
      BY <3>2, <3>3 DEF IsOpen
    <3>5. QED BY <2>1, <2>2, <3>1, <3>4 DEF Service
  <2>4. CASE OpenFails(k, sessions) /\ error' = TRUE /\ UNCHANGED counter
    <3>1. counter' \in 0 .. MaxConnection /\ counter' < walk'
      BY <1>1, <1>2, <1>3, <2>4
    <3>2. ASSUME NEW i \in 1 .. walk - 1, IsOpen(connections[i])
          PROVE  i \in 1 .. walk' - 1 /\ IsOpen(connections[i])'
      <4>1. i \in DOMAIN connections /\ i # walk /\ i \in 1 .. walk' - 1
        BY <1>1, <1>2, <1>3
      <4>2. connections[i] # k /\ connections[i] \in Connection
        BY <1>3, <4>1 DEF Registry
      <4>3. QED BY <1>1, <1>5, <3>2, <4>1, <4>2 DEF IsOpen
    <3>3. counter' > 0 =>
              \/ \E i \in 1 .. walk' - 1 : IsOpen(connections[i])'
              \/ \E i \in DOMAIN connections' : connections'[i] = guard'
      BY <1>1, <2>4, <3>2 DEF Service
    <3>4. QED BY <2>1, <2>2, <2>4, <3>1, <3>3 DEF Service
  <2>5. QED BY <2>3, <2>4 DEF InitializeNext
<1>10. QED BY <1>6, <1>7, <1>8, <1>9

LEMMA StopStep ==
    ASSUME IInv, StopNext \/ StopEnds
    PROVE  IInv'
<1> USE Constants DEF IInv
<1>1. CASE StopNext
  <2> DEFINE k == connections[walk]
  <2>1. /\ UNCHANGED <<driver, status, counter, error, connections, created, handle, prepared, unfinalized,
                       rows, cursor, fetchIsDone, guard, pc, told, fetched>>
        /\ status = "stopping" /\ walk <= Len(connections) /\ walk' = walk + 1
    BY <1>1 DEF StopNext, registryVars, statementVars, clientVars
  <2>2. Registry' /\ Client' /\ Rows'
    BY <2>1 DEF Registry, Client, Rows
  <2>3. Service'
    BY <2>1 DEF Service, Registry
  <2>4. OpenFails(k, Reclosed(impl[k]))
    BY <1>1 DEF StopNext, Close, OpenFails
  <2>5. CASE k \in Connection
    <3>1. Sessions' /\ \A j \in Connection : impl'[j] = handle /\ handle # None => impl[j] = handle
      BY SMTT(30), <2>1, <2>4, <2>5, SessionMoves, Recloses DEF Sessions
    <3>2. Prepared'
      BY <2>1, <3>1 DEF Prepared
    <3>3. QED BY <2>2, <2>3, <3>1, <3>2
  <2>6. CASE k \notin Connection
    <3>1. UNCHANGED <<impl, opened>> /\ sessions' \subseteq sessions
      BY <2>4, <2>6, Recloses DEF OpenFails, Sessions
    <3>2. Sessions' /\ Prepared'
      BY <2>1, <3>1 DEF Sessions, Prepared
    <3>3. QED BY <2>2, <2>3, <3>2
  <2>7. QED BY <2>5, <2>6
<1>2. CASE StopEnds
  <2>1. /\ UNCHANGED <<driver, counter, error, created, impl, opened, sessions, unfinalized, rows, cursor,
                       fetchIsDone, guard, pc, told, fetched>>
        /\ status' = "stopped" /\ walk' = 0 /\ connections' = <<>>
    BY <1>2 DEF StopEnds, sessionVars, clientVars
  <2>2. /\ handle' \in {handle, None} /\ prepared' \in {prepared, FALSE}
        /\ pc = "prepared" => handle' = handle
    BY <1>2 DEF StopEnds
  <2>3. Registry' /\ Rows'
    BY <2>1 DEF Registry, Rows
  <2>4. Sessions'
    BY <2>1, <2>2 DEF Sessions
  <2>5. Client' /\ Prepared'
    BY <2>1, <2>2 DEF Client, Prepared
  <2>6. Service'
    BY <2>1 DEF Service
  <2>7. QED BY <2>3, <2>4, <2>5, <2>6
<1>3. QED BY <1>1, <1>2
-----------------------------------------------------------------------------
(* The client. *)

LEMMA ServiceKept ==
    ASSUME IInv, UNCHANGED <<driver, serviceVars, connections>>,
           \/ \E i \in DOMAIN connections : guard' = connections[i]
           \/ UNCHANGED guard /\ \A j \in Connection : j # guard => impl'[j] = impl[j]
    PROVE  Service'
<1> USE Constants DEF IInv, serviceVars
<1>1. CASE status # "initializing"
  BY <1>1 DEF Service
<1>2. CASE status = "initializing"
  <2>1. counter > 0 =>
            \/ \E i \in 1 .. walk - 1 : IsOpen(connections[i])'
            \/ \E i \in DOMAIN connections : connections[i] = guard'
    <3>1. CASE \E i \in DOMAIN connections : guard' = connections[i]
      BY <3>1
    <3>2. ASSUME UNCHANGED guard, \A j \in Connection : j # guard => impl'[j] = impl[j],
                 NEW i \in 1 .. walk - 1, IsOpen(connections[i])
          PROVE  IsOpen(connections[i])' \/ \E n \in DOMAIN connections : connections[n] = guard'
      <4>1. i \in DOMAIN connections /\ connections[i] \in Connection
        BY <1>2 DEF Service, Registry
      <4>2. QED BY <3>2, <4>1 DEF IsOpen
    <3>3. QED BY <1>2, <3>1, <3>2 DEF Service
  <2>2. QED BY <1>2, <2>1 DEF Service
<1>3. QED BY <1>1, <1>2

LEMMA FindStep ==
    ASSUME IInv, NEW name \in Names, Find(name)
    PROVE  IInv'
<1> USE Constants DEF IInv, registryVars, sessionVars, statementVars
<1>1. /\ UNCHANGED <<driver, serviceVars, registryVars, sessionVars, statementVars, fetched>>
      /\ pc' = "found" /\ told' = "nothing"
      /\ \E i \in DOMAIN connections : guard' = connections[i]
  BY DEF Find
<1>2. Service'
  BY <1>1, ServiceKept
<1>3. guard' \in Connection
  BY <1>1 DEF Registry
<1>4. Registry' /\ Sessions' /\ Client' /\ Prepared' /\ Rows'
  BY <1>1, <1>3 DEF Registry, Sessions, Client, Prepared, Rows
<1>5. QED BY <1>2, <1>4

LEMMA LockStep ==
    ASSUME IInv, Lock
    PROVE  IInv'
<1> USE Constants DEF IInv, registryVars, sessionVars, statementVars
<1>1. /\ UNCHANGED <<driver, serviceVars, registryVars, statementVars, guard, told, fetched>>
      /\ pc' \in {"locked", "outside"} /\ guard \in Connection
  BY DEF Lock, Client
<1>2. Sessions' /\ \A j \in Connection : j # guard => impl'[j] = impl[j]
  <2>1. CASE UNCHANGED sessionVars
    BY <1>1, <2>1 DEF Sessions
  <2>2. CASE Recover(guard)
    BY <1>1, <2>2, SessionMoves, Recloses DEF Recover, Sessions
  <2>3. QED BY <2>1, <2>2 DEF Lock
<1>3. Service'
  BY <1>1, <1>2, ServiceKept
<1>4. Registry' /\ Client' /\ Prepared' /\ Rows'
  BY <1>1 DEF Registry, Client, Prepared, Rows
<1>5. QED BY <1>2, <1>3, <1>4

LEMMA PrepareStep ==
    ASSUME IInv, Prepare
    PROVE  IInv'
<1> USE Constants DEF IInv, registryVars, sessionVars, IsPrepared
<1>1. /\ UNCHANGED <<driver, serviceVars, registryVars, sessionVars, rows, cursor, fetchIsDone, guard>>
      /\ pc' \in {"prepared", "locked"} /\ fetched' = <<>> /\ guard \in Connection
  BY DEF Prepare, Client
<1>2. Service'
  BY <1>1, ServiceKept
<1>3. Registry' /\ Rows'
  BY <1>1 DEF Registry, Rows
<1>4. CASE UNCHANGED <<handle, prepared, unfinalized>> /\ (pc' = "prepared" => driver # "sqlite")
           /\ told' \in {told, "throws"}
  BY <1>1, <1>2, <1>3, <1>4 DEF Sessions, Client, Prepared
<1>5. CASE /\ IsOpen(guard) /\ handle' = impl[guard] /\ prepared' = TRUE /\ UNCHANGED told
           /\ unfinalized' \in {unfinalized \cup {impl[guard]}, {}}
  <2>1. impl[guard] # None /\ impl[guard] \in 0 .. opened /\ opened \in Nat
    BY <1>1, <1>5 DEF IsOpen, Sessions
  <2>2. impl[guard] \in 1 .. opened
    BY <2>1
  <2>3. Sessions'
    BY <1>1, <1>5, <2>1, <2>2 DEF Sessions
  <2>4. Prepared'
    BY <1>1, <1>5, <2>1 DEF Prepared, Sessions
  <2>5. Client'
    BY <1>1, <1>5 DEF Client
  <2>6. QED BY <1>2, <1>3, <2>3, <2>4, <2>5
<1>6. QED BY <1>4, <1>5 DEF Prepare

LEMMA ExecuteStep ==
    ASSUME IInv, Execute
    PROVE  IInv'
<1> USE Constants DEF IInv, registryVars, sessionVars
<1>1. /\ UNCHANGED <<driver, serviceVars, registryVars, prepared, unfinalized, guard, fetched>>
      /\ pc' \in {"executed", "locked"} /\ told' \in {"successful", "notFound", "error", "throws"}
      /\ guard \in Connection /\ fetched = <<>> /\ handle' \in {handle, impl[guard]}
  BY DEF Execute, Client, Rows, Answer
<1>2. Sessions' /\ \A j \in Connection : j # guard => impl'[j] = impl[j]
  <2>1. handle' \in 0 .. opened
    BY <1>1 DEF Sessions
  <2>2. CASE UNCHANGED sessionVars
    BY <1>1, <2>1, <2>2 DEF Sessions
  <2>3. CASE Recover(guard)
    <3>1. /\ opened' \in 0 .. MaxSessions /\ opened <= opened' /\ opened \in Nat
          /\ impl' \in [Connection -> 0 .. opened']
          /\ \A i, j \in Connection : impl'[i] = impl'[j] /\ impl'[i] # None => i = j
          /\ sessions' \subseteq 1 .. opened'
          /\ unfinalized \subseteq 1 .. opened'
          /\ \A j \in Connection : j # guard => impl'[j] = impl[j]
      BY <1>1, <2>3, SessionMoves, Recloses DEF Recover, Sessions
    <3>2. handle' \in 0 .. opened'
      BY <2>1, <3>1
    <3>3. QED BY <1>1, <3>1, <3>2 DEF Sessions
  <2>4. QED BY <2>2, <2>3 DEF Execute
<1>3. Service'
  BY <1>1, <1>2, ServiceKept
<1>4. Registry' /\ Client' /\ Prepared'
  BY <1>1 DEF Registry, Client, Prepared
<1>5. Rows'
  <2>1. PICK n \in 0 .. Lost :
            /\ rows' = n
            /\ cursor' = IF driver = "sqlite" /\ n \in 1 .. MaxRows THEN 1 ELSE 0
            /\ fetchIsDone' = (driver = "sqlite" /\ n # 0)
    BY DEF Execute, ReadFirst
  <2>2. fetchIsDone' \in BOOLEAN
    BY <2>1, Zenon
  <2>3. rows' \in 0 .. Lost /\ cursor' \in 0 .. MaxRows
    BY <2>1
  <2>4. rows' <= MaxRows => cursor' <= rows'
    BY <2>1
  <2>5. rows' <= MaxRows /\ fetchIsDone' => cursor' = 1 /\ fetched' = <<>>
    <3>1. fetchIsDone' => driver = "sqlite" /\ n # 0
      BY <2>1, Zenon
    <3>2. driver = "sqlite" /\ n # 0 /\ n <= MaxRows => cursor' = 1
      BY <2>1
    <3>3. QED BY <1>1, <2>1, <3>1, <3>2
  <2>6. rows' <= MaxRows /\ ~ fetchIsDone' => fetched' = [i \in 1 .. cursor' |-> i]
    <3>1. ~ fetchIsDone' => ~ (driver = "sqlite" /\ n # 0)
      BY <2>1, Zenon
    <3>2. ~ (driver = "sqlite" /\ n # 0) => cursor' = 0
      BY <2>1
    <3>3. rows' <= MaxRows /\ ~ fetchIsDone' => cursor' = 0
      BY <3>1, <3>2
    <3>4. <<>> = [i \in 1 .. 0 |-> i]
      OBVIOUS
    <3>5. QED BY <1>1, <3>3, <3>4
  <2>7. QED BY <1>1, <2>2, <2>3, <2>4, <2>5, <2>6 DEF Rows
<1>6. QED BY <1>2, <1>3, <1>4, <1>5

LEMMA FetchStep ==
    ASSUME IInv, Fetch \/ FetchAgain \/ Leave
    PROVE  IInv'
<1> USE Constants DEF IInv, registryVars, sessionVars, statementVars
<1>1. /\ UNCHANGED <<driver, serviceVars, registryVars, sessionVars, handle, prepared, unfinalized, rows, guard, told>>
      /\ pc # "outside" /\ guard \in Connection
      /\ pc' \in {"outside", "executed", "exhausted", "undefined"}
  BY DEF Fetch, FetchAgain, Leave, Client
<1>2. Service'
  BY <1>1, ServiceKept
<1>3. Registry' /\ Sessions' /\ Client' /\ Prepared'
  BY <1>1 DEF Registry, Sessions, Client, Prepared
<1>4. rows' \in 0 .. Lost /\ cursor \in 0 .. MaxRows /\ rows \in Nat /\ cursor \in Nat /\ MaxRows \in Nat
  BY <1>1 DEF Rows, Lost
<1>5. CASE Leave
  <2>1. pc' = "outside" /\ UNCHANGED <<rows, cursor, fetchIsDone>>
    BY <1>5 DEF Leave
  <2>2. Rows'
    BY <2>1 DEF Rows
  <2>3. QED BY <1>2, <1>3, <2>2
<1>6. CASE FetchAgain
  <2>1. CASE driver = "sqlite"
    <3>1. /\ pc' = "executed" /\ cursor' = 1 /\ fetched' = <<1>> /\ rows \in 1 .. MaxRows /\ UNCHANGED <<rows, fetchIsDone>>
          /\ ~ fetchIsDone /\ fetchIsDone \in BOOLEAN
      BY <1>6, <2>1 DEF FetchAgain, Rows
    <3>2. <<1>> = [i \in 1 .. 1 |-> i]
      OBVIOUS
    <3>3. Rows'
      BY <1>4, <3>1, <3>2 DEF Rows
    <3>4. QED BY <1>2, <1>3, <3>3
  <2>2. CASE driver # "sqlite"
    <3>1. pc' = "undefined" /\ UNCHANGED <<rows, cursor, fetchIsDone>>
      BY <1>6, <2>2 DEF FetchAgain
    <3>2. Rows'
      BY <3>1 DEF Rows
    <3>3. QED BY <1>2, <1>3, <3>2
  <2>3. QED BY <2>1, <2>2
<1>7. CASE Fetch
  <2>1. pc = "executed" /\ UNCHANGED rows /\ fetchIsDone \in BOOLEAN
    BY <1>7 DEF Fetch, Rows
  <2>2. CASE fetchIsDone
    <3>1. fetchIsDone' = FALSE /\ fetched' = Append(fetched, cursor) /\ UNCHANGED <<cursor, pc, rows>>
      BY <1>7, <2>2 DEF Fetch
    <3>2. rows <= MaxRows => cursor = 1 /\ fetched = <<>> /\ cursor <= rows
      BY <2>1, <2>2 DEF Rows
    <3>3. Append(<<>>, 1) = [i \in 1 .. 1 |-> i]
      OBVIOUS
    <3>4. rows <= MaxRows => fetched' = [i \in 1 .. cursor |-> i]
      BY <3>1, <3>2, <3>3
    <3>5. Rows'
      BY <1>4, <2>1, <3>1, <3>2, <3>4 DEF Rows
    <3>6. QED BY <1>2, <1>3, <3>5
  <2>3. CASE ~ fetchIsDone /\ rows <= MaxRows /\ cursor < rows
    <3>1. cursor' = cursor + 1 /\ fetched' = Append(fetched, cursor + 1) /\ UNCHANGED <<fetchIsDone, pc, rows>>
      BY <1>7, <2>3 DEF Fetch
    <3>2. fetched = [i \in 1 .. cursor |-> i]
      BY <2>1, <2>3 DEF Rows
    <3>3. \A n \in Nat : Append([i \in 1 .. n |-> i], n + 1) = [i \in 1 .. n + 1 |-> i]
      OBVIOUS
    <3>4. fetched' = [i \in 1 .. cursor' |-> i]
      BY <1>4, <3>1, <3>2, <3>3
    <3>5. cursor' \in 0 .. MaxRows /\ cursor' <= rows'
      BY <1>4, <2>3, <3>1
    <3>6. Rows'
      BY <1>4, <2>1, <2>3, <3>1, <3>4, <3>5 DEF Rows
    <3>7. QED BY <1>2, <1>3, <3>6
  <2>4. CASE ~ fetchIsDone /\ ~ (rows <= MaxRows /\ cursor < rows)
    <3>1. pc' = "exhausted" /\ UNCHANGED <<fetchIsDone, cursor, fetched, rows>>
      BY <1>7, <2>4 DEF Fetch
    <3>2. rows <= MaxRows => cursor = rows /\ fetched = [i \in 1 .. cursor |-> i]
      BY <1>4, <2>1, <2>4 DEF Rows
    <3>3. Rows'
      BY <1>4, <2>1, <2>4, <3>1, <3>2 DEF Rows
    <3>4. QED BY <1>2, <1>3, <3>3
  <2>5. QED BY <2>1, <2>2, <2>3, <2>4
<1>8. QED BY <1>2, <1>3, <1>5, <1>6, <1>7
-----------------------------------------------------------------------------
LEMMA StepKeeps == IInv /\ [Next]_vars => IInv'
<1> SUFFICES ASSUME IInv, [Next]_vars PROVE IInv'
  OBVIOUS
<1>1. ASSUME NEW name \in Names, CreateConnection(name) PROVE IInv'
  BY <1>1, CreateStep
<1>2. ASSUME NEW name \in Names, Find(name) PROVE IInv'
  BY <1>2, FindStep
<1>3. CASE Initialize \/ InitializeEnds \/ Stop
  BY <1>3, WalkStep
<1>4. CASE InitializeNext
  BY <1>4, InitializeNextStep
<1>5. CASE StopNext \/ StopEnds
  BY <1>5, StopStep
<1>6. CASE Lock
  BY <1>6, LockStep
<1>7. CASE Prepare
  BY <1>7, PrepareStep
<1>8. CASE Execute
  BY <1>8, ExecuteStep
<1>9. CASE Fetch \/ FetchAgain \/ Leave
  BY <1>9, FetchStep
<1>10. CASE UNCHANGED vars
  BY <1>10 DEF vars, serviceVars, registryVars, sessionVars, statementVars, clientVars,
               IInv, Registry, Sessions, Client, Prepared, Rows, Service, IsOpen
<1>11. QED BY <1>1, <1>2, <1>3, <1>4, <1>5, <1>6, <1>7, <1>8, <1>9, <1>10 DEF Next

LEMMA InvariantHolds == Spec => []IInv
BY InitHolds, StepKeeps, PTL DEF Spec

(* SqliteStatement::do_prepare and do_execute, whatever the service does   *)
(* to the connections meanwhile: what a guard executes never goes to the   *)
(* session of another connection, which another guard would commit.  The   *)
(* session of a connection is a new one each time, and the handle is       *)
(* prepared for each use.                                                  *)
THEOREM StatementsStayOnTheirConnection == Spec => []StatementInvariant
<1>1. IInv => StatementInvariant
  <2> SUFFICES ASSUME IInv PROVE StatementInvariant
    OBVIOUS
  <2> USE Constants DEF IInv
  <2>1. connections \in BoundedSeq(Connection, MaxConnection)
    BY Bounded DEF Registry
  <2>2. impl \in [Connection -> 0 .. MaxSessions]
    BY DEF Sessions
  <2>3. TypeOK
    BY <2>1, <2>2 DEF TypeOK, Registry, Sessions, Client, Rows, Service
  <2>4. ExecutesOnItsConnection
    BY DEF ExecutesOnItsConnection, Prepared
  <2>5. QED BY <2>3, <2>4 DEF StatementInvariant
<1>2. QED BY <1>1, InvariantHolds, PTL

(* SqliteStatement::do_fetch and its m_fetchIsDone: the row that do_execute *)
(* has read is neither lost nor fetched twice, for any number of rows and   *)
(* with the execution after a fetch, or after a fetch beyond the end.       *)
THEOREM RowsAreFetchedInOrder == Spec => []RowsAreFetchedOnce
<1>1. IInv => RowsAreFetchedOnce
  BY DEF IInv, Rows, RowsAreFetchedOnce
<1>2. QED BY <1>1, InvariantHolds, PTL

(* Database::do_initialize and createConnection: the service does not run   *)
(* with connections none of which was opened, though a client may lock,     *)
(* recover and lose them during the initialization, and what is registered  *)
(* while it runs has been opened.                                           *)
THEOREM RunningIsConnected == Spec => InitializedMeansConnected
<1> DEFINE Connected ==
             /\ status = "initializing" /\ status' = "running" =>
                  connections = <<>> \/ \E k \in Range(connections) : IsOpen(k) \/ k = guard
             /\ status = "running" /\ Len(connections') > Len(connections) => impl'[Last(connections')] # None
<1>1. ASSUME IInv, [Next]_vars
      PROVE  Connected
  <2> USE Constants DEF IInv
  <2>1. Len(connections) \in Nat /\ connections \in Seq(Connection)
    BY <1>1 DEF Registry
  <2>2. ASSUME status = "initializing", status' = "running"
        PROVE  connections = <<>> \/ \E k \in Range(connections) : IsOpen(k) \/ k = guard
    <3>1. InitializeEnds
      BY <1>1, <2>2 DEF Next, vars, CreateConnection, Find, Initialize, InitializeNext, Stop, StopNext, StopEnds,
                        Lock, Prepare, Execute, Fetch, FetchAgain, Leave, serviceVars
    <3>2. walk > Len(connections) /\ ~ (counter = 0 /\ error)
      BY <2>2, <3>1 DEF InitializeEnds, NoneAvailable
    <3>3. /\ walk \in Nat /\ counter \in Nat /\ walk <= Len(connections) + 1 /\ (error \/ counter = walk - 1)
          /\ counter > 0 => \/ \E i \in 1 .. walk - 1 : IsOpen(connections[i])
                            \/ \E i \in DOMAIN connections : connections[i] = guard
      BY <1>1, <2>2 DEF Service
    <3>4. CASE counter > 0
      <4>1. \E i \in DOMAIN connections : IsOpen(connections[i]) \/ connections[i] = guard
        BY <2>1, <3>3, <3>4
      <4>2. QED BY <4>1 DEF Range
    <3>5. CASE counter = 0
      <4>1. ~ error
        BY <3>2, <3>5
      <4>2. Len(connections) = 0
        BY <2>1, <3>2, <3>3, <3>5, <4>1
      <4>3. QED BY <2>1, <4>2
    <3>6. QED BY <3>3, <3>4, <3>5
  <2>3. ASSUME status = "running", Len(connections') > Len(connections)
        PROVE  impl'[Last(connections')] # None
    <3>1. PICK name \in Names : CreateConnection(name)
      <4>1. connections' # connections /\ connections' # <<>>
        BY <2>1, <2>3
      <4>2. QED BY <1>1, <4>1
            DEF Next, vars, Find, Initialize, InitializeEnds, InitializeNext, Stop, StopNext, StopEnds,
                Lock, Prepare, Execute, Fetch, FetchAgain, Leave, registryVars
    <3> DEFINE k == <<name, created>>
    <3>2. k \in Connection
      BY <1>1, <3>1 DEF CreateConnection, Connection, Registry
    <3>3. connections' = IF impl'[k] # None THEN Append(connections, k) ELSE connections
      BY <2>3, <3>1 DEF CreateConnection, Registered
    <3>4. impl'[k] # None /\ connections' = Append(connections, k)
      BY <2>1, <2>3, <3>3
    <3>5. Last(connections') = k
      BY <2>1, <3>2, <3>4 DEF Last
    <3>6. QED BY <3>4, <3>5
  <2>4. QED BY <2>2, <2>3
<1>2. IInv /\ [Next]_vars => [Connected]_vars
  BY <1>1
<1>3. QED BY <1>2, InvariantHolds, PTL DEF Spec, InitializedMeansConnected
=============================================================================
