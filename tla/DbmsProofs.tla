----------------------------- MODULE DbmsProofs -----------------------------
(***************************************************************************)
(* Theorems about DbmsConnection, for every set of clients, every bound,   *)
(* and every set of settings: the types, whose connection and whose writes *)
(* they are, and that the writes of a guard are committed as a whole.  And *)
(* about GuardStatements, for all clients, connections and statements,     *)
(* whichever connection a client uses and whichever statements it takes,   *)
(* in any order, the same one twice included.                              *)
(***************************************************************************)
EXTENDS DbmsConnection, GuardStatements, FiniteSetTheorems, TLAPS

(* Whose m_mutex is, and what follows for the counters and the writes.     *)
Ownership ==
    /\ \A c \in Clients : pc[c] = "inside" => mutex = c
    /\ mutex # Nobody => pc[mutex] \in {"inside", "refused"}
    /\ lockingCounter = IF mutex = Nobody THEN 0 ELSE 1
    /\ \A c \in Clients :
          pc[c] \in {"outside", "locking"} =>
             done[c] = 0 /\ told[c] = "nothing" /\ atFailure[c] = NotFailed
    /\ \A c \in Clients : pc[c] = "inside" => commitPending <= done[c] + 1
    /\ \A w \in session \union table : w[2] <= done[w[1]]

Typed == TypeOK /\ Ownership

-----------------------------------------------------------------------------
(* Lemmas about writes. *)

LEMMA WritesBounded ==
    ASSUME NEW c \in Clients, NEW W \in SUBSET Write
    PROVE  /\ IsFiniteSet(WritesOf(c, W))
           /\ Cardinality(WritesOf(c, W)) \in 0 .. MaxWrites
<1> DEFINE f == [w \in WritesOf(c, W) |-> w[2]]
<1>1. MaxWrites \in Nat
  BY ConnectionAssumption
<1>2. \A w \in WritesOf(c, W) : w = <<c, w[2]>> /\ w[2] \in 1 .. MaxWrites
  BY DEF WritesOf, Write
<1>3. f \in Injection(WritesOf(c, W), 1 .. MaxWrites)
  BY <1>2 DEF Injection, IsInjective
<1>4. IsFiniteSet(1 .. MaxWrites) /\ Cardinality(1 .. MaxWrites) = MaxWrites
  BY <1>1, FS_Interval
<1>5. IsFiniteSet(WritesOf(c, W)) /\ Cardinality(WritesOf(c, W)) <= MaxWrites
  BY <1>3, <1>4, FS_Injection
<1>6. Cardinality(WritesOf(c, W)) \in Nat
  BY <1>5, FS_CardinalityType
<1>7. QED BY <1>1, <1>5, <1>6

LEMMA AllWritesCounted ==
    ASSUME NEW c \in Clients, NEW n \in Nat
    PROVE  Cardinality({c} \X (1 .. n)) = n
<1>1. IsFiniteSet({c}) /\ Cardinality({c}) = 1
  BY FS_Singleton
<1>2. IsFiniteSet(1 .. n) /\ Cardinality(1 .. n) = n
  BY FS_Interval
<1>3. Cardinality({c} \X (1 .. n)) = 1 * n
  BY <1>1, <1>2, FS_Product
<1>4. QED BY <1>3

-----------------------------------------------------------------------------
LEMMA TypedInit == Init => Typed
<1> SUFFICES ASSUME Init PROVE Typed
  OBVIOUS
<1>1. /\ lockingCounter \in 0 .. 1 /\ commitPending \in 0 .. MaxWrites + 1
      /\ done \in [Clients -> 0 .. MaxWrites]
  BY ConnectionAssumption DEF Init
<1>2. /\ rollbackPending \in BOOLEAN /\ available \in BOOLEAN /\ transaction \in BOOLEAN
  BY Zenon DEF Init
<1>3. TypeOK
  BY <1>1, <1>2 DEF Init, TypeOK
<1>4. Ownership
  BY ConnectionAssumption DEF Init, Ownership
<1>5. QED BY <1>3, <1>4 DEF Typed

(* The flags, apart from the numbers and sets: the provers of the one do   *)
(* not care for the other.                                                 *)
FlagsTyped == rollbackPending \in BOOLEAN /\ available \in BOOLEAN /\ transaction \in BOOLEAN

LEMMA FlagsStep == TypeOK /\ [Next]_vars => FlagsTyped'
<1> SUFFICES ASSUME FlagsTyped, setting \in Setting, [Next]_vars
             PROVE  FlagsTyped'
  BY ConnectionAssumption DEF TypeOK, FlagsTyped
<1> USE DEF FlagsTyped
<1>1. ASSUME NEW w, NEW t, CommitSucceeds(w, t)
      PROVE  FlagsTyped'
  BY <1>1, Zenon DEF CommitSucceeds
<1>2. ASSUME NEW w, NEW t, NEW n, CommitFails(w, t, n)
      PROVE  FlagsTyped'
  BY <1>2, Zenon DEF CommitFails
<1>3. ASSUME UNCHANGED <<rollbackPending, available, transaction>>
      PROVE  FlagsTyped'
  BY <1>3, Zenon
<1>4. CASE Break
  BY <1>4, Zenon DEF Break, connection
<1>5. ASSUME NEW c \in Clients, LockTests(c)
      PROVE  FlagsTyped'
  BY <1>5, Zenon DEF LockTests, Reopen, driver, connection
<1>6. ASSUME NEW c \in Clients, LockTakes(c)
      PROVE  FlagsTyped'
  <2>1. setting.transactions \in BOOLEAN
    BY DEF Setting
  <2>2. QED BY <1>6, <2>1, Zenon DEF LockTakes
<1>7. ASSUME NEW c \in Clients, ExecuteWrite(c)
      PROVE  FlagsTyped'
  BY <1>1, <1>2, <1>3, <1>7, Zenon DEF ExecuteWrite
<1>8. ASSUME NEW c \in Clients, ExecuteFails(c)
      PROVE  FlagsTyped'
  BY <1>8, Zenon DEF ExecuteFails, driver
<1>9. ASSUME NEW c \in Clients, ExecuteLost(c)
      PROVE  FlagsTyped'
  BY <1>9, Zenon DEF ExecuteLost, Reopen, connection
<1>10. ASSUME NEW c \in Clients, GuardCommit(c)
       PROVE  FlagsTyped'
  BY <1>1, <1>2, <1>10, Zenon DEF GuardCommit
<1>11. ASSUME NEW c \in Clients, Unlock(c)
       PROVE  FlagsTyped'
  BY <1>1, <1>2, <1>3, <1>11, Zenon DEF Unlock, CommitOrRollback, Rollback, driver
<1>12. CASE UNCHANGED vars
  BY <1>3, <1>12 DEF vars, connection, driver
<1>13. QED
  BY <1>4, <1>5, <1>6, <1>7, <1>8, <1>9, <1>10, <1>11, <1>12 DEF Next

(* What unlock leaves behind, and what a write does, commit or not.        *)
LEMMA UnlockOutcome ==
    ASSUME CommitOrRollback, TypeOK
    PROVE  /\ session' \subseteq session /\ table \subseteq table'
           /\ table' \subseteq table \union session
           /\ commitPending' \in 0 .. MaxWrites + 1
<1> USE ConnectionAssumption DEF TypeOK
<1>1. CASE Rollback
  BY <1>1 DEF Rollback
<1>2. CASE CommitSucceeds(session, table)
  BY <1>2 DEF CommitSucceeds
<1>3. CASE CommitFails(session, table, commitPending)
  BY <1>3 DEF CommitFails
<1>4. CASE UNCHANGED <<driver, commitPending, rollbackPending>>
  BY <1>4 DEF driver
<1>5. QED BY <1>1, <1>2, <1>3, <1>4 DEF CommitOrRollback

LEMMA WriteOutcome ==
    ASSUME Typed, NEW c \in Clients, ExecuteWrite(c)
    PROVE  LET w == <<c, done[c] + 1>> IN
           /\ w \in Write
           /\ session' \union table' = session \union table \union {w}
           /\ table \subseteq table' /\ session' \subseteq session \union {w}
           /\ commitPending' \in {0, commitPending + 1}
           /\ told' \in {told, [told EXCEPT ![c] = "commit"]}
<1> DEFINE w == <<c, done[c] + 1>>
<1> USE ConnectionAssumption DEF Typed, TypeOK
<1>1. /\ SessionWith(w) \union TableWith(w) = session \union table \union {w}
      /\ table \subseteq TableWith(w) /\ SessionWith(w) \subseteq session \union {w}
  BY DEF SessionWith, TableWith
<1>2. w \in Write
  BY DEF ExecuteWrite, Write
<1>4. CASE CommitSucceeds(SessionWith(w), TableWith(w)) /\ UNCHANGED told
  BY <1>1, <1>2, <1>4 DEF CommitSucceeds
<1>5. CASE CommitFails(SessionWith(w), TableWith(w), commitPending + 1) /\ told' = [told EXCEPT ![c] = "commit"]
  BY <1>1, <1>2, <1>5 DEF CommitFails
<1>6. CASE /\ session' = SessionWith(w) /\ table' = TableWith(w)
           /\ commitPending' = commitPending + 1
           /\ UNCHANGED <<rollbackPending, available, transaction, told>>
  BY <1>1, <1>2, <1>6
<1>7. QED BY <1>4, <1>5, <1>6 DEF ExecuteWrite

LEMMA TypedStep == Typed /\ [Next]_vars => Typed'
<1> SUFFICES ASSUME Typed, [Next]_vars
             PROVE  Typed'
  OBVIOUS
<1>0. FlagsTyped'
  BY FlagsStep DEF Typed
<1> USE ConnectionAssumption DEF Typed
<1>1. CASE Break
  BY <1>1 DEF Break, TypeOK, Ownership, connection
<1>2. ASSUME NEW c \in Clients, LockTests(c)
      PROVE  Typed'
  BY <1>2 DEF LockTests, Reopen, driver, connection, TypeOK, Ownership
<1>3. ASSUME NEW c \in Clients, LockTakes(c)
      PROVE  Typed'
  <2>1. /\ mutex = Nobody /\ lockingCounter = 0 /\ pc[c] = "locking" /\ done[c] = 0
    BY <1>3 DEF LockTakes, Ownership
  <2>2. setting \in Setting
    BY DEF TypeOK
  <2>3. /\ pc' \in {[pc EXCEPT ![c] = "inside"], [pc EXCEPT ![c] = "refused"]}
        /\ commitPending' \in {0, 1}
    BY <1>3, <2>2 DEF LockTakes, TypeOK, Setting
  <2>4. TypeOK'
    BY <1>0, <1>3, <2>1, <2>3 DEF LockTakes, TypeOK, FlagsTyped
  <2>5. Ownership'
    BY <1>3, <2>1, <2>3 DEF LockTakes, TypeOK, Ownership
  <2>6. QED BY <2>4, <2>5
<1>4. ASSUME NEW c \in Clients, ExecuteWrite(c)
      PROVE  Typed'
  <2>1. /\ session' \union table' = session \union table \union {<<c, done[c] + 1>>}
        /\ <<c, done[c] + 1>> \in Write
        /\ commitPending' \in {0, commitPending + 1}
        /\ told' \in {told, [told EXCEPT ![c] = "commit"]}
    BY <1>4, WriteOutcome
  <2>2. /\ pc[c] = "inside" /\ mutex = c /\ done[c] < MaxWrites /\ done[c] \in 0 .. MaxWrites
        /\ commitPending <= done[c] + 1 /\ commitPending \in Nat
    BY <1>4 DEF ExecuteWrite, Executes, TypeOK, Ownership
  <2>3. /\ done' = [done EXCEPT ![c] = @ + 1]
        /\ wentOn' \in {wentOn, wentOn \union {c}}
        /\ UNCHANGED <<mutex, lockingCounter, pc, atFailure, broken, setting>>
    BY <1>4 DEF ExecuteWrite
  <2>4. TypeOK'
    BY <1>0, <2>1, <2>2, <2>3 DEF TypeOK, FlagsTyped
  <2>5. \A w \in (session \union table)' : w[2] <= done'[w[1]]
    <3> SUFFICES ASSUME NEW w \in session \union table \union {<<c, done[c] + 1>>}
                 PROVE  w[2] <= done'[w[1]]
      BY <2>1
    <3>1. CASE w = <<c, done[c] + 1>>
      BY <3>1, <2>2, <2>3 DEF TypeOK
    <3>2. CASE w \in session \union table
      <4>1. w[1] \in Clients /\ w[2] \in 1 .. MaxWrites /\ w[2] <= done[w[1]]
        BY <3>2 DEF TypeOK, Ownership, Write
      <4>2. done[w[1]] <= done'[w[1]] /\ done[w[1]] \in Nat /\ done'[w[1]] \in Nat
        BY <4>1, <2>2, <2>3 DEF TypeOK
      <4>3. QED BY <4>1, <4>2
    <3>3. QED BY <3>1, <3>2
  <2>6. \A d \in Clients : pc'[d] = "inside" => commitPending' <= done'[d] + 1
    BY <2>1, <2>2, <2>3 DEF TypeOK, Ownership
  <2>7. \A d \in Clients : pc'[d] \in {"outside", "locking"} =>
             done'[d] = 0 /\ told'[d] = "nothing" /\ atFailure'[d] = NotFailed
    BY <2>1, <2>2, <2>3 DEF TypeOK, Ownership
  <2>8. QED BY <2>3, <2>4, <2>5, <2>6, <2>7 DEF Ownership
<1>5. ASSUME NEW c \in Clients, ExecuteFails(c)
      PROVE  Typed'
  <2>1. Cardinality(WritesOf(c, table)) \in 0 .. MaxWrites
    BY WritesBounded DEF TypeOK
  <2>2. QED
    BY <1>5, <2>1 DEF ExecuteFails, Executes, driver, TypeOK, Ownership
<1>6. ASSUME NEW c \in Clients, ExecuteLost(c)
      PROVE  Typed'
  <2>1. Cardinality(WritesOf(c, table)) \in 0 .. MaxWrites
    BY WritesBounded DEF TypeOK
  <2>2. QED
    BY <1>6, <2>1 DEF ExecuteLost, Executes, Reopen, connection, TypeOK, Ownership
<1>7. ASSUME NEW c \in Clients, GuardCommit(c)
      PROVE  Typed'
  <2>1. /\ pc[c] = "inside"
        /\ UNCHANGED <<mutex, lockingCounter, pc, done, atFailure, broken, setting>>
    BY <1>7 DEF GuardCommit
  <2>2. CASE CommitSucceeds(session, table) /\ wentOn' \in {wentOn, wentOn \union {c}} /\ UNCHANGED told
    BY <1>0, <2>1, <2>2 DEF CommitSucceeds, TypeOK, Ownership, FlagsTyped
  <2>3. CASE /\ CommitFails(session, table, commitPending) /\ told' = [told EXCEPT ![c] = "commit"]
             /\ UNCHANGED wentOn
    BY <1>0, <2>1, <2>3 DEF CommitFails, TypeOK, Ownership, FlagsTyped
  <2>4. QED BY <1>7, <2>2, <2>3 DEF GuardCommit
<1>8. ASSUME NEW c \in Clients, Unlock(c)
      PROVE  Typed'
  <2>1. /\ session' \subseteq session /\ table' \subseteq table \union session
        /\ commitPending' \in 0 .. MaxWrites + 1
    BY <1>8, UnlockOutcome DEF Unlock
  <2>2. /\ pc[c] = "inside" /\ mutex = c /\ mutex' = Nobody /\ lockingCounter' = 0
        /\ pc' = [pc EXCEPT ![c] = "left"]
        /\ UNCHANGED <<done, told, atFailure, wentOn, broken, setting>>
    BY <1>8 DEF Unlock, Ownership
  <2>3. TypeOK'
    BY <1>0, <2>1, <2>2 DEF TypeOK, FlagsTyped
  <2>4. Ownership'
    BY <2>1, <2>2 DEF TypeOK, Ownership
  <2>5. QED BY <2>3, <2>4
<1>9. CASE UNCHANGED vars
  BY <1>9 DEF vars, connection, driver, guards, TypeOK, Ownership
<1>10. QED
  BY <1>1, <1>2, <1>3, <1>4, <1>5, <1>6, <1>7, <1>8, <1>9 DEF Next

(* Every variable of the connection, its driver and its guards keeps its   *)
(* type, and nothing is done to the connection by a guard that is not its  *)
(* owner, whatever the driver does.                                        *)
THEOREM DbmsTypeCorrect == Spec => []Typed
<1>1. QED BY TypedInit, TypedStep, PTL DEF Spec

-----------------------------------------------------------------------------
(* A guard that failed.  Nothing here depends on what the driver does.     *)

Inside == {w \in Write : pc[w[1]] = "inside"}

(* What a step may do to the writes.                                       *)
LEMMA StepWrites ==
    ASSUME Typed, [Next]_vars
    PROVE  /\ table \subseteq table'
           /\ session' \subseteq session \union Inside
           /\ table' \subseteq table \union session \union Inside
<1> DEFINE Goal == /\ table \subseteq table'
                   /\ session' \subseteq session \union Inside
                   /\ table' \subseteq table \union session \union Inside
<1> SUFFICES Goal
  OBVIOUS
<1>1. CASE UNCHANGED <<session, table>>
  BY <1>1
<1>2. CASE Reopen
  BY <1>2 DEF Reopen
<1>3. ASSUME NEW c \in Clients, ExecuteWrite(c)
      PROVE  Goal
  <2>1. pc[c] = "inside"
    BY <1>3 DEF ExecuteWrite, Executes
  <2>2. /\ <<c, done[c] + 1>> \in Write
        /\ session' \union table' = session \union table \union {<<c, done[c] + 1>>}
        /\ table \subseteq table'
        /\ session' \subseteq session \union {<<c, done[c] + 1>>}
    BY <1>3, WriteOutcome
  <2>3. <<c, done[c] + 1>> \in Inside
    BY <2>1, <2>2 DEF Inside
  <2>4. QED BY <2>2, <2>3
<1>4. ASSUME NEW c \in Clients, GuardCommit(c)
      PROVE  Goal
  BY <1>4 DEF GuardCommit, CommitSucceeds, CommitFails
<1>5. ASSUME NEW c \in Clients, Unlock(c)
      PROVE  Goal
  BY <1>5, UnlockOutcome DEF Unlock, Typed
<1>6. CASE Next
  BY <1>1, <1>2, <1>3, <1>4, <1>5, <1>6
     DEF Next, Break, LockTests, LockTakes, ExecuteFails, ExecuteLost, driver
<1>7. QED BY <1>1, <1>6 DEF vars, driver

LEMMA OthersKeepTheirs ==
    ASSUME Typed, [Next]_vars, NEW d \in Clients, pc[d] # "inside", WritesOf(d, session) = {}
    PROVE  /\ WritesOf(d, session') = {}
           /\ WritesOf(d, table') = WritesOf(d, table)
<1>1. /\ table \subseteq table'
      /\ session' \subseteq session \union Inside
      /\ table' \subseteq table \union session \union Inside
  BY StepWrites
<1>2. WritesOf(d, Inside) = {}
  BY DEF WritesOf, Inside
<1>3. QED BY <1>1, <1>2 DEF WritesOf

(* The rollback of a guard that failed is pending until it has happened,   *)
(* or the session it wrote to is lost, and nothing of it can reach the     *)
(* table any more unless it writes again.                                  *)
Rollbacks ==
    \A c \in Clients \ wentOn : atFailure[c] # NotFailed =>
        /\ pc[c] = "inside" => rollbackPending \/ WritesOf(c, session) = {}
        /\ pc[c] = "left" => WritesOf(c, session) = {}
        /\ pc[c] \in {"inside", "left"} => Cardinality(WritesOf(c, table)) = atFailure[c]

LEMMA RollbacksInit == Init => Rollbacks
BY DEF Init, Rollbacks

LEMMA RollbacksStep == Typed /\ Rollbacks /\ [Next]_vars => Rollbacks'
<1> SUFFICES ASSUME Typed, Rollbacks, [Next]_vars, NEW d \in Clients \ wentOn', atFailure'[d] # NotFailed
             PROVE  /\ pc'[d] = "inside" => rollbackPending' \/ WritesOf(d, session') = {}
                    /\ pc'[d] = "left" => WritesOf(d, session') = {}
                    /\ pc'[d] \in {"inside", "left"} =>
                          Cardinality(WritesOf(d, table')) = atFailure'[d]
  BY DEF Rollbacks
<1> DEFINE Goal == /\ pc'[d] = "inside" => rollbackPending' \/ WritesOf(d, session') = {}
                   /\ pc'[d] = "left" => WritesOf(d, session') = {}
                   /\ pc'[d] \in {"inside", "left"} =>
                           Cardinality(WritesOf(d, table')) = atFailure'[d]
<1>0. /\ pc \in [Clients -> {"outside", "locking", "inside", "refused", "left"}]
      /\ atFailure \in [Clients -> {NotFailed} \union 0 .. MaxWrites]
      /\ \A c \in Clients : pc[c] = "inside" => mutex = c
      /\ Nobody \notin Clients
  BY ConnectionAssumption DEF Typed, TypeOK, Ownership
(* Steps of others, after d has left. *)
<1>1. ASSUME pc[d] = "left", pc'[d] = "left", atFailure'[d] = atFailure[d], d \notin wentOn
      PROVE  Goal
  <2>1. WritesOf(d, session) = {} /\ Cardinality(WritesOf(d, table)) = atFailure[d]
    BY <1>1 DEF Rollbacks
  <2>2. WritesOf(d, session') = {} /\ WritesOf(d, table') = WritesOf(d, table)
    BY <1>1, <2>1, OthersKeepTheirs
  <2>3. QED BY <1>1, <2>1, <2>2
(* Steps that do not touch what this is about. *)
<1>2. ASSUME UNCHANGED <<table, atFailure>>, rollbackPending => rollbackPending',
             session' \subseteq session, pc'[d] \in {"inside", "left"} => pc'[d] = pc[d], d \notin wentOn
      PROVE  Goal
  BY <1>2 DEF Rollbacks, WritesOf
<1>3. CASE Break
  BY <1>2, <1>3 DEF Break, connection
<1>4. ASSUME NEW c \in Clients, LockTests(c)
      PROVE  Goal
  BY <1>0, <1>2, <1>4 DEF LockTests, Reopen, driver, connection
<1>5. ASSUME NEW c \in Clients, LockTakes(c)
      PROVE  Goal
  <2>1. /\ mutex = Nobody /\ UNCHANGED <<session, table, atFailure, wentOn>>
        /\ pc'[d] # pc[d] => d = c /\ pc[c] = "locking"
    BY <1>0, <1>5 DEF LockTakes
  <2>2. pc[d] # "locking"
    BY <2>1 DEF Typed, Ownership
  <2>3. pc'[d] = pc[d] /\ pc[d] # "inside"
    BY <1>0, <2>1, <2>2
  <2>4. QED BY <1>1, <2>1, <2>3
<1>6. ASSUME NEW c \in Clients, ExecuteWrite(c)
      PROVE  Goal
  <2>1. /\ pc[c] = "inside" /\ UNCHANGED <<pc, atFailure>>
        /\ wentOn' = IF atFailure[c] = NotFailed THEN wentOn ELSE wentOn \union {c}
    BY <1>6 DEF ExecuteWrite, Executes
  <2>2. d # c /\ pc[d] # "inside" /\ d \notin wentOn
    BY <1>0, <2>1
  <2>3. QED BY <1>1, <2>1, <2>2
<1>7. ASSUME NEW c \in Clients, ExecuteFails(c)
      PROVE  Goal
  <2>1. /\ pc[c] = "inside" /\ rollbackPending' = TRUE
        /\ UNCHANGED <<pc, session, table, wentOn>>
        /\ atFailure' = [atFailure EXCEPT ![c] = Cardinality(WritesOf(c, table))]
    BY <1>7 DEF ExecuteFails, Executes, driver
  <2>2. CASE d = c
    BY <1>0, <2>1, <2>2
  <2>3. CASE d # c
    BY <1>0, <1>1, <2>1, <2>3
  <2>4. QED BY <2>2, <2>3
<1>8. ASSUME NEW c \in Clients, ExecuteLost(c)
      PROVE  Goal
  <2>1. /\ pc[c] = "inside" /\ session' = {}
        /\ UNCHANGED <<pc, table, wentOn>>
        /\ atFailure' = [atFailure EXCEPT ![c] = Cardinality(WritesOf(c, table))]
    BY <1>8 DEF ExecuteLost, Executes, Reopen
  <2>2. CASE d = c
    BY <1>0, <2>1, <2>2 DEF WritesOf
  <2>3. CASE d # c
    BY <1>0, <1>1, <2>1, <2>3
  <2>4. QED BY <2>2, <2>3
<1>9. ASSUME NEW c \in Clients, GuardCommit(c)
      PROVE  Goal
  <2>1. pc[c] = "inside" /\ UNCHANGED <<pc, atFailure>> /\ wentOn \subseteq wentOn'
    BY <1>9 DEF GuardCommit
  <2>2. CASE d # c
    BY <1>0, <1>1, <2>1, <2>2
  <2>3. CASE d = c
    <3>1. /\ rollbackPending \/ WritesOf(d, session) = {}
          /\ Cardinality(WritesOf(d, table)) = atFailure[d]
      BY <2>1, <2>3 DEF Rollbacks
    <3>2. CASE CommitFails(session, table, commitPending)
      BY <1>2, <2>1, <3>2 DEF CommitFails
    <3>3. CASE CommitSucceeds(session, table) /\ ~ rollbackPending
      <4>1. session' = {} /\ table' = table \union session
        BY <3>3 DEF CommitSucceeds
      <4>2. WritesOf(d, session') = {} /\ WritesOf(d, table') = WritesOf(d, table)
        BY <3>1, <3>3, <4>1 DEF WritesOf
      <4>3. QED BY <2>1, <3>1, <4>2
    <3>4. QED BY <1>9, <2>3, <3>2, <3>3 DEF GuardCommit
  <2>4. QED BY <2>2, <2>3
<1>10. ASSUME NEW c \in Clients, Unlock(c)
       PROVE  Goal
  <2>1. /\ pc[c] = "inside" /\ CommitOrRollback /\ UNCHANGED <<atFailure, wentOn>>
        /\ pc' = [pc EXCEPT ![c] = "left"]
    BY <1>10 DEF Unlock
  <2>2. CASE d # c
    BY <1>0, <1>1, <2>1, <2>2
  <2>3. CASE d = c
    <3>1. /\ rollbackPending \/ WritesOf(d, session) = {}
          /\ Cardinality(WritesOf(d, table)) = atFailure[d]
      BY <2>1, <2>3 DEF Rollbacks
    <3>2. CASE rollbackPending
      <4>1. session' = {} /\ table' = table
        BY <2>1, <3>2 DEF CommitOrRollback, Rollback
      <4>2. QED BY <1>0, <2>1, <2>3, <3>1, <4>1 DEF WritesOf
    <3>3. CASE WritesOf(d, session) = {}
      <4>1. /\ session' \subseteq session /\ table \subseteq table'
            /\ table' \subseteq table \union session
        BY <2>1, UnlockOutcome DEF Typed
      <4>2. WritesOf(d, session') = {} /\ WritesOf(d, table') = WritesOf(d, table)
        BY <3>3, <4>1 DEF WritesOf
      <4>3. QED BY <1>0, <2>1, <2>3, <3>1, <4>2
    <3>4. QED BY <3>1, <3>2, <3>3
  <2>4. QED BY <2>2, <2>3
<1>11. CASE UNCHANGED vars
  BY <1>2, <1>11 DEF vars, connection, driver, guards
<1>12. QED
  BY <1>3, <1>4, <1>5, <1>6, <1>7, <1>8, <1>9, <1>10, <1>11 DEF Next

(* A guard one of whose critical statements failed, or found its           *)
(* connection lost, adds nothing to what it had committed then, unless its *)
(* client goes on: it commits by itself, or writes again after a loss      *)
(* (execute, recover and unlock, for every driver, also one whose commits  *)
(* fail).                                                                  *)
THEOREM FailedGuardsAddNothing == Spec => []FailedGuardAddsNothing
<1>1. Rollbacks => FailedGuardAddsNothing
  BY DEF Rollbacks, FailedGuardAddsNothing, AddsNothing
<1>2. QED
  BY <1>1, RollbacksInit, RollbacksStep, DbmsTypeCorrect, PTL DEF Spec

-----------------------------------------------------------------------------
(* Drivers whose do_commit fails only when it has lost the connection, or  *)
(* has no transaction: what is between the guards, and who commits what.   *)
NeverBusy == \A s \in Settings : ~ s.busyCommits

(* The session of an available connection is that of the guard that has    *)
(* it; one that holds nothing to commit has nothing in its session.        *)
Owned == mutex # Nobody /\ pc[mutex] = "inside"
Clean == session = {} /\ ~ transaction
Sessions ==
    /\ transaction => setting.transactions
    /\ setting.transactions /\ ~ transaction => session = {}
    /\ available => \A w \in session : w[1] = mutex
    /\ available /\ ~ Owned => Clean
    /\ available /\ commitPending = 0 => Clean

LEMMA SessionsInit == Init => Sessions
BY Zenon DEF Init, Sessions, Clean

LEMMA CleanKeeps == (session = {} /\ ~ transaction)' => Sessions'
BY DEF Sessions, Clean

LEMMA SessionsStep ==
    ASSUME NeverBusy, Typed, Sessions, [Next]_vars
    PROVE  Sessions'
<1>0. /\ setting \in Setting /\ ~ setting.busyCommits
      /\ pc \in [Clients -> {"outside", "locking", "inside", "refused", "left"}]
      /\ \A c \in Clients : pc[c] = "inside" => mutex = c
      /\ Nobody \notin Clients
      /\ commitPending \in Nat
  BY ConnectionAssumption DEF Typed, TypeOK, Ownership, NeverBusy
<1>1. ASSUME UNCHANGED <<transaction, session, commitPending, setting, mutex, pc>>, available' => available
      PROVE  Sessions'
  BY <1>1 DEF Sessions, Owned, Clean
<1>2. ASSUME NEW w, NEW t, CommitSucceeds(w, t)
      PROVE  Sessions'
  BY <1>2, CleanKeeps DEF CommitSucceeds
<1>3. ASSUME UNCHANGED session, UNCHANGED transaction, UNCHANGED available, UNCHANGED setting,
             UNCHANGED commitPending, ~ available \/ Clean
      PROVE  Sessions'
  BY <1>3 DEF Sessions, Clean
<1>4. CASE Break
  BY <1>1, <1>4 DEF Break, connection
<1>5. ASSUME NEW c \in Clients, LockTests(c)
      PROVE  Sessions'
  <2>1. CASE ~ available
    BY <1>5, <2>1, CleanKeeps DEF LockTests, Reopen
  <2>2. CASE available
    <3>1. /\ UNCHANGED <<transaction, session, available, commitPending, setting, mutex>>
          /\ pc[c] = "outside" /\ pc' = [pc EXCEPT ![c] = "locking"]
      BY <1>5, <2>2 DEF LockTests, driver, connection
    <3>2. Owned => Owned'
      BY <1>0, <3>1 DEF Owned
    <3>3. QED BY <3>1, <3>2 DEF Sessions, Clean
  <2>3. QED BY <2>1, <2>2
<1>6. ASSUME NEW c \in Clients, LockTakes(c)
      PROVE  Sessions'
  <2>1. /\ mutex = Nobody /\ mutex' = c /\ pc[c] = "locking"
        /\ UNCHANGED <<session, available, setting>>
    BY <1>6 DEF LockTakes
  <2>2. available => Clean
    BY <2>1 DEF Sessions, Owned
  <2>3. CASE BeginSucceeds
    <3>1. /\ pc' = [pc EXCEPT ![c] = "inside"]
          /\ transaction' = setting.transactions
          /\ commitPending' = IF setting.transactions THEN 1 ELSE 0
          /\ setting.transactions => available /\ ~ transaction
      BY <1>6, <2>3 DEF LockTakes, BeginSucceeds
    <3>2. Owned'
      BY <1>0, <2>1, <3>1 DEF Owned
    <3>3. setting.transactions => session = {}
      BY <2>2, <3>1 DEF Clean
    <3>4. available' => session' = {}
      BY <2>1, <2>2 DEF Clean
    <3>5. ~ setting.transactions => ~ transaction'
      BY <3>1
    <3>6. available' /\ commitPending' = 0 => Clean'
      BY <3>1, <3>4, <3>5 DEF Clean
    <3>7. /\ transaction' => setting'.transactions
          /\ setting'.transactions /\ ~ transaction' => session' = {}
      BY <2>1, <3>1, <3>3
    <3>8. QED BY <3>2, <3>4, <3>6, <3>7 DEF Sessions
  <2>4. CASE ~ BeginSucceeds
    <3>1. UNCHANGED transaction
      BY <1>6, <2>4 DEF LockTakes
    <3>2. ~ available
      BY <2>2, <2>4 DEF BeginSucceeds, Clean
    <3>3. QED BY <2>1, <3>1, <3>2 DEF Sessions, Clean
  <2>5. QED BY <2>3, <2>4
<1>7. ASSUME NEW c \in Clients, ExecuteWrite(c)
      PROVE  Sessions'
  <2> DEFINE w == <<c, done[c] + 1>>
  <2>1. /\ pc[c] = "inside" /\ mutex = c /\ available /\ UNCHANGED <<mutex, pc, setting>>
    BY <1>0, <1>7 DEF ExecuteWrite, Executes
  <2>2. Owned /\ Owned'
    BY <1>0, <2>1 DEF Owned
  <2>3. \A x \in SessionWith(w) : x[1] = mutex
    BY <2>1 DEF Sessions, SessionWith
  <2>4. setting.transactions /\ ~ transaction => SessionWith(w) = {}
    BY DEF Sessions, SessionWith, Autocommit
  <2>5. ASSUME session' = SessionWith(w), UNCHANGED transaction, UNCHANGED available,
               commitPending' = commitPending + 1
        PROVE  Sessions'
    <3>1. commitPending' # 0
      BY <1>0, <2>5
    <3>2. QED BY <2>1, <2>2, <2>3, <2>4, <2>5, <3>1 DEF Sessions, Clean
  <2>6. QED BY <1>2, <1>7, <2>5 DEF ExecuteWrite, CommitFails
<1>8. ASSUME NEW c \in Clients, ExecuteFails(c)
      PROVE  Sessions'
  BY <1>1, <1>8 DEF ExecuteFails, driver
<1>9. ASSUME NEW c \in Clients, ExecuteLost(c)
      PROVE  Sessions'
  BY <1>9, CleanKeeps DEF ExecuteLost, Reopen
<1>10. ASSUME NEW c \in Clients, GuardCommit(c)
       PROVE  Sessions'
  BY <1>1, <1>2, <1>10 DEF GuardCommit, CommitFails
<1>11. ASSUME NEW c \in Clients, Unlock(c)
       PROVE  Sessions'
  <2>1. CommitOrRollback /\ UNCHANGED setting
    BY <1>11 DEF Unlock
  <2>2. CASE rollbackPending
    BY <2>1, <2>2, CleanKeeps DEF CommitOrRollback, Rollback
  <2>3. CASE ~ rollbackPending /\ commitPending > 0
    <3>1. CASE CommitSucceeds(session, table)
      BY <1>2, <3>1
    <3>2. CASE CommitFails(session, table, commitPending)
      <4>1. ~ available \/ (setting.transactions /\ ~ transaction)
        BY <1>0, <3>2 DEF CommitFails
      <4>2. ~ available \/ Clean
        BY <4>1 DEF Sessions, Clean
      <4>3. QED BY <1>3, <2>1, <3>2, <4>2 DEF CommitFails
    <3>3. QED BY <2>1, <2>3, <3>1, <3>2 DEF CommitOrRollback
  <2>4. CASE ~ rollbackPending /\ ~ commitPending > 0
    <3>1. commitPending = 0
      BY <1>0, <2>4
    <3>2. ~ available \/ Clean
      BY <3>1 DEF Sessions
    <3>3. QED BY <1>3, <2>1, <2>4, <3>2 DEF CommitOrRollback, driver
  <2>5. QED BY <2>2, <2>3, <2>4
<1>12. CASE UNCHANGED vars
  BY <1>1, <1>12 DEF vars, connection, driver, guards
<1>13. QED
  BY <1>4, <1>5, <1>6, <1>7, <1>8, <1>9, <1>10, <1>11, <1>12 DEF Next

(* Between two guards an available connection has nothing in its session   *)
(* and no transaction, for drivers whose commits do not fail for another   *)
(* reason: lock never finds the transaction of another guard.              *)
THEOREM ConnectionIsClean == ASSUME NeverBusy PROVE Spec => []ConnectionInvariant
<1>1. Sessions => NothingLeftBehind
  BY DEF Sessions, NothingLeftBehind, Owned, Clean
<1>2. Typed /\ Sessions /\ [Next]_vars => Sessions'
  BY SessionsStep
<1>3. Typed /\ Sessions => ConnectionInvariant
  BY <1>1 DEF Typed, ConnectionInvariant
<1>4. QED
  BY <1>2, <1>3, SessionsInit, DbmsTypeCorrect, PTL DEF Spec

LEMMA TableStep ==
    ASSUME NeverBusy, Typed, Sessions, [Next]_vars
    PROVE  \A w \in table' \ table : w[1] = mutex
<1> SUFFICES ASSUME NEW w \in table' \ table PROVE w[1] = mutex
  OBVIOUS
<1>0. \A c \in Clients : pc[c] = "inside" => mutex = c
  BY DEF Typed, Ownership
<1>1. available => \A x \in session : x[1] = mutex
  BY DEF Sessions
<1>2. ASSUME NEW c \in Clients, ExecuteWrite(c)
      PROVE  w[1] = mutex
  <2> DEFINE x == <<c, done[c] + 1>>
  <2>1. mutex = c /\ \A y \in session : y[1] = mutex
    BY <1>0, <1>1, <1>2 DEF ExecuteWrite, Executes
  <2>2. table' \in {TableWith(x), TableWith(x) \union SessionWith(x)}
    BY <1>2 DEF ExecuteWrite, CommitSucceeds, CommitFails
  <2>3. w \in session \/ w = x
    BY <2>2 DEF SessionWith, TableWith
  <2>4. QED BY <2>1, <2>3
<1>3. ASSUME NEW c \in Clients, GuardCommit(c)
      PROVE  w[1] = mutex
  BY <1>1, <1>3 DEF GuardCommit, CommitSucceeds, CommitFails
<1>4. ASSUME NEW c \in Clients, Unlock(c)
      PROVE  w[1] = mutex
  BY <1>1, <1>4 DEF Unlock, CommitOrRollback, Rollback, CommitSucceeds, CommitFails, driver
<1>5. QED
  BY <1>2, <1>3, <1>4
     DEF Next, vars, driver, Break, LockTests, LockTakes, Reopen, ExecuteFails, ExecuteLost

(* Every write that becomes committed is one of the guard that has the     *)
(* connection at that moment, for drivers whose commits do not fail for    *)
(* another reason: what is in the session when commit is called.           *)
THEOREM GuardsCommitTheirOwn == ASSUME NeverBusy PROVE Spec => CommitsOwnWritesOnly
<1>1. Typed /\ Sessions /\ [Next]_vars => Sessions'
  BY SessionsStep
<1>2. Typed /\ Sessions /\ [Next]_vars => [\A w \in table' \ table : w[1] = mutex]_vars
  BY TableStep
<1>3. QED
  BY <1>1, <1>2, SessionsInit, DbmsTypeCorrect, PTL DEF Spec, CommitsOwnWritesOnly

-----------------------------------------------------------------------------
(* A guard that has thrown nothing.                                        *)

AllWrites(c) == {c} \X (1 .. done[c])

(* Its writes are all in the session or the table; when the connection is  *)
(* gone without it noticing, it has none.                                  *)
Commits ==
    \A c \in Clients \ broken : told[c] = "nothing" =>
        /\ pc[c] = "inside" =>
              /\ ~ rollbackPending
              /\ WritesOf(c, session \union table) = AllWrites(c)
              /\ ~ available => done[c] = 0
        /\ pc[c] = "left" => WritesOf(c, table) = AllWrites(c)

LEMMA NothingDone ==
    ASSUME NEW c \in Clients, Typed, done[c] = 0
    PROVE  WritesOf(c, session \union table) = {} /\ AllWrites(c) = {}
<1>1. \A w \in session \union table : w[2] \in 1 .. MaxWrites /\ w[2] <= done[w[1]]
  BY DEF Typed, TypeOK, Ownership, Write
<1>2. WritesOf(c, session \union table) = {}
  BY <1>1, ConnectionAssumption DEF WritesOf
<1>3. QED BY <1>2 DEF AllWrites

LEMMA OneMoreDone ==
    ASSUME NEW c \in Clients, NEW n \in Nat
    PROVE  {c} \X (1 .. n + 1) = ({c} \X (1 .. n)) \union {<<c, n + 1>>}
<1>1. 1 .. n + 1 = (1 .. n) \union {n + 1}
  OBVIOUS
<1>2. QED BY <1>1

LEMMA CommitsInit == Init => Commits
BY DEF Init, Commits

LEMMA CommitsStep ==
    ASSUME NeverBusy, Typed, Sessions, Commits, [Next]_vars
    PROVE  Commits'
<1> SUFFICES ASSUME NEW d \in Clients \ broken', told'[d] = "nothing"
             PROVE  /\ pc'[d] = "inside" =>
                          /\ ~ rollbackPending'
                          /\ WritesOf(d, session' \union table') = AllWrites(d)'
                          /\ ~ available' => done'[d] = 0
                    /\ pc'[d] = "left" => WritesOf(d, table') = AllWrites(d)'
  BY DEF Commits
<1> DEFINE Goal == /\ pc'[d] = "inside" =>
                          /\ ~ rollbackPending'
                          /\ WritesOf(d, session' \union table') = AllWrites(d)'
                          /\ ~ available' => done'[d] = 0
                   /\ pc'[d] = "left" => WritesOf(d, table') = AllWrites(d)'
<1>0. /\ setting \in Setting /\ ~ setting.busyCommits
      /\ pc \in [Clients -> {"outside", "locking", "inside", "refused", "left"}]
      /\ done \in [Clients -> 0 .. MaxWrites]
      /\ told \in [Clients -> {"nothing", "failed", "lost", "commit"}]
      /\ \A c \in Clients : pc[c] = "inside" => mutex = c
      /\ mutex # Nobody => pc[mutex] \in {"inside", "refused"}
      /\ commitPending \in Nat
      /\ Nobody \notin Clients
  BY ConnectionAssumption DEF Typed, TypeOK, Ownership, NeverBusy
(* Steps of others, after d has left. *)
<1>1. ASSUME pc[d] = "left", pc'[d] = "left", told[d] = "nothing", done'[d] = done[d], d \notin broken
      PROVE  Goal
  <2>1. mutex # d
    BY <1>0, <1>1
  <2>2. \A w \in table' \ table : w[1] = mutex
    BY TableStep
  <2>3. table \subseteq table'
    BY StepWrites
  <2>4. WritesOf(d, table') = WritesOf(d, table)
    BY <2>1, <2>2, <2>3 DEF WritesOf
  <2>5. AllWrites(d)' = AllWrites(d)
    BY <1>1 DEF AllWrites
  <2>6. WritesOf(d, table) = AllWrites(d)
    BY <1>1 DEF Commits
  <2>7. QED BY <1>1, <2>4, <2>5, <2>6
<1>2. ASSUME UNCHANGED <<session, table, rollbackPending, available, pc, done>>, told[d] = "nothing", d \notin broken
      PROVE  Goal
  BY <1>2 DEF Commits, AllWrites
<1>3. CASE Break
  <2>1. UNCHANGED <<pc, told, done>> /\ broken' = broken \union ({mutex} \ {Nobody})
    BY <1>3 DEF Break
  <2>2. d \notin broken /\ pc[d] # "inside"
    BY <1>0, <2>1
  <2>3. QED BY <1>1, <2>1, <2>2
<1>4. ASSUME NEW c \in Clients, LockTests(c)
      PROVE  Goal
  <2>1. /\ UNCHANGED <<connection, done, told, broken>>
        /\ pc[c] = "outside" /\ pc' = [pc EXCEPT ![c] = IF available' THEN "locking" ELSE "refused"]
    BY <1>4 DEF LockTests
  <2>2. CASE pc[d] # "inside"
    BY <1>0, <1>1, <2>1, <2>2
  <2>3. CASE pc[d] = "inside"
    <3>1. pc'[d] = "inside" /\ UNCHANGED rollbackPending
      BY <1>0, <2>1, <2>3 DEF connection
    <3>2. ~ rollbackPending /\ WritesOf(d, session \union table) = AllWrites(d)
      BY <2>1, <2>3 DEF Commits
    <3>3. AllWrites(d)' = AllWrites(d)
      BY <2>1 DEF AllWrites
    <3>4. CASE available
      <4>1. UNCHANGED <<session, table, available>>
        BY <1>4, <3>4 DEF LockTests, driver
      <4>2. QED BY <3>1, <3>2, <3>3, <3>4, <4>1
    <3>5. CASE ~ available
      <4>1. done[d] = 0
        BY <2>1, <2>3, <3>5 DEF Commits
      <4>2. session' = {} /\ table' = table
        BY <1>4, <3>5 DEF LockTests, Reopen
      <4>3. WritesOf(d, session \union table) = {} /\ AllWrites(d) = {}
        BY <4>1, NothingDone
      <4>4. WritesOf(d, session' \union table') = {}
        BY <4>2, <4>3 DEF WritesOf
      <4>5. QED BY <2>1, <3>1, <3>2, <3>3, <4>1, <4>3, <4>4
    <3>6. QED BY <3>4, <3>5
  <2>4. QED BY <2>2, <2>3
<1>5. ASSUME NEW c \in Clients, LockTakes(c)
      PROVE  Goal
  <2>1. /\ mutex = Nobody /\ pc[c] = "locking" /\ rollbackPending' = FALSE
        /\ UNCHANGED <<session, table, done, told, broken>>
        /\ pc' \in {[pc EXCEPT ![c] = "inside"], [pc EXCEPT ![c] = "refused"]}
    BY <1>5 DEF LockTakes
  <2>2. CASE d # c
    BY <1>0, <1>1, <2>1, <2>2
  <2>3. CASE d = c
    <3>1. done[d] = 0
      BY <2>1, <2>3 DEF Typed, Ownership
    <3>2. WritesOf(d, session \union table) = {} /\ AllWrites(d) = {}
      BY <3>1, NothingDone
    <3>3. AllWrites(d)' = AllWrites(d)
      BY <2>1 DEF AllWrites
    <3>4. pc'[d] # "left"
      BY <1>0, <2>1, <2>3
    <3>5. QED BY <2>1, <3>1, <3>2, <3>3, <3>4
  <2>4. QED BY <2>2, <2>3
<1>6. ASSUME NEW c \in Clients, ExecuteWrite(c)
      PROVE  Goal
  <2> DEFINE w == <<c, done[c] + 1>>
  <2>1. /\ pc[c] = "inside" /\ ~ rollbackPending /\ available
        /\ done' = [done EXCEPT ![c] = @ + 1] /\ UNCHANGED <<pc, broken>>
    BY <1>6 DEF ExecuteWrite, Executes
  <2>2. /\ session' \union table' = session \union table \union {w}
        /\ told' \in {told, [told EXCEPT ![c] = "commit"]}
    BY <1>6, WriteOutcome
  <2>3. CASE d # c
    BY <1>0, <1>1, <2>1, <2>2, <2>3
  <2>4. CASE d = c
    <3>1. told[d] = "nothing" /\ told' # [told EXCEPT ![c] = "commit"]
      BY <1>0, <2>2, <2>4
    <3>2. available' /\ ~ rollbackPending'
      BY <1>6, <2>1, <3>1, Zenon DEF ExecuteWrite, CommitSucceeds
    <3>3. WritesOf(d, session \union table) = AllWrites(d)
      BY <2>1, <2>4, <3>1 DEF Commits
    <3>4. AllWrites(d)' = AllWrites(d) \union {w}
      <4>1. done'[d] = done[d] + 1 /\ done[d] \in Nat
        BY <1>0, <2>1, <2>4
      <4>2. QED BY <2>4, <4>1, OneMoreDone DEF AllWrites
    <3>5. WritesOf(d, session' \union table') = AllWrites(d)'
      BY <2>2, <2>4, <3>3, <3>4 DEF WritesOf
    <3>6. QED BY <2>1, <2>4, <3>2, <3>5
  <2>5. QED BY <2>3, <2>4
<1>7. ASSUME NEW c \in Clients, ExecuteFails(c) \/ ExecuteLost(c)
      PROVE  Goal
  <2>1. /\ pc[c] = "inside" /\ UNCHANGED <<pc, done, broken>>
        /\ told' \in {[told EXCEPT ![c] = "failed"], [told EXCEPT ![c] = "lost"]}
    BY <1>7 DEF ExecuteFails, ExecuteLost, Executes
  <2>2. d # c
    BY <1>0, <2>1
  <2>3. QED BY <1>0, <1>1, <2>1, <2>2
<1>8. ASSUME NEW c \in Clients, GuardCommit(c)
      PROVE  Goal
  <2>1. /\ pc[c] = "inside" /\ UNCHANGED <<pc, done>> /\ UNCHANGED broken
        /\ told' \in {told, [told EXCEPT ![c] = "commit"]}
    BY <1>8 DEF GuardCommit
  <2>2. CASE d # c
    BY <1>0, <1>1, <2>1, <2>2
  <2>3. CASE d = c
    <3>1. told' # [told EXCEPT ![c] = "commit"] /\ told[d] = "nothing"
      BY <1>0, <2>1, <2>3
    <3>2. CommitSucceeds(session, table)
      BY <1>8, <3>1 DEF GuardCommit
    <3>3. /\ ~ rollbackPending' /\ available' /\ session' \union table' = session \union table
      BY <3>2 DEF CommitSucceeds
    <3>4. WritesOf(d, session \union table) = AllWrites(d)
      BY <2>1, <2>3, <3>1 DEF Commits
    <3>5. AllWrites(d)' = AllWrites(d)
      BY <2>1 DEF AllWrites
    <3>6. QED BY <2>1, <2>3, <3>3, <3>4, <3>5
  <2>4. QED BY <2>2, <2>3
<1>9. ASSUME NEW c \in Clients, Unlock(c)
      PROVE  Goal
  <2>1. /\ pc[c] = "inside" /\ CommitOrRollback /\ UNCHANGED <<done, told, broken>>
        /\ pc' = [pc EXCEPT ![c] = "left"]
    BY <1>9 DEF Unlock
  <2>2. CASE d # c
    BY <1>0, <1>1, <2>1, <2>2
  <2>3. CASE d = c
    <3>1. /\ ~ rollbackPending /\ WritesOf(d, session \union table) = AllWrites(d)
          /\ ~ available => done[d] = 0
      BY <2>1, <2>3 DEF Commits
    <3>2. AllWrites(d)' = AllWrites(d) /\ pc'[d] = "left"
      BY <1>0, <2>1, <2>3 DEF AllWrites
    <3>3. ASSUME ~ available \/ session = {}, table' = table
          PROVE  WritesOf(d, table') = AllWrites(d)
      <4>1. CASE session = {}
        BY <3>1, <3>3, <4>1
      <4>2. CASE ~ available
        <5>1. WritesOf(d, session \union table) = {} /\ AllWrites(d) = {}
          BY <3>1, <4>2, NothingDone
        <5>2. QED BY <3>3, <5>1 DEF WritesOf
      <4>3. QED BY <3>3, <4>1, <4>2
    <3>4. WritesOf(d, table') = AllWrites(d)
      <4>1. CASE commitPending > 0 /\ CommitSucceeds(session, table)
        <5>1. table' = session \union table
          BY <4>1 DEF CommitSucceeds
        <5>2. QED BY <3>1, <5>1
      <4>2. CASE commitPending > 0 /\ CommitFails(session, table, commitPending)
        <5>1. ~ available \/ (setting.transactions /\ ~ transaction)
          BY <1>0, <4>2 DEF CommitFails
        <5>2. ~ available \/ session = {}
          BY <5>1 DEF Sessions
        <5>3. QED BY <3>3, <4>2, <5>2 DEF CommitFails
      <4>3. CASE ~ commitPending > 0 /\ UNCHANGED table
        <5>1. commitPending = 0
          BY <1>0, <4>3
        <5>2. ~ available \/ session = {}
          BY <5>1 DEF Sessions, Clean
        <5>3. QED BY <3>3, <4>3, <5>2
      <4>4. QED BY <2>1, <3>1, <4>1, <4>2, <4>3 DEF CommitOrRollback, driver
    <3>5. QED BY <3>2, <3>4
  <2>4. QED BY <2>2, <2>3
<1>10. CASE UNCHANGED vars
  BY <1>2, <1>10 DEF vars, connection, driver, guards
<1>11. QED
  BY <1>3, <1>4, <1>5, <1>6, <1>7, <1>8, <1>9, <1>10 DEF Next

(* A guard is committed as a whole, if its connection does not break under *)
(* it, or adds nothing once one of its critical statements has failed or   *)
(* found the connection lost, if its client does not go on then; for       *)
(* drivers whose commits do not fail for another reason: what lock,        *)
(* execute and unlock keep in m_commitPending and m_rollbackPending        *)
(* between them.                                                           *)
THEOREM GuardsAreAlwaysAtomic == ASSUME NeverBusy PROVE Spec => []GuardsAreAtomic
<1>1. ASSUME Typed, Commits PROVE UnbrokenGuardIsCommitted
  <2>1. \A c \in Clients : Cardinality(AllWrites(c)) = done[c]
    <3>1. \A c \in Clients : done[c] \in Nat
      BY <1>1, ConnectionAssumption DEF Typed, TypeOK
    <3>2. QED BY <3>1, AllWritesCounted DEF AllWrites
  <2>2. QED BY <1>1, <2>1 DEF Commits, UnbrokenGuardIsCommitted, IsCommitted
<1>2. Typed /\ Sessions /\ [Next]_vars => Sessions'
  BY SessionsStep
<1>3. Typed /\ Sessions /\ Commits /\ [Next]_vars => Commits'
  BY CommitsStep
<1>4. QED
  BY <1>1, <1>2, <1>3, SessionsInit, CommitsInit, DbmsTypeCorrect, FailedGuardsAddNothing, PTL
     DEF Spec, GuardsAreAtomic

-----------------------------------------------------------------------------
(* The statements a client has locked: not the newest while it waits.      *)
Held(c) == 1 .. (IF place[c] = "locking" THEN linked[c] - 1 ELSE linked[c])

Guarded == {"inside", "locking", "leaving"}

(* Whose mutexes they are.  No statement is held twice by a client: the    *)
(* second GuardStatement would wait for the first one.                     *)
StatementOwnership ==
    /\ linked \in [Users -> Nat]
    /\ \A c \in Users : place[c] = "locking" => linked[c] > 0
    /\ \A c \in Users : place[c] \notin Guarded => linked[c] = 0
    /\ \A c \in Users : place[c] \in Guarded => connectionMutex[ConnectionOf[c]] = c
    /\ \A c \in Users : \A i \in Held(c) : statementMutex[StatementsOf[c][i]] = c
    /\ \A c \in Users : \A i, j \in Held(c) : StatementsOf[c][i] = StatementsOf[c][j] => i = j

(* What a client has put in a statement stays there until it unlocks it.   *)
Using == {"inside", "locking"}
Values ==
    \A c \in Users, s \in Statements :
        place[c] \in Using =>
            /\ used[c][s] \in {"bound", "executed"} => statementMutex[s] = c /\ bound[s] = c
            /\ used[c][s] = "executed" => rows[s] = c
Unused == \A c \in Users, s \in Statements : place[c] = "outside" => used[c][s] = "no"

IInv == GuardsTypeOK /\ StatementOwnership /\ Unused /\ Values /\ OwnRows

-----------------------------------------------------------------------------
LEMMA Positions ==
    ASSUME GuardsTypeOK, StatementOwnership, NEW c \in Users
    PROVE  /\ linked[c] \in Nat /\ Held(c) \subseteq 1 .. linked[c]
           /\ \A i \in 1 .. linked[c] : StatementsOf[c][i] \in Statements
           /\ linked[c] > 0 => Newest(c) \in Statements
<1>1. /\ linked[c] \in Nat /\ linked[c] <= Len(StatementsOf[c])
      /\ StatementsOf[c] \in Seq(Statements)
  BY GuardAssumption DEF GuardsTypeOK, StatementOwnership
<1>2. \A i \in 1 .. linked[c] : StatementsOf[c][i] \in Statements
  BY <1>1
<1>3. QED BY <1>1, <1>2 DEF Held, Newest

LEMMA GuardInit == GuardsInit => IInv
<1> SUFFICES ASSUME GuardsInit PROVE IInv
  OBVIOUS
<1>0. linked = [c \in Users |-> 0] /\ place = [c \in Users |-> "outside"]
  BY DEF GuardsInit
<1>1. /\ used = [c \in Users |-> [s \in Statements |-> "no"]]
      /\ fetched = [c \in Users |-> [s \in Statements |-> NoUser]]
  BY DEF GuardsInit
<1>2. /\ connectionMutex \in [Connections -> Someone] /\ statementMutex \in [Statements -> Someone]
      /\ bound \in [Statements -> Someone] /\ rows \in [Statements -> Someone]
  BY DEF GuardsInit, Someone
<1>3. ASSUME NEW c \in Users
      PROVE  linked[c] \in 0 .. Len(StatementsOf[c]) /\ Held(c) = {}
  <2>1. StatementsOf[c] \in Seq(Statements) /\ linked[c] = 0 /\ place[c] = "outside"
    BY <1>0, GuardAssumption
  <2>2. Len(StatementsOf[c]) \in Nat
    BY <2>1
  <2>3. QED BY <2>1, <2>2 DEF Held
<1>4. used \in Use /\ fetched \in [Users -> [Statements -> Someone]]
  BY <1>1 DEF Use, Someone
<1>5. GuardsTypeOK
  BY <1>0, <1>2, <1>3, <1>4 DEF GuardsTypeOK
<1>6. StatementOwnership
  BY <1>0, <1>3 DEF StatementOwnership, Guarded
<1>7. Unused /\ Values /\ OwnRows
  BY <1>0, <1>1 DEF Unused, Values, Using, OwnRows
<1>8. QED BY <1>5, <1>6, <1>7 DEF IInv

LEMMA TypeStep == GuardsTypeOK /\ StatementOwnership /\ [GuardsNext]_guardsVars => GuardsTypeOK'
<1> SUFFICES ASSUME GuardsTypeOK, StatementOwnership, [GuardsNext]_guardsVars
             PROVE  GuardsTypeOK'
  OBVIOUS
<1> USE GuardAssumption DEF GuardsTypeOK, Someone, Use, mutexes, data
<1>0. linked \in [Users -> Nat]
  BY DEF StatementOwnership
<1>1. ASSUME NEW c \in Users, LockConnection(c)
      PROVE  GuardsTypeOK'
  BY <1>1 DEF LockConnection
<1>2. ASSUME NEW c \in Users, Link(c)
      PROVE  GuardsTypeOK'
  <2>1. \A d \in Users : linked'[d] \in 0 .. Len(StatementsOf[d])
    BY <1>0, <1>2 DEF Link, HasAll
  <2>2. QED BY <1>2, <2>1 DEF Link
<1>3. ASSUME NEW c \in Users, LockStatement(c)
      PROVE  GuardsTypeOK'
  BY <1>3 DEF LockStatement
<1>4. ASSUME NEW c \in Users, NEW s \in Statements, SetInput(c, s)
      PROVE  GuardsTypeOK'
  BY <1>4 DEF SetInput, Uses
<1>5. ASSUME NEW c \in Users, NEW s \in Statements, Execute(c, s)
      PROVE  GuardsTypeOK'
  BY <1>5 DEF Execute, Uses
<1>6. ASSUME NEW c \in Users, NEW s \in Statements, Fetch(c, s)
      PROVE  GuardsTypeOK'
  BY <1>6 DEF Fetch, Uses
<1>7. ASSUME NEW c \in Users, Finish(c) \/ Throw(c)
      PROVE  GuardsTypeOK'
  BY <1>7 DEF Finish, Throw
<1>8. ASSUME NEW c \in Users, UnlockStatement(c)
      PROVE  GuardsTypeOK'
  <2>1. \A d \in Users : linked'[d] \in 0 .. Len(StatementsOf[d])
    BY <1>0, <1>8 DEF UnlockStatement
  <2>2. QED BY <1>8, <2>1 DEF UnlockStatement
<1>9. ASSUME NEW c \in Users, UnlockConnection(c)
      PROVE  GuardsTypeOK'
  BY <1>9 DEF UnlockConnection
<1>10. CASE UNCHANGED guardsVars
  BY <1>10 DEF guardsVars
<1>11. QED
  BY <1>1, <1>2, <1>3, <1>4, <1>5, <1>6, <1>7, <1>8, <1>9, <1>10 DEF GuardsNext, Progress

LEMMA OwnershipStep == GuardsTypeOK /\ StatementOwnership /\ [GuardsNext]_guardsVars => StatementOwnership'
<1> SUFFICES ASSUME GuardsTypeOK, StatementOwnership, [GuardsNext]_guardsVars
             PROVE  StatementOwnership'
  OBVIOUS
<1> USE GuardAssumption DEF Guarded, mutexes
<1>0. /\ linked \in [Users -> Nat]
      /\ place \in [Users -> {"outside", "inside", "locking", "leaving", "left"}]
      /\ connectionMutex \in [Connections -> Someone] /\ statementMutex \in [Statements -> Someone]
  BY DEF GuardsTypeOK, StatementOwnership
<1>1. ASSUME NEW c \in Users, LockConnection(c)
      PROVE  StatementOwnership'
  <2>1. \A d \in Users : Held(d)' = Held(d)
    BY <1>0, <1>1 DEF LockConnection, Held
  <2>2. \A d \in Users : place'[d] \in Guarded => connectionMutex'[ConnectionOf[d]] = d
    BY <1>0, <1>1 DEF LockConnection, StatementOwnership
  <2>3. QED BY <1>0, <1>1, <2>1, <2>2 DEF LockConnection, StatementOwnership
<1>2. ASSUME NEW c \in Users, Link(c)
      PROVE  StatementOwnership'
  <2>1. /\ linked' = [linked EXCEPT ![c] = @ + 1] /\ place[c] = "inside"
        /\ place' = [place EXCEPT ![c] = "locking"] /\ UNCHANGED mutexes
    BY <1>2 DEF Link
  <2>2. \A d \in Users : Held(d)' = Held(d)
    BY <1>0, <2>1 DEF Held
  <2>3. QED BY <1>0, <2>1, <2>2 DEF StatementOwnership
<1>3. ASSUME NEW c \in Users, LockStatement(c)
      PROVE  StatementOwnership'
  <2>1. /\ statementMutex' = [statementMutex EXCEPT ![Newest(c)] = c] /\ place[c] = "locking"
        /\ statementMutex[Newest(c)] = NoUser
        /\ place' = [place EXCEPT ![c] = "inside"] /\ UNCHANGED <<connectionMutex, linked>>
    BY <1>3 DEF LockStatement
  <2>2. linked[c] > 0 /\ Newest(c) \in Statements
    BY <2>1, Positions DEF StatementOwnership
  <2>3. Held(c)' = Held(c) \union {linked[c]}
    BY <1>0, <2>1, <2>2 DEF Held
  <2>4. \A d \in Users \ {c} : Held(d)' = Held(d)
    BY <1>0, <2>1 DEF Held
  <2>5. \A d \in Users : \A i \in Held(d) :
             /\ statementMutex[StatementsOf[d][i]] = d /\ StatementsOf[d][i] # Newest(c)
             /\ StatementsOf[d][i] \in Statements
    BY <2>1, Positions DEF StatementOwnership
  <2>6. \A d \in Users : \A i \in Held(d)' : statementMutex'[StatementsOf[d][i]] = d
    BY SMTT(30), <1>0, <2>1, <2>2, <2>3, <2>4, <2>5 DEF Newest
  <2>7. \A d \in Users : \A i, j \in Held(d)' : StatementsOf[d][i] = StatementsOf[d][j] => i = j
    BY <2>3, <2>4, <2>5 DEF Newest, StatementOwnership
  <2>8. QED BY <1>0, <2>1, <2>6, <2>7 DEF StatementOwnership
<1>4. ASSUME UNCHANGED <<mutexes, linked, place>>
      PROVE  StatementOwnership'
  BY <1>4 DEF StatementOwnership, Held
<1>5. ASSUME NEW c \in Users, Finish(c) \/ Throw(c)
      PROVE  StatementOwnership'
  <2>1. place[c] = "inside" /\ place' = [place EXCEPT ![c] = "leaving"] /\ UNCHANGED <<mutexes, linked>>
    BY <1>5 DEF Finish, Throw
  <2>2. \A d \in Users : Held(d)' = Held(d)
    BY <1>0, <2>1 DEF Held
  <2>3. QED BY <1>0, <2>1, <2>2 DEF StatementOwnership
<1>6. ASSUME NEW c \in Users, UnlockStatement(c)
      PROVE  StatementOwnership'
  <2>1. /\ statementMutex' = [statementMutex EXCEPT ![Newest(c)] = NoUser] /\ place[c] = "leaving"
        /\ linked[c] > 0 /\ linked' = [linked EXCEPT ![c] = @ - 1]
        /\ UNCHANGED <<connectionMutex, place>>
    BY <1>6 DEF UnlockStatement
  <2>2. Newest(c) \in Statements /\ linked[c] \in Held(c) /\ statementMutex[Newest(c)] = c
    BY <1>0, <2>1, Positions DEF StatementOwnership, Held, Newest
  <2>3. Held(c)' = Held(c) \ {linked[c]}
    BY <1>0, <2>1 DEF Held
  <2>4. \A d \in Users \ {c} : Held(d)' = Held(d)
    BY <1>0, <2>1 DEF Held
  <2>5. \A d \in Users : \A i \in Held(d)' :
             /\ i \in Held(d) /\ statementMutex[StatementsOf[d][i]] = d
             /\ StatementsOf[d][i] # Newest(c)
             /\ StatementsOf[d][i] \in Statements
    BY <2>2, <2>3, <2>4, Positions DEF StatementOwnership, Newest
  <2>6. \A d \in Users : \A i \in Held(d)' : statementMutex'[StatementsOf[d][i]] = d
    BY <1>0, <2>1, <2>5
  <2>7. \A d \in Users : \A i, j \in Held(d)' : StatementsOf[d][i] = StatementsOf[d][j] => i = j
    BY <2>5 DEF StatementOwnership
  <2>8. QED BY <1>0, <2>1, <2>6, <2>7 DEF StatementOwnership
<1>7. ASSUME NEW c \in Users, UnlockConnection(c)
      PROVE  StatementOwnership'
  <2>1. /\ connectionMutex' = [connectionMutex EXCEPT ![ConnectionOf[c]] = NoUser]
        /\ place[c] = "leaving" /\ linked[c] = 0 /\ place' = [place EXCEPT ![c] = "left"]
        /\ UNCHANGED <<statementMutex, linked>>
    BY <1>7 DEF UnlockConnection
  <2>2. \A d \in Users : Held(d)' = Held(d)
    BY <1>0, <2>1 DEF Held
  <2>3. connectionMutex[ConnectionOf[c]] = c
    BY <2>1 DEF StatementOwnership
  <2>4. \A d \in Users : place'[d] \in Guarded => connectionMutex'[ConnectionOf[d]] = d
    BY <1>0, <2>1, <2>3 DEF StatementOwnership
  <2>5. QED BY <1>0, <2>1, <2>2, <2>4 DEF StatementOwnership
<1>8. ASSUME NEW c \in Users, NEW s \in Statements, SetInput(c, s) \/ Execute(c, s) \/ Fetch(c, s)
      PROVE  StatementOwnership'
  BY <1>4, <1>8 DEF SetInput, Execute, Fetch, Uses
<1>9. QED
  BY <1>1, <1>2, <1>3, <1>4, <1>5, <1>6, <1>7, <1>8 DEF GuardsNext, Progress, guardsVars

LEMMA UnusedStep == GuardsTypeOK /\ Unused /\ [GuardsNext]_guardsVars => Unused'
<1> SUFFICES ASSUME GuardsTypeOK, Unused, [GuardsNext]_guardsVars, NEW d \in Users, NEW t \in Statements, place'[d] = "outside"
             PROVE  used'[d][t] = "no"
  BY DEF Unused
<1>0. /\ place \in [Users -> {"outside", "inside", "locking", "leaving", "left"}]
      /\ used \in [Users -> [Statements -> {"no", "bound", "executed", "fetched"}]]
  BY DEF GuardsTypeOK, Use
<1>1. ASSUME UNCHANGED data, place'[d] = place[d] \/ place'[d] # "outside"
      PROVE  used'[d][t] = "no"
  BY <1>1 DEF Unused, data
<1>2. ASSUME NEW c \in Users, NEW s \in Statements, NEW from, NEW to, Uses(c, s, from, to)
      PROVE  used'[d][t] = "no"
  BY <1>0, <1>2 DEF Uses, Unused
<1>3. QED
  BY <1>0, <1>1, <1>2
     DEF GuardsNext, Progress, guardsVars, LockConnection, Link, LockStatement, SetInput, Execute, Fetch, Finish, Throw,
         UnlockStatement, UnlockConnection

(* What a client does with a statement is done by the owner of its mutex,  *)
(* and nobody else has values of its own there that it still needs.        *)
LEMMA UserOwns ==
    ASSUME StatementOwnership, Values, NEW c \in Users, NEW s \in Statements, NEW from, NEW to, Uses(c, s, from, to)
    PROVE  /\ place[c] = "inside" /\ statementMutex[s] = c
           /\ UNCHANGED <<place, statementMutex>>
           /\ \A d \in Users \ {c} : place[d] \in Using => used[d][s] \notin {"bound", "executed"}
<1>1. Held(c) = 1 .. linked[c] /\ place[c] = "inside" /\ UNCHANGED <<place, statementMutex>>
  BY DEF Uses, Held, mutexes
<1>2. statementMutex[s] = c
  BY <1>1 DEF Uses, StatementOwnership
<1>3. QED BY <1>1, <1>2 DEF Values

(* Those whose statements stay locked keep the values they gave them.      *)
LEMMA MutexStep ==
    ASSUME Unused, Values, UNCHANGED data,
           \A d \in Users : place'[d] \in Using => place[d] \in Using \union {"outside"},
           \A d \in Users, s \in Statements :
               statementMutex[s] = d /\ place[d] \in Using => statementMutex'[s] = d
    PROVE  Values'
<1> SUFFICES ASSUME NEW d \in Users, NEW s \in Statements, place'[d] \in Using
             PROVE  /\ used[d][s] \in {"bound", "executed"} => statementMutex'[s] = d /\ bound[s] = d
                    /\ used[d][s] = "executed" => rows[s] = d
  BY DEF Values, data
<1>1. CASE place[d] = "outside"
  BY <1>1 DEF Unused
<1>2. CASE place[d] \in Using
  BY <1>2 DEF Values
<1>3. QED BY <1>1, <1>2

LEMMA ValuesStep ==
    ASSUME GuardsTypeOK, StatementOwnership, Unused, Values, OwnRows, [GuardsNext]_guardsVars
    PROVE  Values' /\ OwnRows'
<1> USE GuardAssumption DEF Using
<1>0. /\ linked \in [Users -> Nat]
      /\ place \in [Users -> {"outside", "inside", "locking", "leaving", "left"}]
      /\ used \in [Users -> [Statements -> {"no", "bound", "executed", "fetched"}]]
      /\ fetched \in [Users -> [Statements -> Someone]]
      /\ statementMutex \in [Statements -> Someone]
      /\ bound \in [Statements -> Someone] /\ rows \in [Statements -> Someone]
  BY DEF GuardsTypeOK, StatementOwnership, Use
<1>1. ASSUME UNCHANGED data PROVE OwnRows'
  BY <1>1 DEF OwnRows, data
<1>2. ASSUME NEW c \in Users, LockConnection(c)
      PROVE  Values'
  BY <1>0, <1>2, MutexStep DEF LockConnection
<1>3. ASSUME NEW c \in Users, Link(c) \/ Finish(c) \/ Throw(c) \/ UnlockConnection(c)
      PROVE  Values'
  BY <1>0, <1>3, MutexStep DEF Link, Finish, Throw, UnlockConnection, mutexes
<1>4. ASSUME NEW c \in Users, LockStatement(c)
      PROVE  Values'
  <2>1. /\ statementMutex' = [statementMutex EXCEPT ![Newest(c)] = c] /\ UNCHANGED data
        /\ statementMutex[Newest(c)] = NoUser
        /\ place[c] = "locking" /\ place' = [place EXCEPT ![c] = "inside"]
    BY <1>4 DEF LockStatement
  <2>2. \A d \in Users, s \in Statements : statementMutex[s] = d => statementMutex'[s] = d
    BY <1>0, <2>1
  <2>3. QED BY <1>0, <2>1, <2>2, MutexStep
<1>5. ASSUME NEW c \in Users, UnlockStatement(c)
      PROVE  Values'
  <2>1. /\ statementMutex' = [statementMutex EXCEPT ![Newest(c)] = NoUser] /\ UNCHANGED <<place, data>>
        /\ place[c] = "leaving" /\ linked[c] > 0
    BY <1>5 DEF UnlockStatement
  <2>2. statementMutex[Newest(c)] = c
    <3>1. linked[c] \in Held(c)
      BY <1>0, <2>1 DEF Held
    <3>2. QED BY <3>1 DEF StatementOwnership, Newest
  <2>3. \A d \in Users, s \in Statements :
            statementMutex[s] = d /\ place[d] \in Using => statementMutex'[s] = d
    BY <1>0, <2>1, <2>2
  <2>4. QED BY <1>0, <2>1, <2>3, MutexStep
<1>6. ASSUME NEW c \in Users, NEW s \in Statements, SetInput(c, s)
      PROVE  Values' /\ OwnRows'
  <2>1. /\ bound' = [bound EXCEPT ![s] = c] /\ used' = [used EXCEPT ![c][s] = "bound"]
        /\ UNCHANGED <<rows, fetched>>
    BY <1>6 DEF SetInput, Uses
  <2>2. /\ statementMutex[s] = c /\ UNCHANGED <<place, statementMutex>>
        /\ \A d \in Users \ {c} : place[d] \in Using => used[d][s] \notin {"bound", "executed"}
    BY <1>6, UserOwns DEF SetInput
  <2>3. \A d \in Users, t \in Statements :
            /\ used'[d][t] = IF d = c /\ t = s THEN "bound" ELSE used[d][t]
            /\ bound'[t] = IF t = s THEN c ELSE bound[t]
    BY <1>0, <2>1
  <2>4. Values'
    BY <2>1, <2>2, <2>3 DEF Values
  <2>5. QED BY <2>1, <2>4 DEF OwnRows
<1>7. ASSUME NEW c \in Users, NEW s \in Statements, Execute(c, s)
      PROVE  Values' /\ OwnRows'
  <2>1. /\ rows' = [rows EXCEPT ![s] = bound[s]] /\ used' = [used EXCEPT ![c][s] = "executed"]
        /\ used[c][s] = "bound" /\ UNCHANGED <<bound, fetched>>
    BY <1>7 DEF Execute, Uses
  <2>2. /\ statementMutex[s] = c /\ place[c] = "inside" /\ UNCHANGED <<place, statementMutex>>
        /\ \A d \in Users \ {c} : place[d] \in Using => used[d][s] \notin {"bound", "executed"}
    BY <1>7, UserOwns DEF Execute
  <2>3. bound[s] = c
    BY <2>1, <2>2 DEF Values
  <2>4. \A d \in Users, t \in Statements :
            /\ used'[d][t] = IF d = c /\ t = s THEN "executed" ELSE used[d][t]
            /\ rows'[t] = IF t = s THEN c ELSE rows[t]
    BY <1>0, <2>1, <2>3
  <2>5. Values'
    BY <2>1, <2>2, <2>3, <2>4 DEF Values
  <2>6. QED BY <2>1, <2>5 DEF OwnRows
<1>8. ASSUME NEW c \in Users, NEW s \in Statements, Fetch(c, s)
      PROVE  Values' /\ OwnRows'
  <2>1. /\ fetched' = [fetched EXCEPT ![c][s] = rows[s]] /\ used' = [used EXCEPT ![c][s] = "fetched"]
        /\ used[c][s] = "executed" /\ UNCHANGED <<bound, rows>>
    BY <1>8 DEF Fetch, Uses
  <2>2. place[c] = "inside" /\ UNCHANGED <<place, statementMutex>>
    BY <1>8, UserOwns DEF Fetch
  <2>3. rows[s] = c
    BY <2>1, <2>2 DEF Values
  <2>4. \A d \in Users, t \in Statements :
            /\ used'[d][t] = IF d = c /\ t = s THEN "fetched" ELSE used[d][t]
            /\ fetched'[d][t] = IF d = c /\ t = s THEN c ELSE fetched[d][t]
    BY <1>0, <2>1, <2>3
  <2>5. Values'
    BY <2>1, <2>2, <2>4 DEF Values
  <2>6. QED BY <2>4, <2>5 DEF OwnRows
<1>9. CASE UNCHANGED guardsVars
  BY <1>1, <1>9, MutexStep DEF guardsVars, mutexes
<1>10. ASSUME UNCHANGED data, GuardsNext PROVE Values'
  BY <1>2, <1>3, <1>4, <1>5, <1>6, <1>7, <1>8, <1>10 DEF GuardsNext, Progress
<1>11. ASSUME NEW c \in Users,
              \/ LockConnection(c) \/ LockStatement(c) \/ Link(c) \/ Finish(c) \/ Throw(c)
              \/ UnlockStatement(c) \/ UnlockConnection(c)
       PROVE  UNCHANGED data
  BY <1>11 DEF LockConnection, LockStatement, Link, Finish, Throw, UnlockStatement, UnlockConnection
<1>12. QED
  BY <1>1, <1>6, <1>7, <1>8, <1>9, <1>10, <1>11 DEF GuardsNext, Progress

(* Every client fetches rows that answer the values it has itself given to *)
(* the statement, whoever shares the statement with it, in whichever order *)
(* the clients lock their statements: what m_mutex of Statement is for.    *)
THEOREM RowsAreOnesOwn == GuardsSpec => []GuardInvariant
<1>1. IInv /\ [GuardsNext]_guardsVars => IInv'
  BY TypeStep, OwnershipStep, UnusedStep, ValuesStep DEF IInv
<1>2. IInv => GuardInvariant
  BY DEF IInv, GuardInvariant
<1>3. QED
  BY <1>1, <1>2, GuardInit, PTL DEF GuardsSpec
=============================================================================
