------------------------------- MODULE Storage -------------------------------
(***************************************************************************)
(* coffee::persistence::Storage: load, save and erase by several clients,  *)
(* each through one connection, over one cache.  load looks the key up     *)
(* before it takes the connection; save and erase run inside of a guard    *)
(* that may hold several of them, which its end commits together or rolls  *)
(* back (DbmsConnection has which of them).                                *)
(*                                                                         *)
(* The primary keys of this model are not changed once they have been used *)
(* (SharedKeys has those that are).  What two clients do to the cache at   *)
(* the same time is atomic here: Cache has no lock, and the outcome of a   *)
(* race inside of it is undefined.                                         *)
(***************************************************************************)
EXTENDS LruCache, Sequences, SequencesExt

CONSTANTS
    Clients, Nobody,
    Connections,
    Uses,          \* subset of [Clients -> Connections], the ways to share them
    MaxCalls       \* bound: calls of a client, and calls of one guard

ASSUME StorageAssumption ==
    /\ Nobody \notin Clients
    /\ Uses \subseteq [Clients -> Connections]
    /\ MaxCalls \in Nat

VARIABLES
    uses,       \* never changes
    owner,      \* connection -> client whose guard has it
    table,      \* keys of the committed rows
    pc, calls,
    asked,      \* key of the load under way, and the iterator find returned
    added, removed,     \* rows the guard has saved and erased
    got         \* object returned by the last load; shared_ptr keeps it alive

database == <<owner, table>>
clients == <<pc, calls, asked, added, removed, got>>
vars == <<cache, uses, database, clients>>

NotAsking == [key |-> Nobody, iterator |-> End]

TypeOK ==
    /\ CacheTypeOK
    /\ uses \in Uses
    /\ owner \in [Connections -> Clients \union {Nobody}]
    /\ table \subseteq Keys
    /\ pc \in [Clients -> {"idle", "found", "guarded", "applied", "returns",
                           "writing", "erasing", "undefined"}]
    /\ calls \in [Clients -> 0 .. MaxCalls]
    /\ asked \in [Clients -> [key : Keys, iterator : 0 .. MaxNode] \union {NotAsking}]
    /\ added \in [Clients -> SUBSET Keys] /\ removed \in [Clients -> SUBSET Keys]
    /\ got \in [Clients -> Values \union {NoValue}]

Init ==
    /\ CacheInit
    /\ uses \in Uses
    /\ owner = [x \in Connections |-> Nobody]
    /\ table \in SUBSET Keys
    /\ pc = [c \in Clients |-> "idle"]
    /\ calls = [c \in Clients |-> 0]
    /\ asked = [c \in Clients |-> NotAsking]
    /\ added = [c \in Clients |-> {}] /\ removed = [c \in Clients |-> {}]
    /\ got = [c \in Clients |-> NoValue]

Goes(c, from, to) == pc[c] = from /\ pc' = [pc EXCEPT ![c] = to]

Calls(c) == calls[c] < MaxCalls /\ calls' = [calls EXCEPT ![c] = @ + 1]

(* GuardConnection *)
Locks(c) == owner[uses[c]] = Nobody /\ owner' = [owner EXCEPT ![uses[c]] = c]
Unlocks(c) == owner' = [owner EXCEPT ![uses[c]] = Nobody]

-----------------------------------------------------------------------------
(* load *)

LookUp(c, key) ==
    /\ Goes(c, "idle", "found") /\ Calls(c)
    /\ Find(key)
    /\ asked' = [asked EXCEPT ![c] =
                    [key |-> key,
                     iterator |-> IF key \in DOMAIN m_quickAccess
                                  THEN m_quickAccess'[key] ELSE End]]
    /\ UNCHANGED <<uses, database, added, removed, got>>

LoadLocks(c) ==
    /\ Goes(c, "found", "guarded")
    /\ Locks(c)
    /\ UNCHANGED <<cache, uses, table, calls, asked, added, removed, got>>

(* A fault: createObject and the loader, which finds the row or throws. *)
Missed(c) == asked[c].iterator = End

LoadFaultUnlocks(c) ==                                         \* mutant
    /\ Missed(c)
    /\ Goes(c, "guarded", IF asked[c].key \in table THEN "applied" ELSE "returns")
    /\ Unlocks(c)
    /\ UNCHANGED <<cache, uses, table, calls, asked, added, removed, got>>
LoadFault(c) ==
    /\ Missed(c)
    /\ Goes(c, "guarded", IF asked[c].key \in table THEN "applied" ELSE "returns")
    /\ UNCHANGED <<cache, uses, database, calls, asked, added, removed, got>>

(* A new object: one that nobody has a pointer to.  Bound: Values. *)
InUse == {m_values[n].value : n \in DOMAIN m_values} \union {got[c] : c \in Clients}
NewObject == CHOOSE object \in Values \ InUse : TRUE

LoadSets(c) ==
    /\ Goes(c, "applied", "returns")
    /\ Values \ InUse # {}
    /\ Set(asked[c].key, NewObject)
    /\ got' = [got EXCEPT ![c] = NewObject]
    /\ UNCHANGED <<uses, database, calls, asked, added, removed>>

(* A hit: value(vv), whether it is refreshed or not.  The refreshment      *)
(* throws if the row is not there.                                         *)
LoadHit(c) ==
    /\ ~ Missed(c)
    /\ IF asked[c].iterator \in DOMAIN m_values
       THEN /\ Goes(c, "guarded", "returns")
            /\ \E object \in {m_values[asked[c].iterator].value, got[c]} :
                  got' = [got EXCEPT ![c] = object]
       ELSE Goes(c, "guarded", "undefined") /\ UNCHANGED got
    /\ UNCHANGED <<cache, uses, database, calls, asked, added, removed>>

LoadReturns(c) ==
    /\ Goes(c, "returns", "idle")
    /\ Unlocks(c)
    /\ asked' = [asked EXCEPT ![c] = NotAsking]
    /\ UNCHANGED <<cache, uses, table, calls, added, removed, got>>

-----------------------------------------------------------------------------
(* save and erase *)

GuardLocks(c) ==
    /\ Goes(c, "idle", "writing")
    /\ calls[c] < MaxCalls
    /\ Locks(c)
    /\ UNCHANGED <<cache, uses, table, calls, asked, added, removed, got>>

(* Connection::commit, of hasAutoCommit or at the end of the guard. *)
Commits(c, saved, erased) ==
    /\ table' = (table \ erased) \union saved
    /\ added' = [added EXCEPT ![c] = {}]
    /\ removed' = [removed EXCEPT ![c] = {}]
Executes(c, saved, erased) ==
    \/ Commits(c, saved, erased)
    \/ /\ added' = [added EXCEPT ![c] = saved]
       /\ removed' = [removed EXCEPT ![c] = erased]
       /\ UNCHANGED table

Save(c, key) ==
    /\ Goes(c, "writing", "writing") /\ Calls(c)
    /\ Executes(c, added[c] \union {key}, removed[c] \ {key})
    /\ UNCHANGED <<cache, uses, owner, asked, got>>

(* A failure is critical or it is not: the guard may go on, and its end    *)
(* may commit.                                                             *)
SaveFails(c) ==
    /\ Goes(c, "writing", "writing") /\ Calls(c)
    /\ UNCHANGED <<cache, uses, database, asked, added, removed, got>>

(* The object leaves the cache before the statement is executed. *)
EraseCached(c, key) ==
    /\ Goes(c, "writing", "erasing") /\ Calls(c)
    /\ Erase(key)
    /\ asked' = [asked EXCEPT ![c] = [key |-> key, iterator |-> End]]
    /\ UNCHANGED <<uses, database, added, removed, got>>

EraseRow(c) ==
    /\ Goes(c, "erasing", "writing")
    /\ Executes(c, added[c] \ {asked[c].key}, removed[c] \union {asked[c].key})
    /\ asked' = [asked EXCEPT ![c] = NotAsking]
    /\ UNCHANGED <<cache, uses, owner, calls, got>>

EraseFails(c) ==
    /\ Goes(c, "erasing", "writing")
    /\ asked' = [asked EXCEPT ![c] = NotAsking]
    /\ UNCHANGED <<cache, uses, database, calls, added, removed, got>>

GuardCommits(c) ==
    /\ Goes(c, "writing", "idle")
    /\ Unlocks(c)
    /\ Commits(c, added[c], removed[c])
    /\ UNCHANGED <<cache, uses, calls, asked, got>>

GuardRollsBack(c) ==
    /\ Goes(c, "writing", "idle")
    /\ Unlocks(c)
    /\ added' = [added EXCEPT ![c] = {}]
    /\ removed' = [removed EXCEPT ![c] = {}]
    /\ UNCHANGED <<cache, uses, table, calls, asked, got>>

-----------------------------------------------------------------------------
Next ==
    \E c \in Clients :
        \/ \E key \in Keys : LookUp(c, key) \/ Save(c, key) \/ EraseCached(c, key)
        \/ LoadLocks(c) \/ LoadFault(c) \/ LoadSets(c) \/ LoadHit(c) \/ LoadReturns(c)
        \/ GuardLocks(c) \/ SaveFails(c) \/ EraseRow(c) \/ EraseFails(c)
        \/ GuardCommits(c) \/ GuardRollsBack(c)

Spec == Init /\ [][Next]_vars

-----------------------------------------------------------------------------
(* Clients of one connection: an object that is cached has its row, or the *)
(* guard that has erased and saved the row has still to end.  (erase drops *)
(* the object before the row is gone, and load holds the connection from   *)
(* its statement to set.)                                                  *)
CachedRowsExist ==
    (\A c, d \in Clients : uses[c] = uses[d])
        => \A key \in DOMAIN m_quickAccess : key \in table

(* value(vv) needs an iterator "contained in [begin, end)": what find has  *)
(* returned before the guard is still there when load uses it inside.      *)
IteratorsAreValid == \A c \in Clients : pc[c] # "undefined"

(* find, set and erase of all clients make a least recently used cache.    *)
(* The i-th node of the list is the one up to which there are i of them.   *)
NodeAt(nodes, i) == CHOOSE n \in nodes : Cardinality({m \in nodes : m <= n}) = i
Recent == [i \in 1 .. Cardinality(DOMAIN m_values) |-> m_values[NodeAt(DOMAIN m_values, i)]]
Abstract == INSTANCE RecentlyUsed WITH recent <- Recent
ImplementsRecentlyUsed == Abstract!Spec
=============================================================================
