---------------------------- MODULE StorageProofs ----------------------------
(***************************************************************************)
(* Theorems about LruCache, for every set of keys and values and every     *)
(* size of the cache, and about Storage, for every number of clients and   *)
(* connections and every way to share them.  The last part shows that the  *)
(* cache implements RecentlyUsed.                                          *)
(***************************************************************************)
EXTENDS Storage, FiniteSetTheorems, FunctionTheorems, SequenceTheorems,
        WellFoundedInduction, TLAPS

-----------------------------------------------------------------------------
(* The cache *)

(* The part of the invariant that find, set and erase have to keep up; the *)
(* keys must be finite in number for the count of size() to mean anything. *)
Consistent ==
    /\ DOMAIN m_values \subseteq 1 .. lastNode
    /\ m_values \in [DOMAIN m_values -> Pair]
    /\ DOMAIN m_quickAccess \subseteq Keys
    /\ m_quickAccess \in [DOMAIN m_quickAccess -> 1 .. lastNode]
    /\ IsFiniteSet(DOMAIN m_quickAccess)
    /\ Cardinality(DOMAIN m_quickAccess) <= MaxSize
    /\ lastNode \in 0 .. MaxNode
    /\ ListMatchesMap

(* front() of a list that is not empty is a node of it. *)
LEMMA OldestIsANode ==
    ASSUME Consistent, DOMAIN m_values # {}
    PROVE  Oldest \in DOMAIN m_values
<1>1. DOMAIN m_values \subseteq Nat
  BY CacheAssumption DEF Consistent
<1>2. PICK n \in DOMAIN m_values :
         \A m \in DOMAIN m_values : ~ (<<m, n>> \in OpToRel(<, Nat))
  BY <1>1, WFMin, NatLessThanWellFounded
<1>3. \A i, j \in Nat : i < j => <<i, j>> \in OpToRel(<, Nat)
  BY DEF OpToRel
<1>4. \A m \in DOMAIN m_values : ~ (m < n)
  BY <1>1, <1>2, <1>3, Zenon
<1>5. \A m \in DOMAIN m_values : n <= m
  BY <1>1, <1>4
<1>6. QED BY <1>5 DEF Oldest

(* updateAccess: the pair stays where it is, or its node is replaced by a  *)
(* new one at the end.                                                     *)
LEMMA UpdateAccessKeeps ==
    ASSUME Consistent, NEW key \in DOMAIN m_quickAccess, NEW value \in Values,
           UpdateAccess(key, value)
    PROVE  Consistent'
<1> DEFINE node == m_quickAccess[key]
           pair == [key |-> m_values[node].key, value |-> value]
<1>1. /\ node \in DOMAIN m_values
      /\ m_values[node] \in Pair /\ m_values[node].key = key
  BY DEF Consistent, ListMatchesMap
<1>2. pair \in Pair /\ pair.key = key
  BY <1>1 DEF Pair
<1>3. CASE node = Newest
  <2>1. /\ m_values' = [m_values EXCEPT ![node] = pair]
        /\ UNCHANGED <<m_quickAccess, lastNode>>
    BY <1>3 DEF UpdateAccess
  <2>2. DOMAIN m_values' = DOMAIN m_values /\ m_values' \in [DOMAIN m_values -> Pair]
    BY <1>2, <2>1 DEF Consistent
  <2>3. \A n \in DOMAIN m_values : m_values'[n].key = m_values[n].key
    BY <1>1, <1>2, <2>1
  <2>4. ListMatchesMap'
    BY <2>1, <2>2, <2>3 DEF Consistent, ListMatchesMap
  <2>5. QED BY <2>1, <2>2, <2>4 DEF Consistent
<1>4. CASE node # Newest
  <2>1. /\ PushBack({node}, pair)
        /\ m_quickAccess' = [m_quickAccess EXCEPT ![key] = lastNode + 1]
    BY <1>4 DEF UpdateAccess
  <2>2. /\ lastNode \in Nat /\ lastNode' = lastNode + 1 /\ lastNode' \in 0 .. MaxNode
        /\ DOMAIN m_values' = (DOMAIN m_values \ {node}) \union {lastNode + 1}
        /\ m_values'[lastNode + 1] = pair
        /\ \A n \in DOMAIN m_values \ {node} :
              n # lastNode + 1 /\ m_values'[n] = m_values[n]
    BY <2>1, CacheAssumption DEF PushBack, Consistent
  <2>3. m_values' \in [DOMAIN m_values' -> Pair]
    BY <1>2, <2>1, <2>2 DEF PushBack, Consistent
  <2>4. /\ DOMAIN m_quickAccess' = DOMAIN m_quickAccess
        /\ m_quickAccess'[key] = lastNode + 1
        /\ \A k \in DOMAIN m_quickAccess \ {key} : m_quickAccess'[k] = m_quickAccess[k]
    BY <2>1
  <2>5. m_quickAccess' \in [DOMAIN m_quickAccess' -> 1 .. lastNode']
    BY <2>1, <2>2, <2>4 DEF Consistent
  <2>6. \A k \in DOMAIN m_quickAccess \ {key} : m_quickAccess[k] # node
    BY <1>1 DEF Consistent, ListMatchesMap
  <2>7. ListMatchesMap'
    <3>1. \A k \in DOMAIN m_quickAccess' :
             /\ m_quickAccess'[k] \in DOMAIN m_values'
             /\ m_values'[m_quickAccess'[k]].key = k
      BY <1>2, <2>2, <2>4, <2>6 DEF Consistent, ListMatchesMap
    <3>2. \A n \in DOMAIN m_values' :
             /\ m_values'[n].key \in DOMAIN m_quickAccess'
             /\ m_quickAccess'[m_values'[n].key] = n
      BY <1>1, <1>2, <2>2, <2>4 DEF Consistent, ListMatchesMap
    <3>3. QED BY <3>1, <3>2 DEF ListMatchesMap
  <2>8. DOMAIN m_values' \subseteq 1 .. lastNode'
    BY <2>2 DEF Consistent
  <2>9. QED BY <2>2, <2>3, <2>4, <2>5, <2>7, <2>8 DEF Consistent
<1>5. QED BY <1>3, <1>4

(* Room for one more. *)
LEMMA RoomForOne ==
    ASSUME NEW S, NEW x, IsFiniteSet(S), Cardinality(S) < MaxSize
    PROVE  IsFiniteSet(S \union {x}) /\ Cardinality(S \union {x}) <= MaxSize
<1>1. Cardinality(S) \in Nat
  BY FS_CardinalityType
<1>2. IsFiniteSet(S \union {x})
  BY FS_AddElement
<1>3. Cardinality(S \union {x}) = Cardinality(S) \/ Cardinality(S \union {x}) = Cardinality(S) + 1
  BY FS_AddElement, Zenon
<1>4. QED BY <1>1, <1>2, <1>3, CacheAssumption

(* The insertion of set, after an eviction that made room or without one.  *)
LEMMA InsertKeeps ==
    ASSUME Consistent, NEW key \in Keys \ DOMAIN m_quickAccess, NEW value \in Values,
           NEW forgotten, NEW erased \in SUBSET DOMAIN m_values,
           forgotten = {m_values[n].key : n \in erased},
           IsFiniteSet(DOMAIN m_quickAccess \ forgotten),
           Cardinality(DOMAIN m_quickAccess \ forgotten) < MaxSize,
           Insert(forgotten, erased, key, value)
    PROVE  Consistent'
<1> DEFINE pair == [key |-> key, value |-> value]
           kept == DOMAIN m_quickAccess \ forgotten
<1>1. pair \in Pair /\ pair.key = key
  BY DEF Pair
<1>2. /\ lastNode \in Nat /\ lastNode' = lastNode + 1 /\ lastNode' \in 0 .. MaxNode
      /\ DOMAIN m_values' = (DOMAIN m_values \ erased) \union {lastNode + 1}
      /\ m_values'[lastNode + 1] = pair
      /\ \A n \in DOMAIN m_values \ erased :
            n # lastNode + 1 /\ m_values'[n] = m_values[n]
  BY CacheAssumption DEF Insert, PushBack, Consistent
<1>3. m_values' \in [DOMAIN m_values' -> Pair]
  BY <1>1, <1>2 DEF Insert, PushBack, Consistent
<1>4. /\ DOMAIN m_quickAccess' = kept \union {key}
      /\ m_quickAccess'[key] = lastNode + 1
      /\ \A k \in kept : k # key /\ m_quickAccess'[k] = m_quickAccess[k]
  BY DEF Insert
<1>5. m_quickAccess' \in [DOMAIN m_quickAccess' -> 1 .. lastNode']
  BY <1>2, <1>4 DEF Insert, Consistent
<1>6. ListMatchesMap'
  <2>1. \A k \in kept : m_quickAccess[k] \in DOMAIN m_values \ erased
    BY DEF Consistent, ListMatchesMap
  <2>2. \A n \in DOMAIN m_values \ erased : m_values[n].key \in kept
    BY DEF Consistent, ListMatchesMap
  <2>3. \A k \in DOMAIN m_quickAccess' :
           /\ m_quickAccess'[k] \in DOMAIN m_values'
           /\ m_values'[m_quickAccess'[k]].key = k
    BY <1>1, <1>2, <1>4, <2>1 DEF Consistent, ListMatchesMap
  <2>4. \A n \in DOMAIN m_values' :
           /\ m_values'[n].key \in DOMAIN m_quickAccess'
           /\ m_quickAccess'[m_values'[n].key] = n
    BY <1>1, <1>2, <1>4, <2>2 DEF Consistent, ListMatchesMap
  <2>5. QED BY <2>3, <2>4 DEF ListMatchesMap
<1>7. IsFiniteSet(kept \union {key}) /\ Cardinality(kept \union {key}) <= MaxSize
  BY RoomForOne
<1>8. DOMAIN m_values' \subseteq 1 .. lastNode'
  BY <1>2 DEF Consistent
<1>9. DOMAIN m_quickAccess' \subseteq Keys
  BY <1>4 DEF Consistent
<1>10. QED BY <1>2, <1>3, <1>4, <1>5, <1>6, <1>7, <1>8, <1>9 DEF Consistent

-----------------------------------------------------------------------------
(* Each operation of the cache keeps list and map together. *)
LEMMA FindKeeps ==
    ASSUME Consistent, NEW key \in Keys, Find(key)
    PROVE  Consistent' /\ found' \in Values \union {NoValue}
<1>1. CASE key \in DOMAIN m_quickAccess
  <2> DEFINE value == m_values[m_quickAccess[key]].value
  <2>1. value \in Values
    BY <1>1 DEF Consistent, ListMatchesMap, Pair
  <2>2. UpdateAccess(key, value) /\ found' = value
    BY <1>1 DEF Find
  <2>3. Consistent'
    BY <1>1, <2>1, <2>2, UpdateAccessKeeps
  <2>4. QED BY <2>1, <2>2, <2>3
<1>2. CASE key \notin DOMAIN m_quickAccess
  <2>1. found' = NoValue /\ UNCHANGED <<m_values, m_quickAccess, lastNode>>
    BY <1>2 DEF Find
  <2>2. QED BY <2>1 DEF Consistent, ListMatchesMap
<1>3. QED BY <1>1, <1>2

LEMMA SetKeeps ==
    ASSUME Consistent, NEW key \in Keys, NEW value \in Values, Set(key, value)
    PROVE  Consistent'
<1>1. CASE key \in DOMAIN m_quickAccess
  BY <1>1, UpdateAccessKeeps DEF Set
<1>2. CASE key \notin DOMAIN m_quickAccess /\ IsFull
  <2> DEFINE oldestKey == m_values[Oldest].key
  <2>1. DOMAIN m_quickAccess # {}
    BY <1>2, FS_EmptySet, CacheAssumption DEF IsFull
  <2>2. Oldest \in DOMAIN m_values
    BY <2>1, OldestIsANode DEF Consistent, ListMatchesMap
  <2>3. oldestKey \in DOMAIN m_quickAccess
    BY <2>2 DEF Consistent, ListMatchesMap
  <2>4. /\ IsFiniteSet(DOMAIN m_quickAccess \ {oldestKey})
        /\ Cardinality(DOMAIN m_quickAccess \ {oldestKey}) = MaxSize - 1
    BY SMTT(30), <1>2, <2>3, FS_RemoveElement DEF IsFull, Consistent
  <2>5. {oldestKey} = {m_values[n].key : n \in {Oldest}}
    OBVIOUS
  <2>6. Insert({oldestKey}, {Oldest}, key, value)
    BY <1>2 DEF Set
  <2>7. QED BY <1>2, <2>2, <2>4, <2>5, <2>6, InsertKeeps, CacheAssumption
<1>3. CASE key \notin DOMAIN m_quickAccess /\ ~ IsFull
  <2>1. DOMAIN m_quickAccess \ {} = DOMAIN m_quickAccess
    OBVIOUS
  <2>2. Cardinality(DOMAIN m_quickAccess) < MaxSize
    BY <1>3, FS_CardinalityType, CacheAssumption DEF IsFull, Consistent
  <2>3. {} = {m_values[n].key : n \in {}}
    OBVIOUS
  <2>4. Insert({}, {}, key, value)
    BY <1>3 DEF Set
  <2>5. IsFiniteSet(DOMAIN m_quickAccess)
    BY DEF Consistent
  <2>6. QED BY <1>3, <2>1, <2>2, <2>3, <2>4, <2>5, InsertKeeps
<1>4. QED BY <1>1, <1>2, <1>3

LEMMA EraseKeeps ==
    ASSUME Consistent, NEW key \in Keys, Erase(key)
    PROVE  Consistent'
<1>1. CASE key \in DOMAIN m_quickAccess
  <2> DEFINE node == m_quickAccess[key]
  <2>1. /\ DOMAIN m_values' = DOMAIN m_values \ {node}
        /\ \A n \in DOMAIN m_values' : m_values'[n] = m_values[n]
        /\ m_values' \in [DOMAIN m_values' -> Pair]
    BY <1>1 DEF Erase, Consistent
  <2>2. /\ DOMAIN m_quickAccess' = DOMAIN m_quickAccess \ {key}
        /\ \A k \in DOMAIN m_quickAccess' : m_quickAccess'[k] = m_quickAccess[k]
        /\ m_quickAccess' \in [DOMAIN m_quickAccess' -> 1 .. lastNode]
        /\ lastNode' = lastNode
    BY <1>1 DEF Erase, Consistent
  <2>3. ListMatchesMap'
    BY <1>1, <2>1, <2>2 DEF Consistent, ListMatchesMap
  <2>4. /\ IsFiniteSet(DOMAIN m_quickAccess \ {key})
        /\ Cardinality(DOMAIN m_quickAccess \ {key}) <= MaxSize
    <3>1. Cardinality(DOMAIN m_quickAccess) \in Nat
      BY FS_CardinalityType DEF Consistent
    <3>2. /\ IsFiniteSet(DOMAIN m_quickAccess \ {key})
          /\ Cardinality(DOMAIN m_quickAccess \ {key})
                = Cardinality(DOMAIN m_quickAccess) - 1
      BY <1>1, FS_RemoveElement DEF Consistent
    <3>3. QED BY <3>1, <3>2, CacheAssumption DEF Consistent
  <2>5. QED BY <2>1, <2>2, <2>3, <2>4 DEF Consistent
<1>2. CASE key \notin DOMAIN m_quickAccess
  BY <1>2 DEF Erase, Consistent, ListMatchesMap
<1>3. QED BY <1>1, <1>2

-----------------------------------------------------------------------------
Invariant == Consistent /\ found \in Values \union {NoValue}

LEMMA InitConsistent == CacheInit => Invariant
BY FS_EmptySet, CacheAssumption DEF CacheInit, Invariant, Consistent, ListMatchesMap

LEMMA StepConsistent == Invariant /\ [CacheNext]_cache => Invariant'
<1> SUFFICES ASSUME Invariant, [CacheNext]_cache
             PROVE  Invariant'
  OBVIOUS
<1>1. ASSUME NEW key \in Keys, Find(key)
      PROVE  Invariant'
  BY <1>1, FindKeeps DEF Invariant
<1>2. ASSUME NEW key \in Keys, NEW value \in Values, Set(key, value)
      PROVE  Invariant'
  <2>1. Consistent'
    BY <1>2, SetKeeps DEF Invariant
  <2>2. QED BY <1>2, <2>1 DEF Invariant, Set
<1>3. ASSUME NEW key \in Keys, Erase(key)
      PROVE  Invariant'
  <2>1. Consistent'
    BY <1>3, EraseKeeps DEF Invariant
  <2>2. QED BY <1>3, <2>1 DEF Invariant, Erase
<1>4. CASE UNCHANGED cache
  BY <1>4 DEF Invariant, Consistent, ListMatchesMap, cache
<1>5. QED BY <1>1, <1>2, <1>3, <1>4 DEF CacheNext

LEMMA AlwaysInvariant == CacheSpec => []Invariant
BY InitConsistent, StepConsistent, PTL DEF CacheSpec

(* The structures of Cache keep their types, and never hold more than      *)
(* m_maxSize keys, although set compares the size with ==.                 *)
THEOREM CacheTypeCorrect == CacheSpec => []CacheTypeOK
<1>1. Invariant => CacheTypeOK
  BY DEF Invariant, Consistent, CacheTypeOK
<1>2. QED BY <1>1, AlwaysInvariant, PTL

(* m_values and m_quickAccess name each other after every find, set and    *)
(* erase: no iterator of the map dangles and no key is lost.               *)
THEOREM CacheListMatchesMap == CacheSpec => []ListMatchesMap
<1>1. Invariant => ListMatchesMap
  BY DEF Invariant, Consistent
<1>2. QED BY <1>1, AlwaysInvariant, PTL

-----------------------------------------------------------------------------
(* The storage and its clients *)

(* TypeOK without the part of the cache. *)
ClientsTyped ==
    /\ uses \in Uses
    /\ owner \in [Connections -> Clients \union {Nobody}]
    /\ table \subseteq Keys
    /\ pc \in [Clients -> {"idle", "found", "guarded", "applied", "returns",
                           "writing", "erasing", "undefined"}]
    /\ calls \in [Clients -> 0 .. MaxCalls]
    /\ asked \in [Clients -> [key : Keys, iterator : 0 .. MaxNode] \union {NotAsking}]
    /\ added \in [Clients -> SUBSET Keys] /\ removed \in [Clients -> SUBSET Keys]
    /\ got \in [Clients -> Values \union {NoValue}]

(* A client that is inside of a guard owns its connection; one that is in  *)
(* a load has asked for a key; one that has no guard of writes has nothing *)
(* to commit.                                                              *)
Outside == {"idle", "found"}
Asking == {"found", "guarded", "applied", "erasing"}
Writing == {"writing", "erasing"}

Guarded ==
    \A c \in Clients :
        /\ pc[c] \notin Outside => owner[uses[c]] = c
        /\ pc[c] \in Asking => asked[c].key \in Keys
        /\ pc[c] \notin Writing => added[c] = {} /\ removed[c] = {}

(* With one connection: what is cached has a row that nobody has erased,   *)
(* and what a load is about to cache too.                                  *)
OneConnection == \A c, d \in Clients : uses[c] = uses[d]

RowsKept ==
    OneConnection =>
        /\ DOMAIN m_quickAccess \subseteq table
        /\ \A c \in Clients :
              /\ pc[c] = "applied" => asked[c].key \in table
              /\ removed[c] \intersect DOMAIN m_quickAccess = {}
              /\ pc[c] = "erasing" => asked[c].key \notin DOMAIN m_quickAccess

StorageInvariant == Invariant /\ ClientsTyped /\ Guarded /\ RowsKept

-----------------------------------------------------------------------------
(* What the operations of the cache do to its set of keys. *)
LEMMA FindKeys ==
    ASSUME Invariant, NEW key \in Keys, Find(key)
    PROVE  /\ Invariant'
           /\ DOMAIN m_quickAccess' = DOMAIN m_quickAccess
           /\ key \in DOMAIN m_quickAccess => m_quickAccess'[key] \in 0 .. MaxNode
<1>1. Invariant'
  BY FindKeeps DEF Invariant
<1>2. DOMAIN m_quickAccess' = DOMAIN m_quickAccess
  BY DEF Find, UpdateAccess
<1>3. key \in DOMAIN m_quickAccess => m_quickAccess'[key] \in 0 .. MaxNode
  BY <1>1, <1>2, CacheAssumption DEF Invariant, Consistent
<1>4. QED BY <1>1, <1>2, <1>3

LEMMA SetKeys ==
    ASSUME Invariant, NEW key \in Keys, NEW value \in Values, Set(key, value)
    PROVE  /\ Invariant'
           /\ DOMAIN m_quickAccess' \subseteq DOMAIN m_quickAccess \union {key}
<1>1. Invariant'
  <2>1. Consistent'
    BY SetKeeps DEF Invariant
  <2>2. QED BY <2>1 DEF Invariant, Set
<1>2. DOMAIN m_quickAccess' \subseteq DOMAIN m_quickAccess \union {key}
  BY DEF Set, UpdateAccess, Insert
<1>3. QED BY <1>1, <1>2

LEMMA EraseKeys ==
    ASSUME Invariant, NEW key \in Keys, Erase(key)
    PROVE  /\ Invariant'
           /\ DOMAIN m_quickAccess' = DOMAIN m_quickAccess \ {key}
<1>1. Invariant'
  <2>1. Consistent'
    BY EraseKeeps DEF Invariant
  <2>2. QED BY <2>1 DEF Invariant, Erase
<1>2. DOMAIN m_quickAccess' = DOMAIN m_quickAccess \ {key}
  BY DEF Erase
<1>3. QED BY <1>1, <1>2

LEMMA SameCache ==
    ASSUME Invariant, UNCHANGED cache
    PROVE  Invariant' /\ DOMAIN m_quickAccess' = DOMAIN m_quickAccess
<1>1. Invariant'
  BY StepConsistent
<1>2. QED BY <1>1 DEF cache
-----------------------------------------------------------------------------
(* Every client has a connection, and of those that share one at most one  *)
(* is inside of a guard.                                                   *)
LEMMA OneGuard ==
    ASSUME StorageInvariant
    PROVE  /\ \A c \in Clients : uses[c] \in Connections
           /\ OneConnection =>
                 \A c, d \in Clients :
                    pc[c] \notin Outside /\ pc[d] \notin Outside => c = d
<1>1. \A c \in Clients : uses[c] \in Connections
  BY StorageAssumption DEF StorageInvariant, ClientsTyped
<1>2. \A c \in Clients : pc[c] \notin Outside => owner[uses[c]] = c
  BY DEF StorageInvariant, Guarded
<1>3. QED BY <1>1, <1>2 DEF OneConnection

(* A client that takes or gives back its connection disturbs no other one. *)
LEMMA LocksKeeps ==
    ASSUME StorageInvariant, NEW c \in Clients,
           owner[uses[c]] \in {Nobody, c},
           NEW value \in Clients \union {Nobody},
           owner' = [owner EXCEPT ![uses[c]] = value]
    PROVE  /\ owner' \in [Connections -> Clients \union {Nobody}]
           /\ owner'[uses[c]] = value
           /\ \A d \in Clients \ {c} :
                 pc[d] \notin Outside => owner'[uses[d]] = d
<1>1. owner \in [Connections -> Clients \union {Nobody}]
  BY DEF StorageInvariant, ClientsTyped
<1>2. \A d \in Clients : uses[d] \in Connections
  BY OneGuard
<1>3. \A d \in Clients : pc[d] \notin Outside => owner[uses[d]] = d
  BY DEF StorageInvariant, Guarded
<1>4. QED BY <1>1, <1>2, <1>3, StorageAssumption

LEMMA LookUpKeeps ==
    ASSUME StorageInvariant, NEW c \in Clients, NEW key \in Keys, LookUp(c, key)
    PROVE  StorageInvariant'
<1>1. /\ Invariant'
      /\ DOMAIN m_quickAccess' = DOMAIN m_quickAccess
      /\ key \in DOMAIN m_quickAccess => m_quickAccess'[key] \in 0 .. MaxNode
  BY FindKeys DEF StorageInvariant, LookUp
<1>2. ClientsTyped'
  <2>1. asked' \in [Clients -> [key : Keys, iterator : 0 .. MaxNode] \union {NotAsking}]
    <3>1. End \in 0 .. MaxNode
      BY CacheAssumption DEF End
    <3>2. QED BY <1>1, <3>1 DEF StorageInvariant, ClientsTyped, LookUp
  <2>2. QED
    BY <2>1, StorageAssumption
    DEF StorageInvariant, ClientsTyped, LookUp, Goes, Calls, database
<1>3. Guarded'
  BY <1>1 DEF StorageInvariant, ClientsTyped, Guarded, Outside, Asking, Writing,
     LookUp, Goes, Calls, database
<1>4. RowsKept'
  BY <1>1, OneGuard DEF StorageInvariant, ClientsTyped, Guarded, RowsKept,
     OneConnection, Outside, Asking, Writing, LookUp, Goes, Calls, database
<1>5. QED BY <1>1, <1>2, <1>3, <1>4 DEF StorageInvariant

LEMMA LoadLocksKeeps ==
    ASSUME StorageInvariant, NEW c \in Clients, LoadLocks(c)
    PROVE  StorageInvariant'
<1>1. Invariant' /\ DOMAIN m_quickAccess' = DOMAIN m_quickAccess
  BY SameCache DEF StorageInvariant, LoadLocks
<1>2. /\ owner' \in [Connections -> Clients \union {Nobody}]
      /\ owner'[uses[c]] = c
      /\ \A d \in Clients \ {c} : pc[d] \notin Outside => owner'[uses[d]] = d
  BY LocksKeeps DEF LoadLocks, Locks
<1>3. ClientsTyped'
  BY <1>1, <1>2 DEF StorageInvariant, ClientsTyped, LoadLocks, Goes
<1>4. Guarded'
  BY <1>1, <1>2 DEF StorageInvariant, ClientsTyped, Guarded, Outside, Asking, Writing,
     LoadLocks, Goes
<1>5. RowsKept'
  BY <1>1, <1>2, OneGuard DEF StorageInvariant, ClientsTyped, Guarded, RowsKept,
     OneConnection, Outside, Asking, Writing, LoadLocks, Goes
<1>6. QED BY <1>1, <1>3, <1>4, <1>5 DEF StorageInvariant

LEMMA LoadFaultKeeps ==
    ASSUME StorageInvariant, NEW c \in Clients, LoadFault(c)
    PROVE  StorageInvariant'
<1>1. Invariant' /\ DOMAIN m_quickAccess' = DOMAIN m_quickAccess
  BY SameCache DEF StorageInvariant, LoadFault
<1>2. ClientsTyped'
  BY <1>1 DEF StorageInvariant, ClientsTyped, LoadFault, Goes, database, Missed
<1>3. Guarded'
  BY <1>1 DEF StorageInvariant, ClientsTyped, Guarded, Outside, Asking, Writing,
     LoadFault, Goes, database, Missed
<1>4. RowsKept'
  BY <1>1, OneGuard DEF StorageInvariant, ClientsTyped, Guarded, RowsKept,
     OneConnection, Outside, Asking, Writing, LoadFault, Goes, database, Missed
<1>5. QED BY <1>1, <1>2, <1>3, <1>4 DEF StorageInvariant

LEMMA LoadSetsKeeps ==
    ASSUME StorageInvariant, NEW c \in Clients, LoadSets(c)
    PROVE  StorageInvariant'
<1>1. asked[c].key \in Keys
  BY DEF StorageInvariant, Guarded, Asking, LoadSets, Goes
<1>2. NewObject \in Values
  BY DEF LoadSets, NewObject
<1>3. Invariant' /\ DOMAIN m_quickAccess' \subseteq DOMAIN m_quickAccess \union {asked[c].key}
  BY <1>1, <1>2, SetKeys DEF StorageInvariant, LoadSets
<1>4. ClientsTyped'
  BY <1>1, <1>2, <1>3 DEF StorageInvariant, ClientsTyped, LoadSets, Goes, database
<1>5. Guarded'
  BY <1>1, <1>2, <1>3 DEF StorageInvariant, ClientsTyped, Guarded, Outside, Asking, Writing,
     LoadSets, Goes, database
<1>6. RowsKept'
  BY <1>1, <1>2, <1>3, OneGuard DEF StorageInvariant, ClientsTyped, Guarded, RowsKept,
     OneConnection, Outside, Asking, Writing, LoadSets, Goes, database
<1>7. QED BY <1>3, <1>4, <1>5, <1>6 DEF StorageInvariant

LEMMA LoadHitKeeps ==
    ASSUME StorageInvariant, NEW c \in Clients, LoadHit(c)
    PROVE  StorageInvariant'
<1>1. Invariant' /\ DOMAIN m_quickAccess' = DOMAIN m_quickAccess
  BY SameCache DEF StorageInvariant, LoadHit
<1>2. ClientsTyped'
  <2>1. asked[c].iterator \in DOMAIN m_values
           => m_values[asked[c].iterator].value \in Values
    BY DEF StorageInvariant, Invariant, Consistent, Pair
  <2>2. QED BY <2>1 DEF StorageInvariant, ClientsTyped, LoadHit, Goes, database
<1>3. Guarded'
  BY <1>1 DEF StorageInvariant, ClientsTyped, Guarded, Outside, Asking, Writing,
     LoadHit, Goes, database
<1>4. RowsKept'
  BY <1>1, OneGuard DEF StorageInvariant, ClientsTyped, Guarded, RowsKept,
     OneConnection, Outside, Asking, Writing, LoadHit, Goes, database
<1>5. QED BY <1>1, <1>2, <1>3, <1>4 DEF StorageInvariant

LEMMA LoadReturnsKeeps ==
    ASSUME StorageInvariant, NEW c \in Clients, LoadReturns(c)
    PROVE  StorageInvariant'
<1>1. Invariant' /\ DOMAIN m_quickAccess' = DOMAIN m_quickAccess
  BY SameCache DEF StorageInvariant, LoadReturns
<1>2. /\ owner' \in [Connections -> Clients \union {Nobody}]
      /\ owner'[uses[c]] = Nobody
      /\ \A d \in Clients \ {c} : pc[d] \notin Outside => owner'[uses[d]] = d
  <2>1. owner[uses[c]] = c
    BY DEF StorageInvariant, Guarded, Outside, LoadReturns, Goes
  <2>2. owner' = [owner EXCEPT ![uses[c]] = Nobody]
    BY DEF LoadReturns, Unlocks
  <2>3. QED BY <2>1, <2>2, LocksKeeps
<1>3. ClientsTyped'
  BY <1>1, <1>2 DEF StorageInvariant, ClientsTyped, LoadReturns, Goes
<1>4. Guarded'
  BY <1>1, <1>2 DEF StorageInvariant, ClientsTyped, Guarded, Outside, Asking, Writing,
     LoadReturns, Goes
<1>5. RowsKept'
  BY <1>1, <1>2, OneGuard DEF StorageInvariant, ClientsTyped, Guarded, RowsKept,
     OneConnection, Outside, Asking, Writing, LoadReturns, Goes
<1>6. QED BY <1>1, <1>3, <1>4, <1>5 DEF StorageInvariant

LEMMA GuardLocksKeeps ==
    ASSUME StorageInvariant, NEW c \in Clients, GuardLocks(c)
    PROVE  StorageInvariant'
<1>1. Invariant' /\ DOMAIN m_quickAccess' = DOMAIN m_quickAccess
  BY SameCache DEF StorageInvariant, GuardLocks
<1>2. /\ owner' \in [Connections -> Clients \union {Nobody}]
      /\ owner'[uses[c]] = c
      /\ \A d \in Clients \ {c} : pc[d] \notin Outside => owner'[uses[d]] = d
  BY LocksKeeps DEF GuardLocks, Locks
<1>3. ClientsTyped'
  BY <1>1, <1>2 DEF StorageInvariant, ClientsTyped, GuardLocks, Goes
<1>4. Guarded'
  BY <1>1, <1>2 DEF StorageInvariant, ClientsTyped, Guarded, Outside, Asking, Writing,
     GuardLocks, Goes
<1>5. RowsKept'
  BY <1>1, <1>2, OneGuard DEF StorageInvariant, ClientsTyped, Guarded, RowsKept,
     OneConnection, Outside, Asking, Writing, GuardLocks, Goes
<1>6. QED BY <1>1, <1>3, <1>4, <1>5 DEF StorageInvariant

LEMMA SaveKeeps ==
    ASSUME StorageInvariant, NEW c \in Clients, NEW key \in Keys, Save(c, key)
    PROVE  StorageInvariant'
<1>1. Invariant' /\ DOMAIN m_quickAccess' = DOMAIN m_quickAccess
  BY SameCache DEF StorageInvariant, Save
<1>2. ClientsTyped'
  BY <1>1, StorageAssumption
  DEF StorageInvariant, ClientsTyped, Save, Goes, Calls, Executes, Commits
<1>3. Guarded'
  BY <1>1 DEF StorageInvariant, ClientsTyped, Guarded, Outside, Asking, Writing,
     Save, Goes, Calls, Executes, Commits
<1>4. RowsKept'
  BY <1>1, OneGuard DEF StorageInvariant, ClientsTyped, Guarded, RowsKept,
     OneConnection, Outside, Asking, Writing, Save, Goes, Calls, Executes, Commits
<1>5. QED BY <1>1, <1>2, <1>3, <1>4 DEF StorageInvariant

LEMMA SaveFailsKeeps ==
    ASSUME StorageInvariant, NEW c \in Clients, SaveFails(c)
    PROVE  StorageInvariant'
<1>1. Invariant' /\ DOMAIN m_quickAccess' = DOMAIN m_quickAccess
  BY SameCache DEF StorageInvariant, SaveFails
<1>2. ClientsTyped'
  BY <1>1, StorageAssumption
  DEF StorageInvariant, ClientsTyped, SaveFails, Goes, Calls, database
<1>3. Guarded'
  BY <1>1 DEF StorageInvariant, ClientsTyped, Guarded, Outside, Asking, Writing,
     SaveFails, Goes, Calls, database
<1>4. RowsKept'
  BY <1>1, OneGuard DEF StorageInvariant, ClientsTyped, Guarded, RowsKept,
     OneConnection, Outside, Asking, Writing, SaveFails, Goes, Calls, database
<1>5. QED BY <1>1, <1>2, <1>3, <1>4 DEF StorageInvariant

LEMMA EraseCachedKeeps ==
    ASSUME StorageInvariant, NEW c \in Clients, NEW key \in Keys, EraseCached(c, key)
    PROVE  StorageInvariant'
<1>1. Invariant' /\ DOMAIN m_quickAccess' = DOMAIN m_quickAccess \ {key}
  BY EraseKeys DEF StorageInvariant, EraseCached
<1>2. ClientsTyped'
  <2>1. asked' \in [Clients -> [key : Keys, iterator : 0 .. MaxNode] \union {NotAsking}]
    <3>1. End \in 0 .. MaxNode
      BY CacheAssumption DEF End
    <3>2. QED BY <3>1 DEF StorageInvariant, ClientsTyped, EraseCached
  <2>2. QED
    BY <2>1, StorageAssumption
    DEF StorageInvariant, ClientsTyped, EraseCached, Goes, Calls, database
<1>3. Guarded'
  BY <1>1 DEF StorageInvariant, ClientsTyped, Guarded, Outside, Asking, Writing,
     EraseCached, Goes, Calls, database
<1>4. RowsKept'
  BY <1>1, OneGuard DEF StorageInvariant, ClientsTyped, Guarded, RowsKept,
     OneConnection, Outside, Asking, Writing, EraseCached, Goes, Calls, database
<1>5. QED BY <1>1, <1>2, <1>3, <1>4 DEF StorageInvariant

LEMMA EraseRowKeeps ==
    ASSUME StorageInvariant, NEW c \in Clients, EraseRow(c)
    PROVE  StorageInvariant'
<1>1. Invariant' /\ DOMAIN m_quickAccess' = DOMAIN m_quickAccess
  BY SameCache DEF StorageInvariant, EraseRow
<1>2. ClientsTyped'
  <2>1. asked[c].key \in Keys
    BY DEF StorageInvariant, Guarded, Asking, EraseRow, Goes
  <2>2. QED
    BY <2>1 DEF StorageInvariant, ClientsTyped, EraseRow, Goes, Executes, Commits
<1>3. Guarded'
  BY <1>1 DEF StorageInvariant, ClientsTyped, Guarded, Outside, Asking, Writing,
     EraseRow, Goes, Executes, Commits
<1>4. RowsKept'
  BY <1>1, OneGuard DEF StorageInvariant, ClientsTyped, Guarded, RowsKept,
     OneConnection, Outside, Asking, Writing, EraseRow, Goes, Executes, Commits
<1>5. QED BY <1>1, <1>2, <1>3, <1>4 DEF StorageInvariant

LEMMA EraseFailsKeeps ==
    ASSUME StorageInvariant, NEW c \in Clients, EraseFails(c)
    PROVE  StorageInvariant'
<1>1. Invariant' /\ DOMAIN m_quickAccess' = DOMAIN m_quickAccess
  BY SameCache DEF StorageInvariant, EraseFails
<1>2. ClientsTyped'
  BY <1>1 DEF StorageInvariant, ClientsTyped, EraseFails, Goes, database
<1>3. Guarded'
  BY <1>1 DEF StorageInvariant, ClientsTyped, Guarded, Outside, Asking, Writing,
     EraseFails, Goes, database
<1>4. RowsKept'
  BY <1>1, OneGuard DEF StorageInvariant, ClientsTyped, Guarded, RowsKept,
     OneConnection, Outside, Asking, Writing, EraseFails, Goes, database
<1>5. QED BY <1>1, <1>2, <1>3, <1>4 DEF StorageInvariant

LEMMA GuardCommitsKeeps ==
    ASSUME StorageInvariant, NEW c \in Clients, GuardCommits(c)
    PROVE  StorageInvariant'
<1>1. Invariant' /\ DOMAIN m_quickAccess' = DOMAIN m_quickAccess
  BY SameCache DEF StorageInvariant, GuardCommits
<1>2. /\ owner' \in [Connections -> Clients \union {Nobody}]
      /\ owner'[uses[c]] = Nobody
      /\ \A d \in Clients \ {c} : pc[d] \notin Outside => owner'[uses[d]] = d
  <2>1. owner[uses[c]] = c
    BY DEF StorageInvariant, Guarded, Outside, GuardCommits, Goes
  <2>2. owner' = [owner EXCEPT ![uses[c]] = Nobody]
    BY DEF GuardCommits, Unlocks
  <2>3. QED BY <2>1, <2>2, LocksKeeps
<1>3. ClientsTyped'
  BY <1>1, <1>2 DEF StorageInvariant, ClientsTyped, GuardCommits, Goes, Commits
<1>4. Guarded'
  BY <1>1, <1>2 DEF StorageInvariant, ClientsTyped, Guarded, Outside, Asking, Writing,
     GuardCommits, Goes, Commits
<1>5. RowsKept'
  BY <1>1, <1>2, OneGuard DEF StorageInvariant, ClientsTyped, Guarded, RowsKept,
     OneConnection, Outside, Asking, Writing, GuardCommits, Goes, Commits
<1>6. QED BY <1>1, <1>3, <1>4, <1>5 DEF StorageInvariant

LEMMA GuardRollsBackKeeps ==
    ASSUME StorageInvariant, NEW c \in Clients, GuardRollsBack(c)
    PROVE  StorageInvariant'
<1>1. Invariant' /\ DOMAIN m_quickAccess' = DOMAIN m_quickAccess
  BY SameCache DEF StorageInvariant, GuardRollsBack
<1>2. /\ owner' \in [Connections -> Clients \union {Nobody}]
      /\ owner'[uses[c]] = Nobody
      /\ \A d \in Clients \ {c} : pc[d] \notin Outside => owner'[uses[d]] = d
  <2>1. owner[uses[c]] = c
    BY DEF StorageInvariant, Guarded, Outside, GuardRollsBack, Goes
  <2>2. owner' = [owner EXCEPT ![uses[c]] = Nobody]
    BY DEF GuardRollsBack, Unlocks
  <2>3. QED BY <2>1, <2>2, LocksKeeps
<1>3. ClientsTyped'
  BY <1>1, <1>2 DEF StorageInvariant, ClientsTyped, GuardRollsBack, Goes
<1>4. Guarded'
  BY <1>1, <1>2 DEF StorageInvariant, ClientsTyped, Guarded, Outside, Asking, Writing,
     GuardRollsBack, Goes
<1>5. RowsKept'
  BY <1>1, <1>2, OneGuard DEF StorageInvariant, ClientsTyped, Guarded, RowsKept,
     OneConnection, Outside, Asking, Writing, GuardRollsBack, Goes
<1>6. QED BY <1>1, <1>3, <1>4, <1>5 DEF StorageInvariant

-----------------------------------------------------------------------------
LEMMA StorageInit == Init => StorageInvariant
<1> SUFFICES ASSUME Init
             PROVE  StorageInvariant
  OBVIOUS
<1>1. Invariant
  BY InitConsistent DEF Init
<1>2. ClientsTyped
  BY StorageAssumption DEF Init, ClientsTyped
<1>3. Guarded
  BY DEF Init, Guarded, Outside, Asking, Writing
<1>4. RowsKept
  BY DEF Init, RowsKept, CacheInit
<1>5. QED BY <1>1, <1>2, <1>3, <1>4 DEF StorageInvariant

LEMMA StorageStep == StorageInvariant /\ [Next]_vars => StorageInvariant'
<1> SUFFICES ASSUME StorageInvariant, [Next]_vars
             PROVE  StorageInvariant'
  OBVIOUS
<1>1. CASE UNCHANGED vars
  <2>1. Invariant'
    BY <1>1, SameCache DEF StorageInvariant, vars
  <2>2. ClientsTyped' /\ Guarded' /\ RowsKept'
    BY <1>1 DEF StorageInvariant, ClientsTyped, Guarded, RowsKept, OneConnection,
       vars, cache, database, clients
  <2>3. QED BY <2>1, <2>2 DEF StorageInvariant
<1>2. ASSUME NEW c \in Clients, NEW key \in Keys,
             LookUp(c, key) \/ Save(c, key) \/ EraseCached(c, key)
      PROVE  StorageInvariant'
  BY <1>2, LookUpKeeps, SaveKeeps, EraseCachedKeeps
<1>3. ASSUME NEW c \in Clients,
             LoadLocks(c) \/ LoadFault(c) \/ LoadSets(c) \/ LoadHit(c) \/ LoadReturns(c)
      PROVE  StorageInvariant'
  BY <1>3, LoadLocksKeeps, LoadFaultKeeps, LoadSetsKeeps, LoadHitKeeps, LoadReturnsKeeps
<1>4. ASSUME NEW c \in Clients,
             \/ GuardLocks(c) \/ SaveFails(c) \/ EraseRow(c) \/ EraseFails(c)
             \/ GuardCommits(c) \/ GuardRollsBack(c)
      PROVE  StorageInvariant'
  BY <1>4, GuardLocksKeeps, SaveFailsKeeps, EraseRowKeeps, EraseFailsKeeps,
     GuardCommitsKeeps, GuardRollsBackKeeps
<1>5. QED BY <1>1, <1>2, <1>3, <1>4 DEF Next

LEMMA StorageAlways == Spec => []StorageInvariant
BY StorageInit, StorageStep, PTL DEF Spec

(* The clients, their connections and the cache keep their types: the      *)
(* cache never exceeds its size.                                           *)
THEOREM StorageTypeCorrect == Spec => []TypeOK
<1>1. StorageInvariant => TypeOK
  BY DEF StorageInvariant, Invariant, Consistent, CacheTypeOK, ClientsTyped, TypeOK
<1>2. QED BY <1>1, StorageAlways, PTL

(* load, save and erase of any number of clients keep the list and the map *)
(* of the cache together.                                                  *)
THEOREM StorageListMatchesMap == Spec => []ListMatchesMap
<1>1. StorageInvariant => ListMatchesMap
  BY DEF StorageInvariant, Invariant, Consistent
<1>2. QED BY <1>1, StorageAlways, PTL

(* Clients that share one connection never find an object in the cache     *)
(* whose row a committed erase has removed: load sets it and erase drops   *)
(* it inside of the guard, and the guards of one connection exclude each   *)
(* other.                                                                  *)
THEOREM StorageCachedRowsExist == Spec => []CachedRowsExist
<1>1. StorageInvariant => CachedRowsExist
  BY DEF StorageInvariant, RowsKept, OneConnection, CachedRowsExist
<1>2. QED BY <1>1, StorageAlways, PTL

-----------------------------------------------------------------------------
(* The cache as a sequence of pairs *)

(* How many of the nodes there are up to n. *)
Rank(nodes, n) == Cardinality({m \in nodes : m <= n})

(* Ranks tell the nodes apart, and are in the order of their numbers. *)
LEMMA RankOrders ==
    ASSUME NEW nodes \in SUBSET Nat, IsFiniteSet(nodes)
    PROVE  /\ Cardinality(nodes) \in Nat
           /\ \A n \in nodes : Rank(nodes, n) \in 1 .. Cardinality(nodes)
           /\ \A m, n \in nodes : m < n => Rank(nodes, m) < Rank(nodes, n)
           /\ \A m, n \in nodes : Rank(nodes, m) = Rank(nodes, n) => m = n
<1> DEFINE upTo(n) == {m \in nodes : m <= n}
<1>1. Cardinality(nodes) \in Nat
  BY FS_CardinalityType
<1>2. ASSUME NEW n \in nodes
      PROVE  /\ IsFiniteSet(upTo(n)) /\ upTo(n) # {}
             /\ Cardinality(upTo(n)) \in 1 .. Cardinality(nodes)
  <2>1. IsFiniteSet(upTo(n)) /\ Cardinality(upTo(n)) <= Cardinality(nodes)
    BY FS_Subset
  <2>2. n \in upTo(n)
    OBVIOUS
  <2>3. Cardinality(upTo(n)) \in Nat /\ Cardinality(upTo(n)) # 0
    BY <2>1, <2>2, FS_CardinalityType, FS_EmptySet
  <2>4. QED BY <1>1, <2>1, <2>2, <2>3
<1>3. ASSUME NEW m \in nodes, NEW n \in nodes, m < n
      PROVE  Rank(nodes, m) < Rank(nodes, n)
  <2>1. /\ \A x \in nodes : x <= m => x <= n
        /\ ~ (n <= m) /\ n <= n
    BY <1>3
  <2>4. upTo(m) \in SUBSET upTo(n) /\ n \in upTo(n) /\ n \notin upTo(m)
    BY <2>1
  <2>2. /\ Cardinality(upTo(m)) <= Cardinality(upTo(n))
        /\ Cardinality(upTo(m)) # Cardinality(upTo(n))
    BY <1>2, <2>4, FS_Subset
  <2>3. Cardinality(upTo(m)) \in Nat /\ Cardinality(upTo(n)) \in Nat
    BY <1>2
  <2>5. QED BY <2>2, <2>3 DEF Rank
<1>4. \A n \in nodes : Rank(nodes, n) \in 1 .. Cardinality(nodes)
  BY <1>2 DEF Rank
<1>5. ASSUME NEW m \in nodes, NEW n \in nodes, Rank(nodes, m) = Rank(nodes, n), m # n
      PROVE  FALSE
  <2>1. Rank(nodes, m) \in Nat
    BY <1>1, <1>4
  <2>2. m < n \/ n < m
    BY <1>5
  <2>3. QED BY <1>3, <1>5, <2>1, <2>2
<1>6. QED BY <1>1, <1>3, <1>4, <1>5

(* The nodes from front to back. *)
Enumerates(q, length, nodes) ==
    /\ q \in [1 .. length -> nodes]
    /\ \A n \in nodes : \E i \in 1 .. length : q[i] = n
    /\ \A i, j \in 1 .. length : i < j => q[i] < q[j]

(* The nodes by their ranks are all of them, from front to back. *)
LEMMA NodesInOrder ==
    ASSUME NEW nodes \in SUBSET Nat, IsFiniteSet(nodes)
    PROVE  Enumerates([i \in 1 .. Cardinality(nodes) |-> NodeAt(nodes, i)],
                      Cardinality(nodes), nodes)
<1> DEFINE size == Cardinality(nodes)
           rank == [n \in nodes |-> Rank(nodes, n)]
<1>1. /\ size \in Nat
      /\ \A n \in nodes : Rank(nodes, n) \in 1 .. size
      /\ \A m, n \in nodes : m < n => Rank(nodes, m) < Rank(nodes, n)
      /\ \A m, n \in nodes : Rank(nodes, m) = Rank(nodes, n) => m = n
  BY RankOrders
<1>2. rank \in Injection(nodes, 1 .. size)
  BY <1>1, Fun_IsInj
<1>3. IsFiniteSet(1 .. size) /\ Cardinality(1 .. size) = size
  BY <1>1, FS_Interval
<1>4. rank \in Surjection(nodes, 1 .. size)
  BY <1>2, <1>3, FS_Injection
<1>5. \A i \in 1 .. size : \E n \in nodes : Rank(nodes, n) = i
  BY <1>4 DEF Surjection
<1>6. \A i \in 1 .. size : NodeAt(nodes, i) \in nodes /\ Rank(nodes, NodeAt(nodes, i)) = i
  BY <1>5 DEF NodeAt, Rank
<1> HIDE DEF size
<1>7. \A n \in nodes : Rank(nodes, n) \in 1 .. size /\ NodeAt(nodes, Rank(nodes, n)) = n
  BY <1>1, <1>6
<1>8. ASSUME NEW i \in 1 .. size, NEW j \in 1 .. size, i < j
      PROVE  NodeAt(nodes, i) < NodeAt(nodes, j)
  <2> DEFINE m == NodeAt(nodes, i)
             n == NodeAt(nodes, j)
  <2>1. m \in nodes /\ n \in nodes /\ Rank(nodes, m) = i /\ Rank(nodes, n) = j
    BY <1>6
  <2>2. m \in Nat /\ n \in Nat
    BY <2>1
  <2> HIDE DEF m, n
  <2>3. m # n /\ ~ (n < m)
    BY <1>1, <1>8, <2>1
  <2>4. m < n
    BY <2>2, <2>3
  <2>5. QED BY <2>4 DEF m, n
<1>9. QED BY <1>6, <1>7, <1>8 DEF Enumerates, size

(* There is no other way to have them in order. *)
LEMMA OneOrder ==
    ASSUME NEW nodes \in SUBSET Nat, NEW size \in Nat, NEW q, Enumerates(q, size, nodes)
    PROVE  /\ IsFiniteSet(nodes) /\ Cardinality(nodes) = size
           /\ \A i \in 1 .. size : NodeAt(nodes, i) = q[i]
<1>1. \A i \in 1 .. size : q[i] \in nodes /\ q[i] \in Nat
  BY DEF Enumerates
<1>2. \A i, j \in 1 .. size : i < j => q[i] < q[j]
  BY DEF Enumerates
<1>3. \A i, j \in 1 .. size : (q[j] <= q[i]) <=> (j <= i)
  BY <1>1, <1>2
<1>4. \A i, j \in 1 .. size : q[i] = q[j] => i = j
  BY <1>1, <1>2
<1>5. q \in Bijection(1 .. size, nodes)
  BY <1>4, Fun_IsBij DEF Enumerates
<1>6. IsFiniteSet(nodes) /\ Cardinality(nodes) = size
  BY <1>5, FS_NatBijection, FS_CountingElements DEF ExistsBijection
<1>7. ASSUME NEW i \in 1 .. size
      PROVE  Rank(nodes, q[i]) = i
  <2> DEFINE upTo == {m \in nodes : m <= q[i]}
             part == [j \in 1 .. i |-> q[j]]
  <2>1. part \in [1 .. i -> upTo]
    BY <1>1, <1>3
  <2>2. \A m \in upTo : \E j \in 1 .. i : part[j] = m
    BY <1>3 DEF Enumerates
  <2>3. \A j, k \in 1 .. i : part[j] = part[k] => j = k
    BY <1>4
  <2>4. part \in Bijection(1 .. i, upTo)
    BY <2>1, <2>2, <2>3, Fun_IsBij
  <2>5. Cardinality(upTo) = i
    BY <2>4, FS_CountingElements DEF ExistsBijection
  <2>6. QED BY <2>5 DEF Rank
<1>8. ASSUME NEW i \in 1 .. size
      PROVE  NodeAt(nodes, i) = q[i]
  <2>1. q[i] \in nodes /\ Rank(nodes, q[i]) = i
    BY <1>1, <1>7
  <2>2. NodeAt(nodes, i) \in nodes /\ Rank(nodes, NodeAt(nodes, i)) = i
    BY <2>1 DEF NodeAt, Rank
  <2>3. \A m, n \in nodes : Rank(nodes, m) = Rank(nodes, n) => m = n
    BY <1>6, RankOrders
  <2>4. QED BY <2>1, <2>2, <2>3
<1>9. QED BY <1>6, <1>8
(* The list of a function from nodes to pairs. *)
Listing(f) == [i \in 1 .. Cardinality(DOMAIN f) |-> f[NodeAt(DOMAIN f, i)]]
Kept(f, erased) == [m \in DOMAIN f \ erased |-> f[m]]
Without(f, n) == Kept(f, {n})
With(f, n, pair) == [m \in DOMAIN f \union {n} |-> IF m = n THEN pair ELSE f[m]]

(* Whatever has the nodes in order has the pairs of the list in order. *)
LEMMA ListingIs ==
    ASSUME NEW f, DOMAIN f \subseteq Nat, NEW size \in Nat, NEW q,
           Enumerates(q, size, DOMAIN f)
    PROVE  Listing(f) = [i \in 1 .. size |-> f[q[i]]]
BY OneOrder DEF Listing

(* A list of pairs is a sequence, and every node is at its rank in it. *)
LEMMA ListingOrder ==
    ASSUME NEW S, NEW f, f \in [DOMAIN f -> S], DOMAIN f \subseteq Nat, IsFiniteSet(DOMAIN f)
    PROVE  /\ Listing(f) \in Seq(S) /\ Len(Listing(f)) = Cardinality(DOMAIN f)
           /\ Cardinality(DOMAIN f) \in Nat
           /\ \A n \in DOMAIN f :
                 /\ Rank(DOMAIN f, n) \in 1 .. Len(Listing(f))
                 /\ NodeAt(DOMAIN f, Rank(DOMAIN f, n)) = n
                 /\ Listing(f)[Rank(DOMAIN f, n)] = f[n]
           /\ \A i \in 1 .. Len(Listing(f)) :
                 /\ NodeAt(DOMAIN f, i) \in DOMAIN f
                 /\ Listing(f)[i] = f[NodeAt(DOMAIN f, i)]
                 /\ Rank(DOMAIN f, NodeAt(DOMAIN f, i)) = i
<1> DEFINE nodes == DOMAIN f
           size == Cardinality(nodes)
           q == [i \in 1 .. size |-> NodeAt(nodes, i)]
<1>1. /\ size \in Nat
      /\ \A n \in nodes : Rank(nodes, n) \in 1 .. size
      /\ \A m, n \in nodes : Rank(nodes, m) = Rank(nodes, n) => m = n
  BY RankOrders
<1>2. Enumerates(q, size, nodes)
  BY NodesInOrder
<1>3. \A i \in 1 .. size : NodeAt(nodes, i) \in nodes
  BY <1>2 DEF Enumerates
<1>4. \A n \in nodes : \E i \in 1 .. size : NodeAt(nodes, i) = n
  BY <1>2 DEF Enumerates
<1>5. \A i \in 1 .. size : Listing(f)[i] = f[NodeAt(nodes, i)]
  BY DEF Listing
<1>6. Listing(f) \in [1 .. size -> S]
  BY <1>3 DEF Listing
<1>7. Listing(f) \in Seq(S) /\ Len(Listing(f)) = size
  BY <1>1, <1>6
<1>8. ASSUME NEW n \in nodes
      PROVE  NodeAt(nodes, Rank(nodes, n)) = n /\ Rank(nodes, n) \in 1 .. size
  <2>1. \E m \in nodes : Rank(nodes, m) = Rank(nodes, n)
    OBVIOUS
  <2>2. Rank(nodes, NodeAt(nodes, Rank(nodes, n))) = Rank(nodes, n)
    BY <2>1 DEF NodeAt, Rank
  <2>3. Rank(nodes, n) \in 1 .. size
    BY <1>1
  <2>4. NodeAt(nodes, Rank(nodes, n)) \in nodes
    BY <1>3, <2>3
  <2>5. QED BY <1>1, <2>2, <2>3, <2>4
<1>9. \A i \in 1 .. size : Rank(nodes, NodeAt(nodes, i)) = i
  <2> TAKE i \in 1 .. size
  <2>1. PICK n \in nodes : NodeAt(nodes, i) = n
    BY <1>3
  <2>2. \A j \in 1 .. size : NodeAt(nodes, j) = n => j = i
    BY <1>2, <2>1 DEF Enumerates
  <2>3. QED BY <1>8, <2>1, <2>2
<1> HIDE DEF nodes, size, q
<1>10. QED BY <1>1, <1>3, <1>5, <1>7, <1>8, <1>9 DEF nodes, size

(* RemoveAt, position by position. *)
LEMMA RemoveAtIs ==
    ASSUME NEW S, NEW s \in Seq(S), NEW r \in 1 .. Len(s)
    PROVE  RemoveAt(s, r)
             = [i \in 1 .. Len(s) - 1 |-> s[IF i < r THEN i ELSE i + 1]]
<1> DEFINE front == SubSeq(s, 1, r - 1)
           rest == SubSeq(s, r + 1, Len(s))
<1>1. /\ front \in Seq(S) /\ Len(front) = r - 1
      /\ \A i \in 1 .. r - 1 : front[i] = s[i]
  OBVIOUS
<1>2. /\ rest \in Seq(S) /\ Len(rest) = Len(s) - r
      /\ \A i \in 1 .. Len(s) - r : rest[i] = s[r + i]
  OBVIOUS
<1> HIDE DEF front, rest
<1>3. /\ front \o rest \in Seq(S) /\ Len(front \o rest) = Len(front) + Len(rest)
      /\ \A i \in 1 .. Len(front) + Len(rest) :
            (front \o rest)[i] = IF i <= Len(front) THEN front[i] ELSE rest[i - Len(front)]
  BY <1>1, <1>2, ConcatProperties, Zenon
<1>4. /\ Len(s) \in Nat /\ Len(front) + Len(rest) = Len(s) - 1
      /\ Len(front \o rest) = Len(s) - 1
  BY <1>1, <1>2, <1>3
<1>5. ASSUME NEW i \in 1 .. Len(s) - 1
      PROVE  (front \o rest)[i] = s[IF i < r THEN i ELSE i + 1]
  <2>1. CASE i < r
    BY <1>1, <1>3, <1>4, <2>1
  <2>2. CASE ~ (i < r)
    <3>1. i - Len(front) \in 1 .. Len(s) - r /\ r + (i - Len(front)) = i + 1
      BY <1>1, <1>4, <2>2
    <3>2. (front \o rest)[i] = rest[i - Len(front)]
      BY <1>1, <1>3, <1>4, <2>2
    <3>3. QED BY <1>2, <2>2, <3>1, <3>2
  <2>3. QED BY <2>1, <2>2
<1>6. front \o rest = [i \in 1 .. Len(s) - 1 |-> s[IF i < r THEN i ELSE i + 1]]
  <2> DEFINE t == [i \in 1 .. Len(s) - 1 |-> s[IF i < r THEN i ELSE i + 1]]
  <2>1. t \in Seq(S) /\ Len(t) = Len(s) - 1
    <3>1. \A i \in 1 .. Len(s) - 1 : (IF i < r THEN i ELSE i + 1) \in 1 .. Len(s)
      BY <1>4
    <3>2. t \in [1 .. Len(s) - 1 -> S] /\ Len(s) - 1 \in Nat
      BY <1>4, <3>1
    <3>3. QED BY <3>2
  <2>2. QED BY <1>3, <1>4, <1>5, <2>1, SeqEqual
<1>7. QED BY <1>6 DEF RemoveAt, front, rest

(* A node that is erased is removed from its position. *)
LEMMA ListingWithout ==
    ASSUME NEW S, NEW f, f \in [DOMAIN f -> S], DOMAIN f \subseteq Nat, IsFiniteSet(DOMAIN f),
           NEW n \in DOMAIN f
    PROVE  Listing(Without(f, n)) = RemoveAt(Listing(f), Rank(DOMAIN f, n))
<1> DEFINE nodes == DOMAIN f
           size == Cardinality(nodes)
           r == Rank(nodes, n)
           at(i) == NodeAt(nodes, i)
           q == [i \in 1 .. size - 1 |-> IF i < r THEN at(i) ELSE at(i + 1)]
<1>1. /\ Listing(f) \in Seq(S) /\ Len(Listing(f)) = size /\ size \in Nat
      /\ r \in 1 .. size
      /\ \A i \in 1 .. size : at(i) \in nodes /\ Listing(f)[i] = f[at(i)]
      /\ at(r) = n
  BY ListingOrder
<1>2. /\ \A m \in nodes : \E i \in 1 .. size : at(i) = m
      /\ \A i, j \in 1 .. size : i < j => at(i) < at(j)
  <2>1. Enumerates([i \in 1 .. size |-> at(i)], size, nodes)
    BY NodesInOrder
  <2>2. QED BY <2>1 DEF Enumerates
<1>3. \A i \in 1 .. size : at(i) \in Nat
  BY <1>1
<1> HIDE DEF at, r, size, nodes
<1>4. \A i \in 1 .. size : i # r => at(i) # n
  BY <1>1, <1>2, <1>3
<1>5. Enumerates(q, size - 1, nodes \ {n})
  <2>1. q \in [1 .. size - 1 -> nodes \ {n}]
    BY <1>1, <1>4
  <2>2. ASSUME NEW m \in nodes \ {n}
        PROVE  \E i \in 1 .. size - 1 : q[i] = m
    <3>1. PICK i \in 1 .. size : at(i) = m
      BY <1>2
    <3>2. CASE i < r
      <4>1. i \in 1 .. size - 1 /\ q[i] = m
        BY <1>1, <3>1, <3>2
      <4>2. QED BY <4>1
    <3>3. CASE i > r
      <4>1. i - 1 \in 1 .. size - 1 /\ ~ (i - 1 < r) /\ (i - 1) + 1 = i
        BY <1>1, <3>3
      <4>2. q[i - 1] = m
        BY <3>1, <4>1
      <4>3. QED BY <4>1, <4>2
    <3>4. i # r
      BY <1>1, <3>1
    <3>5. QED BY <1>1, <3>2, <3>3, <3>4
  <2>3. ASSUME NEW i \in 1 .. size - 1, NEW j \in 1 .. size - 1, i < j
        PROVE  q[i] < q[j]
    <3>1. /\ i \in 1 .. size /\ i + 1 \in 1 .. size
          /\ j \in 1 .. size /\ j + 1 \in 1 .. size
          /\ i < j + 1 /\ i + 1 < j + 1
      BY <1>1, <2>3
    <3>2. at(i) < at(j) /\ at(i) < at(j + 1) /\ at(i + 1) < at(j + 1)
      BY <1>2, <2>3, <3>1
    <3>3. i < r \/ ~ (j < r)
      BY <1>1, <2>3
    <3>4. QED BY <3>2, <3>3
  <2>4. QED BY <2>1, <2>2, <2>3 DEF Enumerates
<1>6. Listing(Without(f, n)) = [i \in 1 .. size - 1 |-> Without(f, n)[q[i]]]
  <2>1. DOMAIN Without(f, n) = nodes \ {n}
    BY DEF Without, Kept, nodes
  <2>2. size - 1 \in Nat /\ nodes \ {n} \subseteq Nat
    BY <1>1 DEF nodes
  <2>3. QED BY <1>5, <2>1, <2>2, ListingIs
<1>7. \A i \in 1 .. size - 1 : Without(f, n)[q[i]] = Listing(f)[IF i < r THEN i ELSE i + 1]
  <2> TAKE i \in 1 .. size - 1
  <2>1. i \in 1 .. size /\ i + 1 \in 1 .. size
    BY <1>1
  <2>2. q[i] \in nodes \ {n}
    BY <1>5 DEF Enumerates
  <2>3. Without(f, n)[q[i]] = f[q[i]]
    BY <2>2 DEF Without, Kept, nodes
  <2>4. QED BY <1>1, <2>1, <2>3
<1>8. RemoveAt(Listing(f), r)
        = [i \in 1 .. size - 1 |-> Listing(f)[IF i < r THEN i ELSE i + 1]]
  BY <1>1, RemoveAtIs
<1>9. QED BY <1>6, <1>7, <1>8 DEF r, nodes

(* A node that is behind all others is appended. *)
LEMMA ListingWith ==
    ASSUME NEW S, NEW f, f \in [DOMAIN f -> S], DOMAIN f \subseteq Nat, IsFiniteSet(DOMAIN f),
           NEW n \in Nat, \A m \in DOMAIN f : m < n, NEW pair
    PROVE  Listing(With(f, n, pair)) = Append(Listing(f), pair)
<1> DEFINE nodes == DOMAIN f
           size == Cardinality(nodes)
           at(i) == NodeAt(nodes, i)
           q == [i \in 1 .. size + 1 |-> IF i = size + 1 THEN n ELSE at(i)]
<1>1. /\ Listing(f) \in Seq(S) /\ Len(Listing(f)) = size /\ size \in Nat
      /\ \A i \in 1 .. size : at(i) \in nodes /\ Listing(f)[i] = f[at(i)]
  BY ListingOrder
<1>2. /\ \A m \in nodes : \E i \in 1 .. size : at(i) = m
      /\ \A i, j \in 1 .. size : i < j => at(i) < at(j)
  <2>1. Enumerates([i \in 1 .. size |-> at(i)], size, nodes)
    BY NodesInOrder
  <2>2. QED BY <2>1 DEF Enumerates
<1>3. nodes \subseteq Nat /\ n \notin nodes /\ \A i \in 1 .. size : at(i) < n
  BY <1>1
<1> HIDE DEF at, size, nodes
<1>4. Enumerates(q, size + 1, nodes \union {n})
  <2>1. q \in [1 .. size + 1 -> nodes \union {n}]
    BY <1>1
  <2>2. ASSUME NEW m \in nodes \union {n}
        PROVE  \E i \in 1 .. size + 1 : q[i] = m
    <3>1. CASE m = n
      <4>1. size + 1 \in 1 .. size + 1 /\ q[size + 1] = m
        BY <1>1, <3>1
      <4>2. QED BY <4>1
    <3>2. CASE m \in nodes
      <4>1. PICK i \in 1 .. size : at(i) = m
        BY <1>2, <3>2
      <4>2. i \in 1 .. size + 1 /\ i # size + 1
        BY <1>1
      <4>3. QED BY <4>1, <4>2
    <3>3. QED BY <3>1, <3>2
  <2>3. ASSUME NEW i \in 1 .. size + 1, NEW j \in 1 .. size + 1, i < j
        PROVE  q[i] < q[j]
    <3>1. size \in Nat
      BY <1>1
    <3>2. i \in 1 .. size /\ i # size + 1 /\ (j = size + 1 \/ j \in 1 .. size)
      BY <2>3, <3>1
    <3>3. QED BY <1>2, <1>3, <2>3, <3>2
  <2>4. QED BY <2>1, <2>2, <2>3 DEF Enumerates
<1>5. Listing(With(f, n, pair)) = [i \in 1 .. size + 1 |-> With(f, n, pair)[q[i]]]
  <2>1. DOMAIN With(f, n, pair) = nodes \union {n}
    BY DEF With, nodes
  <2>2. size + 1 \in Nat /\ nodes \union {n} \subseteq Nat
    BY <1>1, <1>3
  <2>3. QED BY <1>4, <2>1, <2>2, ListingIs
<1>6. ASSUME NEW i \in 1 .. size + 1
      PROVE  With(f, n, pair)[q[i]] = IF i = size + 1 THEN pair ELSE Listing(f)[i]
  <2>1. CASE i = size + 1
    BY <2>1 DEF With
  <2>2. CASE i # size + 1
    <3>1. i \in 1 .. size
      BY <1>1, <2>2
    <3>2. q[i] = at(i) /\ at(i) \in nodes /\ at(i) # n
      BY <1>1, <1>3, <2>2, <3>1
    <3>3. With(f, n, pair)[at(i)] = f[at(i)]
      BY <3>2 DEF With, nodes
    <3>4. QED BY <1>1, <2>2, <3>1, <3>2, <3>3
  <2>3. QED BY <2>1, <2>2
<1>7. Append(Listing(f), pair)
        = [i \in 1 .. size + 1 |-> IF i = size + 1 THEN pair ELSE Listing(f)[i]]
  <2> DEFINE s == Listing(f)
             T == S \union {pair}
  <2>1. s \in Seq(T) /\ pair \in T
    BY <1>1
  <2>2. /\ Append(s, pair) \in Seq(T) /\ Len(Append(s, pair)) = size + 1
        /\ \A i \in 1 .. size : Append(s, pair)[i] = s[i]
        /\ Append(s, pair)[size + 1] = pair
    BY <1>1, <2>1, AppendProperties
  <2> HIDE DEF s, T
  <2>3. \A i \in 1 .. size + 1 : i \in 1 .. size \/ i = size + 1
    BY <1>1
  <2>4. Append(s, pair) \in [1 .. size + 1 -> T]
    BY <2>2, LenProperties
  <2>5. Append(s, pair) = [i \in 1 .. size + 1 |-> IF i = size + 1 THEN pair ELSE s[i]]
    BY <2>2, <2>3, <2>4
  <2>6. QED BY <2>5 DEF s
<1>8. QED BY <1>5, <1>6, <1>7

(* What the abstract cache sees of a consistent one. *)
Rest(key) ==
    IF key \in DOMAIN m_quickAccess THEN Without(m_values, m_quickAccess[key]) ELSE m_values

(* There are as many nodes as keys. *)
LEMMA NodesAreFinite ==
    ASSUME Consistent
    PROVE  /\ DOMAIN m_values \subseteq Nat /\ IsFiniteSet(DOMAIN m_values)
           /\ Cardinality(DOMAIN m_values) = Cardinality(DOMAIN m_quickAccess)
           /\ \A n \in DOMAIN m_values : n < lastNode + 1
           /\ lastNode \in Nat
<1> DEFINE node == [k \in DOMAIN m_quickAccess |-> m_quickAccess[k]]
<1>1. lastNode \in Nat
  BY CacheAssumption DEF Consistent
<1>2. DOMAIN m_values \subseteq Nat /\ \A n \in DOMAIN m_values : n < lastNode + 1
  BY <1>1 DEF Consistent
<1>3. node \in [DOMAIN m_quickAccess -> DOMAIN m_values]
  BY DEF Consistent, ListMatchesMap
<1>4. \A k, l \in DOMAIN m_quickAccess : node[k] = node[l] => k = l
  BY DEF Consistent, ListMatchesMap
<1>5. \A n \in DOMAIN m_values : \E k \in DOMAIN m_quickAccess : node[k] = n
  BY DEF Consistent, ListMatchesMap
<1>6. node \in Bijection(DOMAIN m_quickAccess, DOMAIN m_values)
  BY <1>3, <1>4, <1>5, Fun_IsBij
<1>7. IsFiniteSet(DOMAIN m_quickAccess)
  BY DEF Consistent
<1>8. ExistsBijection(DOMAIN m_quickAccess, DOMAIN m_values)
  BY <1>6 DEF ExistsBijection
<1>9. QED BY <1>1, <1>2, <1>7, <1>8, FS_Bijection

(* back() of a list that is not empty is the node behind all others. *)
LEMMA NewestIsLast ==
    ASSUME Consistent, DOMAIN m_values # {}
    PROVE  Newest \in DOMAIN m_values /\ \A n \in DOMAIN m_values : n <= Newest
<1> DEFINE size == Cardinality(DOMAIN m_values)
           at(i) == NodeAt(DOMAIN m_values, i)
<1>1. DOMAIN m_values \subseteq Nat /\ IsFiniteSet(DOMAIN m_values) /\ size \in Nat /\ size # 0
  BY NodesAreFinite, FS_CardinalityType, FS_EmptySet
<1>2. Enumerates([i \in 1 .. size |-> at(i)], size, DOMAIN m_values)
  BY <1>1, NodesInOrder
<1> HIDE DEF size, at
<1>3. size \in 1 .. size /\ \A i \in 1 .. size : i = size \/ i < size
  BY <1>1
<1>4. /\ \A n \in DOMAIN m_values : \E i \in 1 .. size : at(i) = n
      /\ \A i, j \in 1 .. size : i < j => at(i) < at(j)
      /\ \A i \in 1 .. size : at(i) \in DOMAIN m_values
  BY <1>2 DEF Enumerates
<1>5. at(size) \in DOMAIN m_values /\ \A n \in DOMAIN m_values : n <= at(size)
  BY <1>1, <1>3, <1>4
<1>6. QED BY <1>5 DEF Newest

(* The sequence has the keys of the map, each once, and their values. *)
LEMMA AbstractSees ==
    ASSUME Consistent, NEW key \in Keys
    PROVE  /\ Abstract!Has(key) <=> key \in DOMAIN m_quickAccess
           /\ key \in DOMAIN m_quickAccess =>
                 Abstract!ValueOf(key) = m_values[m_quickAccess[key]].value
           /\ Abstract!Others(key) = Listing(Rest(key))
<1> DEFINE node == m_quickAccess[key]
           r == Rank(DOMAIN m_values, node)
           s == Recent
<1>1. /\ m_values \in [DOMAIN m_values -> Pair]
      /\ DOMAIN m_values \subseteq Nat /\ IsFiniteSet(DOMAIN m_values)
  BY NodesAreFinite DEF Consistent
<1>2. s = Listing(m_values)
  BY DEF Recent, Listing
<1>3. /\ Listing(m_values) \in Seq(Pair)
      /\ \A n \in DOMAIN m_values :
            /\ Rank(DOMAIN m_values, n) \in 1 .. Len(Listing(m_values))
            /\ Listing(m_values)[Rank(DOMAIN m_values, n)] = m_values[n]
      /\ \A i \in 1 .. Len(Listing(m_values)) :
            /\ NodeAt(DOMAIN m_values, i) \in DOMAIN m_values
            /\ Listing(m_values)[i] = m_values[NodeAt(DOMAIN m_values, i)]
            /\ Rank(DOMAIN m_values, NodeAt(DOMAIN m_values, i)) = i
  BY <1>1, ListingOrder, Zenon
<1> HIDE DEF s
<1>4. DOMAIN s = 1 .. Len(s)
  BY <1>2, <1>3, LenProperties
<1>5. ASSUME NEW i \in DOMAIN s, s[i].key = key
      PROVE  key \in DOMAIN m_quickAccess /\ i = r
  BY <1>2, <1>3, <1>4, <1>5 DEF Consistent, ListMatchesMap
<1>6. ASSUME key \in DOMAIN m_quickAccess
      PROVE  /\ node \in DOMAIN m_values
             /\ r \in DOMAIN s /\ s[r] = m_values[node] /\ s[r].key = key
  BY <1>2, <1>3, <1>4, <1>6 DEF Consistent, ListMatchesMap
<1> HIDE DEF r
<1>7. Abstract!Has(key) <=> key \in DOMAIN m_quickAccess
  BY <1>5, <1>6 DEF Abstract!Has, s
<1>8. key \in DOMAIN m_quickAccess => Abstract!Place(key) = r
  BY <1>5, <1>6 DEF Abstract!Place, s
<1>9. key \in DOMAIN m_quickAccess => Abstract!ValueOf(key) = m_values[node].value
  BY <1>6, <1>8 DEF Abstract!ValueOf, s
<1>10. Abstract!Others(key) = Listing(Rest(key))
  <2>1. CASE key \in DOMAIN m_quickAccess
    <3>1. Abstract!Others(key) = RemoveAt(s, r)
      BY <1>7, <1>8, <2>1 DEF Abstract!Others, Abstract!RemoveAt, RemoveAt, s
    <3>2. Listing(Without(m_values, node)) = RemoveAt(s, r)
      BY <1>1, <1>2, <1>6, <2>1, ListingWithout DEF r
    <3>3. QED BY <2>1, <3>1, <3>2 DEF Rest
  <2>2. CASE key \notin DOMAIN m_quickAccess
    BY <1>2, <1>7, <2>2 DEF Abstract!Others, Rest, s
  <2>3. QED BY <2>1, <2>2
<1>11. QED BY <1>7, <1>9, <1>10

(* updateAccess and the insertion of set push the pair back behind what is *)
(* left of the others.                                                     *)
LEMMA PushBackIsUse ==
    ASSUME Consistent, NEW erased, NEW key, NEW value,
           PushBack(erased, [key |-> key, value |-> value])
    PROVE  Recent' = Append(Listing(Kept(m_values, erased)), [key |-> key, value |-> value])
<1> DEFINE pair == [key |-> key, value |-> value]
           kept == Kept(m_values, erased)
<1>1. /\ DOMAIN m_values \subseteq Nat /\ IsFiniteSet(DOMAIN m_values)
      /\ lastNode + 1 \in Nat /\ \A n \in DOMAIN m_values : n < lastNode + 1
  BY NodesAreFinite
<1>2. kept = [n \in DOMAIN m_values \ erased |-> m_values[n]]
  BY DEF Kept
<1> HIDE DEF kept
<1>3. /\ DOMAIN kept \subseteq Nat /\ IsFiniteSet(DOMAIN kept)
      /\ \A n \in DOMAIN kept : n < lastNode + 1
      /\ kept \in [DOMAIN kept -> Pair]
  BY <1>1, <1>2, FS_Subset DEF Consistent
<1>4. Listing(With(kept, lastNode + 1, pair)) = Append(Listing(kept), pair)
  BY <1>1, <1>3, ListingWith
<1>5. m_values' = With(kept, lastNode + 1, pair)
  BY <1>2 DEF PushBack, With
<1>6. QED BY <1>4, <1>5 DEF Recent, Listing, kept

(* updateAccess: the pair that was used becomes the last one. *)
LEMMA UpdateAccessIsUse ==
    ASSUME Consistent, NEW key \in DOMAIN m_quickAccess, NEW value, UpdateAccess(key, value)
    PROVE  Recent' = Append(Listing(Rest(key)), [key |-> key, value |-> value])
<1> DEFINE node == m_quickAccess[key]
           pair == [key |-> key, value |-> value]
           kept == Without(m_values, node)
<1>1. node \in DOMAIN m_values /\ m_values[node].key = key /\ Rest(key) = kept
  BY DEF Consistent, ListMatchesMap, Rest
<1>2. CASE node = Newest
  <2>1. m_values' = [m_values EXCEPT ![node] = pair]
    BY <1>1, <1>2 DEF UpdateAccess
  <2>2. /\ DOMAIN m_values \subseteq Nat /\ IsFiniteSet(DOMAIN m_values)
        /\ \A n \in DOMAIN m_values : n < lastNode + 1
        /\ lastNode \in Nat
    BY NodesAreFinite
  <2>3. \A n \in DOMAIN m_values : n <= node
    BY <1>1, <1>2, NewestIsLast
  <2>4. /\ DOMAIN kept = DOMAIN m_values \ {node}
        /\ DOMAIN kept \subseteq Nat /\ IsFiniteSet(DOMAIN kept)
        /\ \A n \in DOMAIN kept : n < node
        /\ kept \in [DOMAIN kept -> Pair]
        /\ node \in Nat
    BY <1>1, <2>2, <2>3, FS_Subset DEF Without, Kept, Consistent
  <2>5. m_values' = With(kept, node, pair)
    BY <1>1, <2>1 DEF With, Without, Kept
  <2>6. Listing(With(kept, node, pair)) = Append(Listing(kept), pair)
    BY <2>4, ListingWith
  <2>7. QED BY <1>1, <2>5, <2>6 DEF Recent, Listing
<1>3. CASE node # Newest
  <2>1. PushBack({node}, pair)
    BY <1>1, <1>3 DEF UpdateAccess
  <2>2. kept = Kept(m_values, {node})
    BY DEF Without
  <2>3. QED BY <1>1, <2>1, <2>2, PushBackIsUse
<1>4. QED BY <1>2, <1>3

-----------------------------------------------------------------------------
(* Every operation of the cache is that of the sequence. *)
LEMMA FindImplements ==
    ASSUME Consistent, NEW key \in Keys, Find(key)
    PROVE  Abstract!Find(key)
<1>1. /\ Abstract!Has(key) <=> key \in DOMAIN m_quickAccess
      /\ key \in DOMAIN m_quickAccess =>
            Abstract!ValueOf(key) = m_values[m_quickAccess[key]].value
      /\ Abstract!Others(key) = Listing(Rest(key))
  BY AbstractSees
<1>2. CASE key \in DOMAIN m_quickAccess
  <2> DEFINE value == m_values[m_quickAccess[key]].value
  <2>1. UpdateAccess(key, value) /\ found' = value
    BY <1>2 DEF Find
  <2>2. Recent' = Append(Listing(Rest(key)), [key |-> key, value |-> value])
    BY <1>2, <2>1, UpdateAccessIsUse
  <2>3. QED BY <1>1, <1>2, <2>1, <2>2 DEF Abstract!Find, Abstract!Used
<1>3. CASE key \notin DOMAIN m_quickAccess
  <2>1. found' = NoValue /\ m_values' = m_values
    BY <1>3 DEF Find
  <2>2. Recent' = Recent
    BY <2>1 DEF Recent
  <2>3. QED BY <1>1, <1>3, <2>1, <2>2 DEF Abstract!Find
<1>4. QED BY <1>2, <1>3

(* front() is the first of the list. *)
LEMMA OldestIsFirst ==
    ASSUME Consistent, DOMAIN m_values # {}
    PROVE  Tail(Recent) = Listing(Without(m_values, Oldest))
<1> DEFINE nodes == DOMAIN m_values
           s == Listing(m_values)
<1>1. /\ m_values \in [nodes -> Pair]
      /\ nodes \subseteq Nat /\ IsFiniteSet(nodes)
  BY NodesAreFinite DEF Consistent
<1>2. Oldest \in nodes
  BY OldestIsANode
<1>3. /\ s \in Seq(Pair) /\ Rank(nodes, Oldest) \in 1 .. Len(s)
      /\ \A i \in 1 .. Len(s) :
            NodeAt(nodes, i) \in nodes /\ Rank(nodes, NodeAt(nodes, i)) = i
  BY <1>1, <1>2, ListingOrder, Zenon
<1>4. \A n \in nodes : Oldest <= n
  <2>1. PICK n \in nodes : \A m \in nodes : n <= m
    <3>1. \A m, n \in nodes : m < n => Rank(nodes, m) < Rank(nodes, n)
      BY <1>1, RankOrders
    <3>2. 1 \in 1 .. Len(s) /\ NodeAt(nodes, 1) \in nodes /\ Rank(nodes, NodeAt(nodes, 1)) = 1
      BY <1>3, LenProperties
    <3>3. \A n \in nodes : Rank(nodes, n) \in 1 .. Cardinality(nodes) /\ Cardinality(nodes) \in Nat
      BY <1>1, RankOrders
    <3>4. \A m \in nodes : ~ (m < NodeAt(nodes, 1))
      BY <3>1, <3>2, <3>3
    <3>5. QED BY <1>1, <3>2, <3>4
  <2>2. QED BY <2>1 DEF Oldest
<1>5. Rank(nodes, Oldest) = 1
  <2>1. {m \in nodes : m <= Oldest} = {Oldest}
    BY <1>1, <1>2, <1>4
  <2>2. QED BY <2>1, FS_Singleton DEF Rank
<1>6. Listing(Without(m_values, Oldest)) = RemoveAt(s, 1)
  BY <1>1, <1>2, <1>5, ListingWithout
<1>7. RemoveAt(s, 1) = [i \in 1 .. Len(s) - 1 |-> s[i + 1]]
  <2>1. 1 \in 1 .. Len(s) /\ Len(s) \in Nat
    BY <1>3, <1>5, LenProperties
  <2>2. RemoveAt(s, 1) = [i \in 1 .. Len(s) - 1 |-> s[IF i < 1 THEN i ELSE i + 1]]
    BY <1>3, <2>1, RemoveAtIs
  <2>3. QED BY <2>1, <2>2
<1>8. Tail(s) = [i \in 1 .. Len(s) - 1 |-> s[i + 1]]
  <2>1. s # <<>> /\ Len(s) \in Nat
    BY <1>3, EmptySeq, LenProperties
  <2>2. /\ Tail(s) \in Seq(Pair) /\ Len(Tail(s)) = Len(s) - 1
        /\ \A i \in 1 .. Len(Tail(s)) : Tail(s)[i] = s[i + 1]
    BY <1>3, <2>1, HeadTailProperties
  <2>3. Tail(s) \in [1 .. Len(s) - 1 -> Pair]
    BY <2>2, LenProperties
  <2>4. QED BY <2>2, <2>3
<1>9. s = Recent
  BY DEF Recent, Listing
<1>10. QED BY <1>6, <1>7, <1>8, <1>9

(* set: a new key that finds the cache full takes the place of front(). *)
LEMMA SetImplements ==
    ASSUME Consistent, NEW key \in Keys, NEW value \in Values, Set(key, value)
    PROVE  Abstract!Set(key, value)
<1> DEFINE pair == [key |-> key, value |-> value]
           others == Listing(Rest(key))
<1>1. Abstract!Others(key) = others
  BY AbstractSees
<1>2. /\ DOMAIN m_values \subseteq Nat /\ IsFiniteSet(DOMAIN m_values)
      /\ Cardinality(DOMAIN m_values) = Cardinality(DOMAIN m_quickAccess)
      /\ m_values \in [DOMAIN m_values -> Pair]
      /\ Cardinality(DOMAIN m_quickAccess) <= MaxSize
  BY NodesAreFinite DEF Consistent
<1>3. Cardinality(DOMAIN m_values) \in Nat /\ Len(Recent) = Cardinality(DOMAIN m_values)
  <2>1. Len(Listing(m_values)) = Cardinality(DOMAIN m_values) /\ Cardinality(DOMAIN m_values) \in Nat
    BY <1>2, ListingOrder, Zenon
  <2>2. QED BY <2>1 DEF Recent, Listing
<1>4. CASE key \in DOMAIN m_quickAccess
  <2>1. Recent' = Append(others, pair)
    BY <1>4, UpdateAccessIsUse DEF Set
  <2>2. Len(others) < MaxSize
    <3>1. Rest(key) = Without(m_values, m_quickAccess[key])
      BY <1>4 DEF Rest
    <3>2. m_quickAccess[key] \in DOMAIN m_values
      BY <1>4 DEF Consistent, ListMatchesMap
    <3>3. /\ DOMAIN Rest(key) = DOMAIN m_values \ {m_quickAccess[key]}
          /\ Rest(key) \in [DOMAIN Rest(key) -> Pair]
      BY <1>2, <3>1 DEF Without, Kept
    <3>4. /\ IsFiniteSet(DOMAIN Rest(key)) /\ DOMAIN Rest(key) \subseteq Nat
          /\ Cardinality(DOMAIN Rest(key)) = Cardinality(DOMAIN m_values) - 1
      BY <1>2, <3>2, <3>3, FS_RemoveElement
    <3>5. Len(others) = Cardinality(DOMAIN Rest(key))
      BY <3>3, <3>4, ListingOrder, Zenon
    <3>6. QED BY <1>2, <1>3, <3>4, <3>5, CacheAssumption
  <2>3. QED BY <1>1, <2>1, <2>2 DEF Abstract!Set, Abstract!Used, Set
<1>5. CASE key \notin DOMAIN m_quickAccess
  <2>1. others = Recent /\ Len(others) = Cardinality(DOMAIN m_quickAccess)
    BY <1>2, <1>3, <1>5 DEF Rest, Recent, Listing
  <2>2. CASE IsFull
    <3>1. Insert({m_values[Oldest].key}, {Oldest}, key, value)
      BY <1>5, <2>2 DEF Set
    <3>2. Recent' = Append(Listing(Without(m_values, Oldest)), pair)
      BY <3>1, PushBackIsUse DEF Insert, Without
    <3>3. DOMAIN m_values # {}
      BY <1>2, <2>2, FS_EmptySet, CacheAssumption DEF IsFull
    <3>4. Recent' = Append(Tail(Recent), pair) /\ Len(others) = MaxSize
      BY <2>1, <2>2, <3>2, <3>3, OldestIsFirst DEF IsFull
    <3>5. QED BY <1>1, <3>4 DEF Abstract!Set, Abstract!Used, Set
  <2>3. CASE ~ IsFull
    <3>1. Insert({}, {}, key, value)
      BY <1>5, <2>3 DEF Set
    <3>2. Recent' = Append(Listing(Kept(m_values, {})), pair)
      BY <3>1, PushBackIsUse DEF Insert
    <3>3. Kept(m_values, {}) = m_values
      BY <1>2 DEF Kept
    <3>4. Recent' = Append(others, pair) /\ Len(others) # MaxSize
      BY <2>1, <2>3, <3>2, <3>3 DEF IsFull, Recent, Listing
    <3>5. QED BY <1>1, <3>4 DEF Abstract!Set, Abstract!Used, Set
  <2>4. QED BY <2>2, <2>3
<1>6. QED BY <1>4, <1>5

(* erase of the node and of its key is that of the pair. *)
LEMMA EraseImplements ==
    ASSUME Consistent, NEW key \in Keys, Erase(key)
    PROVE  Abstract!Erase(key)
<1>1. Abstract!Others(key) = Listing(Rest(key))
  BY AbstractSees
<1>2. m_values' = Rest(key) /\ found' = found
  BY DEF Erase, Rest, Without, Kept
<1>3. Recent' = Listing(Rest(key))
  BY <1>2 DEF Recent, Listing
<1>4. QED BY <1>1, <1>2, <1>3 DEF Abstract!Erase

(* A new cache is the empty sequence. *)
LEMMA CacheInitImplements == CacheInit => Abstract!Init
<1> SUFFICES ASSUME CacheInit
             PROVE  Abstract!Init
  OBVIOUS
<1>1. DOMAIN m_values = {} /\ Cardinality({}) = 0
  BY FS_EmptySet DEF CacheInit
<1>2. Recent = [i \in 1 .. 0 |-> m_values[NodeAt({}, i)]]
  BY <1>1 DEF Recent
<1>3. Recent = <<>>
  BY <1>2
<1>4. QED BY <1>3 DEF Abstract!Init, CacheInit

(* A step that is an operation of the cache, or none, is one of the sequence. *)
LEMMA CacheStepImplements ==
    ASSUME Consistent,
           \/ \E key \in Keys : Find(key) \/ Erase(key) \/ \E value \in Values : Set(key, value)
           \/ UNCHANGED cache
    PROVE  [Abstract!Next]_<<Recent, found>>
<1>1. CASE UNCHANGED cache
  BY <1>1 DEF cache, Recent
<1>2. CASE \E key \in Keys : Find(key) \/ Erase(key) \/ \E value \in Values : Set(key, value)
  <2>1. PICK key \in Keys : Find(key) \/ Erase(key) \/ \E value \in Values : Set(key, value)
    BY <1>2
  <2>2. CASE Find(key)
    BY <2>2, FindImplements DEF Abstract!Next
  <2>3. CASE Erase(key)
    BY <2>3, EraseImplements DEF Abstract!Next
  <2>4. CASE \E value \in Values : Set(key, value)
    BY <2>4, SetImplements DEF Abstract!Next
  <2>5. QED BY <2>1, <2>2, <2>3, <2>4
<1>3. QED BY <1>1, <1>2

(* The list and the map of Cache are a bounded cache in the order of use:  *)
(* find returns the value that was last set and makes its key the last to  *)
(* be evicted, set evicts the one that was used longest ago, and nothing   *)
(* else ever leaves the cache but by erase.                                *)
THEOREM CacheIsLeastRecentlyUsed == CacheSpec => Abstract!Spec
<1>1. CacheInit => Abstract!Init
  BY CacheInitImplements
<1>2. Invariant /\ [CacheNext]_cache => [Abstract!Next]_<<Recent, found>>
  BY CacheStepImplements DEF Invariant, CacheNext
<1>3. QED BY <1>1, <1>2, AlwaysInvariant, PTL DEF CacheSpec, Abstract!Spec

(* What load, save and erase of any number of clients do to the cache is   *)
(* what the abstract cache does, or nothing, in every interleaving.        *)
THEOREM StorageImplementsRecentlyUsed == Spec => ImplementsRecentlyUsed
<1>1. Init => Abstract!Init
  BY CacheInitImplements DEF Init
<1>2. ASSUME StorageInvariant, [Next]_vars
      PROVE  [Abstract!Next]_<<Recent, found>>
  <2>1. Consistent
    BY <1>2 DEF StorageInvariant, Invariant
  <2>2. ASSUME NEW c \in Clients, LoadSets(c)
        PROVE  \E key \in Keys : \E value \in Values : Set(key, value)
    <3>1. asked[c].key \in Keys
      BY <1>2, <2>2 DEF StorageInvariant, Guarded, Asking, LoadSets, Goes
    <3>2. NewObject \in Values
      BY <2>2 DEF LoadSets, NewObject
    <3>3. QED BY <2>2, <3>1, <3>2 DEF LoadSets
  <2>3. \/ \E key \in Keys : Find(key) \/ Erase(key) \/ \E value \in Values : Set(key, value)
        \/ UNCHANGED cache
    <3>1. CASE UNCHANGED vars
      BY <3>1 DEF vars
    <3>2. ASSUME NEW c \in Clients, NEW key \in Keys,
                 LookUp(c, key) \/ Save(c, key) \/ EraseCached(c, key)
          PROVE  \/ Find(key) \/ Erase(key)
                 \/ UNCHANGED cache
      BY <3>2 DEF LookUp, Save, EraseCached
    <3>3. ASSUME NEW c \in Clients,
                 \/ LoadLocks(c) \/ LoadFault(c) \/ LoadHit(c) \/ LoadReturns(c)
                 \/ GuardLocks(c) \/ SaveFails(c) \/ EraseRow(c) \/ EraseFails(c)
                 \/ GuardCommits(c) \/ GuardRollsBack(c)
          PROVE  UNCHANGED cache
      BY <3>3 DEF LoadLocks, LoadFault, LoadHit, LoadReturns, GuardLocks, SaveFails,
         EraseRow, EraseFails, GuardCommits, GuardRollsBack
    <3>4. QED BY <1>2, <2>2, <3>1, <3>2, <3>3 DEF Next
  <2>4. QED BY <2>1, <2>3, CacheStepImplements
<1>3. QED BY <1>1, <1>2, StorageAlways, PTL DEF Spec, ImplementsRecentlyUsed, Abstract!Spec
=============================================================================
