----------------------------- MODULE SharedKeys -----------------------------
(***************************************************************************)
(* The cache of a Storage whose client uses one PrimaryKey again, with     *)
(* another value, as the fixture of the tests does with primaryKeyForFind: *)
(* ThePrimaryKey is a shared_ptr, the cache keeps the one of the loader,   *)
(* and the key of a pair that is cached changes with it.                   *)
(*                                                                         *)
(* std::unordered_map keeps the hash of an entry from its insertion, and   *)
(* compares it, and then the keys, when it looks for one.  Hashes of       *)
(* different values are taken to be different.                             *)
(***************************************************************************)
EXTENDS Integers, FiniteSets

CONSTANTS
    PrimaryKeys,   \* the shared instances
    Ids,           \* the values they may have
    MaxSize,
    MaxNode        \* bound: nodes that are ever created

VARIABLES
    id,               \* value of each primary key
    m_values,         \* node -> primary key of its pair, as in LruCache
    m_quickAccess,    \* entries [key, hash, node]
    lastNode,
    dangling          \* an iterator of a node that is gone has been used

vars == <<id, m_values, m_quickAccess, lastNode, dangling>>

Entry == [key : PrimaryKeys, hash : Ids, node : 1 .. MaxNode]

TypeOK ==
    /\ id \in [PrimaryKeys -> Ids]
    /\ DOMAIN m_values \subseteq 1 .. lastNode
    /\ m_values \in [DOMAIN m_values -> PrimaryKeys]
    /\ m_quickAccess \subseteq Entry
    /\ lastNode \in 0 .. MaxNode
    /\ dangling \in BOOLEAN

Init ==
    /\ id \in [PrimaryKeys -> Ids]
    /\ m_values = [n \in {} |-> 0]
    /\ m_quickAccess = {}
    /\ lastNode = 0
    /\ dangling = FALSE

Oldest == CHOOSE n \in DOMAIN m_values : \A m \in DOMAIN m_values : n <= m
Newest == CHOOSE n \in DOMAIN m_values : \A m \in DOMAIN m_values : m <= n

(* m_quickAccess.find, of which there is at most one result. *)
Entries(key) == {e \in m_quickAccess : e.hash = id[key] /\ id[e.key] = id[key]}

PushBack(erased, key, kept) ==
    /\ lastNode < MaxNode
    /\ lastNode' = lastNode + 1
    /\ m_values' = [n \in (DOMAIN m_values \ erased) \union {lastNode + 1} |->
                       IF n = lastNode + 1 THEN key ELSE m_values[n]]
    /\ m_quickAccess' = kept

(* find of Storage::load, and updateAccess. *)
Hit(key) ==
    \E e \in Entries(key) :
        /\ ~ dangling
        /\ IF e.node \notin DOMAIN m_values
           THEN dangling' = TRUE /\ UNCHANGED <<m_values, m_quickAccess, lastNode>>
           ELSE /\ UNCHANGED dangling
                /\ IF e.node = Newest
                   THEN UNCHANGED <<m_values, m_quickAccess, lastNode>>
                   ELSE PushBack({e.node}, m_values[e.node],
                                 (m_quickAccess \ {e})
                                    \union {[e EXCEPT !.node = lastNode + 1]})
        /\ UNCHANGED id

(* A fault, and set, which evicts by the key the oldest pair has now. *)
IsFull == Cardinality(m_quickAccess) = MaxSize
Inserted(key) == [key |-> key, hash |-> id[key], node |-> lastNode + 1]

Fault(key) ==
    /\ ~ dangling
    /\ Entries(key) = {}
    /\ IF IsFull
       THEN PushBack({Oldest}, key,
                     (m_quickAccess \ Entries(m_values[Oldest])) \union {Inserted(key)})
       ELSE PushBack({}, key, m_quickAccess \union {Inserted(key)})
    /\ UNCHANGED <<id, dangling>>

(* erase of Storage::erase *)
Erase(key) ==
    \E e \in Entries(key) :
        /\ ~ dangling
        /\ dangling' = (e.node \notin DOMAIN m_values)
        /\ m_values' = [n \in DOMAIN m_values \ {e.node} |-> m_values[n]]
        /\ m_quickAccess' = m_quickAccess \ {e}
        /\ UNCHANGED <<id, lastNode>>

(* The client gives its primary key another value. *)
SetId(key, value) ==
    /\ id[key] # value
    /\ id' = [id EXCEPT ![key] = value]
    /\ UNCHANGED <<m_values, m_quickAccess, lastNode, dangling>>

Next ==
    \E key \in PrimaryKeys :
        \/ Hit(key) \/ Fault(key) \/ Erase(key)
        \/ \E value \in Ids : SetId(key, value)

Spec == Init /\ [][Next]_vars

-----------------------------------------------------------------------------
(* The constructor of Cache: maxSize is the "max number of elements to     *)
(* store in the cache".                                                    *)
SizeIsBounded == Cardinality(m_quickAccess) <= MaxSize

(* find, set and erase use the iterators of nodes that exist.              *)
IteratorsAreValid == ~ dangling
=============================================================================
