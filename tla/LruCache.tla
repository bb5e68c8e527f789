------------------------------ MODULE LruCache ------------------------------
(***************************************************************************)
(* coffee::basis::pattern::lru::Cache: a list of pairs, from the least to  *)
(* the most recently used, and a map from each key to the iterator of its  *)
(* pair.                                                                   *)
(*                                                                         *)
(* A node of the list is a number and an iterator is the number of its     *)
(* node.  The only insertion is push_back, so the order of the numbers is  *)
(* that of the list; numbers are not used again, so an iterator whose node *)
(* has been erased is one that names nothing.                              *)
(***************************************************************************)
EXTENDS Integers, FiniteSets

CONSTANTS
    Keys, Values,
    NoValue,     \* what a find without success finds
    MaxSize,
    MaxNode      \* bound: nodes that are ever created

(* front() of an empty list is undefined: a cache of size 0 has no set. *)
ASSUME CacheAssumption ==
    /\ MaxSize \in Nat \ {0}
    /\ MaxNode \in Nat
    /\ NoValue \notin Values

VARIABLES
    m_values,         \* node -> [key, value]
    m_quickAccess,    \* key -> node
    lastNode,         \* the number of the last node created
    found             \* history: the value of the last find

cache == <<m_values, m_quickAccess, lastNode, found>>

End == 0    \* end()
Pair == [key : Keys, value : Values]

(* The size is never exceeded, though set compares it with ==. *)
CacheTypeOK ==
    /\ DOMAIN m_values \subseteq 1 .. lastNode
    /\ m_values \in [DOMAIN m_values -> Pair]
    /\ DOMAIN m_quickAccess \subseteq Keys
    /\ m_quickAccess \in [DOMAIN m_quickAccess -> 1 .. lastNode]
    /\ Cardinality(DOMAIN m_quickAccess) <= MaxSize
    /\ lastNode \in 0 .. MaxNode
    /\ found \in Values \union {NoValue}

CacheInit ==
    /\ m_values = [n \in {} |-> 0]
    /\ m_quickAccess = [k \in {} |-> 0]
    /\ lastNode = 0
    /\ found = NoValue

-----------------------------------------------------------------------------
Oldest == CHOOSE n \in DOMAIN m_values : \A m \in DOMAIN m_values : n <= m
Newest == CHOOSE n \in DOMAIN m_values : \A m \in DOMAIN m_values : m <= n

(* Nodes are erased, and a pair is pushed back. *)
PushBack(erased, pair) ==
    /\ lastNode < MaxNode
    /\ lastNode' = lastNode + 1
    /\ m_values' = [n \in (DOMAIN m_values \ erased) \union {lastNode + 1} |->
                       IF n = lastNode + 1 THEN pair ELSE m_values[n]]

(* updateAccess, after the value of the pair has been written. *)
KeptInPlace(key, value) ==                                     \* mutant
    /\ m_values' = [m_values EXCEPT ![m_quickAccess[key]].value = value]
    /\ UNCHANGED <<m_quickAccess, lastNode>>
UpdateAccess(key, value) ==
    LET node == m_quickAccess[key]
        pair == [key |-> m_values[node].key, value |-> value]
    IN  IF node = Newest
        THEN /\ m_values' = [m_values EXCEPT ![node] = pair]
             /\ UNCHANGED <<m_quickAccess, lastNode>>
        ELSE /\ PushBack({node}, pair)
             /\ m_quickAccess' = [m_quickAccess EXCEPT ![key] = lastNode + 1]

Find(key) ==
    IF key \in DOMAIN m_quickAccess
    THEN LET value == m_values[m_quickAccess[key]].value
         IN  UpdateAccess(key, value) /\ found' = value
    ELSE found' = NoValue /\ UNCHANGED <<m_values, m_quickAccess, lastNode>>

Insert(forgotten, erased, key, value) ==
    /\ PushBack(erased, [key |-> key, value |-> value])
    /\ m_quickAccess' = [k \in (DOMAIN m_quickAccess \ forgotten) \union {key} |->
                            IF k = key THEN lastNode + 1 ELSE m_quickAccess[k]]

IsFull == Cardinality(DOMAIN m_quickAccess) = MaxSize

Set(key, value) ==
    /\ IF key \in DOMAIN m_quickAccess
       THEN UpdateAccess(key, value)
       ELSE IF IsFull
       THEN Insert({m_values[Oldest].key}, {Oldest}, key, value)
       ELSE Insert({}, {}, key, value)
    /\ UNCHANGED found

EraseKeepsNode(key) ==                                         \* mutant
    /\ m_quickAccess' = [k \in DOMAIN m_quickAccess \ {key} |-> m_quickAccess[k]]
    /\ UNCHANGED <<m_values, lastNode, found>>
Erase(key) ==
    /\ IF key \in DOMAIN m_quickAccess
       THEN /\ m_values' = [n \in DOMAIN m_values \ {m_quickAccess[key]} |-> m_values[n]]
            /\ m_quickAccess' = [k \in DOMAIN m_quickAccess \ {key} |-> m_quickAccess[k]]
       ELSE UNCHANGED <<m_values, m_quickAccess>>
    /\ UNCHANGED <<lastNode, found>>

CacheNext ==
    \E key \in Keys :
        \/ Find(key)
        \/ \E value \in Values : Set(key, value)
        \/ Erase(key)

CacheSpec == CacheInit /\ [][CacheNext]_cache

-----------------------------------------------------------------------------
(* The map names every node of the list by its key, once, and nothing      *)
(* else, however pairs are moved, evicted and erased (find, set, erase):   *)
(* erase and updateAccess would otherwise dereference an iterator of a     *)
(* node that is gone, or a key would be evicted that find still returns.   *)
ListMatchesMap ==
    /\ \A k \in DOMAIN m_quickAccess :
          m_quickAccess[k] \in DOMAIN m_values /\ m_values[m_quickAccess[k]].key = k
    /\ \A n \in DOMAIN m_values :
          m_values[n].key \in DOMAIN m_quickAccess /\ m_quickAccess[m_values[n].key] = n
=============================================================================
