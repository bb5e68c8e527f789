------------------------------ MODULE Classes ------------------------------
(***************************************************************************)
(* coffee::persistence: Class, Object and PrimaryKey, their builders, and  *)
(* the dbms::datatype::Set that all of them are.  A datum is shared by     *)
(* every set it is inserted in, so a set is the sequence of its data, in   *)
(* the order of their creation, and a datum a number.  A PrimaryKey is not *)
(* inserted into, cleared or assigned once it is built.                    *)
(***************************************************************************)
EXTENDS Integers, FiniteSets, Sequences, SequencesExt

CONSTANTS
    Names, Types,       \* Types is a subset of {"Integer", "String", "Date"}
    Nullable,           \* whether a datum can be NULL: a subset of BOOLEAN
    Bits, MaxLen,       \* the bits of an int, Abstract::m_maxSize of a String
    MaxData, MaxKeys, MaxClasses, MaxObjects, MaxChanges
        \* bounds; MaxData is that of the data and the changes together, and a
        \* builder of which no more can be built is left alone

(* The value of a String is its length: MaxLen + 1 has no end in the buffer. *)
ValuesOf(t) == CASE t = "Integer" -> -(2 ^ (Bits - 1)) .. 2 ^ (Bits - 1) - 1
                 [] t = "String"  -> 0 .. MaxLen
                 [] t = "Date"    -> {0, 1, 2 ^ Bits}

VARIABLES
    data,               \* what has been allocated
    keyParts,           \* a PrimaryKeyBuilder
    classParts, classKey,   \* a ClassBuilder: its members, and the keys it was given
    keys, classes, objects,
    changes

classVars == <<data, keyParts, classParts, classKey, keys, classes, objects, changes>>

ClassesInit ==
    /\ data = <<>> /\ keyParts = <<>> /\ classParts = <<>> /\ classKey = <<>>
    /\ keys = <<>> /\ classes = <<>> /\ objects = <<>> /\ changes = 0

-----------------------------------------------------------------------------
NameOfDatum(i) == data[i].name
NamesOf(set) == {NameOfDatum(set[k]) : k \in DOMAIN set}
InSet(set, name) == data[CHOOSE i \in Range(set) : NameOfDatum(i) = name]     \* find

(* Set::insert; it throws when the name is there. *)
IsInserted(set, i, after) == NameOfDatum(i) \notin NamesOf(set) /\ after = Append(set, i)

(* Abstract::compare: <<>> when it throws.  The difference of two values is *)
(* an int.                                                                  *)
Signed(n) == ((n + 2 ^ (Bits - 1)) % (2 ^ Bits)) - 2 ^ (Bits - 1)
CompareData(x, y) ==
    CASE x.type # y.type -> <<>>
      [] x.type = y.type /\ x.null /\ y.null -> <<0>>
      [] x.type = y.type /\ ~x.null /\ y.null -> <<1>>
      [] x.type = y.type /\ x.null /\ ~y.null -> <<-1>>
      [] OTHER -> <<IF x.type = "String" THEN x.value - y.value ELSE Signed(x.value - y.value)>>

(* Set::compare: the first of the members of set, as they were created, in  *)
(* which they differ.                                                       *)
Compare(set, other) ==
    LET member(k) == IF NameOfDatum(set[k]) \in NamesOf(other)
                     THEN CompareData(data[set[k]], InSet(other, NameOfDatum(set[k])))
                     ELSE <<>>
        differing == {k \in DOMAIN set : member(k) # <<0>>}
    IN IF Len(set) # Len(other) THEN <<>>
       ELSE IF differing = {} THEN <<0>> ELSE member(Min(differing))

(* PrimaryKey::hash is of the values and of nothing else: here, how often   *)
(* each of them is there.                                                   *)
Hash(set) ==
    LET value(k) == <<data[set[k]].type, data[set[k]].value>>
    IN [v \in {value(k) : k \in DOMAIN set} |-> Cardinality({k \in DOMAIN set : value(k) = v})]

Matches(key, other) ==
    /\ Len(key) = Len(other)
    /\ \A i \in Range(key) :
          /\ NameOfDatum(i) \in NamesOf(other)
          /\ InSet(other, NameOfDatum(i)).type = data[i].type

(* clone of each of the data of a set, in this order.  A String copies its  *)
(* buffer but for the last byte, which is the end of the longest one.       *)
SharedInstead(set) == set                                      \* mutant
ClonesOf(set) == [k \in DOMAIN set |-> Len(data) + k]
CopiedValues(datum) ==
    IF datum.type = "String" /\ datum.value >= MaxLen THEN {MaxLen, MaxLen + 1} ELSE {datum.value}
AllValues == UNION {ValuesOf(t) : t \in Types} \cup {MaxLen + 1}
DataWithClones(set) ==
    {data \o [k \in DOMAIN set |-> [data[set[k]] EXCEPT !.value = value[k]]] :
        value \in {v \in [DOMAIN set -> AllValues] :
                      \A k \in DOMAIN set : v[k] \in CopiedValues(data[set[k]])}}

-----------------------------------------------------------------------------
Instantiate(name, type, canBeNull) ==
    /\ Len(data) + changes < MaxData
    /\ data' = Append(data, [name |-> name, type |-> type, nullable |-> canBeNull,
                             null |-> canBeNull, value |-> 0])
    /\ UNCHANGED <<keyParts, classParts, classKey, keys, classes, objects, changes>>

NewKeyBuilder ==
    /\ keyParts # <<>> /\ Len(keys) < MaxKeys
    /\ keyParts' = <<>>
    /\ UNCHANGED <<data, classParts, classKey, keys, classes, objects, changes>>

AddToKey(i) ==
    /\ Len(keys) < MaxKeys
    /\ IsInserted(keyParts, i, keyParts')
    /\ UNCHANGED <<data, classParts, classKey, keys, classes, objects, changes>>

BuildKey ==
    /\ keyParts # <<>> /\ Len(keys) < MaxKeys
    /\ keys' = Append(keys, keyParts)
    /\ UNCHANGED <<data, keyParts, classParts, classKey, classes, objects, changes>>

SetKey(key) ==
    /\ classKey = <<>> /\ Len(classes) < MaxClasses
    /\ classKey' = <<key>>
    /\ UNCHANGED <<data, keyParts, classParts, keys, classes, objects, changes>>

AddMember(i) ==
    /\ Len(classes) < MaxClasses
    /\ IsInserted(classParts, i, classParts')
    /\ UNCHANGED <<data, keyParts, classKey, keys, classes, objects, changes>>

AreApart(members, key) == NamesOf(members) \cap NamesOf(key) = {}
BuildClass ==
    /\ Len(classes) < MaxClasses
    /\ classKey # <<>> /\ classParts # <<>> /\ AreApart(classParts, classKey[1])
    /\ classes' = Append(classes, [key |-> classKey[1], members |-> classParts])
    /\ UNCHANGED <<data, keyParts, classParts, classKey, keys, objects, changes>>

(* The key has the order of the map of the other, which is any. *)
CreatePrimaryKey(class) ==
    /\ Len(keys) < MaxKeys /\ Len(data) + changes + Len(class.key) <= MaxData
    /\ \E order \in SetToSeqs(Range(class.key)) :
          data' \in DataWithClones(order) /\ keys' = Append(keys, ClonesOf(order))
    /\ UNCHANGED <<keyParts, classParts, classKey, classes, objects, changes>>

CreateObject(class, key) ==
    /\ Len(objects) < MaxObjects /\ Len(data) + changes + Len(class.members) <= MaxData
    /\ Matches(class.key, key)
    /\ data' \in DataWithClones(class.members)
    /\ objects' = Append(objects, [class |-> class, key |-> key, members |-> ClonesOf(class.members)])
    /\ UNCHANGED <<keyParts, classParts, classKey, keys, classes, changes>>

(* Whoever has a set, has its data. *)
Changed(i, datum) ==
    /\ changes < MaxChanges /\ Len(data) + changes < MaxData
    /\ changes' = changes + 1
    /\ data' = [data EXCEPT ![i] = datum]
    /\ UNCHANGED <<keyParts, classParts, classKey, keys, classes, objects>>

SetValue(i, v) == v \in ValuesOf(data[i].type) /\ Changed(i, [data[i] EXCEPT !.value = v, !.null = FALSE])
IsNull(i) == data[i].nullable /\ Changed(i, [data[i] EXCEPT !.null = TRUE])
ClearDatum(i) == Changed(i, [data[i] EXCEPT !.value = 0, !.null = @ \/ data[i].nullable])

ClassesNext ==
    \/ \E n \in Names, t \in Types, canBeNull \in Nullable : Instantiate(n, t, canBeNull)
    \/ \E i \in DOMAIN data :
          \/ AddToKey(i) \/ AddMember(i) \/ IsNull(i) \/ ClearDatum(i)
          \/ \E v \in AllValues : SetValue(i, v)
    \/ NewKeyBuilder \/ BuildKey \/ BuildClass
    \/ \E key \in Range(keys) : SetKey(key) \/ \E c \in Range(classes) : CreateObject(c, key)
    \/ \E c \in Range(classes) : CreatePrimaryKey(c)

ClassesSpec == ClassesInit /\ [][ClassesNext]_classVars
-----------------------------------------------------------------------------
(* The members of an object are its own: no change of the key it is of, of  *)
(* its class or of another object is a change of it.                        *)
ObjectsAreIndependent ==
    \A o \in DOMAIN objects :
        LET own == Range(objects[o].members) IN
        /\ own \cap (Range(objects[o].key) \cup Range(objects[o].class.members)) = {}
        /\ \A p \in DOMAIN objects \ {o} : own \cap Range(objects[p].members) = {}

(* Every object has the columns of its class, each once, whoever made its   *)
(* key: none of them is both in the key and a member.                       *)
ColumnsAreTold ==
    \A o \in Range(objects) :
        /\ NamesOf(o.key) = NamesOf(o.class.key) /\ NamesOf(o.members) = NamesOf(o.class.members)
        /\ NamesOf(o.key) \cap NamesOf(o.members) = {}
        /\ Len(o.key \o o.members) = Cardinality(NamesOf(o.key \o o.members))

(* The container of objects by their keys needs that equal keys have the    *)
(* same hash.                                                               *)
EqualKeysHashAlike ==
    \A key, other \in Range(keys) : Compare(key, other) = <<0>> => Hash(key) = Hash(other)

(* compare, and so < of keys that can be compared, is an order.             *)
ComparesBothWays ==
    \A key, other \in Range(keys) :
        LET one == Compare(key, other)
            two == Compare(other, key)
        IN one # <<>> => two # <<>> /\ (one[1] > 0 <=> two[1] < 0)

(* clone: a duplicate of this instance. *)
ClonesAreEqual ==
    [][\A i \in DOMAIN data' \ DOMAIN data : data'[i].type = "String" => data'[i].value <= MaxLen]_classVars
=============================================================================
