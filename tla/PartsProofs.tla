------------------------------ MODULE PartsProofs ------------------------------
(***************************************************************************)
(* Theorems about parts of the library that stand alone, for every value   *)
(* of their constants: the subjects and their observers, the columns of a  *)
(* row, the classes and their objects, the solver, the document, the       *)
(* average, the logger.                                                    *)
(***************************************************************************)
EXTENDS MCParts, FiniteSetTheorems, SequenceTheorems, WellFoundedInduction, TLAPS

(***************************************************************************)
(* The Subject that a TimeService is, and its observers.                   *)
(***************************************************************************)

(* m_isSubscribed and the maps of the subjects name each other.            *)
OneSubject ==
    /\ observers \in [Subjects -> SUBSET Observers]
    /\ subscribed = UNION {observers[s] : s \in Subjects}
    /\ \A s, other \in Subjects : observers[s] \cap observers[other] # {} => s = other
    /\ \A s \in Subjects : \A o, x \in observers[s] : NameOf[o] = NameOf[x] => o = x

LEMMA AttachKeepsOne ==
    ASSUME OneSubject, NEW s \in Subjects, NEW o \in Observers, Attach(s, o)
    PROVE  OneSubject'
<1>1. CASE UNCHANGED <<observers, subscribed>>
  BY <1>1 DEF OneSubject
<1>2. CASE /\ observers' = [observers EXCEPT ![s] = @ \cup {o}]
           /\ subscribed' = subscribed \cup {o}
           /\ Named(s, o) = {} /\ o \notin subscribed
  <2>1. \A t \in Subjects :
            observers'[t] = IF t = s THEN observers[s] \cup {o} ELSE observers[t]
    BY <1>2 DEF OneSubject
  <2>2. \A t \in Subjects : o \notin observers[t]
    BY <1>2 DEF OneSubject
  <2>3. observers' \in [Subjects -> SUBSET Observers]
    BY <1>2 DEF OneSubject
  <2>4. subscribed' = UNION {observers'[t] : t \in Subjects}
    BY <1>2, <2>1 DEF OneSubject
  <2>5. \A t, other \in Subjects : observers'[t] \cap observers'[other] # {} => t = other
    BY <2>1, <2>2 DEF OneSubject
  <2>6. \A t \in Subjects : \A y, x \in observers'[t] : NameOf[y] = NameOf[x] => y = x
    BY <1>2, <2>1 DEF OneSubject, Named
  <2>7. QED BY <2>3, <2>4, <2>5, <2>6 DEF OneSubject
<1>3. QED BY <1>1, <1>2 DEF Attach

(* detach takes the observers of one subject away, and ~Subject all.       *)
LEMMA LeavingKeepsOne ==
    ASSUME OneSubject, NEW s \in Subjects, NEW parted \in SUBSET observers[s],
           observers' = [observers EXCEPT ![s] = @ \ parted],
           subscribed' = subscribed \ parted
    PROVE  OneSubject'
<1>1. \A t \in Subjects :
          observers'[t] = IF t = s THEN observers[s] \ parted ELSE observers[t]
  BY DEF OneSubject
<1>2. observers' \in [Subjects -> SUBSET Observers]
  BY DEF OneSubject
<1>3. \A t \in Subjects : t # s => observers[t] \cap parted = {}
  BY DEF OneSubject
<1>4. subscribed' = UNION {observers'[t] : t \in Subjects}
  BY <1>1, <1>3 DEF OneSubject
<1>5. QED BY <1>1, <1>2, <1>4 DEF OneSubject

(* Whatever is attached, detached or destroyed, by whoever and while which *)
(* walk, an observer says that it is subscribed exactly while one subject  *)
(* has it, and no subject has two observers of one name.                   *)
THEOREM ObserversHaveOneSubject == SubjectSpec => []SubscribedOnce
<1>1. SubjectInit => OneSubject
  BY DEF SubjectInit, OneSubject
<1>2. OneSubject /\ [SubjectNext]_subjectVars => OneSubject'
  <2> SUFFICES ASSUME OneSubject, [SubjectNext]_subjectVars PROVE OneSubject'
    OBVIOUS
  <2>1. ASSUME NEW s \in Subjects, NEW o \in Observers, Attach(s, o) PROVE OneSubject'
    BY <2>1, AttachKeepsOne
  <2>2. ASSUME NEW s \in Subjects, NEW o \in Observers, Detach(s, o) PROVE OneSubject'
    BY <2>2, LeavingKeepsOne DEF Detach, Unsubscribed, Named
  <2>3. ASSUME NEW s \in Subjects, Destroy(s) PROVE OneSubject'
    <3>1. observers' = [observers EXCEPT ![s] = @ \ observers[s]]
      BY <2>3 DEF Destroy, OneSubject
    <3>2. subscribed' = subscribed \ observers[s]
      BY <2>3 DEF Destroy, Unsubscribed
    <3>3. QED BY <3>1, <3>2, LeavingKeepsOne
  <2>4. CASE UNCHANGED <<observers, subscribed>>
    BY <2>4 DEF OneSubject
  <2>5. QED
    BY <2>1, <2>2, <2>3, <2>4
       DEF SubjectNext, Notify, Update, UpdateReturns, NotifyReturns, subjectVars
<1>3. OneSubject => SubscribedOnce
  <2> SUFFICES ASSUME OneSubject PROVE SubscribedOnce
    OBVIOUS
  <2>1. ASSUME NEW o \in Observers
        PROVE  Cardinality({s \in Subjects : o \in observers[s]})
                  = IF o \in subscribed THEN 1 ELSE 0
    <3>1. CASE o \in subscribed
      <4>1. PICK s \in Subjects : o \in observers[s]
        BY <3>1 DEF OneSubject
      <4>2. {t \in Subjects : o \in observers[t]} = {s}
        BY <4>1 DEF OneSubject
      <4>3. QED BY <3>1, <4>2, FS_Singleton
    <3>2. CASE o \notin subscribed
      <4>1. {t \in Subjects : o \in observers[t]} = {}
        BY <3>2 DEF OneSubject
      <4>2. QED BY <3>2, <4>1, FS_EmptySet
    <3>3. QED BY <3>1, <3>2
  <2>2. ASSUME NEW s \in Subjects, NEW o \in Observers
        PROVE  Cardinality(Named(s, o)) <= 1
    <3>1. CASE Named(s, o) = {}
      BY <3>1, FS_EmptySet
    <3>2. CASE Named(s, o) # {}
      <4>1. PICK x \in Named(s, o) : TRUE
        BY <3>2
      <4>2. Named(s, o) = {x}
        BY <4>1 DEF Named, OneSubject
      <4>3. Cardinality({x}) = 1
        BY FS_Singleton
      <4>4. QED BY <4>2, <4>3
    <3>3. QED BY <3>1, <3>2
  <2>3. QED BY <2>1, <2>2 DEF SubscribedOnce
<1>4. QED BY <1>1, <1>2, <1>3, PTL DEF SubjectSpec

-----------------------------------------------------------------------------
(* The columns of a row: the table has what the rows that are stored are    *)
(* encoded as, and what fetch reports is the row at the cursor.             *)
RowsOfSchema(s) == DataOfType(s.types[1]) \X DataOfType(s.types[2])
CellsOf(row) == [k \in 1 .. 2 |-> Encoded(schema.types[k], row[k])]
IsDatum(d) == DOMAIN d = {"value", "null"}

ColumnsAreSound ==
    /\ storedRows \in Seq(RowsOfSchema(schema))
    /\ \E S : table \in Seq(S)
    /\ Len(table) = Len(storedRows)
    /\ \A i \in 1 .. Len(storedRows), k \in 1 .. 2 :
          table[i][k] = Encoded(schema.types[k], storedRows[i][k])
    /\ cursor \in 0 .. Len(storedRows)
    /\ \A k \in 1 .. 2 : IsDatum(output[k])
    /\ reported = "row" => cursor > 0
    /\ KeptValuesAreRead

LEMMA ColumnsAtFirst ==
    ASSUME ColumnsInit
    PROVE  ColumnsAreSound
<1>1. storedRows = <<>> /\ table = <<>> /\ cursor = 0 /\ reported # "row"
  BY DEF ColumnsInit
<1>2. \A k \in 1 .. 2 : IsDatum(output[k])
  BY DEF ColumnsInit, IsDatum
<1>3. table \in Seq(Nat)
  BY <1>1
<1>4. QED BY <1>1, <1>2, <1>3 DEF ColumnsAreSound, KeptValuesAreRead

(* A column that is decoded without an error is what was encoded.           *)
LEMMA DecodedIsKept ==
    ASSUME NEW k \in 1 .. 2, NEW datum, IsDatum(output[k]), datum.null \in BOOLEAN,
           ~Refuses(k, Encoded(schema.types[k], datum)), IsKept(k, datum)
    PROVE  IsReadAs(Decoded(k, Encoded(schema.types[k], datum)), datum)
<1> DEFINE t == schema.types[k]
           column == Encoded(t, datum)
           before == BeforeDecode(k, column)
<1>1. IsDatum(before)
  BY DEF BeforeDecode, IsDatum
<1>2. CASE datum.null
  <2>1. column = <<>>
    BY <1>2 DEF Encoded, IsStoredAsNull
  <2>2. Decoded(k, column) = [before EXCEPT !.null = TRUE]
    BY <2>1 DEF Decoded
  <2>3. QED BY <1>1, <1>2, <2>2 DEF IsReadAs, IsDatum
<1>3. CASE ~datum.null
  <2>1. column = <<datum.value>>
    BY <1>3 DEF Encoded, IsStoredAsNull, IsKept
  <2>2. Decoded(k, column) = SetTo(before, ReadAs(t, datum.value))
    BY <2>1 DEF Decoded
  <2>3. ReadAs(t, datum.value) = datum.value
    BY <1>3, Zenon DEF ReadAs, IsKept
  <2>4. QED BY <1>1, <1>3, <2>2, <2>3 DEF IsReadAs, IsDatum, SetTo
<1>4. QED BY <1>2, <1>3

LEMMA DecodedIsDatum ==
    ASSUME NEW k \in 1 .. 2, NEW column, IsDatum(output[k])
    PROVE  IsDatum(Decoded(k, column))
<1>1. IsDatum(BeforeDecode(k, column))
  BY DEF BeforeDecode, IsDatum
<1>2. QED BY <1>1 DEF Decoded, SetTo, IsDatum

LEMMA StoreKeepsColumns ==
    ASSUME ColumnsAreSound, NEW one \in DataOfType(schema.types[1]), NEW two \in DataOfType(schema.types[2]),
           Store(<<one, two>>)
    PROVE  ColumnsAreSound'
<1> DEFINE row == <<one, two>>
           cells == [k \in 1 .. 2 |-> Encoded(schema.types[k], row[k])]
           n == Len(storedRows)
<1>1. /\ storedRows' = Append(storedRows, row) /\ table' = Append(table, cells)
      /\ schema' = schema /\ cursor' = cursor /\ output' = output /\ reported' = reported /\ cursor = 0
  BY DEF Store
<1>2. row \in RowsOfSchema(schema)
  BY DEF RowsOfSchema
<1>3. /\ storedRows' \in Seq(RowsOfSchema(schema)) /\ Len(storedRows') = n + 1
      /\ storedRows'[n + 1] = row /\ \A i \in 1 .. n : storedRows'[i] = storedRows[i]
      /\ n \in Nat
  BY <1>1, <1>2, AppendProperties, LenProperties DEF ColumnsAreSound
<1>4. PICK S : table \in Seq(S)
  BY DEF ColumnsAreSound
<1>5. /\ table' \in Seq(S \cup {cells}) /\ Len(table') = n + 1
      /\ table'[n + 1] = cells /\ \A i \in 1 .. n : table'[i] = table[i]
  <2>1. table \in Seq(S \cup {cells}) /\ Len(table) = n
    BY <1>4 DEF ColumnsAreSound
  <2>2. table' = Append(table, cells)
    BY <1>1
  <2> HIDE DEF cells
  <2>3. Append(table, cells) \in Seq(S \cup {cells}) /\ Len(Append(table, cells)) = n + 1
    BY <2>1, AppendProperties
  <2>4. \A i \in 1 .. n : Append(table, cells)[i] = table[i]
    BY <2>1, AppendProperties
  <2>5. Append(table, cells)[n + 1] = cells
    BY <2>1, AppendProperties
  <2>6. QED BY <2>2, <2>3, <2>4, <2>5
<1>6. ASSUME NEW i \in 1 .. n + 1, NEW k \in 1 .. 2
      PROVE  table'[i][k] = Encoded(schema.types[k], storedRows'[i][k])
  <2>1. CASE i = n + 1
    BY <1>3, <1>5, <2>1
  <2>2. CASE i \in 1 .. n
    BY <1>3, <1>5, <2>2 DEF ColumnsAreSound
  <2>3. QED BY <1>3, <2>1, <2>2
<1>7. \A t, d : Encoded(t, d)' = Encoded(t, d)
  BY <1>1 DEF Encoded, IsStoredAsNull
<1>8. ASSUME NEW i \in 1 .. n + 1, NEW k \in 1 .. 2
      PROVE  table'[i][k] = Encoded(schema.types[k], storedRows[i][k])'
  BY <1>1, <1>6 DEF Encoded, IsStoredAsNull
<1>9. KeptValuesAreRead' /\ reported' # "row"
  BY <1>1 DEF ColumnsAreSound, KeptValuesAreRead
<1>10. RowsOfSchema(schema)' = RowsOfSchema(schema)
  BY <1>1 DEF RowsOfSchema
<1>11. (\A k \in 1 .. 2 : IsDatum(output[k]))'
  BY <1>1 DEF ColumnsAreSound, IsDatum
<1>12. cursor' \in 0 .. Len(storedRows')
  BY <1>1, <1>3
<1>13. QED BY <1>3, <1>5, <1>8, <1>9, <1>10, <1>11, <1>12 DEF ColumnsAreSound

LEMMA FetchKeepsColumns ==
    ASSUME ColumnsAreSound, FetchRow
    PROVE  ColumnsAreSound'
<1> DEFINE c == cursor + 1
           row == table[c]
           refused == {k \in 1 .. 2 : Refuses(k, row[k])}
<1>1. /\ cursor < Len(table) /\ cursor' = c
      /\ output' = [k \in 1 .. 2 |-> IF \A j \in refused : k <= j THEN Decoded(k, row[k]) ELSE output[k]]
      /\ reported' = IF refused = {} THEN "row" ELSE "throws"
      /\ schema' = schema /\ storedRows' = storedRows /\ table' = table
  BY DEF FetchRow
<1>2. c \in 1 .. Len(storedRows)
  <2>1. Len(storedRows) \in Nat /\ cursor \in Nat
    BY LenProperties DEF ColumnsAreSound
  <2>2. QED BY <1>1, <2>1 DEF ColumnsAreSound
<1> HIDE DEF refused
<1>3. ASSUME NEW k \in 1 .. 2
      PROVE  IsDatum(output'[k])
  <2>1. output'[k] \in {Decoded(k, row[k]), output[k]}
    BY <1>1
  <2>2. QED BY <2>1, DecodedIsDatum DEF ColumnsAreSound
<1>4. ASSUME reported' = "row", NEW k \in 1 .. 2, IsKept(k, storedRows[c][k])
      PROVE  IsReadAs(output'[k], storedRows[c][k])
  <2>1. refused = {}
    BY <1>1, <1>4
  <2>2. ~Refuses(k, row[k]) /\ output'[k] = Decoded(k, row[k])
    BY <1>1, <2>1 DEF refused
  <2>3. row[k] = Encoded(schema.types[k], storedRows[c][k])
    BY <1>2 DEF ColumnsAreSound
  <2>4. storedRows[c] \in RowsOfSchema(schema)
    BY <1>2, ElementOfSeq DEF ColumnsAreSound
  <2>5. storedRows[c][k].null \in BOOLEAN
    <3>1. \A t : \A d \in DataOfType(t) : d.null \in BOOLEAN
      <4>1. ASSUME NEW t, NEW d \in DataOfType(t)
            PROVE  d.null \in BOOLEAN
        <5>1. d = [value |-> Cleared(t), null |-> TRUE] \/ \E v : d = [value |-> v, null |-> FALSE]
          BY DEF DataOfType, Null
        <5>2. CASE d = [value |-> Cleared(t), null |-> TRUE]
          <6>1. d.null = TRUE
            BY <5>2
          <6>2. QED BY <6>1
        <5>3. CASE \E v : d = [value |-> v, null |-> FALSE]
          <6>1. PICK v : d = [value |-> v, null |-> FALSE]
            BY <5>3
          <6>2. d.null = FALSE
            BY <6>1
          <6>3. QED BY <6>2
        <5>4. QED BY <5>1, <5>2, <5>3
      <4>2. QED BY <4>1
    <3>2. storedRows[c][k] \in DataOfType(schema.types[k])
      BY <2>4 DEF RowsOfSchema
    <3>3. QED BY <3>1, <3>2
  <2>6. QED BY <1>4, <2>2, <2>3, <2>5, DecodedIsKept DEF ColumnsAreSound
<1>5. KeptValuesAreRead'
  <2>1. ASSUME NEW k \in 1 .. 2
        PROVE  /\ IsKept(k, storedRows[cursor][k])' <=> IsKept(k, storedRows[c][k])
               /\ IsReadAs(output[k], storedRows[cursor][k])' <=> IsReadAs(output'[k], storedRows[c][k])
    BY <1>1 DEF IsKept, IsReadAs
  <2>2. QED BY <1>4, <2>1 DEF KeptValuesAreRead
<1>6. ASSUME NEW i \in 1 .. Len(storedRows), NEW k \in 1 .. 2
      PROVE  table'[i][k] = Encoded(schema.types[k], storedRows[i][k])'
  BY <1>1 DEF ColumnsAreSound, Encoded, IsStoredAsNull
<1>7. RowsOfSchema(schema)' = RowsOfSchema(schema)
  BY <1>1 DEF RowsOfSchema
<1>8. (\A k \in 1 .. 2 : IsDatum(output[k]))'
  BY <1>3 DEF IsDatum
<1>9. cursor' \in 0 .. Len(storedRows') /\ cursor' > 0
  BY <1>1, <1>2
<1>10. /\ storedRows' \in Seq(RowsOfSchema(schema)') /\ Len(table') = Len(storedRows')
       /\ \E S : table' \in Seq(S)
  BY <1>1, <1>7 DEF ColumnsAreSound
<1>11. (\A i \in 1 .. Len(storedRows), k \in 1 .. 2 : table[i][k] = Encoded(schema.types[k], storedRows[i][k]))'
  BY <1>1, <1>6
<1>12. QED BY <1>5, <1>8, <1>9, <1>10, <1>11 DEF ColumnsAreSound

LEMMA ColumnsStaySound ==
    ASSUME ColumnsAreSound, [ColumnsNext]_columnVars
    PROVE  ColumnsAreSound'
<1>1. ASSUME schema' = schema, storedRows' = storedRows, table' = table, output' = output,
             cursor' \in 0 .. Len(storedRows), reported' = "row" => reported = "row" /\ cursor' = cursor
      PROVE  ColumnsAreSound'
  <2>1. KeptValuesAreRead'
    BY <1>1 DEF ColumnsAreSound, KeptValuesAreRead, IsKept, IsReadAs
  <2>2. RowsOfSchema(schema)' = RowsOfSchema(schema)
    BY <1>1 DEF RowsOfSchema
  <2>3. \A i \in 1 .. Len(storedRows), k \in 1 .. 2 :
            Encoded(schema.types[k], storedRows[i][k])' = Encoded(schema.types[k], storedRows[i][k])
    BY <1>1 DEF Encoded, IsStoredAsNull
  <2>4. (\A k \in 1 .. 2 : IsDatum(output[k]))'
    BY <1>1 DEF ColumnsAreSound, IsDatum
  <2>5. (\A i \in 1 .. Len(storedRows), k \in 1 .. 2 : table[i][k] = Encoded(schema.types[k], storedRows[i][k]))'
    BY <1>1, <2>3 DEF ColumnsAreSound
  <2>6. /\ storedRows' \in Seq(RowsOfSchema(schema)') /\ Len(table') = Len(storedRows')
        /\ \E S : table' \in Seq(S)
    BY <1>1, <2>2 DEF ColumnsAreSound
  <2>7. cursor' \in 0 .. Len(storedRows') /\ (reported' = "row" => cursor' > 0)
    BY <1>1 DEF ColumnsAreSound
  <2>8. QED BY <2>1, <2>4, <2>5, <2>6, <2>7 DEF ColumnsAreSound
<1>2. CASE UNCHANGED columnVars
  BY <1>1, <1>2 DEF columnVars, ColumnsAreSound
<1>3. CASE NoMoreRows
  <2>1. Len(storedRows) \in Nat
    BY LenProperties DEF ColumnsAreSound
  <2>2. QED BY <1>1, <1>3, <2>1 DEF NoMoreRows
<1>4. CASE ColumnsNext
  BY <1>3, <1>4, StoreKeepsColumns, FetchKeepsColumns DEF ColumnsNext
<1>5. QED BY <1>2, <1>4

(* The columns of a row that is fetched have what was stored, but for the   *)
(* values that the conversions are known not to keep.                       *)
THEOREM ColumnsStayRead == ColumnsSpec => []KeptValuesAreRead
<1>1. ColumnsInit => ColumnsAreSound
  BY ColumnsAtFirst
<1>2. ColumnsAreSound /\ [ColumnsNext]_columnVars => ColumnsAreSound'
  BY ColumnsStaySound
<1>3. ColumnsAreSound => KeptValuesAreRead
  BY DEF ColumnsAreSound
<1>4. QED BY <1>1, <1>2, <1>3, PTL DEF ColumnsSpec

-----------------------------------------------------------------------------
(* Classes and objects.  The data d have names, which no step changes; a    *)
(* set is of data that are there, with a name each; a class has its key and *)
(* its members apart, and an object has the columns of its class.           *)
IsSeq(s) == \E S : s \in Seq(S)
AreData(d) == IsSeq(d) /\ \A i \in DOMAIN d : "name" \in DOMAIN d[i]
NamesIn(d, s) == {d[s[k]].name : k \in DOMAIN s}
IsSetOf(d, s) ==
    /\ s \in Seq(1 .. Len(d))
    /\ \A k, m \in DOMAIN s : k # m => d[s[k]].name # d[s[m]].name
IsClassOf(d, c) ==
    /\ IsSetOf(d, c.key) /\ IsSetOf(d, c.members)
    /\ NamesIn(d, c.key) \cap NamesIn(d, c.members) = {}
IsObjectOf(d, o) ==
    /\ IsClassOf(d, o.class) /\ IsSetOf(d, o.key) /\ IsSetOf(d, o.members)
    /\ NamesIn(d, o.key) = NamesIn(d, o.class.key)
    /\ NamesIn(d, o.members) = NamesIn(d, o.class.members)
    /\ Range(o.members) \cap (Range(o.key) \cup Range(o.class.members)) = {}
AreObjects(d, os) ==
    /\ IsSeq(os)
    /\ \A n \in DOMAIN os : IsObjectOf(d, os[n])
    /\ \A n, m \in DOMAIN os : n # m => Range(os[n].members) \cap Range(os[m].members) = {}

ClassesAreSound ==
    /\ AreData(data)
    /\ IsSetOf(data, keyParts) /\ IsSetOf(data, classParts)
    /\ classKey # <<>> => IsSetOf(data, classKey[1])
    /\ IsSeq(keys) /\ \A n \in DOMAIN keys : IsSetOf(data, keys[n])
    /\ IsSeq(classes) /\ \A n \in DOMAIN classes : IsClassOf(data, classes[n])
    /\ AreObjects(data, objects)

-----------------------------------------------------------------------------
(* Data are added, and the names of those that are there stay.              *)
Grows(d, e) ==
    /\ AreData(d) /\ AreData(e) /\ Len(e) >= Len(d)
    /\ \A i \in 1 .. Len(d) : e[i].name = d[i].name

LEMMA SizeOfData ==
    ASSUME NEW d, AreData(d)
    PROVE  Len(d) \in Nat /\ DOMAIN d = 1 .. Len(d)
<1>1. PICK S : d \in Seq(S)
  BY DEF AreData, IsSeq
<1>2. QED BY <1>1, LenProperties

LEMMA SetsStay ==
    ASSUME NEW d, NEW e, Grows(d, e), NEW s, IsSetOf(d, s)
    PROVE  IsSetOf(e, s) /\ NamesIn(e, s) = NamesIn(d, s)
<1>1. Len(d) \in Nat /\ Len(e) \in Nat /\ 1 .. Len(d) \subseteq 1 .. Len(e)
  BY SizeOfData DEF Grows
<1>2. s \in Seq(1 .. Len(e))
  BY <1>1, SeqMonotonic DEF IsSetOf
<1>3. ASSUME NEW k \in DOMAIN s
      PROVE  e[s[k]].name = d[s[k]].name
  BY LenProperties, ElementOfSeq DEF IsSetOf, Grows
<1>4. NamesIn(e, s) = NamesIn(d, s)
  BY <1>3 DEF NamesIn
<1>5. QED BY <1>2, <1>3, <1>4 DEF IsSetOf

LEMMA ObjectsStay ==
    ASSUME NEW d, NEW e, Grows(d, e)
    PROVE  /\ \A c : IsClassOf(d, c) => IsClassOf(e, c)
           /\ \A o : IsObjectOf(d, o) => IsObjectOf(e, o)
<1>1. ASSUME NEW c, IsClassOf(d, c)
      PROVE  /\ IsClassOf(e, c) /\ NamesIn(e, c.key) = NamesIn(d, c.key)
             /\ NamesIn(e, c.members) = NamesIn(d, c.members)
  <2>1. IsSetOf(e, c.key) /\ NamesIn(e, c.key) = NamesIn(d, c.key)
    BY <1>1, SetsStay DEF IsClassOf
  <2>2. IsSetOf(e, c.members) /\ NamesIn(e, c.members) = NamesIn(d, c.members)
    BY <1>1, SetsStay DEF IsClassOf
  <2>3. QED BY <1>1, <2>1, <2>2 DEF IsClassOf
<1>2. ASSUME NEW o, IsObjectOf(d, o)
      PROVE  IsObjectOf(e, o)
  <2>1. IsSetOf(e, o.key) /\ NamesIn(e, o.key) = NamesIn(d, o.key)
    BY <1>2, SetsStay DEF IsObjectOf
  <2>2. IsSetOf(e, o.members) /\ NamesIn(e, o.members) = NamesIn(d, o.members)
    BY <1>2, SetsStay DEF IsObjectOf
  <2>3. /\ IsClassOf(e, o.class) /\ NamesIn(e, o.class.key) = NamesIn(d, o.class.key)
        /\ NamesIn(e, o.class.members) = NamesIn(d, o.class.members)
    BY <1>1, <1>2 DEF IsObjectOf
  <2>4. QED BY <1>2, <2>1, <2>2, <2>3 DEF IsObjectOf
<1>3. QED BY <1>1, <1>2

LEMMA Appended ==
    ASSUME NEW s, IsSeq(s), NEW x
    PROVE  /\ IsSeq(Append(s, x)) /\ Len(s) \in Nat
           /\ DOMAIN s = 1 .. Len(s) /\ DOMAIN Append(s, x) = 1 .. Len(s) + 1
           /\ Append(s, x)[Len(s) + 1] = x
           /\ \A n \in 1 .. Len(s) : Append(s, x)[n] = s[n]
<1>1. PICK S : s \in Seq(S)
  BY DEF IsSeq
<1>2. s \in Seq(S \cup {x})
  BY <1>1, SeqMonotonic
<1>3. Append(s, x) \in Seq(S \cup {x}) /\ Len(Append(s, x)) = Len(s) + 1
  BY <1>2, AppendProperties
<1>4. DOMAIN Append(s, x) = 1 .. Len(s) + 1
  BY <1>3, LenProperties
<1>5. QED BY <1>2, <1>3, <1>4, AppendProperties, LenProperties DEF IsSeq

(* What IsInserted leaves is a set. *)
LEMMA Inserted ==
    ASSUME NEW s, IsSetOf(data, s), AreData(data), NEW i \in DOMAIN data, NEW after, IsInserted(s, i, after)
    PROVE  IsSetOf(data, after)
<1>1. i \in 1 .. Len(data) /\ after = Append(s, i) /\ s \in Seq(1 .. Len(data))
  BY SizeOfData DEF IsInserted, IsSetOf
<1>2. after \in Seq(1 .. Len(data))
  BY <1>1, AppendProperties
<1>3. IsSeq(s)
  BY <1>1 DEF IsSeq
<1>4. /\ Len(s) \in Nat /\ DOMAIN s = 1 .. Len(s) /\ DOMAIN after = 1 .. Len(s) + 1
      /\ after[Len(s) + 1] = i /\ \A n \in 1 .. Len(s) : after[n] = s[n]
  BY <1>1, <1>3, Appended
<1>5. \A k \in DOMAIN s : data[s[k]].name # data[i].name
  BY DEF IsInserted, NamesOf, NameOfDatum
<1>6. ASSUME NEW k \in DOMAIN after, NEW m \in DOMAIN after, k # m
      PROVE  data[after[k]].name # data[after[m]].name
  <2>1. CASE k \in 1 .. Len(s) /\ m \in 1 .. Len(s)
    BY <1>4, <1>6, <2>1 DEF IsSetOf
  <2>2. CASE k = Len(s) + 1 /\ m \in 1 .. Len(s)
    BY <1>4, <1>5, <2>2
  <2>3. CASE m = Len(s) + 1 /\ k \in 1 .. Len(s)
    BY <1>4, <1>5, <2>3
  <2>4. QED BY <1>4, <1>6, <2>1, <2>2, <2>3
<1>7. QED BY <1>2, <1>6 DEF IsSetOf

(* A set has as many names as it has data, so the key of an object has no   *)
(* more than the key of its class.                                          *)
LEMMA NamesAreCounted ==
    ASSUME NEW d, AreData(d), NEW s, IsSetOf(d, s)
    PROVE  IsFiniteSet(NamesIn(d, s)) /\ Cardinality(NamesIn(d, s)) = Len(s) /\ Len(s) \in Nat
<1> DEFINE f == [k \in 1 .. Len(s) |-> d[s[k]].name]
<1>1. Len(s) \in Nat /\ DOMAIN s = 1 .. Len(s)
  BY LenProperties DEF IsSetOf
<1>2. f \in Surjection(1 .. Len(s), NamesIn(d, s))
  BY <1>1 DEF Surjection, NamesIn
<1>3. f \in Injection(1 .. Len(s), NamesIn(d, s))
  BY <1>1, <1>2 DEF Surjection, Injection, IsInjective, IsSetOf
<1>4. IsFiniteSet(1 .. Len(s)) /\ Cardinality(1 .. Len(s)) = Len(s)
  <2>1. \A n \in Nat : IsFiniteSet(1 .. n) /\ Cardinality(1 .. n) = n
    BY FS_Interval
  <2>2. QED BY <1>1, <2>1
<1>5. QED BY <1>1, <1>2, <1>3, <1>4, FS_Surjection

(* The clones: new data, of the same names and in the same order.           *)
LEMMA Cloned ==
    ASSUME AreData(data), NEW s, IsSetOf(data, s), NEW e \in DataWithClones(s)
    PROVE  /\ Grows(data, e) /\ IsSetOf(e, ClonesOf(s)) /\ NamesIn(e, ClonesOf(s)) = NamesIn(data, s)
           /\ \A i \in Range(ClonesOf(s)) : i \notin 1 .. Len(data)
<1> DEFINE n == Len(data)
<1>1. n \in Nat /\ DOMAIN data = 1 .. n
  BY SizeOfData
<1>2. Len(s) \in Nat /\ DOMAIN s = 1 .. Len(s) /\ \A k \in DOMAIN s : s[k] \in 1 .. n
  BY LenProperties, ElementOfSeq DEF IsSetOf
<1>3. PICK value \in [DOMAIN s -> AllValues] :
          e = data \o [k \in DOMAIN s |-> [data[s[k]] EXCEPT !.value = value[k]]]
  BY DEF DataWithClones
<1> DEFINE c == [k \in DOMAIN s |-> [data[s[k]] EXCEPT !.value = value[k]]]
<1>4. ASSUME NEW k \in DOMAIN s
      PROVE  c[k].name = data[s[k]].name /\ "name" \in DOMAIN c[k]
  BY <1>1, <1>2 DEF AreData
<1> HIDE DEF n
<1>5. PICK S : data \in Seq(S)
  BY DEF AreData, IsSeq
<1> DEFINE T == S \cup Range(c)
<1>6. data \in Seq(T) /\ c \in Seq(T) /\ Len(c) = Len(s)
  <2>1. data \in Seq(T)
    BY <1>5, SeqMonotonic
  <2>2. c \in [1 .. Len(s) -> T]
    BY <1>2 DEF Range
  <2>3. QED BY <1>2, <2>1, <2>2
<1> HIDE DEF c, T
<1>7. /\ e \in Seq(T) /\ Len(e) = n + Len(s) /\ DOMAIN e = 1 .. n + Len(s)
      /\ \A i \in 1 .. n + Len(s) : e[i] = IF i <= n THEN data[i] ELSE c[i - n]
  <2>1. e = data \o c
    BY <1>3 DEF c
  <2>2. e \in Seq(T) /\ Len(e) = n + Len(s)
    BY <1>6, <2>1, ConcatProperties, SMTT(30) DEF n
  <2>3. \A i \in 1 .. n + Len(s) : e[i] = IF i <= n THEN data[i] ELSE c[i - n]
    BY <1>6, <2>1, ConcatProperties DEF n
  <2>4. QED BY <2>2, <2>3, LenProperties
<1>8. /\ \A i \in 1 .. n : e[i] = data[i]
      /\ \A k \in 1 .. Len(s) : e[n + k] = c[k] /\ n + k \in 1 .. Len(e)
  <2>1. ASSUME NEW i \in 1 .. n
        PROVE  e[i] = data[i]
    BY <1>1, <1>2, <1>7
  <2>2. ASSUME NEW k \in 1 .. Len(s)
        PROVE  e[n + k] = c[k] /\ n + k \in 1 .. Len(e)
    <3>1. n + k \in 1 .. n + Len(s) /\ ~(n + k <= n) /\ (n + k) - n = k
      BY <1>1, <1>2
    <3>2. QED BY <1>7, <3>1
  <2>3. QED BY <2>1, <2>2
<1>9. ASSUME NEW i \in DOMAIN e
      PROVE  "name" \in DOMAIN e[i]
  <2>1. CASE i <= n
    BY <1>1, <1>2, <1>7, <1>8, <2>1 DEF AreData
  <2>2. CASE ~(i <= n)
    <3>1. i - n \in DOMAIN s /\ e[i] = c[i - n]
      BY <1>1, <1>2, <1>7, <2>2
    <3>2. QED BY <1>4, <3>1
  <2>3. QED BY <2>1, <2>2
<1>10. Grows(data, e)
  <2>1. AreData(e)
    BY <1>7, <1>9 DEF AreData, IsSeq
  <2>2. QED BY <1>1, <1>2, <1>7, <1>8, <2>1 DEF Grows, n
<1>11. /\ ClonesOf(s) \in Seq(1 .. Len(e)) /\ DOMAIN ClonesOf(s) = DOMAIN s
       /\ \A k \in DOMAIN s : ClonesOf(s)[k] = n + k
  <2>1. ClonesOf(s) = [k \in 1 .. Len(s) |-> n + k]
    BY <1>2 DEF ClonesOf, n
  <2>2. ClonesOf(s) \in [1 .. Len(s) -> 1 .. Len(e)]
    BY <1>8, <2>1
  <2>3. QED BY <1>2, <2>1, <2>2
<1>12. ASSUME NEW k \in DOMAIN s
       PROVE  e[ClonesOf(s)[k]].name = data[s[k]].name /\ ClonesOf(s)[k] \notin 1 .. n
  BY <1>1, <1>2, <1>4, <1>8, <1>11, SMTT(30)
<1>13. IsSetOf(e, ClonesOf(s))
  BY <1>11, <1>12 DEF IsSetOf
<1>14. NamesIn(e, ClonesOf(s)) = NamesIn(data, s)
  BY <1>11, <1>12 DEF NamesIn
<1>15. \A i \in Range(ClonesOf(s)) : i \notin 1 .. Len(data)
  BY <1>11, <1>12 DEF Range, n
<1>16. QED BY <1>10, <1>13, <1>14, <1>15

(* The order of a new key is any. *)
LEMMA AnyOrder ==
    ASSUME NEW d, AreData(d), NEW s, IsSetOf(d, s), NEW order \in SetToSeqs(Range(s))
    PROVE  IsSetOf(d, order)
<1> DEFINE n == Cardinality(Range(s))
<1>1. Len(s) \in Nat /\ DOMAIN s = 1 .. Len(s) /\ \A k \in DOMAIN s : s[k] \in 1 .. Len(d)
  BY LenProperties, ElementOfSeq DEF IsSetOf
<1>2. Range(s) \subseteq 1 .. Len(d)
  BY <1>1 DEF Range
<1>3. IsFiniteSet(Range(s)) /\ n \in Nat
  <2>1. IsFiniteSet(1 .. Len(d))
    BY SizeOfData, FS_Interval
  <2>2. IsFiniteSet(Range(s))
    BY <1>2, <2>1, FS_Subset
  <2>3. QED BY <2>2, FS_CardinalityType
<1>4. order \in [1 .. n -> Range(s)] /\ \A i, j \in 1 .. n : i # j => order[i] # order[j]
  BY DEF SetToSeqs
<1>5. order \in Seq(1 .. Len(d)) /\ DOMAIN order = 1 .. n
  BY <1>2, <1>3, <1>4
<1>6. ASSUME NEW k \in DOMAIN order, NEW m \in DOMAIN order, k # m
      PROVE  d[order[k]].name # d[order[m]].name
  <2>1. PICK i \in DOMAIN s, j \in DOMAIN s : order[k] = s[i] /\ order[m] = s[j]
    BY <1>4, <1>5 DEF Range
  <2>2. i # j
    BY <1>4, <1>5, <1>6, <2>1
  <2>3. QED BY <2>1, <2>2 DEF IsSetOf
<1>7. QED BY <1>5, <1>6 DEF IsSetOf

-----------------------------------------------------------------------------
LEMMA ClassesAtFirst ==
    ASSUME ClassesInit
    PROVE  ClassesAreSound
<1>1. /\ data = <<>> /\ keyParts = <<>> /\ classParts = <<>> /\ classKey = <<>>
      /\ keys = <<>> /\ classes = <<>> /\ objects = <<>>
  BY DEF ClassesInit
<1>2. <<>> \in Seq(Nat) /\ <<>> \in Seq(1 .. Len(<<>>)) /\ DOMAIN <<>> = {}
  OBVIOUS
<1>3. IsSeq(<<>>) /\ AreData(<<>>) /\ IsSetOf(<<>>, <<>>) /\ AreObjects(<<>>, <<>>)
  BY <1>2 DEF IsSeq, AreData, IsSetOf, AreObjects
<1>4. QED BY <1>1, <1>2, <1>3 DEF ClassesAreSound

(* Whatever is done to the data, as long as they keep their names.          *)
LEMMA ClassesStay ==
    ASSUME ClassesAreSound, Grows(data, data')
    PROVE  /\ AreData(data')
           /\ IsSetOf(data', keyParts) /\ IsSetOf(data', classParts)
           /\ classKey # <<>> => IsSetOf(data', classKey[1])
           /\ \A n \in DOMAIN keys : IsSetOf(data', keys[n])
           /\ \A n \in DOMAIN classes : IsClassOf(data', classes[n])
           /\ AreObjects(data', objects)
<1>1. PICK e : e = data'
  OBVIOUS
<1>2. Grows(data, e)
  BY <1>1
<1>3. \A s : IsSetOf(data, s) => IsSetOf(e, s)
  BY <1>2, SetsStay
<1>4. /\ \A c : IsClassOf(data, c) => IsClassOf(e, c)
      /\ \A o : IsObjectOf(data, o) => IsObjectOf(e, o)
  BY <1>2, ObjectsStay
<1>5. AreObjects(e, objects)
  BY <1>4 DEF ClassesAreSound, AreObjects
<1>6. AreData(e)
  BY <1>2 DEF Grows
<1>7. QED BY <1>1, <1>3, <1>4, <1>5, <1>6 DEF ClassesAreSound

LEMMA DataKeepClasses ==
    ASSUME ClassesAreSound, NEW name, NEW type, NEW canBeNull, Instantiate(name, type, canBeNull)
    PROVE  ClassesAreSound'
<1> DEFINE x == [name |-> name, type |-> type, nullable |-> canBeNull, null |-> canBeNull, value |-> 0]
           n == Len(data)
<1>1. /\ data' = Append(data, x)
      /\ UNCHANGED <<keyParts, classParts, classKey, keys, classes, objects>>
  BY DEF Instantiate
<1>2. IsSeq(data) /\ \A i \in DOMAIN data : "name" \in DOMAIN data[i]
  BY DEF ClassesAreSound, AreData
<1> HIDE DEF x
<1>3. /\ IsSeq(data') /\ n \in Nat /\ DOMAIN data = 1 .. n /\ DOMAIN data' = 1 .. n + 1
      /\ data'[n + 1] = x /\ \A i \in 1 .. n : data'[i] = data[i]
  BY <1>1, <1>2, Appended
<1>4. "name" \in DOMAIN x
  BY DEF x
<1>5. ASSUME NEW i \in DOMAIN data'
      PROVE  "name" \in DOMAIN data'[i]
  <2>1. CASE i = n + 1
    BY <1>3, <1>4, <2>1
  <2>2. CASE i \in 1 .. n
    BY <1>2, <1>3, <2>2
  <2>3. QED BY <1>3, <2>1, <2>2
<1>6. AreData(data')
  BY <1>3, <1>5 DEF AreData
<1>7. Len(data') = n + 1
  BY <1>3, <1>6, SizeOfData
<1>8. Grows(data, data')
  BY <1>3, <1>6, <1>7 DEF Grows, ClassesAreSound
<1>9. QED BY <1>1, <1>8, ClassesStay DEF ClassesAreSound

LEMMA ChangesKeepClasses ==
    ASSUME ClassesAreSound, NEW i \in DOMAIN data, NEW datum, datum.name = data[i].name,
           "name" \in DOMAIN datum, Changed(i, datum)
    PROVE  ClassesAreSound'
<1>1. /\ data' = [data EXCEPT ![i] = datum]
      /\ UNCHANGED <<keyParts, classParts, classKey, keys, classes, objects>>
  BY DEF Changed
<1>2. PICK S : data \in Seq(S)
  BY DEF ClassesAreSound, AreData, IsSeq
<1>3. Len(data) \in Nat /\ DOMAIN data = 1 .. Len(data)
  BY <1>2, LenProperties
<1>4. data \in Seq(S \cup {datum})
  BY <1>2, SeqMonotonic
<1>5. /\ data' \in Seq(S \cup {datum}) /\ Len(data') = Len(data)
      /\ \A j \in 1 .. Len(data) : data'[j] = IF j = i THEN datum ELSE data[j]
  BY <1>1, <1>3, <1>4, ExceptSeq
<1>6. DOMAIN data' = DOMAIN data
  BY <1>1
<1>7. AreData(data')
  BY <1>3, <1>5, <1>6 DEF AreData, IsSeq, ClassesAreSound
<1>8. Grows(data, data')
  BY <1>3, <1>5, <1>7 DEF Grows, ClassesAreSound
<1>9. QED BY <1>1, <1>8, ClassesStay DEF ClassesAreSound

LEMMA ValuesKeepClasses ==
    ASSUME ClassesAreSound, NEW i \in DOMAIN data,
           IsNull(i) \/ ClearDatum(i) \/ \E v \in AllValues : SetValue(i, v)
    PROVE  ClassesAreSound'
<1>1. "name" \in DOMAIN data[i]
  BY DEF ClassesAreSound, AreData
<1>2. CASE IsNull(i)
  <2> DEFINE x == [data[i] EXCEPT !.null = TRUE]
  <2>1. x.name = data[i].name /\ "name" \in DOMAIN x
    BY <1>1
  <2>2. Changed(i, x)
    BY <1>2 DEF IsNull
  <2> HIDE DEF x
  <2>3. QED BY <2>1, <2>2, ChangesKeepClasses
<1>3. CASE ClearDatum(i)
  <2> DEFINE x == [data[i] EXCEPT !.value = 0, !.null = @ \/ data[i].nullable]
  <2>1. x.name = data[i].name /\ "name" \in DOMAIN x
    BY <1>1
  <2>2. Changed(i, x)
    BY <1>3 DEF ClearDatum
  <2> HIDE DEF x
  <2>3. QED BY <2>1, <2>2, ChangesKeepClasses
<1>4. ASSUME NEW v \in AllValues, SetValue(i, v)
      PROVE  ClassesAreSound'
  <2> DEFINE x == [data[i] EXCEPT !.value = v, !.null = FALSE]
  <2>1. x.name = data[i].name /\ "name" \in DOMAIN x
    BY <1>1
  <2>2. Changed(i, x)
    BY <1>4, Zenon DEF SetValue
  <2> HIDE DEF x
  <2>3. QED BY <2>1, <2>2, ChangesKeepClasses
<1>5. QED BY <1>2, <1>3, <1>4

(* The builders: sets of the data that are there. *)
LEMMA BuildersKeepClasses ==
    ASSUME ClassesAreSound,
           \/ \E i \in DOMAIN data : AddToKey(i) \/ AddMember(i)
           \/ NewKeyBuilder \/ BuildKey \/ BuildClass
           \/ \E key \in Range(keys) : SetKey(key)
    PROVE  ClassesAreSound'
<1>1. AreData(data)
  BY DEF ClassesAreSound
<1>2. CASE NewKeyBuilder
  <2>1. IsSetOf(data, <<>>)
    BY DEF IsSetOf
  <2>2. QED BY <1>2, <2>1 DEF NewKeyBuilder, ClassesAreSound
<1>3. ASSUME NEW i \in DOMAIN data, AddToKey(i)
      PROVE  ClassesAreSound'
  <2>1. IsInserted(keyParts, i, keyParts') /\ UNCHANGED <<data, classParts, classKey, keys, classes, objects>>
    BY <1>3 DEF AddToKey
  <2>2. IsSetOf(data, keyParts')
    BY <1>1, <2>1, Inserted DEF ClassesAreSound
  <2>3. QED BY <2>1, <2>2 DEF ClassesAreSound
<1>4. ASSUME NEW i \in DOMAIN data, AddMember(i)
      PROVE  ClassesAreSound'
  <2>1. IsInserted(classParts, i, classParts') /\ UNCHANGED <<data, keyParts, classKey, keys, classes, objects>>
    BY <1>4 DEF AddMember
  <2>2. IsSetOf(data, classParts')
    BY <1>1, <2>1, Inserted DEF ClassesAreSound
  <2>3. QED BY <2>1, <2>2 DEF ClassesAreSound
<1>5. CASE BuildKey
  <2>1. keys' = Append(keys, keyParts) /\ UNCHANGED <<data, keyParts, classParts, classKey, classes, objects>>
    BY <1>5 DEF BuildKey
  <2>2. IsSeq(keys') /\ \A n \in DOMAIN keys' : IsSetOf(data, keys'[n])
    BY <2>1, Appended DEF ClassesAreSound
  <2>3. QED BY <2>1, <2>2 DEF ClassesAreSound
<1>6. CASE BuildClass
  <2> DEFINE c == [key |-> classKey[1], members |-> classParts]
  <2>1. /\ classes' = Append(classes, c) /\ UNCHANGED <<data, keyParts, classParts, classKey, keys, objects>>
        /\ classKey # <<>> /\ AreApart(classParts, classKey[1])
    BY <1>6 DEF BuildClass
  <2>2. IsClassOf(data, c)
    <3>1. c.key = classKey[1] /\ c.members = classParts
      OBVIOUS
    <3>2. IsSetOf(data, classKey[1]) /\ IsSetOf(data, classParts)
      BY <2>1 DEF ClassesAreSound
    <3>3. \A s : NamesOf(s) = NamesIn(data, s)
      BY DEF NamesOf, NameOfDatum, NamesIn
    <3>4. NamesIn(data, classKey[1]) \cap NamesIn(data, classParts) = {}
      BY <2>1, <3>3 DEF AreApart
    <3> HIDE DEF c
    <3>5. QED BY <3>1, <3>2, <3>4 DEF IsClassOf
  <2> HIDE DEF c
  <2>3. IsSeq(classes') /\ \A n \in DOMAIN classes' : IsClassOf(data, classes'[n])
    BY <2>1, <2>2, Appended DEF ClassesAreSound
  <2>4. QED BY <2>1, <2>3 DEF ClassesAreSound
<1>7. ASSUME NEW key \in Range(keys), SetKey(key)
      PROVE  ClassesAreSound'
  <2>1. classKey' = <<key>> /\ UNCHANGED <<data, keyParts, classParts, keys, classes, objects>>
    BY <1>7 DEF SetKey
  <2>2. IsSetOf(data, classKey'[1])
    BY <1>7, <2>1 DEF ClassesAreSound, Range
  <2>3. QED BY <2>1, <2>2 DEF ClassesAreSound
<1>8. QED BY <1>2, <1>3, <1>4, <1>5, <1>6, <1>7

LEMMA NewKeyKeepsClasses ==
    ASSUME ClassesAreSound, NEW c \in Range(classes), CreatePrimaryKey(c)
    PROVE  ClassesAreSound'
<1>1. PICK order \in SetToSeqs(Range(c.key)) :
          /\ data' \in DataWithClones(order) /\ keys' = Append(keys, ClonesOf(order))
          /\ UNCHANGED <<keyParts, classParts, classKey, classes, objects>>
  BY DEF CreatePrimaryKey
<1>2. IsSetOf(data, order)
  <2>1. IsSetOf(data, c.key)
    BY DEF ClassesAreSound, Range, IsClassOf
  <2>2. QED BY <2>1, AnyOrder DEF ClassesAreSound
<1>3. PICK k : k = ClonesOf(order)
  OBVIOUS
<1>4. Grows(data, data') /\ IsSetOf(data', k)
  BY <1>1, <1>2, <1>3, Cloned DEF ClassesAreSound
<1>5. keys' = Append(keys, k)
  BY <1>1, <1>3
<1>6. \A n \in DOMAIN keys : IsSetOf(data', keys[n])
  BY <1>4, ClassesStay
<1>7. IsSeq(keys') /\ \A n \in DOMAIN keys' : IsSetOf(data', keys'[n])
  <2>1. IsSeq(keys)
    BY DEF ClassesAreSound
  <2>2. QED BY <1>4, <1>5, <1>6, <2>1, Appended
<1>8. QED BY <1>1, <1>4, <1>7, ClassesStay DEF ClassesAreSound

(* The key of an object has the names of that of its class, and its members *)
(* are new.                                                                 *)
LEMMA NewObjectKeepsClasses ==
    ASSUME ClassesAreSound, NEW c \in Range(classes), NEW key \in Range(keys), CreateObject(c, key)
    PROVE  ClassesAreSound'
<1>1. PICK m : m = ClonesOf(c.members)
  OBVIOUS
<1> DEFINE o == [class |-> c, key |-> key, members |-> m]
<1>2. /\ data' \in DataWithClones(c.members) /\ objects' = Append(objects, o) /\ Matches(c.key, key)
      /\ UNCHANGED <<keyParts, classParts, classKey, keys, classes>>
  BY <1>1 DEF CreateObject
<1>3. AreData(data) /\ IsClassOf(data, c) /\ IsSetOf(data, key)
  BY DEF ClassesAreSound, Range
<1>4. /\ Grows(data, data') /\ IsSetOf(data', m) /\ NamesIn(data', m) = NamesIn(data, c.members)
      /\ \A i \in Range(m) : i \notin 1 .. Len(data)
  BY <1>1, <1>2, <1>3, Cloned DEF IsClassOf
<1>5. NamesIn(data, key) = NamesIn(data, c.key)
  <2>1. Len(c.key) = Len(key) /\ NamesIn(data, c.key) \subseteq NamesIn(data, key)
    <3>1. \A i \in Range(c.key) : data[i].name \in NamesIn(data, key)
      BY <1>2 DEF Matches, NamesOf, NameOfDatum, NamesIn
    <3>2. QED BY <1>2, <3>1 DEF Matches, NamesIn, Range
  <2>2. /\ IsFiniteSet(NamesIn(data, key))
        /\ Cardinality(NamesIn(data, key)) = Cardinality(NamesIn(data, c.key))
    BY <1>3, <2>1, NamesAreCounted DEF IsClassOf
  <2>3. QED BY <2>1, <2>2, FS_Subset
<1>6. PICK e : e = data'
  OBVIOUS
<1>7. /\ NamesIn(e, c.key) = NamesIn(data, c.key) /\ NamesIn(e, c.members) = NamesIn(data, c.members)
      /\ IsSetOf(e, key) /\ NamesIn(e, key) = NamesIn(data, key) /\ IsClassOf(e, c)
  <2>1. NamesIn(e, c.key) = NamesIn(data, c.key)
    BY <1>3, <1>4, <1>6, SetsStay DEF IsClassOf
  <2>2. NamesIn(e, c.members) = NamesIn(data, c.members)
    BY <1>3, <1>4, <1>6, SetsStay DEF IsClassOf
  <2>3. IsSetOf(e, key) /\ NamesIn(e, key) = NamesIn(data, key)
    BY <1>3, <1>4, <1>6, SetsStay
  <2>4. IsClassOf(e, c)
    BY <1>3, <1>4, <1>6, ObjectsStay
  <2>5. QED BY <2>1, <2>2, <2>3, <2>4
<1>8. \A s : IsSetOf(data, s) => \A i \in Range(s) : i \in 1 .. Len(data)
  <2>1. ASSUME NEW s, IsSetOf(data, s), NEW k \in DOMAIN s
        PROVE  s[k] \in 1 .. Len(data)
    BY <2>1, LenProperties, ElementOfSeq DEF IsSetOf
  <2>2. QED BY <2>1 DEF Range
<1>9. \A s : IsSetOf(data, s) => Range(m) \cap Range(s) = {}
  BY <1>4, <1>8
<1>10. IsObjectOf(e, o)
  <2>1. o.class = c /\ o.key = key /\ o.members = m
    OBVIOUS
  <2>2. Range(m) \cap (Range(key) \cup Range(c.members)) = {}
    BY <1>3, <1>9 DEF IsClassOf
  <2> HIDE DEF o
  <2>3. QED BY <1>4, <1>5, <1>6, <1>7, <2>1, <2>2 DEF IsObjectOf
<1> HIDE DEF o
<1>11. IsSeq(objects) /\ AreObjects(e, objects)
  BY <1>4, <1>6, ClassesStay DEF ClassesAreSound, AreObjects
<1>12. /\ IsSeq(objects') /\ Len(objects) \in Nat /\ DOMAIN objects = 1 .. Len(objects)
       /\ DOMAIN objects' = 1 .. Len(objects) + 1 /\ objects'[Len(objects) + 1] = o
       /\ \A n \in 1 .. Len(objects) : objects'[n] = objects[n]
  BY <1>2, <1>11, Appended
<1>13. \A n \in 1 .. Len(objects) : Range(o.members) \cap Range(objects[n].members) = {}
  BY <1>9, <1>12 DEF ClassesAreSound, AreObjects, IsObjectOf, o
<1>14. ASSUME NEW n \in DOMAIN objects'
       PROVE  /\ IsObjectOf(e, objects'[n])
              /\ \A k \in DOMAIN objects' :
                     n # k => Range(objects'[n].members) \cap Range(objects'[k].members) = {}
  <2>1. CASE n = Len(objects) + 1
    BY <1>10, <1>12, <1>13, <2>1
  <2>2. CASE n \in 1 .. Len(objects)
    <3>1. objects'[n] = objects[n] /\ IsObjectOf(e, objects[n]) /\ n \in DOMAIN objects
      BY <1>11, <1>12, <2>2 DEF AreObjects
    <3>2. ASSUME NEW k \in DOMAIN objects', n # k
          PROVE  Range(objects[n].members) \cap Range(objects'[k].members) = {}
      <4>1. CASE k = Len(objects) + 1
        BY <1>12, <1>13, <2>2, <4>1
      <4>2. CASE k \in 1 .. Len(objects)
        BY <1>11, <1>12, <3>1, <3>2, <4>2 DEF AreObjects
      <4>3. QED BY <1>12, <4>1, <4>2
    <3>3. QED BY <3>1, <3>2
  <2>3. QED BY <1>12, <2>1, <2>2
<1>15. AreObjects(data', objects')
  BY <1>6, <1>12, <1>14 DEF AreObjects
<1>16. QED BY <1>2, <1>4, <1>15, ClassesStay DEF ClassesAreSound

LEMMA ClassesStaySound ==
    ASSUME ClassesAreSound, [ClassesNext]_classVars
    PROVE  ClassesAreSound'
<1>1. CASE UNCHANGED classVars
  BY <1>1 DEF classVars, ClassesAreSound
<1>2. CASE ClassesNext
  BY <1>2, DataKeepClasses, ValuesKeepClasses, BuildersKeepClasses, NewKeyKeepsClasses, NewObjectKeepsClasses
     DEF ClassesNext
<1>3. QED BY <1>1, <1>2

-----------------------------------------------------------------------------
LEMMA SoundObjects ==
    ASSUME ClassesAreSound
    PROVE  ObjectsAreIndependent /\ ColumnsAreTold
<1>1. ObjectsAreIndependent
  BY DEF ObjectsAreIndependent, ClassesAreSound, AreObjects, IsObjectOf
<1>2. ASSUME NEW o \in Range(objects)
      PROVE  /\ NamesOf(o.key) = NamesOf(o.class.key) /\ NamesOf(o.members) = NamesOf(o.class.members)
             /\ NamesOf(o.key) \cap NamesOf(o.members) = {}
             /\ Len(o.key \o o.members) = Cardinality(NamesOf(o.key \o o.members))
  <2>1. IsObjectOf(data, o) /\ AreData(data)
    BY DEF ClassesAreSound, AreObjects, Range
  <2>2. \A s : NamesOf(s) = NamesIn(data, s)
    BY DEF NamesOf, NameOfDatum, NamesIn
  <2>3. NamesIn(data, o.key) \cap NamesIn(data, o.members) = {}
    BY <2>1 DEF IsObjectOf, IsClassOf
  <2> DEFINE a == o.key
             b == o.members
             c == a \o b
  <2>4. a \in Seq(1 .. Len(data)) /\ b \in Seq(1 .. Len(data)) /\ IsSetOf(data, a) /\ IsSetOf(data, b)
    BY <2>1 DEF IsObjectOf, IsSetOf
  <2> HIDE DEF a, b
  <2>5. /\ Len(a) \in Nat /\ Len(b) \in Nat /\ DOMAIN a = 1 .. Len(a) /\ DOMAIN b = 1 .. Len(b)
    BY <2>4, LenProperties
  <2>6. c \in Seq(1 .. Len(data)) /\ Len(c) = Len(a) + Len(b)
    BY <2>4, ConcatProperties
  <2>7. \A k \in 1 .. Len(a) + Len(b) : c[k] = IF k <= Len(a) THEN a[k] ELSE b[k - Len(a)]
    BY <2>4, ConcatProperties
  <2>8. DOMAIN c = 1 .. Len(a) + Len(b)
    BY <2>6, LenProperties
  <2> HIDE DEF c
  <2>9. \A k \in DOMAIN a, m \in DOMAIN b : data[a[k]].name # data[b[m]].name
    BY <2>3 DEF NamesIn, a, b
  <2>10. ASSUME NEW k \in DOMAIN c, NEW m \in DOMAIN c, k # m
         PROVE  data[c[k]].name # data[c[m]].name
    <3>1. CASE k <= Len(a) /\ m <= Len(a)
      BY <2>4, <2>5, <2>7, <2>8, <2>10, <3>1 DEF IsSetOf
    <3>2. CASE k <= Len(a) /\ ~(m <= Len(a))
      <4>1. c[k] = a[k] /\ c[m] = b[m - Len(a)] /\ k \in DOMAIN a /\ m - Len(a) \in DOMAIN b
        BY <2>5, <2>7, <2>8, <3>2
      <4>2. QED BY <2>9, <4>1
    <3>3. CASE ~(k <= Len(a)) /\ m <= Len(a)
      <4>1. c[m] = a[m] /\ c[k] = b[k - Len(a)] /\ m \in DOMAIN a /\ k - Len(a) \in DOMAIN b
        BY <2>5, <2>7, <2>8, <3>3
      <4>2. QED BY <2>9, <4>1
    <3>4. CASE ~(k <= Len(a)) /\ ~(m <= Len(a))
      <4>1. /\ c[k] = b[k - Len(a)] /\ c[m] = b[m - Len(a)] /\ k - Len(a) # m - Len(a)
            /\ k - Len(a) \in DOMAIN b /\ m - Len(a) \in DOMAIN b
        BY <2>5, <2>7, <2>8, <2>10, <3>4
      <4>2. QED BY <2>4, <4>1 DEF IsSetOf
    <3>5. QED BY <3>1, <3>2, <3>3, <3>4
  <2>11. IsSetOf(data, c)
    BY <2>6, <2>10 DEF IsSetOf
  <2>12. Cardinality(NamesIn(data, c)) = Len(c)
    BY <2>1, <2>11, NamesAreCounted
  <2>13. QED BY <2>1, <2>2, <2>3, <2>12 DEF IsObjectOf, a, b, c
<1>3. QED BY <1>1, <1>2 DEF ColumnsAreTold

(* No two objects share a member, nor an object and its key or class; an    *)
(* object has the columns of its class, each once, whoever made its key.    *)
THEOREM ObjectsStayIndependent == ClassesSpec => [](ObjectsAreIndependent /\ ColumnsAreTold)
<1>1. ClassesInit => ClassesAreSound
  BY ClassesAtFirst
<1>2. ClassesAreSound /\ [ClassesNext]_classVars => ClassesAreSound'
  BY ClassesStaySound
<1>3. ClassesAreSound => ObjectsAreIndependent /\ ColumnsAreTold
  BY SoundObjects
<1>4. QED BY <1>1, <1>2, <1>3, PTL DEF ClassesSpec

-----------------------------------------------------------------------------
(* The solver.  A node is good when it is on the way to a solution of the   *)
(* problem vd, and open when nothing on the way to it was judged; the       *)
(* search has passed a node when it has been there and come back, or has    *)
(* left out a node before it.                                               *)
IsWayTo(n, s) == Len(n) <= Len(s) /\ \A k \in 1 .. Len(n) : s[k] = n[k]
IsJudged(vd, n) == "reject" \in vd[n] \/ "accept" \in vd[n]
IsOpen(vd, n) == \A m \in Nodes : (Len(m) >= 2 /\ IsWayTo(m, n)) => ~IsJudged(vd, m)
IsSolution(vd, s) ==
    /\ Len(s) > 1 /\ "accept" \in vd[s] /\ "reject" \notin vd[s]
    /\ \A m \in Nodes : (Len(m) >= 2 /\ Len(m) < Len(s) /\ IsWayTo(m, s)) => ~IsJudged(vd, m)
IsGood(vd, n) == \E s \in Nodes : IsSolution(vd, s) /\ IsWayTo(n, s)

IsFrame(f) == DOMAIN f = {"node", "ii", "hasSolution"} /\ f.node \in Nodes /\ f.ii \in 1 .. Width + 1
IsStack(vd, fr) ==
    /\ IsSeq(fr)
    /\ \A j \in DOMAIN fr :
          /\ IsFrame(fr[j]) /\ Len(fr[j].node) = j - 1 /\ IsOpen(vd, fr[j].node)
          /\ \A k \in 1 .. j - 1 : fr[j].node[k] = fr[k].ii - 1

LimitAt(fr, j) == IF j = Len(fr) THEN fr[j].ii ELSE fr[j].ii - 1
IsPassed(fr, n) ==
    \E j \in DOMAIN fr : j <= Len(n) /\ (\A k \in 1 .. j - 1 : n[k] = fr[k].ii - 1) /\ n[j] < LimitAt(fr, j)

Ascends(s) == \A i, j \in DOMAIN s : i < j => s[i] < s[j]
AreFound(vd, succ, fr) ==
    \A p \in Nodes :
        /\ Ascends(succ[p])
        /\ \A v \in 1 .. Width :
              v \in Range(succ[p]) <=>
                  Len(p) < MaxDepth /\ IsPassed(fr, Append(p, v)) /\ IsGood(vd, Append(p, v))
AreAllFound(vd, succ) ==
    \A p \in Nodes :
        /\ Ascends(succ[p])
        /\ \A v \in 1 .. Width :
              v \in Range(succ[p]) <=> Len(p) < MaxDepth /\ IsGood(vd, Append(p, v))
KnowSolutions(succ, fr) == \A j \in DOMAIN fr : fr[j].hasSolution <=> succ[fr[j].node] # <<>>

SolverIsSound ==
    /\ successors \in [Nodes -> Seq(1 .. Width)]
    /\ IsStack(verdict, frames)
    /\ KnowSolutions(successors, frames)
    /\ frames # <<>> => AreFound(verdict, successors, frames)
    /\ (frames = <<>> /\ applied > 0) =>
          AreAllFound(verdict, successors) /\ result = (successors[<<>>] # <<>>)

-----------------------------------------------------------------------------
LEMMA NodesAreSequences ==
    ASSUME NEW n
    PROVE  n \in Nodes <=> n \in Seq(1 .. Width) /\ Len(n) <= MaxDepth
<1>1. ASSUME n \in Nodes
      PROVE  n \in Seq(1 .. Width) /\ Len(n) <= MaxDepth
  <2>1. PICK m \in 0 .. MaxDepth : n \in [1 .. m -> 1 .. Width]
    BY <1>1 DEF Nodes
  <2>2. m \in Nat /\ m <= MaxDepth
    BY SolverAssumption
  <2>3. n \in Seq(1 .. Width)
    BY <2>1, <2>2, SeqDef
  <2>4. Len(n) = m
    BY <2>1, <2>2, <2>3, LenProperties
  <2>5. QED BY <2>2, <2>3, <2>4
<1>2. ASSUME n \in Seq(1 .. Width), Len(n) <= MaxDepth
      PROVE  n \in Nodes
  <2>1. Len(n) \in 0 .. MaxDepth /\ n \in [1 .. Len(n) -> 1 .. Width]
    BY <1>2, LenProperties, SolverAssumption
  <2>2. QED BY <2>1 DEF Nodes
<1>3. QED BY <1>1, <1>2

LEMMA NodeIs ==
    ASSUME NEW n \in Nodes
    PROVE  /\ n \in Seq(1 .. Width) /\ Len(n) \in Nat /\ Len(n) <= MaxDepth /\ DOMAIN n = 1 .. Len(n)
           /\ \A k \in 1 .. Len(n) : n[k] \in 1 .. Width
<1>1. n \in Seq(1 .. Width) /\ Len(n) <= MaxDepth
  BY NodesAreSequences
<1>2. QED BY <1>1, LenProperties, ElementOfSeq

LEMMA Extended ==
    ASSUME NEW p \in Nodes, Len(p) < MaxDepth, NEW v \in 1 .. Width
    PROVE  /\ Append(p, v) \in Nodes /\ Len(Append(p, v)) = Len(p) + 1 /\ Append(p, v)[Len(p) + 1] = v
           /\ \A k \in 1 .. Len(p) : Append(p, v)[k] = p[k]
<1>1. p \in Seq(1 .. Width) /\ Len(p) \in Nat
  BY NodeIs
<1>2. /\ Append(p, v) \in Seq(1 .. Width) /\ Len(Append(p, v)) = Len(p) + 1 /\ Append(p, v)[Len(p) + 1] = v
      /\ \A k \in 1 .. Len(p) : Append(p, v)[k] = p[k]
  BY <1>1, AppendProperties
<1>3. Append(p, v) \in Nodes
  <2>1. Len(Append(p, v)) <= MaxDepth
    BY <1>1, <1>2, SolverAssumption
  <2>2. QED BY <1>2, <2>1, NodesAreSequences
<1>4. QED BY <1>2, <1>3

LEMMA SameNode ==
    ASSUME NEW n \in Nodes, NEW m \in Nodes, Len(n) = Len(m), \A k \in 1 .. Len(n) : n[k] = m[k]
    PROVE  n = m
BY NodeIs, SeqEqual

(* A good node that is no solution has a good child, and only it has one.   *)
LEMMA GoodOnes ==
    ASSUME NEW vd, NEW p \in Nodes
    PROVE  /\ \A v \in 1 .. Width : Len(p) < MaxDepth /\ IsGood(vd, Append(p, v)) =>
                  IsGood(vd, p) /\ ~IsSolution(vd, p)
           /\ IsGood(vd, p) /\ ~IsSolution(vd, p) =>
                  Len(p) < MaxDepth /\ \E v \in 1 .. Width : IsGood(vd, Append(p, v))
<1>1. ASSUME NEW v \in 1 .. Width, Len(p) < MaxDepth, IsGood(vd, Append(p, v))
      PROVE  IsGood(vd, p) /\ ~IsSolution(vd, p)
  <2>1. PICK s \in Nodes : IsSolution(vd, s) /\ IsWayTo(Append(p, v), s)
    BY <1>1 DEF IsGood
  <2>2. /\ Len(Append(p, v)) = Len(p) + 1 /\ \A k \in 1 .. Len(p) : Append(p, v)[k] = p[k]
        /\ Len(p) \in Nat /\ Len(s) \in Nat
    BY <1>1, Extended, NodeIs
  <2>3. IsWayTo(p, s) /\ Len(p) < Len(s)
    BY <2>1, <2>2 DEF IsWayTo
  <2>4. IsSolution(vd, p) => FALSE
    BY <2>1, <2>2, <2>3 DEF IsSolution, IsJudged
  <2>5. QED BY <2>1, <2>3, <2>4 DEF IsGood
<1>2. ASSUME IsGood(vd, p), ~IsSolution(vd, p)
      PROVE  Len(p) < MaxDepth /\ \E v \in 1 .. Width : IsGood(vd, Append(p, v))
  <2>1. PICK s \in Nodes : IsSolution(vd, s) /\ IsWayTo(p, s)
    BY <1>2 DEF IsGood
  <2>2. Len(s) \in Nat /\ Len(p) \in Nat /\ Len(s) <= MaxDepth /\ \A k \in 1 .. Len(s) : s[k] \in 1 .. Width
    BY NodeIs
  <2>3. Len(p) # Len(s)
    BY <1>2, <2>1, SameNode DEF IsWayTo
  <2>4. Len(p) + 1 \in 1 .. Len(s) /\ Len(p) < MaxDepth
    BY <2>1, <2>2, <2>3, SolverAssumption DEF IsWayTo
  <2> DEFINE v == s[Len(p) + 1]
  <2>5. v \in 1 .. Width
    BY <2>2, <2>4
  <2>6. /\ Len(Append(p, v)) = Len(p) + 1 /\ Append(p, v)[Len(p) + 1] = v
        /\ \A k \in 1 .. Len(p) : Append(p, v)[k] = p[k]
    BY <2>4, <2>5, Extended
  <2>7. ASSUME NEW k \in 1 .. Len(p) + 1
        PROVE  s[k] = Append(p, v)[k]
    <3>1. CASE k = Len(p) + 1
      BY <2>6, <3>1
    <3>2. CASE k \in 1 .. Len(p)
      BY <2>1, <2>6, <3>2 DEF IsWayTo
    <3>3. QED BY <2>2, <3>1, <3>2
  <2>8. IsWayTo(Append(p, v), s)
    BY <2>2, <2>4, <2>6, <2>7 DEF IsWayTo
  <2>9. QED BY <2>1, <2>4, <2>5, <2>8 DEF IsGood
<1>3. QED BY <1>1, <1>2

(* The node after an open one: rejected, accepted, or open too.             *)
LEMMA Candidates ==
    ASSUME NEW vd, NEW p \in Nodes, IsOpen(vd, p), Len(p) < MaxDepth, NEW v \in 1 .. Width
    PROVE  /\ (Len(p) >= 1 /\ "accept" \in vd[Append(p, v)] /\ "reject" \notin vd[Append(p, v)]) =>
                  IsSolution(vd, Append(p, v))
           /\ (Len(p) >= 1 => ~IsJudged(vd, Append(p, v))) => IsOpen(vd, Append(p, v))
<1> DEFINE c == Append(p, v)
<1>1. /\ c \in Nodes /\ Len(c) = Len(p) + 1 /\ \A k \in 1 .. Len(p) : c[k] = p[k]
      /\ Len(p) \in Nat
  BY Extended, NodeIs
<1> HIDE DEF c
<1>2. ASSUME NEW m \in Nodes, Len(m) >= 2, IsWayTo(m, c), Len(m) < Len(c)
      PROVE  ~IsJudged(vd, m)
  <2>1. Len(m) \in Nat /\ Len(m) <= Len(p)
    BY <1>1, <1>2, NodeIs
  <2>2. IsWayTo(m, p)
    BY <1>1, <1>2, <2>1 DEF IsWayTo
  <2>3. QED BY <1>2, <2>2 DEF IsOpen
<1>3. ASSUME Len(p) >= 1, "accept" \in vd[c], "reject" \notin vd[c]
      PROVE  IsSolution(vd, c)
  BY <1>1, <1>2, <1>3 DEF IsSolution
<1>4. ASSUME Len(p) >= 1 => ~IsJudged(vd, c)
      PROVE  IsOpen(vd, c)
  <2>1. ASSUME NEW m \in Nodes, Len(m) >= 2, IsWayTo(m, c)
        PROVE  ~IsJudged(vd, m)
    <3>1. CASE Len(m) < Len(c)
      BY <1>2, <2>1, <3>1
    <3>2. CASE ~(Len(m) < Len(c))
      <4>1. Len(m) = Len(c)
        BY <1>1, <2>1, <3>2, NodeIs DEF IsWayTo
      <4>2. m = c
        BY <1>1, <2>1, <4>1, SameNode DEF IsWayTo
      <4>3. Len(p) >= 1
        BY <1>1, <2>1, <4>1
      <4>4. QED BY <1>4, <4>2, <4>3
    <3>3. QED BY <3>1, <3>2
  <2>2. QED BY <2>1 DEF IsOpen
<1>5. QED BY <1>3, <1>4 DEF c

(* Nothing is good below what is judged, but an accepted node itself.       *)
LEMMA JudgedEnds ==
    ASSUME NEW vd, NEW c \in Nodes, Len(c) >= 2, IsJudged(vd, c), NEW n \in Nodes, IsWayTo(c, n)
    PROVE  /\ "reject" \in vd[c] => ~IsGood(vd, n)
           /\ Len(n) # Len(c) => ~IsGood(vd, n)
<1>1. Len(c) \in Nat /\ Len(n) \in Nat
  BY NodeIs
<1>2. ASSUME NEW s \in Nodes, IsSolution(vd, s), IsWayTo(n, s)
      PROVE  Len(n) = Len(c) /\ "reject" \notin vd[c]
  <2>1. Len(s) \in Nat
    BY NodeIs
  <2>2. IsWayTo(c, s)
    BY <1>1, <1>2, <2>1 DEF IsWayTo
  <2>3. ~(Len(c) < Len(s))
    BY <1>2, <2>2 DEF IsSolution
  <2>4. Len(c) = Len(s) /\ Len(n) = Len(c)
    BY <1>1, <1>2, <2>1, <2>2, <2>3 DEF IsWayTo
  <2>5. s = c
    BY <2>2, <2>4, SameNode DEF IsWayTo
  <2>6. QED BY <1>2, <2>4, <2>5 DEF IsSolution
<1>3. QED BY <1>2 DEF IsGood

-----------------------------------------------------------------------------
(* The calls that are under way.                                            *)
LEMMA FrontAndLast ==
    ASSUME NEW s, IsSeq(s), s # <<>>
    PROVE  /\ Len(s) \in Nat \ {0} /\ DOMAIN s = 1 .. Len(s) /\ Last(s) = s[Len(s)]
           /\ IsSeq(Front(s)) /\ Len(Front(s)) = Len(s) - 1 /\ DOMAIN Front(s) = 1 .. Len(s) - 1
           /\ \A j \in 1 .. Len(s) - 1 : Front(s)[j] = s[j]
<1>1. PICK S : s \in Seq(S)
  BY DEF IsSeq
<1>2. Len(s) \in Nat \ {0} /\ DOMAIN s = 1 .. Len(s)
  BY <1>1, EmptySeq, LenProperties
<1>3. \A j \in 1 .. Len(s) - 1 : s[j] \in S
  BY <1>1, <1>2, ElementOfSeq
<1>4. Front(s) = SubSeq(s, 1, Len(s) - 1)
  BY DEF Front
<1>5. /\ Front(s) \in Seq(S) /\ Len(Front(s)) = (IF 1 <= Len(s) - 1 THEN (Len(s) - 1) - 1 + 1 ELSE 0)
      /\ \A j \in 1 .. (Len(s) - 1) - 1 + 1 : Front(s)[j] = s[1 + j - 1]
  BY <1>2, <1>3, <1>4, SubSeqProperties
<1>6. Len(Front(s)) = Len(s) - 1 /\ \A j \in 1 .. Len(s) - 1 : Front(s)[j] = s[j]
  <2>1. PICK l \in Nat \ {0} : l = Len(s)
    BY <1>2, Zenon
  <2>2. (l - 1) - 1 + 1 = l - 1 /\ \A j \in 1 .. l - 1 : 1 + j - 1 = j
    BY <2>1
  <2>3. Len(Front(s)) = l - 1
    BY <1>5, <2>1
  <2>4. ASSUME NEW j \in 1 .. l - 1
        PROVE  Front(s)[j] = s[j]
    <3>1. j \in 1 .. (Len(s) - 1) - 1 + 1 /\ 1 + j - 1 = j
      BY <2>1, <2>2
    <3>2. QED BY <1>5, <3>1
  <2>5. QED BY <2>1, <2>3, <2>4
<1>7. DOMAIN Front(s) = 1 .. Len(s) - 1
  BY <1>5, <1>6, LenProperties
<1>8. QED BY <1>2, <1>5, <1>6, <1>7, Zenon DEF Last, IsSeq

LEMMA TopReplaced ==
    ASSUME NEW s, IsSeq(s), s # <<>>, NEW x
    PROVE  LET r == Append(Front(s), x) IN
           /\ IsSeq(r) /\ Len(r) = Len(s) /\ DOMAIN r = 1 .. Len(s) /\ r[Len(s)] = x
           /\ \A j \in 1 .. Len(s) - 1 : r[j] = s[j]
<1> DEFINE f == Front(s)
           r == Append(f, x)
<1>1. /\ Len(s) \in Nat \ {0} /\ IsSeq(f) /\ Len(f) = Len(s) - 1
      /\ \A j \in 1 .. Len(s) - 1 : f[j] = s[j]
  BY FrontAndLast
<1> HIDE DEF f
<1>2. /\ IsSeq(r) /\ DOMAIN r = 1 .. Len(f) + 1 /\ r[Len(f) + 1] = x
      /\ \A j \in 1 .. Len(f) : r[j] = f[j]
  BY <1>1, Appended
<1>3. Len(r) = Len(f) + 1
  <2>1. PICK S : f \in Seq(S)
    BY <1>1 DEF IsSeq
  <2>2. f \in Seq(S \cup {x})
    BY <2>1, SeqMonotonic
  <2>3. QED BY <2>2, AppendProperties
<1>4. Len(f) + 1 = Len(s)
  BY <1>1
<1>5. QED BY <1>1, <1>2, <1>3, <1>4 DEF f

LEMMA TopIs ==
    ASSUME NEW vd, IsStack(vd, frames), frames # <<>>
    PROVE  /\ Len(frames) \in Nat \ {0} /\ Top = frames[Len(frames)] /\ IsFrame(Top)
           /\ Len(Top.node) = Len(frames) - 1 /\ IsOpen(vd, Top.node)
           /\ \A k \in 1 .. Len(frames) - 1 : Top.node[k] = frames[k].ii - 1
           /\ DOMAIN frames = 1 .. Len(frames)
<1>1. /\ Len(frames) \in Nat \ {0} /\ Top = frames[Len(frames)] /\ DOMAIN frames = 1 .. Len(frames)
  BY FrontAndLast DEF IsStack, Top
<1>2. Len(frames) \in DOMAIN frames
  BY <1>1
<1>3. QED BY <1>1, <1>2, Zenon DEF IsStack

(* A child of a node on the way: those before the one that is explored.     *)
LEMMA PassedOnTheWay ==
    ASSUME NEW vd, NEW fr, IsStack(vd, fr), NEW j \in DOMAIN fr, Len(fr[j].node) < MaxDepth, NEW v \in 1 .. Width
    PROVE  IsPassed(fr, Append(fr[j].node, v)) <=> v < LimitAt(fr, j)
<1> DEFINE p == fr[j].node
           n == Append(p, v)
<1>1. p \in Nodes /\ Len(p) = j - 1 /\ \A k \in 1 .. j - 1 : p[k] = fr[k].ii - 1
  BY DEF IsStack, IsFrame
<1>2. DOMAIN fr = 1 .. Len(fr) /\ Len(fr) \in Nat /\ j \in Nat /\ j >= 1 /\ j <= Len(fr)
  <2>1. DOMAIN fr = 1 .. Len(fr) /\ Len(fr) \in Nat
    BY LenProperties DEF IsStack, IsSeq
  <2>2. QED BY <2>1
<1>3. Len(n) = j /\ n[j] = v /\ \A k \in 1 .. j - 1 : n[k] = fr[k].ii - 1
  <2>1. Len(n) = Len(p) + 1 /\ n[Len(p) + 1] = v /\ \A k \in 1 .. Len(p) : n[k] = p[k]
    BY <1>1, Extended
  <2>2. QED BY <1>1, <1>2, <2>1
<1> HIDE DEF p, n
<1>4. ASSUME IsPassed(fr, n)
      PROVE  v < LimitAt(fr, j)
  <2>1. PICK i \in DOMAIN fr : i <= Len(n) /\ (\A k \in 1 .. i - 1 : n[k] = fr[k].ii - 1) /\ n[i] < LimitAt(fr, i)
    BY <1>4 DEF IsPassed
  <2>2. CASE i = j
    BY <1>3, <2>1, <2>2
  <2>3. CASE i # j
    <3>1. i \in 1 .. j - 1 /\ i # Len(fr)
      BY <1>2, <1>3, <2>1, <2>3
    <3>2. n[i] = fr[i].ii - 1 /\ LimitAt(fr, i) = fr[i].ii - 1
      BY <1>3, <3>1 DEF LimitAt
    <3>3. fr[i].ii \in Int
      BY <2>1 DEF IsStack, IsFrame
    <3>4. QED BY <2>1, <3>2, <3>3
  <2>4. QED BY <2>2, <2>3
<1>5. ASSUME v < LimitAt(fr, j)
      PROVE  IsPassed(fr, n)
  BY <1>2, <1>3, <1>5 DEF IsPassed
<1>6. QED BY <1>4, <1>5 DEF n, p

(* The candidate is left behind: nothing else is passed by it but what is   *)
(* below it.                                                                *)
LEMMA PassedAfterCandidate ==
    ASSUME NEW vd, IsStack(vd, frames), frames # <<>>, ~Stop, NEW fr, IsSeq(fr), Len(fr) = Len(frames),
           DOMAIN fr = 1 .. Len(frames),
           fr[Len(frames)].ii = Top.ii + 1, \A j \in 1 .. Len(frames) - 1 : fr[j] = frames[j],
           NEW n \in Nodes
    PROVE  IsPassed(fr, n) <=> IsPassed(frames, n) \/ IsWayTo(Candidate, n)
<1> DEFINE t == Len(frames)
           p == Top.node
<1>1. /\ t \in Nat \ {0} /\ Top = frames[t] /\ IsFrame(Top) /\ Len(p) = t - 1
      /\ \A k \in 1 .. t - 1 : p[k] = frames[k].ii - 1
      /\ DOMAIN frames = 1 .. t
  BY TopIs, Zenon
<1>2. p \in Nodes /\ Top.ii \in 1 .. Width /\ Len(p) < MaxDepth
  <2>1. p \in Nodes /\ Top.ii \in 1 .. Width + 1 /\ Len(p) \in Nat /\ Len(p) <= MaxDepth
    BY <1>1, NodeIs, Zenon DEF IsFrame
  <2>2. QED BY <2>1, SolverAssumption DEF Stop
<1>3. Len(Candidate) = t /\ Candidate[t] = Top.ii /\ \A k \in 1 .. t - 1 : Candidate[k] = frames[k].ii - 1
  <2>1. /\ Len(Candidate) = Len(p) + 1 /\ Candidate[Len(p) + 1] = Top.ii
        /\ \A k \in 1 .. Len(p) : Candidate[k] = p[k]
    BY <1>2, Extended DEF Candidate
  <2> HIDE DEF p, t
  <2>2. Len(p) = t - 1 /\ Len(p) + 1 = t
    <3>1. PICK u \in Nat : u = t
      BY <1>1
    <3>2. (u - 1) + 1 = u
      BY <3>1
    <3>3. QED BY <1>1, <3>1, <3>2
  <2>3. Len(Candidate) = t /\ Candidate[t] = Top.ii
    BY <2>1, <2>2
  <2>4. \A k \in 1 .. t - 1 : Candidate[k] = p[k]
    BY <2>1, <2>2
  <2>5. QED BY <1>1, <2>3, <2>4
<1>4. Len(n) \in Nat /\ \A k \in 1 .. Len(n) : n[k] \in Nat
  BY NodeIs
<1> HIDE DEF t, p
<1>5. ASSUME NEW j \in 1 .. t - 1
      PROVE  /\ LimitAt(fr, j) = LimitAt(frames, j) /\ fr[j].ii = frames[j].ii
  BY <1>1, <1>5, Zenon DEF LimitAt, t
<1>6. LimitAt(fr, t) = Top.ii + 1 /\ LimitAt(frames, t) = Top.ii
  BY <1>1 DEF LimitAt, t
<1> DEFINE Passes(f, j) == j <= Len(n) /\ (\A k \in 1 .. j - 1 : n[k] = f[k].ii - 1) /\ n[j] < LimitAt(f, j)
<1>7. \A j \in 1 .. t - 1 : Passes(fr, j) <=> Passes(frames, j)
  <2>1. ASSUME NEW j \in 1 .. t - 1
        PROVE  \A k \in 1 .. j - 1 : fr[k].ii = frames[k].ii
    BY <1>1, <1>5
  <2>2. QED BY <1>5, <2>1
<1>8. Passes(fr, t) <=> Passes(frames, t) \/ IsWayTo(Candidate, n)
  <2>1. (\A k \in 1 .. t - 1 : n[k] = fr[k].ii - 1) <=> (\A k \in 1 .. t - 1 : n[k] = frames[k].ii - 1)
    BY <1>5
  <2>2. t <= Len(n) => (n[t] < Top.ii + 1 <=> n[t] < Top.ii \/ n[t] = Top.ii)
    BY <1>1, <1>2, <1>4
  <2>3. IsWayTo(Candidate, n) <=> t <= Len(n) /\ n[t] = Top.ii /\ \A k \in 1 .. t - 1 : n[k] = frames[k].ii - 1
    <3>1. 1 .. t = (1 .. t - 1) \cup {t}
      BY <1>1
    <3>2. QED BY <1>3, <3>1 DEF IsWayTo
  <2>4. QED BY <1>6, <2>1, <2>2, <2>3
<1>9. 1 .. t = (1 .. t - 1) \cup {t} /\ DOMAIN fr = 1 .. t
  BY <1>1 DEF t
<1>10. (\E j \in 1 .. t : Passes(fr, j)) <=> (\E j \in 1 .. t : Passes(frames, j)) \/ IsWayTo(Candidate, n)
  BY <1>7, <1>8, <1>9
<1>11. QED BY <1>1, <1>9, <1>10, Zenon DEF IsPassed

(* To go down to the candidate passes nothing. *)
LEMMA PassedBelow ==
    ASSUME NEW vd, IsStack(vd, frames), frames # <<>>, ~Stop, NEW fr, IsSeq(fr), Len(fr) = Len(frames) + 1,
           DOMAIN fr = 1 .. Len(frames) + 1,
           fr[Len(frames)].ii = Top.ii + 1, \A j \in 1 .. Len(frames) - 1 : fr[j] = frames[j],
           fr[Len(frames) + 1].ii = 1, NEW n \in Nodes
    PROVE  IsPassed(fr, n) <=> IsPassed(frames, n)
<1> DEFINE t == Len(frames)
<1>1. t \in Nat \ {0} /\ Top = frames[t] /\ IsFrame(Top) /\ DOMAIN frames = 1 .. t
  BY TopIs
<1>2. Top.ii \in Nat
  BY <1>1, SolverAssumption DEF IsFrame
<1>3. Len(n) \in Nat /\ \A k \in 1 .. Len(n) : n[k] \in Nat /\ n[k] >= 1
  BY NodeIs, SolverAssumption
<1> HIDE DEF t
<1>0. Len(fr) = t + 1 /\ Len(frames) = t /\ fr[t].ii = Top.ii + 1 /\ fr[t + 1].ii = 1
  BY DEF t
<1>4. ASSUME NEW j \in 1 .. t - 1
      PROVE  /\ LimitAt(fr, j) = LimitAt(frames, j) /\ fr[j].ii = frames[j].ii
  <2>1. j # t /\ j # t + 1
    BY <1>1
  <2>2. fr[j] = frames[j]
    BY DEF t
  <2>3. QED BY <1>0, <2>1, <2>2 DEF LimitAt
<1>5. LimitAt(fr, t) = LimitAt(frames, t) /\ LimitAt(fr, t + 1) = 1
  <2>1. t # t + 1 /\ (Top.ii + 1) - 1 = Top.ii
    BY <1>1, <1>2
  <2>2. LimitAt(fr, t) = (Top.ii + 1) - 1
    BY <1>0, <2>1 DEF LimitAt
  <2>3. LimitAt(frames, t) = Top.ii
    BY <1>0, <1>1 DEF LimitAt
  <2>4. QED BY <1>0, <2>1, <2>2, <2>3 DEF LimitAt
<1> DEFINE Passes(f, j) == j <= Len(n) /\ (\A k \in 1 .. j - 1 : n[k] = f[k].ii - 1) /\ n[j] < LimitAt(f, j)
<1>6. ASSUME NEW j \in 1 .. t
      PROVE  Passes(fr, j) <=> Passes(frames, j)
  <2>1. \A k \in 1 .. j - 1 : fr[k].ii = frames[k].ii
    BY <1>1, <1>4
  <2>2. LimitAt(fr, j) = LimitAt(frames, j)
    BY <1>1, <1>4, <1>5
  <2>3. QED BY <2>1, <2>2
<1>7. ~Passes(fr, t + 1)
  BY <1>1, <1>3, <1>5
<1>8. 1 .. t + 1 = (1 .. t) \cup {t + 1} /\ DOMAIN fr = 1 .. t + 1
  BY <1>1 DEF t
<1>9. (\E j \in 1 .. t + 1 : Passes(fr, j)) <=> (\E j \in 1 .. t : Passes(frames, j))
  BY <1>6, <1>7, <1>8
<1>10. QED BY <1>1, <1>8, <1>9 DEF IsPassed

(* The node of a call that is over is passed when it returns. *)
LEMMA PassedAfterReturn ==
    ASSUME NEW vd, IsStack(vd, frames), Len(frames) > 1, Stop, NEW fr, IsSeq(fr), Len(fr) = Len(frames) - 1,
           DOMAIN fr = 1 .. Len(frames) - 1,
           \A j \in 1 .. Len(frames) - 1 : fr[j].ii = frames[j].ii, NEW n \in Nodes
    PROVE  IsPassed(fr, n) <=> IsPassed(frames, n) \/ n = Top.node
<1> DEFINE t == Len(frames)
           c == Top.node
<1>0. frames # <<>>
  OBVIOUS
<1>1. /\ t \in Nat \ {0} /\ t > 1 /\ Top = frames[t] /\ IsFrame(Top) /\ Len(c) = t - 1
      /\ \A k \in 1 .. t - 1 : c[k] = frames[k].ii - 1
      /\ DOMAIN frames = 1 .. t
  BY <1>0, TopIs
<1>2. c \in Nodes /\ Top.ii \in 1 .. Width + 1 /\ (Top.ii > Width \/ t - 1 = MaxDepth)
  BY <1>1 DEF IsFrame, Stop
<1>3. /\ Len(n) \in Nat /\ Len(n) <= MaxDepth /\ \A k \in 1 .. Len(n) : n[k] \in 1 .. Width
  BY NodeIs
<1>4. \A j \in 1 .. t : frames[j].ii \in Nat
  BY <1>1, SolverAssumption DEF IsStack, IsFrame
<1> HIDE DEF t, c
<1> DEFINE Passes(f, j) == j <= Len(n) /\ (\A k \in 1 .. j - 1 : n[k] = f[k].ii - 1) /\ n[j] < LimitAt(f, j)
           onWay == \A k \in 1 .. t - 1 : n[k] = frames[k].ii - 1
<1>5. ASSUME NEW j \in 1 .. t - 2
      PROVE  Passes(fr, j) <=> Passes(frames, j)
  <2>1. LimitAt(fr, j) = LimitAt(frames, j) /\ \A k \in 1 .. j - 1 : fr[k].ii = frames[k].ii
    BY <1>1 DEF LimitAt, t
  <2>2. QED BY <2>1
<1>6. LimitAt(fr, t - 1) = frames[t - 1].ii /\ LimitAt(frames, t - 1) = frames[t - 1].ii - 1
      /\ LimitAt(frames, t) = Top.ii
  BY <1>1 DEF LimitAt, t
<1>7. Passes(fr, t - 1) <=> Passes(frames, t - 1) \/ (t - 1 <= Len(n) /\ onWay)
  <2>1. (\A k \in 1 .. (t - 1) - 1 : n[k] = fr[k].ii - 1) <=> (\A k \in 1 .. (t - 1) - 1 : n[k] = frames[k].ii - 1)
    <3>1. ASSUME NEW k \in 1 .. (t - 1) - 1
          PROVE  fr[k].ii = frames[k].ii
      BY <1>1 DEF t
    <3>2. QED BY <3>1
  <2>2. t - 1 <= Len(n) => (n[t - 1] < frames[t - 1].ii <=> n[t - 1] < frames[t - 1].ii - 1 \/ n[t - 1] = frames[t - 1].ii - 1)
    BY <1>1, <1>3, <1>4, SolverAssumption, SMTT(30)
  <2>3. 1 .. t - 1 = (1 .. (t - 1) - 1) \cup {t - 1}
    BY <1>1
  <2>4. onWay <=> (\A k \in 1 .. (t - 1) - 1 : n[k] = frames[k].ii - 1) /\ n[t - 1] = frames[t - 1].ii - 1
    BY <2>3
  <2>5. QED BY <1>6, <2>1, <2>2, <2>4
<1>8. (t - 1 <= Len(n) /\ onWay) <=> Passes(frames, t) \/ n = c
  <2>1. ASSUME t - 1 <= Len(n), onWay
        PROVE  Passes(frames, t) \/ n = c
    <3>1. CASE Len(n) = t - 1
      BY <1>1, <1>2, <2>1, <3>1, SameNode DEF c
    <3>2. CASE Len(n) # t - 1
      <4>1. t <= Len(n) /\ t - 1 # MaxDepth
        BY <1>1, <1>3, <2>1, <3>2, SolverAssumption
      <4>2. n[t] <= Width /\ Top.ii > Width /\ n[t] \in Nat /\ Top.ii \in Nat
        BY <1>1, <1>2, <1>3, <4>1, SolverAssumption
      <4>3. n[t] < LimitAt(frames, t)
        BY <1>6, <4>2, SolverAssumption
      <4>4. QED BY <2>1, <4>1, <4>3
    <3>3. QED BY <3>1, <3>2
  <2>2. ASSUME Passes(frames, t)
        PROVE  t - 1 <= Len(n) /\ onWay
    BY <1>1, <1>3, <2>2
  <2>3. ASSUME n = c
        PROVE  t - 1 <= Len(n) /\ onWay
    BY <1>1, <2>3 DEF c
  <2>4. QED BY <2>1, <2>2, <2>3
<1>9. 1 .. t = (1 .. t - 2) \cup {t - 1, t} /\ 1 .. t - 1 = (1 .. t - 2) \cup {t - 1} /\ DOMAIN fr = 1 .. t - 1
  BY <1>1 DEF t
<1>10. (\E j \in 1 .. t - 1 : Passes(fr, j)) <=> (\E j \in 1 .. t : Passes(frames, j)) \/ n = c
  BY <1>5, <1>7, <1>8, <1>9
<1>11. QED BY <1>1, <1>9, <1>10 DEF IsPassed, c

-----------------------------------------------------------------------------
(* The values of a node that are in the tree.                               *)
LEMMA ValuesAppended ==
    ASSUME NEW s \in Seq(1 .. Width), NEW x \in 1 .. Width
    PROVE  /\ Append(s, x) \in Seq(1 .. Width) /\ Append(s, x) # <<>>
           /\ Range(Append(s, x)) = Range(s) \cup {x}
           /\ (Ascends(s) /\ \A y \in Range(s) : y < x) => Ascends(Append(s, x))
<1> DEFINE r == Append(s, x)
<1>1. /\ r \in Seq(1 .. Width) /\ Len(s) \in Nat /\ DOMAIN s = 1 .. Len(s) /\ DOMAIN r = 1 .. Len(s) + 1
      /\ r[Len(s) + 1] = x /\ \A k \in 1 .. Len(s) : r[k] = s[k]
  BY AppendProperties, LenProperties
<1>2. r # <<>>
  BY AppendProperties
<1> HIDE DEF r
<1>3. 1 .. Len(s) + 1 = (1 .. Len(s)) \cup {Len(s) + 1}
  BY <1>1
<1>4. Range(r) = Range(s) \cup {x}
  BY <1>1, <1>3 DEF Range
<1>5. ASSUME Ascends(s), \A y \in Range(s) : y < x
      PROVE  Ascends(r)
  <2>1. ASSUME NEW i \in DOMAIN r, NEW j \in DOMAIN r, i < j
        PROVE  r[i] < r[j]
    <3>1. i \in 1 .. Len(s)
      BY <1>1, <2>1
    <3>2. CASE j = Len(s) + 1
      BY <1>1, <1>5, <3>1, <3>2 DEF Range
    <3>3. CASE j # Len(s) + 1
      <4>1. j \in 1 .. Len(s)
        BY <1>1, <2>1, <3>3
      <4>2. QED BY <1>1, <1>5, <2>1, <3>1, <4>1 DEF Ascends
    <3>4. QED BY <3>2, <3>3
  <2>2. QED BY <2>1 DEF Ascends
<1>6. QED BY <1>1, <1>2, <1>4, <1>5 DEF r

LEMMA HasValues ==
    ASSUME NEW s \in Seq(1 .. Width)
    PROVE  s # <<>> <=> \E v \in 1 .. Width : v \in Range(s)
<1>1. DOMAIN s = 1 .. Len(s) /\ Len(s) \in Nat /\ \A i \in 1 .. Len(s) : s[i] \in 1 .. Width
  BY LenProperties, ElementOfSeq
<1>2. ASSUME s # <<>>
      PROVE  \E v \in 1 .. Width : v \in Range(s)
  <2>1. Len(s) # 0
    BY <1>2, EmptySeq
  <2>2. 1 \in 1 .. Len(s)
    BY <1>1, <2>1
  <2>3. s[1] \in 1 .. Width /\ s[1] \in Range(s)
    BY <1>1, <2>2 DEF Range
  <2>4. QED BY <2>3
<1>3. ASSUME NEW v \in Range(s)
      PROVE  s # <<>>
  <2>1. PICK i \in 1 .. Len(s) : v = s[i]
    BY <1>1, <1>3 DEF Range
  <2>2. QED BY <1>1, <2>1, EmptySeq
<1>4. QED BY <1>2, <1>3

LEMMA FoundAsBefore ==
    ASSUME NEW vd, NEW succ, NEW fr, NEW gr, AreFound(vd, succ, fr),
           \A n \in Nodes : IsGood(vd, n) => (IsPassed(gr, n) <=> IsPassed(fr, n))
    PROVE  AreFound(vd, succ, gr)
<1>1. ASSUME NEW p \in Nodes, NEW v \in 1 .. Width
      PROVE  v \in Range(succ[p]) <=> Len(p) < MaxDepth /\ IsPassed(gr, Append(p, v)) /\ IsGood(vd, Append(p, v))
  <2>1. Len(p) < MaxDepth => Append(p, v) \in Nodes
    BY Extended
  <2>2. QED BY <1>1, <2>1 DEF AreFound
<1>2. QED BY <1>1 DEF AreFound

(* One good node more, after the other children of its predecessor. *)
IsOneMore(vd, succ, fr, p, v, s, gr) ==
    /\ p \in Nodes /\ Len(p) < MaxDepth /\ v \in 1 .. Width /\ IsGood(vd, Append(p, v))
    /\ \A n \in Nodes : IsGood(vd, n) => (IsPassed(gr, n) <=> IsPassed(fr, n) \/ n = Append(p, v))
    /\ \A y \in Range(succ[p]) : y < v
    /\ s = [succ EXCEPT ![p] = Append(@, v)]

LEMMA FoundOneMore ==
    ASSUME NEW vd, NEW succ \in [Nodes -> Seq(1 .. Width)], NEW fr, NEW gr, AreFound(vd, succ, fr),
           NEW p, NEW v, NEW s, IsOneMore(vd, succ, fr, p, v, s, gr)
    PROVE  /\ s \in [Nodes -> Seq(1 .. Width)] /\ AreFound(vd, s, gr)
           /\ s[p] # <<>> /\ \A q \in Nodes : q # p => s[q] = succ[q]
<1>0. /\ p \in Nodes /\ Len(p) < MaxDepth /\ v \in 1 .. Width /\ IsGood(vd, Append(p, v))
      /\ \A n \in Nodes : IsGood(vd, n) => (IsPassed(gr, n) <=> IsPassed(fr, n) \/ n = Append(p, v))
      /\ \A y \in Range(succ[p]) : y < v
      /\ s = [succ EXCEPT ![p] = Append(@, v)]
  BY DEF IsOneMore
<1>1. /\ Append(succ[p], v) \in Seq(1 .. Width) /\ Append(succ[p], v) # <<>>
      /\ Range(Append(succ[p], v)) = Range(succ[p]) \cup {v}
      /\ Ascends(Append(succ[p], v))
  <2>1. succ[p] \in Seq(1 .. Width) /\ Ascends(succ[p])
    BY <1>0 DEF AreFound
  <2>2. QED BY <1>0, <2>1, ValuesAppended
<1>2. /\ s \in [Nodes -> Seq(1 .. Width)] /\ s[p] = Append(succ[p], v)
      /\ \A q \in Nodes : q # p => s[q] = succ[q]
  BY <1>0, <1>1
<1>3. \A q \in Nodes : Ascends(s[q])
  BY <1>1, <1>2 DEF AreFound
<1>4. ASSUME NEW q \in Nodes, NEW w \in 1 .. Width
      PROVE  w \in Range(s[q]) <=> Len(q) < MaxDepth /\ IsPassed(gr, Append(q, w)) /\ IsGood(vd, Append(q, w))
  <2>1. Len(q) < MaxDepth =>
           /\ Append(q, w) \in Nodes
           /\ (Append(q, w) = Append(p, v)) => (q = p /\ w = v)
    <3>1. ASSUME Len(q) < MaxDepth, Append(q, w) = Append(p, v)
          PROVE  q = p /\ w = v
      <4>1. /\ Len(Append(q, w)) = Len(q) + 1 /\ Append(q, w)[Len(q) + 1] = w
            /\ \A k \in 1 .. Len(q) : Append(q, w)[k] = q[k]
        BY <3>1, Extended
      <4>2. /\ Len(Append(p, v)) = Len(p) + 1 /\ Append(p, v)[Len(p) + 1] = v
            /\ \A k \in 1 .. Len(p) : Append(p, v)[k] = p[k]
        BY <1>0, Extended
      <4>3. Len(q) \in Nat /\ Len(p) \in Nat
        BY <1>0, NodeIs
      <4>4. Len(q) = Len(p)
        BY <3>1, <4>1, <4>2, <4>3
      <4>5. \A k \in 1 .. Len(q) : q[k] = p[k]
        BY <3>1, <4>1, <4>2, <4>4
      <4>6. QED BY <1>0, <3>1, <4>1, <4>2, <4>4, <4>5, SameNode
    <3>2. QED BY <3>1, Extended
  <2>2. w \in Range(succ[q]) <=> Len(q) < MaxDepth /\ IsPassed(fr, Append(q, w)) /\ IsGood(vd, Append(q, w))
    BY DEF AreFound
  <2>3. CASE q = p /\ w = v
    <3>1. w \in Range(s[q])
      BY <1>1, <1>2, <2>3
    <3>2. IsPassed(gr, Append(q, w))
      BY <1>0, <2>1, <2>3
    <3>3. QED BY <1>0, <2>3, <3>1, <3>2
  <2>4. CASE ~(q = p /\ w = v)
    <3>1. w \in Range(s[q]) <=> w \in Range(succ[q])
      BY <1>1, <1>2, <2>4
    <3>2. QED BY <1>0, <2>1, <2>2, <2>4, <3>1
  <2>5. QED BY <2>3, <2>4
<1>5. AreFound(vd, s, gr)
  BY <1>3, <1>4 DEF AreFound
<1>6. QED BY <1>1, <1>2, <1>5

-----------------------------------------------------------------------------
(* The steps of the solver. *)
LEMMA TopAfterIs ==
    ASSUME IsFrame(Top), Top.ii <= Width, NEW found \in BOOLEAN
    PROVE  LET f == TopAfter(found) IN
           /\ IsFrame(f) /\ f.node = Top.node /\ f.ii = Top.ii + 1
           /\ f.hasSolution <=> Top.hasSolution \/ found
<1>1. Top.ii + 1 \in 1 .. Width + 1
  BY SolverAssumption DEF IsFrame
<1>2. QED BY <1>1 DEF TopAfter, IsFrame

LEMMA CandidateIs ==
    ASSUME NEW vd, IsStack(vd, frames), frames # <<>>, ~Stop
    PROVE  /\ Top.node \in Nodes /\ Top.ii \in 1 .. Width /\ Len(Top.node) < MaxDepth
           /\ Candidate \in Nodes /\ Len(Candidate) = Len(frames)
           /\ Candidate = Append(Top.node, Top.ii)
           /\ (Top.node = <<>>) = (Len(frames) = 1)
           /\ \A k \in 1 .. Len(frames) : Candidate[k] = (IF k = Len(frames) THEN Top.ii ELSE frames[k].ii - 1)
<1> DEFINE t == Len(frames)
           p == Top.node
<1>1. /\ t \in Nat \ {0} /\ IsFrame(Top) /\ Len(p) = t - 1
      /\ \A k \in 1 .. t - 1 : p[k] = frames[k].ii - 1
  BY TopIs
<1>2. p \in Nodes /\ Top.ii \in 1 .. Width /\ Len(p) < MaxDepth
  <2>1. p \in Nodes /\ Top.ii \in 1 .. Width + 1 /\ Len(p) \in Nat /\ Len(p) <= MaxDepth
    BY <1>1, NodeIs DEF IsFrame
  <2>2. QED BY <2>1, SolverAssumption DEF Stop
<1>3. /\ Candidate \in Nodes /\ Len(Candidate) = Len(p) + 1 /\ Candidate[Len(p) + 1] = Top.ii
      /\ \A k \in 1 .. Len(p) : Candidate[k] = p[k]
  BY <1>2, Extended DEF Candidate
<1> HIDE DEF t, p
<1>4. Len(p) + 1 = t
  BY <1>1
<1>5. ASSUME NEW k \in 1 .. t
      PROVE  Candidate[k] = (IF k = t THEN Top.ii ELSE frames[k].ii - 1)
  <2>1. CASE k = t
    BY <1>3, <1>4, <2>1
  <2>2. CASE k # t
    <3>1. k \in 1 .. t - 1 /\ k \in 1 .. Len(p)
      BY <1>1, <2>2
    <3>2. QED BY <1>1, <1>3, <2>2, <3>1
  <2>3. QED BY <2>1, <2>2
<1>6. (p = <<>>) = (t = 1)
  <2>1. p \in Seq(1 .. Width)
    BY <1>2, NodeIs
  <2>2. p = <<>> <=> Len(p) = 0
    BY <2>1, EmptySeq
  <2>3. QED BY <1>1, <2>2
<1>7. QED BY <1>2, <1>3, <1>4, <1>5, <1>6 DEF p, t, Candidate

(* The stack whose top goes on to the next value. *)
LEMMA NextValue ==
    ASSUME NEW vd, IsStack(vd, frames), frames # <<>>, ~Stop, NEW found \in BOOLEAN
    PROVE  LET fr == Append(Front(frames), TopAfter(found)) IN
           /\ IsStack(vd, fr) /\ fr # <<>> /\ Len(fr) = Len(frames) /\ DOMAIN fr = 1 .. Len(frames)
           /\ fr[Len(frames)] = TopAfter(found)
           /\ \A j \in 1 .. Len(frames) - 1 : fr[j] = frames[j]
           /\ \A n \in Nodes : IsPassed(fr, n) <=> IsPassed(frames, n) \/ IsWayTo(Candidate, n)
<1> DEFINE t == Len(frames)
           f == TopAfter(found)
           fr == Append(Front(frames), f)
<1>1. /\ t \in Nat \ {0} /\ Top = frames[t] /\ IsFrame(Top) /\ Len(Top.node) = t - 1 /\ IsOpen(vd, Top.node)
      /\ \A k \in 1 .. t - 1 : Top.node[k] = frames[k].ii - 1
      /\ DOMAIN frames = 1 .. t
  BY TopIs
<1>2. IsSeq(fr) /\ Len(fr) = t /\ DOMAIN fr = 1 .. t /\ fr[t] = f /\ \A j \in 1 .. t - 1 : fr[j] = frames[j]
  <2>1. IsSeq(frames)
    BY DEF IsStack
  <2>2. PICK x : x = f
    OBVIOUS
  <2>3. LET r == Append(Front(frames), x) IN
        /\ IsSeq(r) /\ Len(r) = Len(frames) /\ DOMAIN r = 1 .. Len(frames) /\ r[Len(frames)] = x
        /\ \A j \in 1 .. Len(frames) - 1 : r[j] = frames[j]
    BY <2>1, TopReplaced
  <2>4. QED BY <2>2, <2>3
<1>3. IsFrame(f) /\ f.node = Top.node /\ f.ii = Top.ii + 1
  <2>1. Top.ii <= Width
    BY CandidateIs
  <2>2. QED BY <1>1, <2>1, TopAfterIs, Zenon
<1>4. fr # <<>>
  BY <1>1, <1>2, EmptySeq, Zenon
<1>5. \A n \in Nodes : IsPassed(fr, n) <=> IsPassed(frames, n) \/ IsWayTo(Candidate, n)
  BY <1>2, <1>3, PassedAfterCandidate
<1> HIDE DEF fr, f, t
<1>6. ASSUME NEW j \in 1 .. t
      PROVE  /\ IsFrame(fr[j]) /\ Len(fr[j].node) = j - 1 /\ IsOpen(vd, fr[j].node)
             /\ \A k \in 1 .. j - 1 : fr[j].node[k] = fr[k].ii - 1
  <2>1. \A k \in 1 .. j - 1 : fr[k] = frames[k]
    BY <1>1, <1>2
  <2>2. CASE j = t
    BY <1>1, <1>2, <1>3, <2>1, <2>2
  <2>3. CASE j # t
    <3>1. fr[j] = frames[j] /\ j \in DOMAIN frames
      BY <1>1, <1>2, <2>3
    <3>2. /\ IsFrame(frames[j]) /\ Len(frames[j].node) = j - 1 /\ IsOpen(vd, frames[j].node)
          /\ \A k \in 1 .. j - 1 : frames[j].node[k] = frames[k].ii - 1
      BY <3>1 DEF IsStack
    <3>3. QED BY <2>1, <3>1, <3>2
  <2>4. QED BY <2>2, <2>3
<1>7. IsStack(vd, fr)
  BY <1>2, <1>6 DEF IsStack
<1>8. QED BY <1>2, <1>4, <1>5, <1>7 DEF fr, f, t

LEMMA ApplyStep ==
    ASSUME SolverIsSound, Apply
    PROVE  SolverIsSound'
<1>1. PICK fr : fr = frames'
  OBVIOUS
<1>2. PICK succ : succ = successors'
  OBVIOUS
<1>3. fr = <<Call(<<>>)>> /\ succ = [n \in Nodes |-> <<>>] /\ verdict' = verdict
  BY <1>1, <1>2 DEF Apply
<1>4. IsSeq(fr) /\ fr # <<>> /\ DOMAIN fr = {1} /\ Len(fr) = 1 /\ fr[1] = Call(<<>>)
  <2>1. fr \in Seq({Call(<<>>)})
    BY <1>3
  <2>2. fr # <<>> /\ DOMAIN fr = {1} /\ Len(fr) = 1 /\ fr[1] = Call(<<>>)
    BY <1>3
  <2>3. IsSeq(fr)
    BY <2>1 DEF IsSeq
  <2>4. QED BY <2>2, <2>3
<1>5. succ \in [Nodes -> Seq(1 .. Width)]
  BY <1>3
<1>6. <<>> \in Nodes
  <2>1. <<>> \in Seq(1 .. Width) /\ Len(<<>>) = 0
    BY EmptySeq
  <2>2. PICK e : e = <<>>
    OBVIOUS
  <2>3. e \in Seq(1 .. Width) /\ Len(e) <= MaxDepth
    BY <2>1, <2>2, SolverAssumption
  <2>4. e \in Nodes
    BY <2>3, NodesAreSequences
  <2>5. QED BY <2>2, <2>4
<1>7. IsFrame(fr[1]) /\ fr[1].node = <<>> /\ fr[1].ii = 1 /\ fr[1].hasSolution = FALSE
  BY <1>4, <1>6, SolverAssumption DEF IsFrame, Call
<1>8. IsOpen(verdict, <<>>)
  <2>1. ASSUME NEW m \in Nodes, Len(m) >= 2, IsWayTo(m, <<>>)
        PROVE  FALSE
    BY <2>1, NodeIs DEF IsWayTo
  <2>2. QED BY <2>1 DEF IsOpen
<1>9. IsStack(verdict, fr)
  BY <1>4, <1>7, <1>8 DEF IsStack
<1>10. KnowSolutions(succ, fr)
  BY <1>3, <1>4, <1>6, <1>7 DEF KnowSolutions
<1>11. AreFound(verdict, succ, fr)
  <2>1. ASSUME NEW n \in Nodes
        PROVE  ~IsPassed(fr, n)
    <3>1. LimitAt(fr, 1) = 1
      BY <1>4, <1>7 DEF LimitAt
    <3>2. 1 <= Len(n) => n[1] >= 1
      BY NodeIs, SolverAssumption
    <3>3. QED BY <1>4, <3>1, <3>2, NodeIs, SolverAssumption DEF IsPassed
  <2>2. ASSUME NEW p \in Nodes
        PROVE  Ascends(succ[p]) /\ Range(succ[p]) = {}
    BY <1>3 DEF Ascends, Range
  <2>3. \A p \in Nodes : \A v \in 1 .. Width : Len(p) < MaxDepth => Append(p, v) \in Nodes
    BY Extended
  <2>4. QED BY <2>1, <2>2, <2>3 DEF AreFound
<1>12. QED BY <1>1, <1>2, <1>3, <1>4, <1>5, <1>9, <1>10, <1>11 DEF SolverIsSound

LEMMA RejectStep ==
    ASSUME SolverIsSound, Reject
    PROVE  SolverIsSound'
<1> DEFINE t == Len(frames)
<1>1. PICK fr : fr = frames'
  OBVIOUS
<1>2. /\ fr = Append(Front(frames), TopAfter(FALSE)) /\ UNCHANGED <<verdict, successors>>
      /\ frames # <<>> /\ ~Stop /\ Top.node # <<>> /\ "reject" \in verdict[Candidate]
  BY <1>1 DEF Reject, Rejected
<1>3. /\ successors \in [Nodes -> Seq(1 .. Width)] /\ IsStack(verdict, frames)
      /\ KnowSolutions(successors, frames) /\ AreFound(verdict, successors, frames)
  BY <1>2 DEF SolverIsSound
<1>4. /\ IsStack(verdict, fr) /\ fr # <<>> /\ DOMAIN fr = 1 .. t /\ fr[t] = TopAfter(FALSE)
      /\ \A j \in 1 .. t - 1 : fr[j] = frames[j]
      /\ \A n \in Nodes : IsPassed(fr, n) <=> IsPassed(frames, n) \/ IsWayTo(Candidate, n)
  BY <1>2, <1>3, NextValue
<1>5. t \in Nat \ {0} /\ Top = frames[t] /\ IsFrame(Top) /\ DOMAIN frames = 1 .. t
  BY <1>2, <1>3, TopIs
<1>6. Candidate \in Nodes /\ Len(Candidate) = t /\ t # 1 /\ Top.ii <= Width
  <2>1. (Top.node = <<>>) = (t = 1) /\ Candidate \in Nodes /\ Len(Candidate) = t /\ Top.ii \in 1 .. Width
    BY <1>2, <1>3, CandidateIs
  <2>2. QED BY <1>2, <2>1
<1>7. fr[t].node = Top.node /\ (fr[t].hasSolution <=> Top.hasSolution)
  <2>1. LET f == TopAfter(FALSE) IN f.node = Top.node /\ (f.hasSolution <=> Top.hasSolution \/ FALSE)
    BY <1>5, <1>6, TopAfterIs
  <2>2. QED BY <1>4, <2>1
<1> HIDE DEF t
<1>8. KnowSolutions(successors, fr)
  <2>1. ASSUME NEW j \in 1 .. t
        PROVE  fr[j].hasSolution <=> successors[fr[j].node] # <<>>
    <3>1. frames[j].hasSolution <=> successors[frames[j].node] # <<>>
      BY <1>3, <1>5 DEF KnowSolutions
    <3>2. CASE j = t
      BY <1>5, <1>7, <3>1, <3>2
    <3>3. CASE j # t
      <4>1. j \in 1 .. t - 1
        BY <1>5, <3>3
      <4>2. QED BY <1>4, <3>1, <4>1
    <3>4. QED BY <3>2, <3>3
  <2>2. QED BY <1>4, <2>1 DEF KnowSolutions
<1>9. AreFound(verdict, successors, fr)
  <2>1. ASSUME NEW n \in Nodes, IsWayTo(Candidate, n)
        PROVE  ~IsGood(verdict, n)
    <3>1. IsJudged(verdict, Candidate) /\ Len(Candidate) >= 2
      BY <1>2, <1>5, <1>6 DEF IsJudged
    <3>2. QED BY <1>2, <1>6, <2>1, <3>1, JudgedEnds
  <2>2. \A n \in Nodes : IsGood(verdict, n) => (IsPassed(fr, n) <=> IsPassed(frames, n))
    BY <1>4, <2>1
  <2>3. QED BY <1>3, <2>2, FoundAsBefore
<1>10. QED BY <1>1, <1>2, <1>3, <1>4, <1>8, <1>9 DEF SolverIsSound

LEMMA AcceptStep ==
    ASSUME SolverIsSound, Accept
    PROVE  SolverIsSound'
<1> DEFINE t == Len(frames)
           p == Top.node
           v == Top.ii
<1>1. PICK fr, succ : fr = frames' /\ succ = successors'
  OBVIOUS
<1>2. /\ fr = Append(Front(frames), TopAfter(TRUE)) /\ verdict' = verdict
      /\ succ = [successors EXCEPT ![p] = Append(@, v)]
      /\ frames # <<>> /\ ~Stop /\ p # <<>>
      /\ "reject" \notin verdict[Candidate] /\ "accept" \in verdict[Candidate]
  BY <1>1 DEF Accept, Accepted, Rejected
<1>3. /\ successors \in [Nodes -> Seq(1 .. Width)] /\ IsStack(verdict, frames)
      /\ KnowSolutions(successors, frames) /\ AreFound(verdict, successors, frames)
  BY <1>2 DEF SolverIsSound
<1>4. /\ IsStack(verdict, fr) /\ fr # <<>> /\ DOMAIN fr = 1 .. t /\ fr[t] = TopAfter(TRUE)
      /\ \A j \in 1 .. t - 1 : fr[j] = frames[j]
      /\ \A n \in Nodes : IsPassed(fr, n) <=> IsPassed(frames, n) \/ IsWayTo(Candidate, n)
  BY <1>2, <1>3, NextValue
<1>5. /\ t \in Nat \ {0} /\ Top = frames[t] /\ IsFrame(Top) /\ DOMAIN frames = 1 .. t
      /\ Len(p) = t - 1 /\ IsOpen(verdict, p)
  BY <1>2, <1>3, TopIs
<1>6. /\ Candidate \in Nodes /\ Len(Candidate) = t /\ t # 1 /\ p \in Nodes /\ v \in 1 .. Width /\ Len(p) < MaxDepth
      /\ Candidate = Append(p, v)
  <2>1. /\ (p = <<>>) = (t = 1) /\ Candidate \in Nodes /\ Len(Candidate) = t /\ v \in 1 .. Width
        /\ p \in Nodes /\ Len(p) < MaxDepth /\ Candidate = Append(p, v)
    BY <1>2, <1>3, CandidateIs
  <2>2. QED BY <1>2, <2>1
<1>7. fr[t].node = p /\ fr[t].hasSolution
  <2>1. v <= Width
    BY <1>6, SolverAssumption
  <2>2. LET f == TopAfter(TRUE) IN f.node = Top.node /\ (f.hasSolution <=> Top.hasSolution \/ TRUE)
    BY <1>5, <2>1, TopAfterIs, Zenon
  <2>3. QED BY <1>4, <2>2, Zenon
<1> HIDE DEF t, p, v
<1>8. IsSolution(verdict, Candidate)
  <2>1. Len(p) >= 1
    BY <1>5, <1>6
  <2>2. QED BY <1>2, <1>5, <1>6, <2>1, Candidates
<1>9. IsGood(verdict, Candidate)
  <2>1. IsWayTo(Candidate, Candidate)
    BY <1>5, <1>6 DEF IsWayTo
  <2>2. QED BY <1>6, <1>8, <2>1 DEF IsGood
<1>10. ASSUME NEW n \in Nodes, IsGood(verdict, n)
       PROVE  IsPassed(fr, n) <=> IsPassed(frames, n) \/ n = Candidate
  <2>1. IsWayTo(Candidate, n) => n = Candidate
    <3>1. ASSUME IsWayTo(Candidate, n), Len(n) # Len(Candidate)
          PROVE  FALSE
      <4>1. IsJudged(verdict, Candidate) /\ Len(Candidate) >= 2
        BY <1>2, <1>5, <1>6 DEF IsJudged
      <4>2. QED BY <1>6, <1>10, <3>1, <4>1, JudgedEnds
    <3>2. ASSUME IsWayTo(Candidate, n), Len(n) = Len(Candidate)
          PROVE  n = Candidate
      BY <1>6, <3>2, SameNode DEF IsWayTo
    <3>3. QED BY <3>1, <3>2
  <2>2. n = Candidate => IsWayTo(Candidate, n)
    BY <1>5, <1>6 DEF IsWayTo
  <2>3. QED BY <1>4, <2>1, <2>2
<1>11. \A y \in Range(successors[p]) : y < v
  <2>1. ASSUME NEW y \in Range(successors[p])
        PROVE  y < v
    <3>1. y \in 1 .. Width
      <4>1. successors[p] \in Seq(1 .. Width)
        BY <1>3, <1>6
      <4>2. \A i \in DOMAIN successors[p] : successors[p][i] \in 1 .. Width
        BY <4>1, LenProperties, ElementOfSeq
      <4>3. QED BY <4>2 DEF Range
    <3>2. IsPassed(frames, Append(p, y))
      BY <1>3, <1>6, <3>1 DEF AreFound
    <3>3. t \in DOMAIN frames /\ LimitAt(frames, t) = v
      BY <1>5 DEF LimitAt, t, v
    <3>4. frames[t].node = p
      BY <1>5 DEF p
    <3>5. IsPassed(frames, Append(frames[t].node, y)) <=> y < LimitAt(frames, t)
      BY <1>3, <1>6, <3>1, <3>3, <3>4, PassedOnTheWay
    <3>6. QED BY <3>2, <3>3, <3>4, <3>5
  <2>2. QED BY <2>1
<1>12. /\ succ \in [Nodes -> Seq(1 .. Width)] /\ AreFound(verdict, succ, fr)
       /\ succ[p] # <<>> /\ \A q \in Nodes : q # p => succ[q] = successors[q]
  <2>1. \A n \in Nodes : IsGood(verdict, n) => (IsPassed(fr, n) <=> IsPassed(frames, n) \/ n = Append(p, v))
    BY <1>6, <1>10
  <2>2. IsGood(verdict, Append(p, v)) /\ AreFound(verdict, successors, frames)
    BY <1>3, <1>6, <1>9
  <2>3. succ = [successors EXCEPT ![p] = Append(@, v)]
    BY <1>2 DEF p, v
  <2>4. IsOneMore(verdict, successors, frames, p, v, succ, fr)
    BY <1>6, <1>11, <2>1, <2>2, <2>3 DEF IsOneMore
  <2>5. QED BY <1>3, <2>4, FoundOneMore
<1>13. KnowSolutions(succ, fr)
  <2>1. ASSUME NEW j \in 1 .. t
        PROVE  fr[j].hasSolution <=> succ[fr[j].node] # <<>>
    <3>1. CASE j = t
      BY <1>7, <1>12, <3>1
    <3>2. CASE j # t
      <4>1. fr[j] = frames[j] /\ j \in DOMAIN frames
        BY <1>4, <1>5, <3>2
      <4>2. frames[j].hasSolution <=> successors[frames[j].node] # <<>>
        BY <1>3, <4>1 DEF KnowSolutions
      <4>3. frames[j].node \in Nodes /\ Len(frames[j].node) = j - 1
        BY <1>3, <4>1 DEF IsStack, IsFrame
      <4>4. frames[j].node # p
        BY <1>5, <3>2, <4>3
      <4>5. QED BY <1>12, <4>1, <4>2, <4>3, <4>4
    <3>3. QED BY <3>1, <3>2
  <2>2. QED BY <1>4, <2>1 DEF KnowSolutions
<1>14. QED BY <1>1, <1>2, <1>4, <1>12, <1>13 DEF SolverIsSound

LEMMA ExploreSolutionsStep ==
    ASSUME SolverIsSound, ExploreSolutions
    PROVE  SolverIsSound'
<1> DEFINE t == Len(frames)
<1>1. PICK fr, gr, c : fr = frames' /\ gr = Append(Front(frames), TopAfter(FALSE)) /\ c = Candidate
  OBVIOUS
<1>2. /\ fr = Append(gr, Call(c)) /\ UNCHANGED <<verdict, successors>>
      /\ frames # <<>> /\ ~Stop /\ (Top.node # <<>> => ~IsJudged(verdict, c))
  BY <1>1 DEF ExploreSolutions, Rejected, Accepted, IsJudged
<1>3. /\ successors \in [Nodes -> Seq(1 .. Width)] /\ IsStack(verdict, frames)
      /\ KnowSolutions(successors, frames) /\ AreFound(verdict, successors, frames)
  BY <1>2 DEF SolverIsSound
<1>4. /\ IsStack(verdict, gr) /\ gr # <<>> /\ Len(gr) = t /\ DOMAIN gr = 1 .. t /\ gr[t] = TopAfter(FALSE)
      /\ \A j \in 1 .. t - 1 : gr[j] = frames[j]
  BY <1>1, <1>2, <1>3, NextValue
<1>5. /\ t \in Nat \ {0} /\ Top = frames[t] /\ IsFrame(Top) /\ DOMAIN frames = 1 .. t
      /\ Len(Top.node) = t - 1 /\ IsOpen(verdict, Top.node)
  BY <1>2, <1>3, TopIs
<1>6. /\ c \in Nodes /\ Len(c) = t /\ Top.node \in Nodes /\ Len(Top.node) < MaxDepth /\ Top.ii \in 1 .. Width
      /\ c = Append(Top.node, Top.ii) /\ (Top.node = <<>>) = (t = 1)
      /\ \A k \in 1 .. t : c[k] = (IF k = t THEN Top.ii ELSE frames[k].ii - 1)
  BY <1>1, <1>2, <1>3, CandidateIs
<1>7. gr[t].node = Top.node /\ (gr[t].hasSolution <=> Top.hasSolution) /\ gr[t].ii = Top.ii + 1
  <2>1. Top.ii <= Width
    BY <1>6, SolverAssumption
  <2>2. LET f == TopAfter(FALSE) IN f.node = Top.node /\ f.ii = Top.ii + 1 /\ (f.hasSolution <=> Top.hasSolution \/ FALSE)
    BY <1>5, <2>1, TopAfterIs, Zenon
  <2>3. QED BY <1>4, <2>2, Zenon
<1> HIDE DEF t
<1>8. IsOpen(verdict, c)
  <2>1. Len(Top.node) >= 1 => ~IsJudged(verdict, Append(Top.node, Top.ii))
    <3>1. ASSUME Len(Top.node) >= 1
          PROVE  Top.node # <<>>
      <4>1. t # 1
        BY <1>5, <3>1
      <4>2. QED BY <1>6, <4>1
    <3>2. QED BY <1>2, <1>6, <3>1
  <2>2. QED BY <1>5, <1>6, <2>1, Candidates
<1>9. /\ IsSeq(fr) /\ Len(fr) = t + 1 /\ DOMAIN fr = 1 .. t + 1 /\ fr[t + 1] = Call(c)
      /\ \A j \in 1 .. t : fr[j] = gr[j]
  <2>1. IsSeq(gr)
    BY <1>4 DEF IsStack
  <2>2. /\ IsSeq(Append(gr, Call(c))) /\ DOMAIN Append(gr, Call(c)) = 1 .. Len(gr) + 1
        /\ Append(gr, Call(c))[Len(gr) + 1] = Call(c)
        /\ \A n \in 1 .. Len(gr) : Append(gr, Call(c))[n] = gr[n]
    BY <2>1, Appended
  <2>3. IsSeq(fr) /\ DOMAIN fr = 1 .. t + 1 /\ fr[t + 1] = Call(c) /\ \A j \in 1 .. t : fr[j] = gr[j]
    BY <1>2, <1>4, <2>2
  <2>4. Len(fr) = t + 1
    BY <1>5, <2>3, LenProperties DEF IsSeq
  <2>5. QED BY <2>3, <2>4
<1>10. fr[t + 1].node = c /\ fr[t + 1].ii = 1 /\ fr[t + 1].hasSolution = FALSE /\ IsFrame(fr[t + 1])
  BY <1>6, <1>9, SolverAssumption DEF Call, IsFrame
<1>11. IsStack(verdict, fr)
  <2>1. ASSUME NEW j \in 1 .. t + 1
        PROVE  /\ IsFrame(fr[j]) /\ Len(fr[j].node) = j - 1 /\ IsOpen(verdict, fr[j].node)
               /\ \A k \in 1 .. j - 1 : fr[j].node[k] = fr[k].ii - 1
    <3>1. CASE j = t + 1
      <4>1. Len(c) = j - 1 /\ j - 1 = t
        BY <1>5, <1>6, <3>1
      <4>2. ASSUME NEW k \in 1 .. t
            PROVE  c[k] = fr[k].ii - 1
        <5>1. CASE k = t
          BY <1>6, <1>7, <1>9, <5>1
        <5>2. CASE k # t
          <6>1. k \in 1 .. t - 1
            BY <1>5, <5>2
          <6>2. QED BY <1>4, <1>6, <1>9, <5>2, <6>1
        <5>3. QED BY <5>1, <5>2
      <4>3. QED BY <1>8, <1>10, <3>1, <4>1, <4>2
    <3>2. CASE j # t + 1
      <4>1. j \in 1 .. t /\ \A k \in 1 .. j - 1 : k \in 1 .. t
        BY <1>5, <3>2
      <4>2. fr[j] = gr[j] /\ \A k \in 1 .. j - 1 : fr[k] = gr[k]
        BY <1>9, <4>1
      <4>3. /\ IsFrame(gr[j]) /\ Len(gr[j].node) = j - 1 /\ IsOpen(verdict, gr[j].node)
            /\ \A k \in 1 .. j - 1 : gr[j].node[k] = gr[k].ii - 1
        BY <1>4, <4>1 DEF IsStack
      <4>4. QED BY <4>2, <4>3
    <3>3. QED BY <3>1, <3>2
  <2>2. QED BY <1>9, <2>1 DEF IsStack
<1>12. \A n \in Nodes : IsPassed(fr, n) <=> IsPassed(frames, n)
  <2>1. fr[t].ii = Top.ii + 1 /\ \A j \in 1 .. t - 1 : fr[j] = frames[j]
    <3>1. t \in 1 .. t /\ \A j \in 1 .. t - 1 : j \in 1 .. t
      BY <1>5
    <3>2. QED BY <1>4, <1>7, <1>9, <3>1
  <2>2. QED BY <1>2, <1>3, <1>9, <1>10, <2>1, PassedBelow DEF t
<1>13. AreFound(verdict, successors, fr)
  BY <1>3, <1>12, FoundAsBefore
<1>14. KnowSolutions(successors, fr)
  <2>1. successors[c] = <<>>
    <3>1. ASSUME NEW v \in 1 .. Width, v \in Range(successors[c])
          PROVE  FALSE
      <4>1. Len(c) < MaxDepth /\ IsPassed(fr, Append(c, v))
        BY <1>6, <1>13, <3>1 DEF AreFound
      <4>2. t + 1 \in DOMAIN fr /\ LimitAt(fr, t + 1) = 1
        BY <1>5, <1>9, <1>10 DEF LimitAt
      <4>3. v < 1
        BY <1>10, <1>11, <4>1, <4>2, PassedOnTheWay
      <4>4. QED BY <4>3, SolverAssumption
    <3>2. successors[c] \in Seq(1 .. Width)
      BY <1>3, <1>6
    <3>3. QED BY <3>1, <3>2, HasValues
  <2>2. ASSUME NEW j \in 1 .. t + 1
        PROVE  fr[j].hasSolution <=> successors[fr[j].node] # <<>>
    <3>1. CASE j = t + 1
      BY <1>10, <2>1, <3>1
    <3>2. CASE j = t
      <4>1. frames[t].hasSolution <=> successors[frames[t].node] # <<>>
        BY <1>3, <1>5 DEF KnowSolutions
      <4>2. fr[j] = gr[t]
        BY <1>5, <1>9, <3>2
      <4>3. QED BY <1>5, <1>7, <4>1, <4>2
    <3>3. CASE j # t /\ j # t + 1
      <4>1. j \in 1 .. t - 1 /\ j \in 1 .. t
        BY <1>5, <3>3
      <4>2. frames[j].hasSolution <=> successors[frames[j].node] # <<>>
        BY <1>3, <1>5, <4>1 DEF KnowSolutions
      <4>3. fr[j] = frames[j]
        BY <1>4, <1>9, <4>1
      <4>4. QED BY <4>2, <4>3
    <3>4. QED BY <3>1, <3>2, <3>3
  <2>3. QED BY <1>9, <2>2 DEF KnowSolutions
<1>15. fr # <<>>
  BY <1>5, <1>9
<1>16. QED BY <1>1, <1>2, <1>3, <1>11, <1>13, <1>14, <1>15 DEF SolverIsSound

LEMMA SameSequence ==
    ASSUME NEW s, NEW r, IsSeq(s), IsSeq(r), Len(s) = Len(r), \A k \in 1 .. Len(s) : s[k] = r[k]
    PROVE  s = r
<1>1. PICK S : s \in Seq(S)
  BY DEF IsSeq
<1>2. PICK R : r \in Seq(R)
  BY DEF IsSeq
<1>3. s \in Seq(S \cup R) /\ r \in Seq(S \cup R)
  BY <1>1, <1>2, SeqMonotonic
<1>4. QED BY <1>3, SeqEqual

(* The call that returns, and the one that made it. *)
LEMMA CallerIs ==
    ASSUME NEW vd, IsStack(vd, frames), Len(frames) > 1, frames # <<>>
    PROVE  LET u == Len(frames) - 1
               p == frames[u].node
               v == frames[u].ii - 1
           IN /\ u \in Nat \ {0} /\ u \in DOMAIN frames /\ p \in Nodes /\ Len(p) < MaxDepth /\ v \in 1 .. Width
              /\ Append(p, v) = Top.node /\ Front(Top.node) = p /\ Last(Top.node) = v
<1> DEFINE u == Len(frames) - 1
           p == frames[u].node
           v == frames[u].ii - 1
           c == Top.node
<1>1. /\ Len(frames) \in Nat \ {0} /\ IsFrame(Top) /\ Len(c) = u /\ DOMAIN frames = 1 .. Len(frames)
      /\ \A k \in 1 .. u : c[k] = frames[k].ii - 1
  BY TopIs
<1>2. u \in Nat \ {0} /\ u \in DOMAIN frames
  <2>1. PICK l \in Nat \ {0} : l = Len(frames) /\ DOMAIN frames = 1 .. l
    BY <1>1, Zenon
  <2>2. l - 1 \in Nat \ {0} /\ l - 1 \in 1 .. l
    BY <2>1
  <2>3. QED BY <2>1, <2>2
<1>3. c \in Nodes
  BY <1>1, Zenon DEF IsFrame
<1>4. /\ p \in Nodes /\ Len(p) = u - 1 /\ \A k \in 1 .. u - 1 : p[k] = frames[k].ii - 1
  BY <1>2 DEF IsStack, IsFrame
<1> HIDE DEF u, p, c
<1>5. c \in Seq(1 .. Width) /\ Len(c) <= MaxDepth /\ \A k \in 1 .. u : c[k] \in 1 .. Width
  BY <1>1, <1>3, NodeIs
<1>6. v \in 1 .. Width /\ c[u] = v
  BY <1>1, <1>2, <1>5
<1>7. Len(p) < MaxDepth
  BY <1>1, <1>2, <1>4, <1>5, SolverAssumption
<1>8. Append(p, v) = c
  <2>1. /\ Append(p, v) \in Nodes /\ Len(Append(p, v)) = Len(p) + 1 /\ Append(p, v)[Len(p) + 1] = v
        /\ \A k \in 1 .. Len(p) : Append(p, v)[k] = p[k]
    BY <1>4, <1>6, <1>7, Extended
  <2> HIDE DEF v
  <2>2. Len(Append(p, v)) = u /\ Append(p, v)[u] = v
    BY <1>2, <1>4, <2>1
  <2>3. ASSUME NEW k \in 1 .. u
        PROVE  Append(p, v)[k] = c[k]
    <3>1. CASE k = u
      BY <1>6, <2>2, <3>1
    <3>2. CASE k # u
      <4>1. k \in 1 .. u - 1 /\ k \in 1 .. Len(p)
        BY <1>2, <1>4, <3>2
      <4>2. QED BY <1>1, <1>4, <2>1, <4>1
    <3>3. QED BY <3>1, <3>2
  <2>4. QED BY <1>1, <1>3, <2>1, <2>2, <2>3, SameNode
<1>9. Front(c) = p /\ Last(c) = v
  <2>1. IsSeq(c) /\ c # <<>> /\ IsSeq(p)
    <3>1. p \in Seq(1 .. Width)
      BY <1>4, NodeIs
    <3>2. c # <<>>
      BY <1>1, <1>2, EmptySeq
    <3>3. QED BY <1>5, <3>1, <3>2 DEF IsSeq
  <2>2. /\ Last(c) = c[Len(c)] /\ IsSeq(Front(c)) /\ Len(Front(c)) = Len(c) - 1
        /\ \A j \in 1 .. Len(c) - 1 : Front(c)[j] = c[j]
    BY <2>1, FrontAndLast
  <2>3. Len(Front(c)) = Len(p)
    BY <1>1, <1>4, <2>2
  <2>4. ASSUME NEW k \in 1 .. Len(Front(c))
        PROVE  Front(c)[k] = p[k]
    <3>1. k \in 1 .. u - 1 /\ k \in 1 .. u
      BY <1>1, <1>2, <2>2
    <3>2. QED BY <1>1, <1>4, <2>2, <3>1
  <2>5. Front(c) = p
    BY <2>1, <2>2, <2>3, <2>4, SameSequence
  <2>6. QED BY <1>1, <1>6, <2>2, <2>5
<1>10. QED BY <1>2, <1>4, <1>6, <1>7, <1>8, <1>9 DEF u, p, c

(* A call that is over has a solution when its node is on the way to one. *)
LEMMA KnownWhenOver ==
    ASSUME NEW vd, NEW succ \in [Nodes -> Seq(1 .. Width)], IsStack(vd, frames), Len(frames) > 1, frames # <<>>, Stop,
           KnowSolutions(succ, frames), AreFound(vd, succ, frames)
    PROVE  IsGood(vd, Top.node) <=> Top.hasSolution
<1> DEFINE t == Len(frames)
           c == Top.node
<1>1. /\ t \in Nat \ {0} /\ IsFrame(Top) /\ Len(c) = t - 1 /\ DOMAIN frames = 1 .. t
      /\ Top = frames[t] /\ IsOpen(vd, c)
  BY TopIs
<1>2. c \in Nodes /\ Top.ii \in 1 .. Width + 1 /\ (Top.ii > Width \/ Len(c) = MaxDepth)
  BY <1>1, ZenonT(40) DEF IsFrame, Stop
<1>3. t \in DOMAIN frames /\ frames[t].node = c /\ LimitAt(frames, t) = Top.ii
  <2>1. t \in DOMAIN frames /\ frames[t].node = c
    <3>1. PICK l \in Nat \ {0} : l = t /\ DOMAIN frames = 1 .. l
      BY <1>1, Zenon
    <3>2. l \in DOMAIN frames
      BY <3>1
    <3>3. frames[t].node = c
      BY <1>1, Zenon
    <3>4. QED BY <3>1, <3>2, <3>3
  <2>2. LimitAt(frames, t) = frames[t].ii
    BY DEF LimitAt
  <2>3. QED BY <1>1, <2>1, <2>2, Zenon
<1>4. Top.hasSolution <=> succ[c] # <<>>
  BY <1>1, <1>3, Zenon DEF KnowSolutions
<1> HIDE DEF t, c
<1>5. succ[c] # <<>> <=> \E v \in 1 .. Width : v \in Range(succ[c])
  <2>1. succ[c] \in Seq(1 .. Width)
    BY <1>2
  <2>2. QED BY <2>1, HasValues
<1>6. ASSUME NEW v \in 1 .. Width
      PROVE  v \in Range(succ[c]) <=> Len(c) < MaxDepth /\ IsGood(vd, Append(c, v))
  <2>1. v \in Range(succ[c]) <=> Len(c) < MaxDepth /\ IsPassed(frames, Append(c, v)) /\ IsGood(vd, Append(c, v))
    BY <1>2 DEF AreFound
  <2>2. ASSUME Len(c) < MaxDepth
        PROVE  IsPassed(frames, Append(c, v))
    <3>1. Top.ii > Width
      BY <1>2, <2>2, SolverAssumption, NodeIs
    <3>2. v < LimitAt(frames, t)
      BY <1>2, <1>3, <3>1, SolverAssumption
    <3>3. QED BY <1>3, <2>2, <3>2, PassedOnTheWay
  <2>3. QED BY <2>1, <2>2
<1>7. ~IsSolution(vd, c)
  <2>1. ASSUME IsSolution(vd, c)
        PROVE  FALSE
    <3>1. Len(c) >= 2 /\ IsWayTo(c, c) /\ IsJudged(vd, c)
      BY <1>2, <2>1, NodeIs DEF IsSolution, IsWayTo, IsJudged
    <3>2. QED BY <1>1, <1>2, <3>1 DEF IsOpen
  <2>2. QED BY <2>1
<1>8. IsGood(vd, c) <=> \E v \in 1 .. Width : Len(c) < MaxDepth /\ IsGood(vd, Append(c, v))
  BY <1>2, <1>7, GoodOnes
<1>9. QED BY <1>4, <1>5, <1>6, <1>8 DEF c

LEMMA ReturnStep ==
    ASSUME SolverIsSound, Return
    PROVE  SolverIsSound'
<1> DEFINE t == Len(frames)
           u == t - 1
           p == frames[u].node
           v == frames[u].ii - 1
           c == Top.node
           caller == Front(frames)
<1>1. PICK fr, succ, has : fr = frames' /\ succ = successors' /\ has = Top.hasSolution
  OBVIOUS
<1>2. verdict' = verdict /\ t > 1 /\ Stop
  BY DEF Return
<1>3. /\ has => /\ succ = [successors EXCEPT ![Front(c)] = Append(@, Last(c))]
                /\ fr = [caller EXCEPT ![Len(caller)].hasSolution = TRUE]
      /\ ~has => fr = caller /\ succ = successors
  BY <1>1 DEF Return, IsAdded
<1>4. /\ successors \in [Nodes -> Seq(1 .. Width)] /\ IsStack(verdict, frames)
      /\ KnowSolutions(successors, frames) /\ frames # <<>> /\ AreFound(verdict, successors, frames)
  <2>1. frames # <<>>
    BY <1>2
  <2>2. QED BY <2>1 DEF SolverIsSound
<1>5. /\ t \in Nat \ {0} /\ DOMAIN frames = 1 .. t
  BY <1>4, TopIs
<1>6. /\ u \in Nat \ {0} /\ u \in DOMAIN frames /\ p \in Nodes /\ Len(p) < MaxDepth /\ v \in 1 .. Width
      /\ Append(p, v) = c /\ Front(c) = p /\ Last(c) = v
  BY <1>2, <1>4, CallerIs
<1>7. IsGood(verdict, c) <=> has
  BY <1>1, <1>2, <1>4, KnownWhenOver
<1>8. IsSeq(caller) /\ Len(caller) = u /\ DOMAIN caller = 1 .. u /\ \A j \in 1 .. u : caller[j] = frames[j]
  BY <1>4, FrontAndLast DEF IsStack
<1> HIDE DEF t, u, p, v, c, caller
<1>9. \A j \in 1 .. u : IsFrame(frames[j]) /\ j \in DOMAIN frames
  BY <1>4, <1>5, <1>6 DEF IsStack, u
<1>10. /\ IsSeq(fr) /\ Len(fr) = u /\ DOMAIN fr = 1 .. u
       /\ \A j \in 1 .. u : IsFrame(fr[j]) /\ fr[j].node = frames[j].node /\ fr[j].ii = frames[j].ii
       /\ \A j \in 1 .. u : j # u => fr[j] = frames[j]
       /\ fr[u].hasSolution <=> frames[u].hasSolution \/ has
  <2>1. CASE has
    <3> DEFINE e == [caller[u] EXCEPT !.hasSolution = TRUE]
    <3>1. fr = [caller EXCEPT ![u] = e]
      BY <1>3, <1>8, <2>1
    <3>2. caller[u] = frames[u] /\ IsFrame(frames[u])
      BY <1>6, <1>8, <1>9
    <3>3. IsFrame(e) /\ e.node = frames[u].node /\ e.ii = frames[u].ii /\ e.hasSolution = TRUE
      BY <3>2 DEF IsFrame
    <3> HIDE DEF e
    <3>4. DOMAIN fr = 1 .. u /\ fr[u] = e /\ \A j \in 1 .. u : j # u => fr[j] = frames[j]
      BY <1>6, <1>8, <3>1
    <3>5. IsSeq(fr) /\ Len(fr) = u
      <4>1. PICK S : caller \in Seq(S)
        BY <1>8 DEF IsSeq
      <4>2. caller \in Seq(S \cup {e})
        BY <4>1, SeqMonotonic
      <4>3. u \in 1 .. Len(caller) /\ e \in S \cup {e}
        BY <1>6, <1>8
      <4>4. fr \in Seq(S \cup {e}) /\ Len(fr) = Len(caller)
        BY <3>1, <4>2, <4>3, ExceptSeq
      <4>5. QED BY <1>8, <4>4 DEF IsSeq
    <3>6. ASSUME NEW j \in 1 .. u
          PROVE  IsFrame(fr[j]) /\ fr[j].node = frames[j].node /\ fr[j].ii = frames[j].ii
      BY <1>9, <3>3, <3>4
    <3>7. fr[u].hasSolution <=> frames[u].hasSolution \/ has
      BY <2>1, <3>3, <3>4
    <3>8. QED BY <3>4, <3>5, <3>6, <3>7
  <2>2. CASE ~has
    BY <1>3, <1>6, <1>8, <1>9, <2>2
  <2>3. QED BY <2>1, <2>2
<1>11. IsStack(verdict, fr)
  <2>1. ASSUME NEW j \in 1 .. u
        PROVE  /\ IsFrame(fr[j]) /\ Len(fr[j].node) = j - 1 /\ IsOpen(verdict, fr[j].node)
               /\ \A k \in 1 .. j - 1 : fr[j].node[k] = fr[k].ii - 1
    <3>1. /\ Len(frames[j].node) = j - 1 /\ IsOpen(verdict, frames[j].node)
          /\ \A k \in 1 .. j - 1 : frames[j].node[k] = frames[k].ii - 1
      BY <1>4, <1>9 DEF IsStack
    <3>2. \A k \in 1 .. j - 1 : k \in 1 .. u
      BY <1>6
    <3>3. QED BY <1>10, <3>1, <3>2
  <2>2. QED BY <1>10, <2>1 DEF IsStack
<1>12. \A n \in Nodes : IsPassed(fr, n) <=> IsPassed(frames, n) \/ n = c
  BY <1>2, <1>4, <1>10, PassedAfterReturn DEF t, u, c
<1>13. fr # <<>>
  BY <1>6, <1>10
<1>14. /\ succ \in [Nodes -> Seq(1 .. Width)] /\ AreFound(verdict, succ, fr)
       /\ has => succ[p] # <<>>
       /\ \A q \in Nodes : (q # p \/ ~has) => succ[q] = successors[q]
  <2>1. CASE has
    <3>1. ASSUME NEW y \in Range(successors[p])
          PROVE  y < v
      <4>1. y \in 1 .. Width
        <5>1. successors[p] \in Seq(1 .. Width)
          BY <1>4, <1>6
        <5>2. \A i \in DOMAIN successors[p] : successors[p][i] \in 1 .. Width
          BY <5>1, LenProperties, ElementOfSeq
        <5>3. QED BY <5>2 DEF Range
      <4>2. IsPassed(frames, Append(p, y))
        BY <1>4, <1>6, <4>1 DEF AreFound
      <4>3. LimitAt(frames, u) = v
        <5>1. u # Len(frames)
          <6>1. PICK l \in Nat : l = t
            BY <1>5
          <6>2. l - 1 # l
            BY <6>1
          <6>3. QED BY <6>1, <6>2 DEF u, t
        <5>2. LimitAt(frames, u) = frames[u].ii - 1
          BY <5>1 DEF LimitAt
        <5>3. QED BY <5>2 DEF v
      <4>4. IsPassed(frames, Append(frames[u].node, y)) <=> y < LimitAt(frames, u)
        <5>1. Len(frames[u].node) < MaxDepth
          BY <1>6 DEF p
        <5>2. QED BY <1>4, <1>6, <4>1, <5>1, PassedOnTheWay
      <4>5. QED BY <4>2, <4>3, <4>4 DEF p
    <3>2. IsGood(verdict, Append(p, v))
      BY <1>6, <1>7, <2>1
    <3>3. succ = [successors EXCEPT ![p] = Append(@, v)]
      BY <1>3, <1>6, <2>1
    <3>4. \A n \in Nodes : IsGood(verdict, n) => (IsPassed(fr, n) <=> IsPassed(frames, n) \/ n = Append(p, v))
      BY <1>6, <1>12
    <3>5. IsOneMore(verdict, successors, frames, p, v, succ, fr)
      BY <1>6, <3>1, <3>2, <3>3, <3>4 DEF IsOneMore
    <3>6. /\ succ \in [Nodes -> Seq(1 .. Width)] /\ AreFound(verdict, succ, fr)
          /\ succ[p] # <<>> /\ \A q \in Nodes : q # p => succ[q] = successors[q]
      <4>1. successors \in [Nodes -> Seq(1 .. Width)] /\ AreFound(verdict, successors, frames)
        BY <1>4
      <4>2. QED BY <3>5, <4>1, FoundOneMore
    <3>7. QED BY <2>1, <3>6
  <2>2. CASE ~has
    <3>1. \A n \in Nodes : IsGood(verdict, n) => (IsPassed(fr, n) <=> IsPassed(frames, n))
      BY <1>7, <1>12, <2>2
    <3>2. AreFound(verdict, successors, fr)
      BY <1>4, <3>1, FoundAsBefore
    <3>3. QED BY <1>3, <1>4, <2>2, <3>2
  <2>3. QED BY <2>1, <2>2
<1>15. KnowSolutions(succ, fr)
  <2>1. ASSUME NEW j \in 1 .. u
        PROVE  fr[j].hasSolution <=> succ[fr[j].node] # <<>>
    <3>1. frames[j].hasSolution <=> successors[frames[j].node] # <<>>
      BY <1>4, <1>9 DEF KnowSolutions
    <3>2. fr[j].node = frames[j].node /\ frames[j].node \in Nodes
      BY <1>9, <1>10 DEF IsFrame
    <3>3. CASE j = u
      <4>1. frames[j].node = p
        BY <3>3 DEF p
      <4>2. fr[j].hasSolution <=> frames[j].hasSolution \/ has
        BY <1>10, <3>3
      <4>3. QED BY <1>14, <3>1, <3>2, <4>1, <4>2
    <3>4. CASE j # u
      <4>1. Len(frames[j].node) = j - 1 /\ Len(p) = u - 1
        BY <1>4, <1>6, <1>9 DEF IsStack, p
      <4>2. frames[j].node # p
        BY <1>6, <3>4, <4>1
      <4>3. fr[j] = frames[j]
        BY <1>10, <3>4
      <4>4. QED BY <1>14, <3>1, <3>2, <4>2, <4>3
    <3>5. QED BY <3>3, <3>4
  <2>2. QED BY <1>10, <2>1 DEF KnowSolutions
<1>16. QED BY <1>1, <1>2, <1>11, <1>13, <1>14, <1>15 DEF SolverIsSound

LEMMA ApplyReturnsStep ==
    ASSUME SolverIsSound, ApplyReturns
    PROVE  SolverIsSound'
<1>1. PICK fr : fr = frames'
  OBVIOUS
<1>2. /\ fr = <<>> /\ UNCHANGED <<verdict, successors>> /\ result' = (successors[<<>>] # <<>>)
      /\ Len(frames) = 1 /\ Stop
  BY <1>1 DEF ApplyReturns
<1>3. frames # <<>>
  BY <1>2
<1>4. /\ successors \in [Nodes -> Seq(1 .. Width)] /\ IsStack(verdict, frames)
      /\ AreFound(verdict, successors, frames)
  BY <1>3 DEF SolverIsSound
<1>5. /\ IsFrame(Top) /\ Len(Top.node) = 0 /\ DOMAIN frames = {1} /\ Top = frames[1]
  <2>1. /\ Top = frames[Len(frames)] /\ IsFrame(Top)
        /\ Len(Top.node) = Len(frames) - 1 /\ DOMAIN frames = 1 .. Len(frames)
    BY <1>3, <1>4, TopIs
  <2>2. QED BY <1>2, <2>1
<1>6. Top.ii \in 1 .. Width + 1 /\ (Top.ii > Width \/ MaxDepth = 0)
  BY <1>2, <1>5 DEF IsFrame, Stop
<1>7. ASSUME NEW n \in Nodes, Len(n) >= 1
      PROVE  IsPassed(frames, n)
  <2>1. Len(n) \in Nat /\ Len(n) <= MaxDepth /\ n[1] \in 1 .. Width
    BY <1>7, NodeIs
  <2>2. n[1] < Top.ii
    BY <1>6, <1>7, <2>1, SolverAssumption
  <2>3. LimitAt(frames, 1) = Top.ii
    BY <1>2, <1>5 DEF LimitAt
  <2>4. QED BY <1>5, <1>7, <2>2, <2>3 DEF IsPassed
<1>8. AreAllFound(verdict, successors)
  <2>1. ASSUME NEW q \in Nodes, NEW w \in 1 .. Width, Len(q) < MaxDepth
        PROVE  IsPassed(frames, Append(q, w))
    <3>1. Append(q, w) \in Nodes /\ Len(Append(q, w)) >= 1
      BY <2>1, Extended, NodeIs
    <3>2. QED BY <1>7, <3>1
  <2>2. QED BY <1>4, <2>1 DEF AreFound, AreAllFound
<1>9. IsStack(verdict, fr) /\ KnowSolutions(successors, fr)
  <2>1. DOMAIN fr = {} /\ IsSeq(fr)
    <3>1. fr \in Seq({})
      BY <1>2, EmptySeq
    <3>2. DOMAIN fr = {}
      BY <1>2
    <3>3. QED BY <3>1, <3>2 DEF IsSeq
  <2>2. QED BY <2>1 DEF IsStack, KnowSolutions
<1>10. QED BY <1>1, <1>2, <1>4, <1>8, <1>9 DEF SolverIsSound

-----------------------------------------------------------------------------
(* When apply is over, the tree is made of the good nodes.                  *)
LEMMA FirstOfNode ==
    ASSUME NEW n \in Nodes, NEW k \in Nat, k <= Len(n)
    PROVE  LET m == SubSeq(n, 1, k) IN
           m \in Nodes /\ Len(m) = k /\ \A i \in 1 .. k : m[i] = n[i]
<1> DEFINE m == SubSeq(n, 1, k)
<1>1. n \in Seq(1 .. Width) /\ Len(n) \in Nat /\ Len(n) <= MaxDepth /\ \A i \in 1 .. Len(n) : n[i] \in 1 .. Width
  BY NodeIs
<1>2. 1 .. k \subseteq 1 .. Len(n)
  BY <1>1
<1>3. /\ m \in Seq(1 .. Width) /\ Len(m) = (IF 1 <= k THEN k - 1 + 1 ELSE 0)
      /\ \A i \in 1 .. k - 1 + 1 : m[i] = n[1 + i - 1]
  <2>1. \A i \in 1 .. k : n[i] \in 1 .. Width
    BY <1>1, <1>2
  <2>2. QED BY <2>1, SubSeqProperties
<1> HIDE DEF m
<1>4. Len(m) = k
  BY <1>3
<1>5. ASSUME NEW i \in 1 .. k
      PROVE  m[i] = n[i]
  <2>1. i \in 1 .. k - 1 + 1 /\ 1 + i - 1 = i
    OBVIOUS
  <2>2. QED BY <1>3, <2>1
<1>6. m \in Nodes
  <2>1. Len(m) <= MaxDepth
    BY <1>1, <1>4, SolverAssumption
  <2>2. QED BY <1>3, <2>1, NodesAreSequences
<1>7. QED BY <1>4, <1>5, <1>6 DEF m

LEMMA WayIsFirst ==
    ASSUME NEW n \in Nodes, NEW m \in Nodes
    PROVE  IsWayTo(m, n) <=> Len(m) <= Len(n) /\ m = SubSeq(n, 1, Len(m))
<1>1. Len(m) \in Nat /\ Len(n) \in Nat
  BY NodeIs
<1>2. ASSUME Len(m) <= Len(n)
      PROVE  IsWayTo(m, n) <=> m = SubSeq(n, 1, Len(m))
  <2>1. PICK s : s = SubSeq(n, 1, Len(m))
    OBVIOUS
  <2>2. s \in Nodes /\ Len(s) = Len(m) /\ \A i \in 1 .. Len(m) : s[i] = n[i]
    BY <1>1, <1>2, <2>1, FirstOfNode
  <2>3. IsWayTo(m, n) => m = s
    BY <2>2, SameNode DEF IsWayTo
  <2>4. m = s => IsWayTo(m, n)
    BY <1>2, <2>2 DEF IsWayTo
  <2>5. QED BY <2>1, <2>3, <2>4
<1>3. QED BY <1>2 DEF IsWayTo

LEMMA SolutionsAre ==
    ASSUME NEW s
    PROVE  s \in Solutions <=> s \in Nodes /\ IsSolution(verdict, s)
<1>1. SUFFICES ASSUME s \in Nodes
               PROVE  s \in Solutions <=> IsSolution(verdict, s)
  BY DEF Solutions
<1>2. Len(s) \in Nat
  BY <1>1, NodeIs
<1>3. SubSeq(s, 1, Len(s)) = s
  <2>1. IsWayTo(s, s)
    BY <1>2 DEF IsWayTo
  <2>2. QED BY <1>1, <2>1, WayIsFirst
<1>4. \A k \in 2 .. Len(s) : SubSeq(s, 1, k) \in Nodes /\ Len(SubSeq(s, 1, k)) = k
  <2>1. ASSUME NEW k \in 2 .. Len(s)
        PROVE  SubSeq(s, 1, k) \in Nodes /\ Len(SubSeq(s, 1, k)) = k
    <3>1. k \in Nat /\ k <= Len(s)
      BY <1>2
    <3>2. QED BY <1>1, <3>1, FirstOfNode
  <2>2. QED BY <2>1
<1>5. ASSUME s \in Solutions
      PROVE  IsSolution(verdict, s)
  <2>1. /\ Len(s) > 1 /\ "accept" \in verdict[s]
        /\ \A k \in 2 .. Len(s) : "reject" \notin verdict[SubSeq(s, 1, k)]
        /\ \A k \in 2 .. Len(s) - 1 : "accept" \notin verdict[SubSeq(s, 1, k)]
    BY <1>5 DEF Solutions
  <2>2. "reject" \notin verdict[s]
    <3>1. Len(s) \in 2 .. Len(s)
      BY <1>2, <2>1
    <3>2. QED BY <1>3, <2>1, <3>1
  <2>3. ASSUME NEW m \in Nodes, Len(m) >= 2, Len(m) < Len(s), IsWayTo(m, s)
        PROVE  ~IsJudged(verdict, m)
    <3>1. m = SubSeq(s, 1, Len(m))
      BY <1>1, <2>3, WayIsFirst
    <3>2. Len(m) \in 2 .. Len(s) /\ Len(m) \in 2 .. Len(s) - 1
      BY <1>2, <2>3, NodeIs
    <3>3. QED BY <2>1, <3>1, <3>2 DEF IsJudged
  <2>4. QED BY <2>1, <2>2, <2>3 DEF IsSolution
<1>6. ASSUME IsSolution(verdict, s)
      PROVE  s \in Solutions
  <2>1. /\ Len(s) > 1 /\ "accept" \in verdict[s] /\ "reject" \notin verdict[s]
        /\ \A m \in Nodes : (Len(m) >= 2 /\ Len(m) < Len(s) /\ IsWayTo(m, s)) => ~IsJudged(verdict, m)
    BY <1>6 DEF IsSolution
  <2>2. ASSUME NEW k \in 2 .. Len(s) - 1
        PROVE  ~IsJudged(verdict, SubSeq(s, 1, k))
    <3>1. PICK m : m = SubSeq(s, 1, k)
      OBVIOUS
    <3>2. k \in 2 .. Len(s) /\ k < Len(s)
      BY <1>2
    <3>3. m \in Nodes /\ Len(m) = k
      BY <1>4, <3>1, <3>2
    <3>4. IsWayTo(m, s)
      <4>1. m = SubSeq(s, 1, Len(m)) /\ Len(m) <= Len(s)
        BY <1>2, <3>1, <3>2, <3>3
      <4>2. QED BY <1>1, <3>3, <4>1, WayIsFirst
    <3>5. Len(m) >= 2 /\ Len(m) < Len(s)
      BY <1>2, <3>2, <3>3
    <3>6. QED BY <2>1, <3>1, <3>3, <3>4, <3>5
  <2>3. ASSUME NEW k \in 2 .. Len(s)
        PROVE  "reject" \notin verdict[SubSeq(s, 1, k)]
    <3>1. CASE k = Len(s)
      BY <1>3, <2>1, <3>1
    <3>2. CASE k # Len(s)
      <4>1. k \in 2 .. Len(s) - 1
        BY <1>2, <3>2
      <4>2. QED BY <2>2, <4>1 DEF IsJudged
    <3>3. QED BY <3>1, <3>2
  <2>4. QED BY <1>1, <2>1, <2>2, <2>3 DEF Solutions, IsJudged
<1>7. QED BY <1>5, <1>6

LEMMA TreeIsOfGoodNodes ==
    ASSUME AreAllFound(verdict, successors), NEW n \in Nodes
    PROVE  n \in Tree <=> n = <<>> \/ IsGood(verdict, n)
<1>1. n \in Tree <=> \A k \in 1 .. Len(n) : n[k] \in Range(successors[SubSeq(n, 1, k - 1)])
  BY DEF Tree
<1>2. Len(n) \in Nat /\ Len(n) <= MaxDepth /\ (\A k \in 1 .. Len(n) : n[k] \in 1 .. Width) /\ (n = <<>> <=> Len(n) = 0)
  BY NodeIs, EmptySeq
<1>3. ASSUME NEW k \in 1 .. Len(n)
      PROVE  /\ SubSeq(n, 1, k) \in Nodes /\ IsWayTo(SubSeq(n, 1, k), n)
             /\ n[k] \in Range(successors[SubSeq(n, 1, k - 1)]) <=> IsGood(verdict, SubSeq(n, 1, k))
  <2>1. PICK p, m : p = SubSeq(n, 1, k - 1) /\ m = SubSeq(n, 1, k)
    OBVIOUS
  <2>2. k \in Nat /\ k - 1 \in Nat /\ k <= Len(n) /\ k - 1 <= Len(n) /\ k - 1 < MaxDepth /\ (k - 1) + 1 = k
    BY <1>2, SolverAssumption
  <2>3. m \in Nodes /\ Len(m) = k /\ \A i \in 1 .. k : m[i] = n[i]
    BY <2>1, <2>2, FirstOfNode
  <2>4. p \in Nodes /\ Len(p) = k - 1 /\ \A i \in 1 .. k - 1 : p[i] = n[i]
    BY <2>1, <2>2, FirstOfNode
  <2>5. Append(p, n[k]) = m
    <3>1. /\ Append(p, n[k]) \in Nodes /\ Len(Append(p, n[k])) = Len(p) + 1 /\ Append(p, n[k])[Len(p) + 1] = n[k]
          /\ \A i \in 1 .. Len(p) : Append(p, n[k])[i] = p[i]
      BY <1>2, <1>3, <2>2, <2>4, Extended
    <3>2. Len(Append(p, n[k])) = k /\ Append(p, n[k])[k] = n[k]
      BY <2>2, <2>4, <3>1
    <3>3. ASSUME NEW i \in 1 .. k
          PROVE  Append(p, n[k])[i] = m[i]
      <4>1. CASE i = k
        BY <2>3, <3>2, <4>1
      <4>2. CASE i # k
        <5>1. i \in 1 .. k - 1 /\ i \in 1 .. Len(p)
          BY <2>2, <2>4, <4>2
        <5>2. QED BY <2>3, <2>4, <3>1, <5>1
      <4>3. QED BY <4>1, <4>2
    <3>4. QED BY <2>3, <3>1, <3>2, <3>3, SameNode
  <2>6. IsWayTo(m, n)
    BY <2>2, <2>3 DEF IsWayTo
  <2>7. n[k] \in Range(successors[p]) <=> Len(p) < MaxDepth /\ IsGood(verdict, Append(p, n[k]))
    BY <1>2, <1>3, <2>4 DEF AreAllFound
  <2>8. QED BY <2>1, <2>2, <2>3, <2>4, <2>5, <2>6, <2>7
<1>4. ASSUME n \in Tree, n # <<>>
      PROVE  IsGood(verdict, n)
  <2>1. Len(n) \in 1 .. Len(n)
    BY <1>2, <1>4
  <2>2. IsGood(verdict, SubSeq(n, 1, Len(n)))
    BY <1>1, <1>3, <1>4, <2>1
  <2>3. IsWayTo(n, n)
    BY <1>2 DEF IsWayTo
  <2>4. n = SubSeq(n, 1, Len(n))
    BY <2>3, WayIsFirst
  <2>5. QED BY <2>2, <2>4
<1>5. ASSUME IsGood(verdict, n)
      PROVE  n \in Tree
  <2>1. PICK s \in Nodes : IsSolution(verdict, s) /\ IsWayTo(n, s)
    BY <1>5 DEF IsGood
  <2>2. ASSUME NEW k \in 1 .. Len(n)
        PROVE  IsGood(verdict, SubSeq(n, 1, k))
    <3>1. PICK m : m = SubSeq(n, 1, k)
      OBVIOUS
    <3>2. m \in Nodes /\ IsWayTo(m, n) /\ Len(m) \in Nat /\ Len(s) \in Nat
      BY <1>3, <3>1, NodeIs
    <3>3. IsWayTo(m, s)
      BY <1>2, <2>1, <3>2 DEF IsWayTo
    <3>4. QED BY <2>1, <3>1, <3>3 DEF IsGood
  <2>3. QED BY <1>1, <1>3, <2>2
<1>6. n = <<>> => n \in Tree
  <2>1. n = <<>> => 1 .. Len(n) = {}
    BY <1>2
  <2>2. QED BY <1>1, <2>1
<1>7. QED BY <1>4, <1>5, <1>6

LEMMA LeavesAreSolutions ==
    ASSUME successors \in [Nodes -> Seq(1 .. Width)], AreAllFound(verdict, successors)
    PROVE  /\ Leaves \ {<<>>} = Solutions
           /\ successors[<<>>] # <<>> <=> Solutions # {}
<1>1. ASSUME NEW n \in Nodes
      PROVE  /\ successors[n] # <<>> <=> IsGood(verdict, n) /\ ~IsSolution(verdict, n)
             /\ IsSolution(verdict, n) => IsGood(verdict, n) /\ n # <<>>
  <2>1. successors[n] \in Seq(1 .. Width)
    OBVIOUS
  <2>2. successors[n] # <<>> <=> \E v \in 1 .. Width : v \in Range(successors[n])
    BY <2>1, HasValues
  <2>3. \A v \in 1 .. Width : v \in Range(successors[n]) <=> Len(n) < MaxDepth /\ IsGood(verdict, Append(n, v))
    BY DEF AreAllFound
  <2>4. successors[n] # <<>> <=> IsGood(verdict, n) /\ ~IsSolution(verdict, n)
    BY <2>2, <2>3, GoodOnes
  <2>5. Len(n) \in Nat /\ (n = <<>> => Len(n) = 0)
    BY NodeIs, EmptySeq
  <2>6. IsWayTo(n, n)
    BY <2>5 DEF IsWayTo
  <2>7. IsSolution(verdict, n) => IsGood(verdict, n)
    BY <2>6 DEF IsGood
  <2>8. IsSolution(verdict, n) => n # <<>>
    BY <2>5 DEF IsSolution
  <2>9. QED BY <2>4, <2>7, <2>8
<1>2. ASSUME NEW n
      PROVE  n \in Leaves \ {<<>>} <=> n \in Solutions
  <2>1. n \in Leaves \ {<<>>} <=> n \in Nodes /\ n \in Tree /\ successors[n] = <<>> /\ n # <<>>
    BY DEF Leaves, Tree
  <2>2. n \in Solutions <=> n \in Nodes /\ IsSolution(verdict, n)
    BY SolutionsAre
  <2>3. n \in Nodes => (n \in Tree <=> n = <<>> \/ IsGood(verdict, n))
    BY TreeIsOfGoodNodes
  <2>4. QED BY <1>1, <2>1, <2>2, <2>3
<1>3. successors[<<>>] # <<>> <=> Solutions # {}
  <2>1. PICK e : e = <<>>
    OBVIOUS
  <2>2. e \in Seq(1 .. Width) /\ Len(e) = 0
    BY <2>1, EmptySeq
  <2>3. e \in Nodes
    <3>1. Len(e) <= MaxDepth
      BY <2>2, SolverAssumption
    <3>2. QED BY <2>2, <3>1, NodesAreSequences
  <2>4. successors[e] # <<>> <=> IsGood(verdict, e)
    BY <1>1, <2>1, <2>3
  <2>5. \A s \in Nodes : IsWayTo(e, s)
    <3>1. ASSUME NEW s \in Nodes
          PROVE  IsWayTo(e, s)
      BY <2>2, NodeIs DEF IsWayTo
    <3>2. QED BY <3>1
  <2>6. IsGood(verdict, e) <=> \E s \in Nodes : IsSolution(verdict, s)
    BY <2>5 DEF IsGood
  <2>7. Solutions # {} <=> \E s \in Nodes : IsSolution(verdict, s)
    BY SolutionsAre
  <2>8. QED BY <2>1, <2>4, <2>6, <2>7
<1>4. QED BY <1>2, <1>3

LEMMA SolutionsFound ==
    ASSUME SolverIsSound
    PROVE  SolutionsAreFound
<1>1. SUFFICES ASSUME frames = <<>>, applied > 0
               PROVE  /\ Leaves \ {<<>>} = Solutions
                      /\ result = (Solutions # {})
                      /\ \A n \in Tree : \A i, j \in DOMAIN successors[n] :
                            i < j => successors[n][i] < successors[n][j]
  BY DEF SolutionsAreFound
<1>2. /\ successors \in [Nodes -> Seq(1 .. Width)] /\ AreAllFound(verdict, successors)
      /\ result = (successors[<<>>] # <<>>)
  BY <1>1 DEF SolverIsSound
<1>3. Leaves \ {<<>>} = Solutions /\ (successors[<<>>] # <<>> <=> Solutions # {})
  BY <1>2, LeavesAreSolutions
<1>4. result = (Solutions # {})
  BY <1>2, <1>3
<1>5. \A n \in Tree : Ascends(successors[n])
  BY <1>2 DEF Tree, AreAllFound
<1>6. QED BY <1>3, <1>4, <1>5 DEF Ascends

LEMMA SolverStart ==
    ASSUME SolverInit
    PROVE  SolverIsSound
<1>1. frames = <<>> /\ successors = [n \in Nodes |-> <<>>] /\ applied = 0
  BY DEF SolverInit
<1>2. successors \in [Nodes -> Seq(1 .. Width)]
  BY <1>1
<1>3. IsStack(verdict, frames) /\ KnowSolutions(successors, frames)
  <2>1. PICK fr : fr = frames
    OBVIOUS
  <2>2. fr \in Seq({}) /\ DOMAIN fr = {}
    BY <1>1, <2>1, EmptySeq
  <2>3. QED BY <2>1, <2>2 DEF IsStack, KnowSolutions, IsSeq
<1>4. QED BY <1>1, <1>2, <1>3 DEF SolverIsSound

LEMMA SolverStep ==
    ASSUME SolverIsSound, SolverNext
    PROVE  SolverIsSound'
BY ApplyStep, RejectStep, AcceptStep, ExploreSolutionsStep, ReturnStep, ApplyReturnsStep DEF SolverNext

LEMMA SolverStutters ==
    ASSUME SolverIsSound, UNCHANGED solverVars
    PROVE  SolverIsSound'
<1>1. UNCHANGED <<verdict, successors, frames, result, applied>>
  BY DEF solverVars
<1>2. QED BY <1>1 DEF SolverIsSound

(* apply finds the solutions of every problem, all of them and no other,    *)
(* whatever it rejects and accepts, and leaves no dead end in the tree.     *)
THEOREM SolutionsStayFound == SolverSpec => []SolutionsAreFound
<1>1. SolverInit => SolverIsSound
  BY SolverStart
<1>2. SolverIsSound /\ [SolverNext]_solverVars => SolverIsSound'
  BY SolverStep, SolverStutters
<1>3. SolverIsSound => SolutionsAreFound
  BY SolutionsFound
<1>4. QED BY <1>1, <1>2, <1>3, PTL DEF SolverSpec

-----------------------------------------------------------------------------
(* The document: the wrappers of a tree that is alive are those of its      *)
(* nodes, and what an attribute keeps is what the tree has.                 *)
TreeNode == [props : Seq(Prop), items : Seq(Item)]
Wrapper == [children : SUBSET Nat, attributes : SUBSET Nat, text : Seq(Item)]
IsWrapped(node, wrapped) ==
    /\ wrapped.children = ChildrenOf(node.items)
    /\ wrapped.attributes = FirstsOf(node.props)
    /\ wrapped.text = LastText(node.items)
AreWrapped(t, wrappers) ==
    /\ wrappers \in Seq(Wrapper) /\ Len(wrappers) = Len(t)
    /\ \A n \in 1 .. Len(t) : IsWrapped(t[n], wrappers[n])
IsInTree(t, c) ==
    \E n \in 1 .. Len(t) : \E i \in FirstsOf(t[n].props) : c = <<n, i, t[n].props[i].value>>

DocumentIsSound ==
    /\ parses \in Nat /\ root \in 0 .. parses /\ handler \in 0 .. parses
    /\ tree \in Seq(TreeNode)
    /\ (IsRead /\ IsAlive) => AreWrapped(tree, nodes) /\ \A c \in cached : IsInTree(tree, c)

-----------------------------------------------------------------------------
LEMMA ItemIs ==
    ASSUME NEW x \in Item
    PROVE  ("node" \in DOMAIN x /\ "text" \notin DOMAIN x) \/ ("node" \notin DOMAIN x /\ "text" \in DOMAIN x)
<1>1. CASE x \in [node : Nat]
  <2>1. DOMAIN x = {"node"}
    BY <1>1
  <2>2. QED BY <2>1
<1>2. CASE x \in [text : Texts]
  <2>1. DOMAIN x = {"text"}
    BY <1>2
  <2>2. QED BY <2>1
<1>3. QED BY <1>1, <1>2 DEF Item

LEMMA LeastOf ==
    ASSUME NEW T \in SUBSET Nat, T # {}
    PROVE  \E n \in T : \A m \in T : n <= m
<1>1. PICK n \in T : \A m \in T : ~ (<<m, n>> \in OpToRel(<, Nat))
  BY WFMin, NatLessThanWellFounded, Zenon
<1>2. \A i, j \in Nat : i < j => <<i, j>> \in OpToRel(<, Nat)
  BY DEF OpToRel
<1>3. \A m \in T : ~ (m < n)
  BY <1>1, <1>2, Zenon
<1>4. QED BY <1>3

LEMMA GreatestOf ==
    ASSUME NEW k \in Nat, NEW T \in SUBSET (1 .. k), T # {}
    PROVE  Max(T) \in T /\ \A m \in T : m <= Max(T)
<1> DEFINE U == {k - m : m \in T}
<1>1. U \in SUBSET Nat /\ U # {}
  <2>1. \A m \in T : k - m \in Nat
    OBVIOUS
  <2>2. PICK m \in T : TRUE
    OBVIOUS
  <2>3. k - m \in U
    BY <2>2
  <2>4. QED BY <2>1, <2>3
<1>2. PICK n \in U : \A m \in U : n <= m
  BY <1>1, LeastOf
<1>3. PICK g \in T : n = k - g
  BY <1>2
<1>4. ASSUME NEW m \in T
      PROVE  g >= m
  <2>1. k - m \in U /\ k - g <= k - m
    BY <1>2, <1>3
  <2>2. QED BY <2>1
<1>5. \E x \in T : \A y \in T : x >= y
  BY <1>4
<1>6. Max(T) \in T /\ \A m \in T : Max(T) >= m
  BY <1>5 DEF Max
<1>7. QED BY <1>6

LEMMA ItemAdded ==
    ASSUME NEW items \in Seq(Item), NEW x \in Item, NEW r, r = Append(items, x)
    PROVE  /\ r \in Seq(Item) /\ Len(r) = Len(items) + 1
           /\ "node" \in DOMAIN x => ChildrenOf(r) = ChildrenOf(items) \cup {Len(r)} /\ LastText(r) = LastText(items)
           /\ "text" \in DOMAIN x => ChildrenOf(r) = ChildrenOf(items) /\ LastText(r) = <<x>>
<1> DEFINE l == Len(items)
<1>1. /\ r \in Seq(Item) /\ Len(r) = l + 1 /\ r[l + 1] = x /\ \A i \in 1 .. l : r[i] = items[i]
      /\ DOMAIN items = 1 .. l /\ l \in Nat /\ DOMAIN r = 1 .. l + 1
  BY AppendProperties, LenProperties
<1> HIDE DEF l
<1>2. 1 .. l + 1 = (1 .. l) \cup {l + 1} /\ l + 1 \notin 1 .. l
  BY <1>1
<1>3. ASSUME "node" \in DOMAIN x
      PROVE  ChildrenOf(r) = ChildrenOf(items) \cup {Len(r)} /\ LastText(r) = LastText(items)
  <2>1. "text" \notin DOMAIN x
    BY <1>3, ItemIs
  <2>2. ChildrenOf(r) = ChildrenOf(items) \cup {Len(r)}
    BY <1>1, <1>2, <1>3 DEF ChildrenOf
  <2>3. TextsOf(r) = TextsOf(items)
    BY <1>1, <1>2, <2>1 DEF TextsOf
  <2>4. ASSUME TextsOf(items) # {}
        PROVE  r[Max(TextsOf(items))] = items[Max(TextsOf(items))]
    <3>1. TextsOf(items) \in SUBSET (1 .. l)
      BY <1>1 DEF TextsOf
    <3>2. Max(TextsOf(items)) \in TextsOf(items)
      BY <1>1, <2>4, <3>1, GreatestOf
    <3>3. QED BY <1>1, <3>1, <3>2
  <2>5. LastText(r) = LastText(items)
    BY <2>3, <2>4 DEF LastText
  <2>6. QED BY <2>2, <2>5
<1>4. ASSUME "text" \in DOMAIN x
      PROVE  ChildrenOf(r) = ChildrenOf(items) /\ LastText(r) = <<x>>
  <2>1. "node" \notin DOMAIN x
    BY <1>4, ItemIs
  <2>2. ChildrenOf(r) = ChildrenOf(items)
    BY <1>1, <1>2, <2>1 DEF ChildrenOf
  <2>3. l + 1 \in TextsOf(r) /\ TextsOf(r) \in SUBSET (1 .. l + 1) /\ l + 1 \in Nat
    BY <1>1, <1>2, <1>4 DEF TextsOf
  <2>4. Max(TextsOf(r)) \in TextsOf(r) /\ l + 1 <= Max(TextsOf(r))
    BY <2>3, GreatestOf
  <2>5. Max(TextsOf(r)) = l + 1
    BY <1>1, <2>3, <2>4
  <2>6. LastText(r) = <<x>>
    BY <1>1, <2>3, <2>5 DEF LastText
  <2>7. QED BY <2>2, <2>6
<1>5. QED BY <1>1, <1>3, <1>4 DEF l

(* The first attribute of a name. *)
LEMMA FirstOfName ==
    ASSUME NEW props \in Seq(Prop), NEW j \in 1 .. Len(props)
    PROVE  \E i \in FirstsOf(props) : i <= j /\ props[i].name = props[j].name
<1> DEFINE T == {i \in 1 .. Len(props) : props[i].name = props[j].name}
<1>1. T \in SUBSET Nat /\ j \in T /\ DOMAIN props = 1 .. Len(props) /\ Len(props) \in Nat
  BY LenProperties
<1>2. PICK i \in T : \A m \in T : i <= m
  BY <1>1, LeastOf
<1>3. i \in FirstsOf(props)
  <2>1. ASSUME NEW k \in 1 .. i - 1, props[k].name = props[i].name
        PROVE  FALSE
    <3>1. k \in T
      BY <1>1, <1>2, <2>1
    <3>2. QED BY <1>1, <1>2, <3>1
  <2>2. QED BY <1>1, <1>2, <2>1 DEF FirstsOf
<1>4. QED BY <1>1, <1>2, <1>3

LEMMA FirstStill ==
    ASSUME NEW props \in Seq(Prop), NEW p \in Prop, NEW i \in FirstsOf(props)
    PROVE  i \in FirstsOf(Append(props, p)) /\ Append(props, p)[i] = props[i]
<1>1. PICK r : r = Append(props, p)
  OBVIOUS
<1>2. /\ Len(r) = Len(props) + 1 /\ \A j \in 1 .. Len(props) : r[j] = props[j]
      /\ DOMAIN props = 1 .. Len(props) /\ Len(props) \in Nat /\ DOMAIN r = 1 .. Len(props) + 1
  BY <1>1, AppendProperties, LenProperties
<1>3. i \in 1 .. Len(props) /\ i \in DOMAIN r /\ \A j \in 1 .. i - 1 : j \in 1 .. Len(props)
  BY <1>2 DEF FirstsOf
<1>4. QED BY <1>1, <1>2, <1>3 DEF FirstsOf

LEMMA PropAdded ==
    ASSUME NEW props \in Seq(Prop), NEW p \in Prop, NEW r, r = Append(props, p)
    PROVE  /\ r \in Seq(Prop)
           /\ FirstsOf(r) = IF \E i \in FirstsOf(props) : props[i].name = p.name THEN FirstsOf(props)
                            ELSE FirstsOf(props) \cup {Len(r)}
<1> DEFINE l == Len(props)
<1>1. /\ r \in Seq(Prop) /\ Len(r) = l + 1 /\ r[l + 1] = p /\ \A i \in 1 .. l : r[i] = props[i]
      /\ DOMAIN props = 1 .. l /\ l \in Nat /\ DOMAIN r = 1 .. l + 1
  BY AppendProperties, LenProperties
<1> HIDE DEF l
<1>2. 1 .. l + 1 = (1 .. l) \cup {l + 1} /\ l + 1 \notin 1 .. l /\ (l + 1) - 1 = l
  BY <1>1
<1>3. ASSUME NEW i \in 1 .. l
      PROVE  i \in FirstsOf(r) <=> i \in FirstsOf(props)
  <2>1. \A j \in 1 .. i - 1 : j \in 1 .. l
    BY <1>1
  <2>2. QED BY <1>1, <1>2, <2>1 DEF FirstsOf
<1>4. l + 1 \in FirstsOf(r) <=> \A j \in 1 .. l : props[j].name # p.name
  BY <1>1, <1>2 DEF FirstsOf
<1>5. (\E j \in 1 .. l : props[j].name = p.name) <=> \E i \in FirstsOf(props) : props[i].name = p.name
  <2>1. ASSUME NEW j \in 1 .. l, props[j].name = p.name
        PROVE  \E i \in FirstsOf(props) : props[i].name = p.name
    <3>1. PICK i \in FirstsOf(props) : props[i].name = props[j].name
      BY FirstOfName DEF l
    <3>2. QED BY <2>1, <3>1
  <2>2. FirstsOf(props) \subseteq 1 .. l
    BY <1>1 DEF FirstsOf
  <2>3. QED BY <2>1, <2>2
<1>6. FirstsOf(r) \subseteq 1 .. l + 1 /\ FirstsOf(props) \subseteq 1 .. l
  BY <1>1 DEF FirstsOf
<1>7. FirstsOf(r) = IF \E i \in FirstsOf(props) : props[i].name = p.name THEN FirstsOf(props)
                    ELSE FirstsOf(props) \cup {l + 1}
  <2> DEFINE has == \E i \in FirstsOf(props) : props[i].name = p.name
  <2>1. l + 1 \in FirstsOf(r) <=> ~has
    <3>1. (\A j \in 1 .. l : props[j].name # p.name) <=> ~(\E j \in 1 .. l : props[j].name = p.name)
      OBVIOUS
    <3>2. QED BY <1>4, <1>5, <3>1
  <2> HIDE DEF has
  <2>2. ASSUME NEW i
        PROVE  i \in FirstsOf(r) <=> i \in FirstsOf(props) \/ (~has /\ i = l + 1)
    BY <1>2, <1>3, <1>6, <2>1
  <2>3. CASE has
    <3>1. FirstsOf(r) = FirstsOf(props)
      BY <2>2, <2>3
    <3>2. QED BY <2>3, <3>1 DEF has
  <2>4. CASE ~has
    <3>1. FirstsOf(r) = FirstsOf(props) \cup {l + 1}
      BY <2>2, <2>4
    <3>2. QED BY <2>4, <3>1 DEF has
  <2>5. QED BY <2>3, <2>4
<1>8. QED BY <1>1, <1>3, <1>6, <1>7

LEMMA FirstIsLeast ==
    ASSUME NEW props \in Seq(Prop), NEW i \in FirstsOf(props)
    PROVE  Min({j \in DOMAIN props : props[j].name = props[i].name}) = i
<1> DEFINE T == {j \in DOMAIN props : props[j].name = props[i].name}
<1>1. DOMAIN props = 1 .. Len(props) /\ Len(props) \in Nat /\ i \in 1 .. Len(props)
  BY LenProperties DEF FirstsOf
<1>2. ASSUME NEW j \in T
      PROVE  i <= j
  <2>1. j \notin 1 .. i - 1
    BY <1>2 DEF FirstsOf
  <2>2. j \in Nat /\ j >= 1 /\ i \in Nat
    BY <1>1, <1>2
  <2>3. QED BY <2>1, <2>2
<1>3. i \in T /\ T \subseteq Nat
  BY <1>1
<1> HIDE DEF T
<1>4. Min(T) \in T /\ \A j \in T : Min(T) <= j
  BY <1>2, <1>3 DEF Min
<1>5. Min(T) <= i /\ i <= Min(T) /\ Min(T) \in Nat /\ i \in Nat
  BY <1>2, <1>3, <1>4
<1>6. QED BY <1>5 DEF T

(* The value of the first prop of a name is set. *)
IsSetIn(props, i, v, r) == i \in FirstsOf(props) /\ v \in Texts /\ r = [props EXCEPT ![i].value = v]

LEMMA ValueSetTo ==
    ASSUME NEW props \in Seq(Prop), NEW i, NEW v, NEW r, IsSetIn(props, i, v, r)
    PROVE  r \in Seq(Prop) /\ FirstsOf(r) = FirstsOf(props)
<1>1. /\ DOMAIN props = 1 .. Len(props) /\ Len(props) \in Nat /\ i \in 1 .. Len(props)
      /\ \A j \in 1 .. Len(props) : props[j] \in Prop
  BY LenProperties, ElementOfSeq DEF FirstsOf, IsSetIn
<1> DEFINE q == [props[i] EXCEPT !.value = v]
<1>2. q \in Prop /\ q.name = props[i].name /\ q.value = v
  BY <1>1 DEF Prop, IsSetIn
<1>3. r = [props EXCEPT ![i] = q]
  BY DEF IsSetIn
<1> HIDE DEF q
<1>4. r \in Seq(Prop) /\ DOMAIN r = DOMAIN props /\ r[i] = q /\ \A j \in DOMAIN props : j # i => r[j] = props[j]
  BY <1>1, <1>2, <1>3, ExceptSeq
<1>5. \A j \in DOMAIN props : r[j].name = props[j].name
  BY <1>2, <1>4
<1>6. FirstsOf(r) = FirstsOf(props)
  <2>1. \A j \in DOMAIN props : \A k \in 1 .. j - 1 : k \in DOMAIN props
    BY <1>1
  <2>2. QED BY <1>4, <1>5, <2>1 DEF FirstsOf
<1>7. QED BY <1>4, <1>6

LEMMA OthersStill ==
    ASSUME NEW props \in Seq(Prop), NEW i, NEW v, NEW r, r = [props EXCEPT ![i].value = v],
           NEW j \in FirstsOf(props), j # i
    PROVE  r[j] = props[j]
<1>1. j \in DOMAIN props
  BY DEF FirstsOf
<1>2. QED BY <1>1

-----------------------------------------------------------------------------
(* One node of the tree, and its wrapper, are others.                       *)
IsReplaced(t, w, n, x, y, u, v) ==
    /\ n \in 1 .. Len(t) /\ x \in TreeNode /\ y \in Wrapper /\ IsWrapped(x, y)
    /\ u = [t EXCEPT ![n] = x] /\ v = [w EXCEPT ![n] = y]

LEMMA NodeReplaced ==
    ASSUME NEW t \in Seq(TreeNode), NEW w, AreWrapped(t, w),
           NEW n, NEW x, NEW y, NEW u, NEW v, IsReplaced(t, w, n, x, y, u, v)
    PROVE  /\ u \in Seq(TreeNode) /\ Len(u) = Len(t) /\ u[n] = x /\ AreWrapped(u, v)
           /\ \A m \in 1 .. Len(t) : m # n => u[m] = t[m]
<1>1. w \in Seq(Wrapper) /\ Len(w) = Len(t) /\ \A m \in 1 .. Len(t) : IsWrapped(t[m], w[m])
  BY DEF AreWrapped
<1>0. /\ n \in 1 .. Len(t) /\ x \in TreeNode /\ y \in Wrapper /\ IsWrapped(x, y)
      /\ u = [t EXCEPT ![n] = x] /\ v = [w EXCEPT ![n] = y]
  BY DEF IsReplaced
<1>2. u \in Seq(TreeNode) /\ Len(u) = Len(t) /\ u[n] = x /\ \A m \in 1 .. Len(t) : m # n => u[m] = t[m]
  BY <1>0, ExceptSeq
<1>3. v \in Seq(Wrapper) /\ Len(v) = Len(t) /\ v[n] = y /\ \A m \in 1 .. Len(t) : m # n => v[m] = w[m]
  BY <1>0, <1>1, ExceptSeq
<1>4. \A m \in 1 .. Len(u) : IsWrapped(u[m], v[m])
  BY <1>0, <1>1, <1>2, <1>3
<1>5. QED BY <1>2, <1>3, <1>4 DEF AreWrapped

LEMMA NodeAdded ==
    ASSUME NEW t \in Seq(TreeNode), NEW w, AreWrapped(t, w), NEW x \in TreeNode, NEW y \in Wrapper, IsWrapped(x, y)
    PROVE  /\ Append(t, x) \in Seq(TreeNode) /\ Len(Append(t, x)) = Len(t) + 1
           /\ AreWrapped(Append(t, x), Append(w, y))
           /\ \A m \in 1 .. Len(t) : Append(t, x)[m] = t[m]
<1>1. w \in Seq(Wrapper) /\ Len(w) = Len(t) /\ Len(t) \in Nat /\ \A m \in 1 .. Len(t) : IsWrapped(t[m], w[m])
  BY LenProperties DEF AreWrapped
<1>2. PICK u, v : u = Append(t, x) /\ v = Append(w, y)
  OBVIOUS
<1>3. u \in Seq(TreeNode) /\ Len(u) = Len(t) + 1 /\ u[Len(t) + 1] = x /\ \A m \in 1 .. Len(t) : u[m] = t[m]
  BY <1>2, AppendProperties
<1>4. v \in Seq(Wrapper) /\ Len(v) = Len(t) + 1 /\ v[Len(t) + 1] = y /\ \A m \in 1 .. Len(t) : v[m] = w[m]
  BY <1>1, <1>2, AppendProperties
<1>5. 1 .. Len(t) + 1 = (1 .. Len(t)) \cup {Len(t) + 1}
  BY <1>1
<1>6. \A m \in 1 .. Len(t) + 1 : IsWrapped(u[m], v[m])
  BY <1>1, <1>3, <1>4, <1>5
<1>7. AreWrapped(u, v)
  BY <1>3, <1>4, <1>6 DEF AreWrapped
<1>8. QED BY <1>2, <1>3, <1>7

LEMMA InTreeStill ==
    ASSUME NEW t, NEW u, NEW c, IsInTree(t, c), Len(t) \in Nat, Len(u) \in Nat, Len(t) <= Len(u),
           \A n \in 1 .. Len(t) : \A i \in FirstsOf(t[n].props) :
              i \in FirstsOf(u[n].props) /\ u[n].props[i] = t[n].props[i]
    PROVE  IsInTree(u, c)
<1>1. PICK n \in 1 .. Len(t) : \E i \in FirstsOf(t[n].props) : c = <<n, i, t[n].props[i].value>>
  BY DEF IsInTree
<1>2. PICK i \in FirstsOf(t[n].props) : c = <<n, i, t[n].props[i].value>>
  BY <1>1
<1>3. n \in 1 .. Len(u) /\ i \in FirstsOf(u[n].props) /\ c = <<n, i, u[n].props[i].value>>
  BY <1>2
<1>4. QED BY <1>3 DEF IsInTree

(* What is said of the nodes of the tree, and of those of a wrapper.        *)
LEMMA NodeTypes ==
    ASSUME NEW t \in Seq(TreeNode), NEW w, AreWrapped(t, w), NEW n \in 1 .. Len(t)
    PROVE  /\ t[n] \in TreeNode /\ t[n].props \in Seq(Prop) /\ t[n].items \in Seq(Item)
           /\ w[n] \in Wrapper /\ IsWrapped(t[n], w[n]) /\ DOMAIN w = 1 .. Len(t) /\ DOMAIN t = 1 .. Len(t)
           /\ Len(t) \in Nat
<1>1. t[n] \in TreeNode /\ DOMAIN t = 1 .. Len(t) /\ Len(t) \in Nat
  BY ElementOfSeq, LenProperties
<1>2. w \in Seq(Wrapper) /\ Len(w) = Len(t) /\ IsWrapped(t[n], w[n])
  BY DEF AreWrapped
<1>3. w[n] \in Wrapper /\ DOMAIN w = 1 .. Len(t)
  BY <1>2, ElementOfSeq, LenProperties
<1>4. QED BY <1>1, <1>2, <1>3 DEF TreeNode

(* A tree that is parsed, and its wrappers. *)
LEMMA SourceIsWrapped ==
    ASSUME NEW source \in Sources
    PROVE  source \in Seq(TreeNode) /\ AreWrapped(source, [n \in DOMAIN source |-> Wrapped(source[n])])
<1> DEFINE w == [n \in DOMAIN source |-> Wrapped(source[n])]
<1>1. source \in Seq(TreeNode)
  BY DocumentAssumption DEF Trees, TreeNode
<1>2. DOMAIN source = 1 .. Len(source) /\ Len(source) \in Nat
  BY <1>1, LenProperties
<1>3. ASSUME NEW n \in 1 .. Len(source)
      PROVE  w[n] \in Wrapper /\ IsWrapped(source[n], w[n])
  <2>1. source[n] \in TreeNode
    BY <1>1, ElementOfSeq
  <2>2. PICK props \in Seq(Prop), items \in Seq(Item) : props = source[n].props /\ items = source[n].items
    BY <2>1 DEF TreeNode
  <2>3. DOMAIN props = 1 .. Len(props) /\ Len(props) \in Nat /\ DOMAIN items = 1 .. Len(items) /\ Len(items) \in Nat
    BY <2>2, LenProperties
  <2>4. ChildrenOf(items) \in SUBSET Nat /\ DOMAIN props \in SUBSET Nat
    BY <2>3 DEF ChildrenOf
  <2>5. LastText(items) \in Seq(Item)
    <3>1. ASSUME TextsOf(items) # {}
          PROVE  items[Max(TextsOf(items))] \in Item
      <4>1. TextsOf(items) \in SUBSET (1 .. Len(items))
        BY <2>3 DEF TextsOf
      <4>2. Max(TextsOf(items)) \in 1 .. Len(items)
        BY <2>3, <3>1, <4>1, GreatestOf
      <4>3. QED BY <2>2, <4>2, ElementOfSeq
    <3>2. QED BY <3>1 DEF LastText
  <2>6. DOMAIN props = FirstsOf(props)
    <3>1. \A i, j \in DOMAIN props : props[i].name = props[j].name => i = j
      BY <1>2, <2>2, DocumentAssumption
    <3>2. ASSUME NEW i \in DOMAIN props, NEW j \in 1 .. i - 1
          PROVE  props[j].name # props[i].name
      <4>1. j \in DOMAIN props /\ j # i
        BY <2>3
      <4>2. QED BY <3>1, <4>1
    <3>3. QED BY <3>2 DEF FirstsOf
  <2>7. w[n] = [children |-> ChildrenOf(items), attributes |-> DOMAIN props, text |-> LastText(items)]
    BY <1>2, <2>2 DEF Wrapped
  <2> HIDE DEF w
  <2>8. w[n] \in Wrapper
    BY <2>4, <2>5, <2>7 DEF Wrapper
  <2>9. IsWrapped(source[n], w[n])
    BY <2>2, <2>6, <2>7 DEF IsWrapped
  <2>10. QED BY <2>8, <2>9
<1>4. DOMAIN w = 1 .. Len(source)
  BY <1>2
<1> HIDE DEF w
<1>5. w \in Seq(Wrapper) /\ Len(w) = Len(source)
  <2>1. w = [n \in 1 .. Len(source) |-> w[n]]
    BY <1>4 DEF w
  <2>2. w \in [1 .. Len(source) -> Wrapper]
    BY <1>3, <2>1
  <2>3. w \in Seq(Wrapper)
    BY <1>2, <2>2, SeqDef
  <2>4. QED BY <1>2, <1>4, <2>3, LenProperties
<1>6. AreWrapped(source, w)
  BY <1>3, <1>5 DEF AreWrapped
<1>7. QED BY <1>1, <1>6 DEF w

-----------------------------------------------------------------------------
(* The steps of the document.                                               *)
LEMMA AliveIs ==
    ASSUME DocumentIsSound, root # 0, root = handler
    PROVE  tree \in Seq(TreeNode) /\ AreWrapped(tree, nodes) /\ \A c \in cached : IsInTree(tree, c)
BY DEF DocumentIsSound, IsRead, IsAlive

(* Of a tree that was freed, nothing is changed. *)
LEMMA NothingToKeep ==
    ASSUME DocumentIsSound, UNCHANGED <<parses, root, handler, tree>>, ~(root # 0 /\ root = handler)
    PROVE  DocumentIsSound'
BY DEF DocumentIsSound, IsRead, IsAlive

LEMMA SoundAgain ==
    ASSUME DocumentIsSound, UNCHANGED <<parses, root, handler>>, tree' \in Seq(TreeNode), AreWrapped(tree', nodes'),
           \A c \in cached' : IsInTree(tree', c)
    PROVE  DocumentIsSound'
BY DEF DocumentIsSound

LEMMA ParseStep ==
    ASSUME DocumentIsSound, NEW source \in Sources, NEW e, NEW isParsed \in BOOLEAN, NEW isAccepted \in BOOLEAN,
           Parse(source, e, isParsed, isAccepted)
    PROVE  DocumentIsSound'
<1>1. parses' = parses + 1 /\ parses \in Nat /\ parses' \in Nat /\ root \in 0 .. parses /\ tree \in Seq(TreeNode)
  BY DEF DocumentIsSound, Parse
<1>2. source \in Seq(TreeNode) /\ AreWrapped(source, [n \in DOMAIN source |-> Wrapped(source[n])])
  BY SourceIsWrapped
<1>3. <<>> \in Seq(TreeNode)
  BY EmptySeq
<1>4. CASE isParsed /\ isAccepted
  <2>1. /\ handler' = parses' /\ root' = parses' /\ tree' = source /\ cached' = {}
        /\ nodes' = [n \in DOMAIN source |-> Wrapped(source[n])]
    BY <1>4 DEF Parse
  <2>2. AreWrapped(tree', nodes') /\ tree' \in Seq(TreeNode)
    BY <1>2, <2>1
  <2>3. root' \in 0 .. parses' /\ handler' \in 0 .. parses'
    BY <1>1, <2>1
  <2>4. QED BY <1>1, <2>1, <2>2, <2>3 DEF DocumentIsSound
<1>5. CASE isParsed /\ ~isAccepted
  <2>1. handler' = parses' /\ root' = root /\ tree' = source
    BY <1>5 DEF Parse
  <2>2. root' # handler' /\ root' \in 0 .. parses' /\ handler' \in 0 .. parses'
    BY <1>1, <2>1
  <2>3. QED BY <1>1, <1>2, <2>1, <2>2 DEF DocumentIsSound, IsAlive
<1>6. CASE ~isParsed
  <2>1. handler' = 0 /\ root' = root /\ tree' = <<>>
    BY <1>6 DEF Parse
  <2>2. root' \in 0 .. parses' /\ handler' \in 0 .. parses' /\ (root' # 0 => root' # handler')
    BY <1>1, <2>1
  <2>3. QED BY <1>1, <1>3, <2>1, <2>2 DEF DocumentIsSound, IsAlive, IsRead
<1>7. QED BY <1>4, <1>5, <1>6

LEMMA CreateChildStep ==
    ASSUME DocumentIsSound, NEW n, CreateChild(n)
    PROVE  DocumentIsSound'
<1>1. UNCHANGED <<parses, root, handler, cached>> /\ root # 0
  BY DEF CreateChild, Edits, Reads, IsRead
<1>2. CASE root # handler
  <2>1. tree' = tree
    BY <1>2 DEF CreateChild, IsAlive
  <2>2. QED BY <1>1, <1>2, <2>1, NothingToKeep
<1>3. CASE root = handler
  <2>1. tree \in Seq(TreeNode) /\ AreWrapped(tree, nodes) /\ \A c \in cached : IsInTree(tree, c)
    BY <1>1, <1>3, AliveIs
  <2>2. PICK was, l, items : was = tree[n] /\ l = Len(tree) /\ items = Append(tree[n].items, NodeItem(Len(tree) + 1))
    OBVIOUS
  <2>3. PICK w : w = nodes[n]
    OBVIOUS
  <2>4. n \in 1 .. l /\ l \in Nat
    <3>1. n \in DOMAIN nodes
      BY <1>3 DEF CreateChild, Edits, Reads, IsAlive
    <3>2. DOMAIN nodes = 1 .. l /\ l \in Nat
      BY <2>1, <2>2, LenProperties DEF AreWrapped
    <3>3. QED BY <3>1, <3>2
  <2>5. /\ was \in TreeNode /\ was.props \in Seq(Prop) /\ was.items \in Seq(Item) /\ w \in Wrapper /\ IsWrapped(was, w)
        /\ DOMAIN nodes = 1 .. l /\ DOMAIN tree = 1 .. l
    BY <2>1, <2>2, <2>3, <2>4, NodeTypes
  <2> DEFINE x == [was EXCEPT !.items = items]
             y == [w EXCEPT !.children = @ \cup {Len(items)}]
             t == [tree EXCEPT ![n] = x]
             ws == [nodes EXCEPT ![n] = y]
             x2 == [props |-> <<>>, items |-> <<>>]
             y2 == [children |-> {}, attributes |-> {}, text |-> <<>>]
  <2>6. tree' = Append(t, x2) /\ nodes' = Append(ws, y2)
    BY <1>3, <2>2, <2>3, <2>4, <2>5 DEF CreateChild, IsAlive
  <2>7. /\ items \in Seq(Item) /\ Len(items) \in Nat /\ ChildrenOf(items) = ChildrenOf(was.items) \cup {Len(items)}
        /\ LastText(items) = LastText(was.items)
    <3>1. PICK k \in Nat : k = l + 1
      BY <2>4
    <3>2. NodeItem(k) \in Item /\ "node" \in DOMAIN NodeItem(k)
      BY DEF NodeItem, Item
    <3>3. items = Append(was.items, NodeItem(k))
      BY <2>2, <3>1
    <3>4. QED BY <2>5, <3>2, <3>3, ItemAdded, LenProperties, ZenonT(30)
  <2>8. x \in TreeNode /\ x.items = items /\ x.props = was.props
    BY <2>5, <2>7 DEF TreeNode
  <2>9. y \in Wrapper /\ y.children = w.children \cup {Len(items)} /\ y.attributes = w.attributes /\ y.text = w.text
    BY <2>5, <2>7 DEF Wrapper
  <2>10. IsWrapped(x, y)
    BY <2>5, <2>7, <2>8, <2>9 DEF IsWrapped
  <2>11. x2 \in TreeNode /\ y2 \in Wrapper /\ IsWrapped(x2, y2)
    <3>1. PICK e : e = <<>>
      OBVIOUS
    <3>2. e \in Seq(Prop) /\ e \in Seq(Item) /\ DOMAIN e = {}
      BY <3>1, EmptySeq
    <3>3. x2 = [props |-> e, items |-> e] /\ y2 = [children |-> {}, attributes |-> {}, text |-> e]
      BY <3>1
    <3>4. ChildrenOf(e) = {} /\ FirstsOf(e) = {} /\ TextsOf(e) = {}
      BY <3>2 DEF ChildrenOf, FirstsOf, TextsOf
    <3>5. LastText(e) = e
      BY <3>1, <3>4 DEF LastText
    <3>6. x2 \in TreeNode
      BY <3>2, <3>3 DEF TreeNode
    <3>7. y2 \in Wrapper
      BY <3>2, <3>3 DEF Wrapper
    <3> HIDE DEF x2, y2
    <3>8. x2.props = e /\ x2.items = e /\ y2.children = {} /\ y2.attributes = {} /\ y2.text = e
      BY <3>3
    <3>9. QED BY <3>4, <3>5, <3>6, <3>7, <3>8 DEF IsWrapped
  <2> HIDE DEF x, y, x2, y2
  <2>12. /\ t \in Seq(TreeNode) /\ Len(t) = l /\ t[n] = x /\ AreWrapped(t, ws)
         /\ \A m \in 1 .. l : m # n => t[m] = tree[m]
    <3>1. IsReplaced(tree, nodes, n, x, y, t, ws)
      BY <2>2, <2>4, <2>8, <2>9, <2>10 DEF IsReplaced
    <3> HIDE DEF t, ws
    <3>2. QED BY <2>1, <2>2, <3>1, NodeReplaced
  <2> HIDE DEF t, ws
  <2>13. /\ tree' \in Seq(TreeNode) /\ Len(tree') = l + 1 /\ AreWrapped(tree', nodes')
         /\ \A m \in 1 .. l : tree'[m] = t[m]
    <3>1. /\ Append(t, x2) \in Seq(TreeNode) /\ Len(Append(t, x2)) = Len(t) + 1
          /\ AreWrapped(Append(t, x2), Append(ws, y2))
          /\ \A m \in 1 .. Len(t) : Append(t, x2)[m] = t[m]
      BY <2>11, <2>12, NodeAdded
    <3>2. QED BY <2>6, <2>12, <3>1
  <2>14. \A m \in 1 .. l : tree'[m].props = tree[m].props
    BY <2>2, <2>8, <2>12, <2>13
  <2>15. \A c \in cached' : IsInTree(tree', c)
    <3>1. PICK u : u = tree'
      OBVIOUS
    <3>2. \A m \in 1 .. Len(tree) : u[m].props = tree[m].props
      BY <2>2, <2>14, <3>1
    <3>3. Len(u) \in Nat /\ Len(tree) \in Nat /\ Len(tree) <= Len(u)
      BY <2>2, <2>4, <2>13, <3>1
    <3>4. \A c \in cached : IsInTree(u, c)
      BY <2>1, <3>2, <3>3, InTreeStill
    <3>5. QED BY <1>1, <3>1, <3>4
  <2>16. QED BY <1>1, <2>13, <2>15, SoundAgain
<1>4. QED BY <1>2, <1>3

LEMMA NodeOfEdit ==
    ASSUME DocumentIsSound, root # 0, root = handler, NEW n, n \in DOMAIN nodes
    PROVE  /\ n \in 1 .. Len(tree) /\ Len(tree) \in Nat
           /\ tree[n] \in TreeNode /\ tree[n].props \in Seq(Prop) /\ tree[n].items \in Seq(Item)
           /\ nodes[n] \in Wrapper /\ IsWrapped(tree[n], nodes[n])
           /\ DOMAIN nodes = 1 .. Len(tree) /\ DOMAIN tree = 1 .. Len(tree)
<1>1. tree \in Seq(TreeNode) /\ AreWrapped(tree, nodes)
  BY AliveIs
<1>2. n \in 1 .. Len(tree)
  BY <1>1, LenProperties DEF AreWrapped
<1>3. QED BY <1>1, <1>2, NodeTypes

LEMMA CreateAttributeStep ==
    ASSUME DocumentIsSound, NEW n, NEW name \in AttributeNames, NEW value \in Texts, CreateAttribute(n, name, value)
    PROVE  DocumentIsSound'
<1>1. UNCHANGED <<parses, root, handler, cached>> /\ root # 0
  BY DEF CreateAttribute, Edits, Reads, IsRead
<1>2. CASE root # handler
  <2>1. tree' = tree
    BY <1>2 DEF CreateAttribute, IsAlive
  <2>2. QED BY <1>1, <1>2, <2>1, NothingToKeep
<1>3. CASE root = handler
  <2>1. tree \in Seq(TreeNode) /\ AreWrapped(tree, nodes) /\ \A c \in cached : IsInTree(tree, c)
    BY <1>1, <1>3, AliveIs
  <2>2. PICK was, w, p, props : was = tree[n] /\ w = nodes[n] /\ p = [name |-> name, value |-> value]
                                /\ props = Append(was.props, p)
    OBVIOUS
  <2>3. /\ n \in 1 .. Len(tree) /\ Len(tree) \in Nat
        /\ was \in TreeNode /\ was.props \in Seq(Prop) /\ was.items \in Seq(Item) /\ w \in Wrapper /\ IsWrapped(was, w)
        /\ DOMAIN nodes = 1 .. Len(tree) /\ DOMAIN tree = 1 .. Len(tree)
    <3>1. n \in DOMAIN nodes
      BY <1>3 DEF CreateAttribute, Edits, Reads, IsAlive
    <3>2. QED BY <1>1, <1>3, <2>2, <3>1, NodeOfEdit
  <2>4. p \in Prop /\ p.name = name
    BY <2>2 DEF Prop
  <2>5. /\ props \in Seq(Prop) /\ Len(props) \in Nat /\ \A i \in FirstsOf(was.props) : i \in FirstsOf(props) /\ props[i] = was.props[i]
        /\ FirstsOf(props) = IF \E i \in FirstsOf(was.props) : was.props[i].name = name THEN FirstsOf(was.props)
                             ELSE FirstsOf(was.props) \cup {Len(props)}
    <3>1. /\ props \in Seq(Prop) /\ \A i \in FirstsOf(was.props) : i \in FirstsOf(props) /\ props[i] = was.props[i]
          /\ FirstsOf(props) = IF \E i \in FirstsOf(was.props) : was.props[i].name = p.name THEN FirstsOf(was.props)
                               ELSE FirstsOf(was.props) \cup {Len(props)}
      <4>1. PICK ps : ps = was.props
        OBVIOUS
      <4>2. ps \in Seq(Prop) /\ p \in Prop /\ props = Append(ps, p)
        BY <2>2, <2>3, <2>4, <4>1
      <4>3. ASSUME NEW i \in FirstsOf(ps)
            PROVE  i \in FirstsOf(props) /\ props[i] = ps[i]
        BY <4>2, FirstStill
      <4>4. /\ props \in Seq(Prop)
            /\ FirstsOf(props) = IF \E i \in FirstsOf(ps) : ps[i].name = p.name THEN FirstsOf(ps)
                                 ELSE FirstsOf(ps) \cup {Len(props)}
        BY <4>2, PropAdded
      <4>5. QED BY <4>1, <4>3, <4>4
    <3>2. QED BY <2>4, <3>1, LenProperties
  <2> DEFINE has == \E i \in w.attributes : was.props[i].name = name
             x == [was EXCEPT !.props = props]
             y == IF has THEN w ELSE [w EXCEPT !.attributes = @ \cup {Len(props)}]
  <2>6. tree' = [tree EXCEPT ![n] = x] /\ nodes' = [nodes EXCEPT ![n] = y]
    <3>1. tree' = [tree EXCEPT ![n].props = props]
      BY <1>3, <2>2 DEF CreateAttribute, IsAlive
    <3>2. nodes' = IF has THEN nodes ELSE [nodes EXCEPT ![n].attributes = @ \cup {Len(props)}]
      BY <1>3, <2>2 DEF CreateAttribute, IsAlive
    <3>3. nodes = [nodes EXCEPT ![n] = w]
      <4>1. nodes \in Seq(Wrapper)
        BY <2>1 DEF AreWrapped
      <4>2. QED BY <2>2, <4>1
    <3>4. tree' = [tree EXCEPT ![n] = x]
      BY <2>2, <2>3, <3>1
    <3>5. nodes' = [nodes EXCEPT ![n] = y]
      <4>1. CASE has
        BY <3>2, <3>3, <4>1
      <4>2. CASE ~has
        BY <2>2, <2>3, <3>2, <4>2
      <4>3. QED BY <4>1, <4>2
    <3>6. QED BY <3>4, <3>5
  <2>7. x \in TreeNode /\ x.items = was.items /\ x.props = props
    BY <2>3, <2>5 DEF TreeNode
  <2>8. /\ w.children = ChildrenOf(was.items) /\ w.attributes = FirstsOf(was.props) /\ w.text = LastText(was.items)
    BY <2>3 DEF IsWrapped
  <2>9. y \in Wrapper /\ y.children = w.children /\ y.attributes = FirstsOf(props) /\ y.text = w.text
    <3>1. CASE has
      <4>1. y = w
        BY <3>1
      <4>2. FirstsOf(props) = w.attributes
        BY <2>5, <2>8, <3>1
      <4>3. QED BY <2>3, <4>1, <4>2
    <3>2. CASE ~has
      <4>1. y = [w EXCEPT !.attributes = @ \cup {Len(props)}]
        BY <3>2
      <4>2. FirstsOf(props) = w.attributes \cup {Len(props)}
        BY <2>5, <2>8, <3>2
      <4> HIDE DEF y, has
      <4>3. QED BY <2>3, <2>5, <4>1, <4>2 DEF Wrapper
    <3>3. QED BY <3>1, <3>2
  <2> HIDE DEF x, y, has
  <2>10. IsReplaced(tree, nodes, n, x, y, tree', nodes')
    <3>1. IsWrapped(x, y)
      BY <2>7, <2>8, <2>9 DEF IsWrapped
    <3>2. QED BY <2>3, <2>6, <2>7, <2>9, <3>1 DEF IsReplaced
  <2>11. PICK t, ws : t = tree' /\ ws = nodes'
    OBVIOUS
  <2>12. /\ t \in Seq(TreeNode) /\ Len(t) = Len(tree) /\ t[n] = x /\ AreWrapped(t, ws)
         /\ \A m \in 1 .. Len(tree) : m # n => t[m] = tree[m]
    <3>1. IsReplaced(tree, nodes, n, x, y, t, ws)
      BY <2>10, <2>11
    <3>2. QED BY <2>1, <3>1, NodeReplaced
  <2>13. \A c \in cached : IsInTree(t, c)
    <3>1. \A m \in 1 .. Len(tree) : \A i \in FirstsOf(tree[m].props) :
             i \in FirstsOf(t[m].props) /\ t[m].props[i] = tree[m].props[i]
      BY <2>2, <2>5, <2>7, <2>12, ZenonT(30)
    <3>2. Len(t) \in Nat /\ Len(tree) <= Len(t)
      BY <2>3, <2>12
    <3>3. QED BY <2>1, <2>3, <3>1, <3>2, InTreeStill
  <2>14. QED BY <1>1, <2>11, <2>12, <2>13, SoundAgain
<1>4. QED BY <1>2, <1>3

LEMMA CreateTextStep ==
    ASSUME DocumentIsSound, NEW n, NEW text \in Texts, CreateText(n, text)
    PROVE  DocumentIsSound'
<1>1. UNCHANGED <<parses, root, handler, cached>> /\ root # 0
  BY DEF CreateText, Edits, Reads, IsRead
<1>2. CASE root # handler
  <2>1. tree' = tree
    BY <1>2 DEF CreateText, IsAlive
  <2>2. QED BY <1>1, <1>2, <2>1, NothingToKeep
<1>3. CASE root = handler
  <2>1. tree \in Seq(TreeNode) /\ AreWrapped(tree, nodes) /\ \A c \in cached : IsInTree(tree, c)
    BY <1>1, <1>3, AliveIs
  <2>2. PICK was, w, item, items : was = tree[n] /\ w = nodes[n] /\ item = TextItem(text)
                                   /\ items = Append(was.items, item)
    OBVIOUS
  <2>3. /\ n \in 1 .. Len(tree) /\ Len(tree) \in Nat
        /\ was \in TreeNode /\ was.props \in Seq(Prop) /\ was.items \in Seq(Item) /\ w \in Wrapper /\ IsWrapped(was, w)
        /\ DOMAIN nodes = 1 .. Len(tree) /\ DOMAIN tree = 1 .. Len(tree)
    <3>1. n \in DOMAIN nodes
      BY <1>3 DEF CreateText, Edits, Reads, IsAlive
    <3>2. QED BY <1>1, <1>3, <2>2, <3>1, NodeOfEdit
  <2>4. item \in Item /\ "text" \in DOMAIN item
    BY <2>2 DEF TextItem, Item
  <2>5. items \in Seq(Item) /\ ChildrenOf(items) = ChildrenOf(was.items) /\ LastText(items) = <<item>>
    <3>1. PICK is : is = was.items
      OBVIOUS
    <3>2. is \in Seq(Item) /\ item \in Item /\ items = Append(is, item)
      BY <2>2, <2>3, <2>4, <3>1
    <3>3. QED BY <2>4, <3>1, <3>2, ItemAdded
  <2> DEFINE x == [was EXCEPT !.items = items]
             y == [w EXCEPT !.text = <<item>>]
  <2>6. tree' = [tree EXCEPT ![n] = x] /\ nodes' = [nodes EXCEPT ![n] = y]
    <3>1. tree' = [tree EXCEPT ![n].items = items] /\ nodes' = [nodes EXCEPT ![n].text = <<item>>]
      <4>1. tree' = [tree EXCEPT ![n].items = Append(@, item)] /\ nodes' = [nodes EXCEPT ![n].text = <<item>>]
        BY <1>3, <2>2 DEF CreateText, IsAlive
      <4>2. QED BY <2>2, <4>1
    <3>2. QED BY <2>2, <2>3, <3>1
  <2>7. x \in TreeNode /\ x.items = items /\ x.props = was.props
    BY <2>3, <2>5 DEF TreeNode
  <2>8. y \in Wrapper /\ y.children = w.children /\ y.attributes = w.attributes /\ y.text = <<item>>
    <3>1. <<item>> \in Seq(Item)
      BY <2>4
    <3>2. QED BY <2>3, <3>1 DEF Wrapper
  <2> HIDE DEF x, y
  <2>9. IsWrapped(x, y)
    BY <2>3, <2>5, <2>7, <2>8 DEF IsWrapped
  <2>10. PICK t, ws : t = tree' /\ ws = nodes'
    OBVIOUS
  <2>11. /\ t \in Seq(TreeNode) /\ Len(t) = Len(tree) /\ t[n] = x /\ AreWrapped(t, ws)
         /\ \A m \in 1 .. Len(tree) : m # n => t[m] = tree[m]
    <3>1. IsReplaced(tree, nodes, n, x, y, t, ws)
      BY <2>3, <2>6, <2>7, <2>8, <2>9, <2>10 DEF IsReplaced
    <3>2. QED BY <2>1, <3>1, NodeReplaced
  <2>12. \A c \in cached : IsInTree(t, c)
    <3>1. \A m \in 1 .. Len(tree) : t[m].props = tree[m].props
      BY <2>2, <2>7, <2>11
    <3>2. Len(t) \in Nat /\ Len(tree) <= Len(t)
      BY <2>3, <2>11
    <3>3. QED BY <2>1, <2>3, <3>1, <3>2, InTreeStill
  <2>13. QED BY <1>1, <2>10, <2>11, <2>12, SoundAgain
<1>4. QED BY <1>2, <1>3

(* A value that is read is kept as it is in the tree. *)
LEMMA ValueIs ==
    ASSUME DocumentIsSound, root # 0, root = handler, NEW n, n \in DOMAIN nodes, NEW i, i \in nodes[n].attributes
    PROVE  /\ ValueOf(n, i) = tree[n].props[i].value
           /\ IsInTree(tree, <<n, i, tree[n].props[i].value>>)
<1>1. \A c \in cached : IsInTree(tree, c)
  BY AliveIs
<1>2. n \in 1 .. Len(tree) /\ i \in FirstsOf(tree[n].props)
  BY NodeOfEdit DEF IsWrapped
<1>3. ASSUME NEW c \in CachedOf(n, i)
      PROVE  c[3] = tree[n].props[i].value
  <2>1. c \in cached /\ c[1] = n /\ c[2] = i
    BY DEF CachedOf
  <2>2. PICK m \in 1 .. Len(tree) : \E j \in FirstsOf(tree[m].props) : c = <<m, j, tree[m].props[j].value>>
    BY <1>1, <2>1 DEF IsInTree
  <2>3. PICK j \in FirstsOf(tree[m].props) : c = <<m, j, tree[m].props[j].value>>
    BY <2>2
  <2>4. QED BY <2>1, <2>3
<1>4. ValueOf(n, i) = tree[n].props[i].value
  BY <1>3 DEF ValueOf
<1>5. QED BY <1>2, <1>4 DEF IsInTree

LEMMA GetValueStep ==
    ASSUME DocumentIsSound, NEW n, NEW i, GetValue(n, i)
    PROVE  DocumentIsSound'
<1>1. UNCHANGED <<parses, root, handler, tree, nodes>> /\ root # 0
  BY DEF GetValue, Reads, IsRead
<1>2. CASE root # handler
  BY <1>1, <1>2, NothingToKeep
<1>3. CASE root = handler
  <2>1. /\ n \in DOMAIN nodes /\ i \in nodes[n].attributes
        /\ cached' = cached \cup {<<n, i, tree[n].props[i].value>>}
    BY <1>3 DEF GetValue, Reads, IsAlive
  <2>2. IsInTree(tree, <<n, i, tree[n].props[i].value>>)
    BY <1>1, <1>3, <2>1, ValueIs
  <2>3. tree \in Seq(TreeNode) /\ AreWrapped(tree, nodes) /\ \A c \in cached : IsInTree(tree, c)
    BY <1>1, <1>3, AliveIs
  <2>4. \A c \in cached' : IsInTree(tree, c)
    BY <2>1, <2>2, <2>3
  <2>5. QED BY <1>1, <2>3, <2>4, SoundAgain
<1>4. QED BY <1>2, <1>3

(* xmlSetProp sets the first property of the name, which is the wrapped one. *)
LEMMA SetAttributeStep ==
    ASSUME DocumentIsSound, NEW n, NEW i, NEW value \in Texts, SetAttribute(n, i, value)
    PROVE  DocumentIsSound'
<1>1. UNCHANGED <<parses, root, handler, nodes>> /\ root # 0
  BY DEF SetAttribute, Edits, Reads, IsRead
<1>2. CASE root # handler
  <2>1. tree' = tree
    BY <1>2 DEF SetAttribute, IsAlive
  <2>2. QED BY <1>1, <1>2, <2>1, NothingToKeep
<1>3. CASE root = handler
  <2>1. tree \in Seq(TreeNode) /\ AreWrapped(tree, nodes) /\ \A c \in cached : IsInTree(tree, c)
    BY <1>1, <1>3, AliveIs
  <2>2. PICK was, w, ps, props : was = tree[n] /\ w = nodes[n] /\ ps = was.props /\ props = [ps EXCEPT ![i].value = value]
    OBVIOUS
  <2>3. n \in DOMAIN nodes /\ i \in w.attributes /\ cached' = cached \ CachedOf(n, i)
    BY <1>3, <2>2 DEF SetAttribute, Edits, Reads, IsAlive, Forgotten
  <2>4. /\ n \in 1 .. Len(tree) /\ Len(tree) \in Nat
        /\ was \in TreeNode /\ ps \in Seq(Prop) /\ w \in Wrapper /\ IsWrapped(was, w)
        /\ DOMAIN nodes = 1 .. Len(tree) /\ DOMAIN tree = 1 .. Len(tree)
    BY <1>1, <1>3, <2>2, <2>3, NodeOfEdit
  <2>5. i \in FirstsOf(ps)
    BY <2>2, <2>3, <2>4 DEF IsWrapped
  <2>6. /\ props \in Seq(Prop) /\ FirstsOf(props) = FirstsOf(ps)
        /\ Min({j \in DOMAIN ps : ps[j].name = ps[i].name}) = i
    <3>1. ps \in Seq(Prop) /\ i \in FirstsOf(ps) /\ value \in Texts /\ props = [ps EXCEPT ![i].value = value]
      BY <2>2, <2>4, <2>5
    <3>2. IsSetIn(ps, i, value, props)
      BY <3>1 DEF IsSetIn
    <3>3. props \in Seq(Prop) /\ FirstsOf(props) = FirstsOf(ps)
      BY <3>1, <3>2, ValueSetTo
    <3>4. QED BY <3>1, <3>3, FirstIsLeast
  <2>7. ASSUME NEW j \in FirstsOf(ps), j # i
        PROVE  props[j] = ps[j]
    BY <2>2, <2>4, <2>7, OthersStill
  <2> DEFINE x == [was EXCEPT !.props = props]
  <2>8. tree' = [tree EXCEPT ![n] = x]
    <3>1. tree' = [tree EXCEPT ![n].props[Min({j \in DOMAIN ps : ps[j].name = ps[i].name})].value = value]
      BY <1>3, <2>2 DEF SetAttribute, IsAlive
    <3>2. tree' = [tree EXCEPT ![n].props[i].value = value]
      BY <2>6, <3>1
    <3>3. QED BY <2>2, <2>4, <3>2
  <2>9. x \in TreeNode /\ x.items = was.items /\ x.props = props
    BY <2>4, <2>6 DEF TreeNode
  <2> HIDE DEF x
  <2>10. IsWrapped(x, w)
    BY <2>2, <2>4, <2>6, <2>9 DEF IsWrapped
  <2>11. PICK t : t = tree'
    OBVIOUS
  <2>12. /\ t \in Seq(TreeNode) /\ Len(t) = Len(tree) /\ t[n] = x /\ AreWrapped(t, nodes)
         /\ \A m \in 1 .. Len(tree) : m # n => t[m] = tree[m]
    <3>1. nodes = [nodes EXCEPT ![n] = w]
      <4>1. nodes \in Seq(Wrapper)
        BY <2>1 DEF AreWrapped
      <4>2. QED BY <2>2, <4>1
    <3>2. IsReplaced(tree, nodes, n, x, w, t, nodes)
      BY <2>4, <2>8, <2>9, <2>10, <2>11, <3>1 DEF IsReplaced
    <3>3. QED BY <2>1, <3>2, NodeReplaced
  <2>13. ASSUME NEW c \in cached'
         PROVE  IsInTree(t, c)
    <3>1. c \in cached /\ c \notin CachedOf(n, i)
      BY <2>3
    <3>2. PICK m \in 1 .. Len(tree) : \E j \in FirstsOf(tree[m].props) : c = <<m, j, tree[m].props[j].value>>
      BY <2>1, <3>1 DEF IsInTree
    <3>3. PICK j \in FirstsOf(tree[m].props) : c = <<m, j, tree[m].props[j].value>>
      BY <3>2
    <3>4. m \in 1 .. Len(t) /\ j \in FirstsOf(t[m].props)
      BY <2>2, <2>6, <2>9, <2>12, <3>3
    <3>5. t[m].props[j] = tree[m].props[j]
      <4>1. CASE m = n
        <5>1. j # i
          BY <3>1, <3>3, <4>1 DEF CachedOf
        <5>2. QED BY <2>2, <2>7, <2>9, <2>12, <3>3, <4>1, <5>1
      <4>2. CASE m # n
        BY <2>12, <4>2
      <4>3. QED BY <4>1, <4>2
    <3>6. QED BY <3>3, <3>4, <3>5 DEF IsInTree
  <2>14. QED BY <1>1, <2>11, <2>12, <2>13, SoundAgain
<1>4. QED BY <1>2, <1>3

LEMMA CompileStep ==
    ASSUME DocumentIsSound, CompileDocument \/ CompileNode
    PROVE  DocumentIsSound'
<1>1. UNCHANGED <<parses, root, handler, tree, nodes>> /\ root # 0
  BY DEF CompileDocument, CompileNode, Compile, IsRead
<1>2. CASE root # handler
  BY <1>1, <1>2, NothingToKeep
<1>3. CASE root = handler
  <2>1. \A c \in cached' : c \in cached \/ c \in KeptByCompile
    <3>1. PICK e : Compile(e)
      BY DEF CompileDocument, CompileNode
    <3>2. cached' = cached \cup KeptByCompile \/ \E kept \in SUBSET KeptByCompile : cached' = cached \cup kept
      BY <1>3, <3>1 DEF Compile, IsAlive
    <3>3. QED BY <3>2
  <2>2. ASSUME NEW c \in KeptByCompile
        PROVE  IsInTree(tree, c)
    <3>1. PICK n \in CompiledNodes : \E i \in nodes[n].attributes : c = <<n, i, ValueOf(n, i)>>
      BY DEF KeptByCompile
    <3>2. PICK i \in nodes[n].attributes : c = <<n, i, ValueOf(n, i)>>
      BY <3>1
    <3>3. n \in DOMAIN nodes
      BY DEF CompiledNodes
    <3>4. QED BY <1>1, <1>3, <3>2, <3>3, ValueIs
  <2>3. tree \in Seq(TreeNode) /\ AreWrapped(tree, nodes) /\ \A c \in cached : IsInTree(tree, c)
    BY <1>1, <1>3, AliveIs
  <2>4. \A c \in cached' : IsInTree(tree, c)
    BY <2>1, <2>2, <2>3
  <2>5. QED BY <1>1, <2>3, <2>4, SoundAgain
<1>4. QED BY <1>2, <1>3

LEMMA SetEncodingStep ==
    ASSUME DocumentIsSound, NEW e, SetEncoding(e)
    PROVE  DocumentIsSound'
<1>1. UNCHANGED <<parses, root, handler, tree, nodes, cached>>
  BY DEF SetEncoding
<1>2. QED BY <1>1 DEF DocumentIsSound, IsRead, IsAlive

LEMMA DocumentStep ==
    ASSUME DocumentIsSound, DocumentNext
    PROVE  DocumentIsSound'
<1>1. NewTexts \subseteq Texts
  BY DocumentAssumption
<1>2. QED
  BY <1>1, ParseStep, CreateChildStep, CreateAttributeStep, CreateTextStep, GetValueStep, SetAttributeStep, CompileStep,
     SetEncodingStep DEF DocumentNext

(* A text that an encoding keeps is written as it is in the tree.           *)
LEMMA WrittenAsInTree ==
    ASSUME NEW text \in Texts, NEW e, IsKeptBy(text, e)
    PROVE  Written(text, e) = InUtf8(text)
<1>1. Latin[text] = text
  BY DocumentAssumption DEF IsKeptBy, ContentOf
<1>2. text \in Ascii \/ e = "ISO-8859-1"
  BY DEF IsKeptBy
<1>3. QED BY <1>1, <1>2 DEF Written, InUtf8, ContentOf

LEMMA DocumentStutters ==
    ASSUME DocumentIsSound, UNCHANGED documentVars
    PROVE  DocumentIsSound'
<1>1. UNCHANGED <<parses, root, handler, tree, nodes, cached>>
  BY DEF documentVars
<1>2. QED BY <1>1 DEF DocumentIsSound, IsRead, IsAlive

LEMMA CompiledAsIs ==
    ASSUME DocumentIsSound
    PROVE  TreeIsCompiled
<1>1. SUFFICES ASSUME IsRead, IsAlive, NEW n \in CompiledNodes, NEW e \in Encodings, IsPlain(n),
                      \A text \in TreeTexts(n) : IsKeptBy(text, e)
               PROVE  CompiledNode(n, e) = AsInTree(n)
  BY DEF TreeIsCompiled
<1>2. n \in DOMAIN nodes /\ root # 0 /\ root = handler
  BY <1>1 DEF CompiledNodes, IsRead, IsAlive
<1>3. PICK props, items, w : props = tree[n].props /\ items = tree[n].items /\ w = nodes[n]
  OBVIOUS
<1>4. /\ props \in Seq(Prop) /\ items \in Seq(Item)
      /\ w.children = ChildrenOf(items) /\ w.attributes = FirstsOf(props) /\ w.text = LastText(items)
  BY <1>2, <1>3, NodeOfEdit DEF IsWrapped
<1>5. DOMAIN items = 1 .. Len(items) /\ items = [i \in DOMAIN items |-> items[i]] /\ \A i \in DOMAIN items : items[i] \in Item
  BY <1>4, LenProperties, ElementOfSeq
<1>6. /\ \A i \in FirstsOf(props) : IsKeptBy(props[i].value, e)
      /\ \A i \in TextsOf(items) : IsKeptBy(items[i].text, e)
  BY <1>1, <1>3 DEF TreeTexts
<1>7. AsInTree(n) = [attributes |-> {<<props[i].name, InUtf8(props[i].value)>> : i \in FirstsOf(props)},
                     items |-> [i \in DOMAIN items |-> IF i \in TextsOf(items) THEN InUtf8(items[i].text) ELSE items[i]]]
  BY <1>3 DEF AsInTree
<1>8. CASE TextsOf(items) = {}
  <2>1. w.text = <<>>
    BY <1>4, <1>8 DEF LastText
  <2>2. ChildrenOf(items) = DOMAIN items
    BY <1>5, <1>8, ItemIs DEF ChildrenOf, TextsOf
  <2>3. ASSUME NEW i \in FirstsOf(props)
        PROVE  Written(ValueOf(n, i), e) = InUtf8(props[i].value)
    <3>1. ValueOf(n, i) = props[i].value
      BY <1>2, <1>3, <1>4, ValueIs
    <3>2. props[i] \in Prop
      BY <1>4, ElementOfSeq, LenProperties DEF FirstsOf
    <3>3. props[i].value \in Texts
      BY <3>2 DEF Prop
    <3>4. QED BY <1>6, <3>1, <3>3, WrittenAsInTree
  <2>4. CompiledNode(n, e) = [attributes |-> {<<props[i].name, Written(ValueOf(n, i), e)>> : i \in FirstsOf(props)},
                              items |-> [i \in ChildrenOf(items) |-> items[i]]]
    BY <1>3, <1>4, <2>1 DEF CompiledNode
  <2>5. {<<props[i].name, Written(ValueOf(n, i), e)>> : i \in FirstsOf(props)}
        = {<<props[i].name, InUtf8(props[i].value)>> : i \in FirstsOf(props)}
    BY <2>3
  <2>6. [i \in ChildrenOf(items) |-> items[i]]
        = [i \in DOMAIN items |-> IF i \in TextsOf(items) THEN InUtf8(items[i].text) ELSE items[i]]
    BY <1>8, <2>2
  <2>7. QED BY <1>7, <2>4, <2>5, <2>6, ZenonT(30)
<1>9. CASE TextsOf(items) # {}
  <2>1. Len(items) = 1 /\ props = <<>>
    BY <1>1, <1>3, <1>9 DEF IsPlain
  <2>2. TextsOf(items) = {1} /\ DOMAIN items = {1}
    BY <1>5, <1>9, <2>1 DEF TextsOf
  <2>3. Max(TextsOf(items)) = 1
    BY <2>2 DEF Max
  <2>4. w.text = <<items[1]>>
    BY <1>4, <1>9, <2>3 DEF LastText
  <2>5. WrittenItem(items[1], e) = InUtf8(items[1].text)
    <3>1. items[1] \in Item /\ "text" \in DOMAIN items[1]
      BY <1>5, <2>2 DEF TextsOf
    <3>2. items[1] \in [text : Texts]
      <4>1. ASSUME items[1] \in [node : Nat]
            PROVE  FALSE
        <5>1. DOMAIN items[1] = {"node"}
          BY <4>1
        <5>2. QED BY <3>1, <5>1
      <4>2. QED BY <3>1, <4>1 DEF Item
    <3>3. items[1].text \in Texts
      BY <3>2
    <3>4. QED BY <1>6, <2>2, <3>1, <3>3, WrittenAsInTree DEF WrittenItem
  <2>6. FirstsOf(props) = {}
    BY <2>1 DEF FirstsOf
  <2>7. w.text # <<>> /\ DOMAIN w.text = {1} /\ w.text[1] = items[1]
    BY <2>4
  <2>8. CompiledNode(n, e) = [attributes |-> {}, items |-> [i \in {1} |-> WrittenItem(w.text[i], e)]]
    BY <1>3, <2>7 DEF CompiledNode
  <2>9. [i \in {1} |-> WrittenItem(w.text[i], e)]
        = [i \in DOMAIN items |-> IF i \in TextsOf(items) THEN InUtf8(items[i].text) ELSE items[i]]
    BY <2>2, <2>5, <2>7
  <2>10. {<<props[i].name, InUtf8(props[i].value)>> : i \in FirstsOf(props)} = {}
    BY <2>6
  <2>11. QED BY <1>7, <2>8, <2>9, <2>10
<1>10. QED BY <1>8, <1>9

(* What is compiled of a node of text or of children is what is in the      *)
(* tree, whatever was created, set, read and compiled before, where its     *)
(* texts are ASCII, or of Latin-1 and encoded as such (Content.cc:41-51 and *)
(* Compiler.cc:101-149 make others of the rest).                            *)
THEOREM TreesStayCompiled == DocumentSpec => []TreeIsCompiled
<1>1. DocumentInit => DocumentIsSound
  <2>1. SUFFICES ASSUME DocumentInit
                 PROVE  DocumentIsSound
    OBVIOUS
  <2>2. handler = 0 /\ root = 0 /\ parses = 0
    BY <2>1 DEF DocumentInit
  <2>3. tree \in Seq(TreeNode)
    <3>1. PICK e : e = <<>>
      OBVIOUS
    <3>2. tree = e
      BY <2>1, <3>1 DEF DocumentInit
    <3>3. e \in Seq(TreeNode)
      BY <3>1
    <3>4. QED BY <3>2, <3>3
  <2>4. QED BY <2>2, <2>3 DEF DocumentIsSound, IsRead
<1>2. DocumentIsSound /\ [DocumentNext]_documentVars => DocumentIsSound'
  BY DocumentStep, DocumentStutters
<1>3. DocumentIsSound => TreeIsCompiled
  BY CompiledAsIs
<1>4. QED BY <1>1, <1>2, <1>3, PTL DEF DocumentSpec

-----------------------------------------------------------------------------
(* The average: the sums of the first values, of the second ones and so on, *)
(* say what SumOf is.                                                       *)
AreSums(values, sums) ==
    sums = [n \in 0 .. Len(values) |-> IF n = 0 THEN 0 ELSE sums[n - 1] + values[n]]

AddUpTo(values, total) == \E sums : AreSums(values, sums) /\ total = sums[Len(values)]

AverageIsSound ==
    /\ registered \in Seq(Int)
    /\ positive => \A i \in 1 .. Len(registered) : registered[i] > 0
    /\ (regular /\ positive) =>
          /\ size = Len(registered) /\ accumulator \in -Half .. Half - 1
          /\ AddUpTo(registered, accumulator)

-----------------------------------------------------------------------------
(* RemoveAt, position by position. *)
LEMMA RemoveAtIs ==
    ASSUME NEW S, NEW s \in Seq(S), NEW r \in 1 .. Len(s)
    PROVE  RemoveAt(s, r)
             = [i \in 1 .. Len(s) - 1 |-> s[IF i < r THEN i ELSE i + 1]]
<1> DEFINE front == SubSeq(s, 1, r - 1)
           rest == SubSeq(s, r + 1, Len(s))
<1>1. /\ front \in Seq(S) /\ Len(front) = r - 1
      /\ \A i \in 1 .. r - 1 : front[i] = s[i]
  OBVIOUS
<1>2. /\ rest \in Seq(S) /\ Len(rest) = Len(s) - r
      /\ \A i \in 1 .. Len(s) - r : rest[i] = s[r + i]
  OBVIOUS
<1> HIDE DEF front, rest
<1>3. /\ front \o rest \in Seq(S) /\ Len(front \o rest) = Len(front) + Len(rest)
      /\ \A i \in 1 .. Len(front) + Len(rest) :
            (front \o rest)[i] = IF i <= Len(front) THEN front[i] ELSE rest[i - Len(front)]
  BY <1>1, <1>2, ConcatProperties, Zenon
<1>4. /\ Len(s) \in Nat /\ Len(front) + Len(rest) = Len(s) - 1
      /\ Len(front \o rest) = Len(s) - 1
  BY <1>1, <1>2, <1>3
<1>5. ASSUME NEW i \in 1 .. Len(s) - 1
      PROVE  (front \o rest)[i] = s[IF i < r THEN i ELSE i + 1]
  <2>1. CASE i < r
    BY <1>1, <1>3, <1>4, <2>1
  <2>2. CASE ~ (i < r)
    <3>1. i - Len(front) \in 1 .. Len(s) - r /\ r + (i - Len(front)) = i + 1
      BY <1>1, <1>4, <2>2
    <3>2. (front \o rest)[i] = rest[i - Len(front)]
      BY <1>1, <1>3, <1>4, <2>2
    <3>3. QED BY <1>2, <2>2, <3>1, <3>2
  <2>3. QED BY <2>1, <2>2
<1>6. front \o rest = [i \in 1 .. Len(s) - 1 |-> s[IF i < r THEN i ELSE i + 1]]
  <2> DEFINE t == [i \in 1 .. Len(s) - 1 |-> s[IF i < r THEN i ELSE i + 1]]
  <2>1. t \in Seq(S) /\ Len(t) = Len(s) - 1
    <3>1. \A i \in 1 .. Len(s) - 1 : (IF i < r THEN i ELSE i + 1) \in 1 .. Len(s)
      BY <1>4
    <3>2. t \in [1 .. Len(s) - 1 -> S] /\ Len(s) - 1 \in Nat
      BY <1>4, <3>1
    <3>3. QED BY <3>2
  <2>2. QED BY <1>3, <1>4, <1>5, <2>1, SeqEqual
<1>7. QED BY <1>6 DEF RemoveAt, front, rest

LEMMA SumsAre ==
    ASSUME NEW values \in Seq(Int), NEW sums, AreSums(values, sums)
    PROVE  /\ sums[0] = 0
           /\ \A n \in 1 .. Len(values) : sums[n] = sums[n - 1] + values[n]
<1>1. Len(values) \in Nat
  BY LenProperties
<1> DEFINE N == 0 .. Len(values)
           e(n) == IF n = 0 THEN 0 ELSE sums[n - 1] + values[n]
<1>2. sums = [n \in N |-> e(n)]
  BY DEF AreSums
<1>3. \A n \in N : sums[n] = e(n)
  <2> HIDE DEF e
  <2>1. QED BY <1>2
<1>4. 0 \in N /\ \A n \in 1 .. Len(values) : n \in N /\ n # 0
  BY <1>1
<1>5. QED BY <1>3, <1>4

(* The first n values add up to n at least, if they are positive.           *)
LEMMA SumsGrow ==
    ASSUME NEW values \in Seq(Int), NEW sums, AreSums(values, sums), NEW n \in 0 .. Len(values)
    PROVE  sums[n] \in Int /\ ((\A i \in 1 .. Len(values) : values[i] > 0) => sums[n] >= n)
<1> DEFINE positives == \A i \in 1 .. Len(values) : values[i] > 0
           IsFine(m) == sums[m] \in Int /\ (positives => sums[m] >= m)
           T == {m \in 0 .. Len(values) : ~IsFine(m)}
<1>1. Len(values) \in Nat /\ \A i \in 1 .. Len(values) : values[i] \in Int
  BY LenProperties, ElementOfSeq
<1>2. IsFine(0)
  BY SumsAre
<1>3. ASSUME NEW m \in 1 .. Len(values), IsFine(m - 1)
      PROVE  IsFine(m)
  <2>1. sums[m] = sums[m - 1] + values[m] /\ values[m] \in Int /\ sums[m - 1] \in Int
    BY <1>1, <1>3, SumsAre
  <2>2. PICK l : l = m - 1
    OBVIOUS
  <2>3. l \in Nat /\ m = l + 1
    BY <2>2
  <2>4. positives => values[m] >= 1 /\ sums[l] >= l
    BY <1>1, <1>3, <2>1, <2>2
  <2> HIDE DEF positives
  <2>5. QED BY <2>1, <2>2, <2>3, <2>4
<1> HIDE DEF IsFine
<1>4. T = {}
  <2>1. SUFFICES ASSUME T # {}
                 PROVE  FALSE
    OBVIOUS
  <2>2. T \in SUBSET Nat
    BY <1>1
  <2>3. PICK m \in T : \A k \in T : m <= k
    BY <2>1, <2>2, LeastOf
  <2>4. m # 0 /\ m \in 0 .. Len(values) /\ ~IsFine(m)
    BY <1>2, <2>3
  <2>5. m - 1 \notin T /\ m \in 1 .. Len(values) /\ m - 1 \in 0 .. Len(values)
    BY <1>1, <2>3, <2>4
  <2>6. QED BY <1>3, <2>4, <2>5
<1>5. QED BY <1>4 DEF IsFine

LEMMA OneSum ==
    ASSUME NEW values \in Seq(Int), NEW sums, AreSums(values, sums), NEW others, AreSums(values, others),
           NEW n \in 0 .. Len(values)
    PROVE  sums[n] = others[n]
<1> DEFINE T == {m \in 0 .. Len(values) : sums[m] # others[m]}
<1>1. Len(values) \in Nat
  BY LenProperties
<1>2. T = {}
  <2>1. SUFFICES ASSUME T # {}
                 PROVE  FALSE
    OBVIOUS
  <2>2. T \in SUBSET Nat
    BY <1>1
  <2>3. PICK m \in T : \A k \in T : m <= k
    BY <2>1, <2>2, LeastOf
  <2>4. m # 0
    BY <2>3, SumsAre
  <2>5. m - 1 \notin T /\ m \in 1 .. Len(values) /\ m - 1 \in 0 .. Len(values)
    BY <1>1, <2>3, <2>4
  <2>6. sums[m - 1] = others[m - 1]
    BY <2>5
  <2>7. QED BY <2>3, <2>5, <2>6, SumsAre
<1>3. QED BY <1>2

LEMMA SumIs ==
    ASSUME NEW values \in Seq(Int), NEW sums, AreSums(values, sums)
    PROVE  SumOf(values) = sums[Len(values)]
<1> DEFINE chosen == CHOOSE others : AreSums(values, others)
<1>1. AreSums(values, chosen)
  OBVIOUS
<1>2. SumOf(values) = chosen[Len(values)]
  BY DEF SumOf, AreSums
<1> HIDE DEF chosen
<1>3. Len(values) \in 0 .. Len(values)
  BY LenProperties
<1>4. QED BY <1>1, <1>2, <1>3, OneSum

LEMMA SumsIf ==
    ASSUME NEW values \in Seq(Int), NEW sums, sums = [n \in 0 .. Len(values) |-> sums[n]],
           sums[0] = 0, \A n \in 1 .. Len(values) : sums[n] = sums[n - 1] + values[n]
    PROVE  AreSums(values, sums)
<1>1. Len(values) \in Nat
  BY LenProperties
<1> DEFINE N == 0 .. Len(values)
           e(n) == IF n = 0 THEN 0 ELSE sums[n - 1] + values[n]
<1>2. \A n \in N : sums[n] = e(n)
  <2>1. \A n \in N : n = 0 \/ (n \in 1 .. Len(values) /\ n # 0)
    BY <1>1
  <2>2. QED BY <2>1
<1>3. sums = [n \in N |-> e(n)]
  <2> HIDE DEF e, N
  <2>1. [n \in N |-> sums[n]] = [n \in N |-> e(n)]
    BY <1>2
  <2>2. sums = [n \in N |-> sums[n]]
    BY DEF N
  <2>3. QED BY <2>1, <2>2
<1>4. QED BY <1>3 DEF AreSums

LEMMA NoneAddUp == \A values : values = <<>> => AddUpTo(values, 0)
<1>1. SUFFICES ASSUME NEW values, values = <<>>
               PROVE  AddUpTo(values, 0)
  OBVIOUS
<1>2. values \in Seq(Int) /\ Len(values) = 0
  BY <1>1
<1> DEFINE sums == [n \in 0 .. Len(values) |-> 0]
<1>3. sums = [n \in 0 .. Len(values) |-> sums[n]] /\ sums[0] = 0
  BY <1>2
<1>4. \A n \in 1 .. Len(values) : sums[n] = sums[n - 1] + values[n]
  BY <1>2
<1> HIDE DEF sums
<1>5. AreSums(values, sums)
  BY <1>2, <1>3, <1>4, SumsIf
<1>6. QED BY <1>2, <1>3, <1>5 DEF AddUpTo

LEMMA MoreAddUp ==
    ASSUME NEW values \in Seq(Int), NEW v \in Int, NEW total, AddUpTo(values, total)
    PROVE  AddUpTo(Append(values, v), total + v)
<1>1. PICK sums : AreSums(values, sums) /\ total = sums[Len(values)]
  BY DEF AddUpTo
<1>2. PICK l \in Nat : l = Len(values)
  BY LenProperties
<1>3. PICK more : more = Append(values, v)
  OBVIOUS
<1>4. /\ more \in Seq(Int) /\ Len(more) = l + 1 /\ more[l + 1] = v
      /\ \A n \in 1 .. l : more[n] = values[n]
  BY <1>2, <1>3, AppendProperties
<1>5. sums[0] = 0 /\ \A n \in 1 .. l : sums[n] = sums[n - 1] + values[n]
  BY <1>1, <1>2, SumsAre
<1> DEFINE longer == [n \in 0 .. Len(more) |-> IF n = l + 1 THEN total + v ELSE sums[n]]
<1>6. longer = [n \in 0 .. Len(more) |-> longer[n]]
  OBVIOUS
<1>7. longer[0] = 0 /\ longer[l + 1] = total + v /\ \A n \in 0 .. l : longer[n] = sums[n]
  BY <1>4, <1>5
<1> HIDE DEF longer
<1>8. ASSUME NEW n \in 1 .. Len(more)
      PROVE  longer[n] = longer[n - 1] + more[n]
  <2>1. CASE n = l + 1
    <3>1. n - 1 = l /\ l \in 0 .. l
      BY <2>1
    <3>2. longer[n - 1] = total
      BY <1>1, <1>2, <1>7, <3>1
    <3>3. QED BY <1>4, <1>7, <2>1, <3>2
  <2>2. CASE n # l + 1
    <3>1. n \in 1 .. l /\ n \in 0 .. l /\ n - 1 \in 0 .. l
      BY <1>4, <2>2
    <3>2. QED BY <1>4, <1>5, <1>7, <3>1
  <2>3. QED BY <2>1, <2>2
<1>9. AreSums(more, longer)
  BY <1>4, <1>6, <1>7, <1>8, SumsIf
<1>10. QED BY <1>3, <1>4, <1>7, <1>9 DEF AddUpTo

LEMMA FewerAddUp ==
    ASSUME NEW values \in Seq(Int), NEW total, AddUpTo(values, total), NEW i \in 1 .. Len(values)
    PROVE  AddUpTo(RemoveAt(values, i), total - values[i])
<1>1. PICK sums : AreSums(values, sums) /\ total = sums[Len(values)]
  BY DEF AddUpTo
<1>2. PICK l \in Nat : l + 1 = Len(values)
  <2>1. Len(values) \in Nat /\ Len(values) - 1 \in Nat /\ Len(values) = (Len(values) - 1) + 1
    BY LenProperties
  <2>2. QED BY <2>1, Zenon
<1>3. PICK fewer : fewer = RemoveAt(values, i)
  OBVIOUS
<1>4. \A n \in 1 .. l + 1 : values[n] \in Int
  BY <1>2, ElementOfSeq
<1>5. /\ fewer \in Seq(Int) /\ Len(fewer) = l
      /\ \A n \in 1 .. l : fewer[n] = values[IF n < i THEN n ELSE n + 1]
  <2>1. fewer = [n \in 1 .. l |-> values[IF n < i THEN n ELSE n + 1]]
    <3>1. fewer = [n \in 1 .. Len(values) - 1 |-> values[IF n < i THEN n ELSE n + 1]]
      BY <1>3, RemoveAtIs
    <3>2. Len(values) - 1 = l
      BY <1>2
    <3>3. QED BY <3>1, <3>2
  <2>2. \A n \in 1 .. l : (IF n < i THEN n ELSE n + 1) \in 1 .. l + 1
    BY <1>2
  <2>3. fewer \in [1 .. l -> Int]
    BY <1>4, <2>1, <2>2
  <2>4. fewer \in Seq(Int) /\ Len(fewer) = l
    BY <2>3
  <2>5. QED BY <2>1, <2>4
<1>6. sums[0] = 0 /\ \A n \in 1 .. l + 1 : sums[n] = sums[n - 1] + values[n]
  <2>1. sums[0] = 0 /\ \A n \in 1 .. Len(values) : sums[n] = sums[n - 1] + values[n]
    BY <1>1, SumsAre, Zenon
  <2>2. QED BY <1>2, <2>1
<1>7. \A n \in 0 .. l + 1 : sums[n] \in Int
  BY <1>1, <1>2, SumsGrow
<1> DEFINE shorter == [n \in 0 .. Len(fewer) |-> IF n < i THEN sums[n] ELSE sums[n + 1] - values[i]]
<1>8. shorter = [n \in 0 .. Len(fewer) |-> shorter[n]]
  OBVIOUS
<1>9. \A n \in 0 .. l : shorter[n] = IF n < i THEN sums[n] ELSE sums[n + 1] - values[i]
  BY <1>5
<1> HIDE DEF shorter
<1>10. shorter[0] = 0
  BY <1>6, <1>9
<1>11. i \in 1 .. l + 1 /\ sums[i] = sums[i - 1] + values[i] /\ values[i] \in Int /\ sums[i - 1] \in Int
  <2>1. i \in 1 .. l + 1 /\ i - 1 \in 0 .. l + 1
    BY <1>2
  <2>2. QED BY <1>4, <1>6, <1>7, <2>1
<1>12. shorter[l] = total - values[i]
  <2>1. CASE i = l + 1
    <3>1. l < i /\ l \in 0 .. l /\ i - 1 = l
      BY <2>1
    <3>2. shorter[l] = sums[l] /\ sums[l + 1] = sums[l] + values[i] /\ sums[l] \in Int
      BY <1>9, <1>11, <2>1, <3>1
    <3>3. sums[l + 1] - values[i] = sums[l] /\ total = sums[l + 1]
      BY <1>1, <1>2, <1>11, <3>2, SMTT(40)
    <3>4. QED BY <3>2, <3>3
  <2>2. CASE i # l + 1
    <3>1. ~(l < i) /\ l \in 0 .. l
      BY <1>11, <2>2
    <3>2. QED BY <1>1, <1>2, <1>9, <3>1
  <2>3. QED BY <2>1, <2>2
<1>13. ASSUME NEW n \in 1 .. Len(fewer)
       PROVE  shorter[n] = shorter[n - 1] + fewer[n]
  <2>1. PICK m \in 0 .. l : m = n - 1
    BY <1>5
  <2>2. /\ n = m + 1 /\ n \in 0 .. l /\ n \in 1 .. l /\ n \in 1 .. l + 1 /\ n + 1 \in 1 .. l + 1
        /\ (n + 1) - 1 = n /\ m \in 0 .. l + 1 /\ n \in 0 .. l + 1
    BY <1>5, <2>1
  <2>3. sums[n] = sums[m] + values[n] /\ sums[n + 1] = sums[n] + values[n + 1]
    BY <1>6, <2>1, <2>2
  <2>4. sums[m] \in Int /\ sums[n] \in Int /\ values[n] \in Int /\ values[n + 1] \in Int
    BY <1>4, <1>7, <2>2
  <2>5. CASE n < i
    <3>1. m < i /\ fewer[n] = values[n] /\ shorter[n] = sums[n] /\ shorter[m] = sums[m]
      BY <1>5, <1>9, <1>11, <2>2, <2>5
    <3>2. QED BY <2>1, <2>3, <3>1
  <2>6. CASE n = i
    <3>1. m < i /\ ~(n < i)
      BY <1>11, <2>2, <2>6
    <3>2. fewer[n] = values[n + 1] /\ shorter[n] = sums[n + 1] - values[n] /\ shorter[m] = sums[m]
      BY <1>5, <1>9, <2>2, <2>6, <3>1
    <3>3. PICK a \in Int, b \in Int, x \in Int : a = sums[m] /\ b = values[n + 1] /\ x = values[n]
      BY <2>4, Zenon
    <3>4. fewer[n] = b /\ shorter[n] = ((a + x) + b) - x /\ shorter[m] = a
      BY <2>3, <3>2, <3>3, Zenon
    <3>5. ((a + x) + b) - x = a + b
      OBVIOUS
    <3>6. QED BY <2>1, <3>4, <3>5, Zenon
  <2>7. CASE n > i
    <3>1. ~(m < i) /\ ~(n < i)
      BY <1>11, <2>2, <2>7
    <3>2. /\ fewer[n] = values[n + 1] /\ shorter[n] = sums[n + 1] - values[i]
          /\ shorter[m] = sums[n] - values[i]
      BY <1>5, <1>9, <2>2, <3>1
    <3>3. PICK a \in Int, b \in Int, x \in Int : a = sums[n] /\ b = values[n + 1] /\ x = values[i]
      BY <1>11, <2>4, Zenon
    <3>4. fewer[n] = b /\ shorter[n] = (a + b) - x /\ shorter[m] = a - x
      BY <2>3, <3>2, <3>3, Zenon
    <3>5. (a + b) - x = (a - x) + b
      OBVIOUS
    <3>6. QED BY <2>1, <3>4, <3>5, Zenon
  <2>8. n \in Int /\ i \in Int
    BY <1>11, <2>2
  <2>9. QED BY <2>5, <2>6, <2>7, <2>8
<1>14. AreSums(fewer, shorter)
  BY <1>5, <1>8, <1>10, <1>13, SumsIf
<1>15. QED BY <1>3, <1>5, <1>12, <1>14 DEF AddUpTo

LEMMA OneAddsUp ==
    ASSUME NEW v \in Int
    PROVE  AddUpTo(<<v>>, v)
<1>1. PICK none : none = <<>>
  OBVIOUS
<1>2. none \in Seq(Int) /\ AddUpTo(none, 0)
  BY <1>1, NoneAddUp
<1>3. AddUpTo(Append(none, v), 0 + v)
  BY <1>2, MoreAddUp
<1>4. Append(none, v) = <<v>> /\ 0 + v = v
  BY <1>1
<1>5. QED BY <1>3, <1>4

LEMMA SumsReach ==
    ASSUME NEW values \in Seq(Int), NEW total, AddUpTo(values, total)
    PROVE  /\ total \in Int /\ SumOf(values) = total
           /\ (\A i \in 1 .. Len(values) : values[i] > 0) => total >= Len(values)
<1>1. PICK sums : AreSums(values, sums) /\ total = sums[Len(values)]
  BY DEF AddUpTo
<1>2. Len(values) \in 0 .. Len(values)
  BY LenProperties
<1>3. QED BY <1>1, <1>2, SumsGrow, SumIs

(* What does not overflow is as it is.                                      *)
LEMMA NotWrapped ==
    ASSUME NEW sum \in -Half .. Half - 1
    PROVE  WrappedSum(sum) = sum
<1>1. Half \in Nat \ {0} /\ 2 * Half \in Nat \ {0}
  BY AverageAssumption
<1>2. PICK n \in Nat, p \in Nat \ {0} : n = sum + Half /\ p = 2 * Half /\ n < p
  BY <1>1
<1>3. n % p = n
  BY <1>2
<1>4. QED BY <1>1, <1>2, <1>3 DEF WrappedSum

(* One step of the average. *)
LEMMA AverageStays ==
    ASSUME AverageIsSound, UNCHANGED averageVars
    PROVE  AverageIsSound'
BY DEF AverageIsSound, averageVars

LEMMA StartsOver ==
    ASSUME NEW v \in Registrable, registered' = <<v>>, positive' = (v > 0),
           (regular' /\ positive') => StartsWith(v)
    PROVE  AverageIsSound'
<1>1. v \in Int /\ v \in -Half .. Half - 1
  BY AverageAssumption
<1>2. registered' \in Seq(Int) /\ Len(registered') = 1 /\ registered'[1] = v
  BY <1>1
<1>3. \A i \in 1 .. Len(registered') : registered'[i] = v
  BY <1>2
<1>4. positive' => \A i \in 1 .. Len(registered') : registered'[i] > 0
  BY <1>3, Zenon
<1>5. AddUpTo(registered', v)
  BY <1>1, OneAddsUp
<1>6. QED BY <1>1, <1>2, <1>4, <1>5 DEF AverageIsSound, StartsWith, CountedAgain

LEMMA RegisterIsSound ==
    ASSUME AverageIsSound, NEW v \in Registrable, Register(v)
    PROVE  AverageIsSound'
<1>1. v \in Int /\ Half \in Nat
  BY AverageAssumption
<1>2. CASE Overflows(accumulator + v)
  <2>1. registered' = <<v>> /\ positive' = (v > 0)
    BY <1>2 DEF Register
  <2>2. (regular' /\ positive') => StartsWith(v)
    BY <1>2 DEF Register
  <2>3. QED BY <2>1, <2>2, StartsOver
<1>3. CASE ~Overflows(accumulator + v)
  <2>1. /\ registered' = Append(registered, v) /\ positive' = (positive /\ v > 0) /\ regular' = regular
        /\ IF accumulator + v < accumulator THEN StartsWith(v) ELSE Adds(v)
    BY <1>3 DEF Register
  <2>2. registered \in Seq(Int) /\ (positive => \A i \in 1 .. Len(registered) : registered[i] > 0)
    BY DEF AverageIsSound
  <2>3. /\ registered' \in Seq(Int) /\ Len(registered') = Len(registered) + 1
        /\ \A i \in 1 .. Len(registered') :
              registered'[i] = v \/ (i \in 1 .. Len(registered) /\ registered'[i] = registered[i])
    <3>1. PICK more : more = Append(registered, v)
      OBVIOUS
    <3>2. /\ more \in Seq(Int) /\ Len(more) = Len(registered) + 1 /\ more[Len(registered) + 1] = v
          /\ \A i \in 1 .. Len(registered) : more[i] = registered[i]
      BY <1>1, <2>2, <3>1, AppendProperties
    <3>3. Len(registered) \in Nat
      BY <2>2, LenProperties
    <3>4. ASSUME NEW i \in 1 .. Len(more)
          PROVE  more[i] = v \/ (i \in 1 .. Len(registered) /\ more[i] = registered[i])
      <4>1. i = Len(registered) + 1 \/ i \in 1 .. Len(registered)
        BY <3>2, <3>3
      <4>2. i = Len(registered) + 1 => more[i] = v
        BY <3>2, Zenon
      <4>3. i \in 1 .. Len(registered) => more[i] = registered[i]
        BY <3>2, Zenon
      <4>4. QED BY <4>1, <4>2, <4>3, Zenon
    <3>5. registered' = more
      BY <2>1, <3>1
    <3>6. QED BY <3>2, <3>4, <3>5
  <2>4. positive' => \A i \in 1 .. Len(registered') : registered'[i] > 0
    BY <2>1, <2>2, <2>3
  <2>5. ASSUME regular', positive'
        PROVE  /\ size' = Len(registered') /\ accumulator' \in -Half .. Half - 1
               /\ AddUpTo(registered', accumulator')
    <3>1. regular /\ positive /\ v > 0
      BY <2>1, <2>5
    <3>2. size = Len(registered) /\ accumulator \in -Half .. Half - 1 /\ AddUpTo(registered, accumulator)
      BY <3>1 DEF AverageIsSound
    <3>3. ~(accumulator + v < accumulator) /\ accumulator + v \in -Half .. Half - 1
      BY <1>1, <1>3, <3>1, <3>2 DEF Overflows
    <3>4. accumulator' = accumulator + v /\ size' = size + 1
      BY <2>1, <3>3, NotWrapped DEF Adds
    <3>5. AddUpTo(registered', accumulator + v)
      BY <1>1, <2>1, <2>2, <3>2, MoreAddUp
    <3>6. QED BY <2>3, <3>2, <3>3, <3>4, <3>5
  <2>6. QED BY <2>3, <2>4, <2>5 DEF AverageIsSound
<1>4. QED BY <1>2, <1>3

LEMMA DeregisterIsSound ==
    ASSUME AverageIsSound, NEW v \in Registrable, Deregister(v)
    PROVE  AverageIsSound'
<1>1. v \in Int /\ Half \in Nat \ {0}
  BY AverageAssumption
<1>2. /\ regular' = (regular /\ (v \in Range(registered) \/ registered = <<>>)) /\ positive' = positive
      /\ IF accumulator > v /\ size > 1
         THEN accumulator' = WrappedSum(accumulator - v) /\ size' = size - 1
         ELSE accumulator' = 0 /\ size' = 0
  BY DEF Deregister
<1>3. registered \in Seq(Int) /\ (positive => \A i \in 1 .. Len(registered) : registered[i] > 0)
  BY DEF AverageIsSound
<1>4. CASE v \in Range(registered)
  <2>1. PICK i \in 1 .. Len(registered) : registered[i] = v /\ registered' = RemoveAt(registered, i)
    <3>1. DOMAIN registered = 1 .. Len(registered)
      BY <1>3
    <3>2. \E i \in DOMAIN registered : registered[i] = v
      BY <1>4 DEF Range
    <3> DEFINE first == CHOOSE i \in DOMAIN registered : registered[i] = v
    <3>3. first \in DOMAIN registered /\ registered[first] = v
      BY <3>2
    <3>4. registered' = RemoveAt(registered, first)
      BY <1>4 DEF Deregister
    <3> HIDE DEF first
    <3>5. QED BY <3>1, <3>3, <3>4
  <2>2. PICK l \in Nat : l = Len(registered)
    BY <1>3, LenProperties
  <2>3. \A n \in 1 .. l : registered[n] \in Int
    BY <1>3, <2>2, ElementOfSeq
  <2>4. /\ registered' \in Seq(Int) /\ Len(registered') = l - 1
        /\ \A n \in 1 .. l - 1 : \E m \in 1 .. l : registered'[n] = registered[m]
    <3>1. registered' = [n \in 1 .. Len(registered) - 1 |-> registered[IF n < i THEN n ELSE n + 1]]
      BY <1>3, <2>1, RemoveAtIs
    <3>2. PICK k \in Nat : k = l - 1
      BY <2>1, <2>2
    <3>3. \A n \in 1 .. k : (IF n < i THEN n ELSE n + 1) \in 1 .. l
      BY <3>2
    <3>4. registered' \in [1 .. k -> Int]
      BY <2>2, <2>3, <3>1, <3>2, <3>3
    <3>5. registered' \in Seq(Int) /\ Len(registered') = k
      BY <3>4
    <3>6. \A n \in 1 .. k : registered'[n] = registered[IF n < i THEN n ELSE n + 1]
      BY <2>2, <3>1, <3>2
    <3>7. QED BY <3>2, <3>3, <3>5, <3>6
  <2>5. positive' => \A n \in 1 .. Len(registered') : registered'[n] > 0
    BY <1>2, <1>3, <2>2, <2>4
  <2>6. ASSUME regular', positive'
        PROVE  /\ size' = Len(registered') /\ accumulator' \in -Half .. Half - 1
               /\ AddUpTo(registered', accumulator')
    <3>1. regular /\ positive
      BY <1>2, <2>6
    <3>2. size = l /\ accumulator \in -Half .. Half - 1 /\ AddUpTo(registered, accumulator)
      BY <2>2, <3>1 DEF AverageIsSound
    <3>3. AddUpTo(registered', accumulator - v)
      BY <1>3, <2>1, <3>2, FewerAddUp
    <3>4. /\ accumulator - v \in Int
          /\ (\A n \in 1 .. Len(registered') : registered'[n] > 0) => accumulator - v >= Len(registered')
      BY <2>4, <3>3, SumsReach
    <3>5. accumulator - v >= l - 1 /\ v > 0 /\ l >= 1
      BY <1>3, <2>1, <2>2, <2>4, <2>5, <2>6, <3>1, <3>4
    <3>6. CASE l = 1
      <4>1. registered' = <<>>
        BY <2>4, <3>6
      <4>2. AddUpTo(registered', 0)
        BY <4>1, NoneAddUp
      <4>3. accumulator' = 0 /\ size' = 0
        BY <1>2, <3>2, <3>6
      <4>4. QED BY <1>1, <2>4, <3>6, <4>2, <4>3
    <3>7. CASE l # 1
      <4>1. accumulator > v /\ size > 1
        BY <1>1, <3>2, <3>5, <3>7
      <4>2. accumulator - v \in -Half .. Half - 1
        BY <1>1, <2>2, <3>2, <3>5
      <4>3. accumulator' = accumulator - v /\ size' = size - 1
        BY <1>2, <4>1, <4>2, NotWrapped
      <4>4. QED BY <2>4, <3>2, <3>3, <4>2, <4>3
    <3>8. QED BY <3>6, <3>7
  <2>7. QED BY <2>4, <2>5, <2>6 DEF AverageIsSound
<1>5. CASE v \notin Range(registered)
  <2>1. registered' = <<>>
    BY <1>5 DEF Deregister
  <2>2. registered' \in Seq(Int) /\ Len(registered') = 0 /\ AddUpTo(registered', 0)
    BY <2>1, NoneAddUp
  <2>3. ASSUME regular', positive'
        PROVE  size' = 0 /\ accumulator' = 0
    <3>1. regular /\ positive /\ registered = <<>>
      BY <1>2, <1>5, <2>3
    <3>2. size = 0
      BY <3>1 DEF AverageIsSound
    <3>3. QED BY <1>2, <3>2
  <2>4. QED BY <1>1, <2>2, <2>3 DEF AverageIsSound
<1>6. QED BY <1>4, <1>5

(* While the values are positive, accumulator and size are the sum and the  *)
(* number of the values registered and not removed: neither += nor -=       *)
(* starts over on its own, whatever the type and the values.                *)
THEOREM AveragesStayRight == AverageSpec => []AverageOfPositives
<1>1. AverageInit => AverageIsSound
  <2>1. SUFFICES ASSUME AverageInit
                 PROVE  AverageIsSound
    OBVIOUS
  <2>2. registered \in Seq(Int) /\ Len(registered) = 0 /\ AddUpTo(registered, 0)
    BY <2>1, NoneAddUp DEF AverageInit
  <2>3. 0 \in -Half .. Half - 1
    BY AverageAssumption
  <2>4. QED BY <2>1, <2>2, <2>3 DEF AverageInit, AverageIsSound
<1>2. AverageIsSound /\ [AverageNext]_averageVars => AverageIsSound'
  <2>1. SUFFICES ASSUME AverageIsSound, [AverageNext]_averageVars
                 PROVE  AverageIsSound'
    OBVIOUS
  <2>2. ASSUME NEW v \in Registrable, Register(v)
        PROVE  AverageIsSound'
    BY <2>1, <2>2, RegisterIsSound
  <2>3. ASSUME NEW v \in Registrable, Deregister(v)
        PROVE  AverageIsSound'
    BY <2>1, <2>3, DeregisterIsSound
  <2>4. ASSUME NEW v \in Registrable, AssignValue(v)
        PROVE  AverageIsSound'
    <3>1. registered' = <<v>> /\ positive' = (v > 0) /\ StartsWith(v)
      BY <2>4 DEF AssignValue, StartsWith, CountedAgain
    <3>2. QED BY <3>1, StartsOver
  <2>5. CASE ClearAverage
    <3>1. accumulator' = 0 /\ size' = 0 /\ registered' = <<>>
      BY <2>5 DEF ClearAverage
    <3>2. registered' \in Seq(Int) /\ Len(registered') = 0 /\ AddUpTo(registered', 0)
      BY <3>1, NoneAddUp
    <3>3. 0 \in -Half .. Half - 1
      BY AverageAssumption
    <3>4. QED BY <3>1, <3>2, <3>3 DEF AverageIsSound
  <2>6. CASE UNCHANGED averageVars
    BY <2>1, <2>6, AverageStays
  <2>7. QED BY <2>1, <2>2, <2>3, <2>4, <2>5, <2>6 DEF AverageNext
<1>3. AverageIsSound => AverageOfPositives
  <2>1. SUFFICES ASSUME AverageIsSound, regular, positive
                 PROVE  IsOfTheValues
    BY DEF AverageOfPositives
  <2>2. registered \in Seq(Int) /\ size = Len(registered) /\ AddUpTo(registered, accumulator)
    BY <2>1 DEF AverageIsSound
  <2>3. QED BY <2>2, SumsReach DEF IsOfTheValues
<1>4. QED BY <1>1, <1>2, <1>3, PTL DEF AverageSpec

-----------------------------------------------------------------------------
(* The lines that are in the file f of a writer and in its .old, o.        *)
LinesIn(o, f) == (Range(o) \cup Range(f)) \ {0}

(* IsRecent and Due, of the lines G that a writer was given and the errors E *)
(* among them.                                                             *)
Lately(G, E, i, now) ==
    E \cap (i .. now - 1) = {} /\ Cardinality(G \cap (i .. now - 1)) <= Length
LatelyGiven(G, E, now) == {i \in G : Lately(G, E, i, now)}
DueOf(w, G, E) ==
    {i \in G : w \in Backtrace => i \in E \/ \E e \in E : i < e /\ Lately(G, E, i, e)}

(* t has the line that a writer is about to tell, after those that it has  *)
(* stored, or nothing.                                                     *)
Awaited(s, t) == IF t = {} THEN {} ELSE Range(s) \cup t

StoreIsSound(w, s, G, E, now, t) ==
    /\ Range(s) \subseteq G \ E
    /\ \A i, j \in DOMAIN s : i < j => s[i] < s[j]
    /\ w \notin Backtrace => s = <<>>
    /\ (w \in Backtrace /\ t = {}) =>
          /\ Range(s) = {i \in G : Lately(G, E, i, now + 1)}
          /\ \A k \in DOMAIN s : Cardinality(G \cap (s[k] .. now)) = (Len(s) + 1) - k

FileIsSound(o, f, s, G, t) ==
    /\ LinesIn(o, f) \subseteq G
    /\ InOrder(o) /\ InOrder(f)
    /\ \A i \in DOMAIN o, j \in DOMAIN f : o[i] > 0 => o[i] < f[j]
    /\ \A line \in LinesIn(o, f) : \A i \in Range(s) \cup t : line < i

NothingIsMissed(w, o, f, s, G, E, t) ==
    /\ LinesIn(o, f) \cup Awaited(s, t) \subseteq DueOf(w, G, E)
    /\ LinesIn(o, f) = {} => DueOf(w, G, E) \subseteq Awaited(s, t)
    /\ \A i \in DueOf(w, G, E), line \in LinesIn(o, f) :
          line <= i => i \in LinesIn(o, f) \cup Awaited(s, t)

(* What is given: lines up to now. *)
IsTrace(G, E, now) == now \in Nat /\ G \subseteq 1 .. now /\ E \subseteq G

-----------------------------------------------------------------------------
LEMMA GivenIsFinite ==
    ASSUME NEW G, NEW E, NEW now, IsTrace(G, E, now), NEW a, NEW b
    PROVE  IsFiniteSet(G \cap (a .. b)) /\ Cardinality(G \cap (a .. b)) \in Nat
<1>1. IsFiniteSet(1 .. now)
  BY FS_Interval DEF IsTrace
<1>2. G \cap (a .. b) \in SUBSET (1 .. now)
  BY DEF IsTrace
<1>3. QED BY <1>1, <1>2, FS_Subset, FS_CardinalityType

(* A new trace that nobody has taken yet. *)
LEMMA NewTraceKeepsStore ==
    ASSUME NEW w, NEW s, NEW G, NEW E, NEW now \in Nat, IsTrace(G, E, now),
           StoreIsSound(w, s, G, E, now, {})
    PROVE  StoreIsSound(w, s, G, E, now + 1, {}) /\ IsTrace(G, E, now + 1)
<1>1. IsTrace(G, E, now + 1) /\ now + 1 \notin G
  BY DEF IsTrace
<1>2. ASSUME NEW i \in G
      PROVE  /\ G \cap (i .. now + 1) = G \cap (i .. now)
             /\ E \cap (i .. now + 1) = E \cap (i .. now)
  BY <1>1 DEF IsTrace
<1>3. ASSUME NEW i \in G
      PROVE  Lately(G, E, i, now + 1) <=> Lately(G, E, i, (now + 1) + 1)
  <2>1. (now + 1) - 1 = now /\ ((now + 1) + 1) - 1 = now + 1
    OBVIOUS
  <2>2. QED BY <1>2, <2>1 DEF Lately
<1>4. {i \in G : Lately(G, E, i, now + 1)} = {i \in G : Lately(G, E, i, (now + 1) + 1)}
  BY <1>3
<1>5. ASSUME NEW k \in DOMAIN s
      PROVE  s[k] \in G
  BY DEF StoreIsSound, Range
<1>6. QED BY <1>1, <1>2, <1>4, <1>5 DEF StoreIsSound

(* What is due of the lines before now. *)
LEMMA DueBefore ==
    ASSUME NEW G, NEW E, NEW now \in Nat \ {0}, IsTrace(G, E, now), now \notin G,
           NEW i \in G, NEW e \in 1 .. now, NEW F, F \subseteq E \cup {now}, E \subseteq F
    PROVE  Lately(G \cup {now}, F, i, e) <=> Lately(G, E, i, e)
<1>1. (G \cup {now}) \cap (i .. e - 1) = G \cap (i .. e - 1)
  OBVIOUS
<1>2. F \cap (i .. e - 1) = E \cap (i .. e - 1)
  OBVIOUS
<1>3. QED BY <1>1, <1>2 DEF Lately

LEMMA LineIsNotDue ==
    ASSUME NEW w \in Backtrace, NEW G, NEW E, NEW now \in Nat \ {0}, IsTrace(G, E, now), now \notin G
    PROVE  DueOf(w, G \cup {now}, E) = DueOf(w, G, E)
<1>1. G \subseteq 1 .. now - 1 /\ E \subseteq G /\ now \notin E
  BY DEF IsTrace
<1>2. ASSUME NEW i \in G, NEW e \in E
      PROVE  Lately(G \cup {now}, E, i, e) <=> Lately(G, E, i, e)
  BY <1>1, DueBefore
<1>3. ASSUME NEW e \in E
      PROVE  ~(now < e)
  BY <1>1
<1>4. QED BY <1>1, <1>2, <1>3 DEF DueOf

LEMMA ErrorIsDue ==
    ASSUME NEW w \in Backtrace, NEW G, NEW E, NEW now \in Nat \ {0}, IsTrace(G, E, now), now \notin G
    PROVE  \A i : i \in DueOf(w, G \cup {now}, E \cup {now}) <=>
                      i \in DueOf(w, G, E) \/ i = now \/ i \in LatelyGiven(G, E, now)
<1>1. G \subseteq 1 .. now - 1 /\ E \subseteq G /\ now \notin E
  BY DEF IsTrace
<1>2. ASSUME NEW i \in G, NEW e \in E
      PROVE  Lately(G \cup {now}, E \cup {now}, i, e) <=> Lately(G, E, i, e)
  BY <1>1, DueBefore
<1>3. ASSUME NEW i \in G
      PROVE  /\ Lately(G \cup {now}, E \cup {now}, i, now) <=> Lately(G, E, i, now)
             /\ i < now
  BY <1>1, DueBefore
<1>4. QED BY <1>1, <1>2, <1>3 DEF DueOf, LatelyGiven

(* The lines that are left when another is stored. *)
LEMMA KeptLines ==
    ASSUME NEW s \in Seq(Nat), Len(s) <= Length
    PROVE  /\ Kept(s) \in Seq(Nat) /\ Len(Kept(s)) < Length
           /\ \E d \in {0, 1} :
                 /\ Len(Kept(s)) = Len(s) - d
                 /\ \A k \in 1 .. Len(Kept(s)) : Kept(s)[k] = s[k + d]
                 /\ d = 1 => Len(s) = Length
<1>1. Len(s) \in Nat /\ Length \in Nat \ {0}
  BY LoggerAssumption
<1>2. CASE Len(s) = Length
  <2>1. s # <<>>
    BY <1>1, <1>2
  <2>2. Kept(s) = Tail(s)
    BY <1>2 DEF Kept
  <2>3. /\ Tail(s) \in Seq(Nat) /\ Len(Tail(s)) = Len(s) - 1
        /\ \A k \in 1 .. Len(Tail(s)) : Tail(s)[k] = s[k + 1]
    BY <2>1, HeadTailProperties
  <2>4. QED BY <1>1, <1>2, <2>2, <2>3
<1>3. CASE Len(s) # Length
  <2>1. Kept(s) = s
    BY <1>3 DEF Kept
  <2>2. Len(s) < Length
    BY <1>1, <1>3
  <2>3. \A k \in 1 .. Len(s) : s[k] = s[k + 0]
    BY <1>1
  <2>4. QED BY <1>1, <2>1, <2>2, <2>3
<1>4. QED BY <1>2, <1>3

LEMMA StoresLine ==
    ASSUME NEW w \in Backtrace, NEW s \in Seq(Nat), NEW G, NEW E, NEW now \in Nat \ {0},
           IsTrace(G, E, now), now \notin G, StoreIsSound(w, s, G, E, now, {})
    PROVE  StoreIsSound(w, Append(Kept(s), now), G \cup {now}, E, now, {})
<1> DEFINE H == G \cup {now}
           r == Append(Kept(s), now)
<1>1. /\ \A i \in G : i \in Nat /\ i < now
      /\ E \subseteq G /\ now \notin E
      /\ Len(s) \in Nat /\ DOMAIN s = 1 .. Len(s)
      /\ Length \in Nat \ {0}
  BY LoggerAssumption DEF IsTrace
<1>2. /\ Range(s) \subseteq G \ E
      /\ \A i, j \in DOMAIN s : i < j => s[i] < s[j]
      /\ Range(s) = {i \in G : Lately(G, E, i, now + 1)}
      /\ \A k \in DOMAIN s : Cardinality(G \cap (s[k] .. now)) = (Len(s) + 1) - k
  BY DEF StoreIsSound
<1>3. \A i : Lately(G, E, i, now + 1) <=>
                 E \cap (i .. now) = {} /\ Cardinality(G \cap (i .. now)) <= Length
  <2>1. (now + 1) - 1 = now
    OBVIOUS
  <2>2. QED BY <2>1 DEF Lately
<1>4. \A i : Lately(H, E, i, now + 1) <=>
                 E \cap (i .. now) = {} /\ Cardinality(H \cap (i .. now)) <= Length
  <2>1. (now + 1) - 1 = now
    OBVIOUS
  <2>2. QED BY <2>1 DEF Lately
<1>5. ASSUME NEW i \in Nat, i <= now
      PROVE  Cardinality(H \cap (i .. now)) = Cardinality(G \cap (i .. now)) + 1
  <2>1. PICK T : T = G \cap (i .. now)
    OBVIOUS
  <2>2. IsFiniteSet(T) /\ now \notin T
    BY <2>1, GivenIsFinite
  <2>3. H \cap (i .. now) = T \cup {now}
    BY <1>5, <2>1
  <2>4. Cardinality(T \cup {now}) = Cardinality(T) + 1
    BY <2>2, FS_AddElement
  <2>5. QED BY <2>1, <2>3, <2>4
<1>6. \A k \in DOMAIN s : s[k] \in G /\ s[k] \in Range(s)
  BY <1>2 DEF Range
<1>7. Len(s) <= Length
  <2>1. CASE Len(s) = 0
    BY <1>1, <2>1
  <2>2. CASE Len(s) # 0
    <3>1. 1 \in DOMAIN s
      BY <1>1, <2>2
    <3>2. Lately(G, E, s[1], now + 1) /\ Cardinality(G \cap (s[1] .. now)) = (Len(s) + 1) - 1
      BY <1>2, <1>6, <3>1
    <3>3. QED BY <1>1, <1>3, <3>2
  <2>3. QED BY <2>1, <2>2
<1>8. /\ Kept(s) \in Seq(Nat) /\ Len(Kept(s)) < Length /\ Len(Kept(s)) \in Nat
  BY <1>7, KeptLines
<1>9. PICK d \in {0, 1} :
          /\ Len(Kept(s)) = Len(s) - d
          /\ \A k \in 1 .. Len(Kept(s)) : Kept(s)[k] = s[k + d]
          /\ d = 1 => Len(s) = Length
  BY <1>7, KeptLines
<1>10. /\ r \in Seq(Nat) /\ Len(r) = Len(Kept(s)) + 1 /\ DOMAIN r = 1 .. Len(r)
       /\ r[Len(r)] = now
       /\ \A k \in 1 .. Len(Kept(s)) : r[k] = s[k + d] /\ k + d \in DOMAIN s
  <2>1. now \in Nat
    OBVIOUS
  <2>2. /\ r \in Seq(Nat) /\ Len(r) = Len(Kept(s)) + 1
        /\ \A k \in 1 .. Len(Kept(s)) : r[k] = Kept(s)[k]
        /\ r[Len(Kept(s)) + 1] = now
    BY <1>8, <2>1, AppendProperties
  <2>3. DOMAIN r = 1 .. Len(r)
    BY <2>2
  <2>4. d = 0 \/ d = 1
    OBVIOUS
  <2>5. ASSUME NEW k \in 1 .. Len(Kept(s))
        PROVE  k + d \in DOMAIN s
    <3>1. CASE d = 0
      BY <1>1, <1>9, <3>1
    <3>2. CASE d = 1
      BY <1>1, <1>9, <3>2
    <3>3. QED BY <2>4, <3>1, <3>2
  <2>6. QED BY <1>9, <2>2, <2>3, <2>5
<1> HIDE DEF r, H
<1>11. \A k \in DOMAIN r : k = Len(r) \/ k \in 1 .. Len(Kept(s))
  BY <1>8, <1>10
<1>12. ASSUME NEW k \in DOMAIN r
       PROVE  /\ r[k] \in H \ E
              /\ Cardinality(H \cap (r[k] .. now)) = (Len(r) + 1) - k
              /\ Lately(H, E, r[k], now + 1)
  <2>1. CASE k = Len(r)
    <3>1. r[k] = now /\ (Len(r) + 1) - k = 1
      BY <1>8, <1>10, <2>1
    <3>2. H \cap (now .. now) = {now} /\ E \cap (now .. now) = {}
      BY <1>1 DEF H
    <3>3. Cardinality({now}) = 1
      BY FS_Singleton
    <3>4. Cardinality(H \cap (r[k] .. now)) = 1
      BY <3>1, <3>2, <3>3
    <3>5. Lately(H, E, r[k], now + 1)
      BY <1>1, <1>4, <3>1, <3>2, <3>4
    <3>6. now \in H \ E
      BY <1>1 DEF H
    <3>7. QED BY <3>1, <3>4, <3>5, <3>6
  <2>2. CASE k \in 1 .. Len(Kept(s))
    <3>1. r[k] = s[k + d] /\ k + d \in DOMAIN s
      BY <1>10, <2>2
    <3>2. s[k + d] \in G \ E /\ s[k + d] \in Range(s)
      BY <1>2, <1>6, <3>1
    <3>3. Cardinality(G \cap (s[k + d] .. now)) = (Len(s) + 1) - (k + d)
      BY <1>2, <3>1
    <3>4. Cardinality(H \cap (s[k + d] .. now)) = ((Len(s) + 1) - (k + d)) + 1
      <4>1. s[k + d] \in Nat /\ s[k + d] <= now
        BY <1>1, <3>2
      <4>2. QED BY <1>5, <3>3, <4>1
    <3>5. ((Len(s) + 1) - (k + d)) + 1 = (Len(r) + 1) - k
      <4>1. Len(r) = (Len(s) - d) + 1 /\ k \in Nat /\ d \in Nat
        BY <1>9, <1>10, <2>2
      <4>2. QED BY <1>1, <4>1
    <3>6. (Len(r) + 1) - k <= Length
      BY <1>1, <1>8, <1>10, <2>2
    <3>7. E \cap (s[k + d] .. now) = {}
      BY <1>2, <1>3, <3>2
    <3>8. Lately(H, E, r[k], now + 1)
      BY <1>4, <3>1, <3>4, <3>5, <3>6, <3>7
    <3>9. QED BY <3>1, <3>2, <3>4, <3>5, <3>8 DEF H
  <2>3. QED BY <1>11, <2>1, <2>2
<1>13. ASSUME NEW i \in H, Lately(H, E, i, now + 1)
       PROVE  i \in Range(r)
  <2>1. CASE i = now
    <3>1. Len(r) \in DOMAIN r
      BY <1>8, <1>10
    <3>2. QED BY <1>10, <2>1, <3>1 DEF Range
  <2>2. CASE i \in G
    <3>1. E \cap (i .. now) = {} /\ Cardinality(H \cap (i .. now)) <= Length
      BY <1>4, <1>13
    <3>2. Cardinality(H \cap (i .. now)) = Cardinality(G \cap (i .. now)) + 1
      BY <1>1, <1>5, <2>2
    <3>3. Cardinality(G \cap (i .. now)) \in Nat
      BY GivenIsFinite
    <3>4. Cardinality(G \cap (i .. now)) < Length
      BY <1>1, <3>1, <3>2, <3>3
    <3>5. i \in Range(s)
      BY <1>1, <1>2, <1>3, <2>2, <3>1, <3>3, <3>4
    <3>6. PICK k \in DOMAIN s : i = s[k]
      BY <3>5 DEF Range
    <3>7. (Len(s) + 1) - k < Length
      BY <1>2, <3>4, <3>6
    <3>8. k - d \in 1 .. Len(Kept(s)) /\ (k - d) + d = k
      <4>1. k \in 1 .. Len(s) /\ (d = 0 \/ (d = 1 /\ Len(s) = Length))
        BY <1>1, <1>9, Zenon
      <4>2. CASE d = 0
        BY <1>1, <1>9, <4>1, <4>2
      <4>3. CASE d = 1 /\ Len(s) = Length
        BY <1>1, <1>9, <3>7, <4>1, <4>3
      <4>4. QED BY <4>1, <4>2, <4>3
    <3>9. r[k - d] = i /\ k - d \in DOMAIN r
      BY <1>8, <1>10, <3>6, <3>8
    <3>10. QED BY <3>9 DEF Range
  <2>3. QED BY <2>1, <2>2 DEF H
<1>14. Range(r) = {i \in H : Lately(H, E, i, now + 1)}
  BY <1>12, <1>13 DEF Range
<1>15. ASSUME NEW i \in DOMAIN r, NEW j \in DOMAIN r, i < j
       PROVE  r[i] < r[j]
  <2>1. i \in 1 .. Len(Kept(s)) /\ r[i] = s[i + d] /\ i + d \in DOMAIN s
    <3>1. i \in 1 .. Len(Kept(s)) + 1 /\ j \in 1 .. Len(Kept(s)) + 1
      BY <1>10
    <3>2. i \in 1 .. Len(Kept(s))
      BY <1>8, <1>15, <3>1
    <3>3. QED BY <1>10, <3>2
  <2>2. CASE j = Len(r)
    BY <1>1, <1>6, <1>10, <2>1, <2>2
  <2>3. CASE j \in 1 .. Len(Kept(s))
    <3>1. r[j] = s[j + d] /\ j + d \in DOMAIN s
      BY <1>10, <2>3
    <3>2. i + d < j + d
      BY <1>15, <2>1, <2>3
    <3>3. QED BY <1>2, <2>1, <3>1, <3>2
  <2>4. QED BY <1>11, <2>2, <2>3
<1>16. Range(r) \subseteq H \ E
  BY <1>12 DEF Range
<1>17. StoreIsSound(w, r, H, E, now, {})
  BY <1>12, <1>14, <1>15, <1>16 DEF StoreIsSound
<1>18. QED BY <1>17 DEF r, H

-----------------------------------------------------------------------------
LEMMA LinesAppended ==
    ASSUME NEW o \in Seq(Nat), NEW f \in Seq(Nat), NEW line \in Nat \ {0}
    PROVE  /\ LinesIn(o, Append(f, line)) = LinesIn(o, f) \cup {line}
           /\ Append(f, line) \in Seq(Nat)
<1>1. /\ Append(f, line) \in Seq(Nat)
      /\ DOMAIN Append(f, line) = 1 .. Len(f) + 1
      /\ \A i \in 1 .. Len(f) : Append(f, line)[i] = f[i]
      /\ Append(f, line)[Len(f) + 1] = line
      /\ DOMAIN f = 1 .. Len(f) /\ Len(f) \in Nat
  BY AppendProperties, LenProperties
<1>2. \A i \in 1 .. Len(f) + 1 : i \in 1 .. Len(f) \/ i = Len(f) + 1
  BY <1>1
<1>3. Len(f) + 1 \in 1 .. Len(f) + 1 /\ 1 .. Len(f) \subseteq 1 .. Len(f) + 1
  BY <1>1
<1>4. Range(Append(f, line)) = Range(f) \cup {line}
  BY <1>1, <1>2, <1>3 DEF Range
<1>5. QED BY <1>1, <1>4 DEF LinesIn

(* A line is told after all others. *)
LEMMA TellsLine ==
    ASSUME NEW o \in Seq(Nat), NEW f \in Seq(Nat), NEW line \in Nat \ {0},
           NEW s, NEW G, G \subseteq Nat, NEW t, NEW r, NEW H, NEW u,
           FileIsSound(o, f, s, G, t),
           \A i \in LinesIn(o, f) : i < line,
           G \subseteq H, line \in H,
           Range(r) \cup u \subseteq Range(s) \cup t, \A i \in Range(r) \cup u : line < i
    PROVE  FileIsSound(o, Append(f, line), r, H, u)
<1> DEFINE g == Append(f, line)
<1>1. /\ g \in Seq(Nat) /\ DOMAIN g = 1 .. Len(f) + 1 /\ g[Len(f) + 1] = line
      /\ \A i \in 1 .. Len(f) : g[i] = f[i]
      /\ DOMAIN f = 1 .. Len(f) /\ Len(f) \in Nat
  BY AppendProperties, LenProperties
<1>2. LinesIn(o, g) = LinesIn(o, f) \cup {line}
  BY LinesAppended
<1> HIDE DEF g
<1>3. \A i \in DOMAIN g : i \in 1 .. Len(f) \/ i = Len(f) + 1
  BY <1>1
<1>4. /\ \A i \in DOMAIN f : f[i] \in Nat /\ (f[i] > 0 => f[i] \in LinesIn(o, f))
      /\ \A i \in DOMAIN o : o[i] \in Nat /\ (o[i] > 0 => o[i] \in LinesIn(o, f))
  BY DEF LinesIn, Range
<1>5. InOrder(g)
  <2> SUFFICES ASSUME NEW i \in DOMAIN g, NEW j \in DOMAIN g, i < j, g[i] > 0
               PROVE  g[i] < g[j]
    BY DEF InOrder
  <2>1. i \in 1 .. Len(f)
    BY <1>1
  <2>2. CASE j \in 1 .. Len(f)
    BY <1>1, <2>1, <2>2 DEF FileIsSound, InOrder
  <2>3. CASE j = Len(f) + 1
    BY <1>1, <1>4, <2>1, <2>3
  <2>4. QED BY <1>3, <2>2, <2>3
<1>6. ASSUME NEW i \in DOMAIN o, NEW j \in DOMAIN g, o[i] > 0
      PROVE  o[i] < g[j]
  <2>1. CASE j \in 1 .. Len(f)
    BY <1>1, <1>6, <2>1 DEF FileIsSound
  <2>2. CASE j = Len(f) + 1
    BY <1>1, <1>4, <1>6, <2>2
  <2>3. QED BY <1>3, <2>1, <2>2
<1>7. \A l \in LinesIn(o, g) : \A i \in Range(r) \cup u : l < i
  BY <1>2 DEF FileIsSound
<1>8. FileIsSound(o, g, r, H, u)
  BY <1>2, <1>5, <1>6, <1>7 DEF FileIsSound
<1>9. QED BY <1>8 DEF g

(* A file that is full becomes the .old, and what that one had is lost.    *)
LEMMA LinesRotated ==
    ASSUME NEW o \in Seq(Nat), NEW f \in Seq(Nat), NEW s, NEW G, NEW t, FileIsSound(o, f, s, G, t)
    PROVE  /\ FileIsSound(f, <<>>, s, G, t) /\ FileIsSound(o, <<>>, s, G, t)
           /\ LinesIn(f, <<>>) = Range(f) \ {0}
<1>1. LinesIn(f, <<>>) = Range(f) \ {0} /\ LinesIn(o, <<>>) = Range(o) \ {0}
  BY DEF LinesIn, Range
<1>2. LinesIn(f, <<>>) \subseteq LinesIn(o, f) /\ LinesIn(o, <<>>) \subseteq LinesIn(o, f)
  BY <1>1 DEF LinesIn
<1>3. InOrder(<<>>)
  BY DEF InOrder
<1>4. QED BY <1>1, <1>2, <1>3 DEF FileIsSound

LEMMA RotationMissesNothing ==
    ASSUME NEW w, NEW o \in Seq(Nat), NEW f \in Seq(Nat), NEW s, NEW G, NEW E, NEW t,
           G \subseteq Nat, FileIsSound(o, f, s, G, t), f # <<>>,
           NothingIsMissed(w, o, f, s, G, E, t)
    PROVE  NothingIsMissed(w, f, <<>>, s, G, E, t)
<1>1. LinesIn(f, <<>>) = Range(f) \ {0} /\ LinesIn(f, <<>>) \subseteq LinesIn(o, f)
  <2>1. LinesIn(f, <<>>) = Range(f) \ {0}
    BY LinesRotated
  <2>2. QED BY <2>1 DEF LinesIn
<1>2. DueOf(w, G, E) \subseteq Nat
  BY DEF DueOf
<1>3. ASSUME NEW line \in LinesIn(o, f), NEW later \in LinesIn(f, <<>>), later <= line
      PROVE  line \in LinesIn(f, <<>>)
  <2>1. CASE line \in Range(f)
    BY <1>1, <2>1 DEF LinesIn
  <2>2. CASE line \in Range(o)
    <3>1. PICK i \in DOMAIN o : line = o[i]
      BY <2>2 DEF Range
    <3>2. PICK j \in DOMAIN f : later = f[j]
      BY <1>1 DEF Range
    <3>3. o[i] \in Nat /\ f[j] \in Nat /\ o[i] > 0
      BY <3>1 DEF LinesIn
    <3>4. o[i] < f[j]
      BY <3>3 DEF FileIsSound
    <3>5. QED BY <1>3, <3>1, <3>2, <3>3, <3>4
  <2>3. QED BY <2>1, <2>2 DEF LinesIn
<1>4. ASSUME LinesIn(f, <<>>) = {}
      PROVE  LinesIn(o, f) = {}
  <2>1. 1 \in DOMAIN f /\ f[1] \in Nat /\ f[1] = 0
    <3>1. 1 \in DOMAIN f /\ f[1] \in Nat
      BY EmptySeq
    <3>2. QED BY <1>1, <1>4, <3>1 DEF Range
  <2>2. ASSUME NEW i \in DOMAIN o
        PROVE  o[i] = 0
    <3>1. o[i] \in Nat
      OBVIOUS
    <3>2. ~(o[i] > 0)
      BY <2>1, <3>1 DEF FileIsSound
    <3>3. QED BY <3>1, <3>2
  <2>3. QED BY <1>1, <1>4, <2>2 DEF LinesIn, Range
<1>5. QED BY <1>1, <1>2, <1>3, <1>4 DEF NothingIsMissed

LEMMA FewerAreAwaited ==
    ASSUME NEW o, NEW f, NEW s, NEW G, NEW t, NEW r, NEW H, NEW u, FileIsSound(o, f, s, G, t),
           G \subseteq H, Range(r) \cup u \subseteq Range(s) \cup t
    PROVE  FileIsSound(o, f, r, H, u)
BY DEF FileIsSound

-----------------------------------------------------------------------------
(* An error comes: what is stored is due now.                               *)
LEMMA ErrorComes ==
    ASSUME NEW w \in Backtrace, NEW o, NEW f, NEW s, NEW G, NEW E, NEW now \in Nat \ {0},
           IsTrace(G, E, now), now \notin G,
           StoreIsSound(w, s, G, E, now, {}), FileIsSound(o, f, s, G, {})
    PROVE  /\ IsTrace(G \cup {now}, E \cup {now}, now)
           /\ StoreIsSound(w, s, G \cup {now}, E \cup {now}, now, {now})
           /\ FileIsSound(o, f, s, G \cup {now}, {now})
           /\ NothingIsMissed(w, o, f, s, G, E, {}) =>
                  NothingIsMissed(w, o, f, s, G \cup {now}, E \cup {now}, {now})
<1>1. \A i \in G : i \in Nat /\ i < now
  BY DEF IsTrace
<1>2. IsTrace(G \cup {now}, E \cup {now}, now)
  <2>1. G \subseteq 1 .. now /\ E \subseteq G /\ now \in 1 .. now
    BY DEF IsTrace
  <2>2. QED BY <2>1 DEF IsTrace
<1>3. StoreIsSound(w, s, G \cup {now}, E \cup {now}, now, {now})
  BY DEF StoreIsSound
<1>4. FileIsSound(o, f, s, G \cup {now}, {now})
  BY <1>1 DEF FileIsSound
<1>5. LatelyGiven(G, E, now) = Range(s)
  <2>1. ASSUME NEW i \in G
        PROVE  Lately(G, E, i, now) <=> Lately(G, E, i, now + 1)
    <3>1. G \cap (i .. now - 1) = G \cap (i .. (now + 1) - 1)
      BY <1>1
    <3>2. E \cap (i .. now - 1) = E \cap (i .. (now + 1) - 1)
      BY <1>1 DEF IsTrace
    <3>3. QED BY <3>1, <3>2 DEF Lately
  <2>2. QED BY <2>1 DEF StoreIsSound, LatelyGiven
<1>6. DueOf(w, G \cup {now}, E \cup {now}) = DueOf(w, G, E) \cup {now} \cup Range(s)
  <2>1. \A i : i \in DueOf(w, G \cup {now}, E \cup {now}) <=>
                   i \in DueOf(w, G, E) \/ i = now \/ i \in LatelyGiven(G, E, now)
    BY ErrorIsDue
  <2>2. QED BY <1>5, <2>1
<1>7. Awaited(s, {}) = {} /\ Awaited(s, {now}) = Range(s) \cup {now}
  BY DEF Awaited
<1>8. QED BY <1>2, <1>3, <1>4, <1>6, <1>7 DEF NothingIsMissed

(* It tells the stored lines, one by one, *)
LEMMA TailOfStore ==
    ASSUME NEW s \in Seq(Nat), s # <<>>
    PROVE  /\ Tail(s) \in Seq(Nat)
           /\ Range(s) = {Head(s)} \cup Range(Tail(s)) /\ Head(s) \in Nat
           /\ (\A i, j \in DOMAIN s : i < j => s[i] < s[j]) =>
                  /\ \A i, j \in DOMAIN Tail(s) : i < j => Tail(s)[i] < Tail(s)[j]
                  /\ \A i \in Range(Tail(s)) : Head(s) < i
<1>1. /\ Tail(s) \in Seq(Nat) /\ Head(s) \in Nat /\ Head(s) = s[1]
      /\ DOMAIN Tail(s) = 1 .. Len(s) - 1 /\ DOMAIN s = 1 .. Len(s)
      /\ Len(s) \in Nat /\ Len(s) > 0
      /\ \A i \in 1 .. Len(s) - 1 : Tail(s)[i] = s[i + 1]
  BY HeadTailProperties, EmptySeq, LenProperties
<1>2. ASSUME NEW i \in DOMAIN s
      PROVE  i = 1 \/ (i - 1 \in DOMAIN Tail(s) /\ Tail(s)[i - 1] = s[i])
  BY <1>1
<1>3. ASSUME NEW i \in DOMAIN Tail(s)
      PROVE  i + 1 \in DOMAIN s /\ Tail(s)[i] = s[i + 1] /\ 1 < i + 1 /\ 1 \in DOMAIN s
  BY <1>1
<1>4. Range(s) = {Head(s)} \cup Range(Tail(s))
  <2>1. 1 \in DOMAIN s
    BY <1>1
  <2>2. ASSUME NEW i \in DOMAIN s
        PROVE  s[i] \in {Head(s)} \cup Range(Tail(s))
    BY <1>1, <1>2 DEF Range
  <2>3. ASSUME NEW i \in DOMAIN Tail(s)
        PROVE  Tail(s)[i] \in Range(s)
    BY <1>3 DEF Range
  <2>4. Head(s) \in Range(s)
    BY <1>1, <2>1 DEF Range
  <2>5. QED BY <2>2, <2>3, <2>4 DEF Range
<1>5. ASSUME \A i, j \in DOMAIN s : i < j => s[i] < s[j]
      PROVE  /\ \A i, j \in DOMAIN Tail(s) : i < j => Tail(s)[i] < Tail(s)[j]
             /\ \A i \in Range(Tail(s)) : Head(s) < i
  <2>1. ASSUME NEW i \in DOMAIN Tail(s), NEW j \in DOMAIN Tail(s), i < j
        PROVE  Tail(s)[i] < Tail(s)[j]
    <3>1. i + 1 < j + 1
      BY <1>1, <2>1
    <3>2. QED BY <1>3, <1>5, <3>1
  <2>2. \A i \in DOMAIN Tail(s) : Head(s) < Tail(s)[i]
    BY <1>1, <1>3, <1>5
  <2>3. QED BY <2>1, <2>2 DEF Range
<1>6. QED BY <1>1, <1>4, <1>5

LEMMA StoreIsBounded ==
    ASSUME NEW w \in Backtrace, NEW s \in Seq(Nat), NEW G, NEW E, NEW now \in Nat,
           StoreIsSound(w, s, G, E, now, {})
    PROVE  Len(s) <= Length
<1>1. CASE Len(s) = 0
  BY <1>1, LoggerAssumption
<1>2. CASE Len(s) # 0
  <2>1. 1 \in DOMAIN s
    BY <1>2
  <2>2. s[1] \in Range(s) /\ Cardinality(G \cap (s[1] .. now)) = (Len(s) + 1) - 1
    BY <2>1 DEF StoreIsSound, Range
  <2>3. Lately(G, E, s[1], now + 1)
    BY <2>2 DEF StoreIsSound
  <2>4. (now + 1) - 1 = now /\ (Len(s) + 1) - 1 = Len(s)
    BY LenProperties
  <2>5. QED BY <2>2, <2>3, <2>4 DEF Lately
<1>3. QED BY <1>1, <1>2

LEMMA StoredIsLater ==
    ASSUME NEW w, NEW o, NEW f, NEW s \in Seq(Nat), NEW G, NEW E, NEW now \in Nat \ {0},
           IsTrace(G, E, now), now \notin G, Len(s) <= Length, FileIsSound(o, f, s, G, {})
    PROVE  FileIsSound(o, f, Append(Kept(s), now), G \cup {now}, {})
<1>1. Kept(s) \in Seq(Nat) /\ Range(Kept(s)) \subseteq Range(s)
  <2>1. Kept(s) = s \/ (Kept(s) = Tail(s) /\ s # <<>>)
    BY LoggerAssumption DEF Kept
  <2>2. CASE Kept(s) = s
    BY <2>2
  <2>3. CASE Kept(s) = Tail(s) /\ s # <<>>
    <3>1. Tail(s) \in Seq(Nat) /\ Range(Tail(s)) \subseteq Range(s)
      BY <2>3, TailOfStore
    <3>2. QED BY <2>3, <3>1
  <2>4. QED BY <2>1, <2>2, <2>3
<1>2. Range(Append(Kept(s), now)) \subseteq Range(s) \cup {now}
  <2>1. /\ DOMAIN Append(Kept(s), now) = 1 .. Len(Kept(s)) + 1 /\ DOMAIN Kept(s) = 1 .. Len(Kept(s))
        /\ Append(Kept(s), now)[Len(Kept(s)) + 1] = now /\ Len(Kept(s)) \in Nat
        /\ \A i \in 1 .. Len(Kept(s)) : Append(Kept(s), now)[i] = Kept(s)[i]
    BY <1>1, AppendProperties, LenProperties
  <2>2. \A i \in 1 .. Len(Kept(s)) + 1 : i \in 1 .. Len(Kept(s)) \/ i = Len(Kept(s)) + 1
    BY <2>1
  <2>3. QED BY <1>1, <2>1, <2>2 DEF Range
<1>3. \A i \in LinesIn(o, f) : i < now
  <2>1. \A i \in G : i < now
    BY DEF IsTrace
  <2>2. QED BY <2>1 DEF FileIsSound
<1>4. QED BY <1>2, <1>3 DEF FileIsSound

LEMMA StoredIsTold ==
    ASSUME NEW w, NEW o \in Seq(Nat), NEW f \in Seq(Nat), NEW s \in Seq(Nat), s # <<>>,
           NEW G, NEW E, NEW now, IsTrace(G, E, now), now \in E,
           StoreIsSound(w, s, G, E, now, {now}), FileIsSound(o, f, s, G, {now})
    PROVE  /\ Head(s) \in G
           /\ StoreIsSound(w, Tail(s), G, E, now, {now})
           /\ FileIsSound(o, f, Tail(s), G, {now})
           /\ FileIsSound(o, Append(f, Head(s)), Tail(s), G, {now})
           /\ NothingIsMissed(w, o, f, s, G, E, {now}) =>
                  NothingIsMissed(w, o, Append(f, Head(s)), Tail(s), G, E, {now})
<1>1. /\ Range(s) = {Head(s)} \cup Range(Tail(s)) /\ Tail(s) \in Seq(Nat)
      /\ \A i, j \in DOMAIN Tail(s) : i < j => Tail(s)[i] < Tail(s)[j]
      /\ \A i \in Range(Tail(s)) : Head(s) < i
  BY TailOfStore DEF StoreIsSound
<1>2. /\ Head(s) \in G \ E /\ Head(s) \in Nat \ {0} /\ Head(s) < now
      /\ G \subseteq Nat
  BY <1>1, SMTT(30) DEF StoreIsSound, IsTrace
<1>3. StoreIsSound(w, Tail(s), G, E, now, {now})
  <2>1. w \in Backtrace
    BY DEF StoreIsSound
  <2>2. QED BY <1>1, <2>1 DEF StoreIsSound
<1>4. FileIsSound(o, f, Tail(s), G, {now})
  BY <1>1, FewerAreAwaited
<1>5. \A line \in LinesIn(o, f) : line < Head(s)
  BY <1>1 DEF FileIsSound
<1>6. FileIsSound(o, Append(f, Head(s)), Tail(s), G, {now})
  BY <1>1, <1>2, <1>5, TellsLine
<1>7. LinesIn(o, Append(f, Head(s))) = LinesIn(o, f) \cup {Head(s)}
  BY <1>2, LinesAppended
<1>8. /\ Awaited(s, {now}) = {Head(s)} \cup Range(Tail(s)) \cup {now}
      /\ Awaited(Tail(s), {now}) = Range(Tail(s)) \cup {now}
  BY <1>1 DEF Awaited
<1>9. ASSUME NothingIsMissed(w, o, f, s, G, E, {now})
      PROVE  NothingIsMissed(w, o, Append(f, Head(s)), Tail(s), G, E, {now})
  <2>1. ASSUME NEW i \in DueOf(w, G, E), Head(s) <= i
        PROVE  i \in LinesIn(o, f) \cup Awaited(s, {now})
    <3>1. CASE LinesIn(o, f) = {}
      BY <1>9, <2>1, <3>1 DEF NothingIsMissed
    <3>2. CASE LinesIn(o, f) # {}
      <4>1. PICK line \in LinesIn(o, f) : TRUE
        BY <3>2
      <4>2. line <= i
        <5>1. i \in Nat /\ line \in Nat /\ line < Head(s)
          BY <1>2, <1>5, <4>1 DEF DueOf, FileIsSound
        <5>2. QED BY <1>2, <2>1, <5>1
      <4>3. QED BY <1>9, <4>1, <4>2 DEF NothingIsMissed
    <3>3. QED BY <3>1, <3>2
  <2>2. QED BY <1>7, <1>8, <1>9, <2>1 DEF NothingIsMissed
<1>10. QED BY <1>2, <1>3, <1>4, <1>6, <1>9

(* and then itself.                                                         *)
LEMMA ErrorIsTold ==
    ASSUME NEW w, NEW o \in Seq(Nat), NEW f \in Seq(Nat),
           NEW G, NEW E, NEW now \in Nat \ {0}, IsTrace(G, E, now), now \in E,
           StoreIsSound(w, <<>>, G, E, now, {now}), FileIsSound(o, f, <<>>, G, {now})
    PROVE  /\ StoreIsSound(w, <<>>, G, E, now, {})
           /\ FileIsSound(o, f, <<>>, G, {})
           /\ FileIsSound(o, Append(f, now), <<>>, G, {})
           /\ NothingIsMissed(w, o, f, <<>>, G, E, {now}) =>
                  NothingIsMissed(w, o, Append(f, now), <<>>, G, E, {})
<1>1. Range(<<>>) = {} /\ G \subseteq Nat /\ now \in G
  BY DEF Range, IsTrace
<1>2. StoreIsSound(w, <<>>, G, E, now, {})
  <2>1. ASSUME NEW i \in G
        PROVE  ~Lately(G, E, i, now + 1)
    <3>1. now \in i .. (now + 1) - 1
      BY DEF IsTrace
    <3>2. QED BY <3>1 DEF Lately
  <2>2. {i \in G : Lately(G, E, i, now + 1)} = {}
    BY <2>1
  <2>3. DOMAIN <<>> = {}
    OBVIOUS
  <2>4. QED BY <1>1, <2>2, <2>3 DEF StoreIsSound
<1>3. FileIsSound(o, f, <<>>, G, {})
  BY <1>1, FewerAreAwaited
<1>4. \A line \in LinesIn(o, f) : line < now
  BY <1>1 DEF FileIsSound
<1>5. FileIsSound(o, Append(f, now), <<>>, G, {})
  BY <1>1, <1>4, TellsLine
<1>6. LinesIn(o, Append(f, now)) = LinesIn(o, f) \cup {now}
  BY LinesAppended
<1>7. Awaited(<<>>, {now}) = {now} /\ Awaited(<<>>, {}) = {}
  BY <1>1 DEF Awaited
<1>8. \A i \in DueOf(w, G, E) : now <= i => i = now
  BY DEF DueOf, IsTrace
<1>9. QED BY <1>2, <1>3, <1>5, <1>6, <1>7, <1>8 DEF NothingIsMissed

(* A writer that stores nothing tells each line at once. *)
LEMMA LineIsTold ==
    ASSUME NEW w, w \notin Backtrace, NEW o \in Seq(Nat), NEW f \in Seq(Nat),
           NEW G, NEW E, NEW F, NEW now \in Nat \ {0}, IsTrace(G, E, now), now \notin G,
           F \in {E, E \cup {now}}, NEW s,
           StoreIsSound(w, s, G, E, now, {}), FileIsSound(o, f, s, G, {})
    PROVE  /\ IsTrace(G \cup {now}, F, now)
           /\ StoreIsSound(w, s, G \cup {now}, F, now, {})
           /\ FileIsSound(o, f, s, G \cup {now}, {})
           /\ FileIsSound(o, Append(f, now), s, G \cup {now}, {})
           /\ NothingIsMissed(w, o, f, s, G, E, {}) =>
                  NothingIsMissed(w, o, Append(f, now), s, G \cup {now}, F, {})
<1>1. s = <<>> /\ Range(s) = {}
  BY DEF StoreIsSound, Range
<1>2. \A i \in G : i \in Nat /\ i < now
  BY DEF IsTrace
<1>3. IsTrace(G \cup {now}, F, now)
  <2>1. G \subseteq 1 .. now /\ E \subseteq G /\ now \in 1 .. now
    BY DEF IsTrace
  <2>2. F \subseteq E \cup {now}
    OBVIOUS
  <2>3. F \subseteq G \cup {now}
    BY <2>1, <2>2
  <2>4. QED BY <2>1, <2>3 DEF IsTrace
<1>4. StoreIsSound(w, s, G \cup {now}, F, now, {})
  BY <1>1 DEF StoreIsSound
<1>5. FileIsSound(o, f, s, G \cup {now}, {})
  BY FewerAreAwaited
<1>6. \A line \in LinesIn(o, f) : line < now
  BY <1>2 DEF FileIsSound
<1>7. FileIsSound(o, Append(f, now), s, G \cup {now}, {})
  BY <1>1, <1>2, <1>6, TellsLine
<1>8. LinesIn(o, Append(f, now)) = LinesIn(o, f) \cup {now}
  BY LinesAppended
<1>9. DueOf(w, G, E) = G /\ DueOf(w, G \cup {now}, F) = G \cup {now} /\ Awaited(s, {}) = {}
  BY DEF DueOf, Awaited
<1>10. \A i \in G : ~(now <= i)
  BY <1>2
<1>11. QED BY <1>3, <1>4, <1>5, <1>7, <1>8, <1>9, <1>10 DEF NothingIsMissed

-----------------------------------------------------------------------------
Phases == {"line", "stored", "error"}
Traces == [level : Levels, given : SUBSET TraceWriters]

LoggerTypes ==
    /\ writers \in Seq(TraceWriters)
    /\ stream \subseteq TraceWriters /\ failed \subseteq TraceWriters
    /\ file \in [TraceWriters -> Seq(Nat)] /\ old \in [TraceWriters -> Seq(Nat)]
    /\ stored \in [TraceWriters -> Seq(Nat)] /\ lineno \in [TraceWriters -> Nat]
    /\ todo \in Seq(TraceWriters \X Phases)
    /\ log \in Seq(Traces)

(* What is written to the file of w, and what becomes of its .old: nothing, *)
(* the line, a rotation after it, or the file is emptied.                   *)
HasOf(w, content) ==
    \/ file'[w] = file[w] /\ old'[w] = old[w] /\ w \notin stream /\ failed' = failed
    \/ file'[w] = content /\ old'[w] = old[w] /\ failed' = failed
    \/ file'[w] = <<>> /\ old'[w] = content
    \/ file'[w] = <<>> /\ old'[w] = old[w] /\ w \in failed'

(* No other file is touched, and a writer without a stream has failed.      *)
OnlyOf(w) ==
    /\ stream' \subseteq stream \cup {w} /\ stream \subseteq stream' \cup {w}
    /\ failed \subseteq failed' /\ failed' \subseteq failed \cup {w}
    /\ w \in stream => w \in stream' \cup failed'
    /\ file' \in [TraceWriters -> Seq(Nat)] /\ old' \in [TraceWriters -> Seq(Nat)]
    /\ \A v \in TraceWriters \ {w} : file'[v] = file[v] /\ old'[v] = old[v]

LEMMA RotateLeaves ==
    ASSUME LoggerTypes, NEW w \in TraceWriters, NEW content \in Seq(Nat), Rotate(w, content)
    PROVE  /\ OnlyOf(w) /\ w \in stream' \cup failed'
           /\ file'[w] = <<>> /\ (old'[w] = content \/ (old'[w] = old[w] /\ w \in failed'))
<1>1. <<>> \in Seq(Nat)
  OBVIOUS
<1>2. file' = [file EXCEPT ![w] = <<>>] /\ (old' = [old EXCEPT ![w] = content] \/ (old' = old /\ w \in failed'))
  BY DEF Rotate
<1>3. /\ file' \in [TraceWriters -> Seq(Nat)] /\ old' \in [TraceWriters -> Seq(Nat)]
      /\ \A v \in TraceWriters \ {w} : file'[v] = file[v] /\ old'[v] = old[v]
      /\ file'[w] = <<>> /\ (old'[w] = content \/ (old'[w] = old[w] /\ w \in failed'))
  BY <1>1, <1>2 DEF LoggerTypes
<1>4. /\ stream' \subseteq stream \cup {w} /\ stream \subseteq stream' \cup {w}
      /\ failed \subseteq failed' /\ failed' \subseteq failed \cup {w}
      /\ w \in stream' \cup failed'
  BY DEF Rotate
<1>5. QED BY <1>3, <1>4 DEF OnlyOf

LEMMA WriteLineLeaves ==
    ASSUME LoggerTypes, NEW w \in TraceWriters, NEW line \in Nat, WriteLine(w, line)
    PROVE  /\ OnlyOf(w) /\ HasOf(w, Append(file[w], line))
           /\ lineno' \in [TraceWriters -> Nat] /\ stream' \subseteq TraceWriters
<1> DEFINE content == Append(file[w], line)
<1>1. content \in Seq(Nat)
  BY AppendProperties DEF LoggerTypes
<1>2. lineno' \in [TraceWriters -> Nat]
  BY SMTT(30) DEF WriteLine, LoggerTypes
<1>3. CASE w \notin stream
  <2>1. UNCHANGED <<stream, file, old, failed>>
    BY <1>3 DEF WriteLine
  <2>2. QED BY <1>2, <1>3, <2>1 DEF OnlyOf, HasOf, LoggerTypes
<1>4. CASE w \in stream /\ Rotate(w, content)
  <2>1. OnlyOf(w) /\ HasOf(w, content)
    BY <1>1, <1>4, RotateLeaves DEF HasOf
  <2>2. stream' \subseteq TraceWriters
    BY <2>1 DEF OnlyOf, LoggerTypes
  <2>3. QED BY <1>2, <2>1, <2>2
<1>5. CASE w \in stream /\ file' = [file EXCEPT ![w] = content] /\ UNCHANGED <<stream, old, failed>>
  BY <1>1, <1>2, <1>5 DEF OnlyOf, HasOf, LoggerTypes
<1>6. QED BY <1>3, <1>4, <1>5 DEF WriteLine

LEMMA OpenWriterLeaves ==
    ASSUME LoggerTypes, NEW w \in TraceWriters, OpenWriter(w)
    PROVE  /\ OnlyOf(w) /\ w \in stream' \cup failed' /\ stream' \subseteq TraceWriters
           /\ \/ file'[w] = file[w] /\ old'[w] = old[w]
              \/ file'[w] = <<>> /\ old'[w] = file[w] /\ file[w] # <<>>
              \/ file'[w] = <<>> /\ old'[w] = old[w] /\ w \in failed'
<1>1. CASE ~RotatesFirst(w) /\ stream' = stream \cup {w} /\ UNCHANGED <<file, old, failed>>
  BY <1>1 DEF OnlyOf, LoggerTypes
<1>2. CASE failed' = failed \cup {w} /\ UNCHANGED <<stream, file, old>>
  BY <1>2 DEF OnlyOf, LoggerTypes
<1>3. CASE RotatesFirst(w) /\ Rotate(w, file[w])
  <2>1. file[w] \in Seq(Nat)
    BY DEF LoggerTypes
  <2>2. file[w] # <<>>
    BY <1>3, LoggerAssumption DEF RotatesFirst, Rotates
  <2>3. /\ OnlyOf(w) /\ w \in stream' \cup failed'
        /\ file'[w] = <<>> /\ (old'[w] = file[w] \/ (old'[w] = old[w] /\ w \in failed'))
    BY <1>3, <2>1, RotateLeaves
  <2>4. stream' \subseteq TraceWriters
    BY <2>3 DEF OnlyOf, LoggerTypes
  <2>5. QED BY <2>2, <2>3, <2>4
<1>4. QED BY <1>1, <1>2, <1>3 DEF OpenWriter

(* The history: a trace begins with nobody having it, and is given to one   *)
(* after the other.                                                         *)
LEMMA TraceBegins ==
    ASSUME LoggerTypes, NEW l \in Levels, log' = NewTrace(l)
    PROVE  /\ log' \in Seq(Traces) /\ Len(log') = Len(log) + 1
           /\ log'[Len(log')].given = {}
           /\ \A w \in TraceWriters : Given(w)' = Given(w) /\ ErrorsOf(w)' = ErrorsOf(w)
<1> DEFINE trace == [level |-> l, given |-> {}]
<1>1. trace \in Traces /\ trace.given = {}
  BY DEF Traces
<1>2. log \in Seq(Traces) /\ Len(log) \in Nat /\ DOMAIN log = 1 .. Len(log)
  BY DEF LoggerTypes
<1> HIDE DEF trace
<1>3. log' = Append(log, trace)
  BY DEF NewTrace, trace
<1>4. /\ log' \in Seq(Traces) /\ Len(log') = Len(log) + 1
      /\ \A i \in 1 .. Len(log) : log'[i] = log[i]
      /\ log'[Len(log) + 1] = trace
  BY <1>1, <1>2, <1>3, AppendProperties
<1>5. DOMAIN log' = 1 .. Len(log) + 1 /\ \A i \in 1 .. Len(log) + 1 : i \in 1 .. Len(log) \/ i = Len(log) + 1
  BY <1>2, <1>4
<1>6. 1 .. Len(log) \subseteq 1 .. Len(log) + 1
  BY <1>2
<1>7. ASSUME NEW w \in TraceWriters
      PROVE  Given(w)' = Given(w) /\ ErrorsOf(w)' = ErrorsOf(w)
  <2>1. Given(w)' = Given(w)
    BY <1>1, <1>2, <1>4, <1>5, <1>6 DEF Given
  <2>2. \A i \in Given(w) : log'[i] = log[i]
    BY <1>2, <1>4 DEF Given
  <2>3. QED BY <2>1, <2>2 DEF ErrorsOf
<1>8. QED BY <1>1, <1>4, <1>7

LEMMA TraceIsGiven ==
    ASSUME LoggerTypes, NEW w \in TraceWriters, Len(log) > 0, log' = GivenTo(w)
    PROVE  /\ log' \in Seq(Traces) /\ Len(log') = Len(log)
           /\ log'[Len(log)].given = log[Len(log)].given \cup {w}
           /\ Given(w)' = Given(w) \cup {Len(log)}
           /\ ErrorsOf(w)' = IF log[Len(log)].level <= Error THEN ErrorsOf(w) \cup {Len(log)} ELSE ErrorsOf(w)
           /\ \A v \in TraceWriters \ {w} : Given(v)' = Given(v) /\ ErrorsOf(v)' = ErrorsOf(v)
<1> DEFINE n == Len(log)
           trace == [log[n] EXCEPT !.given = @ \cup {w}]
<1>1. log \in Seq(Traces) /\ n \in Nat /\ DOMAIN log = 1 .. n /\ n \in 1 .. n
  BY DEF LoggerTypes
<1>2. log[n] \in Traces
  BY <1>1
<1>3. trace \in Traces /\ trace.level = log[n].level /\ trace.given = log[n].given \cup {w}
  BY <1>2 DEF Traces
<1>4. log' = [log EXCEPT ![n] = trace]
  BY DEF GivenTo
<1> HIDE DEF trace
<1>5. /\ log' \in Seq(Traces) /\ Len(log') = n
      /\ \A i \in 1 .. n : log'[i] = IF i = n THEN trace ELSE log[i]
  BY <1>1, <1>3, <1>4, ExceptSeq
<1>6. DOMAIN log' = 1 .. n
  BY <1>5
<1>7. \A i \in 1 .. n : log'[i].level = log[i].level
  BY <1>3, <1>5
<1>8. Given(w)' = Given(w) \cup {n}
  BY <1>1, <1>3, <1>5, <1>6, Zenon DEF Given
<1>9. ErrorsOf(w)' = IF log[n].level <= Error THEN ErrorsOf(w) \cup {n} ELSE ErrorsOf(w)
  <2>1. Given(w) \subseteq 1 .. n
    BY <1>1 DEF Given
  <2>2. ErrorsOf(w)' = {i \in Given(w)' : log'[i].level <= Error}
    BY DEF ErrorsOf, Error
  <2>3. QED BY <1>1, <1>7, <1>8, <2>1, <2>2 DEF ErrorsOf
<1>10. ASSUME NEW v \in TraceWriters \ {w}
       PROVE  Given(v)' = Given(v) /\ ErrorsOf(v)' = ErrorsOf(v)
  <2>1. \A i \in 1 .. n : v \in log'[i].given <=> v \in log[i].given
    BY <1>3, <1>5
  <2>2. Given(v)' = Given(v) /\ Given(v) \subseteq 1 .. n
    BY <1>1, <1>6, <2>1 DEF Given
  <2>3. QED BY <1>7, <2>2 DEF ErrorsOf
<1>11. QED BY <1>1, <1>3, <1>5, <1>8, <1>9, <1>10, Zenon

LEMMA GivenIsTrace ==
    ASSUME LoggerTypes, NEW w
    PROVE  IsTrace(Given(w), ErrorsOf(w), Len(log))
<1>1. Len(log) \in Nat /\ DOMAIN log = 1 .. Len(log)
  BY DEF LoggerTypes
<1>2. QED BY <1>1 DEF IsTrace, Given, ErrorsOf

-----------------------------------------------------------------------------
(* What is left of a trace: whoever is in the list has not got it, but for  *)
(* the first, which may be telling what it had stored.                      *)
Tells(w) == Takes(w, "stored") \/ Takes(w, "error")
Telling(w) == IF Tells(w) THEN {Len(log)} ELSE {}

TodoIsLeft ==
    /\ \A i, j \in DOMAIN writers : writers[i] = writers[j] => i = j
    /\ \A w \in Range(writers) : w \in stream \cup failed
    /\ \A i \in DOMAIN todo :
          /\ Len(log) > 0
          /\ todo[i][1] \in Range(writers)
          /\ \A j \in DOMAIN todo : todo[i][1] = todo[j][1] => i = j
          /\ todo[i][2] = "line" => todo[i][1] \notin log[Len(log)].given
          /\ todo[i][2] # "line" => i = 1 /\ todo[1][1] \in Backtrace /\ Len(log) \in ErrorsOf(todo[1][1])
    /\ \A w \in TraceWriters : Takes(w, "error") => stored[w] = <<>>

LinesAreSound(w) ==
    /\ StoreIsSound(w, stored[w], Given(w), ErrorsOf(w), Len(log), Telling(w))
    /\ FileIsSound(old[w], file[w], stored[w], Given(w), Telling(w))
    /\ w \notin failed =>
          NothingIsMissed(w, old[w], file[w], stored[w], Given(w), ErrorsOf(w), Telling(w))

LoggerInvariant == LoggerTypes /\ TodoIsLeft /\ \A w \in TraceWriters : LinesAreSound(w)

LEMMA FirstOfTodo ==
    ASSUME LoggerTypes, todo # <<>>
    PROVE  /\ 1 \in DOMAIN todo /\ Head(todo) = todo[1] /\ DOMAIN todo = 1 .. Len(todo) /\ Len(todo) \in Nat
           /\ todo[1] = <<todo[1][1], todo[1][2]>> /\ todo[1][1] \in TraceWriters
           /\ Tail(todo) \in Seq(TraceWriters \X Phases)
           /\ DOMAIN Tail(todo) = 1 .. Len(todo) - 1
           /\ \A i \in DOMAIN Tail(todo) : i + 1 \in DOMAIN todo /\ i + 1 # 1 /\ Tail(todo)[i] = todo[i + 1]
<1>1. todo \in Seq(TraceWriters \X Phases)
  BY DEF LoggerTypes
<1>2. /\ Len(todo) \in Nat /\ DOMAIN todo = 1 .. Len(todo) /\ Len(todo) > 0
      /\ Tail(todo) \in Seq(TraceWriters \X Phases) /\ Len(Tail(todo)) = Len(todo) - 1
      /\ \A i \in 1 .. Len(Tail(todo)) : Tail(todo)[i] = todo[i + 1]
  BY <1>1, HeadTailProperties, EmptySeq, LenProperties
<1>3. DOMAIN Tail(todo) = 1 .. Len(todo) - 1
  BY <1>2, LenProperties
<1>4. \A i \in DOMAIN Tail(todo) : i + 1 \in DOMAIN todo /\ i + 1 # 1 /\ Tail(todo)[i] = todo[i + 1]
  BY <1>2, <1>3
<1>5. 1 \in DOMAIN todo /\ Head(todo) = todo[1]
  BY <1>1, <1>2
<1>6. todo[1] \in TraceWriters \X Phases
  BY <1>1, <1>5
<1>7. QED BY <1>2, <1>3, <1>4, <1>5, <1>6

(* When the first is done nobody is telling. *)
LEMMA RestOfTodo ==
    ASSUME LoggerTypes, TodoIsLeft, todo # <<>>, todo' = Tail(todo)
    PROVE  \A w : ~Tells(w)'
<1>1. \A i \in DOMAIN todo' : todo'[i][2] = "line"
  BY FirstOfTodo DEF TodoIsLeft
<1>2. ASSUME todo' # <<>>
      PROVE  Head(todo') = todo'[1] /\ 1 \in DOMAIN todo'
  BY <1>2, FirstOfTodo
<1>3. ASSUME NEW w, NEW phase \in {"stored", "error"}
      PROVE  ~Takes(w, phase)'
  BY <1>1, <1>2, <1>3 DEF Takes, Idle
<1>4. QED BY <1>3 DEF Tells

LEMMA LinesOfOthers ==
    ASSUME NEW w, LinesAreSound(w), Given(w)' = Given(w), ErrorsOf(w)' = ErrorsOf(w),
           Len(log') = Len(log), Tells(w)' <=> Tells(w),
           old'[w] = old[w], file'[w] = file[w], stored'[w] = stored[w], w \in failed => w \in failed'
    PROVE  LinesAreSound(w)'
<1>1. Telling(w)' = Telling(w)
  BY DEF Telling
<1>2. StoreIsSound(w, stored[w], Given(w), ErrorsOf(w), Len(log), Telling(w))'
  BY <1>1 DEF LinesAreSound, StoreIsSound, Lately
<1>3. FileIsSound(old[w], file[w], stored[w], Given(w), Telling(w))'
  BY <1>1 DEF LinesAreSound, FileIsSound, InOrder, LinesIn
<1>4. w \notin failed' =>
          NothingIsMissed(w, old[w], file[w], stored[w], Given(w), ErrorsOf(w), Telling(w))'
  <2>1. DueOf(w, Given(w), ErrorsOf(w))' = DueOf(w, Given(w), ErrorsOf(w))
    BY DEF DueOf, Lately
  <2>2. LinesIn(old[w], file[w])' = LinesIn(old[w], file[w])
    BY DEF LinesIn
  <2>3. Awaited(stored[w], Telling(w))' = Awaited(stored[w], Telling(w))
    BY <1>1 DEF Awaited
  <2>4. QED BY <2>1, <2>2, <2>3 DEF LinesAreSound, NothingIsMissed
<1>5. QED BY <1>2, <1>3, <1>4 DEF LinesAreSound

LEMMA LogIsKept ==
    ASSUME log' = log, NEW w
    PROVE  Given(w)' = Given(w) /\ ErrorsOf(w)' = ErrorsOf(w) /\ Len(log') = Len(log)
BY DEF Given, ErrorsOf

LEMMA OthersTell ==
    ASSUME NEW w, NEW phase, Takes(w, phase)
    PROVE  /\ todo # <<>> /\ Head(todo) = <<w, phase>>
           /\ \A v : Tells(v) <=> v = w /\ phase \in {"stored", "error"}
           /\ LoggerTypes => w \in TraceWriters /\ todo[1] = <<w, phase>> /\ todo[1][1] = w /\ todo[1][2] = phase
BY FirstOfTodo DEF Takes, Tells, Idle

(* The list without its first, when the history has given it that trace. *)
LEMMA TodoIsShorter ==
    ASSUME LoggerTypes, TodoIsLeft, todo # <<>>, todo' = Tail(todo), writers' = writers,
           stream \cup failed \subseteq stream' \cup failed',
           Len(log') = Len(log), log'[Len(log)].given \subseteq log[Len(log)].given \cup {todo[1][1]}
    PROVE  TodoIsLeft' /\ todo' \in Seq(TraceWriters \X Phases)
<1>1. /\ todo' \in Seq(TraceWriters \X Phases)
      /\ \A i \in DOMAIN todo' : i + 1 \in DOMAIN todo /\ i + 1 # 1 /\ todo'[i] = todo[i + 1]
      /\ 1 \in DOMAIN todo /\ DOMAIN todo' \subseteq Int
  BY FirstOfTodo
<1>2. \A w : ~Tells(w)'
  BY RestOfTodo
<1>3. ASSUME NEW i \in DOMAIN todo'
      PROVE  /\ Len(log') > 0 /\ todo'[i][1] \in Range(writers') /\ todo'[i][2] = "line"
             /\ todo'[i][1] \notin log'[Len(log')].given
  BY <1>1 DEF TodoIsLeft
<1>4. ASSUME NEW i \in DOMAIN todo', NEW j \in DOMAIN todo', todo'[i][1] = todo'[j][1]
      PROVE  i = j
  <2>1. i + 1 = j + 1
    BY <1>1, <1>4 DEF TodoIsLeft
  <2>2. QED BY <1>1, <2>1
<1>5. /\ \A i, j \in DOMAIN writers' : writers'[i] = writers'[j] => i = j
      /\ \A w \in Range(writers') : w \in stream' \cup failed'
  BY DEF TodoIsLeft
<1>6. \A w \in TraceWriters : ~Takes(w, "error")'
  BY <1>2 DEF Tells
<1>7. QED BY <1>1, <1>3, <1>4, <1>5, <1>6 DEF TodoIsLeft

(* The list whose first begins to tell what it stored, or the error then.  *)
LEMMA TodoIsTelling ==
    ASSUME LoggerTypes, TodoIsLeft, NEW w \in TraceWriters, NEW phase, Takes(w, phase),
           NEW next \in {"stored", "error"}, todo' = <<<<w, next>>>> \o Tail(todo), writers' = writers,
           stream' = stream, failed' = failed, stored' = stored, w \in Backtrace, Len(log) \in ErrorsOf(w)',
           Len(log') = Len(log), log'[Len(log)].given \subseteq log[Len(log)].given \cup {w},
           next = "error" => stored[w] = <<>>
    PROVE  /\ TodoIsLeft' /\ todo' \in Seq(TraceWriters \X Phases)
           /\ \A v : Tells(v)' <=> v = w
<1>1. /\ 1 \in DOMAIN todo /\ DOMAIN todo = 1 .. Len(todo) /\ Len(todo) \in Nat
      /\ Tail(todo) \in Seq(TraceWriters \X Phases)
      /\ \A i \in DOMAIN Tail(todo) : i + 1 \in DOMAIN todo /\ i + 1 # 1 /\ Tail(todo)[i] = todo[i + 1]
      /\ DOMAIN Tail(todo) = 1 .. Len(todo) - 1
      /\ todo[1][1] = w /\ Len(todo) > 0
  BY FirstOfTodo, OthersTell
<1>2. <<<<w, next>>>> \in Seq(TraceWriters \X Phases) /\ Len(<<<<w, next>>>>) = 1
  BY DEF Phases
<1>3. Len(Tail(todo)) = Len(todo) - 1
  BY <1>1, LenProperties
<1>4. /\ todo' \in Seq(TraceWriters \X Phases) /\ Len(todo') = 1 + (Len(todo) - 1)
      /\ \A i \in 1 .. 1 + (Len(todo) - 1) : todo'[i] = IF i <= 1 THEN <<<<w, next>>>>[i] ELSE Tail(todo)[i - 1]
  BY <1>1, <1>2, <1>3, ConcatProperties
<1>5. DOMAIN todo' = DOMAIN todo /\ todo' # <<>> /\ Head(todo') = todo'[1] /\ todo'[1] = <<w, next>>
  BY <1>1, <1>4
<1>6. \A i \in DOMAIN todo : i # 1 => todo'[i] = todo[i]
  BY <1>1, <1>4
<1>7. \A v : Tells(v)' <=> v = w
  BY <1>5 DEF Tells, Takes, Idle
<1>8. \A i \in DOMAIN todo : todo'[i][1] = todo[i][1]
  BY <1>1, <1>5, <1>6
<1>9. ASSUME NEW i \in DOMAIN todo'
      PROVE  /\ Len(log') > 0
             /\ todo'[i][1] \in Range(writers')
             /\ \A j \in DOMAIN todo' : todo'[i][1] = todo'[j][1] => i = j
             /\ todo'[i][2] = "line" => todo'[i][1] \notin log'[Len(log')].given
             /\ todo'[i][2] # "line" => i = 1 /\ todo'[1][1] \in Backtrace /\ Len(log') \in ErrorsOf(w)'
  <2>1. /\ Len(log') > 0 /\ todo'[i][1] \in Range(writers')
        /\ \A j \in DOMAIN todo' : todo'[i][1] = todo'[j][1] => i = j
    BY <1>5, <1>8 DEF TodoIsLeft
  <2>2. CASE i = 1
    BY <1>5, <2>1, <2>2
  <2>3. CASE i # 1
    <3>1. todo'[i] = todo[i] /\ todo[i][2] = "line" /\ todo[i][1] # w
      BY <1>1, <1>5, <1>6, <2>3 DEF TodoIsLeft
    <3>2. todo[i][1] \notin log[Len(log)].given
      BY <1>5, <3>1 DEF TodoIsLeft
    <3>3. QED BY <2>1, <3>1, <3>2
  <2>4. QED BY <2>2, <2>3
<1>10. todo'[1][1] = w
  BY <1>5
<1>11. \A v \in TraceWriters : Takes(v, "error")' => stored'[v] = <<>>
  BY <1>5 DEF Takes, Idle
<1>12. TodoIsLeft'
  BY <1>9, <1>10, <1>11 DEF TodoIsLeft
<1>13. QED BY <1>4, <1>7, <1>12

LEMMA SoundAfter ==
    ASSUME NEW w, NEW s, NEW G, NEW E, NEW n, NEW t,
           stored'[w] = s, Given(w)' = G, ErrorsOf(w)' = E, Len(log') = n, Telling(w)' = t,
           StoreIsSound(w, s, G, E, n, t), FileIsSound(old'[w], file'[w], s, G, t),
           w \notin failed' => NothingIsMissed(w, old'[w], file'[w], s, G, E, t)
    PROVE  LinesAreSound(w)'
<1>1. StoreIsSound(w, stored[w], Given(w), ErrorsOf(w), Len(log), Telling(w))'
  BY DEF StoreIsSound, Lately
<1>2. FileIsSound(old[w], file[w], stored[w], Given(w), Telling(w))'
  BY DEF FileIsSound, InOrder, LinesIn
<1>3. w \notin failed' =>
          NothingIsMissed(w, old[w], file[w], stored[w], Given(w), ErrorsOf(w), Telling(w))'
  <2>1. DueOf(w, Given(w), ErrorsOf(w))' = DueOf(w, G, E)
    BY DEF DueOf, Lately
  <2>2. LinesIn(old[w], file[w])' = LinesIn(old'[w], file'[w])
    BY DEF LinesIn
  <2>3. Awaited(stored[w], Telling(w))' = Awaited(s, t)
    BY DEF Awaited
  <2>4. QED BY <2>1, <2>2, <2>3 DEF NothingIsMissed
<1>4. QED BY <1>1, <1>2, <1>3 DEF LinesAreSound

(* A line is told: it is in the file, or rotated with it; or the file is    *)
(* one that has failed.                                                     *)
LEMMA FileAfterLine ==
    ASSUME LoggerTypes, NEW w \in TraceWriters, NEW line \in Nat \ {0},
           OnlyOf(w), HasOf(w, Append(file[w], line)), w \in stream \cup failed,
           NEW r, NEW H, H \subseteq Nat, NEW F, NEW u,
           FileIsSound(old[w], file[w], r, H, u), FileIsSound(old[w], Append(file[w], line), r, H, u),
           w \notin failed => NothingIsMissed(w, old[w], Append(file[w], line), r, H, F, u)
    PROVE  /\ FileIsSound(old'[w], file'[w], r, H, u)
           /\ w \notin failed' => NothingIsMissed(w, old'[w], file'[w], r, H, F, u)
<1> DEFINE content == Append(file[w], line)
<1>1. /\ old[w] \in Seq(Nat) /\ file[w] \in Seq(Nat) /\ content \in Seq(Nat) /\ content # <<>>
      /\ w \notin failed' => w \notin failed
  <2>1. old[w] \in Seq(Nat) /\ file[w] \in Seq(Nat)
    BY DEF LoggerTypes
  <2>2. content \in Seq(Nat) /\ content # <<>>
    <3>1. PICK f : f = file[w]
      OBVIOUS
    <3>2. Append(f, line) \in Seq(Nat) /\ Append(f, line) # <<>>
      BY <2>1, <3>1, AppendProperties
    <3>3. QED BY <3>1, <3>2
  <2>3. QED BY <2>1, <2>2 DEF OnlyOf
<1> HIDE DEF content
<1>2. /\ FileIsSound(old[w], content, r, H, u)
      /\ w \notin failed => NothingIsMissed(w, old[w], content, r, H, F, u)
  BY DEF content
<1>3. CASE file'[w] = file[w] /\ old'[w] = old[w] /\ w \notin stream /\ failed' = failed
  BY <1>3
<1>4. CASE file'[w] = content /\ old'[w] = old[w] /\ failed' = failed
  BY <1>2, <1>4
<1>5. CASE file'[w] = <<>> /\ old'[w] = content
  <2>1. FileIsSound(content, <<>>, r, H, u)
    BY <1>1, <1>2, LinesRotated
  <2>2. w \notin failed' => NothingIsMissed(w, content, <<>>, r, H, F, u)
    BY <1>1, <1>2, RotationMissesNothing
  <2>3. QED BY <1>5, <2>1, <2>2
<1>6. CASE file'[w] = <<>> /\ old'[w] = old[w] /\ w \in failed'
  <2>1. FileIsSound(old[w], <<>>, r, H, u)
    BY <1>1, LinesRotated
  <2>2. QED BY <1>6, <2>1
<1>7. QED BY <1>3, <1>4, <1>5, <1>6 DEF HasOf, content

-----------------------------------------------------------------------------
LEMMA SoundAtFirst ==
    ASSUME LoggerInit
    PROVE  LoggerInvariant
<1>1. LoggerTypes
  <2>1. PICK before \in {0, MaxSize + 1} : file = [w \in TraceWriters |-> [i \in 1 .. before |-> 0]]
    BY DEF LoggerInit
  <2>2. before \in Nat
    BY LoggerAssumption
  <2>3. [i \in 1 .. before |-> 0] \in Seq(Nat)
    BY <2>2
  <2>4. file \in [TraceWriters -> Seq(Nat)]
    BY <2>1, <2>3
  <2>5. old \in [TraceWriters -> Seq(Nat)] /\ stored \in [TraceWriters -> Seq(Nat)] /\ lineno \in [TraceWriters -> Nat]
    BY DEF LoggerInit
  <2>6. writers \in Seq(TraceWriters) /\ todo \in Seq(TraceWriters \X Phases) /\ log \in Seq(Traces)
    BY DEF LoggerInit
  <2>7. QED BY <2>4, <2>5, <2>6 DEF LoggerInit, LoggerTypes
<1>2. TodoIsLeft
  BY DEF LoggerInit, TodoIsLeft, Range, Takes, Idle
<1>3. ASSUME NEW w \in TraceWriters
      PROVE  LinesAreSound(w)
  <2>1. \A i \in DOMAIN file[w] : file[w][i] = 0
    BY DEF LoggerInit
  <2>2. /\ stored[w] = <<>> /\ old[w] = <<>> /\ Given(w) = {} /\ ErrorsOf(w) = {} /\ Telling(w) = {}
        /\ Range(stored[w]) = {} /\ DOMAIN old[w] = {} /\ DOMAIN stored[w] = {}
    BY DEF LoggerInit, Given, ErrorsOf, Telling, Tells, Takes, Idle, Range
  <2>3. LinesIn(old[w], file[w]) = {}
    BY <2>1, <2>2 DEF LinesIn, Range
  <2>4. StoreIsSound(w, stored[w], Given(w), ErrorsOf(w), Len(log), Telling(w))
    BY <2>2 DEF StoreIsSound
  <2>5. FileIsSound(old[w], file[w], stored[w], Given(w), Telling(w))
    BY <2>1, <2>2, <2>3 DEF FileIsSound, InOrder
  <2>6. DueOf(w, Given(w), ErrorsOf(w)) = {} /\ Awaited(stored[w], Telling(w)) = {}
    BY <2>2 DEF DueOf, Awaited
  <2>7. NothingIsMissed(w, old[w], file[w], stored[w], Given(w), ErrorsOf(w), Telling(w))
    BY <2>3, <2>6 DEF NothingIsMissed
  <2>8. QED BY <2>4, <2>5, <2>7 DEF LinesAreSound
<1>4. QED BY <1>1, <1>2, <1>3 DEF LoggerInvariant

(* The calls that open a writer. *)
LEMMA OpeningKeepsLines ==
    ASSUME LoggerInvariant, NEW w \in TraceWriters, Idle, OpenWriter(w),
           todo' = todo, log' = log, stored' = stored, lineno' = lineno,
           writers' \in Seq(TraceWriters),
           \A i, j \in DOMAIN writers' : writers'[i] = writers'[j] => i = j,
           Range(writers') \subseteq Range(writers) \cup {w}
    PROVE  LoggerInvariant'
<1>1. /\ OnlyOf(w) /\ w \in stream' \cup failed' /\ stream' \subseteq TraceWriters
      /\ \/ file'[w] = file[w] /\ old'[w] = old[w]
         \/ file'[w] = <<>> /\ old'[w] = file[w] /\ file[w] # <<>>
         \/ file'[w] = <<>> /\ old'[w] = old[w] /\ w \in failed'
  BY OpenWriterLeaves DEF LoggerInvariant
<1>2. LoggerTypes'
  <2>1. failed' \subseteq TraceWriters
    BY <1>1 DEF OnlyOf, LoggerInvariant, LoggerTypes
  <2>2. QED BY <1>1, <2>1 DEF OnlyOf, LoggerInvariant, LoggerTypes
<1>3. TodoIsLeft'
  <2>1. \A v \in Range(writers') : v \in stream' \cup failed'
    BY <1>1 DEF OnlyOf, LoggerInvariant, TodoIsLeft
  <2>2. todo' = <<>> /\ DOMAIN todo' = {}
    BY DEF Idle
  <2>3. \A v : ~Takes(v, "error")'
    BY <2>2 DEF Takes, Idle
  <2>4. QED BY <2>1, <2>2, <2>3 DEF TodoIsLeft
<1>4. \A v : ~Tells(v) /\ ~Tells(v)' /\ Telling(v) = {} /\ Telling(v)' = {}
  BY DEF Tells, Takes, Idle, Telling
<1>5. ASSUME NEW v \in TraceWriters \ {w}
      PROVE  LinesAreSound(v)'
  BY <1>1, <1>4, LogIsKept, LinesOfOthers DEF OnlyOf, LoggerInvariant
<1>6. LinesAreSound(w)'
  <2>1. old[w] \in Seq(Nat) /\ file[w] \in Seq(Nat) /\ (w \notin failed' => w \notin failed) /\ Given(w) \subseteq Nat
    <3>1. old[w] \in Seq(Nat) /\ file[w] \in Seq(Nat)
      BY DEF LoggerInvariant, LoggerTypes
    <3>2. w \notin failed' => w \notin failed
      BY <1>1 DEF OnlyOf
    <3>3. Given(w) \subseteq Nat
      <4>1. DOMAIN log \subseteq Nat
        BY DEF LoggerInvariant, LoggerTypes
      <4>2. QED BY <4>1 DEF Given
    <3>4. QED BY <3>1, <3>2, <3>3
  <2>2. /\ StoreIsSound(w, stored[w], Given(w), ErrorsOf(w), Len(log), {})
        /\ FileIsSound(old[w], file[w], stored[w], Given(w), {})
        /\ w \notin failed => NothingIsMissed(w, old[w], file[w], stored[w], Given(w), ErrorsOf(w), {})
    BY <1>4 DEF LoggerInvariant, LinesAreSound
  <2>3. /\ FileIsSound(old'[w], file'[w], stored[w], Given(w), {})
        /\ w \notin failed' => NothingIsMissed(w, old'[w], file'[w], stored[w], Given(w), ErrorsOf(w), {})
    <3>1. CASE file'[w] = file[w] /\ old'[w] = old[w]
      BY <2>1, <2>2, <3>1
    <3>2. CASE file'[w] = <<>> /\ old'[w] = file[w] /\ file[w] # <<>>
      <4>1. FileIsSound(file[w], <<>>, stored[w], Given(w), {})
        BY <2>1, <2>2, LinesRotated
      <4>2. w \notin failed' => NothingIsMissed(w, file[w], <<>>, stored[w], Given(w), ErrorsOf(w), {})
        BY <2>1, <2>2, <3>2, RotationMissesNothing
      <4>3. QED BY <3>2, <4>1, <4>2
    <3>3. CASE file'[w] = <<>> /\ old'[w] = old[w] /\ w \in failed'
      <4>1. FileIsSound(old[w], <<>>, stored[w], Given(w), {})
        BY <2>1, <2>2, LinesRotated
      <4>2. QED BY <3>3, <4>1
    <3>4. QED BY <1>1, <3>1, <3>2, <3>3
  <2>4. Given(w)' = Given(w) /\ ErrorsOf(w)' = ErrorsOf(w) /\ Len(log') = Len(log) /\ stored'[w] = stored[w]
    BY LogIsKept
  <2>5. QED BY <1>4, <2>2, <2>3, <2>4, SoundAfter
<1>7. QED BY <1>2, <1>3, <1>5, <1>6 DEF LoggerInvariant

LEMMA NoDuplicates ==
    ASSUME NEW S, NEW q \in Seq(S), NEW x \in S, x \notin Range(q), \A i, j \in DOMAIN q : q[i] = q[j] => i = j
    PROVE  /\ Append(q, x) \in Seq(S) /\ Range(Append(q, x)) \subseteq Range(q) \cup {x}
           /\ \A i, j \in DOMAIN Append(q, x) : Append(q, x)[i] = Append(q, x)[j] => i = j
<1>1. /\ Append(q, x) \in Seq(S) /\ DOMAIN Append(q, x) = 1 .. Len(q) + 1
      /\ \A i \in 1 .. Len(q) : Append(q, x)[i] = q[i]
      /\ Append(q, x)[Len(q) + 1] = x
      /\ DOMAIN q = 1 .. Len(q) /\ Len(q) \in Nat
  BY AppendProperties, LenProperties
<1>2. \A i \in 1 .. Len(q) + 1 : i \in 1 .. Len(q) \/ i = Len(q) + 1
  BY <1>1
<1>3. \A i \in 1 .. Len(q) : Append(q, x)[i] # x /\ Append(q, x)[i] \in Range(q)
  BY <1>1 DEF Range
<1>4. Range(Append(q, x)) \subseteq Range(q) \cup {x}
  BY <1>1, <1>2, <1>3 DEF Range
<1>5. QED BY <1>1, <1>2, <1>3, <1>4

LEMMA CallsKeepLines ==
    ASSUME LoggerInvariant, NEW w \in TraceWriters, LoggerInitialize(w) \/ Add(w)
    PROVE  LoggerInvariant'
<1>1. CASE LoggerInitialize(w)
  <2>1. writers' = <<w>> /\ Idle /\ OpenWriter(w) /\ UNCHANGED <<lineno, stored, todo, log>>
    BY <1>1 DEF LoggerInitialize
  <2>2. /\ <<w>> \in Seq(TraceWriters) /\ Range(<<w>>) = {w}
        /\ \A i, j \in DOMAIN <<w>> : <<w>>[i] = <<w>>[j] => i = j
    BY DEF Range
  <2>3. QED BY <2>1, <2>2, OpeningKeepsLines
<1>2. CASE Add(w)
  <2>1. /\ Idle /\ OpenWriter(w) /\ w \notin Range(writers) /\ UNCHANGED <<lineno, stored, todo, log>>
        /\ writers' = Append(writers, w) \/ writers' = writers
    BY <1>2 DEF Add
  <2>2. writers \in Seq(TraceWriters) /\ \A i, j \in DOMAIN writers : writers[i] = writers[j] => i = j
    BY DEF LoggerInvariant, LoggerTypes, TodoIsLeft
  <2>3. CASE writers' = writers
    BY <2>1, <2>2, <2>3, OpeningKeepsLines
  <2>4. CASE writers' = Append(writers, w)
    <3>1. /\ writers' \in Seq(TraceWriters) /\ Range(writers') \subseteq Range(writers) \cup {w}
          /\ \A i, j \in DOMAIN writers' : writers'[i] = writers'[j] => i = j
      BY <2>1, <2>2, <2>4, NoDuplicates
    <3>2. QED BY <2>1, <3>1, OpeningKeepsLines
  <2>5. QED BY <2>1, <2>3, <2>4
<1>3. QED BY <1>1, <1>2

(* Whatever changes nothing of the writers, and nothing of the list.        *)
LEMMA QuietStepsKeepLines ==
    ASSUME LoggerInvariant, UNCHANGED <<writers, stream, file, old, lineno, stored, todo, log, failed>>
    PROVE  LoggerInvariant'
<1>1. LoggerTypes'
  BY DEF LoggerInvariant, LoggerTypes
<1>2. \A w : Tells(w)' <=> Tells(w)
  BY DEF Tells, Takes, Idle
<1>3. \A w \in TraceWriters : LinesAreSound(w)'
  BY <1>2, LogIsKept, LinesOfOthers DEF LoggerInvariant
<1>4. \A w : ErrorsOf(w)' = ErrorsOf(w)
  BY LogIsKept
<1>5. TodoIsLeft'
  BY <1>4 DEF LoggerInvariant, TodoIsLeft, Takes, Idle
<1>6. QED BY <1>1, <1>3, <1>5 DEF LoggerInvariant

(* A new trace, for each of the writers. *)
LEMMA NewTraceKeepsLines ==
    ASSUME LoggerInvariant, NEW l \in Levels, Idle, todo' = EachWriter, log' = NewTrace(l),
           UNCHANGED <<writers, stream, file, old, lineno, stored, failed>>
    PROVE  LoggerInvariant'
<1>1. /\ log' \in Seq(Traces) /\ Len(log') = Len(log) + 1 /\ log'[Len(log')].given = {}
      /\ \A w \in TraceWriters : Given(w)' = Given(w) /\ ErrorsOf(w)' = ErrorsOf(w)
      /\ Len(log) \in Nat
  BY TraceBegins DEF LoggerInvariant, LoggerTypes
<1>2. /\ DOMAIN todo' = DOMAIN writers /\ todo' \in Seq(TraceWriters \X Phases)
      /\ \A i \in DOMAIN todo' : todo'[i] = <<writers[i], "line">>
  <2>1. writers \in Seq(TraceWriters) /\ DOMAIN writers = 1 .. Len(writers) /\ Len(writers) \in Nat
    BY DEF LoggerInvariant, LoggerTypes
  <2>2. todo' = [i \in 1 .. Len(writers) |-> <<writers[i], "line">>]
    BY <2>1 DEF EachWriter
  <2>3. \A i \in 1 .. Len(writers) : <<writers[i], "line">> \in TraceWriters \X Phases
    BY <2>1 DEF Phases
  <2>4. todo' \in Seq(TraceWriters \X Phases)
    BY <2>1, <2>2, <2>3
  <2>5. QED BY <2>1, <2>2, <2>4
<1>3. LoggerTypes'
  BY <1>1, <1>2 DEF LoggerInvariant, LoggerTypes
<1>4. \A w : ~Tells(w) /\ ~Tells(w)' /\ ~Takes(w, "error")' /\ Telling(w) = {} /\ Telling(w)' = {}
  <2>1. \A w : ~Takes(w, "stored") /\ ~Takes(w, "error")
    BY DEF Takes
  <2>2. \A i \in DOMAIN todo' : todo'[i][2] = "line"
    BY <1>2
  <2>3. todo' # <<>> => 1 \in DOMAIN todo' /\ Head(todo') = todo'[1]
    BY <1>2, EmptySeq
  <2>4. \A w : ~Takes(w, "stored")' /\ ~Takes(w, "error")'
    BY <2>2, <2>3 DEF Takes, Idle
  <2>5. QED BY <2>1, <2>4 DEF Tells, Telling
<1>5. TodoIsLeft'
  <2>1. ASSUME NEW i \in DOMAIN todo'
        PROVE  /\ Len(log') > 0 /\ todo'[i][1] \in Range(writers') /\ todo'[i][2] = "line"
               /\ todo'[i][1] \notin log'[Len(log')].given
               /\ \A j \in DOMAIN todo' : todo'[i][1] = todo'[j][1] => i = j
    BY <1>1, <1>2 DEF LoggerInvariant, TodoIsLeft, Range
  <2>2. \A v \in Range(writers') : v \in stream' \cup failed'
    BY DEF LoggerInvariant, TodoIsLeft
  <2>3. \A i, j \in DOMAIN writers' : writers'[i] = writers'[j] => i = j
    BY DEF LoggerInvariant, TodoIsLeft
  <2>4. QED BY <1>4, <2>1, <2>2, <2>3 DEF TodoIsLeft
<1>6. ASSUME NEW w \in TraceWriters
      PROVE  LinesAreSound(w)'
  <2>1. /\ StoreIsSound(w, stored[w], Given(w), ErrorsOf(w), Len(log), {})
        /\ FileIsSound(old[w], file[w], stored[w], Given(w), {})
        /\ w \notin failed => NothingIsMissed(w, old[w], file[w], stored[w], Given(w), ErrorsOf(w), {})
    BY <1>4 DEF LoggerInvariant, LinesAreSound
  <2>2. IsTrace(Given(w), ErrorsOf(w), Len(log))
    BY GivenIsTrace DEF LoggerInvariant
  <2>3. StoreIsSound(w, stored[w], Given(w), ErrorsOf(w), Len(log) + 1, {})
    BY <1>1, <2>1, <2>2, NewTraceKeepsStore
  <2>4. /\ Given(w)' = Given(w) /\ ErrorsOf(w)' = ErrorsOf(w) /\ Len(log') = Len(log) + 1
        /\ stored'[w] = stored[w] /\ old'[w] = old[w] /\ file'[w] = file[w] /\ failed' = failed
    BY <1>1
  <2>5. QED BY <1>4, <2>1, <2>3, <2>4, SoundAfter
<1>7. QED BY <1>3, <1>5, <1>6 DEF LoggerInvariant

LEMMA WritesKeepLines ==
    ASSUME LoggerInvariant, SignalUSR2 \/ \E l \in Levels : Write(l) \/ SetLevel(l)
    PROVE  LoggerInvariant'
<1>1. ASSUME NEW l \in Levels, SetLevel(l)
      PROVE  LoggerInvariant'
  BY <1>1, QuietStepsKeepLines DEF SetLevel
<1>2. ASSUME NEW l \in Levels, Write(l)
      PROVE  LoggerInvariant'
  BY <1>2, NewTraceKeepsLines DEF Write
<1>3. CASE SignalUSR2
  <2>1. NextLevel \in Levels
    BY LoggerAssumption DEF NextLevel
  <2>2. CASE UNCHANGED <<todo, log>>
    BY <1>3, <2>2, QuietStepsKeepLines DEF SignalUSR2
  <2>3. CASE todo' = EachWriter /\ log' = NewTrace(NextLevel)
    BY <1>3, <2>1, <2>3, NewTraceKeepsLines DEF SignalUSR2
  <2>4. QED BY <1>3, <2>2, <2>3 DEF SignalUSR2
<1>4. QED BY <1>1, <1>2, <1>3

-----------------------------------------------------------------------------
LEMMA PassOverKeepsLines ==
    ASSUME LoggerInvariant, NEW w \in TraceWriters, PassOver(w)
    PROVE  LoggerInvariant'
<1>1. /\ todo # <<>> /\ todo' = Tail(todo) /\ \A v : ~Tells(v)
      /\ UNCHANGED <<writers, stream, file, old, lineno, stored, log, failed>>
  BY OthersTell DEF PassOver
<1>2. TodoIsLeft' /\ todo' \in Seq(TraceWriters \X Phases)
  BY <1>1, TodoIsShorter DEF LoggerInvariant
<1>3. LoggerTypes'
  BY <1>1, <1>2 DEF LoggerInvariant, LoggerTypes
<1>4. \A v : ~Tells(v)'
  BY <1>1, RestOfTodo DEF LoggerInvariant
<1>5. \A v \in TraceWriters : LinesAreSound(v)'
  BY <1>1, <1>4, LogIsKept, LinesOfOthers DEF LoggerInvariant
<1>6. QED BY <1>2, <1>3, <1>5 DEF LoggerInvariant

LEMMA BacktraceEndsKeepsLines ==
    ASSUME LoggerInvariant, NEW w \in TraceWriters, BacktraceEnds(w)
    PROVE  LoggerInvariant'
<1>1. /\ todo # <<>> /\ Takes(w, "stored") /\ stored[w] = <<>>
      /\ todo' = <<<<w, "error">>>> \o Tail(todo)
      /\ UNCHANGED <<writers, stream, file, old, lineno, stored, log, failed>>
  BY OthersTell DEF BacktraceEnds
<1>2. w \in Backtrace /\ Len(log) \in ErrorsOf(w)
  <2>1. 1 \in DOMAIN todo /\ todo[1][1] = w /\ todo[1][2] # "line"
    BY <1>1, FirstOfTodo, OthersTell DEF LoggerInvariant
  <2>2. QED BY <2>1 DEF LoggerInvariant, TodoIsLeft
<1>3. Len(log) \in ErrorsOf(w)'
  BY <1>1, <1>2, LogIsKept
<1>4. TodoIsLeft' /\ todo' \in Seq(TraceWriters \X Phases) /\ \A v : Tells(v)' <=> v = w
  BY <1>1, <1>2, <1>3, TodoIsTelling DEF LoggerInvariant
<1>5. LoggerTypes'
  BY <1>1, <1>4 DEF LoggerInvariant, LoggerTypes
<1>6. \A v : Tells(v) <=> v = w
  BY <1>1, OthersTell
<1>7. \A v \in TraceWriters : LinesAreSound(v)'
  BY <1>1, <1>4, <1>6, LogIsKept, LinesOfOthers DEF LoggerInvariant
<1>8. QED BY <1>4, <1>5, <1>7 DEF LoggerInvariant

(* A line that a writer takes: it has not been given it before.             *)
LEMMA LineIsTaken ==
    ASSUME LoggerInvariant, NEW w \in TraceWriters, IsGiven(w), log' = GivenTo(w)
    PROVE  /\ todo # <<>> /\ todo[1][1] = w /\ Takes(w, "line")
           /\ Len(log) \in Nat \ {0} /\ Len(log) \notin Given(w)
           /\ \A v : ~Tells(v) /\ Telling(v) = {}
           /\ log' \in Seq(Traces) /\ Len(log') = Len(log)
           /\ log'[Len(log)].given \subseteq log[Len(log)].given \cup {w}
           /\ Given(w)' = Given(w) \cup {Len(log)}
           /\ ErrorsOf(w)' = IF Last(log).level <= Error THEN ErrorsOf(w) \cup {Len(log)} ELSE ErrorsOf(w)
           /\ \A v \in TraceWriters \ {w} : Given(v)' = Given(v) /\ ErrorsOf(v)' = ErrorsOf(v)
           /\ w \in stream \cup failed
<1>1. /\ todo # <<>> /\ todo[1][1] = w /\ todo[1][2] = "line" /\ Takes(w, "line") /\ 1 \in DOMAIN todo
      /\ \A v : ~Tells(v)
  BY OthersTell, FirstOfTodo DEF IsGiven, LoggerInvariant
<1>2. /\ Len(log) > 0 /\ w \notin log[Len(log)].given /\ w \in stream \cup failed
  BY <1>1 DEF LoggerInvariant, TodoIsLeft
<1>3. Len(log) \in Nat \ {0} /\ Len(log) \notin Given(w) /\ Last(log) = log[Len(log)]
  BY <1>2 DEF LoggerInvariant, LoggerTypes, Given, Last
<1>4. QED BY <1>1, <1>2, <1>3, TraceIsGiven DEF LoggerInvariant, Telling

LEMMA StoreLineKeepsLines ==
    ASSUME LoggerInvariant, NEW w \in TraceWriters, StoreLine(w)
    PROVE  LoggerInvariant'
<1> DEFINE n == Len(log)
<1>1. /\ w \in Backtrace /\ IsGiven(w) /\ log' = GivenTo(w) /\ todo' = Tail(todo) /\ Last(log).level > Error
      /\ stored' = [stored EXCEPT ![w] = Append(Kept(@), n)]
      /\ UNCHANGED <<writers, stream, file, old, lineno, failed>>
  BY DEF StoreLine
<1>2. /\ todo # <<>> /\ todo[1][1] = w
      /\ n \in Nat \ {0} /\ n \notin Given(w)
      /\ \A v : ~Tells(v) /\ Telling(v) = {}
      /\ log' \in Seq(Traces) /\ Len(log') = n
      /\ log'[n].given \subseteq log[n].given \cup {w}
      /\ Given(w)' = Given(w) \cup {n}
      /\ ErrorsOf(w)' = IF Last(log).level <= Error THEN ErrorsOf(w) \cup {n} ELSE ErrorsOf(w)
      /\ \A v \in TraceWriters \ {w} : Given(v)' = Given(v) /\ ErrorsOf(v)' = ErrorsOf(v)
  BY <1>1, LineIsTaken
<1>3. TodoIsLeft' /\ todo' \in Seq(TraceWriters \X Phases) /\ \A v : ~Tells(v)'
  BY <1>1, <1>2, TodoIsShorter, RestOfTodo DEF LoggerInvariant
<1>4. ErrorsOf(w)' = ErrorsOf(w)
  <2>1. ~(Last(log).level <= Error)
    <3>1. Last(log) \in Traces
      BY <1>2, SMTT(30) DEF LoggerInvariant, LoggerTypes, Last
    <3>2. Last(log).level \in Nat
      BY <3>1, LoggerAssumption DEF Traces
    <3>3. QED BY <1>1, <3>2 DEF Error
  <2>2. QED BY <1>2, <2>1
<1>5. /\ StoreIsSound(w, stored[w], Given(w), ErrorsOf(w), n, {})
      /\ FileIsSound(old[w], file[w], stored[w], Given(w), {})
      /\ w \notin failed => NothingIsMissed(w, old[w], file[w], stored[w], Given(w), ErrorsOf(w), {})
      /\ IsTrace(Given(w), ErrorsOf(w), n) /\ stored[w] \in Seq(Nat)
  BY <1>2, GivenIsTrace DEF LoggerInvariant, LinesAreSound, LoggerTypes
<1> DEFINE r == Append(Kept(stored[w]), n)
<1>6. StoreIsSound(w, r, Given(w) \cup {n}, ErrorsOf(w), n, {})
  BY <1>1, <1>2, <1>5, StoresLine
<1>7. stored' \in [TraceWriters -> Seq(Nat)] /\ stored'[w] = r /\ \A v \in TraceWriters \ {w} : stored'[v] = stored[v]
  <2>1. Len(stored[w]) <= Length
    BY <1>1, <1>5, StoreIsBounded
  <2>2. r \in Seq(Nat)
    BY <1>2, <1>5, <2>1, KeptLines, AppendProperties
  <2>3. QED BY <1>1, <2>2 DEF LoggerInvariant, LoggerTypes
<1> HIDE DEF r
<1>8. LoggerTypes'
  BY <1>1, <1>2, <1>3, <1>7 DEF LoggerInvariant, LoggerTypes
<1>9. FileIsSound(old[w], file[w], r, Given(w) \cup {n}, {})
  BY <1>1, <1>2, <1>5, StoreIsBounded, StoredIsLater DEF r
<1>10. w \notin failed => NothingIsMissed(w, old[w], file[w], r, Given(w) \cup {n}, ErrorsOf(w), {})
  <2>1. DueOf(w, Given(w) \cup {n}, ErrorsOf(w)) = DueOf(w, Given(w), ErrorsOf(w))
    <3>1. w \in Backtrace /\ n \in Nat \ {0} /\ n \notin Given(w) /\ IsTrace(Given(w), ErrorsOf(w), n)
      BY <1>1, <1>2, <1>5
    <3> HIDE DEF n
    <3>2. QED BY <3>1, LineIsNotDue
  <2>2. Awaited(r, {}) = {} /\ Awaited(stored[w], {}) = {}
    BY DEF Awaited
  <2>3. QED BY <1>5, <2>1, <2>2 DEF NothingIsMissed
<1>11. Telling(w)' = {}
  BY <1>3 DEF Telling
<1>12. LinesAreSound(w)'
  BY <1>1, <1>2, <1>4, <1>6, <1>7, <1>9, <1>10, <1>11, SoundAfter
<1>13. ASSUME NEW v \in TraceWriters \ {w}
       PROVE  LinesAreSound(v)'
  BY <1>1, <1>2, <1>3, <1>7, LinesOfOthers DEF LoggerInvariant
<1>14. QED BY <1>3, <1>8, <1>12, <1>13 DEF LoggerInvariant

LEMMA BacktraceBeginsKeepsLines ==
    ASSUME LoggerInvariant, NEW w \in TraceWriters, BacktraceBegins(w)
    PROVE  LoggerInvariant'
<1> DEFINE n == Len(log)
<1>1. /\ w \in Backtrace /\ IsGiven(w) /\ log' = GivenTo(w) /\ Last(log).level <= Error
      /\ todo' = <<<<w, "stored">>>> \o Tail(todo)
      /\ UNCHANGED <<writers, stream, file, old, lineno, stored, failed>>
  BY DEF BacktraceBegins
<1>2. /\ todo # <<>> /\ todo[1][1] = w /\ Takes(w, "line")
      /\ n \in Nat \ {0} /\ n \notin Given(w)
      /\ \A v : ~Tells(v) /\ Telling(v) = {}
      /\ log' \in Seq(Traces) /\ Len(log') = n
      /\ log'[n].given \subseteq log[n].given \cup {w}
      /\ Given(w)' = Given(w) \cup {n}
      /\ ErrorsOf(w)' = ErrorsOf(w) \cup {n}
      /\ \A v \in TraceWriters \ {w} : Given(v)' = Given(v) /\ ErrorsOf(v)' = ErrorsOf(v)
  BY <1>1, LineIsTaken
<1>3. TodoIsLeft' /\ todo' \in Seq(TraceWriters \X Phases) /\ \A v : Tells(v)' <=> v = w
  BY <1>1, <1>2, TodoIsTelling DEF LoggerInvariant
<1>4. LoggerTypes'
  BY <1>1, <1>2, <1>3 DEF LoggerInvariant, LoggerTypes
<1>5. /\ StoreIsSound(w, stored[w], Given(w), ErrorsOf(w), n, {})
      /\ FileIsSound(old[w], file[w], stored[w], Given(w), {})
      /\ w \notin failed => NothingIsMissed(w, old[w], file[w], stored[w], Given(w), ErrorsOf(w), {})
      /\ IsTrace(Given(w), ErrorsOf(w), n)
  BY <1>2, GivenIsTrace DEF LoggerInvariant, LinesAreSound
<1>6. /\ StoreIsSound(w, stored[w], Given(w) \cup {n}, ErrorsOf(w) \cup {n}, n, {n})
      /\ FileIsSound(old[w], file[w], stored[w], Given(w) \cup {n}, {n})
      /\ w \notin failed =>
            NothingIsMissed(w, old[w], file[w], stored[w], Given(w) \cup {n}, ErrorsOf(w) \cup {n}, {n})
  BY <1>1, <1>2, <1>5, ErrorComes
<1>7. Telling(w)' = {n}
  BY <1>2, <1>3 DEF Telling
<1>8. LinesAreSound(w)'
  BY <1>1, <1>2, <1>6, <1>7, SoundAfter
<1>9. ASSUME NEW v \in TraceWriters \ {w}
      PROVE  LinesAreSound(v)'
  BY <1>1, <1>2, <1>3, LinesOfOthers DEF LoggerInvariant
<1>10. QED BY <1>3, <1>4, <1>8, <1>9 DEF LoggerInvariant

(* A stored line is told. *)
LEMMA StoredKeepsLines ==
    ASSUME LoggerInvariant, NEW w \in TraceWriters, WritesStored(w), ApplyLine(w)
    PROVE  LoggerInvariant'
<1> DEFINE n == Len(log)
           line == Head(stored[w])
<1>1. /\ Takes(w, "stored") /\ stored[w] # <<>> /\ LineOf(w) = line
      /\ WriteLine(w, line)
      /\ stored' = [stored EXCEPT ![w] = Tail(@)] /\ UNCHANGED <<todo, log, writers>>
  BY DEF ApplyLine, WritesStored, LineOf
<1>2. /\ todo # <<>> /\ w \in Backtrace /\ n \in ErrorsOf(w) /\ w \in stream \cup failed
  <2>1. todo # <<>> /\ 1 \in DOMAIN todo /\ todo[1][1] = w /\ todo[1][2] # "line"
    BY <1>1, FirstOfTodo, OthersTell DEF LoggerInvariant
  <2>2. QED BY <2>1 DEF LoggerInvariant, TodoIsLeft
<1>3. \A v : (Tells(v) <=> v = w) /\ (Tells(v)' <=> v = w)
  <2>1. \A v : Tells(v) <=> v = w
    BY <1>1, OthersTell
  <2>2. \A v : Tells(v)' <=> Tells(v)
    BY <1>1 DEF Tells, Takes, Idle
  <2>3. QED BY <2>1, <2>2
<1>4. Telling(w) = {n} /\ Telling(w)' = {n} /\ \A v : ErrorsOf(v)' = ErrorsOf(v) /\ Given(v)' = Given(v)
  BY <1>1, <1>3, LogIsKept DEF Telling
<1>5. /\ StoreIsSound(w, stored[w], Given(w), ErrorsOf(w), n, {n})
      /\ FileIsSound(old[w], file[w], stored[w], Given(w), {n})
      /\ w \notin failed => NothingIsMissed(w, old[w], file[w], stored[w], Given(w), ErrorsOf(w), {n})
      /\ IsTrace(Given(w), ErrorsOf(w), n)
      /\ stored[w] \in Seq(Nat) /\ old[w] \in Seq(Nat) /\ file[w] \in Seq(Nat)
  BY <1>4, GivenIsTrace DEF LoggerInvariant, LinesAreSound, LoggerTypes
<1>6. /\ line \in Given(w)
      /\ StoreIsSound(w, Tail(stored[w]), Given(w), ErrorsOf(w), n, {n})
      /\ FileIsSound(old[w], file[w], Tail(stored[w]), Given(w), {n})
      /\ FileIsSound(old[w], Append(file[w], line), Tail(stored[w]), Given(w), {n})
      /\ w \notin failed =>
            NothingIsMissed(w, old[w], Append(file[w], line), Tail(stored[w]), Given(w), ErrorsOf(w), {n})
  BY <1>1, <1>2, <1>5, StoredIsTold
<1>7. Given(w) \subseteq Nat /\ line \in Nat \ {0} /\ Tail(stored[w]) \in Seq(Nat)
  BY <1>1, <1>5, <1>6, TailOfStore DEF IsTrace
<1> HIDE DEF line, n
<1>8. /\ OnlyOf(w) /\ HasOf(w, Append(file[w], line))
      /\ lineno' \in [TraceWriters -> Nat] /\ stream' \subseteq TraceWriters
  BY <1>1, <1>7, WriteLineLeaves DEF LoggerInvariant
<1>9. /\ FileIsSound(old'[w], file'[w], Tail(stored[w]), Given(w), {n})
      /\ w \notin failed' =>
            NothingIsMissed(w, old'[w], file'[w], Tail(stored[w]), Given(w), ErrorsOf(w), {n})
  BY <1>2, <1>6, <1>7, <1>8, FileAfterLine DEF LoggerInvariant
<1>10. /\ stored' \in [TraceWriters -> Seq(Nat)] /\ stored'[w] = Tail(stored[w])
       /\ \A v \in TraceWriters \ {w} : stored'[v] = stored[v]
  BY <1>1, <1>7 DEF LoggerInvariant, LoggerTypes
<1>11. LinesAreSound(w)'
  <2>1. Len(log') = n
    BY <1>1 DEF n
  <2>2. QED BY <1>4, <1>6, <1>9, <1>10, <2>1, SoundAfter
<1>12. LoggerTypes'
  BY <1>1, <1>8, <1>10 DEF LoggerInvariant, LoggerTypes, OnlyOf
<1>13. ASSUME NEW v \in TraceWriters \ {w}
       PROVE  LinesAreSound(v)'
  BY <1>1, <1>3, <1>4, <1>8, <1>10, LogIsKept, LinesOfOthers DEF OnlyOf, LoggerInvariant
<1>14. TodoIsLeft'
  <2>1. stream \cup failed \subseteq stream' \cup failed'
    BY <1>8 DEF OnlyOf
  <2>2. \A v \in TraceWriters : ~Takes(v, "error")'
    BY <1>1 DEF Takes, Idle
  <2>3. QED BY <1>1, <1>4, <2>1, <2>2 DEF LoggerInvariant, TodoIsLeft
<1>15. QED BY <1>11, <1>12, <1>13, <1>14 DEF LoggerInvariant

(* The line of the trace is told: by whoever stores nothing, or after what  *)
(* was stored.                                                              *)
LEMMA TraceIsTold ==
    ASSUME LoggerInvariant, NEW w \in TraceWriters, WritesTrace(w), ApplyLine(w)
    PROVE  /\ LoggerTypes' /\ TodoIsLeft' /\ \A v : ~Tells(v)'
           /\ Len(log) \in Nat \ {0} /\ Len(log') = Len(log) /\ w \in stream \cup failed
           /\ OnlyOf(w) /\ HasOf(w, Append(file[w], Len(log))) /\ stored' = stored
           /\ Given(w)' = Given(w) \cup {Len(log)}
           /\ ErrorsOf(w)' \in {ErrorsOf(w), ErrorsOf(w) \cup {Len(log)}}
           /\ Takes(w, "line") => Len(log) \notin Given(w) /\ w \notin Backtrace
           /\ \A v \in TraceWriters \ {w} : LinesAreSound(v)'
<1> DEFINE n == Len(log)
<1>1. todo # <<>> /\ (Head(todo) = <<w, "error">> \/ Head(todo) = <<w, "line">>)
  BY OthersTell DEF WritesTrace, IsGiven, Takes, Idle
<1>2. ~WritesStored(w)
  BY <1>1 DEF WritesStored, Takes
<1>3. /\ WriteLine(w, n) /\ todo' = Tail(todo) /\ log' = GivenTo(w) /\ stored' = stored /\ writers' = writers
  BY <1>2 DEF ApplyLine, LineOf
<1>4. 1 \in DOMAIN todo /\ todo[1] = Head(todo) /\ todo[1][1] = w
  BY <1>1, FirstOfTodo DEF LoggerInvariant
<1>5. n > 0 /\ n \in Nat \ {0} /\ w \in stream \cup failed
  BY <1>4 DEF LoggerInvariant, LoggerTypes, TodoIsLeft
<1>6. /\ log' \in Seq(Traces) /\ Len(log') = n
      /\ log'[n].given = log[n].given \cup {w}
      /\ Given(w)' = Given(w) \cup {n}
      /\ ErrorsOf(w)' \in {ErrorsOf(w), ErrorsOf(w) \cup {n}}
      /\ \A v \in TraceWriters \ {w} : Given(v)' = Given(v) /\ ErrorsOf(v)' = ErrorsOf(v)
  BY <1>3, <1>5, TraceIsGiven DEF LoggerInvariant
<1>7. Takes(w, "line") => n \notin Given(w) /\ w \notin Backtrace
  <2>1. SUFFICES ASSUME Takes(w, "line")
                 PROVE  n \notin Given(w) /\ w \notin Backtrace
    OBVIOUS
  <2>2. Head(todo) = <<w, "line">> /\ ~Takes(w, "error")
    BY <2>1 DEF Takes
  <2>3. w \notin Backtrace
    BY <2>2 DEF WritesTrace
  <2>4. w \notin log[n].given
    BY <1>4, <2>2 DEF LoggerInvariant, TodoIsLeft
  <2>5. QED BY <2>3, <2>4 DEF Given
<1>8. /\ OnlyOf(w) /\ HasOf(w, Append(file[w], n))
      /\ lineno' \in [TraceWriters -> Nat] /\ stream' \subseteq TraceWriters
  BY <1>3, <1>5, WriteLineLeaves DEF LoggerInvariant
<1>9. TodoIsLeft' /\ todo' \in Seq(TraceWriters \X Phases) /\ \A v : ~Tells(v)'
  <2>1. stream \cup failed \subseteq stream' \cup failed'
    BY <1>8 DEF OnlyOf
  <2>2. QED BY <1>1, <1>3, <1>4, <1>6, <2>1, TodoIsShorter, RestOfTodo DEF LoggerInvariant
<1>10. LoggerTypes'
  BY <1>3, <1>6, <1>8, <1>9 DEF LoggerInvariant, LoggerTypes, OnlyOf
<1>11. ASSUME NEW v \in TraceWriters \ {w}
       PROVE  LinesAreSound(v)'
  <2>1. ~Tells(v)
    BY <1>1 DEF Tells, Takes
  <2>2. /\ old'[v] = old[v] /\ file'[v] = file[v] /\ stored'[v] = stored[v] /\ (v \in failed => v \in failed')
    BY <1>3, <1>8 DEF OnlyOf
  <2>3. QED BY <1>6, <1>9, <2>1, <2>2, LinesOfOthers DEF LoggerInvariant
<1>12. QED BY <1>3, <1>5, <1>6, <1>7, <1>8, <1>9, <1>10, <1>11

LEMMA TraceKeepsLines ==
    ASSUME LoggerInvariant, NEW w \in TraceWriters, WritesTrace(w), ApplyLine(w)
    PROVE  LoggerInvariant'
<1> DEFINE n == Len(log)
<1>1. /\ LoggerTypes' /\ TodoIsLeft' /\ \A v : ~Tells(v)'
      /\ n \in Nat \ {0} /\ Len(log') = n /\ w \in stream \cup failed
      /\ OnlyOf(w) /\ HasOf(w, Append(file[w], n)) /\ stored' = stored
      /\ Given(w)' = Given(w) \cup {n}
      /\ ErrorsOf(w)' \in {ErrorsOf(w), ErrorsOf(w) \cup {n}}
      /\ Takes(w, "line") => n \notin Given(w) /\ w \notin Backtrace
      /\ \A v \in TraceWriters \ {w} : LinesAreSound(v)'
  BY TraceIsTold
<1>2. /\ IsTrace(Given(w), ErrorsOf(w), n) /\ Given(w)' \subseteq Nat /\ Telling(w)' = {}
      /\ old[w] \in Seq(Nat) /\ file[w] \in Seq(Nat)
  BY <1>1, GivenIsTrace DEF LoggerInvariant, IsTrace, Telling, LoggerTypes
<1>3. CASE Takes(w, "line")
  <2>1. Telling(w) = {}
    BY <1>3 DEF Telling, Tells, Takes
  <2>2. /\ StoreIsSound(w, stored[w], Given(w), ErrorsOf(w), n, {})
        /\ FileIsSound(old[w], file[w], stored[w], Given(w), {})
        /\ w \notin failed => NothingIsMissed(w, old[w], file[w], stored[w], Given(w), ErrorsOf(w), {})
    BY <2>1 DEF LoggerInvariant, LinesAreSound
  <2>3. /\ StoreIsSound(w, stored[w], Given(w)', ErrorsOf(w)', n, {})
        /\ FileIsSound(old[w], file[w], stored[w], Given(w)', {})
        /\ FileIsSound(old[w], Append(file[w], n), stored[w], Given(w)', {})
        /\ w \notin failed => NothingIsMissed(w, old[w], Append(file[w], n), stored[w], Given(w)', ErrorsOf(w)', {})
    <3>1. PICK F : F = ErrorsOf(w)'
      OBVIOUS
    <3>2. F \in {ErrorsOf(w), ErrorsOf(w) \cup {n}} /\ n \notin Given(w) /\ w \notin Backtrace
      BY <1>1, <1>3, <3>1
    <3>3. /\ StoreIsSound(w, stored[w], Given(w) \cup {n}, F, n, {})
          /\ FileIsSound(old[w], file[w], stored[w], Given(w) \cup {n}, {})
          /\ FileIsSound(old[w], Append(file[w], n), stored[w], Given(w) \cup {n}, {})
          /\ NothingIsMissed(w, old[w], file[w], stored[w], Given(w), ErrorsOf(w), {}) =>
                 NothingIsMissed(w, old[w], Append(file[w], n), stored[w], Given(w) \cup {n}, F, {})
      BY <1>1, <1>2, <2>2, <3>2, LineIsTold
    <3>4. Given(w)' = Given(w) \cup {n} /\ ErrorsOf(w)' = F
      BY <1>1, <3>1
    <3>5. /\ StoreIsSound(w, stored[w], Given(w)', ErrorsOf(w)', n, {})
          /\ FileIsSound(old[w], file[w], stored[w], Given(w)', {})
          /\ FileIsSound(old[w], Append(file[w], n), stored[w], Given(w)', {})
          /\ w \notin failed => NothingIsMissed(w, old[w], Append(file[w], n), stored[w], Given(w)', ErrorsOf(w)', {})
      BY <2>2, <3>3, <3>4
    <3>6. QED BY <2>2, <3>5
  <2>4. /\ FileIsSound(old'[w], file'[w], stored[w], Given(w)', {})
        /\ w \notin failed' => NothingIsMissed(w, old'[w], file'[w], stored[w], Given(w)', ErrorsOf(w)', {})
    BY <1>1, <1>2, <2>3, FileAfterLine DEF LoggerInvariant
  <2>5. LinesAreSound(w)'
    BY <1>1, <1>2, <2>3, <2>4, SoundAfter
  <2>6. QED BY <1>1, <2>5 DEF LoggerInvariant
<1>4. CASE Takes(w, "error")
  <2>1. Telling(w) = {n} /\ stored[w] = <<>>
    BY <1>4 DEF Telling, Tells, LoggerInvariant, TodoIsLeft
  <2>2. n \in ErrorsOf(w)
    <3>1. 1 \in DOMAIN todo /\ todo[1][1] = w /\ todo[1][2] # "line"
      BY <1>4, FirstOfTodo, OthersTell DEF LoggerInvariant
    <3>2. QED BY <3>1 DEF LoggerInvariant, TodoIsLeft
  <2>3. Given(w)' = Given(w) /\ ErrorsOf(w)' = ErrorsOf(w)
    BY <1>1, <1>2, <2>2 DEF IsTrace
  <2>4. /\ StoreIsSound(w, <<>>, Given(w), ErrorsOf(w), n, {n})
        /\ FileIsSound(old[w], file[w], <<>>, Given(w), {n})
        /\ w \notin failed => NothingIsMissed(w, old[w], file[w], <<>>, Given(w), ErrorsOf(w), {n})
    BY <2>1 DEF LoggerInvariant, LinesAreSound
  <2>5. /\ StoreIsSound(w, <<>>, Given(w), ErrorsOf(w), n, {})
        /\ FileIsSound(old[w], file[w], <<>>, Given(w), {})
        /\ FileIsSound(old[w], Append(file[w], n), <<>>, Given(w), {})
        /\ w \notin failed => NothingIsMissed(w, old[w], Append(file[w], n), <<>>, Given(w), ErrorsOf(w), {})
    BY <1>1, <1>2, <2>2, <2>4, ErrorIsTold
  <2>6. Given(w) \subseteq Nat
    BY <1>2, <2>3
  <2>7. /\ FileIsSound(old'[w], file'[w], <<>>, Given(w), {})
        /\ w \notin failed' => NothingIsMissed(w, old'[w], file'[w], <<>>, Given(w), ErrorsOf(w), {})
    BY <1>1, <2>5, <2>6, FileAfterLine DEF LoggerInvariant
  <2>8. stored'[w] = <<>>
    BY <1>1, <2>1
  <2>9. LinesAreSound(w)'
    BY <1>1, <1>2, <2>3, <2>5, <2>7, <2>8, SoundAfter
  <2>10. QED BY <1>1, <2>9 DEF LoggerInvariant
<1>5. QED BY <1>3, <1>4 DEF WritesTrace, IsGiven

LEMMA LinesStaySound ==
    ASSUME LoggerInvariant, [LoggerNext]_logVars
    PROVE  LoggerInvariant'
<1>1. CASE UNCHANGED logVars
  BY <1>1, QuietStepsKeepLines DEF logVars
<1>2. ASSUME NEW w \in TraceWriters,
             \/ LoggerInitialize(w) \/ Add(w)
             \/ PassOver(w) \/ StoreLine(w) \/ BacktraceBegins(w) \/ BacktraceEnds(w) \/ ApplyLine(w)
      PROVE  LoggerInvariant'
  BY <1>2, CallsKeepLines, PassOverKeepsLines, StoreLineKeepsLines, BacktraceBeginsKeepsLines,
     BacktraceEndsKeepsLines, StoredKeepsLines, TraceKeepsLines DEF ApplyLine
<1>3. CASE SignalUSR2 \/ \E l \in Levels : Write(l) \/ SetLevel(l)
  BY <1>3, WritesKeepLines
<1>4. QED BY <1>1, <1>2, <1>3 DEF LoggerNext

-----------------------------------------------------------------------------
(* What is before a rotation, and after it, is in order as a whole. *)
LEMMA OrderOfBoth ==
    ASSUME NEW o \in Seq(Nat), NEW f \in Seq(Nat), InOrder(o), InOrder(f),
           \A i \in DOMAIN o, j \in DOMAIN f : o[i] > 0 => o[i] < f[j]
    PROVE  InOrder(o \o f) /\ Range(o \o f) = Range(o) \cup Range(f)
<1>1. /\ Len(o) \in Nat /\ Len(f) \in Nat /\ DOMAIN o = 1 .. Len(o) /\ DOMAIN f = 1 .. Len(f)
  BY LenProperties
<1>2. o \o f \in Seq(Nat) /\ Len(o \o f) = Len(o) + Len(f)
  BY ConcatProperties
<1>3. \A i \in 1 .. Len(o) + Len(f) : (o \o f)[i] = IF i <= Len(o) THEN o[i] ELSE f[i - Len(o)]
  BY ConcatProperties
<1>4. DOMAIN (o \o f) = 1 .. Len(o) + Len(f)
  BY <1>2, LenProperties
<1> DEFINE c == o \o f
           m == Len(o)
<1>5. /\ m \in Nat /\ DOMAIN c = 1 .. m + Len(f) /\ DOMAIN o = 1 .. m
      /\ \A i \in DOMAIN c : c[i] = IF i <= m THEN o[i] ELSE f[i - m]
  BY <1>1, <1>3, <1>4
<1> HIDE DEF c, m
<1>6. ASSUME NEW i \in DOMAIN c, NEW j \in DOMAIN c, i < j, c[i] > 0
      PROVE  c[i] < c[j]
  <2>1. i \in Nat /\ j \in Nat /\ i >= 1 /\ j <= m + Len(f)
    BY <1>1, <1>5
  <2>2. CASE j <= m
    BY <1>5, <1>6, <2>1, <2>2 DEF InOrder
  <2>3. CASE i <= m /\ ~(j <= m)
    <3>1. i \in DOMAIN o /\ j - m \in DOMAIN f
      BY <1>1, <1>5, <2>1, <2>3
    <3>2. c[i] = o[i] /\ c[j] = f[j - m]
      BY <1>5, <1>6, <2>3
    <3>3. QED BY <1>6, <3>1, <3>2
  <2>4. CASE ~(i <= m)
    <3>1. i - m \in DOMAIN f /\ j - m \in DOMAIN f /\ i - m < j - m /\ ~(j <= m)
      BY <1>1, <1>5, <1>6, <2>1, <2>4
    <3>2. c[i] = f[i - m] /\ c[j] = f[j - m]
      BY <1>5, <1>6, <2>4, <3>1
    <3>3. QED BY <1>6, <3>1, <3>2 DEF InOrder
  <2>5. QED BY <2>2, <2>3, <2>4
<1>7. Range(o \o f) = Range(o) \cup Range(f)
  BY RangeConcatenation
<1>8. QED BY <1>6, <1>7 DEF InOrder, c

LEMMA SoundLinesAreKept ==
    ASSUME LoggerInvariant
    PROVE  LinesAreKept
<1> SUFFICES ASSUME NEW w \in TraceWriters
             PROVE  /\ InOrder(Content(w))
                    /\ (Idle /\ w \notin failed) =>
                           /\ Told(w) = {} => Due(w) = {}
                           /\ Told(w) = {i \in Due(w) : \E line \in Told(w) : line <= i}
  BY DEF LinesAreKept
<1> DEFINE o == old[w]
           f == file[w]
<1>1. o \in Seq(Nat) /\ f \in Seq(Nat) /\ FileIsSound(o, f, stored[w], Given(w), Telling(w))
  BY DEF LoggerInvariant, LoggerTypes, LinesAreSound
<1>2. InOrder(o \o f) /\ Range(o \o f) = Range(o) \cup Range(f)
  BY <1>1, OrderOfBoth DEF FileIsSound
<1>3. Told(w) = LinesIn(o, f)
  BY <1>2 DEF Told, Content, LinesIn
<1>4. Due(w) = DueOf(w, Given(w), ErrorsOf(w))
  BY DEF Due, DueOf, IsDue, IsRecent, Lately
<1>6. InOrder(Content(w))
  BY <1>2 DEF Content
<1>7. ASSUME Idle, w \notin failed
      PROVE  /\ Told(w) = {} => Due(w) = {}
             /\ Told(w) = {i \in Due(w) : \E line \in Told(w) : line <= i}
  <2>1. Telling(w) = {}
    BY <1>7 DEF Telling, Tells, Takes
  <2>2. Awaited(stored[w], Telling(w)) = {}
    BY <2>1 DEF Awaited
  <2>3. /\ LinesIn(o, f) \subseteq Due(w)
        /\ LinesIn(o, f) = {} => Due(w) = {}
        /\ \A i \in Due(w), line \in LinesIn(o, f) : line <= i => i \in LinesIn(o, f)
    BY <1>4, <1>7, <2>2 DEF LoggerInvariant, LinesAreSound, NothingIsMissed
  <2>4. \A i \in LinesIn(o, f) : i <= i
    <3>1. LinesIn(o, f) \subseteq Nat
      BY <1>1 DEF LinesIn, Range
    <3>2. QED BY <3>1
  <2>5. QED BY <1>3, <2>3, <2>4
<1>8. QED BY <1>6, <1>7

(* The size of the files. *)
FilesAreSmall == \A w \in stream \ Unlimited : Len(file[w]) <= MaxSize + (lineno[w] % CheckSizePeriod)

LEMMA OneQuotient ==
    ASSUME NEW p \in Nat \ {0}, NEW q \in Int, NEW u \in Int,
           NEW r \in 0 .. p - 1, NEW s \in 0 .. p - 1, p * q + r = p * u + s
    PROVE  q = u /\ r = s
<1>1. CASE q = u
  BY <1>1
<1>2. CASE q < u
  <2>1. p * (u - q) >= p
    BY <1>2
  <2>2. QED BY <2>1
<1>3. CASE q > u
  <2>1. p * (q - u) >= p
    BY <1>3
  <2>2. QED BY <2>1
<1>4. QED BY <1>1, <1>2, <1>3

LEMMA Quotient ==
    ASSUME NEW n \in Nat, NEW p \in Nat \ {0}
    PROVE  n = p * (n \div p) + (n % p) /\ n % p \in 0 .. p - 1 /\ n \div p \in Nat
OBVIOUS

LEMMA NextCount ==
    ASSUME NEW n \in Nat, NEW p \in Nat \ {0}, (n + 1) % p # 0
    PROVE  (n + 1) % p = (n % p) + 1
<1> DEFINE q == n \div p
           r == n % p
<1>1. n = p * q + r /\ r \in 0 .. p - 1 /\ q \in Nat
  BY Quotient
<1>2. /\ n + 1 = p * ((n + 1) \div p) + ((n + 1) % p)
      /\ (n + 1) % p \in 0 .. p - 1 /\ (n + 1) \div p \in Nat
  BY Quotient
<1> HIDE DEF q, r
<1>3. CASE r + 1 < p
  <2>1. n + 1 = p * q + (r + 1) /\ r + 1 \in 0 .. p - 1
    BY <1>1, <1>3
  <2>2. PICK u \in Nat, t \in 0 .. p - 1 : t = (n + 1) % p /\ n + 1 = p * u + t
    BY <1>2
  <2>3. p * q + (r + 1) = p * u + t
    BY <2>1, <2>2
  <2>4. t = r + 1
    BY <1>1, <2>1, <2>3, OneQuotient
  <2>5. QED BY <2>2, <2>4 DEF r
<1>4. CASE r + 1 = p
  <2>1. n + 1 = p * (q + 1) + 0
    BY <1>1, <1>4
  <2>2. PICK u \in Nat, t \in 0 .. p - 1 : t = (n + 1) % p /\ n + 1 = p * u + t
    BY <1>2
  <2>3. 0 \in 0 .. p - 1 /\ p * (q + 1) + 0 = p * u + t
    BY <2>1, <2>2
  <2>4. t = 0
    BY <1>1, <2>3, OneQuotient
  <2>5. QED BY <2>2, <2>4
<1>5. QED BY <1>1, <1>3, <1>4

LEMMA FilesStaySmall ==
    ASSUME LoggerTypes, FilesAreSmall, [LoggerNext]_logVars
    PROVE  FilesAreSmall'
<1>1. \A n \in Nat : n % CheckSizePeriod \in Nat
  BY LoggerAssumption
<1>2. CASE UNCHANGED <<stream, file, lineno>>
  BY <1>2 DEF FilesAreSmall
<1>3. ASSUME NEW w \in TraceWriters, OpenWriter(w), lineno' = lineno
      PROVE  FilesAreSmall'
  <2>1. /\ OnlyOf(w)
        /\ \/ file'[w] = <<>>
           \/ w \in stream' \ Unlimited => (w \in stream /\ file'[w] = file[w]) \/ (Len(file'[w]) <= MaxSize)
    <3>1. CASE ~RotatesFirst(w) /\ stream' = stream \cup {w} /\ UNCHANGED <<file, old, failed>>
      <4>1. w \notin Unlimited => ~(Len(file[w]) > MaxSize)
        BY <3>1 DEF RotatesFirst, Rotates
      <4>2. file[w] \in Seq(Nat)
        BY DEF LoggerTypes
      <4>3. w \notin Unlimited => Len(file[w]) <= MaxSize
        BY <4>1, <4>2, LenProperties, LoggerAssumption
      <4>4. QED BY <1>3, <3>1, <4>3, OpenWriterLeaves
    <3>2. CASE failed' = failed \cup {w} /\ UNCHANGED <<stream, file, old>>
      BY <1>3, <3>2, OpenWriterLeaves
    <3>3. CASE RotatesFirst(w) /\ Rotate(w, file[w])
      BY <1>3, <3>3, OpenWriterLeaves, RotateLeaves DEF LoggerTypes
    <3>4. QED BY <1>3, <3>1, <3>2, <3>3 DEF OpenWriter
  <2>2. ASSUME NEW v \in stream' \ Unlimited
        PROVE  Len(file'[v]) <= MaxSize + (lineno'[v] % CheckSizePeriod)
    <3>1. v \in TraceWriters /\ lineno'[v] = lineno[v] /\ lineno[v] % CheckSizePeriod \in Nat
      BY <1>1, <1>3, <2>1 DEF OnlyOf, LoggerTypes
    <3>2. CASE v # w
      BY <1>3, <2>1, <2>2, <3>1, <3>2 DEF OnlyOf, FilesAreSmall
    <3>3. CASE v = w
      <4>1. CASE file'[w] = <<>>
        BY <3>1, <3>3, <4>1, LoggerAssumption
      <4>2. CASE w \in stream /\ file'[w] = file[w]
        BY <2>2, <3>1, <3>3, <4>2 DEF FilesAreSmall
      <4>3. CASE Len(file'[w]) <= MaxSize
        <5>1. Len(file'[w]) \in Nat
          BY <2>1, LenProperties DEF OnlyOf
        <5>2. QED BY <3>1, <3>3, <4>3, <5>1, LoggerAssumption
      <4>4. QED BY <2>1, <2>2, <3>3, <4>1, <4>2, <4>3
    <3>4. QED BY <3>2, <3>3
  <2>3. QED BY <2>2 DEF FilesAreSmall
<1>4. ASSUME NEW w \in TraceWriters, NEW line \in Nat, WriteLine(w, line)
      PROVE  FilesAreSmall'
  <2>1. OnlyOf(w) /\ file[w] \in Seq(Nat) /\ lineno[w] \in Nat
    BY <1>4, WriteLineLeaves DEF LoggerTypes
  <2>2. CASE w \notin stream
    <3>1. stream' = stream /\ file' = file /\ \A v \in TraceWriters \ {w} : lineno'[v] = lineno[v]
      BY <1>4, <2>2 DEF WriteLine, LoggerTypes
    <3>2. QED BY <2>2, <3>1 DEF FilesAreSmall, LoggerTypes
  <2>3. CASE w \in stream
    <3>1. /\ lineno'[w] = lineno[w] + 1 /\ \A v \in TraceWriters \ {w} : lineno'[v] = lineno[v]
          /\ \/ Rotate(w, Append(file[w], line))
             \/ /\ file'[w] = Append(file[w], line)
                /\ (lineno[w] + 1) % CheckSizePeriod = 0 => ~Rotates(w, Append(file[w], line))
      BY <1>4, <2>3 DEF WriteLine, LoggerTypes
    <3>2. Append(file[w], line) \in Seq(Nat) /\ Len(Append(file[w], line)) = Len(file[w]) + 1 /\ Len(file[w]) \in Nat
      BY <2>1, AppendProperties, LenProperties
    <3>3. ASSUME NEW v \in stream' \ Unlimited
          PROVE  Len(file'[v]) <= MaxSize + (lineno'[v] % CheckSizePeriod)
      <4>1. CASE v # w
        BY <2>1, <3>1, <3>3, <4>1 DEF OnlyOf, FilesAreSmall, LoggerTypes
      <4>2. CASE v = w
        <5>1. (lineno[w] + 1) % CheckSizePeriod \in Nat
          BY <1>1, <2>1, SMTT(30)
        <5>2. CASE Rotate(w, Append(file[w], line))
          <6>1. file'[w] = <<>>
            BY <3>2, <5>2, RotateLeaves
          <6>2. QED BY <3>1, <4>2, <5>1, <6>1, LoggerAssumption
        <5>3. CASE /\ file'[w] = Append(file[w], line)
                   /\ (lineno[w] + 1) % CheckSizePeriod = 0 => ~Rotates(w, Append(file[w], line))
          <6>1. Len(file[w]) <= MaxSize + (lineno[w] % CheckSizePeriod)
            BY <2>3, <3>3, <4>2 DEF FilesAreSmall
          <6>2. CASE (lineno[w] + 1) % CheckSizePeriod = 0
            BY <3>1, <3>2, <3>3, <4>2, <5>3, <6>2, LoggerAssumption DEF Rotates
          <6>3. CASE (lineno[w] + 1) % CheckSizePeriod # 0
            <7>1. (lineno[w] + 1) % CheckSizePeriod = (lineno[w] % CheckSizePeriod) + 1
              BY <2>1, <6>3, NextCount, LoggerAssumption
            <7>2. lineno[w] % CheckSizePeriod \in Nat
              BY <1>1, <2>1
            <7>3. QED BY <3>1, <3>2, <4>2, <5>3, <6>1, <7>1, <7>2, LoggerAssumption
          <6>4. QED BY <6>2, <6>3
        <5>4. QED BY <3>1, <5>2, <5>3
      <4>3. QED BY <4>1, <4>2
    <3>4. QED BY <3>3 DEF FilesAreSmall
  <2>4. QED BY <2>2, <2>3
<1>5. ASSUME NEW w \in TraceWriters, ApplyLine(w)
      PROVE  LineOf(w) \in Nat /\ WriteLine(w, LineOf(w))
  <2>1. CASE WritesStored(w)
    <3>1. stored[w] \in Seq(Nat) /\ stored[w] # <<>>
      BY <2>1 DEF LoggerTypes, WritesStored
    <3>2. QED BY <1>5, <2>1, <3>1, HeadTailProperties DEF ApplyLine, LineOf
  <2>2. CASE ~WritesStored(w)
    BY <1>5, <2>2, LenProperties DEF ApplyLine, LineOf, LoggerTypes
  <2>3. QED BY <2>1, <2>2
<1>6. ASSUME NEW w \in TraceWriters,
             \/ LoggerInitialize(w) \/ Add(w)
             \/ PassOver(w) \/ StoreLine(w) \/ BacktraceBegins(w) \/ BacktraceEnds(w) \/ ApplyLine(w)
      PROVE  FilesAreSmall'
  <2>1. CASE LoggerInitialize(w) \/ Add(w)
    BY <1>3, <2>1 DEF LoggerInitialize, Add
  <2>2. CASE PassOver(w) \/ StoreLine(w) \/ BacktraceBegins(w) \/ BacktraceEnds(w)
    BY <1>2, <2>2 DEF PassOver, StoreLine, BacktraceBegins, BacktraceEnds
  <2>3. CASE ApplyLine(w)
    BY <1>4, <1>5, <2>3
  <2>4. QED BY <1>6, <2>1, <2>2, <2>3
<1>7. CASE SignalUSR2 \/ \E l \in Levels : Write(l) \/ SetLevel(l)
  BY <1>2, <1>7 DEF SignalUSR2, Write, SetLevel
<1>8. CASE UNCHANGED logVars
  BY <1>2, <1>8 DEF logVars
<1>9. QED BY <1>6, <1>7, <1>8 DEF LoggerNext

LEMMA SoundAndSmall ==
    ASSUME LoggerInvariant, FilesAreSmall
    PROVE  LinesAreKept /\ SizeIsBounded
<1>1. ASSUME NEW w \in stream \ Unlimited
      PROVE  Len(file[w]) < MaxSize + CheckSizePeriod
  <2>1. w \in TraceWriters /\ lineno[w] \in Nat /\ file[w] \in Seq(Nat)
    BY DEF LoggerInvariant, LoggerTypes
  <2>2. lineno[w] % CheckSizePeriod \in 0 .. CheckSizePeriod - 1
    BY <2>1, Quotient, LoggerAssumption
  <2>3. Len(file[w]) <= MaxSize + (lineno[w] % CheckSizePeriod)
    BY DEF FilesAreSmall
  <2>4. Len(file[w]) \in Nat
    BY <2>1, LenProperties
  <2>5. QED BY <2>2, <2>3, <2>4, LoggerAssumption
<1>2. QED BY <1>1, SoundLinesAreKept DEF SizeIsBounded

(* The files of the logger and their .old: the lines are there once and in  *)
(* order, an error after exactly the last lines before it, and no file      *)
(* outgrows its size by more than the lines between two checks.             *)
THEOREM LinesStayKept == LoggerSpec => [](LinesAreKept /\ SizeIsBounded)
<1>1. LoggerInit => LoggerInvariant /\ FilesAreSmall
  <2>1. LoggerInit => FilesAreSmall
    BY DEF LoggerInit, FilesAreSmall
  <2>2. QED BY <2>1, SoundAtFirst
<1>2. LoggerInvariant /\ FilesAreSmall /\ [LoggerNext]_logVars => (LoggerInvariant /\ FilesAreSmall)'
  BY LinesStaySound, FilesStaySmall DEF LoggerInvariant
<1>3. LoggerInvariant /\ FilesAreSmall => LinesAreKept /\ SizeIsBounded
  BY SoundAndSmall
<1>4. QED BY <1>1, <1>2, <1>3, PTL DEF LoggerSpec

-----------------------------------------------------------------------------
(* The parts in the run that has them all. *)
LEMMA PartsStep ==
    ASSUME [PartsNext]_partsVars
    PROVE  [LoggerNext]_logVars /\ [ClassesNext]_classVars /\ [ColumnsNext]_columnVars
           /\ [SolverNext]_solverVars /\ [DocumentNext]_documentVars /\ [AverageNext]_averageVars
BY DEF PartsNext, partsVars

(* Of the logger of that run: its lines are kept and its files bounded.     *)
THEOREM LogsStayKept == PartsSpec => []LogsAreKept
<1>1. PartsInit => LoggerInit
  BY DEF PartsInit
<1>2. [PartsNext]_partsVars => [LoggerNext]_logVars
  BY PartsStep
<1>3. LinesAreKept /\ SizeIsBounded => LogsAreKept
  BY DEF LogsAreKept
<1>4. QED BY <1>1, <1>2, <1>3, LinesStayKept, PTL DEF PartsSpec, LoggerSpec

(* Of the objects and the columns of that run: objects share nothing, have  *)
(* the columns of their class, and what is fetched of a row was stored.     *)
THEOREM DataStaySound == PartsSpec => []DataAreSound
<1>1. PartsInit => ClassesInit /\ ColumnsInit
  BY DEF PartsInit
<1>2. [PartsNext]_partsVars => [ClassesNext]_classVars /\ [ColumnsNext]_columnVars
  BY PartsStep
<1>3. (ObjectsAreIndependent /\ ColumnsAreTold) /\ KeptValuesAreRead => DataAreSound
  BY DEF DataAreSound
<1>4. QED BY <1>1, <1>2, <1>3, ObjectsStayIndependent, ColumnsStayRead, PTL
      DEF PartsSpec, ClassesSpec, ColumnsSpec

(* Of the solver of that run: apply finds the solutions, all of them.       *)
THEOREM SolutionsOfTheRun == PartsSpec => []SolutionsAreFound
<1>1. PartsInit => SolverInit
  BY DEF PartsInit
<1>2. [PartsNext]_partsVars => [SolverNext]_solverVars
  BY PartsStep
<1>3. QED BY <1>1, <1>2, SolutionsStayFound, PTL DEF PartsSpec, SolverSpec

(* Of the document of that run: what is compiled is what is in the tree.    *)
THEOREM TreesOfTheRun == PartsSpec => []TreeIsCompiled
<1>1. PartsInit => DocumentInit
  BY DEF PartsInit
<1>2. [PartsNext]_partsVars => [DocumentNext]_documentVars
  BY PartsStep
<1>3. QED BY <1>1, <1>2, TreesStayCompiled, PTL DEF PartsSpec, DocumentSpec

(* Of the average of that run: it is the sum and the number of the values.  *)
THEOREM AveragesOfTheRun == PartsSpec => []AverageOfPositives
<1>1. PartsInit => AverageInit
  BY DEF PartsInit
<1>2. [PartsNext]_partsVars => [AverageNext]_averageVars
  BY PartsStep
<1>3. QED BY <1>1, <1>2, AveragesStayRight, PTL DEF PartsSpec, AverageSpec
=============================================================================
