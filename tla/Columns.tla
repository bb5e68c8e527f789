------------------------------ MODULE Columns ------------------------------
(***************************************************************************)
(* The binders of coffee::dbms and the conversions of the drivers: a row   *)
(* of two data is encoded into a statement that stores it, and the rows    *)
(* that a select finds are decoded into the data of another statement.     *)
(* The entries of LDAP are stored by others, and all its data are of type  *)
(* MultiString.                                                            *)
(***************************************************************************)
EXTENDS Integers, FiniteSets, Sequences, SequencesExt

CONSTANTS
    ColumnTypes,        \* of the second column: datatypes of SQLite
    MaxWidth,           \* Abstract::m_maxSize of the output; the input may be longer
    MaxStored           \* bound: rows

(* A String and a block are their length.  Dates: "summer" is in daylight   *)
(* saving time, "before" is a second before the epoch, the year of "far"    *)
(* has five digits, and localtime does not know that of "beyond".           *)
DatesAndTimes == {"epoch", "summer", "before", "far", "beyond"}
ValuesOfType(t) ==
    CASE t = "Integer" -> {1, 2}
      [] t = "Float" -> {"zero", "some", "nan"}
      [] t \in {"String", "ShortBlock", "LongBlock"} -> 0 .. MaxWidth + 1
      [] t \in {"Date", "TimeStamp"} -> DatesAndTimes
      [] t = "MultiString" -> {<<"x">>, <<"x", "y">>}
Cleared(t) ==
    CASE t = "Float" -> "zero"
      [] t \in {"Date", "TimeStamp"} -> "epoch"
      [] t = "MultiString" -> <<>>
      [] OTHER -> 0

Null(t) == [value |-> Cleared(t), null |-> TRUE]
DataOfType(t) == {Null(t)} \cup {[value |-> v, null |-> FALSE] : v \in ValuesOfType(t)}

(* The tables: the first column is never NULL; the second may be, whether   *)
(* or not the output takes it.                                              *)
Schemas ==
    [driver : {"sqlite"}, types : {<<"Integer", t>> : t \in ColumnTypes}, nullable : BOOLEAN]
        \cup [driver : {"ldap"}, types : {<<"MultiString", "MultiString">>}, nullable : BOOLEAN]

VARIABLES
    schema,
    storedRows,         \* history: the data that were stored, row by row
    table,              \* what the library made of each, <<>> for NULL or the value
    cursor,             \* the row that was fetched last, 0 outside of a select
    output,             \* the data of the select
    reported            \* what fetch reported: "nothing", "row", "throws"

columnVars == <<schema, storedRows, table, cursor, output, reported>>

ColumnsInit ==
    /\ schema \in Schemas
    /\ storedRows = <<>> /\ table = <<>> /\ cursor = 0 /\ reported = "nothing"
    /\ output = [k \in 1 .. 2 |->
                    [value |-> Cleared(schema.types[k]), null |-> k = 2 /\ schema.nullable]]

-----------------------------------------------------------------------------
(* do_encode of SqliteInputBinder.  A type without a case binds nothing,    *)
(* which is NULL, and SQLite has no other NaN.                              *)
IsStoredAsNull(t, datum) ==
    \/ datum.null
    \/ schema.driver = "sqlite" /\ (t = "MultiString" \/ (t = "Float" /\ datum.value = "nan"))
Encoded(t, datum) == IF IsStoredAsNull(t, datum) THEN <<>> ELSE <<datum.value>>

(* A date without a local time throws, and nothing is stored.               *)
CanBeEncoded(t, datum) == ~ (t = "Date" /\ ~datum.null /\ datum.value = "beyond")

Store(row) ==
    /\ cursor = 0 /\ Len(storedRows) < MaxStored
    /\ ~row[1].null
    /\ \A k \in 1 .. 2 : CanBeEncoded(schema.types[k], row[k])
    /\ storedRows' = Append(storedRows, row)
    /\ table' = Append(table, [k \in 1 .. 2 |-> Encoded(schema.types[k], row[k])])
    /\ UNCHANGED <<schema, cursor, output, reported>>

-----------------------------------------------------------------------------
(* setValue of a Date: the text of a local time is read as standard time,   *)
(* -1 is what mktime reports of an error, and %Y has four digits.           *)
ReadAs(t, value) == IF t = "Date" /\ value = "summer" THEN "hour after summer" ELSE value
Unreadable == {"before", "far"}

(* do_decode throws *)
Refuses(k, column) ==
    LET t == schema.types[k] IN
    IF column = <<>> THEN ~ (k = 2 /\ schema.nullable)
    ELSE \/ t \in {"String", "ShortBlock"} /\ column[1] > MaxWidth
         \/ t = "Date" /\ column[1] \in Unreadable

(* after it has cleared the datum, or not. *)
ClearsFirst(k, column) == schema.driver = "ldap" \/ (schema.types[k] = "Date" /\ column # <<>>)
BeforeDecode(k, column) ==
    IF ClearsFirst(k, column) THEN [value |-> Cleared(schema.types[k]), null |-> k = 2 /\ schema.nullable]
    ELSE output[k]

(* setValue and addValue: isNotNull. *)
LeftNull(datum, value) == [datum EXCEPT !.value = value]       \* mutant
SetTo(datum, value) == [datum EXCEPT !.value = value, !.null = FALSE]

Decoded(k, column) ==
    IF Refuses(k, column) THEN BeforeDecode(k, column)
    ELSE IF column = <<>> THEN [BeforeDecode(k, column) EXCEPT !.null = TRUE]
    ELSE SetTo(BeforeDecode(k, column), ReadAs(schema.types[k], column[1]))

(* Statement::fetch: the columns are decoded in order, as far as they are.  *)
FetchRow ==
    /\ cursor < Len(table)
    /\ cursor' = cursor + 1
    /\ LET row == table[cursor + 1]
           refused == {k \in 1 .. 2 : Refuses(k, row[k])}
       IN /\ output' = [k \in 1 .. 2 |-> IF \A j \in refused : k <= j THEN Decoded(k, row[k]) ELSE output[k]]
          /\ reported' = IF refused = {} THEN "row" ELSE "throws"
    /\ UNCHANGED <<schema, storedRows, table>>

NoMoreRows ==
    /\ cursor > 0 /\ cursor = Len(table)
    /\ cursor' = 0 /\ reported' = "nothing"
    /\ UNCHANGED <<schema, storedRows, table, output>>

ColumnsNext ==
    \/ \E one \in DataOfType(schema.types[1]), two \in DataOfType(schema.types[2]) : Store(<<one, two>>)
    \/ FetchRow \/ NoMoreRows

ColumnsSpec == ColumnsInit /\ [][ColumnsNext]_columnVars
-----------------------------------------------------------------------------
IsReadAs(datum, other) == datum.null = other.null /\ (~datum.null => datum.value = other.value)

(* What fetch reports is the row that was stored, in every column: nothing  *)
(* of the row before stays in the data.                                     *)
StoredIsRead == reported = "row" => \A k \in 1 .. 2 : IsReadAs(output[k], storedRows[cursor][k])

(* The values that the conversions of SQLite are known not to keep.         *)
IsKept(k, datum) ==
    \/ datum.null
    \/ /\ schema.driver = "sqlite" => schema.types[k] # "MultiString"
       /\ datum.value \notin (CASE schema.types[k] = "Float" -> {"nan"}
                                [] schema.types[k] = "Date" -> {"summer"}
                                [] OTHER -> {})

(* All other values are.                                                    *)
KeptValuesAreRead ==
    reported = "row" => \A k \in 1 .. 2 :
        IsKept(k, storedRows[cursor][k]) => IsReadAs(output[k], storedRows[cursor][k])

(* A fetch that throws leaves the data of the row before, none of its own.  *)
FailedFetchReadsNothing == [][reported' = "throws" => output' = output]_columnVars
=============================================================================
