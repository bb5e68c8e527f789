---------------------------- MODULE RecentlyUsed ----------------------------
(***************************************************************************)
(* What a least recently used cache promises: at most MaxSize pairs, in    *)
(* the order of their last use; a new key takes the place of the first     *)
(* one; find answers with the value that was last set.                     *)
(***************************************************************************)
EXTENDS Naturals, Sequences, SequencesExt

CONSTANTS Keys, Values, NoValue, MaxSize

VARIABLES
    recent,    \* pairs, the most recently used one at the end
    found

Init == recent = <<>> /\ found = NoValue

Has(key) == \E i \in DOMAIN recent : recent[i].key = key
Place(key) == CHOOSE i \in DOMAIN recent : recent[i].key = key
ValueOf(key) == recent[Place(key)].value
Others(key) == IF Has(key) THEN RemoveAt(recent, Place(key)) ELSE recent
Used(rest, key, value) == recent' = Append(rest, [key |-> key, value |-> value])

Find(key) ==
    IF Has(key)
    THEN LET value == ValueOf(key)
         IN  Used(Others(key), key, value) /\ found' = value
    ELSE found' = NoValue /\ UNCHANGED recent

Set(key, value) ==
    /\ Used(IF Len(Others(key)) = MaxSize THEN Tail(recent) ELSE Others(key), key, value)
    /\ UNCHANGED found

Erase(key) == recent' = Others(key) /\ UNCHANGED found

Next ==
    \E key \in Keys :
        \/ Find(key)
        \/ \E value \in Values : Set(key, value)
        \/ Erase(key)

Spec == Init /\ [][Next]_<<recent, found>>
=============================================================================
