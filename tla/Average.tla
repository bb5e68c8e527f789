------------------------------- MODULE Average -------------------------------
(***************************************************************************)
(* coffee::basis::Average of a signed integer type of 2 * Half values.  An  *)
(* addition that overflows is undefined: it may wrap, or the build may     *)
(* take the test for it, (a_accumulator += v) < backup, for v < 0.         *)
(***************************************************************************)
EXTENDS Integers, Sequences, SequencesExt

CONSTANTS
    Half,               \* the values of the type are -Half .. Half - 1
    Registrable,        \* the values that are registered
    MaxOperations       \* bound

ASSUME AverageAssumption == Half \in Nat \ {0} /\ Registrable \subseteq -Half .. Half - 1

VARIABLES
    accumulator, size,  \* a_accumulator, a_n
    registered,         \* history: the values it is the average of
    positive,           \* history: since it last started again they all were
    regular,            \* history: and it was only told to forget values that it had
    operations

averageVars == <<accumulator, size, registered, positive, regular, operations>>

AverageInit ==
    /\ accumulator = 0 /\ size = 0 /\ registered = <<>>
    /\ positive = TRUE /\ regular = TRUE /\ operations = 0

WrappedSum(sum) == ((sum + Half) % (2 * Half)) - Half
Overflows(sum) == sum \notin -Half .. Half - 1
Operates == operations < MaxOperations /\ operations' = operations + 1

CountedOn == size + 1                                          \* mutant
CountedAgain == 1

(* operator+=: what is less than before starts again.                       *)
StartsWith(v) == accumulator' = v /\ size' = CountedAgain
Adds(v) == accumulator' = WrappedSum(accumulator + v) /\ size' = size + 1
Register(v) ==
    LET sum == accumulator + v IN
    /\ Operates
    /\ IF Overflows(sum)
       THEN /\ registered' = <<v>> /\ positive' = (v > 0)
            /\ \/ StartsWith(v) /\ regular' = TRUE
               \/ Adds(v) /\ regular' = FALSE
       ELSE /\ registered' = Append(registered, v) /\ positive' = (positive /\ v > 0) /\ UNCHANGED regular
            /\ IF sum < accumulator THEN StartsWith(v) ELSE Adds(v)

(* operator-= *)
Deregister(v) ==
    /\ Operates
    /\ IF accumulator > v /\ size > 1
       THEN accumulator' = WrappedSum(accumulator - v) /\ size' = size - 1
       ELSE accumulator' = 0 /\ size' = 0
    /\ regular' = (regular /\ (v \in Range(registered) \/ registered = <<>>)) /\ UNCHANGED positive
    /\ registered' = IF v \in Range(registered)
                     THEN RemoveAt(registered, CHOOSE i \in DOMAIN registered : registered[i] = v) ELSE <<>>

AssignValue(v) ==
    /\ Operates
    /\ accumulator' = v /\ size' = 1 /\ registered' = <<v>> /\ positive' = (v > 0) /\ regular' = TRUE

ClearAverage ==
    /\ Operates
    /\ accumulator' = 0 /\ size' = 0 /\ registered' = <<>> /\ positive' = TRUE /\ regular' = TRUE

AverageNext ==
    \/ \E v \in Registrable : Register(v) \/ Deregister(v) \/ AssignValue(v)
    \/ ClearAverage

AverageSpec == AverageInit /\ [][AverageNext]_averageVars
-----------------------------------------------------------------------------
(* The sum and the number are those of the values that were registered and  *)
(* not removed since it last started again, while these are positive.       *)
SumOf(values) ==
    LET upTo[n \in 0 .. Len(values)] == IF n = 0 THEN 0 ELSE upTo[n - 1] + values[n] IN upTo[Len(values)]
IsOfTheValues == accumulator = SumOf(registered) /\ size = Len(registered)
AverageOfPositives == (regular /\ positive) => IsOfTheValues

(* The average value of the set of values, whatever these are. *)
AverageOfValues == regular => IsOfTheValues
=============================================================================
