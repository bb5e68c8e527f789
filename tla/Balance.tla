------------------------------ MODULE Balance ------------------------------
(***************************************************************************)
(* coffee::balance: a ResourceList, the strategies that choose one of its  *)
(* resources (round robin, indexed), and strategies by range, which choose *)
(* a strategy.                                                             *)
(*                                                                         *)
(* The mutex of the list is held from the choice of the first candidate to *)
(* the answer, so that there is one walk at a time, and none while a       *)
(* resource is added; resources come and go without it.  addRange has no   *)
(* lock: it comes while nobody is in apply.                                *)
(*                                                                         *)
(* An iterator of the vector of resources is the buffer it belongs to, of  *)
(* which there is one for each capacity, and an index.                     *)
(***************************************************************************)
EXTENDS Integers, Sequences, FiniteSets, Functions

CONSTANTS
    Resources, None,
    RoundRobins, Indexed, ByRanges,    \* strategies
    Ids,                               \* values of calculateIdentifier
    Word,                              \* 2^64: size_t
    Limits      \* bounds: sets of limits of added resources and ranges and of changes

Strategies == RoundRobins \union Indexed \union ByRanges

ASSUME BalanceAssumption ==
    /\ Ids \subseteq Int
    /\ Word \in Nat \ {0}
    /\ Limits \subseteq [adds : Nat, ranges : Nat, changes : Nat]
    /\ None \notin Resources \union Strategies
    /\ RoundRobins \intersect (Indexed \union ByRanges) = {}
    /\ Indexed \intersect ByRanges = {}

VARIABLES
    limits, changes,
    resources, capacity,    \* the vector
    available,              \* resources
    m_position,             \* round robin -> iterator
    m_ranges,               \* by range -> sequence of ranges
    call,                   \* the apply under way, or the last one
    waited      \* history: answers of a round robin since a resource that has been
                \* available all the time was the last one

list == <<resources, capacity>>
vars == <<limits, changes, list, available, m_position, m_ranges, call, waited>>

Unset == [capacity |-> -1, index |-> 0]     \* Position::valid is false
AllRanges == [bottom : Ids, top : Ids, strategy : Strategies]
NoCall == [pc |-> "idle", strategy |-> None, id |-> 0, ww |-> 0, end |-> 0,
           steady |-> {}, result |-> None]
Call == [pc : {"idle", "applying", "walking", "answered", "failed", "undefined"},
         strategy : Strategies \union {None}, id : Int, ww : Nat, end : Nat,
         steady : SUBSET Resources, result : Resources \union {None}]

(* The only index 0 is the position before the first apply, and that of an *)
(* apply on a list that was empty.                                         *)
IsPosition(position) ==
    /\ position.capacity <= capacity /\ position.index <= Len(resources)
    /\ position.index = 0 => position.capacity <= 0

TypeOK ==
    /\ limits \in Limits /\ changes \in 0 .. limits.changes
    /\ resources \in Seq(Resources) /\ IsInjective(resources)
    /\ capacity \in Nat /\ Len(resources) <= capacity
    /\ resources = <<>> => capacity = 0
    /\ available \subseteq Resources
    /\ m_position \in [RoundRobins -> [capacity : Int, index : Nat]]
    /\ \A s \in RoundRobins : IsPosition(m_position[s])
    /\ m_ranges \in [ByRanges -> Seq(AllRanges)]
    /\ call \in Call
    /\ call.pc = "walking" => {call.ww, call.end} \subseteq 1 .. Len(resources)
    /\ call.steady \subseteq Range(resources) \intersect available
    /\ waited \in [RoundRobins -> [Resources -> Nat]]

Init ==
    /\ limits \in Limits /\ changes = 0
    /\ resources = <<>> /\ capacity = 0
    /\ available \in SUBSET Resources
    /\ m_position = [s \in RoundRobins |-> Unset]
    /\ m_ranges = [b \in ByRanges |-> <<>>]
    /\ call = NoCall
    /\ waited = [s \in RoundRobins |-> [r \in Resources |-> 0]]

-----------------------------------------------------------------------------
(* The list *)

(* A resource whose name is in the list is refused. *)
AddResource(r) ==
    /\ call.pc \notin {"walking", "undefined"}
    /\ Len(resources) < limits.adds
    /\ r \notin Range(resources)
    /\ resources' = Append(resources, r)
    /\ capacity' = IF Len(resources) < capacity THEN capacity
                   ELSE IF capacity = 0 THEN 1 ELSE 2 * capacity
    /\ UNCHANGED <<limits, changes, available, m_position, m_ranges, call, waited>>

Becomes(now) ==
    /\ call.pc # "undefined"
    /\ changes < limits.changes /\ changes' = changes + 1
    /\ available' = now
    /\ call' = [call EXCEPT !.steady = @ \intersect now]
    /\ waited' = [s \in RoundRobins |->
                     [r \in Resources |-> IF r \in now THEN waited[s][r] ELSE 0]]
    /\ UNCHANGED <<limits, list, m_position, m_ranges>>

(* Those that throw stay as they were. *)
Initialize ==
    /\ call.pc # "walking"
    /\ \E initialized \in SUBSET Range(resources) : Becomes(available \union initialized)

Change(r) == Becomes(IF r \in available THEN available \ {r} ELSE available \union {r})

NextIndexClamped(i) == IF i = Len(resources) THEN i ELSE i + 1     \* mutant
NextIndex(i) == IF i = Len(resources) THEN 1 ELSE i + 1

-----------------------------------------------------------------------------
(* Ranges *)

OverlapsAtAnEnd(range, bottom, top) ==                             \* mutant
    \/ range.bottom <= bottom /\ bottom <= range.top
    \/ range.bottom <= top /\ top <= range.top
Overlaps(range, bottom, top) ==
    \/ range.bottom <= bottom /\ bottom <= range.top
    \/ range.bottom <= top /\ top <= range.top
    \/ bottom <= range.bottom /\ range.top <= top

AddRange(b, bottom, top, s) ==
    /\ call.pc \notin {"applying", "walking", "undefined"}
    /\ Cardinality(UNION {{x} \X DOMAIN m_ranges[x] : x \in ByRanges}) < limits.ranges
    /\ s # b
    /\ bottom <= top
    /\ \A i \in DOMAIN m_ranges[b] : ~ Overlaps(m_ranges[b][i], bottom, top)
    /\ m_ranges' = [m_ranges EXCEPT ![b] =
                       Append(@, [bottom |-> bottom, top |-> top, strategy |-> s])]
    /\ UNCHANGED <<limits, changes, list, available, m_position, call, waited>>

-----------------------------------------------------------------------------
(* apply *)

Apply(s, id) ==
    /\ call.pc \in {"idle", "answered", "failed"}
    /\ call' = [NoCall EXCEPT !.pc = "applying", !.strategy = s, !.id = id]
    /\ UNCHANGED <<limits, changes, list, available, m_position, m_ranges, waited>>

Fails == call' = [call EXCEPT !.pc = "failed"]

(* findRange, and apply of the strategy of the range. *)
Contains(range, id) == range.bottom <= id /\ id <= range.top
Descend ==
    /\ call.pc = "applying" /\ call.strategy \in ByRanges
    /\ LET ranges == m_ranges[call.strategy]
           found == {i \in DOMAIN ranges : Contains(ranges[i], call.id)}
       IN  \/ found = {} /\ Fails
           \/ \E i \in found :
                 /\ \A j \in found : i <= j
                 /\ call' = [call EXCEPT !.strategy = ranges[i].strategy]
    /\ UNCHANGED <<limits, changes, list, available, m_position, m_ranges, waited>>

(* The guard is locked, and the walk begins. *)
WalksFrom(index) ==
    call' = [call EXCEPT !.pc = "walking", !.ww = index, !.end = index,
                         !.steady = Range(resources) \intersect available]

(* An empty vector has no buffer, and its begin() and end() are null; an   *)
(* iterator of a buffer that has been replaced must not be used.           *)
BeginRoundRobin ==
    /\ call.pc = "applying" /\ call.strategy \in RoundRobins
    /\ LET old == m_position[call.strategy]
           position == IF old = Unset
                       THEN [capacity |-> capacity, index |-> IF resources = <<>> THEN 0 ELSE 1]
                       ELSE old
       IN  /\ m_position' = [m_position EXCEPT ![call.strategy] = position]
           /\ IF position.capacity # capacity
              THEN call' = [call EXCEPT !.pc = "undefined"]
              ELSE IF resources = <<>> THEN Fails ELSE WalksFrom(position.index)
    /\ UNCHANGED <<limits, changes, list, available, m_ranges, waited>>

(* identifier is an int, and size() a size_t. *)
Start(id) == 1 + ((id % Word) % Len(resources))

BeginIndexed ==
    /\ call.pc = "applying" /\ call.strategy \in Indexed
    /\ IF resources = <<>> THEN Fails ELSE WalksFrom(Start(call.id))
    /\ UNCHANGED <<limits, changes, list, available, m_position, m_ranges, waited>>

(* One turn of the loop. *)
Answers(r) ==
    /\ call' = [call EXCEPT !.pc = "answered", !.result = r]
    /\ waited' = [s \in RoundRobins |->
                     IF s # call.strategy THEN waited[s]
                     ELSE [x \in Resources |->
                              IF x \in (Range(resources) \intersect available) \ {r}
                              THEN waited[s][x] + 1 ELSE 0]]

KeepsPosition(ww) == UNCHANGED m_position                          \* mutant
MovesPosition(ww) ==
    m_position' = IF call.strategy \in RoundRobins
                  THEN [m_position EXCEPT ![call.strategy] =
                           [capacity |-> capacity, index |-> NextIndex(ww)]]
                  ELSE m_position

StopsAtTheLast(ww) == ww = Len(resources)                          \* mutant
IsTheLast(ww) == NextIndex(ww) = call.end

Test ==
    /\ call.pc = "walking"
    /\ IF resources[call.ww] \in available
       THEN Answers(resources[call.ww]) /\ MovesPosition(call.ww)
       ELSE /\ IF IsTheLast(call.ww) THEN Fails
               ELSE call' = [call EXCEPT !.ww = NextIndex(@)]
            /\ UNCHANGED <<m_position, waited>>
    /\ UNCHANGED <<limits, changes, list, available, m_ranges>>

-----------------------------------------------------------------------------
Step == Descend \/ BeginRoundRobin \/ BeginIndexed \/ Test

Next ==
    \/ \E r \in Resources : AddResource(r) \/ Change(r)
    \/ Initialize
    \/ \E b \in ByRanges, bottom, top \in Ids, s \in Strategies : AddRange(b, bottom, top, s)
    \/ \E s \in Strategies, id \in Ids : Apply(s, id)
    \/ Step

Spec == Init /\ [][Next]_vars /\ WF_vars(Step)

-----------------------------------------------------------------------------
(* The ranges of a strategy do not overlap: no range that addRange has     *)
(* accepted is hidden by another one, in part or as a whole.               *)
RangesDisjoint ==
    \A b \in ByRanges : \A i, j \in DOMAIN m_ranges[b] :
        i # j => \/ m_ranges[b][i].top < m_ranges[b][j].bottom
                 \/ m_ranges[b][j].top < m_ranges[b][i].bottom

(* apply of the round robin and indexed strategies throws only if there is *)
(* no resource that was available all along, while resources come and go   *)
(* under the walk.                                                         *)
AvailableIsFound == call.pc = "failed" => call.steady = {}

(* A resource that stays available is passed over by a round robin at most *)
(* once for each of the other ones, whatever is added or fails meanwhile.  *)
InTurn ==
    \A s \in RoundRobins, r \in Range(resources) : waited[s][r] < Len(resources)

(* apply ends, unless strategies by range contain each other.              *)
Nested ==
    \E within \in SUBSET ByRanges \ {{}} :
        \A b \in within : \E range \in Range(m_ranges[b]) : range.strategy \in within
Applying == call.pc \in {"applying", "walking"}
ApplyEndsUnlessNested == Applying ~> ~ Applying \/ Nested

(* addRange refuses "a recursive association": every apply ends.           *)
ApplyEnds == Applying ~> ~ Applying

(* "The value ii must be contained in [resource_begin, resource_end)": the *)
(* position that a round robin keeps is good in its next apply.            *)
PositionIsValid == call.pc # "undefined"
=============================================================================
