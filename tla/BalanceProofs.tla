--------------------------- MODULE BalanceProofs ---------------------------
(***************************************************************************)
(* Theorems about Balance, for every set of resources and strategies, all  *)
(* integers as identifiers and ends of ranges, and any bounds.             *)
(***************************************************************************)
EXTENDS Balance, TLAPS

LEMMA RangeOfAppend ==
    ASSUME NEW r \in Resources, resources \in Seq(Resources),
           resources' = Append(resources, r)
    PROVE  /\ resources' \in Seq(Resources)
           /\ Len(resources') = Len(resources) + 1
           /\ resources'[Len(resources) + 1] = r
           /\ \A i \in 1 .. Len(resources) : resources'[i] = resources[i]
           /\ Range(resources') = Range(resources) \union {r}
<1>1. /\ resources' \in Seq(Resources)
      /\ Len(resources') = Len(resources) + 1
      /\ resources'[Len(resources) + 1] = r
      /\ \A i \in 1 .. Len(resources) : resources'[i] = resources[i]
  OBVIOUS
<1>2. Range(resources') = Range(resources) \union {r}
  <2>1. /\ DOMAIN resources = 1 .. Len(resources)
        /\ DOMAIN resources' = 1 .. Len(resources) + 1
    BY <1>1
  <2>2. Range(resources') \subseteq Range(resources) \union {r}
    BY <1>1, <2>1 DEF Range
  <2>3. Range(resources) \subseteq Range(resources') /\ r \in Range(resources')
    BY <1>1, <2>1 DEF Range
  <2>4. QED BY <2>2, <2>3
<1>3. QED BY <1>1, <1>2

LEMMA Capacities ==
    ASSUME TypeOK, NEW r, AddResource(r)
    PROVE  /\ capacity' \in Nat /\ Len(resources) + 1 <= capacity' /\ capacity <= capacity'
           /\ capacity' # capacity => capacity < capacity'
BY DEF TypeOK, AddResource

-----------------------------------------------------------------------------
LEMMA TypeInit == Init => TypeOK
BY BalanceAssumption DEF Init, TypeOK, IsPosition, NoCall, Call, Unset, IsInjective

(* What most steps of apply have to show. *)
LEMMA OnlyTheCall ==
    ASSUME TypeOK, UNCHANGED <<limits, changes, list, available, m_ranges>>,
           m_position' \in [RoundRobins -> [capacity : Int, index : Nat]],
           \A s \in RoundRobins : IsPosition(m_position'[s]),
           call' \in Call,
           call'.pc = "walking" => {call'.ww, call'.end} \subseteq 1 .. Len(resources),
           call'.steady \subseteq Range(resources) \intersect available,
           waited' \in [RoundRobins -> [Resources -> Nat]]
    PROVE  TypeOK'
BY DEF TypeOK, IsPosition, list

LEMMA Failed ==
    ASSUME TypeOK, Fails
    PROVE  call' \in Call /\ call'.pc = "failed" /\ call'.steady = call.steady
<1>1. call \in Call
  BY DEF TypeOK
<1>2. QED BY <1>1 DEF Fails, Call

LEMMA Walking ==
    ASSUME TypeOK, NEW index \in 1 .. Len(resources), WalksFrom(index)
    PROVE  /\ call' \in Call /\ call'.pc = "walking"
           /\ call'.strategy = call.strategy /\ call'.ww = index /\ call'.end = index
           /\ call'.steady = Range(resources) \intersect available
<1>1. call \in Call /\ Range(resources) \subseteq Resources /\ index \in Nat
  BY DEF TypeOK, Range
<1>2. QED BY <1>1 DEF WalksFrom, Call

LEMMA TypeStep == TypeOK /\ [Next]_vars => TypeOK'
<1> SUFFICES ASSUME TypeOK, [Next]_vars
             PROVE  TypeOK'
  OBVIOUS
<1>0. limits \in [adds : Nat, ranges : Nat, changes : Nat]
  BY BalanceAssumption DEF TypeOK
<1>1. ASSUME NEW r \in Resources, AddResource(r)
      PROVE  TypeOK'
  <2>1. /\ resources' \in Seq(Resources)
        /\ Len(resources') = Len(resources) + 1
        /\ resources'[Len(resources) + 1] = r
        /\ \A i \in 1 .. Len(resources) : resources'[i] = resources[i]
        /\ Range(resources') = Range(resources) \union {r}
    BY <1>1, RangeOfAppend DEF AddResource, TypeOK
  <2>2. IsInjective(resources')
    BY <1>1, <2>1 DEF AddResource, TypeOK, IsInjective, Range
  <2>3. /\ capacity' \in Nat /\ Len(resources') <= capacity' /\ capacity <= capacity'
    BY <1>1, <2>1, Capacities
  <2>4. \A s \in RoundRobins : IsPosition(m_position[s])'
    BY <1>1, <2>1, <2>3 DEF AddResource, TypeOK, IsPosition
  <2>5. resources' # <<>>
    BY <2>1 DEF TypeOK
  <2>6. QED BY <1>1, <2>1, <2>2, <2>3, <2>4, <2>5 DEF AddResource, TypeOK
<1>2. ASSUME NEW now \in SUBSET Resources, Becomes(now)
      PROVE  TypeOK'
  <2>1. call \in Call
    BY DEF TypeOK
  <2>2. call' = [call EXCEPT !.steady = call.steady \intersect now]
    BY <1>2 DEF Becomes
  <2>3. /\ call' \in Call /\ call'.pc = call.pc /\ call'.ww = call.ww /\ call'.end = call.end
        /\ call'.steady = call.steady \intersect now
    BY <2>1, <2>2 DEF Call
  <2>4. waited' \in [RoundRobins -> [Resources -> Nat]]
    BY <1>2 DEF Becomes, TypeOK
  <2>5. changes' \in 0 .. limits.changes
    BY <1>0, <1>2 DEF Becomes, TypeOK
  <2>6. QED BY <1>2, <2>3, <2>4, <2>5 DEF Becomes, TypeOK, IsPosition, list
<1>3. ASSUME NEW r \in Resources, Change(r)
      PROVE  TypeOK'
  BY <1>2, <1>3 DEF Change, TypeOK
<1>4. CASE Initialize
  <2>1. Range(resources) \subseteq Resources
    BY DEF TypeOK, Range
  <2>2. QED BY <1>2, <1>4, <2>1 DEF Initialize, TypeOK
<1>5. ASSUME NEW b \in ByRanges, NEW bottom \in Ids, NEW top \in Ids, NEW s \in Strategies,
             AddRange(b, bottom, top, s)
      PROVE  TypeOK'
  <2>1. [bottom |-> bottom, top |-> top, strategy |-> s] \in AllRanges
    BY DEF AllRanges
  <2>2. m_ranges' \in [ByRanges -> Seq(AllRanges)]
    BY <1>5, <2>1 DEF AddRange, TypeOK
  <2>3. QED BY <1>5, <2>2 DEF AddRange, TypeOK, IsPosition, list
<1>6. ASSUME NEW s \in Strategies, NEW id \in Ids, Apply(s, id)
      PROVE  TypeOK'
  BY <1>6, BalanceAssumption DEF Apply, NoCall, Call, TypeOK, IsPosition, list
<1>7. CASE Descend
  <2>1. CASE Fails
    BY <1>7, <2>1, Failed, OnlyTheCall DEF Descend, TypeOK, list
  <2>2. ASSUME NEW i \in DOMAIN m_ranges[call.strategy],
               call' = [call EXCEPT !.strategy = m_ranges[call.strategy][i].strategy]
        PROVE  TypeOK'
    <3>1. m_ranges[call.strategy][i].strategy \in Strategies
      <4>1. m_ranges[call.strategy] \in Seq(AllRanges)
        BY <1>7 DEF Descend, TypeOK
      <4>2. m_ranges[call.strategy][i] \in AllRanges
        BY <4>1
      <4>3. QED BY <4>2 DEF AllRanges
    <3>2. /\ call' \in Call /\ call'.pc = call.pc /\ call'.ww = call.ww
          /\ call'.end = call.end /\ call'.steady = call.steady
      <4>1. call \in Call
        BY DEF TypeOK
      <4>2. QED BY <2>2, <3>1, <4>1 DEF Call
    <3>3. QED BY <1>7, <3>2, OnlyTheCall DEF Descend, TypeOK, list
  <2>3. QED BY <1>7, <2>1, <2>2 DEF Descend
<1>8. CASE BeginRoundRobin
  <2> DEFINE old == m_position[call.strategy]
             position == IF old = Unset
                         THEN [capacity |-> capacity,
                               index |-> IF resources = <<>> THEN 0 ELSE 1]
                         ELSE old
  <2>1. /\ position \in [capacity : Int, index : Nat]
        /\ IsPosition(position)
    <3>1. capacity \in Int /\ capacity >= 0
      BY DEF TypeOK
    <3>2. CASE old = Unset
      BY <3>1, <3>2 DEF IsPosition, TypeOK
    <3>3. CASE old # Unset
      BY <1>8, <3>3 DEF BeginRoundRobin, TypeOK
    <3>4. QED BY <3>2, <3>3
  <2>2. /\ m_position' \in [RoundRobins -> [capacity : Int, index : Nat]]
        /\ \A s \in RoundRobins : IsPosition(m_position'[s])
    BY <1>8, <2>1 DEF BeginRoundRobin, TypeOK
  <2>3. CASE call' = [call EXCEPT !.pc = "undefined"]
    <3>1. call' \in Call /\ call'.pc = "undefined" /\ call'.steady = call.steady
      <4>1. call \in Call
        BY DEF TypeOK
      <4>2. QED BY <2>3, <4>1 DEF Call
    <3>2. QED BY <1>8, <2>2, <3>1, OnlyTheCall DEF BeginRoundRobin, TypeOK, list
  <2>4. CASE Fails
    BY <1>8, <2>2, <2>4, Failed, OnlyTheCall DEF BeginRoundRobin, TypeOK, list
  <2>5. CASE resources # <<>> /\ position.capacity = capacity /\ WalksFrom(position.index)
    <3>1. position.index \in 1 .. Len(resources)
      BY <2>1, <2>5 DEF IsPosition, TypeOK
    <3>2. QED
      BY <1>8, <2>2, <2>5, <3>1, Walking, OnlyTheCall DEF BeginRoundRobin, TypeOK, list
  <2>6. QED BY <1>8, <2>3, <2>4, <2>5 DEF BeginRoundRobin
<1>9. CASE BeginIndexed
  <2>1. CASE Fails
    BY <1>9, <2>1, Failed, OnlyTheCall DEF BeginIndexed, TypeOK, list
  <2>2. CASE resources # <<>> /\ WalksFrom(Start(call.id))
    <3>1. Start(call.id) \in 1 .. Len(resources)
      BY <2>2, BalanceAssumption DEF TypeOK, Call, Start
    <3>2. QED BY <1>9, <2>2, <3>1, Walking, OnlyTheCall DEF BeginIndexed, TypeOK, list
  <2>3. QED BY <1>9, <2>1, <2>2 DEF BeginIndexed
<1>10. CASE Test
  <2>1. call.ww \in 1 .. Len(resources) /\ NextIndex(call.ww) \in 1 .. Len(resources)
    BY <1>10 DEF Test, TypeOK, NextIndex
  <2>2. resources[call.ww] \in Resources
    BY <2>1 DEF TypeOK
  <2>3. call \in Call
    BY DEF TypeOK
  <2>4. CASE Answers(resources[call.ww]) /\ MovesPosition(call.ww)
    <3>1. waited' \in [RoundRobins -> [Resources -> Nat]]
      BY <2>4 DEF Answers, TypeOK
    <3>2. call' \in Call /\ call'.pc = "answered" /\ call'.steady = call.steady
      BY <2>2, <2>3, <2>4 DEF Answers, Call
    <3>3. /\ m_position' \in [RoundRobins -> [capacity : Int, index : Nat]]
          /\ \A s \in RoundRobins : IsPosition(m_position'[s])
      BY SMTT(30), <2>1, <2>4 DEF MovesPosition, TypeOK, IsPosition
    <3>4. QED BY <1>10, <3>1, <3>2, <3>3, OnlyTheCall DEF Test, TypeOK, list
  <2>5. CASE Fails /\ UNCHANGED <<m_position, waited>>
    BY <1>10, <2>5, Failed, OnlyTheCall DEF Test, TypeOK, list
  <2>6. CASE call' = [call EXCEPT !.ww = NextIndex(call.ww)]
             /\ UNCHANGED <<m_position, waited>>
    <3>1. /\ call' \in Call /\ call'.steady = call.steady
          /\ call'.end = call.end /\ call'.ww = NextIndex(call.ww) /\ call'.pc = call.pc
      BY <2>1, <2>3, <2>6 DEF Call
    <3>2. QED BY <1>10, <2>1, <2>6, <3>1, OnlyTheCall DEF Test, TypeOK, list
  <2>7. QED BY <1>10, <2>4, <2>5, <2>6 DEF Test
<1>11. CASE UNCHANGED vars
  BY <1>11 DEF vars, list, TypeOK, IsPosition
<1>12. QED
  BY <1>1, <1>3, <1>4, <1>5, <1>6, <1>7, <1>8, <1>9, <1>10, <1>11 DEF Next, Step

-----------------------------------------------------------------------------
(* The checks of addRange leave no way for two ranges to meet. *)
LEMMA DisjointStep == TypeOK /\ RangesDisjoint /\ [Next]_vars => RangesDisjoint'
<1> SUFFICES ASSUME TypeOK, RangesDisjoint, [Next]_vars
             PROVE  RangesDisjoint'
  OBVIOUS
<1>1. ASSUME NEW b \in ByRanges, NEW bottom \in Ids, NEW top \in Ids, NEW s \in Strategies,
             AddRange(b, bottom, top, s)
      PROVE  RangesDisjoint'
  <2> DEFINE old == m_ranges[b]
             new == [bottom |-> bottom, top |-> top, strategy |-> s]
  <2>1. /\ old \in Seq(AllRanges) /\ new \in AllRanges
        /\ m_ranges' = [m_ranges EXCEPT ![b] = Append(old, new)]
    BY <1>1 DEF AddRange, TypeOK, AllRanges
  <2>2. /\ Len(Append(old, new)) = Len(old) + 1
        /\ Append(old, new)[Len(old) + 1] = new
        /\ \A i \in 1 .. Len(old) : Append(old, new)[i] = old[i]
        /\ DOMAIN old = 1 .. Len(old)
        /\ DOMAIN Append(old, new) = 1 .. Len(old) + 1
    BY <2>1
  <2>3. \A i \in 1 .. Len(old) : old[i].top < bottom \/ top < old[i].bottom
    <3>1. ASSUME NEW i \in 1 .. Len(old)
          PROVE  old[i].top < bottom \/ top < old[i].bottom
      <4>1. old[i].bottom \in Int /\ old[i].top \in Int /\ bottom \in Int /\ top \in Int
        <5>1. old[i] \in AllRanges
          BY <2>1
        <5>2. QED BY <5>1, BalanceAssumption DEF AllRanges
      <4>2. ~ Overlaps(old[i], bottom, top) /\ bottom <= top
        BY <1>1, <2>2 DEF AddRange
      <4>3. QED BY <4>1, <4>2 DEF Overlaps
    <3>2. QED BY <3>1
  <2>4. ASSUME NEW x \in ByRanges, NEW i \in DOMAIN m_ranges'[x], NEW j \in DOMAIN m_ranges'[x],
               i # j
        PROVE  \/ m_ranges'[x][i].top < m_ranges'[x][j].bottom
               \/ m_ranges'[x][j].top < m_ranges'[x][i].bottom
    <3>1. CASE x # b
      <4>1. m_ranges'[x] = m_ranges[x]
        BY <2>1, <3>1 DEF TypeOK
      <4>2. QED BY <2>4, <4>1 DEF RangesDisjoint
    <3>2. CASE x = b
      <4>1. m_ranges'[x] = Append(old, new)
        BY <2>1, <3>2 DEF TypeOK
      <4>2. CASE i \in 1 .. Len(old) /\ j \in 1 .. Len(old)
        BY <2>2, <2>4, <4>1, <4>2 DEF RangesDisjoint
      <4>3. CASE i \in 1 .. Len(old) /\ j = Len(old) + 1
        BY <2>2, <2>3, <4>1, <4>3
      <4>4. CASE i = Len(old) + 1 /\ j \in 1 .. Len(old)
        BY <2>2, <2>3, <4>1, <4>4
      <4>5. i \in 1 .. Len(old) + 1 /\ j \in 1 .. Len(old) + 1
        BY <2>2, <4>1
      <4>6. Len(old) \in Nat
        BY <2>1
      <4>7. QED BY <2>4, <4>2, <4>3, <4>4, <4>5, <4>6
    <3>3. QED BY <3>1, <3>2
  <2>5. QED BY <2>4 DEF RangesDisjoint
<1>2. CASE UNCHANGED m_ranges
  BY <1>2 DEF RangesDisjoint
<1>3. QED
  BY <1>1, <1>2 DEF Next, Step, AddResource, Change, Initialize, Becomes, Apply, Descend,
     BeginRoundRobin, BeginIndexed, Test, vars

-----------------------------------------------------------------------------
(* The candidates that a walk has left behind. *)
Passed(i) ==
    IF call.end <= call.ww THEN call.end <= i /\ i < call.ww
                           ELSE call.end <= i \/ i < call.ww

(* None of them has been available all along. *)
NonePassed ==
    /\ call.pc \in {"applying", "failed"} => call.steady = {}
    /\ call.pc = "walking" =>
          \A i \in 1 .. Len(resources) : Passed(i) => resources[i] \notin call.steady

(* A step of the walk leaves one more behind, and the last one all. *)
LEMMA OneMorePassed ==
    ASSUME TypeOK, call.pc = "walking", NEW i \in 1 .. Len(resources)
    PROVE  /\ IsTheLast(call.ww) => Passed(i) \/ i = call.ww
           /\ ~ IsTheLast(call.ww) /\ call'.end = call.end /\ call'.ww = NextIndex(call.ww)
                 => (Passed(i)' => Passed(i) \/ i = call.ww)
<1>1. /\ call.ww \in 1 .. Len(resources) /\ call.end \in 1 .. Len(resources)
      /\ Len(resources) \in Nat
  BY DEF TypeOK
<1>2. QED BY <1>1 DEF Passed, IsTheLast, NextIndex

LEMMA NonePassedStep == TypeOK /\ NonePassed /\ [Next]_vars => NonePassed'
<1> SUFFICES ASSUME TypeOK, NonePassed, [Next]_vars
             PROVE  NonePassed'
  OBVIOUS
<1>0. call \in Call
  BY DEF TypeOK
<1>1. ASSUME NEW r \in Resources, AddResource(r)
      PROVE  NonePassed'
  BY <1>1 DEF AddResource, NonePassed
<1>2. ASSUME NEW now \in SUBSET Resources, Becomes(now)
      PROVE  NonePassed'
  <2>1. /\ call'.pc = call.pc /\ call'.ww = call.ww /\ call'.end = call.end
        /\ call'.steady = call.steady \intersect now
    BY <1>0, <1>2 DEF Becomes, Call
  <2>2. QED BY <1>2, <2>1 DEF Becomes, NonePassed, Passed, list
<1>3. ASSUME NEW r \in Resources, Change(r)
      PROVE  NonePassed'
  BY <1>2, <1>3 DEF Change, TypeOK
<1>4. CASE Initialize
  <2>1. Range(resources) \subseteq Resources
    BY DEF TypeOK, Range
  <2>2. QED BY <1>2, <1>4, <2>1 DEF Initialize, TypeOK
<1>5. ASSUME NEW b \in ByRanges, NEW bottom \in Ids, NEW top \in Ids, NEW s \in Strategies,
             AddRange(b, bottom, top, s)
      PROVE  NonePassed'
  BY <1>5 DEF AddRange, NonePassed
<1>6. ASSUME NEW s \in Strategies, NEW id \in Ids, Apply(s, id)
      PROVE  NonePassed'
  BY <1>6 DEF Apply, NoCall, NonePassed
<1>7. CASE Descend
  <2>1. call'.pc \in {"applying", "failed"} /\ call'.steady = call.steady
    BY <1>0, <1>7 DEF Descend, Fails, Call
  <2>2. QED BY <1>7, <2>1 DEF Descend, NonePassed
<1>8. ASSUME call.pc = "applying", NEW index \in 1 .. Len(resources), WalksFrom(index),
             UNCHANGED list
      PROVE  NonePassed'
  BY <1>8, Walking DEF NonePassed, Passed, list, TypeOK
<1>9. ASSUME call.pc = "applying", Fails
      PROVE  NonePassed'
  BY <1>9, Failed DEF NonePassed
<1>10. CASE BeginRoundRobin
  <2>1. CASE call' = [call EXCEPT !.pc = "undefined"]
    BY <1>0, <2>1 DEF Call, NonePassed
  <2>2. ASSUME NEW index, resources # <<>>, WalksFrom(index),
               \/ m_position[call.strategy] = Unset /\ index = 1
               \/ /\ index = m_position[call.strategy].index
                  /\ m_position[call.strategy].capacity = capacity
        PROVE  NonePassed'
    <3>1. index \in 1 .. Len(resources)
      BY <1>10, <2>2 DEF BeginRoundRobin, TypeOK, IsPosition
    <3>2. QED BY <1>8, <1>10, <2>2, <3>1 DEF BeginRoundRobin
  <2>3. QED BY <1>9, <1>10, <2>1, <2>2 DEF BeginRoundRobin
<1>11. CASE BeginIndexed
  <2>1. resources # <<>> => Start(call.id) \in 1 .. Len(resources)
    BY BalanceAssumption DEF TypeOK, Call, Start
  <2>2. QED BY <1>8, <1>9, <1>11, <2>1 DEF BeginIndexed
<1>12. CASE Test
  <2>1. /\ call.pc = "walking" /\ UNCHANGED <<list, available>>
        /\ call.ww \in 1 .. Len(resources)
        /\ Range(resources) = {resources[i] : i \in 1 .. Len(resources)}
        /\ call.steady \subseteq Range(resources) \intersect available
    <3>1. DOMAIN resources = 1 .. Len(resources)
      BY DEF TypeOK
    <3>2. QED BY <1>12, <3>1 DEF Test, TypeOK, Range
  <2>2. CASE Answers(resources[call.ww])
    <3>1. call'.pc = "answered"
      BY <1>0, <2>2 DEF Answers, Call
    <3>2. QED BY <3>1 DEF NonePassed
  <2>3. CASE resources[call.ww] \notin available /\ IsTheLast(call.ww) /\ Fails
    <3>1. \A i \in 1 .. Len(resources) : resources[i] \notin call.steady
      BY <2>1, <2>3, OneMorePassed DEF NonePassed
    <3>2. call.steady = {}
      BY <2>1, <3>1
    <3>3. QED BY <2>3, <3>2, Failed DEF NonePassed
  <2>4. CASE /\ resources[call.ww] \notin available /\ ~ IsTheLast(call.ww)
             /\ call' = [call EXCEPT !.ww = NextIndex(call.ww)]
    <3>1. /\ call'.pc = "walking" /\ call'.steady = call.steady
          /\ call'.end = call.end /\ call'.ww = NextIndex(call.ww)
      BY <1>0, <2>1, <2>4 DEF Call
    <3>2. \A i \in 1 .. Len(resources) : Passed(i)' => Passed(i) \/ i = call.ww
      BY <2>1, <2>4, <3>1, OneMorePassed
    <3>3. QED BY <2>1, <2>4, <3>1, <3>2 DEF NonePassed, list
  <2>5. QED BY <1>12, <2>2, <2>3, <2>4 DEF Test
<1>13. CASE UNCHANGED vars
  BY <1>13 DEF vars, list, NonePassed, Passed
<1>14. QED
  BY <1>1, <1>3, <1>4, <1>5, <1>6, <1>7, <1>10, <1>11, <1>12, <1>13 DEF Next, Step

-----------------------------------------------------------------------------
(* How many candidates come before the one of index i in a walk from p. *)
Distance(p, i) == IF p <= i THEN i - p ELSE i + Len(resources) - p

(* A resource that has waited has its turn within as many answers as there *)
(* are candidates before it, and those that a walk has left behind start   *)
(* to wait with its answer.                                                *)
TurnsOf(s) ==
    /\ \A r \in Resources \ (Range(resources) \intersect available) : waited[s][r] = 0
    /\ m_position[s] = Unset => \A r \in Resources : waited[s][r] = 0
    /\ \A i \in 1 .. Len(resources) : waited[s][resources[i]] < Len(resources)
    /\ m_position[s].capacity = capacity =>
          \A i \in 1 .. Len(resources) :
             waited[s][resources[i]] + Distance(m_position[s].index, i) < Len(resources)
    /\ call.pc = "walking" /\ call.strategy = s =>
          /\ m_position[s] = [capacity |-> capacity, index |-> call.end]
          /\ \A i \in 1 .. Len(resources) : Passed(i) => waited[s][resources[i]] = 0

Turns == \A s \in RoundRobins : TurnsOf(s)

LEMMA AddResourceTurns ==
    ASSUME TypeOK, Turns, NEW r \in Resources, AddResource(r), NEW s \in RoundRobins
    PROVE  TurnsOf(s)'
<1> DEFINE n == Len(resources)
<1>1. /\ n \in Nat
      /\ n' = n + 1 /\ resources'[n + 1] = r
      /\ \A i \in 1 .. n : resources'[i] = resources[i]
      /\ Range(resources') = Range(resources) \union {r}
  BY RangeOfAppend DEF AddResource, TypeOK
<1>2. /\ capacity \in Nat /\ n <= capacity /\ (n = 0 => capacity = 0)
      /\ capacity' # capacity => capacity < capacity'
  BY Capacities DEF TypeOK
<1>3. /\ r \notin Range(resources)
      /\ capacity' = capacity => n < capacity
      /\ UNCHANGED <<available, m_position, call, waited>> /\ call.pc # "walking"
  BY <1>2 DEF AddResource
<1>4. /\ TurnsOf(s)
      /\ m_position[s].capacity \in Int /\ m_position[s].index \in Nat
      /\ IsPosition(m_position[s]) /\ waited[s] \in [Resources -> Nat]
  BY DEF Turns, TypeOK
<1>5. waited[s][r] = 0
  BY <1>3, <1>4 DEF TurnsOf
<1>6. \A i \in 1 .. n : resources[i] \in Resources
  BY DEF TypeOK
<1>7. \A i \in 1 .. n + 1 : waited'[s][resources'[i]] < n + 1
  BY <1>1, <1>3, <1>4, <1>5, <1>6 DEF TurnsOf
<1>8. ASSUME m_position[s].capacity = capacity', NEW i \in 1 .. n + 1
      PROVE  waited'[s][resources'[i]] + Distance(m_position[s].index, i)' < n + 1
  <2>1. capacity' = capacity /\ m_position[s].index \in 1 .. n
    BY <1>2, <1>3, <1>4, <1>8 DEF IsPosition
  <2>2. CASE i \in 1 .. n
    <3>1. /\ resources[i] \in Resources /\ waited[s][resources[i]] \in Nat
          /\ waited'[s][resources'[i]] = waited[s][resources[i]]
      BY <1>1, <1>3, <1>4, <1>6, <2>2
    <3>2. waited[s][resources[i]] + Distance(m_position[s].index, i) < n
      BY <1>4, <1>8, <2>1, <2>2 DEF TurnsOf
    <3>3. PICK p \in 1 .. n : p = m_position[s].index
      BY <2>1
    <3>4. /\ Distance(m_position[s].index, i) = IF p <= i THEN i - p ELSE i + n - p
          /\ Distance(m_position[s].index, i)' = IF p <= i THEN i - p ELSE i + (n + 1) - p
      BY <1>1, <1>3, <3>3 DEF Distance
    <3>5. QED BY SMTT(30), <1>1, <2>2, <3>1, <3>2, <3>3, <3>4
  <2>3. CASE i = n + 1
    BY <1>1, <1>3, <1>5, <2>1, <2>3 DEF Distance
  <2>4. QED BY <1>1, <2>2, <2>3
<1>9. QED BY <1>1, <1>3, <1>4, <1>5, <1>7, <1>8 DEF TurnsOf

LEMMA BecomesTurns ==
    ASSUME TypeOK, Turns, NEW now \in SUBSET Resources, Becomes(now), NEW s \in RoundRobins
    PROVE  TurnsOf(s)'
<1>1. call \in Call /\ TurnsOf(s) /\ waited[s] \in [Resources -> Nat]
  BY DEF TypeOK, Turns
<1>2. /\ UNCHANGED <<resources, capacity, m_position>> /\ available' = now
      /\ waited'[s] = [r \in Resources |-> IF r \in now THEN waited[s][r] ELSE 0]
  BY DEF Becomes, list
<1>3. /\ call'.pc = call.pc /\ call'.ww = call.ww /\ call'.end = call.end
      /\ call'.strategy = call.strategy
  BY <1>1 DEF Becomes, Call
<1>4. /\ \A r \in Resources : waited'[s][r] = waited[s][r] \/ waited'[s][r] = 0
      /\ \A i \in 1 .. Len(resources) :
            resources[i] \in Resources /\ waited[s][resources[i]] \in Nat
  BY <1>1, <1>2 DEF TypeOK
<1>5. m_position[s].index \in Nat /\ Len(resources) \in Nat
  BY DEF TypeOK
<1>6. \A r \in Resources \ (Range(resources) \intersect now) : waited'[s][r] = 0
  BY <1>1, <1>2 DEF TurnsOf
<1>7. \A i \in 1 .. Len(resources) : waited'[s][resources[i]] <= waited[s][resources[i]]
  BY <1>4
<1>8. \A i \in 1 .. Len(resources) : waited'[s][resources[i]] \in Nat
  BY <1>4
<1>9. /\ m_position[s] = Unset => \A r \in Resources : waited'[s][r] = 0
      /\ \A i \in 1 .. Len(resources) : waited'[s][resources[i]] < Len(resources)
  BY <1>1, <1>4, <1>5, <1>7, <1>8 DEF TurnsOf
<1>10. m_position[s].capacity = capacity =>
          \A i \in 1 .. Len(resources) :
             waited'[s][resources[i]] + Distance(m_position[s].index, i) < Len(resources)
  <2>1. \A i \in 1 .. Len(resources) : Distance(m_position[s].index, i) \in Int
    BY <1>5 DEF Distance
  <2>2. QED BY <1>1, <1>4, <1>5, <1>7, <1>8, <2>1 DEF TurnsOf
<1>11. call.pc = "walking" /\ call.strategy = s =>
          /\ m_position[s] = [capacity |-> capacity, index |-> call.end]
          /\ \A i \in 1 .. Len(resources) : Passed(i) => waited'[s][resources[i]] = 0
  BY <1>1, <1>4 DEF TurnsOf
<1>12. QED
  BY <1>2, <1>3, <1>6, <1>9, <1>10, <1>11 DEF TurnsOf, Distance, Passed

(* Steps that leave positions and waiting times as they are, and begin no  *)
(* walk of a round robin strategy.                                         *)
LEMMA SameTurns ==
    ASSUME TypeOK, Turns, UNCHANGED <<list, available, m_position, waited>>,
           NEW s \in RoundRobins, ~ (call'.pc = "walking" /\ call'.strategy = s)
    PROVE  TurnsOf(s)'
BY DEF Turns, TurnsOf, Distance, list

LEMMA BeginTurns ==
    ASSUME TypeOK, Turns, BeginRoundRobin, NEW s \in RoundRobins
    PROVE  TurnsOf(s)'
<1> DEFINE old == m_position[call.strategy]
           position == IF old = Unset
                       THEN [capacity |-> capacity,
                             index |-> IF resources = <<>> THEN 0 ELSE 1]
                       ELSE old
<1>1. /\ call \in Call /\ TurnsOf(s) /\ call.pc = "applying"
      /\ call.strategy \in RoundRobins /\ waited[s] \in [Resources -> Nat]
  BY DEF TypeOK, Turns, BeginRoundRobin
<1>2. /\ UNCHANGED <<resources, capacity, available, waited>>
      /\ m_position' = [m_position EXCEPT ![call.strategy] = position]
  BY DEF BeginRoundRobin, list
<1>3. m_position'[call.strategy] = position
      /\ \A x \in RoundRobins \ {call.strategy} : m_position'[x] = m_position[x]
  BY <1>1, <1>2 DEF TypeOK
<1>4. /\ call'.strategy = call.strategy
      /\ call'.pc = "walking" => /\ position.capacity = capacity
                                 /\ call'.ww = position.index /\ call'.end = position.index
  <2>1. CASE call' = [call EXCEPT !.pc = "undefined"] \/ Fails
    BY <1>1, <2>1 DEF Fails, Call
  <2>2. CASE WalksFrom(position.index) /\ position.capacity = capacity
    BY <1>1, <2>2 DEF WalksFrom, Call
  <2>3. QED BY <2>1, <2>2 DEF BeginRoundRobin
<1>5. CASE s # call.strategy
  BY <1>1, <1>2, <1>3, <1>4, <1>5 DEF TurnsOf, Distance
<1>6. CASE s = call.strategy /\ old # Unset
  <2>1. m_position'[s] = m_position[s] /\ position = m_position[s]
    BY <1>3, <1>6
  <2>2. m_position[s] = [capacity |-> m_position[s].capacity, index |-> m_position[s].index]
    BY DEF TypeOK
  <2>3. call'.pc = "walking" => \A i \in 1 .. Len(resources) : ~ Passed(i)'
    BY <1>4, <2>1 DEF Passed, TypeOK
  <2>4. QED BY <1>1, <1>2, <1>4, <2>1, <2>2, <2>3 DEF TurnsOf, Distance
<1>7. CASE s = call.strategy /\ old = Unset
  <2>1. \A r \in Resources : waited[s][r] = 0
    BY <1>1, <1>7 DEF TurnsOf
  <2>2. position = [capacity |-> capacity, index |-> IF resources = <<>> THEN 0 ELSE 1]
    BY <1>7
  <2>3. \A i \in 1 .. Len(resources) : resources[i] \in Resources
    BY DEF TypeOK
  <2>4. \A i \in 1 .. Len(resources) : Distance(position.index, i) < Len(resources)
    BY <2>2 DEF Distance, TypeOK
  <2>5. call'.pc = "walking" => \A i \in 1 .. Len(resources) : ~ Passed(i)'
    BY <1>4, <2>2 DEF Passed, TypeOK
  <2>6. position # Unset
    BY <2>2 DEF Unset, TypeOK
  <2>7. QED
    BY <1>1, <1>2, <1>3, <1>4, <1>7, <2>1, <2>2, <2>3, <2>4, <2>5, <2>6
    DEF TurnsOf, Distance
<1>8. QED BY <1>5, <1>6, <1>7

(* The turn of each of the others comes closer.                            *)
LEMMA DistanceOfNext ==
    ASSUME Len(resources) \in Nat, NEW w \in 1 .. Len(resources),
           w = call.ww, call.end \in 1 .. Len(resources), NEW i \in 1 .. Len(resources)
    PROVE  /\ Distance(NextIndex(w), i) \in Int
           /\ i = w => Distance(NextIndex(w), i) = Len(resources) - 1
           /\ i # w => Distance(NextIndex(w), i) <= Len(resources) - 2
           /\ i # w /\ ~ Passed(i)
                 => Distance(NextIndex(w), i) <= Distance(call.end, i) - 1
<1>1. PICK n \in Nat, e \in 1 .. Len(resources) : n = Len(resources) /\ e = call.end
  OBVIOUS
<1>2. /\ Distance(NextIndex(w), i) =
            IF w = n THEN i - 1 ELSE IF w + 1 <= i THEN i - (w + 1) ELSE i + n - (w + 1)
      /\ Distance(call.end, i) = IF e <= i THEN i - e ELSE i + n - e
  BY <1>1 DEF Distance, NextIndex
<1>3. /\ Distance(NextIndex(w), i) \in Int
      /\ i = w => Distance(NextIndex(w), i) = n - 1
      /\ i # w => Distance(NextIndex(w), i) <= n - 2
  BY SMTT(30), <1>1, <1>2
<1>4. ASSUME i # w, ~ Passed(i)
      PROVE  Distance(NextIndex(w), i) <= Distance(call.end, i) - 1
  BY <1>1, <1>2, <1>4 DEF Passed
<1>5. QED BY <1>1, <1>3, <1>4

LEMMA TestTurns ==
    ASSUME TypeOK, Turns, Test, NEW s \in RoundRobins
    PROVE  TurnsOf(s)'
<1> DEFINE n == Len(resources)
           w == call.ww
<1>1. /\ call \in Call /\ TurnsOf(s) /\ call.pc = "walking"
      /\ n \in Nat /\ w \in 1 .. n /\ call.end \in 1 .. n
      /\ waited[s] \in [Resources -> Nat]
      /\ \A i \in 1 .. n : resources[i] \in Resources
  BY DEF TypeOK, Turns, Test
<1>2. UNCHANGED <<resources, capacity, available>>
  BY DEF Test, list
<1>3. NextIndex(w) \in 1 .. n
  BY <1>1 DEF NextIndex
<1>4. CASE Answers(resources[w]) /\ MovesPosition(w) /\ s = call.strategy
  <2>1. /\ call'.pc = "answered"
        /\ m_position'[s] = [capacity |-> capacity, index |-> NextIndex(w)]
        /\ waited'[s] = [x \in Resources |->
                            IF x \in (Range(resources) \intersect available) \ {resources[w]}
                            THEN waited[s][x] + 1 ELSE 0]
    BY <1>1, <1>4 DEF Answers, MovesPosition, Call, TypeOK
  <2>2. m_position[s] = [capacity |-> capacity, index |-> call.end]
    BY <1>1, <1>4 DEF TurnsOf
  <2>3. ASSUME NEW i \in 1 .. n
        PROVE  waited'[s][resources[i]] + Distance(NextIndex(w), i) < n
    <3>1. /\ Distance(NextIndex(w), i) \in Int
          /\ i = w => Distance(NextIndex(w), i) = n - 1
          /\ i # w => Distance(NextIndex(w), i) <= n - 2
          /\ i # w /\ ~ Passed(i)
                => Distance(NextIndex(w), i) <= Distance(call.end, i) - 1
      BY <1>1, <2>3, DistanceOfNext
    <3>2. /\ waited[s][resources[i]] \in Nat /\ waited'[s][resources[i]] \in Nat
          /\ waited'[s][resources[i]] <= waited[s][resources[i]] + 1
          /\ i = w => waited'[s][resources[i]] = 0
      BY <1>1, <2>1
    <3>3. Passed(i) => waited[s][resources[i]] = 0
      BY <1>1, <1>4 DEF TurnsOf
    <3>4. waited[s][resources[i]] + Distance(call.end, i) < n
      BY <1>1, <2>2 DEF TurnsOf
    <3>5. Distance(call.end, i) \in Int
      BY <1>1 DEF Distance
    <3>6. CASE i = w
      BY <1>1, <3>1, <3>2, <3>6
    <3>7. CASE i # w /\ Passed(i)
      BY <1>1, <3>1, <3>2, <3>3, <3>7
    <3>8. CASE i # w /\ ~ Passed(i)
      BY <1>1, <3>1, <3>2, <3>4, <3>5, <3>8
    <3>9. QED BY <3>6, <3>7, <3>8
  <2>4. \A i \in 1 .. n : waited'[s][resources[i]] < n
    <3>1. \A i \in 1 .. n : Distance(NextIndex(w), i) \in Nat
      BY <1>1, <1>3 DEF Distance
    <3>2. \A i \in 1 .. n : waited'[s][resources[i]] \in Nat
      BY <1>1, <2>1
    <3>3. QED BY <1>1, <2>3, <3>1, <3>2
  <2>5. \A r \in Resources \ (Range(resources) \intersect available) : waited'[s][r] = 0
    BY <2>1
  <2>6. m_position'[s] # Unset
    BY <2>1 DEF Unset, TypeOK
  <2>7. QED BY <1>2, <2>1, <2>3, <2>4, <2>5, <2>6 DEF TurnsOf, Distance
<1>5. CASE Answers(resources[w]) /\ MovesPosition(w) /\ s # call.strategy
  <2>1. /\ call'.pc = "answered"
        /\ m_position'[s] = m_position[s] /\ waited'[s] = waited[s]
    BY <1>1, <1>5 DEF Answers, MovesPosition, Call, TypeOK
  <2>2. QED BY <1>1, <1>2, <2>1 DEF TurnsOf, Distance
<1>6. CASE Fails /\ UNCHANGED <<m_position, waited>>
  BY <1>2, <1>6, Failed, SameTurns DEF list
<1>7. CASE /\ resources[w] \notin available /\ ~ IsTheLast(w)
           /\ call' = [call EXCEPT !.ww = NextIndex(w)] /\ UNCHANGED <<m_position, waited>>
  <2>1. /\ call'.pc = "walking" /\ call'.strategy = call.strategy
        /\ call'.end = call.end /\ call'.ww = NextIndex(w)
    BY <1>1, <1>7 DEF Call
  <2>2. \A i \in 1 .. n : Passed(i)' => Passed(i) \/ i = w
    BY <1>1, <1>7, <2>1, OneMorePassed
  <2>3. waited[s][resources[w]] = 0
    BY <1>1, <1>7 DEF TurnsOf
  <2>4. QED BY <1>1, <1>2, <1>7, <2>1, <2>2, <2>3 DEF TurnsOf, Distance
<1>8. QED BY <1>4, <1>5, <1>6, <1>7 DEF Test

LEMMA TurnsStep == TypeOK /\ Turns /\ [Next]_vars => Turns'
<1> SUFFICES ASSUME TypeOK, Turns, [Next]_vars, NEW s \in RoundRobins
             PROVE  TurnsOf(s)'
  BY DEF Turns
<1>0. call \in Call
  BY DEF TypeOK
<1>1. ASSUME NEW r \in Resources, AddResource(r)
      PROVE  TurnsOf(s)'
  BY <1>1, AddResourceTurns
<1>2. ASSUME NEW r \in Resources, Change(r)
      PROVE  TurnsOf(s)'
  BY <1>2, BecomesTurns DEF Change, TypeOK
<1>3. CASE Initialize
  <2>1. Range(resources) \subseteq Resources
    BY DEF TypeOK, Range
  <2>2. QED BY <1>3, <2>1, BecomesTurns DEF Initialize, TypeOK
<1>4. ASSUME NEW b \in ByRanges, NEW bottom \in Ids, NEW top \in Ids, NEW x \in Strategies,
             AddRange(b, bottom, top, x)
      PROVE  TurnsOf(s)'
  BY <1>4, SameTurns DEF AddRange
<1>5. ASSUME NEW x \in Strategies, NEW id \in Ids, Apply(x, id)
      PROVE  TurnsOf(s)'
  BY <1>5, SameTurns DEF Apply, NoCall
<1>6. CASE Descend
  <2>1. call'.pc # "walking"
    BY <1>0, <1>6 DEF Descend, Fails, Call
  <2>2. QED BY <1>6, <2>1, SameTurns DEF Descend
<1>7. CASE BeginRoundRobin
  BY <1>7, BeginTurns
<1>8. CASE BeginIndexed
  <2>1. call'.strategy = call.strategy
    BY <1>0, <1>8 DEF BeginIndexed, Fails, WalksFrom, Call
  <2>2. call.strategy # s
    BY <1>8, BalanceAssumption DEF BeginIndexed
  <2>3. QED BY <1>8, <2>1, <2>2, SameTurns DEF BeginIndexed
<1>9. CASE Test
  BY <1>9, TestTurns
<1>10. CASE UNCHANGED vars
  BY <1>10 DEF vars, list, Turns, TurnsOf, Distance, Passed
<1>11. QED
  BY <1>1, <1>2, <1>3, <1>4, <1>5, <1>6, <1>7, <1>8, <1>9, <1>10 DEF Next, Step

-----------------------------------------------------------------------------
Invariant == TypeOK /\ RangesDisjoint /\ NonePassed /\ Turns

LEMMA InitInvariant == Init => Invariant
<1> SUFFICES ASSUME Init
             PROVE  Invariant
  OBVIOUS
<1>1. TypeOK
  BY TypeInit
<1>2. RangesDisjoint
  BY DEF Init, RangesDisjoint
<1>3. NonePassed
  BY DEF Init, NonePassed, NoCall
<1>4. Turns
  BY DEF Init, Turns, TurnsOf, NoCall, Unset
<1>5. QED BY <1>1, <1>2, <1>3, <1>4 DEF Invariant

LEMMA AlwaysInvariant == Spec => []Invariant
<1>1. Invariant /\ [Next]_vars => Invariant'
  BY TypeStep, DisjointStep, NonePassedStep, TurnsStep DEF Invariant
<1>2. QED BY <1>1, InitInvariant, PTL DEF Spec

(* No walk leaves the list, whatever int the identifier is: start, end and *)
(* position are indices of the vector.                                     *)
THEOREM BalanceTypeCorrect == Spec => []TypeOK
BY TypeInit, TypeStep, PTL DEF Spec

(* addRange accepts no range that meets another one, for all integers.     *)
THEOREM RangesNeverOverlap == Spec => []RangesDisjoint
<1>1. Invariant => RangesDisjoint
  BY DEF Invariant
<1>2. QED BY <1>1, AlwaysInvariant, PTL

(* apply never throws while a resource was available all along.            *)
THEOREM AvailableIsAlwaysFound == Spec => []AvailableIsFound
<1>1. Invariant => AvailableIsFound
  BY DEF Invariant, NonePassed, AvailableIsFound
<1>2. QED BY <1>1, AlwaysInvariant, PTL

(* The round robin is fair, for every number of resources, while they are  *)
(* added, fail and recover.                                                *)
THEOREM RoundRobinIsFair == Spec => []InTurn
<1>1. Invariant => InTurn
  <2>1. ASSUME Invariant, NEW s \in RoundRobins, NEW r \in Range(resources)
        PROVE  waited[s][r] < Len(resources)
    <3>1. DOMAIN resources = 1 .. Len(resources)
      BY <2>1 DEF Invariant, TypeOK
    <3>2. PICK i \in 1 .. Len(resources) : r = resources[i]
      BY <3>1 DEF Range
    <3>3. QED BY <2>1, <3>2 DEF Invariant, Turns, TurnsOf
  <2>2. QED BY <2>1 DEF InTurn
<1>2. QED BY <1>1, AlwaysInvariant, PTL
=============================================================================
