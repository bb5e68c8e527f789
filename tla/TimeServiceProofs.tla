-------------------------- MODULE TimeServiceProofs --------------------------
(***************************************************************************)
(* Theorems about TimeService, its clock and its threads, for every set of *)
(* ids and durations, every resolution and every maxTime greater than it.  *)
(***************************************************************************)
EXTENDS TimeServiceClock, TimeServicePacing, FiniteSetTheorems, TLAPS

(* The loop of calculeMaxQuantum: a wheel of at least one position that    *)
(* covers maxTime.                                                         *)
LEMMA WheelSize ==
    /\ MaxQuantum \in Nat \ {0}
    /\ MaxTime \div Resolution <= MaxQuantum
BY TimesAssumption DEF MaxQuantum

(* An accepted event runs for one quantum to a whole turn of the wheel. *)
LEMMA StepsInRange ==
    ASSUME NEW e \in AcceptedEvent
    PROVE  Steps(e) \in 1 .. MaxQuantum
<1>1. e.timeout \in Nat /\ e.timeout <= MaxTime /\ e.timeout >= Resolution
  BY TimesAssumption DEF AcceptedEvent, InRange, TimeEvent
<1>2. Steps(e) \in Int /\ Steps(e) >= 1
  BY <1>1, TimesAssumption DEF Steps
<1>3. Steps(e) <= MaxTime \div Resolution
  BY <1>1, TimesAssumption DEF Steps
<1>4. MaxTime \div Resolution \in Int
  BY TimesAssumption
<1>5. QED BY <1>2, <1>3, <1>4, WheelSize

(* The position store computes is on the wheel. *)
LEMMA Wrap ==
    ASSUME NEW n \in Nat, NEW m \in Nat \ {0}, n < 2 * m
    PROVE  n % m = IF n < m THEN n ELSE n - m
OBVIOUS

(* The list that store picks is a list of the wheel. *)
LEMMA IndexInWheel ==
    ASSUME TypeOK, NEW e \in AcceptedEvent
    PROVE  /\ IndexQuantum(e) \in Quanta
           /\ currentQuantum + Steps(e) < MaxQuantum =>
                 IndexQuantum(e) = currentQuantum + Steps(e)
           /\ currentQuantum + Steps(e) >= MaxQuantum =>
                 IndexQuantum(e) = currentQuantum + Steps(e) - MaxQuantum
<1>1. PICK n \in Nat : n = currentQuantum + Steps(e)
  BY StepsInRange DEF TypeOK, Quanta
<1>2. n < 2 * MaxQuantum
  BY <1>1, StepsInRange, WheelSize DEF TypeOK, Quanta
<1>3. n % MaxQuantum = IF n < MaxQuantum THEN n ELSE n - MaxQuantum
  BY <1>2, Wrap, WheelSize
<1>4. IndexQuantum(e) = IF n < MaxQuantum THEN n ELSE n - MaxQuantum
  BY <1>1, <1>3 DEF IndexQuantum
<1>5. IndexQuantum(e) \in Quanta
  BY <1>2, <1>4, WheelSize DEF Quanta
<1>6. n < MaxQuantum => IndexQuantum(e) = n
  BY <1>4
<1>7. n >= MaxQuantum => IndexQuantum(e) = n - MaxQuantum
  BY <1>4, WheelSize
<1>8. currentQuantum \in Int /\ Steps(e) \in Int /\ MaxQuantum \in Int
  BY StepsInRange, WheelSize DEF TypeOK, Quanta
<1>9. QED BY <1>1, <1>5, <1>6, <1>7, <1>8

(* The part of the type invariant that every action must keep: a lemma, so *)
(* that the proofs below can use it at both ends of a step.                *)
LEMMA TypeStep == TypeOK /\ [Next]_vars => TypeOK'
<1> SUFFICES ASSUME TypeOK, [Next]_vars PROVE TypeOK'
  OBVIOUS
<1>1. ASSUME NEW e \in AcceptedEvent, Activate(e) PROVE TypeOK'
  <2>1. IndexQuantum(e) \in Quanta /\ e.id \in Ids
    BY IndexInWheel DEF AcceptedEvent, TimeEvent
  <2>2. /\ timeTable' \in [Quanta -> SUBSET AcceptedEvent]
        /\ temporaryQuantum' \subseteq AcceptedEvent
    BY <1>1, <2>1 DEF Activate, TypeOK
  <2>3. DOMAIN events' \subseteq Ids /\ events' \in [DOMAIN events' -> Quanta]
    BY <1>1, <2>1 DEF Activate, TypeOK
  <2>4. QED BY <1>1, <2>2, <2>3 DEF Activate, TypeOK
<1>2. ASSUME NEW id \in Ids, Cancel(id) PROVE TypeOK'
  <2>1. timeTable' \in [Quanta -> SUBSET AcceptedEvent]
    BY <1>2 DEF Cancel, TypeOK, Without
  <2>2. temporaryQuantum' \subseteq AcceptedEvent
    BY <1>2 DEF Cancel, TypeOK, Without
  <2>3. DOMAIN events' \subseteq Ids /\ events' \in [DOMAIN events' -> Quanta]
    BY <1>2 DEF Cancel, TypeOK
  <2>4. QED BY <1>2, <2>1, <2>2, <2>3 DEF Cancel, TypeOK
<1>3. CASE Produce
  BY <1>3, MaxTicksAssumption DEF Produce, TypeOK
<1>4. CASE WakeUp
  BY <1>4 DEF WakeUp, TypeOK
<1>5. CASE ConsumeTick
  <2>1. TimedOut \subseteq AcceptedEvent /\ Restored \subseteq TimedOut
    BY DEF TimedOut, Restored, TypeOK
  <2>2. \A q \in Quanta : QuantumAfterTick(q) \subseteq AcceptedEvent
    BY <2>1 DEF QuantumAfterTick, TypeOK
  <2>3. timeTable' \in [Quanta -> SUBSET AcceptedEvent]
    BY <1>5, <2>2 DEF ConsumeTick
  <2>4. IdsOf(Restored) \subseteq Ids
    BY <2>1 DEF IdsOf, AcceptedEvent, TimeEvent
  <2>5. \A id \in (DOMAIN events \ IdsOf(TimedOut)) \union IdsOf(Restored) :
            LocationAfterTick(id) \in Quanta
    <3> SUFFICES ASSUME NEW id \in (DOMAIN events \ IdsOf(TimedOut))
                                     \union IdsOf(Restored)
                 PROVE  LocationAfterTick(id) \in Quanta
      OBVIOUS
    <3>1. CASE \E e \in Restored : e.id = id
      <4>1. (CHOOSE e \in Restored : e.id = id) \in AcceptedEvent
        BY <3>1, <2>1
      <4>2. QED BY <3>1, <4>1, IndexInWheel DEF LocationAfterTick
    <3>2. CASE ~ \E e \in Restored : e.id = id
      <4>1. id \in DOMAIN events
        BY <3>2 DEF IdsOf
      <4>2. QED BY <3>2, <4>1 DEF LocationAfterTick, TypeOK
    <3>3. QED BY <3>1, <3>2
  <2>6. DOMAIN events' \subseteq Ids /\ events' \in [DOMAIN events' -> Quanta]
    BY <1>5, <2>4, <2>5 DEF ConsumeTick, TypeOK
  <2>7. currentQuantum' \in Quanta /\ ticks' \in 0 .. MaxTicks
    BY <1>5, WheelSize, MaxTicksAssumption DEF ConsumeTick, TypeOK, Quanta
  <2>8. QED BY <1>5, <2>1, <2>3, <2>6, <2>7 DEF ConsumeTick, TypeOK
<1>6. CASE Wait
  BY <1>6 DEF Wait, TypeOK
<1>7. CASE UNCHANGED vars
  BY <1>7 DEF vars, TypeOK
<1>8. QED
  BY <1>1, <1>2, <1>3, <1>4, <1>5, <1>6, <1>7 DEF Next

(* initialize leaves an empty wheel. *)
LEMMA WheelAtFirst == Init => TypeOK
BY WheelSize, MaxTicksAssumption DEF Init, TypeOK, Quanta

(* Every reachable state is well typed: store never computes a position    *)
(* outside the wheel and never loses one of its lists.                     *)
THEOREM TypeCorrect == Spec => []TypeOK
BY WheelAtFirst, TypeStep, PTL DEF Spec

-----------------------------------------------------------------------------
(***************************************************************************)
(* The wheel and the map of active events.  WheelMatchesEvents is          *)
(* inductive together with the type invariant: what a step needs to know   *)
(* of the other events is only where their one node is.                    *)
(***************************************************************************)

LEMMA ActivateKeepsWheel ==
    ASSUME TypeOK, WheelMatchesEvents, NEW e \in AcceptedEvent, Activate(e)
    PROVE  WheelMatchesEvents'
<1> DEFINE home == IndexQuantum(e)
<1>1. home \in Quanta
  BY IndexInWheel
<1>2. /\ e.id \notin DOMAIN events
      /\ currentQuantum' = currentQuantum
      /\ DOMAIN events' = DOMAIN events \union {e.id}
      /\ events'[e.id] = home
      /\ \A id \in DOMAIN events : events'[id] = events[id]
  BY DEF Activate
<1>3. /\ \A q \in Quanta : timeTable'[q] =
            IF q = home /\ home # currentQuantum
            THEN timeTable[q] \union {e} ELSE timeTable[q]
      /\ temporaryQuantum' =
            IF home = currentQuantum
            THEN temporaryQuantum \union {e} ELSE temporaryQuantum
  BY <1>1 DEF Activate, TypeOK
<1>4. /\ \A q \in Quanta : \A f \in timeTable[q] : f.id # e.id
      /\ \A f \in temporaryQuantum : f.id # e.id
  BY <1>2 DEF WheelMatchesEvents, EveryNodeIsLocated
<1> HIDE DEF home
<1>5. EveryNodeIsLocated'
  <2>1. ASSUME NEW q \in Quanta, NEW f \in timeTable'[q]
        PROVE  f.id \in DOMAIN events' /\ events'[f.id] = q
    <3>1. CASE f \in timeTable[q]
      BY <3>1, <1>2 DEF WheelMatchesEvents, EveryNodeIsLocated
    <3>2. CASE f \notin timeTable[q]
      <4>1. f = e /\ q = home
        BY <2>1, <3>2, <1>3
      <4>2. QED BY <4>1, <1>2
    <3>3. QED BY <3>1, <3>2
  <2>2. ASSUME NEW f \in temporaryQuantum'
        PROVE  f.id \in DOMAIN events' /\ events'[f.id] = currentQuantum'
    <3>1. CASE f \in temporaryQuantum
      BY <3>1, <1>2 DEF WheelMatchesEvents, EveryNodeIsLocated
    <3>2. CASE f \notin temporaryQuantum
      <4>1. f = e /\ home = currentQuantum
        BY <2>2, <3>2, <1>3
      <4>2. QED BY <4>1, <1>2
    <3>3. QED BY <3>1, <3>2
  <2>3. QED BY <2>1, <2>2 DEF EveryNodeIsLocated
<1>6. EveryLocationHasANode'
  <2> SUFFICES ASSUME NEW id \in DOMAIN events'
               PROVE  \/ \E f \in timeTable'[events'[id]] : f.id = id
                      \/ \E f \in temporaryQuantum' : f.id = id
    BY DEF EveryLocationHasANode, IdsOf
  <2>1. CASE id = e.id
    BY <1>1, <1>2, <1>3, <2>1
  <2>2. CASE id # e.id
    <3>1. id \in DOMAIN events /\ events'[id] = events[id] /\ events[id] \in Quanta
      BY <1>2, <2>2 DEF TypeOK
    <3>2. \/ \E f \in timeTable[events[id]] : f.id = id
          \/ \E f \in temporaryQuantum : f.id = id
      BY <3>1 DEF WheelMatchesEvents, EveryLocationHasANode, IdsOf
    <3>3. QED BY <3>1, <3>2, <1>3
  <2>3. QED BY <2>1, <2>2
<1>7. OneNodePerEvent'
  <2>1. \A q \in Quanta : \A f, g \in timeTable'[q] : f.id = g.id => f = g
    <3> SUFFICES ASSUME NEW q \in Quanta, NEW f \in timeTable'[q],
                        NEW g \in timeTable'[q], f.id = g.id
                 PROVE  f = g
      OBVIOUS
    <3>1. /\ f \in timeTable[q] \/ f = e
          /\ g \in timeTable[q] \/ g = e
      BY <1>3
    <3>2. QED
      BY <3>1, <1>4 DEF WheelMatchesEvents, OneNodePerEvent
  <2>2. \A f, g \in temporaryQuantum' : f.id = g.id => f = g
    <3> SUFFICES ASSUME NEW f \in temporaryQuantum', NEW g \in temporaryQuantum',
                        f.id = g.id
                 PROVE  f = g
      OBVIOUS
    <3>1. /\ f \in temporaryQuantum \/ f = e
          /\ g \in temporaryQuantum \/ g = e
      BY <1>3
    <3>2. QED
      BY <3>1, <1>4 DEF WheelMatchesEvents, OneNodePerEvent
  <2>3. ASSUME NEW q \in Quanta, NEW f \in timeTable'[q], NEW g \in temporaryQuantum'
        PROVE  f.id # g.id
    <3>1. f \in timeTable[q] /\ g \in temporaryQuantum => f.id # g.id
      BY DEF WheelMatchesEvents, OneNodePerEvent, IdsOf
    <3>2. \/ f \in timeTable[q] /\ g \in temporaryQuantum
          \/ f \in timeTable[q] /\ g = e
          \/ f = e /\ g \in temporaryQuantum
      BY <2>3, <1>3
    <3>3. QED BY <3>1, <3>2, <1>4
  <2>4. QED BY <2>1, <2>2, <2>3 DEF OneNodePerEvent, IdsOf
<1>8. QED BY <1>5, <1>6, <1>7 DEF WheelMatchesEvents

LEMMA CancelKeepsWheel ==
    ASSUME TypeOK, WheelMatchesEvents, NEW id \in Ids, Cancel(id)
    PROVE  WheelMatchesEvents'
<1>1. /\ id \in DOMAIN events
      /\ currentQuantum' = currentQuantum
      /\ DOMAIN events' = DOMAIN events \ {id}
      /\ \A other \in DOMAIN events \ {id} : events'[other] = events[other]
  BY DEF Cancel
<1>2. \A q \in Quanta : timeTable'[q] \subseteq timeTable[q]
  BY DEF Cancel, TypeOK, Without
<1>3. /\ timeTable'[events[id]] = {e \in timeTable[events[id]] : e.id # id}
      /\ \A q \in Quanta \ {events[id]} : timeTable'[q] = timeTable[q]
      /\ temporaryQuantum' = {e \in temporaryQuantum : e.id # id}
  BY <1>1 DEF Cancel, TypeOK, Without
<1>4. /\ \A q \in Quanta : \A e \in timeTable'[q] : e.id # id
      /\ \A e \in temporaryQuantum' : e.id # id
  BY <1>3 DEF WheelMatchesEvents, EveryNodeIsLocated
<1>5. EveryNodeIsLocated'
  BY <1>1, <1>2, <1>3, <1>4 DEF WheelMatchesEvents, EveryNodeIsLocated
<1>6. EveryLocationHasANode'
  <2> SUFFICES ASSUME NEW other \in DOMAIN events'
               PROVE  \/ \E e \in timeTable'[events'[other]] : e.id = other
                      \/ \E e \in temporaryQuantum' : e.id = other
    BY DEF EveryLocationHasANode, IdsOf
  <2>1. /\ other \in DOMAIN events /\ other # id
        /\ events'[other] = events[other] /\ events[other] \in Quanta
    BY <1>1 DEF TypeOK
  <2>2. \/ \E e \in timeTable[events[other]] : e.id = other
        \/ \E e \in temporaryQuantum : e.id = other
    BY <2>1 DEF WheelMatchesEvents, EveryLocationHasANode, IdsOf
  <2>3. QED BY <1>3, <2>1, <2>2
<1>7. OneNodePerEvent'
  BY <1>2, <1>3 DEF WheelMatchesEvents, OneNodePerEvent, IdsOf
<1>8. QED BY <1>5, <1>6, <1>7 DEF WheelMatchesEvents

(* store finds the restored event by its id: there is only one. *)
LEMMA RestoredHasOneHome ==
    ASSUME WheelMatchesEvents, TypeOK, NEW e \in Restored
    PROVE  LocationAfterTick(e.id) = IndexQuantum(e)
<1>1. \A f \in Restored : f.id = e.id => f = e
  BY DEF WheelMatchesEvents, OneNodePerEvent, Restored, TimedOut, TypeOK
<1>2. (CHOOSE f \in Restored : f.id = e.id) = e
  BY <1>1
<1>3. QED BY <1>2 DEF LocationAfterTick

LEMMA ConsumeKeepsWheel ==
    ASSUME TypeOK, WheelMatchesEvents, ConsumeTick
    PROVE  WheelMatchesEvents'
<1>1. /\ DOMAIN events' = (DOMAIN events \ IdsOf(TimedOut)) \union IdsOf(Restored)
      /\ \A id \in DOMAIN events' : events'[id] = LocationAfterTick(id)
      /\ temporaryQuantum' = {}
      /\ \A q \in Quanta : timeTable'[q] = QuantumAfterTick(q)
  BY DEF ConsumeTick
<1>2. /\ currentQuantum \in Quanta
      /\ TimedOut \subseteq AcceptedEvent
      /\ Restored \subseteq TimedOut
      /\ \A e \in Restored : IndexQuantum(e) \in Quanta
  BY IndexInWheel DEF TypeOK, TimedOut, Restored
<1>3. \A e \in TimedOut : e.id \in DOMAIN events /\ events[e.id] = currentQuantum
  BY <1>2 DEF WheelMatchesEvents, EveryNodeIsLocated, TimedOut
<1>4. \A e \in Restored : e.id \in DOMAIN events' /\ events'[e.id] = IndexQuantum(e)
  BY <1>1, RestoredHasOneHome DEF IdsOf
<1>5. \A id \in DOMAIN events \ IdsOf(TimedOut) :
          id \in DOMAIN events' /\ events'[id] = events[id]
  BY <1>1, <1>2 DEF LocationAfterTick, IdsOf
(* The nodes that the tick does not expire, at the place they have after it. *)
<1> DEFINE Kept(q) == IF q = currentQuantum THEN temporaryQuantum ELSE timeTable[q]
<1>6. \A q \in Quanta : \A e \in Kept(q) :
          /\ e.id \in DOMAIN events \ IdsOf(TimedOut)
          /\ events[e.id] = q
  <2> SUFFICES ASSUME NEW q \in Quanta, NEW e \in Kept(q)
               PROVE  /\ e.id \in DOMAIN events /\ events[e.id] = q
                      /\ e.id \notin IdsOf(TimedOut)
    OBVIOUS
  <2>1. CASE q = currentQuantum
    BY <2>1, <1>2 DEF WheelMatchesEvents, EveryNodeIsLocated, OneNodePerEvent,
                      TimedOut, IdsOf
  <2>2. CASE q # currentQuantum
    BY <2>2, <1>2, <1>3 DEF WheelMatchesEvents, EveryNodeIsLocated, IdsOf
  <2>3. QED BY <2>1, <2>2
<1>7. \A q \in Quanta :
          timeTable'[q] = Kept(q) \union {e \in Restored : IndexQuantum(e) = q}
  BY <1>1 DEF QuantumAfterTick
<1>8. \A q \in Quanta : \A e, f \in Kept(q) : e.id = f.id => e = f
  BY DEF WheelMatchesEvents, OneNodePerEvent
<1> HIDE DEF Kept
<1>9. EveryNodeIsLocated'
  BY <1>1, <1>4, <1>5, <1>6, <1>7 DEF EveryNodeIsLocated
<1>10. OneNodePerEvent'
  <2>1. ASSUME NEW q \in Quanta, NEW e \in timeTable'[q], NEW f \in timeTable'[q],
               e.id = f.id
        PROVE  e = f
    <3>1. CASE e \in Kept(q) /\ f \in Kept(q)
      BY <2>1, <3>1, <1>8
    <3>2. CASE e \in Restored /\ f \in Restored
      BY <2>1, <3>2, <1>2 DEF WheelMatchesEvents, OneNodePerEvent, TimedOut
    <3>3. CASE e \in Kept(q) /\ f \in Restored
      BY <2>1, <3>3, <1>2, <1>6 DEF IdsOf
    <3>4. CASE e \in Restored /\ f \in Kept(q)
      BY <2>1, <3>4, <1>2, <1>6 DEF IdsOf
    <3>5. QED BY <2>1, <1>7, <3>1, <3>2, <3>3, <3>4
  <2>2. QED BY <2>1, <1>1 DEF OneNodePerEvent, IdsOf
<1>11. EveryLocationHasANode'
  <2> SUFFICES ASSUME NEW id \in DOMAIN events'
               PROVE  \E e \in timeTable'[events'[id]] : e.id = id
    BY DEF EveryLocationHasANode, IdsOf
  <2>1. CASE id \in IdsOf(Restored)
    <3>1. PICK e \in Restored : e.id = id
      BY <2>1 DEF IdsOf
    <3>2. events'[id] = IndexQuantum(e) /\ IndexQuantum(e) \in Quanta
      BY <3>1, <1>2, <1>4
    <3>3. e \in timeTable'[events'[id]]
      BY <3>1, <3>2, <1>7
    <3>4. QED BY <3>1, <3>3
  <2>2. CASE id \in DOMAIN events \ IdsOf(TimedOut)
    <3>1. events'[id] = events[id] /\ events[id] \in Quanta
      BY <2>2, <1>5 DEF TypeOK
    <3>2. \E e \in timeTable[events[id]] \union temporaryQuantum : e.id = id
      BY <2>2 DEF WheelMatchesEvents, EveryLocationHasANode, IdsOf
    <3>3. PICK e \in timeTable[events[id]] \union temporaryQuantum : e.id = id
      BY <3>2
    <3>4. e \in Kept(events[id])
      <4>1. CASE e \in temporaryQuantum
        BY <3>3, <4>1 DEF Kept, WheelMatchesEvents, EveryNodeIsLocated
      <4>2. CASE e \in timeTable[events[id]]
        <5>1. events[id] # currentQuantum
          BY <2>2, <3>3, <4>2 DEF TimedOut, IdsOf
        <5>2. QED BY <4>2, <5>1 DEF Kept
      <4>3. QED BY <3>3, <4>1, <4>2
    <3>5. QED BY <3>1, <3>3, <3>4, <1>7
  <2>3. QED BY <1>1, <2>1, <2>2
<1>12. QED BY <1>9, <1>10, <1>11 DEF WheelMatchesEvents

(* The map of active events and the lists of the wheel name each other in  *)
(* every reachable state: cancel always finds its node, and no event is    *)
(* notified that events does not know.                                     *)
THEOREM WheelAndEventsAgree == Spec => []WheelMatchesEvents
<1>1. Init => WheelMatchesEvents
  BY DEF Init, WheelMatchesEvents, EveryNodeIsLocated, EveryLocationHasANode,
         OneNodePerEvent, IdsOf
<1>2. TypeOK /\ WheelMatchesEvents /\ [Next]_vars => WheelMatchesEvents'
  <2> SUFFICES ASSUME TypeOK, WheelMatchesEvents, [Next]_vars
               PROVE  WheelMatchesEvents'
    OBVIOUS
  <2>1. CASE \E e \in AcceptedEvent : Activate(e)
    BY <2>1, ActivateKeepsWheel
  <2>2. CASE \E id \in Ids : Cancel(id)
    BY <2>2, CancelKeepsWheel
  <2>3. CASE ConsumeTick
    BY <2>3, ConsumeKeepsWheel
  <2>4. CASE Produce \/ WakeUp \/ Wait \/ UNCHANGED vars
    <3>1. UNCHANGED <<timeTable, currentQuantum, temporaryQuantum, events>>
      BY <2>4 DEF Produce, WakeUp, Wait, vars
    <3>2. QED
      BY <3>1 DEF WheelMatchesEvents, EveryNodeIsLocated, EveryLocationHasANode,
                  OneNodePerEvent, IdsOf
  <2>5. QED BY <2>1, <2>2, <2>3, <2>4 DEF Next
<1>3. QED BY <1>1, <1>2, TypeCorrect, PTL DEF Spec

-----------------------------------------------------------------------------
(***************************************************************************)
(* Refinement: a position of the wheel is a countdown.                     *)
(***************************************************************************)

(* The ticks an event has to wait for in the list store picks. *)
LEMMA HomeDistance ==
    ASSUME TypeOK, NEW e \in AcceptedEvent
    PROVE  /\ IndexQuantum(e) # currentQuantum => LeftAt(IndexQuantum(e)) = Steps(e) + 1
           /\ IndexQuantum(e) = currentQuantum => Steps(e) = MaxQuantum
<1>1. Steps(e) \in 1 .. MaxQuantum /\ MaxQuantum \in Nat /\ currentQuantum \in Quanta
  BY StepsInRange, WheelSize DEF TypeOK
<1>2. QED BY <1>1, IndexInWheel DEF LeftAt, Quanta

LEMMA LeftAtRange ==
    ASSUME TypeOK
    PROVE  /\ \A q \in Quanta : LeftAt(q) \in 1 .. MaxQuantum
           /\ \A q \in Quanta : LeftAt(q) = 1 <=> q = currentQuantum
BY WheelSize DEF TypeOK, Quanta, LeftAt

(* One tick brings every position one tick nearer and the expired one to   *)
(* the far end.                                                            *)
LeftAfterTick(q) == IF q = currentQuantum THEN MaxQuantum ELSE LeftAt(q) - 1

LEMMA WheelTurns ==
    ASSUME TypeOK, ConsumeTick
    PROVE  \A q \in Quanta : LeftAt(q)' = LeftAfterTick(q)
<1>1. /\ currentQuantum \in Quanta /\ MaxQuantum \in Nat \ {0}
      /\ currentQuantum' =
            IF currentQuantum + 1 = MaxQuantum THEN 0 ELSE currentQuantum + 1
  BY WheelSize DEF TypeOK, ConsumeTick
<1>2. QED BY <1>1 DEF LeftAt, LeftAfterTick, Quanta

LEMMA ArmedIsActive ==
    ASSUME TypeOK, WheelMatchesEvents
    PROVE  Abstract!ArmedIds = DOMAIN events
<1>1. ASSUME NEW t \in Countdown PROVE t.event.id \in DOMAIN events
  BY <1>1 DEF Countdown, WheelMatchesEvents, EveryNodeIsLocated
<1>2. ASSUME NEW id \in DOMAIN events PROVE \E t \in Countdown : t.event.id = id
  <2>1. events[id] \in Quanta
    BY DEF TypeOK
  <2>2. CASE \E e \in timeTable[events[id]] : e.id = id
    <3>1. PICK e \in timeTable[events[id]] : e.id = id
      BY <2>2
    <3>2. e \in AcceptedEvent
      BY <2>1 DEF TypeOK
    <3>3. LeftAt(events[id]) \in 1 .. MaxQuantum + 1
      BY <2>1, LeftAtRange, WheelSize
    <3>4. [event |-> e, left |-> LeftAt(events[id])] \in Countdown
      BY <2>1, <3>1, <3>2, <3>3 DEF Countdown
    <3>5. QED BY <3>1, <3>4
  <2>3. CASE \E e \in temporaryQuantum : e.id = id
    <3>1. PICK e \in temporaryQuantum : e.id = id
      BY <2>3
    <3>2. e \in AcceptedEvent
      BY DEF TypeOK
    <3>3. MaxQuantum + 1 \in 1 .. MaxQuantum + 1
      BY WheelSize
    <3>4. [event |-> e, left |-> MaxQuantum + 1] \in Countdown
      BY <3>1, <3>2, <3>3 DEF Countdown
    <3>5. QED BY <3>1, <3>4
  <2>4. QED
    BY <2>2, <2>3 DEF WheelMatchesEvents, EveryLocationHasANode, IdsOf
<1>3. QED BY <1>1, <1>2 DEF Abstract!ArmedIds

LEMMA ActivateRefines ==
    ASSUME TypeOK, WheelMatchesEvents, NEW e \in AcceptedEvent, Activate(e), TypeOK'
    PROVE  Abstract!Activate(e)
<1> DEFINE new == [event |-> e, left |-> Steps(e) + 1]
<1>1. e.id \notin Abstract!ArmedIds
  BY ArmedIsActive DEF Activate
<1>2. /\ currentQuantum' = currentQuantum /\ notified' = notified
      /\ \A q \in Quanta : LeftAt(q)' = LeftAt(q)
  BY DEF Activate, LeftAt
<1>3. new \in [event : AcceptedEvent, left : 1 .. MaxQuantum + 1]
  BY StepsInRange, WheelSize
<1>4. CASE IndexQuantum(e) = currentQuantum
  <2>1. Steps(e) = MaxQuantum
    BY <1>4, HomeDistance
  <2>2. timeTable' = timeTable /\ temporaryQuantum' = temporaryQuantum \union {e}
    BY <1>4 DEF Activate
  <2>3. \A t : t \in Countdown' <=> t \in Countdown \/ t = new
    <3>1. ASSUME NEW t \in [event : AcceptedEvent, left : 1 .. MaxQuantum + 1]
          PROVE  (t.event = e /\ t.left = MaxQuantum + 1) <=> t = new
      BY <2>1
    <3>2. QED BY <1>2, <1>3, <2>2, <3>1 DEF Countdown
  <2>4. Countdown' = Countdown \union {new}
    BY <2>3
  <2>5. QED BY <1>1, <1>2, <2>4 DEF Abstract!Activate, Abstract!Steps, Steps
<1>5. CASE IndexQuantum(e) # currentQuantum
  <2>1. LeftAt(IndexQuantum(e)) = Steps(e) + 1 /\ IndexQuantum(e) \in Quanta
    BY <1>5, HomeDistance, IndexInWheel
  <2>2. /\ temporaryQuantum' = temporaryQuantum
        /\ \A q \in Quanta : timeTable'[q] =
              IF q = IndexQuantum(e) THEN timeTable[q] \union {e} ELSE timeTable[q]
    BY <1>5, <2>1 DEF Activate, TypeOK
  <2>3. \A t : t \in Countdown' <=> t \in Countdown \/ t = new
    <3>1. ASSUME NEW t \in [event : AcceptedEvent, left : 1 .. MaxQuantum + 1]
          PROVE  (t.event = e /\ t.left = LeftAt(IndexQuantum(e))) <=> t = new
      BY <2>1
    <3>2. ASSUME NEW t \in [event : AcceptedEvent, left : 1 .. MaxQuantum + 1]
          PROVE  (\E q \in Quanta : t.event \in timeTable'[q] /\ t.left = LeftAt(q))
                 <=> \/ \E q \in Quanta : t.event \in timeTable[q] /\ t.left = LeftAt(q)
                     \/ t = new
      BY <2>1, <2>2, <3>1
    <3>3. QED BY <1>2, <1>3, <2>2, <3>2 DEF Countdown
  <2>4. Countdown' = Countdown \union {new}
    BY <2>3
  <2>5. QED BY <1>1, <1>2, <2>4 DEF Abstract!Activate, Abstract!Steps, Steps
<1>6. QED BY <1>4, <1>5

LEMMA CancelRefines ==
    ASSUME TypeOK, WheelMatchesEvents, NEW id \in Ids, Cancel(id)
    PROVE  Abstract!Cancel(id)
<1>1. id \in Abstract!ArmedIds
  BY ArmedIsActive DEF Cancel
<1>2. /\ currentQuantum' = currentQuantum /\ notified' = notified
      /\ \A q \in Quanta : LeftAt(q)' = LeftAt(q)
  BY DEF Cancel, LeftAt
<1>3. /\ \A q \in Quanta : timeTable'[q] = {e \in timeTable[q] : e.id # id}
      /\ temporaryQuantum' = {e \in temporaryQuantum : e.id # id}
  <2>1. events[id] \in Quanta
    BY DEF Cancel, TypeOK
  <2>2. ASSUME NEW q \in Quanta PROVE timeTable'[q] = {e \in timeTable[q] : e.id # id}
    <3>1. CASE q = events[id]
      BY <2>1, <3>1 DEF Cancel, TypeOK, Without
    <3>2. CASE q # events[id]
      <4>1. timeTable'[q] = timeTable[q]
        BY <2>1, <3>2 DEF Cancel, TypeOK
      <4>2. \A e \in timeTable[q] : e.id # id
        BY <3>2 DEF WheelMatchesEvents, EveryNodeIsLocated
      <4>3. QED BY <4>1, <4>2
    <3>3. QED BY <3>1, <3>2
  <2>3. QED BY <2>2 DEF Cancel, Without
<1>4. \A t : t \in Countdown' <=> t \in Countdown /\ t.event.id # id
  BY <1>2, <1>3 DEF Countdown
<1>5. Countdown' = {t \in Countdown : t.event.id # id}
  BY <1>4
<1>6. QED BY <1>1, <1>2, <1>5 DEF Abstract!Cancel

LEMMA ConsumeRefines ==
    ASSUME TypeOK, WheelMatchesEvents, ConsumeTick
    PROVE  Abstract!Tick
<1> DEFINE Armed == [event : AcceptedEvent, left : 1 .. MaxQuantum + 1]
           Due == {t \in Countdown : t.left = 1}
           Nearer == {[event |-> t.event, left |-> t.left - 1] : t \in Countdown \ Due}
           Again == {[event |-> t.event, left |-> Steps(t.event)] :
                        t \in {d \in Due : d.event.periodical}}
<1>1. /\ temporaryQuantum' = {}
      /\ currentQuantum \in Quanta
      /\ MaxQuantum \in Nat \ {0}
      /\ \A q \in Quanta : timeTable'[q] = QuantumAfterTick(q)
      /\ timeTable \in [Quanta -> SUBSET AcceptedEvent]
      /\ temporaryQuantum \subseteq AcceptedEvent
  BY WheelSize DEF ConsumeTick, TypeOK
<1>2. \A t : t \in Due <=> /\ t \in Armed /\ t.left = 1
                          /\ t.event \in TimedOut
  BY <1>1, LeftAtRange DEF Countdown, TimedOut
<1>3. \A e \in TimedOut : e \in AcceptedEvent /\ [event |-> e, left |-> 1] \in Due
  BY <1>1, <1>2 DEF TimedOut
<1>4. notified' = {t.event : t \in Due}
  <2>1. \A e : e \in TimedOut <=> \E t \in Due : t.event = e
    BY <1>2, <1>3
  <2>2. notified' = TimedOut
    BY DEF ConsumeTick
  <2> HIDE DEF Due
  <2>3. QED BY <2>1, <2>2
<1>5. \A t : t \in Nearer <=>
          /\ t \in Armed
          /\ \/ \E q \in Quanta \ {currentQuantum} :
                    t.event \in timeTable[q] /\ t.left = LeftAfterTick(q)
             \/ t.event \in temporaryQuantum /\ t.left = LeftAfterTick(currentQuantum)
  <2>1. ASSUME NEW d \in Countdown \ Due
        PROVE  LET t == [event |-> d.event, left |-> d.left - 1] IN
               /\ t \in Armed
               /\ \/ \E q \in Quanta \ {currentQuantum} :
                         t.event \in timeTable[q] /\ t.left = LeftAfterTick(q)
                  \/ t.event \in temporaryQuantum /\ t.left = LeftAfterTick(currentQuantum)
    <3>1. d \in Armed /\ d.left - 1 \in 1 .. MaxQuantum + 1
      BY <1>1 DEF Countdown
    <3>2. CASE d.event \in temporaryQuantum /\ d.left = MaxQuantum + 1
      BY <1>1, <3>1, <3>2 DEF LeftAfterTick
    <3>3. CASE \E q \in Quanta : d.event \in timeTable[q] /\ d.left = LeftAt(q)
      <4>1. PICK q \in Quanta : d.event \in timeTable[q] /\ d.left = LeftAt(q)
        BY <3>3
      <4>2. q # currentQuantum
        BY <4>1, <3>1, LeftAtRange
      <4>3. LeftAfterTick(q) = d.left - 1
        BY <4>1, <4>2 DEF LeftAfterTick
      <4>4. QED BY <3>1, <4>1, <4>2, <4>3
    <3>4. QED BY <3>2, <3>3 DEF Countdown
  <2>2. ASSUME NEW t \in Armed, NEW q \in Quanta \ {currentQuantum},
               t.event \in timeTable[q], t.left = LeftAfterTick(q)
        PROVE  t \in Nearer
    <3>1. LeftAfterTick(q) = LeftAt(q) - 1 /\ LeftAt(q) \in 1 .. MaxQuantum /\ LeftAt(q) # 1
      BY LeftAtRange DEF LeftAfterTick
    <3>2. PICK d : d = [event |-> t.event, left |-> LeftAt(q)]
      OBVIOUS
    <3>3. d \in Armed
      BY <3>1, <3>2, <1>1
    <3>4. d \in Countdown \ Due
      BY <2>2, <3>1, <3>2, <3>3 DEF Countdown
    <3>5. t = [event |-> d.event, left |-> d.left - 1]
      BY <2>2, <3>1, <3>2
    <3>6. QED BY <3>4, <3>5
  <2>3. ASSUME NEW t \in Armed, t.event \in temporaryQuantum,
               t.left = LeftAfterTick(currentQuantum)
        PROVE  t \in Nearer
    <3>1. LeftAfterTick(currentQuantum) = MaxQuantum
      BY <1>1 DEF LeftAfterTick
    <3>2. PICK d : d = [event |-> t.event, left |-> MaxQuantum + 1]
      OBVIOUS
    <3>3. d \in Armed /\ d.left # 1
      BY <3>2, <1>1
    <3>4. d \in Countdown \ Due
      BY <2>3, <3>2, <3>3 DEF Countdown
    <3>5. t = [event |-> d.event, left |-> d.left - 1]
      BY <2>3, <3>1, <3>2, <1>1
    <3>6. QED BY <3>4, <3>5
  <2>4. QED BY <2>1, <2>2, <2>3
<1>6. \A t : t \in Again <=>
          /\ t \in Armed
          /\ \E q \in Quanta : /\ t.event \in Restored /\ IndexQuantum(t.event) = q
                              /\ t.left = LeftAfterTick(q)
  <2>1. ASSUME NEW e \in Restored
        PROVE  /\ IndexQuantum(e) \in Quanta
               /\ LeftAfterTick(IndexQuantum(e)) = Steps(e)
               /\ Steps(e) \in 1 .. MaxQuantum + 1
               /\ e \in AcceptedEvent
    <3>1. e \in AcceptedEvent
      BY <1>1 DEF Restored, TimedOut
    <3>2. IndexQuantum(e) \in Quanta /\ Steps(e) \in 1 .. MaxQuantum
      BY <3>1, IndexInWheel, StepsInRange
    <3>3. QED BY <1>1, <3>1, <3>2, HomeDistance DEF LeftAfterTick
  <2>2. \A e : e \in Restored <=>
           \E d \in Due : d.event.periodical /\ d.event = e
    BY <1>2, <1>3 DEF Restored
  <2>3. QED BY <2>1, <2>2
<1>7. \A t : t \in Countdown' <=> t \in Nearer \/ t \in Again
  BY <1>1, <1>5, <1>6, WheelTurns DEF Countdown, QuantumAfterTick
<1>8. Countdown' = Nearer \union Again
  <2> HIDE DEF Nearer, Again
  <2> QED BY <1>7
<1>9. QED
  BY <1>4, <1>8 DEF Abstract!Tick, Abstract!Due, Abstract!Steps, Steps

(* The timing wheel implements the countdown timers: every step of the     *)
(* service is a step of Timers or changes nothing a client sees.           *)
THEOREM WheelImplementsTimers == Spec => ImplementsTimers
<1>1. Init => Abstract!Init
  BY DEF Init, Abstract!Init, Countdown
<1>2. TypeOK /\ TypeOK' /\ WheelMatchesEvents /\ [Next]_vars
         => [Abstract!Next]_(Abstract!vars)
  <2> SUFFICES ASSUME TypeOK, TypeOK', WheelMatchesEvents, [Next]_vars
               PROVE  Abstract!Next \/ UNCHANGED Abstract!vars
    OBVIOUS
  <2>1. CASE \E e \in AcceptedEvent : Activate(e)
    BY <2>1, ActivateRefines
       DEF Abstract!Next, Abstract!AcceptedEvent, AcceptedEvent,
           Abstract!TimeEvent, TimeEvent, Abstract!InRange, InRange
  <2>2. CASE \E id \in Ids : Cancel(id)
    BY <2>2, CancelRefines DEF Abstract!Next
  <2>3. CASE ConsumeTick
    BY <2>3, ConsumeRefines DEF Abstract!Next
  <2>4. CASE Produce \/ WakeUp \/ Wait \/ UNCHANGED vars
    BY <2>4 DEF Produce, WakeUp, Wait, vars, Abstract!vars, Countdown, LeftAt
  <2>5. QED BY <2>1, <2>2, <2>3, <2>4 DEF Next
<1>3. QED
  BY <1>1, <1>2, TypeCorrect, WheelAndEventsAgree, PTL
     DEF Spec, ImplementsTimers, Abstract!Spec

-----------------------------------------------------------------------------
(***************************************************************************)
(* The clock.  What an active event has aged and what is left of it add up *)
(* to the same from the activation to the notification: the ticks that its *)
(* duration asks for and, at most, the one under way.                      *)
(***************************************************************************)

(* The milliseconds to the instant at which the tick is due that a timer   *)
(* with so many ticks left waits for.                                      *)
UntilTick(left) == DueIn + (left * Resolution - Resolution)

(* What a timer ages to when its tick comes at the instant it is due.      *)
OnTime(e, elapsed) ==
    /\ Steps(e) * Resolution - MaxLate <= elapsed
    /\ elapsed <= Steps(e) * Resolution + Resolution

(* The same when the tick is drained: late, but not by more than MaxLate.  *)
NotTooLate(e, elapsed) ==
    /\ Steps(e) * Resolution - MaxLate <= elapsed
    /\ elapsed <= Steps(e) * Resolution + Resolution + MaxLate

Clocked ==
    /\ msToWait \in -MaxDelay .. Resolution
    /\ DueIn >= -MaxLate
    /\ DOMAIN age = DOMAIN events
    /\ \A id \in DOMAIN age : age[id] \in Nat

Scheduled ==
    \A t \in Countdown : OnTime(t.event, age[t.event.id] + UntilTick(t.left))

FiredOnTime ==
    /\ fired \subseteq AcceptedEvent \X Nat
    /\ \A f \in fired : NotTooLate(f[1], f[2])

ClockInd == TypeOK /\ WheelMatchesEvents /\ Clocked /\ Scheduled /\ FiredOnTime

(* The rounding of timeout / resolution. *)
LEMMA StepsTime ==
    ASSUME NEW e \in AcceptedEvent
    PROVE  /\ e.timeout \in Nat /\ e.timeout <= MaxTime
           /\ Steps(e) * Resolution \in Nat
           /\ Steps(e) * Resolution <= e.timeout
           /\ e.timeout < Steps(e) * Resolution + Resolution
           /\ e.timeout % Resolution = 0 => Steps(e) * Resolution = e.timeout
<1>1. e.timeout \in Nat /\ e.timeout <= MaxTime /\ Resolution \in Nat \ {0}
  BY TimesAssumption DEF AcceptedEvent, InRange, TimeEvent
<1>2. ASSUME NEW n \in Nat, NEW r \in Nat \ {0}
      PROVE  /\ (n \div r) * r \in Nat
             /\ (n \div r) * r <= n /\ n < (n \div r) * r + r
             /\ n % r = 0 => (n \div r) * r = n
  OBVIOUS
<1>3. QED BY <1>1, <1>2 DEF Steps

(* Whole quanta, in milliseconds. *)
LEMMA TurnTime ==
    ASSUME NEW n \in Nat
    PROVE  /\ n * Resolution \in Nat
           /\ (n + 1) * Resolution = n * Resolution + Resolution
           /\ n >= 1 => n * Resolution >= Resolution
<1>1. Resolution \in Nat
  BY TimesAssumption
<1>2. n >= 1 => n * Resolution >= Resolution
  <2>1. CASE n >= 1
    <3>1. PICK m \in Nat : n = m + 1
      BY <2>1
    <3>2. n * Resolution = m * Resolution + Resolution /\ m * Resolution >= 0
      BY <1>1, <3>1
    <3>3. QED BY <1>1, <3>2
  <2>2. QED BY <2>1
<1>3. QED BY <1>1, <1>2

(* When ticks wait in the queue the first of them has been due.            *)
LEMMA TicksAreDue ==
    ASSUME ClockInd
    PROVE  /\ msToWait \in Int /\ Resolution \in Nat \ {0} /\ MaxLate \in Nat
           /\ ticks \in Nat /\ ticks * Resolution \in Nat
           /\ DueIn \in Int /\ DueIn >= -MaxLate /\ DueIn <= Resolution
           /\ ticks > 0 => DueIn <= 0
<1>1. /\ msToWait \in Int /\ msToWait <= Resolution
      /\ Resolution \in Nat \ {0} /\ MaxLate \in Nat /\ MaxDelay \in Nat
      /\ DueIn >= -MaxLate
  BY TimesAssumption, LatenessAssumption DEF ClockInd, Clocked
<1>2. ticks \in Nat
  BY MaxTicksAssumption DEF ClockInd, TypeOK
<1>3. ticks * Resolution \in Nat /\ (ticks >= 1 => ticks * Resolution >= Resolution)
  BY <1>2, TurnTime
<1>4. QED BY <1>1, <1>2, <1>3 DEF DueIn

(* No event outlives its duration by more than a quantum and the lateness. *)
LEMMA AgeIsBounded ==
    ASSUME ClockInd, NEW id \in DOMAIN events
    PROVE  age[id] \in 0 .. Oldest
<1>1. PICK t \in Countdown : t.event.id = id
  BY ArmedIsActive DEF Abstract!ArmedIds, ClockInd
<1>2. t.event \in AcceptedEvent /\ t.left \in 1 .. MaxQuantum + 1
  BY DEF Countdown
<1>3. t.left \in Nat /\ t.left >= 1
  BY <1>2, WheelSize
<1>4. t.left * Resolution \in Nat /\ t.left * Resolution >= Resolution
  BY <1>3, TurnTime
<1>5. UntilTick(t.left) \in Int /\ UntilTick(t.left) >= -MaxLate
  BY <1>4, TicksAreDue DEF UntilTick
<1>6. age[id] \in Nat
  BY DEF ClockInd, Clocked
<1>7. age[id] + UntilTick(t.left) <= Steps(t.event) * Resolution + Resolution
  BY <1>1 DEF ClockInd, Scheduled, OnTime
<1>8. QED
  BY <1>2, <1>5, <1>6, <1>7, StepsTime, TimesAssumption, LatenessAssumption DEF Oldest

(* The ids and the nodes of a step of the wheel, which the clock adds to.  *)
LEMMA WheelOfClockStep ==
    ASSUME TypeOK, WheelMatchesEvents, [Next]_vars
    PROVE  TypeOK' /\ WheelMatchesEvents'
<1>1. TypeOK'
  BY TypeStep
<1>2. QED
  BY <1>1, ActivateKeepsWheel, CancelKeepsWheel, ConsumeKeepsWheel
     DEF Next, Produce, WakeUp, Wait, vars, WheelMatchesEvents, EveryNodeIsLocated,
         EveryLocationHasANode, OneNodePerEvent

LEMMA ClockActivateKeeps ==
    ASSUME ClockInd, NEW e \in AcceptedEvent, ClockActivate(e)
    PROVE  Clocked' /\ Scheduled' /\ FiredOnTime'
<1> DEFINE new == [event |-> e, left |-> Steps(e) + 1]
<1>1. /\ Activate(e) /\ UNCHANGED <<msToWait, ticks>> /\ fired' = {}
      /\ DOMAIN events' = DOMAIN events \union {e.id}
      /\ e.id \in Ids /\ e.id \notin DOMAIN events
  BY DEF ClockActivate, Activate, AcceptedEvent, TimeEvent
<1>2. /\ DOMAIN age' = DOMAIN events'
      /\ age'[e.id] = 0
      /\ \A id \in DOMAIN events : age'[id] = age[id]
  BY <1>1 DEF ClockActivate, AgeAfter, ClockInd, TypeOK
<1>3. Clocked'
  BY <1>1, <1>2 DEF Clocked, ClockInd, DueIn
<1>4. Countdown' = Countdown \union {new}
  <2>1. TypeOK'
    BY <1>1, TypeStep DEF ClockInd, Next
  <2>2. Abstract!Activate(e)
    BY <1>1, <2>1, ActivateRefines DEF ClockInd
  <2>3. QED BY <2>2 DEF Abstract!Activate, Abstract!Steps, Steps
<1>5. ASSUME NEW t \in Countdown
      PROVE  OnTime(t.event, age'[t.event.id] + UntilTick(t.left)')
  <2>1. t.event.id \in DOMAIN events
    BY ArmedIsActive DEF Abstract!ArmedIds, ClockInd
  <2>2. UntilTick(t.left)' = UntilTick(t.left)
    BY <1>1 DEF UntilTick, DueIn
  <2>3. QED BY <1>2, <2>1, <2>2 DEF ClockInd, Scheduled
<1>6. OnTime(e, 0 + UntilTick(Steps(e) + 1)')
  <2>1. Steps(e) \in Nat /\ Resolution \in Nat \ {0}
    BY StepsInRange, WheelSize, TimesAssumption
  <2>2. (Steps(e) + 1) * Resolution = Steps(e) * Resolution + Resolution
    BY <2>1, TurnTime
  <2>3. Steps(e) * Resolution \in Nat
    BY <2>1, TurnTime
  <2>4. UntilTick(Steps(e) + 1)' = DueIn + ((Steps(e) + 1) * Resolution - Resolution)
    BY <1>1 DEF UntilTick, DueIn, Steps
  <2>5. QED BY <2>1, <2>2, <2>3, <2>4, TicksAreDue DEF OnTime
<1>7. Scheduled'
  BY <1>2, <1>4, <1>5, <1>6 DEF Scheduled, OnTime
<1>8. FiredOnTime'
  BY <1>1 DEF FiredOnTime
<1>9. QED BY <1>3, <1>7, <1>8

LEMMA ClockCancelKeeps ==
    ASSUME ClockInd, NEW id \in Ids, ClockCancel(id)
    PROVE  Clocked' /\ Scheduled' /\ FiredOnTime'
<1>1. /\ Cancel(id) /\ UNCHANGED <<msToWait, ticks>> /\ fired' = {}
      /\ DOMAIN events' = DOMAIN events \ {id}
  BY DEF ClockCancel, Cancel
<1>2. /\ DOMAIN age' = DOMAIN events'
      /\ \A other \in DOMAIN events' : age'[other] = age[other]
  BY <1>1 DEF ClockCancel, AgeAfter
<1>3. Clocked'
  BY <1>1, <1>2 DEF Clocked, ClockInd, DueIn
<1>4. Countdown' = {t \in Countdown : t.event.id # id}
  BY <1>1, CancelRefines DEF ClockInd, Abstract!Cancel
<1>5. ASSUME NEW t \in Countdown'
      PROVE  OnTime(t.event, age'[t.event.id] + UntilTick(t.left)')
  <2>1. t \in Countdown /\ t.event.id \in DOMAIN events'
    BY <1>1, <1>4, ArmedIsActive DEF Abstract!ArmedIds, ClockInd
  <2>2. UntilTick(t.left)' = UntilTick(t.left)
    BY <1>1 DEF UntilTick, DueIn
  <2>3. QED BY <1>2, <2>1, <2>2 DEF ClockInd, Scheduled
<1>6. Scheduled'
  BY <1>5 DEF Scheduled, OnTime
<1>7. FiredOnTime'
  BY <1>1 DEF FiredOnTime
<1>8. QED BY <1>3, <1>6, <1>7

(* A millisecond more of age is one less to go.                            *)
LEMMA ElapseKeeps ==
    ASSUME ClockInd, Elapse
    PROVE  Clocked' /\ Scheduled' /\ FiredOnTime'
<1>1. /\ UNCHANGED <<timeTable, currentQuantum, temporaryQuantum, events, ticks>>
      /\ fired' = {} /\ msToWait' = msToWait - 1
      /\ msToWait - 1 >= -MaxDelay /\ DueIn - 1 >= -MaxLate
  BY DEF Elapse, MayPass, vars
<1>2. DueIn' = DueIn - 1
  BY <1>1, TicksAreDue DEF DueIn
<1>3. /\ DOMAIN age' = DOMAIN age /\ DOMAIN age = DOMAIN events
      /\ \A id \in DOMAIN age : age'[id] = age[id] + 1
  <2>1. DOMAIN age' = DOMAIN age /\ \A id \in DOMAIN age : age'[id] = Older(age[id], 1)
    BY DEF Elapse
  <2>2. DOMAIN age = DOMAIN events
    BY DEF ClockInd, Clocked
  <2>3. \A id \in DOMAIN age : Older(age[id], 1) = age[id] + 1
    <3> SUFFICES ASSUME NEW id \in DOMAIN age PROVE Older(age[id], 1) = age[id] + 1
      OBVIOUS
    <3>1. PICK n \in 0 .. Oldest : n = age[id]
      BY <2>2, AgeIsBounded
    <3>2. Oldest \in Nat
      BY TimesAssumption, LatenessAssumption DEF Oldest
    <3>3. QED BY <3>1, <3>2 DEF Older
  <2>4. QED BY <2>1, <2>2, <2>3
<1>4. Clocked'
  <2>1. msToWait' \in -MaxDelay .. Resolution
    BY <1>1, TimesAssumption, LatenessAssumption DEF ClockInd, Clocked
  <2>2. \A id \in DOMAIN age' : age'[id] \in Nat
    BY <1>3 DEF ClockInd, Clocked
  <2>3. DueIn' >= -MaxLate
    BY <1>1, <1>2
  <2>4. QED BY <1>1, <1>3, <2>1, <2>2, <2>3 DEF Clocked
<1>5. Countdown' = Countdown
  BY <1>1 DEF Countdown, LeftAt
<1>6. ASSUME NEW t \in Countdown
      PROVE  OnTime(t.event, age'[t.event.id] + UntilTick(t.left)')
  <2>1. t.event.id \in DOMAIN age
    BY <1>3, ArmedIsActive DEF Abstract!ArmedIds, ClockInd
  <2>2. age[t.event.id] \in Nat /\ age'[t.event.id] = age[t.event.id] + 1
    BY <1>3, <2>1 DEF ClockInd, Clocked
  <2>3. t.left * Resolution \in Nat
    BY WheelSize, TurnTime DEF Countdown
  <2>4. UntilTick(t.left)' = DueIn' + (t.left * Resolution - Resolution)
    BY DEF UntilTick
  <2>5. PICK a \in Nat, n \in Nat : a = age[t.event.id] /\ n = t.left * Resolution
    BY <2>2, <2>3
  <2>6. (a + 1) + ((DueIn - 1) + (n - Resolution)) = a + (DueIn + (n - Resolution))
    BY TicksAreDue
  <2>7. age'[t.event.id] + UntilTick(t.left)' = age[t.event.id] + UntilTick(t.left)
    BY <1>2, <2>2, <2>4, <2>5, <2>6 DEF UntilTick
  <2>8. QED BY <2>7 DEF ClockInd, Scheduled
<1>7. Scheduled'
  BY <1>5, <1>6 DEF Scheduled, OnTime
<1>8. FiredOnTime'
  BY <1>1 DEF FiredOnTime
<1>9. QED BY <1>4, <1>7, <1>8

(* A round moves the instant of the next tick by a resolution, from when   *)
(* this one was due and not from when it was late.                         *)
LEMMA ClockProduceKeeps ==
    ASSUME ClockInd, ClockProduce
    PROVE  Clocked' /\ Scheduled' /\ FiredOnTime'
<1>1. /\ UNCHANGED <<timeTable, currentQuantum, temporaryQuantum, events, age>>
      /\ fired' = {} /\ ticks' = ticks + 1
      /\ msToWait <= 0 /\ msToWait' = msToWait + Resolution
  BY DEF ClockProduce, Produce, Corrected
<1>2. DueIn' = DueIn
  <2>1. PICK n \in Nat : n = ticks
    BY TicksAreDue
  <2>2. (n + 1) * Resolution = n * Resolution + Resolution /\ n * Resolution \in Nat
    BY TurnTime
  <2>3. DueIn' = msToWait' - ticks' * Resolution
    BY DEF DueIn
  <2>4. ticks' * Resolution = (n + 1) * Resolution /\ ticks * Resolution = n * Resolution
    BY <1>1, <2>1
  <2>5. QED BY <1>1, <2>2, <2>3, <2>4, TicksAreDue DEF DueIn
<1>3. Clocked'
  <2>1. msToWait' \in -MaxDelay .. Resolution
    BY <1>1, TimesAssumption, LatenessAssumption DEF ClockInd, Clocked
  <2>2. QED BY <1>1, <1>2, <2>1 DEF ClockInd, Clocked
<1>4. Countdown' = Countdown
  BY <1>1 DEF Countdown, LeftAt
<1>5. Scheduled'
  BY <1>1, <1>2, <1>4 DEF ClockInd, Scheduled, OnTime, UntilTick
<1>6. QED BY <1>1, <1>3, <1>5 DEF FiredOnTime

(* What a tick notifies has no more to wait for; what it restores has the  *)
(* ticks of its duration, from now on.                                     *)
LEMMA ClockConsumeKeeps ==
    ASSUME ClockInd, ClockConsumeTick
    PROVE  Clocked' /\ Scheduled' /\ FiredOnTime'
<1>1. /\ ConsumeTick /\ ticks > 0 /\ ticks' = ticks - 1
      /\ DOMAIN events' = (DOMAIN events \ IdsOf(TimedOut)) \union IdsOf(Restored)
      /\ fired' = {<<e, age[e.id]>> : e \in TimedOut}
  BY DEF ClockConsumeTick, ConsumeTick
<1>20. PICK busy \in 0 .. MaxLate :
          /\ MayPass(busy)
          /\ msToWait' = msToWait - busy
          /\ \E stored \in [IdsOf(Restored) -> 0 .. busy] :
                age' = AgeAfter([id \in Ids |->
                                    IF id \in IdsOf(Restored) THEN stored[id]
                                    ELSE Older(age[id], busy)])
  BY DEF ClockConsumeTick
<1>21. PICK stored \in [IdsOf(Restored) -> 0 .. busy] :
          age' = AgeAfter([id \in Ids |->
                              IF id \in IdsOf(Restored) THEN stored[id]
                              ELSE Older(age[id], busy)])
  BY <1>20
<1>22. /\ busy \in Nat /\ busy <= MaxLate
       /\ msToWait - busy >= -MaxDelay /\ DueIn - busy >= -MaxLate
  BY <1>20, LatenessAssumption DEF MayPass
<1>23. DueIn' = (DueIn + Resolution) - busy /\ DueIn <= 0
  <2>1. ticks - 1 \in Nat /\ ticks = (ticks - 1) + 1
    BY <1>1, TicksAreDue
  <2>. DEFINE n == ticks - 1
  <2>2. (n + 1) * Resolution = n * Resolution + Resolution /\ n * Resolution \in Nat
    BY <2>1, TurnTime
  <2>3. DueIn' = msToWait' - ticks' * Resolution
    BY DEF DueIn
  <2>4. ticks' = n
    BY <1>1, <2>1
  <2>5. ticks' * Resolution = n * Resolution /\ ticks * Resolution = (n + 1) * Resolution
    BY <2>1, <2>4, TicksAreDue
  <2>6. DueIn = msToWait - ticks * Resolution
    BY DEF DueIn
  <2>7. QED BY <1>1, <1>20, <1>22, <2>2, <2>3, <2>5, <2>6, TicksAreDue
<1>2. /\ TimedOut \subseteq AcceptedEvent /\ Restored \subseteq TimedOut
      /\ IdsOf(Restored) \subseteq Ids
      /\ \A e \in TimedOut : e.id \in DOMAIN events
      /\ \A e, f \in TimedOut : e.id = f.id => e = f
  <2>1. TimedOut \subseteq AcceptedEvent /\ Restored \subseteq TimedOut
    BY DEF TimedOut, Restored, ClockInd, TypeOK
  <2>2. IdsOf(Restored) \subseteq Ids
    BY <2>1 DEF IdsOf, AcceptedEvent, TimeEvent
  <2>3. currentQuantum \in Quanta
    BY DEF ClockInd, TypeOK
  <2>4. QED
    BY <2>1, <2>2, <2>3
       DEF TimedOut, ClockInd, WheelMatchesEvents, EveryNodeIsLocated, OneNodePerEvent
<1>3. /\ DOMAIN age' = DOMAIN events' /\ DOMAIN age = DOMAIN events
      /\ \A id \in DOMAIN events' :
            age'[id] = IF id \in IdsOf(Restored) THEN stored[id]
                       ELSE Older(age[id], busy)
      /\ \A id \in IdsOf(Restored) : stored[id] \in Nat /\ stored[id] <= busy
      /\ \A id \in DOMAIN events : age[id] \in Nat
      /\ DOMAIN events' \subseteq Ids
  <2>1. DOMAIN events' \subseteq Ids
    BY <1>1, <1>2 DEF ClockInd, TypeOK
  <2>2. DOMAIN age = DOMAIN events /\ \A id \in DOMAIN events : age[id] \in Nat
    BY DEF ClockInd, Clocked
  <2>3. \A id \in IdsOf(Restored) : stored[id] \in Nat /\ stored[id] <= busy
    BY <1>22
  <2>4. QED BY <1>21, <2>1, <2>2, <2>3 DEF AgeAfter
<1>4. Clocked'
  <2>1. ASSUME NEW id \in DOMAIN events' PROVE age'[id] \in Nat
    <3>1. CASE id \in IdsOf(Restored)
      BY <1>3, <3>1
    <3>2. CASE id \notin IdsOf(Restored)
      <4>1. id \in DOMAIN events
        BY <1>1, <3>2
      <4>2. PICK n \in Nat : n = age[id]
        BY <1>3, <4>1
      <4>3. Oldest \in Nat
        BY TimesAssumption, LatenessAssumption DEF Oldest
      <4>4. Older(n, busy) \in Nat
        BY <1>22, <4>3 DEF Older
      <4>5. QED BY <1>3, <3>2, <4>2, <4>4
    <3>3. QED BY <3>1, <3>2
  <2>2. msToWait' \in -MaxDelay .. Resolution
    BY <1>20, <1>22, TimesAssumption, LatenessAssumption DEF ClockInd, Clocked
  <2>3. DueIn' >= -MaxLate
    BY <1>22, <1>23, TicksAreDue
  <2>4. QED BY <1>3, <2>1, <2>2, <2>3 DEF Clocked
<1>5. ASSUME NEW e \in TimedOut PROVE NotTooLate(e, age[e.id])
  <2>1. [event |-> e, left |-> 1] \in Countdown
    <3>1. currentQuantum \in Quanta /\ LeftAt(currentQuantum) = 1
      BY LeftAtRange DEF ClockInd, TypeOK
    <3>2. 1 \in 1 .. MaxQuantum + 1
      BY WheelSize
    <3>3. QED BY <1>2, <3>1, <3>2 DEF Countdown, TimedOut
  <2>2. UntilTick(1) = DueIn
    BY TicksAreDue DEF UntilTick
  <2>3. OnTime(e, age[e.id] + DueIn)
    BY <2>1, <2>2 DEF ClockInd, Scheduled
  <2>4. PICK n \in Nat : n = age[e.id]
    BY <1>2, <1>3
  <2>5. e \in AcceptedEvent
    BY <1>2
  <2>6. PICK m \in Nat : m = Steps(e) * Resolution
    BY <2>5, StepsTime
  <2>7. QED BY <1>23, <2>3, <2>4, <2>6, TicksAreDue DEF OnTime, NotTooLate
<1>6. FiredOnTime'
  <2>1. \A e \in TimedOut : age[e.id] \in Nat
    BY <1>2, <1>3
  <2>2. fired' \subseteq AcceptedEvent \X Nat
    BY <1>1, <1>2, <2>1
  <2>3. \A f \in fired' : NotTooLate(f[1], f[2])
    BY <1>1, <1>5
  <2>4. QED BY <2>2, <2>3 DEF FiredOnTime, NotTooLate, Steps
<1>7. /\ Countdown' =
            {[event |-> t.event, left |-> t.left - 1] : t \in {d \in Countdown : d.left # 1}}
            \union
            {[event |-> t.event, left |-> Steps(t.event)] :
                t \in {d \in Countdown : d.left = 1 /\ d.event.periodical}}
  <2>1. Abstract!Tick
    BY <1>1, ConsumeRefines DEF ClockInd
  <2>2. QED BY <2>1 DEF Abstract!Tick, Abstract!Due, Abstract!Steps, Steps
<1>8. ASSUME NEW d \in Countdown
      PROVE  /\ d.event \in AcceptedEvent
             /\ d.left \in 1 .. MaxQuantum + 1
             /\ d.left = 1 => d.event \in TimedOut
             /\ d.left # 1 => d.event.id \notin IdsOf(TimedOut)
             /\ d.event.id \in DOMAIN events
             /\ OnTime(d.event, age[d.event.id] + UntilTick(d.left))
  <2>1. d.event \in AcceptedEvent /\ d.left \in 1 .. MaxQuantum + 1
    BY DEF Countdown
  <2>2. d.event.id \in DOMAIN events
    BY ArmedIsActive DEF Abstract!ArmedIds, ClockInd
  <2>3. CASE d.event \in temporaryQuantum /\ d.left = MaxQuantum + 1
    <3>1. d.left # 1
      BY <2>3, WheelSize
    <3>2. currentQuantum \in Quanta
      BY DEF ClockInd, TypeOK
    <3>3. d.event.id \notin IdsOf(TimedOut)
      <4>1. IdsOf(timeTable[currentQuantum]) \intersect IdsOf(temporaryQuantum) = {}
        BY <3>2 DEF ClockInd, WheelMatchesEvents, OneNodePerEvent
      <4>2. d.event.id \in IdsOf(temporaryQuantum)
        BY <2>3 DEF IdsOf
      <4>3. QED BY <4>1, <4>2 DEF TimedOut
    <3>4. QED BY <2>1, <2>2, <3>1, <3>3 DEF ClockInd, Scheduled
  <2>4. CASE \E q \in Quanta : d.event \in timeTable[q] /\ d.left = LeftAt(q)
    <3>1. PICK q \in Quanta : d.event \in timeTable[q] /\ d.left = LeftAt(q)
      BY <2>4
    <3>2. d.left = 1 <=> q = currentQuantum
      BY <3>1, LeftAtRange DEF ClockInd
    <3>3. events[d.event.id] = q
      BY <3>1 DEF ClockInd, WheelMatchesEvents, EveryNodeIsLocated
    <3>4. \A e \in TimedOut : events[e.id] = currentQuantum
      BY DEF ClockInd, TypeOK, WheelMatchesEvents, EveryNodeIsLocated, TimedOut
    <3>5. QED
      BY <2>1, <2>2, <3>1, <3>2, <3>3, <3>4 DEF TimedOut, IdsOf, ClockInd, Scheduled
  <2>5. QED BY <2>3, <2>4 DEF Countdown
<1>9. ASSUME NEW d \in Countdown, d.left # 1
      PROVE  OnTime(d.event, age'[d.event.id] + UntilTick(d.left - 1)')
  <2>1. d.event.id \in DOMAIN events' /\ d.event.id \notin IdsOf(Restored)
    BY <1>1, <1>2, <1>8, <1>9 DEF IdsOf
  <2>2. PICK n \in Nat : d.left = n + 2
    BY <1>8, <1>9, WheelSize
  <2>3. /\ n * Resolution \in Nat
        /\ (n + 1) * Resolution = n * Resolution + Resolution
        /\ ((n + 1) + 1) * Resolution = (n + 1) * Resolution + Resolution
    BY TurnTime
  <2>4. UntilTick(n + 2) = DueIn + (n * Resolution + Resolution)
    <3>1. n + 2 = (n + 1) + 1
      OBVIOUS
    <3>2. UntilTick(n + 2) = DueIn + (((n + 1) + 1) * Resolution - Resolution)
      BY <3>1 DEF UntilTick
    <3>3. QED BY <2>3, <3>2, TicksAreDue
  <2>5. UntilTick(n + 1)' = ((DueIn + Resolution) - busy) + n * Resolution
    <3>1. UntilTick(n + 1)' = DueIn' + ((n + 1) * Resolution - Resolution)
      BY DEF UntilTick
    <3>2. QED BY <1>22, <1>23, <2>3, <3>1, TicksAreDue
  <2>6. PICK a \in Nat : a = age[d.event.id]
    BY <1>3, <1>8
  <2>7. PICK m \in Nat : m = Steps(d.event) * Resolution /\ m <= MaxTime
    BY <1>8, StepsTime, TimesAssumption
  <2>8. m - MaxLate <= a + (DueIn + (n * Resolution + Resolution))
        /\ a + (DueIn + (n * Resolution + Resolution)) <= m + Resolution
    BY <1>8, <2>2, <2>4, <2>6, <2>7 DEF OnTime
  <2>9. a + busy <= Oldest
    BY <1>22, <2>3, <2>7, <2>8, TicksAreDue, TimesAssumption DEF Oldest
  <2>10. age'[d.event.id] = a + busy
    <3>1. age'[d.event.id] = Older(a, busy)
      BY <1>3, <2>1, <2>6
    <3>2. Oldest \in Nat
      BY TimesAssumption, LatenessAssumption DEF Oldest
    <3>3. QED BY <1>22, <2>9, <3>1, <3>2 DEF Older
  <2>11. d.left - 1 = n + 1
    BY <2>2
  <2>12. UntilTick(d.left - 1)' = UntilTick(n + 1)'
    BY <2>11 DEF UntilTick
  <2>13. (a + busy) + (((DueIn + Resolution) - busy) + n * Resolution)
           = a + (DueIn + (n * Resolution + Resolution))
    BY <1>22, <2>3, TicksAreDue
  <2>14. QED BY <2>5, <2>7, <2>8, <2>10, <2>12, <2>13 DEF OnTime
<1>10. ASSUME NEW d \in Countdown, d.left = 1, d.event.periodical
       PROVE  OnTime(d.event, age'[d.event.id] + UntilTick(Steps(d.event))')
  <2>1. d.event \in Restored /\ d.event.id \in IdsOf(Restored)
    BY <1>8, <1>10 DEF Restored, IdsOf
  <2>2. PICK a \in 0 .. busy : age'[d.event.id] = a
    BY <1>1, <1>3, <1>22, <2>1
  <2>3. PICK n \in Nat : n = Steps(d.event)
    BY <1>8, StepsInRange, WheelSize
  <2>4. n * Resolution \in Nat
    BY TurnTime
  <2>5. UntilTick(n)' = ((DueIn + Resolution) - busy) + (n * Resolution - Resolution)
    BY <1>23 DEF UntilTick
  <2>6. UntilTick(Steps(d.event))' = UntilTick(n)'
    BY <2>3 DEF UntilTick, Steps
  <2>7. a \in Nat /\ a <= busy
    BY <1>22, <2>2
  <2>8. QED
    BY <1>22, <1>23, <2>2, <2>3, <2>4, <2>5, <2>6, <2>7, TicksAreDue DEF OnTime
<1>11. Scheduled'
  <2>1. ASSUME NEW t \in Countdown'
        PROVE  OnTime(t.event, age'[t.event.id] + UntilTick(t.left)')
    <3>1. CASE \E d \in Countdown : d.left # 1 /\ t = [event |-> d.event, left |-> d.left - 1]
      BY <1>9, <3>1 DEF UntilTick, DueIn
    <3>2. CASE \E d \in Countdown : /\ d.left = 1 /\ d.event.periodical
                                    /\ t = [event |-> d.event, left |-> Steps(d.event)]
      BY <1>10, <3>2 DEF UntilTick
    <3>3. QED BY <1>7, <3>1, <3>2
  <2>2. QED BY <2>1 DEF Scheduled, OnTime
<1>12. QED BY <1>4, <1>6, <1>11

(* An event is notified within a quantum and MaxLate of its duration, and  *)
(* early by no more than MaxLate when its duration is whole quanta, for    *)
(* rounds of the producer that are late by no more than a resolution:      *)
(* store, the correction of timeToWait in produce, and consume.            *)
THEOREM EventsRunOnTime == ClockSpec => []ClockInvariant
<1>1. ClockInit => ClockInd
  <2> SUFFICES ASSUME ClockInit PROVE ClockInd
    OBVIOUS
  <2>1. Init
    BY DEF ClockInit
  <2>2. TypeOK
    BY <2>1, WheelAtFirst
  <2>3. WheelMatchesEvents
    BY <2>1, <2>2
       DEF Init, TypeOK, WheelMatchesEvents, EveryNodeIsLocated, EveryLocationHasANode,
           OneNodePerEvent, IdsOf
  <2>4. Clocked
    BY <2>1, TimesAssumption, LatenessAssumption DEF ClockInit, Init, Clocked, DueIn
  <2>5. Scheduled /\ FiredOnTime
    BY <2>1, <2>2 DEF ClockInit, Init, Scheduled, FiredOnTime, Countdown
  <2>6. QED BY <2>2, <2>3, <2>4, <2>5 DEF ClockInd
<1>2. ClockInd /\ [ClockNext]_clockVars => ClockInd'
  <2> SUFFICES ASSUME ClockInd, [ClockNext]_clockVars PROVE ClockInd'
    OBVIOUS
  <2>1. [Next]_vars
    <3>1. CASE Elapse
      BY <3>1 DEF Elapse
    <3>2. CASE \E e \in AcceptedEvent : ClockActivate(e)
      BY <3>2 DEF ClockActivate, Next
    <3>3. CASE \E id \in Ids : ClockCancel(id)
      BY <3>3 DEF ClockCancel, Next
    <3>4. CASE ClockConsumeTick
      BY <3>4 DEF ClockConsumeTick, Next
    <3>5. CASE ClockProduce \/ ClockWakeUp \/ ClockWait \/ UNCHANGED clockVars
      BY <3>5 DEF ClockProduce, ClockWakeUp, ClockWait, clockVars, Next
    <3>6. QED BY <3>1, <3>2, <3>3, <3>4, <3>5 DEF ClockNext
  <2>2. TypeOK' /\ WheelMatchesEvents'
    BY <2>1, WheelOfClockStep DEF ClockInd
  <2>3. Clocked' /\ Scheduled' /\ FiredOnTime'
    <3>1. CASE Elapse
      BY <3>1, ElapseKeeps
    <3>2. CASE \E e \in AcceptedEvent : ClockActivate(e)
      BY <3>2, ClockActivateKeeps
    <3>3. CASE \E id \in Ids : ClockCancel(id)
      BY <3>3, ClockCancelKeeps
    <3>4. CASE ClockConsumeTick
      BY <3>4, ClockConsumeKeeps
    <3>5. CASE ClockProduce
      BY <3>5, ClockProduceKeeps
    <3>6. CASE ClockWakeUp \/ ClockWait \/ UNCHANGED clockVars
      <4>1. /\ UNCHANGED <<timeTable, currentQuantum, temporaryQuantum, events, ticks,
                           msToWait, age>>
            /\ fired' = {} \/ fired' = fired
        BY <3>6 DEF ClockWakeUp, ClockWait, WakeUp, Wait, clockVars, vars
      <4>2. Countdown' = Countdown
        BY <4>1 DEF Countdown, LeftAt
      <4>3. FiredOnTime'
        BY <4>1 DEF ClockInd, FiredOnTime, NotTooLate, Steps
      <4>4. Clocked'
        BY <4>1 DEF ClockInd, Clocked, DueIn
      <4>5. Scheduled'
        BY <4>1, <4>2 DEF ClockInd, Scheduled, OnTime, UntilTick, DueIn
      <4>6. QED BY <4>3, <4>4, <4>5
    <3>7. QED BY <3>1, <3>2, <3>3, <3>4, <3>5, <3>6 DEF ClockNext
  <2>4. QED BY <2>2, <2>3 DEF ClockInd
<1>3. ClockInd => ClockInvariant
  <2> SUFFICES ASSUME ClockInd PROVE ClockInvariant
    OBVIOUS
  <2>1. ASSUME NEW f \in fired
        PROVE  /\ f[1] \in AcceptedEvent /\ f[2] \in Nat
               /\ f[1].timeout - Resolution - MaxLate < f[2]
               /\ f[2] <= f[1].timeout + Resolution + MaxLate
               /\ f[1].timeout % Resolution = 0 => f[2] >= f[1].timeout - MaxLate
               /\ f[2] \in 0 .. Oldest
               /\ f = <<f[1], f[2]>>
    <3>1. f[1] \in AcceptedEvent /\ f[2] \in Nat /\ NotTooLate(f[1], f[2]) /\ f = <<f[1], f[2]>>
      BY DEF ClockInd, FiredOnTime
    <3>2. PICK m \in Nat :
            /\ m = Steps(f[1]) * Resolution /\ m <= f[1].timeout
            /\ f[1].timeout < m + Resolution /\ f[1].timeout \in Nat
            /\ f[1].timeout <= MaxTime
            /\ f[1].timeout % Resolution = 0 => m = f[1].timeout
      BY <3>1, StepsTime
    <3>3. m - MaxLate <= f[2] /\ f[2] <= m + Resolution + MaxLate
      BY <3>1, <3>2 DEF NotTooLate
    <3>4. QED BY <3>1, <3>2, <3>3, TimesAssumption, LatenessAssumption DEF Oldest
  <2>2. WithinOneQuantum
    BY <2>1 DEF WithinOneQuantum
  <2>3. fired \subseteq AcceptedEvent \X (0 .. Oldest)
    BY <2>1
  <2>4. \A id \in DOMAIN age : age[id] \in 0 .. Oldest
    BY AgeIsBounded DEF ClockInd, Clocked
  <2>5. QED BY <2>2, <2>3, <2>4 DEF ClockInd, Clocked, ClockTypeOK, ClockInvariant
<1>4. QED BY <1>1, <1>2, <1>3, PTL DEF ClockSpec

-----------------------------------------------------------------------------
(***************************************************************************)
(* The threads and the pace of the producer.  timeToWait is what the last  *)
(* round was late by less than a resolution, in every life of the service. *)
(***************************************************************************)

(* Threads are spawned when those of the life before have been joined.     *)
Lives ==
    /\ owner \in {"idle", "spawn"} => producer = "none" /\ consumer = "none"
    /\ owner = "joinConsumer" => producer = "none"

ThreadsInd == ThreadsTypeOK /\ Lives

(* No round is delayed by more than a resolution: beyond it timeToWait is  *)
(* negative and usleep takes it for more than an hour.                     *)
Punctual == \A d \in Delays : d <= usResolution

Paced ==
    /\ PacingTypeOK
    /\ Lives
    /\ delay <= usResolution
    /\ timeToWait = usResolution - delay
    /\ DelaysDoNotAddUp
    /\ TicksInTime

LEMMA ThreadsAtFirst == ThreadsInit => ThreadsInd
<1> SUFFICES ASSUME ThreadsInit PROVE ThreadsInd
  OBVIOUS
<1>1. queuedTicks \in 0 .. MaxQueuedTicks
  BY ThreadsAssumption DEF ThreadsInit
<1>2. effective \in BOOLEAN
  BY DEF ThreadsInit
<1>3. mutex = "consumer" <=> consumer \in {"check", "towait", "drain"}
  BY DEF ThreadsInit
<1>4. QED
  BY <1>1, <1>2, <1>3
     DEF ThreadsInit, ThreadsInd, ThreadsTypeOK, Lives, OwnerPc, ProducerPc, ConsumerPc

LEMMA ThreadsStep == ThreadsInd /\ [ThreadsNext]_threads => ThreadsInd'
<1> SUFFICES ASSUME ThreadsInd, [ThreadsNext]_threads PROVE ThreadsInd'
  OBVIOUS
<1> USE ThreadsAssumption DEF ThreadsInd, ThreadsTypeOK, Lives, OwnerPc, ProducerPc, ConsumerPc
<1>1. CASE Owner
  BY <1>1 DEF Owner, StatusStarting, Spawn, StatusRunning, StatusStopped, ClearTicks,
              NotifyAll, JoinProducer, JoinConsumer
<1>2. CASE NotifyEffectiveRunning
  <2>1. effective' \in BOOLEAN
    BY <1>2 DEF NotifyEffectiveRunning
  <2>2. QED BY <1>2, <2>1 DEF NotifyEffectiveRunning
<1>3. CASE ProducerTests \/ ProducerSleeps \/ PushTick
  BY <1>3 DEF ProducerTests, ProducerSleeps, PushTick, OneMore
<1>4. CASE Consumer
  BY <1>4 DEF Consumer, ConsumerLocks, ConsumerTests, ConsumerWaits, ConsumerRelocks, DrainOne
<1>5. CASE SpuriousWakeUp
  BY <1>5 DEF SpuriousWakeUp
<1>6. CASE UNCHANGED threads
  BY <1>6 DEF threads
<1>7. QED BY <1>1, <1>2, <1>3, <1>4, <1>5, <1>6 DEF ThreadsNext, Producer

(* A round makes up for the delay of the one before.                       *)
LEMMA RoundKeepsPace ==
    ASSUME Punctual, Paced, ThreadsInd', NEW d \in Delays, Round(d)
    PROVE  Paced'
<1>1. /\ usResolution \in Nat \ {0} /\ Word \in Nat /\ usResolution < Word
      /\ d \in Nat /\ d <= usResolution /\ MaxRounds \in Nat
  BY PacingAssumption DEF Punctual
<1>2. /\ delay \in Nat /\ delay <= usResolution /\ timeToWait = usResolution - delay
      /\ tickCounter \in Nat /\ now \in Nat
      /\ now = tickCounter * usResolution + delay
  BY PacingAssumption DEF Paced, PacingTypeOK, DelaysDoNotAddUp
<1>3. Useconds(timeToWait) = usResolution - delay
  <2>1. PICK n \in Nat : n = timeToWait
    BY <1>1, <1>2
  <2>2. n < Word
    BY <1>1, <1>2, <2>1
  <2>3. n % Word = n
    BY <1>1, <2>2
  <2>4. QED BY <1>2, <2>1, <2>3 DEF Useconds
<1>4. PICK elapsed \in Nat : elapsed = usResolution - delay + d
  BY <1>1, <1>2
<1>5. elapsed = Useconds(timeToWait) + d
  BY <1>1, <1>2, <1>3, <1>4
<1>6. /\ tickCounter < MaxRounds /\ tickCounter' = tickCounter + 1
      /\ now' = now + elapsed /\ gap' = elapsed /\ delay' = d
      /\ timeToWait' = timeToWait + (usResolution - elapsed)
  BY <1>5 DEF Round, CorrectedWait
<1>7. timeToWait' = usResolution - d
  BY <1>1, <1>2, <1>4, <1>6
<1>8. now' = (tickCounter + 1) * usResolution + d
  <2>1. (tickCounter + 1) * usResolution = tickCounter * usResolution + usResolution
    BY <1>1, <1>2
  <2>2. tickCounter * usResolution \in Nat
    BY <1>1, <1>2
  <2>3. QED BY <1>1, <1>2, <1>4, <1>6, <2>1, <2>2
<1>9. gap' <= usResolution + d
  BY <1>1, <1>2, <1>4, <1>6
<1>10. PacingTypeOK'
  BY <1>1, <1>2, <1>4, <1>6, <1>7 DEF PacingTypeOK, ThreadsInd
<1>11. QED
  BY <1>1, <1>6, <1>7, <1>8, <1>9, <1>10
     DEF Paced, ThreadsInd, DelaysDoNotAddUp, TicksInTime

(* While no round is delayed by more than a resolution, delays do not add  *)
(* up and ticks come in time: the correction of timeToWait in produce, for *)
(* every resolution and in every life of the service.                      *)
THEOREM ProducerKeepsPace == ASSUME Punctual PROVE PacedSpec => []PacingInvariant
<1>1. PacedInit => Paced
  <2> SUFFICES ASSUME PacedInit PROVE Paced
    OBVIOUS
  <2>1. ThreadsInd
    BY ThreadsAtFirst DEF PacedInit
  <2>2. usResolution \in Nat \ {0} /\ MaxRounds \in Nat /\ Word \in Nat /\ usResolution < Word
    BY PacingAssumption
  <2>3. QED
    BY <2>1, <2>2
       DEF PacedInit, ThreadsInd, Paced, PacingTypeOK, DelaysDoNotAddUp, TicksInTime
<1>2. Paced /\ [PacedNext]_<<threads, pacing>> => Paced'
  <2> SUFFICES ASSUME Paced, [PacedNext]_<<threads, pacing>> PROVE Paced'
    OBVIOUS
  <2>1. ThreadsInd'
    BY ThreadsStep DEF Paced, PacingTypeOK, ThreadsInd, PacedNext, PacedBegin, PacedPush, Producer,
                       ThreadsNext, threads
  <2>2. CASE PacedBegin
    <3>1. usResolution \in Nat \ {0} /\ MaxRounds \in Nat /\ Word \in Nat /\ usResolution < Word
      BY PacingAssumption
    <3>2. QED
      BY <2>1, <2>2, <3>1
         DEF PacedBegin, ThreadsInd, Paced, PacingTypeOK, DelaysDoNotAddUp, TicksInTime
  <2>3. CASE \E d \in Delays : Round(d)
    BY <2>1, <2>3, RoundKeepsPace
  <2>4. CASE UNCHANGED pacing
    BY <2>1, <2>4
       DEF pacing, ThreadsInd, Paced, PacingTypeOK, DelaysDoNotAddUp, TicksInTime
  <2>5. QED BY <2>2, <2>3, <2>4 DEF PacedNext, PacedPush
<1>3. Paced => PacingInvariant
  BY DEF Paced, PacingInvariant
<1>4. QED BY <1>1, <1>2, <1>3, PTL DEF PacedSpec
=============================================================================
