----------------------------- MODULE TimeService -----------------------------
(***************************************************************************)
(* coffee::time::TimeService while it is running: the timing wheel, the    *)
(* operations of its clients and the two threads that drive it.            *)
(*                                                                         *)
(* A quantum is a std::list of events; no client sees the order inside a   *)
(* list, so a quantum is a set.  A Location is a list and an iterator; the *)
(* iterator finds the node wherever splice has taken it, so it is modelled *)
(* by the position of the wheel at which the node expires.                 *)
(*                                                                         *)
(* activate and cancel take the mutex; the consumer owns it from the       *)
(* moment condition.wait returns until it waits again, so nothing          *)
(* interleaves with the ticks it drains (draining).                        *)
(***************************************************************************)
EXTENDS TimeEvents

CONSTANT MaxTicks   \* bound: ticks the producer may be ahead of the consumer

ASSUME MaxTicksAssumption == MaxTicks \in Nat \ {0}

VARIABLES
    timeTable,         \* the wheel
    currentQuantum,    \* position the next tick expires
    temporaryQuantum,  \* events that expire one whole turn from now
    events,            \* id -> Location of every active event
    ticks,             \* length of the queue from producer to consumer
    draining,          \* the consumer owns the mutex
    notified           \* history: the events notified by the last tick

vars == <<timeTable, currentQuantum, temporaryQuantum, events, ticks,
          draining, notified>>

TypeOK ==
    /\ timeTable \in [Quanta -> SUBSET AcceptedEvent]
    /\ currentQuantum \in Quanta
    /\ temporaryQuantum \subseteq AcceptedEvent
    /\ DOMAIN events \subseteq Ids
    /\ events \in [DOMAIN events -> Quanta]
    /\ ticks \in 0 .. MaxTicks
    /\ draining \in BOOLEAN
    /\ notified \subseteq AcceptedEvent

Init ==
    /\ timeTable = [q \in Quanta |-> {}]
    /\ currentQuantum = 0
    /\ temporaryQuantum = {}
    /\ events = [id \in {} |-> 0]
    /\ ticks = 0
    /\ draining = FALSE
    /\ notified = {}

-----------------------------------------------------------------------------
(* The position store computes for an event.  When it is the current one   *)
(* the event goes to temporaryQuantum, since the list of the current       *)
(* position is the one the next tick walks and clears.                     *)
IndexQuantumLate(e) == (currentQuantum + Steps(e) + 1) % MaxQuantum  \* mutant
IndexQuantum(e) == (currentQuantum + Steps(e)) % MaxQuantum

Activate(e) ==
    /\ ~ draining
    /\ e.id \notin DOMAIN events
    /\ IF IndexQuantum(e) = currentQuantum
       THEN /\ temporaryQuantum' = temporaryQuantum \union {e}
            /\ UNCHANGED timeTable
       ELSE /\ timeTable' = [timeTable EXCEPT ![IndexQuantum(e)] = @ \union {e}]
            /\ UNCHANGED temporaryQuantum
    /\ events' = [id \in DOMAIN events \union {e.id} |->
                     IF id = e.id THEN IndexQuantum(e) ELSE events[id]]
    /\ UNCHANGED <<currentQuantum, ticks, draining, notified>>

WithoutNothing(quantum, id) == quantum                          \* mutant
Without(quantum, id) == {e \in quantum : e.id # id}

Cancel(id) ==
    /\ ~ draining
    /\ id \in DOMAIN events
    /\ timeTable' = [timeTable EXCEPT ![events[id]] = Without(@, id)]
    /\ temporaryQuantum' = Without(temporaryQuantum, id)
    /\ events' = [other \in DOMAIN events \ {id} |-> events[other]]
    /\ UNCHANGED <<currentQuantum, ticks, draining, notified>>

(* The producer: one tick per resolution. *)
Produce ==
    /\ ~ draining
    /\ ticks < MaxTicks
    /\ ticks' = ticks + 1
    /\ UNCHANGED <<timeTable, currentQuantum, temporaryQuantum, events,
                   draining, notified>>

(* condition.wait returns: notify_one, or a spurious wake-up. *)
WakeUp ==
    /\ ~ draining
    /\ draining' = TRUE
    /\ UNCHANGED <<timeTable, currentQuantum, temporaryQuantum, events,
                   ticks, notified>>

-----------------------------------------------------------------------------
(* What one tick expires, and what of it is stored again at once. *)
TimedOut == timeTable[currentQuantum]
Restored == {e \in TimedOut : e.periodical}
IdsOf(quantum) == {e.id : e \in quantum}

(* The list an event is found in after the tick: the expired list has been *)
(* cleared and has received temporaryQuantum.                              *)
QuantumNotSpliced(q) ==                                         \* mutant
    (IF q = currentQuantum THEN {} ELSE timeTable[q])
    \union {e \in Restored : IndexQuantum(e) = q}
QuantumAfterTick(q) ==
    (IF q = currentQuantum THEN temporaryQuantum ELSE timeTable[q])
    \union {e \in Restored : IndexQuantum(e) = q}

(* A restored event is erased from events and inserted again. *)
LocationAfterTick(id) ==
    IF \E e \in Restored : e.id = id
    THEN IndexQuantum(CHOOSE e \in Restored : e.id = id)
    ELSE events[id]

ConsumeTick ==
    /\ draining
    /\ ticks > 0
    /\ ticks' = ticks - 1
    /\ notified' = TimedOut
    /\ timeTable' = [q \in Quanta |-> QuantumAfterTick(q)]
    /\ temporaryQuantum' = {}
    /\ events' = [id \in (DOMAIN events \ IdsOf(TimedOut)) \union IdsOf(Restored)
                    |-> LocationAfterTick(id)]
    /\ currentQuantum' =
          IF currentQuantum + 1 = MaxQuantum THEN 0 ELSE currentQuantum + 1
    /\ UNCHANGED draining

(* Nothing left to drain: the consumer waits, which releases the mutex. *)
Wait ==
    /\ draining
    /\ ticks = 0
    /\ draining' = FALSE
    /\ UNCHANGED <<timeTable, currentQuantum, temporaryQuantum, events,
                   ticks, notified>>

-----------------------------------------------------------------------------
Next ==
    \/ \E e \in AcceptedEvent : Activate(e)
    \/ \E id \in Ids : Cancel(id)
    \/ Produce
    \/ WakeUp
    \/ ConsumeTick
    \/ Wait

Spec == Init /\ [][Next]_vars

(***************************************************************************)
(* The producer sleeps, comes back and obtains a mutex that is free again  *)
(* and again (strong, since spurious wake-ups of the consumer may take it  *)
(* in between); a notified consumer is scheduled and drains; the clients   *)
(* owe nothing.                                                            *)
(***************************************************************************)
Fairness ==
    /\ SF_vars(Produce)
    /\ WF_vars(ticks > 0 /\ WakeUp)
    /\ WF_vars(ConsumeTick)
    /\ WF_vars(Wait)

FairSpec == Spec /\ Fairness
-----------------------------------------------------------------------------
(***************************************************************************)
(* Safety.  cancel erases through the Location it finds in events, and     *)
(* consume erases from events what it finds in a list: the two structures  *)
(* must name each other exactly, whatever the order of activations,        *)
(* cancellations, periodical events and turns of the wheel.                *)
(***************************************************************************)

(* No list holds an event that cancel could not find. *)
EveryNodeIsLocated ==
    /\ \A q \in Quanta : \A e \in timeTable[q] :
          e.id \in DOMAIN events /\ events[e.id] = q
    /\ \A e \in temporaryQuantum :
          e.id \in DOMAIN events /\ events[e.id] = currentQuantum

(* No Location dangles: the node it names is in one of the lists. *)
EveryLocationHasANode ==
    \A id \in DOMAIN events :
        \/ id \in IdsOf(timeTable[events[id]])
        \/ id \in IdsOf(temporaryQuantum)

(* No event is in two places, so none is notified twice by one activation. *)
OneNodePerEvent ==
    /\ \A q \in Quanta : \A e, f \in timeTable[q] : e.id = f.id => e = f
    /\ \A e, f \in temporaryQuantum : e.id = f.id => e = f
    /\ \A q \in Quanta :
          IdsOf(timeTable[q]) \intersect IdsOf(temporaryQuantum) = {}

(* The wheel and the map of active events agree (store, cancel, consume). *)
WheelMatchesEvents ==
    /\ EveryNodeIsLocated
    /\ EveryLocationHasANode
    /\ OneNodePerEvent

(***************************************************************************)
(* Refinement.  The position of an event on the wheel is a countdown.      *)
(***************************************************************************)
LeftAt(q) ==
    IF q >= currentQuantum
    THEN q - currentQuantum + 1
    ELSE q - currentQuantum + MaxQuantum + 1

Countdown ==
    {t \in [event : AcceptedEvent, left : 1 .. MaxQuantum + 1] :
        \/ \E q \in Quanta : t.event \in timeTable[q] /\ t.left = LeftAt(q)
        \/ t.event \in temporaryQuantum /\ t.left = MaxQuantum + 1}

Abstract == INSTANCE Timers WITH timers <- Countdown

(* Every event is notified by exactly the tick its duration asks for, and  *)
(* no other: the wheel of store, cancel and consume implements Timers.     *)
ImplementsTimers == Abstract!Spec

(***************************************************************************)
(* Liveness.  An event that stays active is notified: no tick is lost      *)
(* between the threads and no position of the wheel is skipped for ever.   *)
(***************************************************************************)
EveryEventExpires ==
    \A id \in Ids :
        id \in DOMAIN events ~> (id \notin DOMAIN events \/ id \in IdsOf(notified))
=============================================================================
