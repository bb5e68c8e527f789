------------------------- MODULE TimeServiceRestart -------------------------
(***************************************************************************)
(* TimeService over several lives: do_stop clears the queue of ticks and   *)
(* the map of active events and nothing else; the lists of the wheel and   *)
(* its current position are those the next life of the service starts      *)
(* from.  The threads of a stop that overlaps a drain are in               *)
(* TimeServiceThreads; here the consumer is waiting when do_stop runs.     *)
(***************************************************************************)
EXTENDS TimeService

VARIABLE stopped    \* Runnable::isStopped()

restartVars == <<vars, stopped>>

RestartInit == Init /\ stopped = TRUE

(* Service::initialize: the threads start, the data is what it was. *)
Initialize ==
    /\ stopped
    /\ stopped' = FALSE
    /\ UNCHANGED vars

DoStopKeepsEvents ==                                           \* mutant
    /\ ~ stopped
    /\ ~ draining
    /\ stopped' = TRUE
    /\ ticks' = 0
    /\ timeTable' = [q \in Quanta |-> {}]
    /\ temporaryQuantum' = {}
    /\ UNCHANGED <<events, currentQuantum, draining, notified>>
DoStop ==
    /\ ~ stopped
    /\ ~ draining
    /\ stopped' = TRUE
    /\ ticks' = 0
    /\ events' = [id \in {} |-> 0]
    /\ UNCHANGED <<timeTable, currentQuantum, temporaryQuantum, draining, notified>>

(* Bound: a list is a set in this model, which is exact while no list      *)
(* holds two nodes of one id, an old one and a new one; the model stops    *)
(* short of the activations and the ticks that would bring two together.   *)
RoomFor(e) ==
    /\ e.id \notin IdsOf(temporaryQuantum)
    /\ e.id \notin IdsOf(timeTable[IndexQuantum(e)])

RoomAgainFor(e) ==
    /\ e.id \notin IdsOf(temporaryQuantum)
    /\ IndexQuantum(e) = currentQuantum \/ RoomFor(e)

(* activate refuses a stopped service; cancel does not ask. *)
RestartNext ==
    \/ Initialize
    \/ DoStop
    \/ \E e \in AcceptedEvent :
          ~ stopped /\ RoomFor(e) /\ Activate(e) /\ UNCHANGED stopped
    \/ \E id \in Ids : Cancel(id) /\ UNCHANGED stopped
    \/ ~ stopped /\ Produce /\ UNCHANGED stopped
    \/ ~ stopped /\ WakeUp /\ UNCHANGED stopped
    \/ (\A e \in Restored : RoomAgainFor(e)) /\ ConsumeTick /\ UNCHANGED stopped
    \/ Wait /\ UNCHANGED stopped

RestartSpec == RestartInit /\ [][RestartNext]_restartVars

-----------------------------------------------------------------------------
(* Whatever a stop left in the lists, the Location of an active event is   *)
(* never dangling: cancel erases a node that exists.                       *)
CancelFindsItsNode == EveryLocationHasANode

(* The wheel notifies nobody while empty(), "true if there is not any      *)
(* event activated", holds.                                                *)
QuietWhenEmpty ==
    [][DOMAIN events = {} /\ ConsumeTick => notified' = {}]_restartVars
=============================================================================
