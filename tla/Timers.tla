------------------------------- MODULE Timers -------------------------------
(***************************************************************************)
(* What coffee::time::TimeService promises, without the timing wheel: a    *)
(* set of armed timers, each with the number of ticks left to its          *)
(* notification.  A timer armed between two ticks runs for Steps(e) whole  *)
(* quanta after the tick that is under way, so it is notified by the tick  *)
(* number Steps(e) + 1 to be processed; a periodical one is armed again by *)
(* the tick that notifies it and its period is exactly Steps(e) ticks.     *)
(***************************************************************************)
EXTENDS TimeEvents

VARIABLES
    timers,     \* the armed timers
    notified    \* the events notified by the last tick processed

vars == <<timers, notified>>

ArmedTimer == [event : AcceptedEvent, left : 1 .. MaxQuantum + 1]

TypeOK ==
    /\ timers \subseteq ArmedTimer
    /\ notified \subseteq AcceptedEvent

ArmedIds == {t.event.id : t \in timers}

Init == timers = {} /\ notified = {}

Activate(e) ==
    /\ e.id \notin ArmedIds
    /\ timers' = timers \union {[event |-> e, left |-> Steps(e) + 1]}
    /\ UNCHANGED notified

Cancel(id) ==
    /\ id \in ArmedIds
    /\ timers' = {t \in timers : t.event.id # id}
    /\ UNCHANGED notified

Due == {t \in timers : t.left = 1}

Tick ==
    /\ notified' = {t.event : t \in Due}
    /\ timers' = {[event |-> t.event, left |-> t.left - 1] : t \in timers \ Due}
                 \union
                 {[event |-> t.event, left |-> Steps(t.event)] :
                     t \in {d \in Due : d.event.periodical}}

Next ==
    \/ \E e \in AcceptedEvent : Activate(e)
    \/ \E id \in Ids : Cancel(id)
    \/ Tick

Spec == Init /\ [][Next]_vars
=============================================================================
