----------------------------- MODULE TimeEvents -----------------------------
(***************************************************************************)
(* The data of coffee::time: the events a client hands to the TimeService  *)
(* (Timer, one shot, and Clock, periodical) and the arithmetic that turns  *)
(* a duration in milliseconds into positions of the timing wheel.          *)
(***************************************************************************)
EXTENDS Integers

CONSTANTS
    Ids,          \* the TimeEvent::Id values of the clients
    Timeouts,     \* the durations, in ms, of the events the clients create
    MaxTime,      \* TimeService::maxTime, in ms
    Resolution    \* TimeService::resolution, in ms

(***************************************************************************)
(* do_initialize refuses a service whose maxTime does not exceed its       *)
(* resolution; the constructor divides by the resolution.                  *)
(***************************************************************************)
ASSUME TimesAssumption ==
    /\ Resolution \in Nat \ {0}
    /\ MaxTime \in Nat
    /\ MaxTime > Resolution
    /\ Timeouts \subseteq Nat

(***************************************************************************)
(* One element of the wheel for each value of calculeMaxQuantum: the       *)
(* quotient, one more when the resolution does not divide maxTime (the     *)
(* loop of the code adds at most one).                                     *)
(***************************************************************************)
MaxQuantum ==
    LET quotient == MaxTime \div Resolution
    IN  IF quotient * Resolution < MaxTime THEN quotient + 1 ELSE quotient

Quanta == 0 .. MaxQuantum - 1

TimeEvent == [id : Ids, timeout : Timeouts, periodical : BOOLEAN]

(* The three tests of activate on the duration of the event. *)
InRange(e) == e.timeout # 0 /\ e.timeout <= MaxTime /\ e.timeout >= Resolution

AcceptedEvent == {e \in TimeEvent : InRange(e)}

(* timeout / resolution, an integer division of milliseconds. *)
Steps(e) == e.timeout \div Resolution

=============================================================================
