-------------------------- MODULE TimeServiceClock --------------------------
(***************************************************************************)
(* TimeService against the clock on the wall, in milliseconds.  A round of *)
(* the producer may be late (usleep returns late, the mutex is taken) and  *)
(* the wait of the next round is shorter by as much; a tick may stay in    *)
(* the queue before the consumer takes it, and the observers it notifies   *)
(* take time.  age is now - initTime of every active event: it shows how   *)
(* long an event really ran when its observer is notified.                 *)
(***************************************************************************)
EXTENDS TimeService

CONSTANTS
    MaxDelay,   \* ms a round of the producer is late, at most
    MaxLate     \* ms from the instant a tick is due to the end of its drain

(* A round later than a resolution makes the next wait negative, which     *)
(* usleep takes for more than an hour (TimeServicePacing).                 *)
ASSUME LatenessAssumption ==
    /\ MaxDelay \in 0 .. Resolution
    /\ MaxLate \in Nat
    /\ MaxDelay <= MaxLate

VARIABLES
    msToWait,     \* ms to the instant the next tick is due; < 0 when late
    age,          \* ms since initTime, for the active events
    fired         \* history: <<event, endTime - initTime>> if the last step is a tick

clockVars == <<vars, msToWait, age, fired>>

ClockInit ==
    /\ Init
    /\ msToWait = Resolution
    /\ age = [id \in {} |-> 0]
    /\ fired = {}

(* Bound: the oldest an active event may become; no age counts beyond it.  *)
Oldest == MaxTime + Resolution + MaxLate
AgeAfter(aging) == [id \in DOMAIN events' |-> aging[id]]
Older(n, ms) == IF n + ms > Oldest THEN Oldest + 1 ELSE n + ms

ClockTypeOK ==
    /\ TypeOK
    /\ msToWait \in -MaxDelay .. Resolution
    /\ DOMAIN age = DOMAIN events
    /\ \A id \in DOMAIN age : age[id] \in 0 .. Oldest
    /\ fired \subseteq AcceptedEvent \X (0 .. Oldest)

(* store sets initTime, at once or while earlier ticks are in the queue. *)
ClockActivate(e) ==
    /\ Activate(e)
    /\ age' = AgeAfter([id \in Ids |-> IF id = e.id THEN 0 ELSE age[id]])
    /\ fired' = {}
    /\ UNCHANGED msToWait

ClockCancel(id) ==
    /\ Cancel(id)
    /\ age' = AgeAfter(age)
    /\ fired' = {}
    /\ UNCHANGED msToWait

(* When the oldest tick that is not drained was, or is, due: ticks are due *)
(* one resolution apart, however late the rounds are.                      *)
DueIn == msToWait - ticks * Resolution

(* So many milliseconds may pass: no round and no tick gets later than the *)
(* named bounds.                                                           *)
MayPass(ms) == msToWait - ms >= -MaxDelay /\ DueIn - ms >= -MaxLate

(* One millisecond, also while ticks wait and while the consumer drains. *)
Elapse ==
    /\ MayPass(1)
    /\ msToWait' = msToWait - 1
    /\ age' = [id \in DOMAIN age |-> Older(age[id], 1)]
    /\ fired' = {}
    /\ UNCHANGED vars

(* timeToWait + deviation: the wait of a round is what the round before    *)
(* was not late.  What passes between the two readings of the clock, the   *)
(* last of a round and the first of the next, is taken as nothing.         *)
NotCorrected(due) == Resolution                                 \* mutant
Corrected(due) == due + Resolution

ClockProduce ==
    /\ msToWait <= 0
    /\ Produce
    /\ msToWait' = Corrected(msToWait)
    /\ fired' = {}
    /\ UNCHANGED age

(* consume reads the clock once for the endTime of what the tick notifies; *)
(* the observers keep it busy, and store sets initTime of a periodical     *)
(* event again somewhere in that time.                                     *)
ClockConsumeTick ==
    /\ ConsumeTick
    /\ fired' = {<<e, age[e.id]>> : e \in TimedOut}
    /\ \E busy \in 0 .. MaxLate :
          /\ MayPass(busy)
          /\ msToWait' = msToWait - busy
          /\ \E stored \in [IdsOf(Restored) -> 0 .. busy] :
                age' = AgeAfter([id \in Ids |->
                                    IF id \in IdsOf(Restored) THEN stored[id]
                                    ELSE Older(age[id], busy)])

ClockWakeUp == WakeUp /\ fired' = {} /\ UNCHANGED <<msToWait, age>>
ClockWait == Wait /\ fired' = {} /\ UNCHANGED <<msToWait, age>>

ClockNext ==
    \/ \E e \in AcceptedEvent : ClockActivate(e)
    \/ \E id \in Ids : ClockCancel(id)
    \/ Elapse
    \/ ClockProduce
    \/ ClockWakeUp
    \/ ClockConsumeTick
    \/ ClockWait

ClockSpec == ClockInit /\ [][ClockNext]_clockVars

(* Time goes on; the producer and the consumer owe what Fairness says. *)
FairClockSpec ==
    /\ ClockSpec
    /\ WF_clockVars(Elapse)
    /\ SF_clockVars(ClockProduce)
    /\ WF_clockVars(ticks > 0 /\ ClockWakeUp)
    /\ WF_clockVars(ClockConsumeTick)
    /\ WF_clockVars(ClockWait)

-----------------------------------------------------------------------------
(* An event is notified less than one resolution and one lateness before   *)
(* its duration has elapsed, and at most as much after; one of whole       *)
(* resolutions is early by no more than the lateness, which it is when a   *)
(* tick that was due is produced or drained just after store: the          *)
(* correction of timeToWait takes it out of the next wait.  So it is never *)
(* early when nothing is late, and lateness never adds up over the ticks.  *)
WithinOneQuantum ==
    \A f \in fired :
        LET timeout == f[1].timeout
            elapsed == f[2]
        IN  /\ timeout - Resolution - MaxLate < elapsed
            /\ elapsed <= timeout + Resolution + MaxLate
            /\ timeout % Resolution = 0 => elapsed >= timeout - MaxLate

(* The clock of the observers (store, produce and consume), for a producer *)
(* and a consumer that are late by no more than MaxDelay and MaxLate.      *)
ClockInvariant == ClockTypeOK /\ WithinOneQuantum

(* The documentation of TimeService::activate: the observer is notified    *)
(* once the duration of the event has been reached.                        *)
NeverEarly == \A f \in fired : f[2] >= f[1].timeout

(* The same for the durations that the resolution divides.                 *)
WholeNeverEarly ==
    \A f \in fired : f[1].timeout % Resolution = 0 => f[2] >= f[1].timeout
=============================================================================
