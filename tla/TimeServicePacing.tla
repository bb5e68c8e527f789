-------------------------- MODULE TimeServicePacing --------------------------
(***************************************************************************)
(* The producer of TimeServiceThreads against the clock: how long it sleeps*)
(* between two ticks, in each life of the service.  A round sleeps         *)
(* timeToWait microseconds, waits for the mutex the consumer may hold,     *)
(* queues the tick, and corrects timeToWait by what the round lasted too   *)
(* long.  usleep takes an unsigned number of microseconds, timeToWait is   *)
(* signed.                                                                 *)
(*                                                                         *)
(* The time between the last reading of the clock of a round and the first *)
(* of the next one (a test of isRunning() and a trace) is taken as none.   *)
(***************************************************************************)
EXTENDS TimeServiceThreads

CONSTANTS
    usResolution,   \* microseconds
    Delays,         \* what a round may last beyond its sleep
    Word,           \* values of useconds_t: 2^32 in the code
    MaxRounds       \* bound: rounds of a life that are timed

ASSUME PacingAssumption ==
    /\ usResolution \in Nat \ {0} /\ Delays \subseteq Nat
    /\ Word \in Nat /\ Word > usResolution /\ \A d \in Delays : d < Word
    /\ MaxRounds \in Nat

VARIABLES
    now,            \* high_resolution_clock::now(), since produce began
    timeToWait,
    tickCounter,
    delay,          \* what the last round lasted beyond its sleep
    gap             \* from the tick before the last one to the last one

pacing == <<now, timeToWait, tickCounter, delay, gap>>

PacingTypeOK ==
    /\ ThreadsTypeOK
    /\ now \in Nat
    /\ timeToWait \in 1 - Word .. usResolution
    /\ tickCounter \in 0 .. MaxRounds
    /\ delay \in Delays \union {0}
    /\ gap \in Nat

PacedInit == ThreadsInit /\ now = 0 /\ timeToWait = usResolution /\ tickCounter = 0 /\ delay = 0 /\ gap = 0

(* The conversion of usleep's argument. *)
Useconds(n) == n % Word

RestartedWait(elapsed) == usResolution                           \* mutant
CorrectedWait(elapsed) == timeToWait + (usResolution - elapsed)

Round(d) ==
    LET elapsed == Useconds(timeToWait) + d IN
    /\ tickCounter < MaxRounds
    /\ tickCounter' = tickCounter + 1
    /\ now' = now + elapsed
    /\ gap' = elapsed
    /\ delay' = d
    /\ timeToWait' = CorrectedWait(elapsed)

(* A life begins anew; what was late is known when the tick is queued. *)
PacedBegin ==
    /\ NotifyEffectiveRunning
    /\ now' = 0 /\ timeToWait' = usResolution /\ tickCounter' = 0 /\ delay' = 0 /\ gap' = 0

PacedPush ==
    /\ PushTick
    /\ (\E d \in Delays : Round(d)) \/ (tickCounter = MaxRounds /\ UNCHANGED pacing)

PacedNext ==
    \/ PacedBegin \/ PacedPush
    \/ (Owner \/ ProducerTests \/ ProducerSleeps \/ Consumer \/ SpuriousWakeUp) /\ UNCHANGED pacing

PacedSpec == PacedInit /\ [][PacedNext]_<<threads, pacing>> /\ ThreadsFairness

-----------------------------------------------------------------------------
(* The delays do not add up: however many rounds were late, the producer   *)
(* is behind the ideal clock by the delay of the last one only.  (As long  *)
(* as no round is delayed by more than a resolution.)                      *)
DelaysDoNotAddUp == now = tickCounter * usResolution + delay

(* What TimeService::activate says of a timer rests on: a tick is queued   *)
(* at most a resolution and its own delay after the one before.            *)
TicksInTime == gap <= usResolution + delay

(* The pace of the ticks, while no round is delayed by more than that.      *)
PacingInvariant == PacingTypeOK /\ DelaysDoNotAddUp /\ TicksInTime
=============================================================================
