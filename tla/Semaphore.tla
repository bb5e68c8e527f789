------------------------------ MODULE Semaphore ------------------------------
(***************************************************************************)
(* coffee::basis::Semaphore: a counter, a mutex and a condition variable.  *)
(* Both operations hold the mutex, which condition.wait gives up and takes *)
(* again, so one step is what a thread does between two releases of it.    *)
(* Service::effectiveRunning and ApplicationServiceStarter::semaphoreForRun*)
(* are the semaphores of the framework.                                    *)
(***************************************************************************)
EXTENDS Naturals, FiniteSets

CONSTANTS
    Threads,
    InitialCounter,
    MaxCounter         \* bound: signals are no longer sent at this value

VARIABLES
    counter,
    pc        \* where a thread is in wait()

vars == <<counter, pc>>

TypeOK ==
    /\ counter \in InitialCounter .. MaxCounter
    /\ pc \in [Threads -> {"outside", "asleep", "woken", "passed"}]

Init ==
    /\ counter = InitialCounter
    /\ pc = [t \in Threads |-> "outside"]

(* while (counter == 0) condition.wait(guard); the unit is not taken. *)
Test(t) ==
    /\ pc[t] \in {"outside", "woken"}
    /\ pc' = [pc EXCEPT ![t] = IF counter = 0 THEN "asleep" ELSE "passed"]
    /\ UNCHANGED counter

(* The condition variable may wake a thread nobody notified. *)
SpuriousWakeUp(t) ==
    /\ pc[t] = "asleep"
    /\ pc' = [pc EXCEPT ![t] = "woken"]
    /\ UNCHANGED counter

(* ++ counter, notify_all. *)
NotifiedOnlyIfZero ==                                          \* mutant
    [t \in Threads |-> IF pc[t] = "asleep" /\ counter # 0 THEN "woken" ELSE pc[t]]
Notified == [t \in Threads |-> IF pc[t] = "asleep" THEN "woken" ELSE pc[t]]

Signal ==
    /\ counter < MaxCounter
    /\ counter' = counter + 1
    /\ pc' = Notified

(* A thread that passed may wait again. *)
Leave(t) ==
    /\ pc[t] = "passed"
    /\ pc' = [pc EXCEPT ![t] = "outside"]
    /\ UNCHANGED counter

Next ==
    \/ Signal
    \/ \E t \in Threads : Test(t) \/ SpuriousWakeUp(t) \/ Leave(t)

Spec == Init /\ [][Next]_vars /\ \A t \in Threads : WF_vars(Test(t))

-----------------------------------------------------------------------------
(* No thread sleeps on a counter that is not zero, and none gets through   *)
(* one that is: the test and the sleep are one step under the mutex, and   *)
(* the test is repeated after every wake-up.                               *)
SleepersAndUnits ==
    \A t \in Threads :
        /\ pc[t] = "asleep" => counter = 0
        /\ pc[t] = "passed" => counter > 0

(* A thread in wait() returns once the semaphore has been signalled. *)
SignalledWaitReturns ==
    \A t \in Threads :
        (counter > 0 /\ pc[t] \in {"asleep", "woken"}) ~> pc[t] = "passed"

(* The documentation: wait uses a unit of the resource, so no more threads *)
(* are inside than units have been made available.                         *)
UnitsAreUsed == Cardinality({t \in Threads : pc[t] = "passed"}) <= counter
=============================================================================
