----------------------------- MODULE Application -----------------------------
(***************************************************************************)
(* coffee::app: an Application of the kind of ApplicationServiceStarter,   *)
(* its services and their requirements.  The thread Main calls start();    *)
(* other threads stop the application or attach services to it while it    *)
(* runs.  Service::initialize calls itself for the requirements it finds   *)
(* stopped: every thread has a stack of the calls under way.               *)
(***************************************************************************)
EXTENDS Integers, Sequences, SequencesExt

CONSTANTS
    Services,         \* all the services, attached at first or later
    Feature,          \* [Services -> Nat]: Service::m_feature
    Attached,         \* sequence of services attached before start, by feature
    Scenarios,        \* the threads there are and what the services require
    Whatever,         \* Service::WhateverImplementation
    NoService,        \* select() finds nothing
    Fragile,          \* services whose do_initialize may throw
    Unstoppable,      \* services whose do_stop may throw
    Main,             \* the thread that calls start()
    Stoppers,         \* threads that call stop() once
    Impatient,        \* the stoppers that do not waitUntilRunning(): SIGTERM
    Attachers         \* threads that call attach() once

Threads == {Main} \union Stoppers \union Attachers

(* A requirement: a feature and one of its implementations, or Whatever.   *)
(* The implementation of a service is named by the service itself.         *)
Requirement == [feature : {Feature[s] : s \in Services} \union {0},
                implementation : Services \union {Whatever}]

App == "Application"     \* the application is a Runnable as well
None == "none"

ASSUME ApplicationAssumption ==
    /\ Feature \in [Services -> Nat]
    /\ Attached \in Seq(Services) /\ IsInjective(Attached)
    /\ \A i, j \in DOMAIN Attached :
          i < j => Feature[Attached[i]] <= Feature[Attached[j]]
    /\ \A scenario \in Scenarios :
          /\ scenario.threads \subseteq Threads /\ Main \in scenario.threads
          /\ scenario.graph \in [Services -> Seq(Requirement)]
    /\ {Whatever, NoService, App, None} \intersect Services = {}
    /\ Impatient \subseteq Stoppers
    /\ Main \notin Stoppers \union Attachers /\ Stoppers \intersect Attachers = {}

VARIABLES
    registered,     \* m_services: a multimap ordered by feature
    requirements,   \* m_requirements of every service
    flags,          \* m_statusFlags of the application and of the services
    stack,          \* calls of Service::initialize under way in a thread
    pc,             \* where a thread is
    cursor,         \* service a loop of a thread over m_services is at
    failed,         \* do_stop of the thread has caught an exception
    threw,          \* the call of the thread ended by an exception
    stopNow,        \* ApplicationServiceStarter::stopNow
    signalled,      \* semaphoreForRun has its signal: run() has begun
    missed,         \* history: notify_all came between Main's test and wait
    initialized     \* history: do_initialize calls done, by service (0 .. 2)

vars == <<registered, requirements, flags, stack, pc, cursor, failed, threw,
          stopNow, signalled, missed, initialized>>

Frame == [service : Services, next : Nat \ {0}]

TypeOK ==
    /\ registered \in Seq(Services) /\ IsInjective(registered)
    /\ requirements \in {scenario.graph : scenario \in Scenarios}
    /\ flags \in [Services \union {App} -> SUBSET {"Starting", "Running", "Error"}]
    /\ stack \in [Threads -> Seq(Frame)]
    /\ pc \in [Threads -> {"idle", "services", "initialize", "stop", "test", "sleep",
                           "asleep", "do_stop", "stopping", "stopNow", "status", "done"}]
    /\ cursor \in [Threads -> Services \union {None}]
    /\ failed \in [Threads -> BOOLEAN]
    /\ threw \in [Threads -> BOOLEAN]
    /\ stopNow \in BOOLEAN /\ signalled \in BOOLEAN /\ missed \in BOOLEAN
    /\ initialized \in [Services -> 0 .. 2]

Init ==
    /\ registered = Attached
    /\ \E scenario \in Scenarios :
          /\ requirements = scenario.graph
          /\ pc = [t \in Threads |-> IF t \in scenario.threads THEN "idle" ELSE "done"]
    /\ flags = [r \in Services \union {App} |-> {}]
    /\ stack = [t \in Threads |-> <<>>]
    /\ cursor = [t \in Threads |-> None]
    /\ failed = [t \in Threads |-> FALSE]
    /\ threw = [t \in Threads |-> FALSE]
    /\ stopNow = FALSE /\ signalled = FALSE /\ missed = FALSE
    /\ initialized = [s \in Services |-> 0]

-----------------------------------------------------------------------------
(* Runnable *)

IsStopped(r) == flags[r] \in {{}, {"Error"}}
IsStarting(r) == "Starting" \in flags[r]
IsRunning(r) == "Running" \in flags[r]

(* statusRunning clears one bit and sets another. *)
RunningFlags(r) == (flags[r] \ {"Starting"}) \union {"Running"}

(* The iterators of m_services. *)
First == IF registered = <<>> THEN None ELSE Head(registered)
After(s) ==
    LET i == CHOOSE n \in DOMAIN registered : registered[n] = s
    IN  IF i = Len(registered) THEN None ELSE registered[i + 1]

(* Application::select *)
Select(requirement) ==
    LET matching == {i \in DOMAIN registered :
                        /\ Feature[registered[i]] = requirement.feature
                        /\ requirement.implementation \in {registered[i], Whatever}}
    IN  IF matching = {} THEN NoService ELSE registered[Min(matching)]

Goto(t, label) == pc' = [pc EXCEPT ![t] = label]

-----------------------------------------------------------------------------
(* Service::initialize *)

Top(t) == Last(stack[t])
Pushed(t, s) ==
    IF stack[t] = <<>>
    THEN <<[service |-> s, next |-> 1]>>
    ELSE Append([stack[t] EXCEPT ![Len(stack[t])].next = @ + 1],
                [service |-> s, next |-> 1])

Call(t, s) ==
    /\ stack' = [stack EXCEPT ![t] = Pushed(t, s)]
    /\ flags' = [flags EXCEPT ![s] = {"Starting"}]

ThrowRetries(t) ==                                             \* mutant
    /\ flags' = [r \in DOMAIN flags |->
                    IF \E i \in DOMAIN stack[t] : stack[t][i].service = r
                    THEN {} ELSE flags[r]]
    /\ stack' = [stack EXCEPT ![t] = <<>>]
    /\ Goto(t, IF t = Main THEN "services" ELSE "done")
    /\ UNCHANGED <<cursor, threw, initialized>>

(* An exception leaves every call under way, each of which marks its       *)
(* service as stopped; start() stops the application, attach() is over.    *)
Throw(t) ==
    /\ flags' = [r \in DOMAIN flags |->
                    IF \E i \in DOMAIN stack[t] : stack[t][i].service = r
                    THEN {} ELSE flags[r]]
    /\ stack' = [stack EXCEPT ![t] = <<>>]
    /\ threw' = [threw EXCEPT ![t] = TRUE]
    /\ Goto(t, IF t = Main THEN "stop" ELSE "done")
    /\ UNCHANGED <<cursor, initialized>>

HasRequirement(t) == Top(t).next <= Len(requirements[Top(t).service])
Selection(t) == Select(requirements[Top(t).service][Top(t).next])

SkipRequirement(t) ==
    /\ stack' = [stack EXCEPT ![t][Len(stack[t])].next = @ + 1]
    /\ UNCHANGED <<flags, pc, cursor, threw, initialized>>

(* No service offers the feature, or the one that does is being started:   *)
(* a loop.                                                                 *)
UnselectableIgnoringLoops(t) == Selection(t) = NoService       \* mutant
Unselectable(t) ==
    IF Selection(t) = NoService THEN TRUE
    ELSE IsStarting(Selection(t)) /\ ~ IsRunning(Selection(t))

RequirementsIgnored(t) == SkipRequirement(t)                   \* mutant
ResolveRequirement(t) ==
    IF Unselectable(t) THEN Throw(t)
    ELSE IF IsRunning(Selection(t)) THEN SkipRequirement(t)
    ELSE Call(t, Selection(t)) /\ UNCHANGED <<pc, cursor, threw, initialized>>

(* do_initialize succeeds: statusRunning, and the call returns. *)
Initialized(t) ==
    LET s == Top(t).service IN
    /\ flags' = [flags EXCEPT ![s] = RunningFlags(s)]
    /\ initialized' = [initialized EXCEPT ![s] = IF @ < 2 THEN @ + 1 ELSE @]
    /\ stack' = [stack EXCEPT ![t] = Front(@)]
    /\ IF Len(stack[t]) > 1 THEN UNCHANGED <<pc, cursor>>
       ELSE IF t = Main
       THEN Goto(t, "services") /\ cursor' = [cursor EXCEPT ![t] = After(@)]
       ELSE Goto(t, "done") /\ UNCHANGED cursor
    /\ UNCHANGED threw

Initialize(t) ==
    /\ pc[t] = "initialize"
    /\ \/ HasRequirement(t) /\ ResolveRequirement(t)
       \/ ~ HasRequirement(t) /\ Initialized(t)
       \/ ~ HasRequirement(t) /\ Top(t).service \in Fragile /\ Throw(t)
    /\ UNCHANGED <<registered, requirements, failed, stopNow, signalled, missed>>

-----------------------------------------------------------------------------
(* Application::start, startServices and ApplicationServiceStarter::run *)

Start ==
    /\ pc[Main] = "idle"
    /\ flags' = [flags EXCEPT ![App] = {"Starting"}]
    /\ cursor' = [cursor EXCEPT ![Main] = First]
    /\ Goto(Main, "services")
    /\ UNCHANGED <<registered, requirements, stack, failed, threw, stopNow, signalled, missed, initialized>>

(* Every service is initialized in turn, running or not. *)
StartServices ==
    /\ pc[Main] = "services"
    /\ IF cursor[Main] = None
       THEN /\ flags' = [flags EXCEPT ![App] = RunningFlags(App)]
            /\ signalled' = TRUE
            /\ Goto(Main, "test")
            /\ UNCHANGED stack
       ELSE /\ Call(Main, cursor[Main])
            /\ Goto(Main, "initialize")
            /\ UNCHANGED signalled
    /\ UNCHANGED <<registered, requirements, cursor, failed, threw, stopNow, missed, initialized>>

(* while (!stopNow) conditionForStop.wait(guard): do_stop does not take    *)
(* the mutex, so it may come between the test and the wait.                *)
RunTests ==
    /\ pc[Main] = "test"
    /\ Goto(Main, IF stopNow THEN "stop" ELSE "sleep")
    /\ UNCHANGED <<registered, requirements, flags, stack, cursor, failed, threw,
                   stopNow, signalled, missed, initialized>>

RunWaits ==
    /\ pc[Main] = "sleep"
    /\ Goto(Main, "asleep")
    /\ UNCHANGED <<registered, requirements, flags, stack, cursor, failed, threw,
                   stopNow, signalled, missed, initialized>>

RunWakesUp ==
    /\ pc[Main] = "asleep"
    /\ Goto(Main, "test")
    /\ UNCHANGED <<registered, requirements, flags, stack, cursor, failed, threw,
                   stopNow, signalled, missed, initialized>>

-----------------------------------------------------------------------------
(* Runnable::stop, ApplicationServiceStarter::do_stop, Application::do_stop *)

Stop(t) ==
    /\ \/ pc[t] = "stop"
       \/ pc[t] = "idle" /\ t \in Stoppers /\ (t \in Impatient \/ signalled)
    /\ IF IsStopped(App)
       THEN Goto(t, "done") /\ UNCHANGED cursor
       ELSE Goto(t, "do_stop") /\ cursor' = [cursor EXCEPT ![t] = First]
    /\ UNCHANGED <<registered, requirements, flags, stack, failed, threw, stopNow,
                   signalled, missed, initialized>>

NextService(t) ==
    /\ pc[t] = "do_stop"
    /\ IF cursor[t] = None
       THEN Goto(t, "stopNow") /\ UNCHANGED cursor
       ELSE IF IsStopped(cursor[t])
       THEN cursor' = [cursor EXCEPT ![t] = After(@)] /\ UNCHANGED pc
       ELSE Goto(t, "stopping") /\ UNCHANGED cursor
    /\ UNCHANGED <<registered, requirements, flags, stack, failed, threw, stopNow,
                   signalled, missed, initialized>>

(* do_stop of the service, and the status Runnable::stop leaves behind;    *)
(* the loop catches the exception and goes on.                             *)
StopAbandonsLoop(t) ==                                         \* mutant
    /\ pc[t] = "stopping"
    /\ \/ /\ flags' = [flags EXCEPT ![cursor[t]] = {}]
          /\ cursor' = [cursor EXCEPT ![t] = After(@)]
          /\ UNCHANGED failed
       \/ /\ cursor[t] \in Unstoppable
          /\ flags' = [flags EXCEPT ![cursor[t]] = {"Error"}]
          /\ cursor' = [cursor EXCEPT ![t] = None]
          /\ failed' = [failed EXCEPT ![t] = TRUE]
    /\ Goto(t, "do_stop")
    /\ UNCHANGED <<registered, requirements, stack, threw, stopNow, signalled, missed, initialized>>
StopService(t) ==
    /\ pc[t] = "stopping"
    /\ \/ /\ flags' = [flags EXCEPT ![cursor[t]] = {}]
          /\ UNCHANGED failed
       \/ /\ cursor[t] \in Unstoppable
          /\ flags' = [flags EXCEPT ![cursor[t]] = {"Error"}]
          /\ failed' = [failed EXCEPT ![t] = TRUE]
    /\ cursor' = [cursor EXCEPT ![t] = After(@)]
    /\ Goto(t, "do_stop")
    /\ UNCHANGED <<registered, requirements, stack, threw, stopNow, signalled, missed, initialized>>

(* stopNow = true, conditionForStop.notify_all(), with or without an       *)
(* exception under way.                                                    *)
SetStopNowOnSuccess(t) ==                                      \* mutant
    /\ pc[t] = "stopNow"
    /\ stopNow' = (stopNow \/ ~ failed[t])
    /\ pc' = [pc EXCEPT ![t] = "status"]
    /\ UNCHANGED <<registered, requirements, flags, stack, cursor, failed, threw,
                   signalled, missed, initialized>>
SetStopNow(t) ==
    /\ pc[t] = "stopNow"
    /\ stopNow' = TRUE
    /\ pc' = [pc EXCEPT ![t] = "status",
                        ![Main] = IF t = Main THEN "status"
                                  ELSE IF @ = "asleep" THEN "test" ELSE @]
    /\ missed' = (missed \/ pc[Main] = "sleep")
    /\ UNCHANGED <<registered, requirements, flags, stack, cursor, failed, threw,
                   signalled, initialized>>

SetStatus(t) ==
    /\ pc[t] = "status"
    /\ flags' = [flags EXCEPT ![App] = IF failed[t] THEN {"Error"} ELSE {}]
    /\ threw' = [threw EXCEPT ![t] = @ \/ failed[t]]
    /\ Goto(t, "done")
    /\ UNCHANGED <<registered, requirements, stack, cursor, failed, stopNow, signalled, missed, initialized>>

-----------------------------------------------------------------------------
(* Application::attach *)

(* The multimap keeps its order: after the services of the same feature. *)
Insert(s) ==
    \E n \in 0 .. Len(registered) :
        /\ \A i \in DOMAIN registered : i <= n <=> Feature[registered[i]] <= Feature[s]
        /\ registered' = InsertAt(registered, n + 1, s)

(* attach() from another thread while start() walks the same multimap is   *)
(* left out; during do_stop it is legal as far as isRunning() tells.       *)
Attach(t, s) ==
    /\ pc[t] = "idle"
    /\ ~ IsStarting(App)
    /\ IF s \in ToSet(registered)
       THEN Goto(t, "done") /\ UNCHANGED <<registered, flags, stack>>
       ELSE /\ Insert(s)
            /\ IF IsRunning(App)
               THEN Goto(t, "initialize") /\ Call(t, s)
               ELSE Goto(t, "done") /\ UNCHANGED <<flags, stack>>
    /\ UNCHANGED <<requirements, cursor, failed, threw, stopNow, signalled, missed, initialized>>

-----------------------------------------------------------------------------
Step(t) ==
    \/ Initialize(t)
    \/ Stop(t) \/ NextService(t) \/ StopService(t) \/ SetStopNow(t) \/ SetStatus(t)

Next ==
    \/ Start \/ StartServices \/ RunTests \/ RunWaits \/ RunWakesUp
    \/ \E t \in Threads : Step(t)
    \/ \E t \in Attachers, s \in Services : Attach(t, s)

(* A call that has begun goes on; nobody has to call stop or attach, and   *)
(* no spurious wake-up is promised.                                        *)
Fairness ==
    /\ WF_vars(Start \/ StartServices \/ RunTests \/ RunWaits)
    /\ \A t \in Threads : WF_vars(pc[t] # "idle" /\ Step(t))

Spec == Init /\ [][Next]_vars /\ Fairness

-----------------------------------------------------------------------------
(* A service is never initialized inside its own initialization: a loop of *)
(* requirements is refused, whatever its length and its entry point.       *)
NoRecursiveInitialize ==
    \A t \in Threads : \A i, j \in DOMAIN stack[t] :
        stack[t][i].service = stack[t][j].service => i = j

(* Whatever fails, initialize keeps its state and its recursion sound.      *)
InitializeInvariant == TypeOK /\ NoRecursiveInitialize

(* A service goes to Running only when all it requires is Running (where   *)
(* no thread stops them while another attaches services).                  *)
DependenciesFirst ==
    [][\A s \in Services :
          ~ IsRunning(s) /\ IsRunning(s)' =>
              \A i \in DOMAIN requirements[s] :
                  /\ Select(requirements[s][i]) # NoService
                  /\ IsRunning(Select(requirements[s][i]))]_vars

AllDone == pc[Main] = "done" /\ \A t \in Threads : pc[t] \in {"idle", "done"}

(* When start() and every call of stop() have returned, no service runs:   *)
(* not after a start that failed half-way, not after services that refused *)
(* to stop, not when two threads and Main walk the services at once.       *)
NothingRunsAfterStop ==
    AllDone => \A i \in DOMAIN registered : IsStopped(registered[i])

(* start() gets through its services, whatever requires what and fails.    *)
StartupEnds ==
    pc[Main] = "services" ~> pc[Main] \notin {"services", "initialize"}

(* A stop of the running application ends start(), whether its services    *)
(* accept to stop or not, unless its notification comes between the test   *)
(* of stopNow and the wait.                                                *)
StopEndsStart ==
    (\E t \in Stoppers : pc[t] = "do_stop") ~> (pc[Main] = "done" \/ missed)

(* Claims of tests and documentation that the code does not keep.          *)

(* Application_test: every started service has been initialized once.      *)
InitializedOnce == \A s \in Services : initialized[s] <= 1

(* isStoppedWithError: "true if this instance had and error during stop    *)
(* processing".                                                            *)
FailureIsKept ==
    AllDone /\ (\E t \in Threads : failed[t]) => "Error" \in flags[App]

(* ApplicationServiceStarter: start waits for the stop, "then it will stop *)
(* all services before finished execution".                                *)
StartReturns == stopNow ~> pc[Main] = "done"
=============================================================================
