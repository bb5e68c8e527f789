------------------------- MODULE TimeServiceThreads -------------------------
(***************************************************************************)
(* The threads of coffee::time::TimeService: the thread that starts and    *)
(* stops the service (Service::initialize, Runnable::stop), the producer   *)
(* of ticks and their consumer.  The wheel is left out (TimeService has    *)
(* it): what one drain does does not depend on the threads.                *)
(*                                                                         *)
(* isRunning() is read without the mutex, and do_stop does not take it.    *)
(***************************************************************************)
EXTENDS Integers

CONSTANT MaxQueuedTicks     \* bound: ticks of the queue that are told apart

ASSUME ThreadsAssumption == MaxQueuedTicks \in Nat \ {0}

VARIABLES
    status,       \* Runnable::m_statusFlags
    mutex,        \* the thread that owns TimeService::mutex, or "free"
    queuedTicks,  \* length of TimeService::ticks
    effective,    \* Service::effectiveRunning has been signalled
    owner,        \* pc of the thread that starts and stops the service
    producer,     \* pc of the producer
    consumer      \* pc of the consumer

threads == <<status, mutex, queuedTicks, effective, owner, producer, consumer>>

OwnerPc == {"idle", "spawn", "started", "serving", "clear", "notify",
            "joinProducer", "joinConsumer"}
ProducerPc == {"none", "begin", "check", "sleep", "push", "exit"}
ConsumerPc == {"none", "lock", "check", "towait", "waiting", "woken", "drain", "exit"}

ThreadsTypeOK ==
    /\ status \in {"Stopped", "Starting", "Running"}
    /\ mutex \in {"free", "consumer"}
    /\ queuedTicks \in 0 .. MaxQueuedTicks
    /\ effective \in BOOLEAN
    /\ owner \in OwnerPc
    /\ producer \in ProducerPc
    /\ consumer \in ConsumerPc
    /\ mutex = "consumer" <=> consumer \in {"check", "towait", "drain"}

ThreadsInit ==
    /\ status = "Stopped"
    /\ mutex = "free"
    /\ queuedTicks = 0
    /\ effective = FALSE
    /\ owner = "idle"
    /\ producer = "none"
    /\ consumer = "none"

-----------------------------------------------------------------------------
(* Service::initialize and TimeService::do_initialize *)

StatusStarting ==
    /\ owner = "idle"
    /\ owner' = "spawn"
    /\ status' = "Starting"
    /\ UNCHANGED <<mutex, queuedTicks, effective, producer, consumer>>

(* do_initialize starts both threads; the mutex it holds meanwhile only    *)
(* delays the first step of the consumer until it returns.                 *)
Spawn ==
    /\ owner = "spawn"
    /\ owner' = "started"
    /\ producer' = "begin"
    /\ consumer' = "lock"
    /\ UNCHANGED <<status, mutex, queuedTicks, effective>>

StatusRunning ==
    /\ owner = "started"
    /\ owner' = "serving"
    /\ status' = "Running"
    /\ UNCHANGED <<mutex, queuedTicks, effective, producer, consumer>>

-----------------------------------------------------------------------------
(* Runnable::stop and TimeService::do_stop *)

StatusStopped ==
    /\ owner = "serving"
    /\ owner' = "clear"
    /\ status' = "Stopped"
    /\ UNCHANGED <<mutex, queuedTicks, effective, producer, consumer>>

(* ticks.clear() and events.clear(), with or without the consumer inside.  *)
ClearTicks ==
    /\ owner = "clear"
    /\ owner' = "notify"
    /\ queuedTicks' = 0
    /\ UNCHANGED <<status, mutex, effective, producer, consumer>>

(* condition.notify_all() reaches a thread that waits, and no other. *)
NotifyAll ==
    /\ owner = "notify"
    /\ owner' = "joinProducer"
    /\ consumer' = IF consumer = "waiting" THEN "woken" ELSE consumer
    /\ UNCHANGED <<status, mutex, queuedTicks, effective, producer>>

JoinProducer ==
    /\ owner = "joinProducer"
    /\ producer = "exit"
    /\ owner' = "joinConsumer"
    /\ producer' = "none"
    /\ UNCHANGED <<status, mutex, queuedTicks, effective, consumer>>

JoinConsumer ==
    /\ owner = "joinConsumer"
    /\ consumer = "exit"
    /\ owner' = "idle"
    /\ consumer' = "none"
    /\ UNCHANGED <<status, mutex, queuedTicks, effective, producer>>

Owner ==
    \/ StatusStarting \/ Spawn \/ StatusRunning
    \/ StatusStopped \/ ClearTicks \/ NotifyAll \/ JoinProducer \/ JoinConsumer

-----------------------------------------------------------------------------
(* TimeService::produce *)

NotifyEffectiveRunning ==
    /\ producer = "begin"
    /\ producer' = "check"
    /\ effective' = TRUE
    /\ UNCHANGED <<status, mutex, queuedTicks, owner, consumer>>

ProducerForEver ==                                             \* mutant
    /\ producer = "check"
    /\ producer' = "sleep"
    /\ UNCHANGED <<status, mutex, queuedTicks, effective, owner, consumer>>
ProducerTests ==
    /\ producer = "check"
    /\ producer' = IF status = "Running" THEN "sleep" ELSE "exit"
    /\ UNCHANGED <<status, mutex, queuedTicks, effective, owner, consumer>>

ProducerSleeps ==
    /\ producer = "sleep"
    /\ producer' = "push"
    /\ UNCHANGED <<status, mutex, queuedTicks, effective, owner, consumer>>

(* push_back and notify_one, under the mutex.  A queue that is longer than *)
(* the bound counts as one of MaxQueuedTicks: the producer never waits for room. *)
OneMore == IF queuedTicks < MaxQueuedTicks THEN queuedTicks + 1 ELSE queuedTicks
PushWithoutNotify ==                                           \* mutant
    /\ producer = "push"
    /\ mutex = "free"
    /\ producer' = "check"
    /\ queuedTicks' = OneMore
    /\ UNCHANGED <<status, mutex, effective, owner, consumer>>
PushTick ==
    /\ producer = "push"
    /\ mutex = "free"
    /\ producer' = "check"
    /\ queuedTicks' = OneMore
    /\ consumer' = IF consumer = "waiting" THEN "woken" ELSE consumer
    /\ UNCHANGED <<status, mutex, effective, owner>>

Producer ==
    NotifyEffectiveRunning \/ ProducerTests \/ ProducerSleeps \/ PushTick

-----------------------------------------------------------------------------
(* TimeService::consume *)

ConsumerLocks ==
    /\ consumer = "lock"
    /\ mutex = "free"
    /\ consumer' = "check"
    /\ mutex' = "consumer"
    /\ UNCHANGED <<status, queuedTicks, effective, owner, producer>>

(* The guard releases the mutex when the thread leaves. *)
ConsumerTests ==
    /\ consumer = "check"
    /\ IF status = "Running"
       THEN consumer' = "towait" /\ UNCHANGED mutex
       ELSE consumer' = "exit" /\ mutex' = "free"
    /\ UNCHANGED <<status, queuedTicks, effective, owner, producer>>

(* condition.wait(guard), without a predicate. *)
ConsumerWaits ==
    /\ consumer = "towait"
    /\ consumer' = "waiting"
    /\ mutex' = "free"
    /\ UNCHANGED <<status, queuedTicks, effective, owner, producer>>

SpuriousWakeUp ==
    /\ consumer = "waiting"
    /\ consumer' = "woken"
    /\ UNCHANGED <<status, mutex, queuedTicks, effective, owner, producer>>

ConsumerRelocks ==
    /\ consumer = "woken"
    /\ mutex = "free"
    /\ consumer' = "drain"
    /\ mutex' = "consumer"
    /\ UNCHANGED <<status, queuedTicks, effective, owner, producer>>

(* while (!ticks.empty()) pop_front, then the notifications of the tick. *)
DrainOne ==
    /\ consumer = "drain"
    /\ IF queuedTicks > 0
       THEN queuedTicks' = queuedTicks - 1 /\ UNCHANGED consumer
       ELSE consumer' = "check" /\ UNCHANGED queuedTicks
    /\ UNCHANGED <<status, mutex, effective, owner, producer>>

Consumer ==
    ConsumerLocks \/ ConsumerTests \/ ConsumerWaits \/ ConsumerRelocks \/ DrainOne

-----------------------------------------------------------------------------
ThreadsNext == Owner \/ Producer \/ Consumer \/ SpuriousWakeUp

(***************************************************************************)
(* Every thread that can run does, and one that wants a mutex that is free *)
(* again and again obtains it.  Nothing makes a service start or stop, and *)
(* nothing promises a spurious wake-up.                                    *)
(***************************************************************************)
ThreadsFairness ==
    /\ WF_threads(Owner /\ owner \notin {"idle", "serving"})
    /\ SF_threads(Producer)
    /\ SF_threads(Consumer)

ThreadsSpec == ThreadsInit /\ [][ThreadsNext]_threads /\ ThreadsFairness

-----------------------------------------------------------------------------
(* A tick that has been queued is drained unless one of the threads has    *)
(* left: it is pushed and notified under the mutex that the consumer gives *)
(* up only by waiting, and the next tick makes up for a notification that  *)
(* came before the first wait.                                             *)
TicksAreDrained ==
    queuedTicks > 0 ~> \/ queuedTicks = 0
                 \/ producer \in {"exit", "none"}
                 \/ consumer \in {"exit", "none"}

(* The only way for do_stop not to return: the notification was sent while *)
(* the consumer was between its test of isRunning() and its wait, and the  *)
(* producer, already gone, sends no other.                                 *)
LostNotification == owner = "joinConsumer" /\ consumer = "waiting"

StopReturnsUnlessLost ==
    owner = "clear" ~> (owner = "idle" \/ LostNotification)

(* While the service is Running and has announced it is effectively        *)
(* running, somebody produces ticks and somebody consumes them.  (Service, *)
(* on waitEffectiveRunning: "to be sure Service is fully prepared to       *)
(* accept requests".)                                                      *)
ServesWhenEffective ==
    (owner = "serving" /\ effective) => producer # "exit" /\ consumer # "exit"

(* The test fixtures stop the service and join the thread that ran it.     *)
StopReturns == owner = "clear" ~> owner = "idle"
=============================================================================
