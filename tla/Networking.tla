----------------------------- MODULE Networking -----------------------------
(***************************************************************************)
(* coffee::networking: a NetworkingService with its sockets, the thread of *)
(* its broker and the clients of its servers.  Sockets are created by one  *)
(* thread while another initializes and stops the service: nothing locks   *)
(* the vectors of sockets.  zmq is external: a socket of type REP answers  *)
(* a request before it reads the next one, one of type REQ sends nothing   *)
(* until the answer of its request has been read.                          *)
(***************************************************************************)
EXTENDS Naturals, FiniteSets, Sequences, SequencesExt

CONSTANTS
    Servers, Subscribers, Publishers, Clients,   \* the sockets, by their type
    Order,            \* the order in which they are created
    Invalid,          \* those without a valid end point, handler or subscription
    ServerOf,         \* the server a client is connected to
    Messages,
    Handler,          \* what the handler of the servers answers, or Mute
    Mute,             \* it has thrown, or returned, without sending anything
    Waiters,          \* the threads that call waitEffectiveRunning
    MaxLives, MaxRequests    \* bounds

Sockets == Servers \cup Subscribers \cup Publishers \cup Clients

ASSUME NetworkingAssumption ==
    /\ IsFiniteSet(Sockets) /\ Servers \cap Subscribers = {}
    /\ ServerOf \in [Clients -> Servers]
    /\ MaxLives \in Nat /\ MaxRequests \in Nat

VARIABLES
    status,        \* Runnable::m_statusFlags
    life, walk,    \* where the thread is that initializes and stops, and its iterator
    sockets,       \* m_sockets
    async,         \* m_serverSockets and m_subscriberSockets
    initialized,   \* the sockets that are bound or connected
    creation,      \* how far createXSocket has got with each of them
    broker,        \* where the thread of the broker is
    nitems, poll,  \* Poll::m_nitems and m_asyncSockets
    ready,         \* those with ZMQ_POLLIN that the loop has not reached
    queue,         \* what zmq has for each asynchronous socket
    owes,          \* the request that a socket of type REP has to answer, or none
    client,        \* ClientSocket: its requests, its state in zmq, its answers
    counter, waiter,    \* m_effectiveRunning, see Semaphore
    lives,
    broken         \* a vector was changed under an iterator: undefined behaviour

lifeVars == <<status, life, walk, lives>>
createVars == <<sockets, async, creation>>
brokerVars == <<broker, nitems, poll, ready>>
zmqVars == <<queue, owes, client>>
waitVars == <<counter, waiter>>
vars == <<lifeVars, createVars, initialized, brokerVars, zmqVars, waitVars, broken>>

EffectiveRunning == INSTANCE Semaphore
    WITH Threads <- Waiters, InitialCounter <- 0, MaxCounter <- MaxLives, pc <- waiter

TypeOK ==
    /\ status \in {"stopped", "starting", "running"}
    /\ life \in {"idle", "walking", "spawned", "up", "joining", "destroying"}
    /\ walk \in 0 .. Cardinality(Sockets) + 1
    /\ sockets \in BoundedSeq(Sockets, Cardinality(Sockets)) /\ IsInjective(sockets)
    /\ async \subseteq (Servers \cup Subscribers) /\ poll \subseteq async /\ ready \subseteq poll
    /\ initialized \subseteq Sockets \ Invalid
    /\ creation \in [Sockets -> {"none", "tested", "pushed", "done", "thrown"}]
    /\ broker \in {"none", "spinning", "first", "prepared", "testing", "polling",
                   "rebuilding", "reading", "handling", "ended"}
    /\ nitems \in 0 .. Cardinality(Servers \cup Subscribers)
    /\ \A s \in Servers \cup Subscribers : Len(queue[s]) <= MaxRequests * Cardinality(Clients \cup Publishers)
    /\ \A c \in Clients : Len(client[c].answers) <= 1
    /\ EffectiveRunning!TypeOK

Init ==
    /\ status = "stopped" /\ life = "idle" /\ walk = 0 /\ lives = 0
    /\ sockets = <<>> /\ async = {} /\ initialized = {}
    /\ creation = [s \in Sockets |-> "none"]
    /\ broker = "none" /\ nitems = 0 /\ poll = {} /\ ready = {}
    /\ queue = [s \in Servers \cup Subscribers |-> <<>>]
    /\ owes = [s \in Servers |-> <<>>]
    /\ client = [c \in Clients |-> [sent |-> 0, waiting |-> FALSE, receiving |-> FALSE, answers |-> <<>>]]
    /\ EffectiveRunning!Init
    /\ broken = FALSE

-----------------------------------------------------------------------------
(* Socket::initialize of each type: bind throws when none of the end points *)
(* can be bound, and one that this socket has bound already cannot be;      *)
(* connect may be repeated.                                                 *)
Binds(s) == s \in Servers \cup Publishers
CanInitialize(s) == s \notin Invalid /\ (Binds(s) => s \notin initialized)

(* createServerSocket, createClientSocket, ...: test isRunning() and        *)
(* initialize, push in m_sockets, push in the vector of the type.           *)
IsNext(s) ==
    LET begun == {x \in Sockets : creation[x] # "none"}
    IN /\ \A x \in begun : creation[x] \in {"done", "thrown"}
       /\ s = Order[Cardinality(begun) + 1]

Create(s) ==
    /\ creation[s] = "none" /\ IsNext(s)
    /\ IF status # "running"
       THEN creation' = [creation EXCEPT ![s] = "tested"] /\ UNCHANGED initialized
       ELSE IF CanInitialize(s)
       THEN creation' = [creation EXCEPT ![s] = "tested"] /\ initialized' = initialized \cup {s}
       ELSE creation' = [creation EXCEPT ![s] = "thrown"] /\ UNCHANGED initialized
    /\ UNCHANGED <<lifeVars, sockets, async, brokerVars, zmqVars, waitVars, broken>>

Push(s) ==
    /\ creation[s] = "tested"
    /\ sockets' = Append(sockets, s)
    /\ creation' = [creation EXCEPT ![s] = IF s \in Servers \cup Subscribers THEN "pushed" ELSE "done"]
    /\ broken' = (life \in {"walking", "destroying"})
    /\ UNCHANGED <<lifeVars, async, initialized, brokerVars, zmqVars, waitVars>>

PushAsync(s) ==
    /\ creation[s] = "pushed"
    /\ async' = async \cup {s}
    /\ creation' = [creation EXCEPT ![s] = "done"]
    /\ UNCHANGED <<lifeVars, sockets, initialized, brokerVars, zmqVars, waitVars, broken>>

-----------------------------------------------------------------------------
(* Service::initialize, do_initialize and do_stop, all of one thread. *)
Initialize ==
    /\ life = "idle" /\ status = "stopped" /\ lives < MaxLives
    /\ status' = "starting" /\ life' = "walking" /\ walk' = 1 /\ lives' = lives + 1
    /\ UNCHANGED <<createVars, initialized, brokerVars, zmqVars, waitVars, broken>>

InitializeNext ==
    /\ life = "walking" /\ walk <= Len(sockets)
    /\ IF CanInitialize(sockets[walk])
       THEN /\ initialized' = initialized \cup {sockets[walk]}
            /\ walk' = walk + 1
            /\ UNCHANGED <<status, life>>
       ELSE /\ status' = "stopped" /\ life' = "idle" /\ walk' = 0
            /\ UNCHANGED initialized
    /\ UNCHANGED <<lives, createVars, brokerVars, zmqVars, waitVars, broken>>

SpawnBroker ==
    /\ life = "walking" /\ walk > Len(sockets)
    /\ broker' = "spinning" /\ life' = "spawned" /\ walk' = 0
    /\ UNCHANGED <<status, lives, createVars, initialized, nitems, poll, ready,
                   zmqVars, waitVars, broken>>

StatusRunning ==
    /\ life = "spawned"
    /\ status' = "running" /\ life' = "up"
    /\ UNCHANGED <<walk, lives, createVars, initialized, brokerVars, zmqVars, waitVars, broken>>

Stop ==
    /\ life = "up"
    /\ status' = "stopped" /\ life' = "joining"
    /\ UNCHANGED <<walk, lives, createVars, initialized, brokerVars, zmqVars, waitVars, broken>>

JoinedAtOnce == TRUE                                           \* mutant
Joined == broker = "ended"
Join ==
    /\ life = "joining" /\ Joined
    /\ life' = "destroying" /\ walk' = 1
    /\ UNCHANGED <<status, lives, createVars, initialized, brokerVars, zmqVars, waitVars, broken>>

DestroyNext ==
    /\ life = "destroying"
    /\ IF walk <= Len(sockets)
       THEN initialized' = initialized \ {sockets[walk]} /\ walk' = walk + 1 /\ UNCHANGED <<life, broker>>
       ELSE life' = "idle" /\ walk' = 0 /\ broker' = "none" /\ UNCHANGED initialized
    /\ UNCHANGED <<status, lives, createVars, nitems, poll, ready, zmqVars, waitVars, broken>>

-----------------------------------------------------------------------------
(* The broker: it takes the size of the vectors, then the sockets.          *)
Outdated == nitems # Cardinality(async)

Spin ==
    /\ broker = "spinning" /\ status # "starting"
    /\ broker' = "first" /\ nitems' = Cardinality(async)
    /\ UNCHANGED <<lifeVars, createVars, initialized, poll, ready, zmqVars, waitVars, broken>>

(* Poll::Poll: one that was pushed meanwhile is written behind m_items. *)
BuildPoll ==
    /\ broker \in {"first", "rebuilding"}
    /\ poll' = async /\ broken' = Outdated
    /\ broker' = IF broker = "first" THEN "prepared" ELSE "testing"
    /\ UNCHANGED <<lifeVars, createVars, initialized, nitems, ready, zmqVars, waitVars>>

NotifyEffectiveRunning ==
    /\ broker = "prepared"
    /\ broker' = "testing"
    /\ EffectiveRunning!Signal
    /\ UNCHANGED <<lifeVars, createVars, initialized, nitems, poll, ready, zmqVars, broken>>

TestRunning ==
    /\ broker = "testing"
    /\ broker' = IF status = "running" THEN "polling" ELSE "ended"
    /\ UNCHANGED <<lifeVars, createVars, initialized, nitems, poll, ready, zmqVars, waitVars, broken>>

(* What zmq_poll reports: a socket of type REP that owes an answer has      *)
(* nothing to read, and one that is not bound has no requests.              *)
Readable ==
    {s \in poll : s \in initialized /\ queue[s] # <<>> /\ (s \in Servers => owes[s] = <<>>)}

(* A poll that is outdated is built anew: the size is taken here. *)
NeverRebuilds == broker' = "testing" /\ UNCHANGED nitems       \* mutant
EndOfTurn ==
    IF Outdated THEN broker' = "rebuilding" /\ nitems' = Cardinality(async)
                ELSE broker' = "testing" /\ UNCHANGED nitems

PollTimesOut ==
    /\ broker = "polling" /\ Readable = {}
    /\ EndOfTurn
    /\ UNCHANGED <<lifeVars, createVars, initialized, poll, ready, zmqVars, waitVars, broken>>

(* -1, which is what a signal that interrupts the call gives, ends the thread. *)
PollFails ==
    /\ broker = "polling"
    /\ broker' = "ended"
    /\ UNCHANGED <<lifeVars, createVars, initialized, nitems, poll, ready, zmqVars, waitVars, broken>>

PollReads ==
    /\ broker = "polling" /\ Readable # {}
    /\ ready' = Readable /\ broker' = "reading"
    /\ UNCHANGED <<lifeVars, createVars, initialized, nitems, poll, zmqVars, waitVars, broken>>

(* recv and handle of one of them; a handler that throws is only logged. *)
Receive(s) ==
    /\ broker = "reading" /\ s \in ready
    /\ broker' = "handling"
    /\ owes' = [r \in Servers |-> IF r = s THEN <<Head(queue[s])>> ELSE owes[r]]
    /\ queue' = [queue EXCEPT ![s] = Tail(@)]
    /\ ready' = IF s \in Servers THEN ready ELSE ready \ {s}
    /\ UNCHANGED <<lifeVars, createVars, initialized, nitems, poll, client, waitVars, broken>>

(* ServerSocket::send answers what the socket has read. *)
SendsTo(request) ==
    [client EXCEPT ![request.from].answers =
        Append(@, [number |-> request.number, answer |-> Handler[request.message]])]

Handle ==
    /\ broker = "handling"
    /\ broker' = "reading"
    /\ LET answering == {s \in ready \cap Servers : owes[s] # <<>>}
       IN IF answering = {} THEN UNCHANGED <<ready, owes, client>>
          ELSE \E s \in answering :
               /\ ready' = ready \ {s}
               /\ IF Handler[owes[s][1].message] = Mute THEN UNCHANGED <<owes, client>>
                  ELSE client' = SendsTo(owes[s][1]) /\ owes' = [owes EXCEPT ![s] = <<>>]
    /\ UNCHANGED <<lifeVars, createVars, initialized, nitems, poll, queue, waitVars, broken>>

TurnEnds ==
    /\ broker = "reading" /\ ready = {}
    /\ EndOfTurn
    /\ UNCHANGED <<lifeVars, createVars, initialized, poll, ready, zmqVars, waitVars, broken>>

-----------------------------------------------------------------------------
(* ClientSocket: the call of zmq in send throws for a socket of type REQ that *)
(* waits, and for one that is not connected.                                *)
SendsAsDealer(c) == TRUE                                       \* mutant
MaySend(c) == ~client[c].waiting

Send(c, m) ==
    /\ creation[c] = "done" /\ c \in initialized
    /\ ~client[c].receiving /\ MaySend(c) /\ client[c].sent < MaxRequests
    /\ client' = [client EXCEPT ![c].sent = @ + 1, ![c].waiting = TRUE, ![c].receiving = TRUE]
    /\ queue' = [queue EXCEPT ![ServerOf[c]] =
                    Append(@, [from |-> c, number |-> client[c].sent + 1, message |-> m])]
    /\ UNCHANGED <<lifeVars, createVars, initialized, brokerVars, owes, waitVars, broken>>

Answered(c) ==
    /\ client[c].receiving /\ client[c].answers # <<>>
    /\ client' = [client EXCEPT ![c].receiving = FALSE, ![c].waiting = FALSE, ![c].answers = Tail(@)]
    /\ UNCHANGED <<lifeVars, createVars, initialized, brokerVars, queue, owes, waitVars, broken>>

(* Nothing came in 50 ms: send throws, and the socket goes on waiting. *)
TimesOut(c) ==
    /\ client[c].receiving /\ client[c].answers = <<>>
    /\ client' = [client EXCEPT ![c].receiving = FALSE]
    /\ UNCHANGED <<lifeVars, createVars, initialized, brokerVars, queue, owes, waitVars, broken>>

(* PublisherSocket::send: a copy for each subscriber that is connected. *)
Publish(p, m) ==
    /\ creation[p] = "done" /\ p \in initialized
    /\ \A s \in Subscribers : Len(queue[s]) < MaxRequests
    /\ queue' = [s \in Servers \cup Subscribers |->
                    IF s \in Subscribers \cap initialized THEN Append(queue[s], m) ELSE queue[s]]
    /\ UNCHANGED <<lifeVars, createVars, initialized, brokerVars, owes, client, waitVars, broken>>

WaitEffectiveRunning(t) ==
    /\ EffectiveRunning!Test(t) \/ EffectiveRunning!SpuriousWakeUp(t) \/ EffectiveRunning!Leave(t)
    /\ UNCHANGED <<lifeVars, createVars, initialized, brokerVars, zmqVars, broken>>

-----------------------------------------------------------------------------
Life == Initialize \/ InitializeNext \/ SpawnBroker \/ StatusRunning \/ Stop \/ Join \/ DestroyNext
Broker ==
    \/ Spin \/ BuildPoll \/ NotifyEffectiveRunning \/ TestRunning \/ PollTimesOut
    \/ PollReads \/ (\E s \in ready : Receive(s)) \/ Handle \/ TurnEnds
Next ==
    /\ ~broken
    /\ \/ \E s \in Sockets : Create(s) \/ Push(s) \/ PushAsync(s)
       \/ Life \/ Broker \/ PollFails
       \/ \E c \in Clients : (\E m \in Messages : Send(c, m)) \/ Answered(c) \/ TimesOut(c)
       \/ \E p \in Publishers, m \in Messages : Publish(p, m)
       \/ \E t \in Waiters : WaitEffectiveRunning(t)

(* The thread of the broker runs, a stop that has begun goes on, and a      *)
(* thread in waitEffectiveRunning runs when it is woken.                    *)
Spec ==
    /\ Init /\ [][Next]_vars
    /\ WF_vars(~broken /\ Broker)
    /\ WF_vars(~broken /\ (InitializeNext \/ SpawnBroker \/ StatusRunning \/ Join \/ DestroyNext))
    /\ \A t \in Waiters : WF_vars(~broken /\ EffectiveRunning!Test(t) /\ WaitEffectiveRunning(t))
-----------------------------------------------------------------------------
(* A client that reads an answer reads the one to its last request: one     *)
(* that came after its 50 ms is never taken for the answer to a later       *)
(* request.                                                                 *)
AnswersMatchRequests ==
    \A c \in Clients :
        client[c].receiving => \A a \in Range(client[c].answers) : a.number = client[c].sent

(* do_stop destroys the sockets when the broker has left them: no handler   *)
(* runs from then on until the next life, however late the stop came in the *)
(* turn.                                                                    *)
NoBrokerWithoutLife ==
    life \in {"idle", "walking", "destroying"} => broker \in {"none", "ended"}

(* What has been created is polled in the end, and a socket that is bound   *)
(* and has messages is read: by the test of the sizes, and because no       *)
(* socket is kept from being polled by another.  A server whose handler has *)
(* been mute, and a poll that was interrupted, are excepted.                *)
Reads(s) ==
    /\ status = "running" /\ broker # "ended" /\ ~broken
    /\ creation[s] = "done" /\ s \in initialized
    /\ s \in Servers => owes[s] = <<>>
MessagesAreRead ==
    \A s \in Servers \cup Subscribers :
        []<>(Reads(s) => queue[s] = <<>>) \/ []<><<Receive(s)>>_vars

(* Threads that wait for the service return when its broker is prepared,    *)
(* and a stop that has begun ends.                                          *)
PreparedWaitReturns ==
    \A t \in Waiters : (counter > 0 /\ waiter[t] \in {"asleep", "woken"}) ~> (waiter[t] = "passed" \/ broken)
StopReturns == (life = "joining") ~> (life = "idle" \/ broken)

(* Nobody waits for ever for the broker: neither for it to be prepared nor   *)
(* for it to leave.                                                         *)
WaitsReturn == PreparedWaitReturns /\ StopReturns

(* Nobody sleeps on m_effectiveRunning while it has units.                  *)
SleepersAndUnits == EffectiveRunning!SleepersAndUnits

(* The broker and those that wait for it, whenever the service starts and    *)
(* stops.                                                                   *)
BrokerInvariant == TypeOK /\ NoBrokerWithoutLife /\ SleepersAndUnits

(* Socket.hpp of initialize: it will be called once the socket is created   *)
(* and the broker is prepared to work.                                      *)
InitializedWhenPrepared ==
    (status = "running" /\ broker \in {"testing", "polling", "reading", "handling"}) =>
        \A s \in Sockets : creation[s] = "done" => s \in initialized

(* Valid sockets can be initialized in each life of the service. *)
ValidIsInitialized ==
    [][(life = "walking" /\ life' = "idle") => sockets[walk] \in Invalid]_vars

(* Every request that is sent to a server is answered in the end. *)
RequestsAreAnswered ==
    \A s \in Servers : (owes[s] # <<>>) ~> (owes[s] = <<>> \/ broken)

(* Poll is never built while one of its vectors grows, nor one of them      *)
(* walked while another thread pushes.                                      *)
VectorsAreStable == ~broken
=============================================================================
