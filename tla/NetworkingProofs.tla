-------------------------- MODULE NetworkingProofs --------------------------
(***************************************************************************)
(* Theorems about Networking, for all sockets, clients, threads that wait  *)
(* and handlers, in any order of creation and with any sockets invalid.    *)
(***************************************************************************)
EXTENDS Networking, FiniteSetTheorems, TLAPS

Async == Servers \union Subscribers
Request == [from : Clients, number : Nat, message : Messages]
ClientState == [sent : 0 .. MaxRequests, waiting : BOOLEAN, receiving : BOOLEAN,
                answers : Seq([number : Nat, answer : {Handler[m] : m \in Messages}])]

(* zmq: requests go to the server of their client, those of a client one   *)
(* by one.                                                                 *)
ZmqTyped ==
    /\ queue \in [Async -> Seq(Request \union Messages)]
    /\ \A s \in Servers : queue[s] \in Seq(Request)
    /\ owes \in [Servers -> Seq(Request)]
    /\ client \in [Clients -> ClientState]

(* Where the last request of a client is: waiting for its server, read by  *)
(* it, or answered.                                                        *)
Queued(c) == \E i \in DOMAIN queue[ServerOf[c]] : queue[ServerOf[c]][i].from = c
Owed(c) == owes[ServerOf[c]] # <<>> /\ owes[ServerOf[c]][1].from = c
IsAnswered(c) == client[c].answers # <<>>

QueuesMatch ==
    \A s \in Servers : \A i \in DOMAIN queue[s] :
        /\ ServerOf[queue[s][i].from] = s
        /\ queue[s][i].number = client[queue[s][i].from].sent
        /\ \A j \in DOMAIN queue[s] : queue[s][j].from = queue[s][i].from => i = j

OwedMatch ==
    \A s \in Servers : owes[s] # <<>> =>
        /\ ServerOf[owes[s][1].from] = s
        /\ owes[s][1].number = client[owes[s][1].from].sent

AnswersMatch ==
    \A c \in Clients :
        /\ IsAnswered(c) => client[c].answers[1].number = client[c].sent
        /\ Len(client[c].answers) <= 1

OnePlace ==
    \A c \in Clients :
        /\ ~ (Queued(c) /\ Owed(c)) /\ ~ (Queued(c) /\ IsAnswered(c)) /\ ~ (Owed(c) /\ IsAnswered(c))
        /\ ~ client[c].waiting => ~ Queued(c) /\ ~ Owed(c) /\ ~ IsAnswered(c)

OneRequest == QueuesMatch /\ OwedMatch /\ AnswersMatch /\ OnePlace

(* What the loop of the broker finds in the sockets it has still to reach. *)
Reachable ==
    /\ broker = "reading" =>
          \A s \in ready : queue[s] # <<>> /\ (s \in Servers => owes[s] = <<>>)
    /\ broker = "handling" =>
          /\ \A s \in ready : queue[s] # <<>> \/ (s \in Servers /\ owes[s] # <<>>)
          /\ \A s, r \in ready \intersect Servers : owes[s] # <<>> /\ owes[r] # <<>> => s = r

Bounds ==
    /\ \A s \in Servers : queue[s] # <<>> => MaxRequests > 0
    /\ \A s \in Subscribers : queue[s] # <<>> => Publishers # {} /\ Len(queue[s]) <= MaxRequests

(* TypeOK without what zmq has. *)
Typed ==
    /\ status \in {"stopped", "starting", "running"}
    /\ life \in {"idle", "walking", "spawned", "up", "joining", "destroying"}
    /\ walk \in 0 .. Cardinality(Sockets) + 1
    /\ sockets \in BoundedSeq(Sockets, Cardinality(Sockets)) /\ IsInjective(sockets)
    /\ async \subseteq Async /\ poll \subseteq async /\ ready \subseteq poll
    /\ initialized \subseteq Sockets \ Invalid
    /\ creation \in [Sockets -> {"none", "tested", "pushed", "done", "thrown"}]
    /\ broker \in {"none", "spinning", "first", "prepared", "testing", "polling",
                   "rebuilding", "reading", "handling", "ended"}
    /\ nitems \in 0 .. Cardinality(Async)
    /\ EffectiveRunning!TypeOK

(* Those that are in m_sockets have been pushed, and only the asynchronous *)
(* ones are pushed a second time.                                          *)
Created ==
    /\ \A i \in DOMAIN sockets : creation[sockets[i]] \in {"pushed", "done"}
    /\ \A s \in Sockets : creation[s] = "pushed" => s \in Async

(* The iterator of m_sockets, while the service walks them. *)
Walks == life \in {"walking", "destroying"} => walk > 0

ServiceInv == Typed /\ Created /\ Walks /\ NoBrokerWithoutLife /\ SleepersAndUnits
ZmqInv == ZmqTyped /\ OneRequest /\ Reachable /\ Bounds

-----------------------------------------------------------------------------
(* Lemmas about the sockets. *)

LEMMA SocketCounts ==
    /\ IsFiniteSet(Sockets) /\ Cardinality(Sockets) \in Nat
    /\ IsFiniteSet(Async) /\ Cardinality(Async) \in Nat
    /\ \A S \in SUBSET Async : Cardinality(S) \in 0 .. Cardinality(Async)
<1>1. IsFiniteSet(Sockets)
  BY NetworkingAssumption
<1>2. IsFiniteSet(Async)
  BY <1>1, FS_Subset DEF Async, Sockets
<1>3. ASSUME NEW S \in SUBSET Async
      PROVE  Cardinality(S) \in Nat /\ Cardinality(S) <= Cardinality(Async)
  BY <1>2, <1>3, FS_Subset, FS_CardinalityType
<1>4. Cardinality(Async) \in Nat /\ Cardinality(Sockets) \in Nat
  BY <1>1, <1>2, FS_CardinalityType
<1>5. QED BY <1>1, <1>2, <1>3, <1>4

LEMMA SocketsTyped ==
    ASSUME NEW q
    PROVE  (q \in BoundedSeq(Sockets, Cardinality(Sockets)) /\ IsInjective(q)) <=> (q \in Seq(Sockets) /\ IsInjective(q))
<1>1. ASSUME q \in BoundedSeq(Sockets, Cardinality(Sockets))
      PROVE  q \in Seq(Sockets)
  <2>1. PICK m \in 0 .. Cardinality(Sockets) : q \in [1 .. m -> Sockets]
    BY <1>1 DEF BoundedSeq, SeqOf
  <2>2. QED BY <2>1, SocketCounts
<1>2. ASSUME q \in Seq(Sockets), IsInjective(q)
      PROVE  q \in BoundedSeq(Sockets, Cardinality(Sockets))
  <2>1. /\ q \in [1 .. Len(q) -> Sockets] /\ Len(q) \in Nat /\ DOMAIN q = 1 .. Len(q)
    BY <1>2
  <2>2. q \in Injection(1 .. Len(q), Sockets)
    BY <1>2, <2>1 DEF Injection
  <2>3. Cardinality(1 .. Len(q)) <= Cardinality(Sockets)
    BY <2>2, SocketCounts, FS_Injection
  <2>4. Cardinality(1 .. Len(q)) = Len(q)
    <3>1. \A n \in Nat : Cardinality(1 .. n) = n
      BY FS_Interval
    <3>2. QED BY <2>1, <3>1
  <2>5. Len(q) \in 0 .. Cardinality(Sockets)
    BY <2>1, <2>3, <2>4, SocketCounts
  <2>6. QED BY <2>1, <2>5 DEF BoundedSeq, SeqOf
<1>3. QED BY <1>1, <1>2

-----------------------------------------------------------------------------
(* The threads that wait: Semaphore as the service uses it. *)

LEMMA WaitStep ==
    ASSUME EffectiveRunning!TypeOK, SleepersAndUnits,
           \/ EffectiveRunning!Signal
           \/ \E t \in Waiters : EffectiveRunning!Test(t) \/ EffectiveRunning!SpuriousWakeUp(t) \/ EffectiveRunning!Leave(t)
           \/ UNCHANGED waitVars
    PROVE  EffectiveRunning!TypeOK' /\ SleepersAndUnits'
<1> USE NetworkingAssumption DEF EffectiveRunning!TypeOK, SleepersAndUnits, EffectiveRunning!SleepersAndUnits
<1>1. CASE EffectiveRunning!Signal
  BY <1>1 DEF EffectiveRunning!Signal, EffectiveRunning!Notified
<1>2. ASSUME NEW t \in Waiters, EffectiveRunning!Test(t)
      PROVE  EffectiveRunning!TypeOK' /\ SleepersAndUnits'
  BY <1>2 DEF EffectiveRunning!Test
<1>3. ASSUME NEW t \in Waiters, EffectiveRunning!SpuriousWakeUp(t)
      PROVE  EffectiveRunning!TypeOK' /\ SleepersAndUnits'
  BY <1>3 DEF EffectiveRunning!SpuriousWakeUp
<1>4. ASSUME NEW t \in Waiters, EffectiveRunning!Leave(t)
      PROVE  EffectiveRunning!TypeOK' /\ SleepersAndUnits'
  BY <1>4 DEF EffectiveRunning!Leave
<1>5. CASE UNCHANGED waitVars
  BY <1>5 DEF waitVars
<1>6. QED BY <1>1, <1>2, <1>3, <1>4, <1>5

-----------------------------------------------------------------------------
(* The service, its sockets and its broker. *)

LEMMA ServiceInit == Init => ServiceInv
<1> SUFFICES ASSUME Init PROVE ServiceInv
  OBVIOUS
<1> USE NetworkingAssumption
<1>1. sockets \in BoundedSeq(Sockets, Cardinality(Sockets)) /\ IsInjective(sockets)
  <2>1. sockets \in Seq(Sockets) /\ IsInjective(sockets)
    BY DEF Init, IsInjective
  <2>2. QED BY <2>1, SocketsTyped
<1>2. walk \in 0 .. Cardinality(Sockets) + 1 /\ nitems \in 0 .. Cardinality(Async)
  BY SocketCounts DEF Init
<1>3. EffectiveRunning!TypeOK /\ SleepersAndUnits
  BY DEF Init, EffectiveRunning!Init, EffectiveRunning!TypeOK, SleepersAndUnits, EffectiveRunning!SleepersAndUnits
<1>4. Typed
  BY <1>1, <1>2, <1>3 DEF Init, Typed
<1>5. Created /\ Walks /\ NoBrokerWithoutLife
  BY DEF Init, Created, Walks, NoBrokerWithoutLife
<1>6. QED BY <1>3, <1>4, <1>5 DEF ServiceInv

LEMMA CreationStep ==
    ASSUME ServiceInv, NEW s \in Sockets, Create(s) \/ Push(s) \/ PushAsync(s)
    PROVE  ServiceInv'
<1> USE DEF ServiceInv, Walks, lifeVars, brokerVars
<1>1. EffectiveRunning!TypeOK' /\ SleepersAndUnits'
  BY WaitStep DEF Typed, Create, Push, PushAsync
<1>2. sockets \in Seq(Sockets) /\ IsInjective(sockets)
  BY SocketsTyped DEF Typed
<1>3. CASE Create(s)
  <2>1. creation[s] = "none" /\ creation' \in {[creation EXCEPT ![s] = "tested"], [creation EXCEPT ![s] = "thrown"]}
    BY <1>3 DEF Create
  <2>2. Created'
    BY <1>2, <1>3, <2>1 DEF Create, Created, Typed
  <2>3. QED BY <1>1, <1>3, <2>1, <2>2 DEF Create, CanInitialize, Typed, NoBrokerWithoutLife
<1>4. CASE Push(s)
  <2>1. /\ creation[s] = "tested" /\ sockets' = Append(sockets, s)
        /\ creation' = [creation EXCEPT ![s] = IF s \in Async THEN "pushed" ELSE "done"]
    BY <1>4 DEF Push, Async
  <2>2. /\ sockets' \in Seq(Sockets) /\ DOMAIN sockets' = 1 .. Len(sockets) + 1
        /\ DOMAIN sockets = 1 .. Len(sockets) /\ Len(sockets) \in Nat
        /\ sockets'[Len(sockets) + 1] = s
        /\ \A i \in 1 .. Len(sockets) : sockets'[i] = sockets[i] /\ sockets[i] \in Sockets
    BY <1>2, <2>1
  <2>3. \A i \in 1 .. Len(sockets) : sockets[i] # s
    BY <2>1, <2>2 DEF Created
  <2>4. IsInjective(sockets')
    BY <1>2, <2>2, <2>3 DEF IsInjective
  <2>5. sockets' \in BoundedSeq(Sockets, Cardinality(Sockets))
    BY <2>2, <2>4, SocketsTyped
  <2>6. Created'
    BY <2>1, <2>2, <2>3 DEF Created, Typed
  <2>7. QED BY <1>1, <1>4, <2>1, <2>4, <2>5, <2>6 DEF Push, Typed, NoBrokerWithoutLife
<1>5. CASE PushAsync(s)
  <2>1. /\ creation[s] = "pushed" /\ creation' = [creation EXCEPT ![s] = "done"]
        /\ async' = async \cup {s}
    BY <1>5 DEF PushAsync
  <2>2. UNCHANGED <<lifeVars, sockets, initialized, brokerVars>>
    BY <1>5 DEF PushAsync
  <2>3. DOMAIN sockets = 1 .. Len(sockets) /\ \A i \in 1 .. Len(sockets) : sockets[i] \in Sockets
    BY <1>2
  <2>4. Created'
    BY <2>1, <2>2, <2>3 DEF Created, Typed
  <2>5. async' \subseteq Async /\ poll' \subseteq async'
    <3>1. s \in Async
      BY <2>1 DEF Created
    <3>2. QED BY <2>1, <2>2, <3>1 DEF Typed
  <2>6. creation' \in [Sockets -> {"none", "tested", "pushed", "done", "thrown"}]
    BY <2>1 DEF Typed
  <2>7. QED BY <1>1, <2>2, <2>4, <2>5, <2>6 DEF Typed, NoBrokerWithoutLife
<1>6. QED BY <1>3, <1>4, <1>5

LEMMA LifeStep ==
    ASSUME ServiceInv, Life
    PROVE  ServiceInv'
<1> USE DEF ServiceInv, createVars, brokerVars
<1>1. EffectiveRunning!TypeOK' /\ SleepersAndUnits'
  BY WaitStep DEF Typed, Life, Initialize, InitializeNext, SpawnBroker, StatusRunning, Stop, Join, DestroyNext
<1>2. UNCHANGED <<sockets, async, creation, nitems, poll, ready>>
  BY DEF Life, Initialize, InitializeNext, SpawnBroker, StatusRunning, Stop, Join, DestroyNext
<1>3. Created'
  BY <1>2 DEF Created
<1>4. /\ Len(sockets) \in 0 .. Cardinality(Sockets) /\ Cardinality(Sockets) \in Nat
      /\ walk \in 0 .. Cardinality(Sockets) + 1
      /\ \A i \in 1 .. Len(sockets) : sockets[i] \in Sockets
  BY SocketCounts DEF Typed, BoundedSeq, SeqOf
<1>5. /\ walk' \in 0 .. Cardinality(Sockets) + 1 /\ Walks'
      /\ life' \in {"idle", "walking", "spawned", "up", "joining", "destroying"}
  BY <1>4 DEF Life, Initialize, InitializeNext, SpawnBroker, StatusRunning, Stop, Join, DestroyNext, Typed, Walks
<1>6. /\ status' \in {"stopped", "starting", "running"}
      /\ broker' \in {broker, "none", "spinning"}
      /\ NoBrokerWithoutLife'
  BY DEF Life, Initialize, InitializeNext, SpawnBroker, StatusRunning, Stop, Join, Joined, DestroyNext,
         Typed, NoBrokerWithoutLife
<1>7. initialized' \subseteq Sockets \ Invalid
  <2>1. CASE InitializeNext
    <3>1. sockets[walk] \in Sockets
      BY <1>4, <2>1 DEF InitializeNext, Walks
    <3>2. QED BY <2>1, <3>1 DEF InitializeNext, CanInitialize, Typed
  <2>2. CASE DestroyNext
    BY <2>2 DEF DestroyNext, Typed
  <2>3. CASE ~ (InitializeNext \/ DestroyNext)
    BY <2>3 DEF Life, Initialize, SpawnBroker, StatusRunning, Stop, Join, Typed
  <2>4. QED BY <2>1, <2>2, <2>3
<1>8. Typed'
  BY <1>1, <1>2, <1>5, <1>6, <1>7 DEF Typed
<1>9. QED BY <1>1, <1>3, <1>5, <1>6, <1>8

LEMMA BrokerStep ==
    ASSUME ServiceInv, Broker \/ PollFails
    PROVE  ServiceInv'
<1> USE DEF ServiceInv, lifeVars, createVars
<1>1. EffectiveRunning!TypeOK' /\ SleepersAndUnits'
  BY WaitStep DEF Typed, Broker, Spin, BuildPoll, NotifyEffectiveRunning, TestRunning, PollTimesOut, PollFails,
                  PollReads, Receive, Handle, TurnEnds
<1>2. UNCHANGED <<status, life, walk, sockets, async, creation, initialized>>
  BY DEF Broker, Spin, BuildPoll, NotifyEffectiveRunning, TestRunning, PollTimesOut, PollFails,
         PollReads, Receive, Handle, TurnEnds
<1>3. Created' /\ Walks'
  BY <1>2 DEF Created, Walks
<1>4. broker \notin {"none", "ended"}
  BY DEF Broker, Spin, BuildPoll, NotifyEffectiveRunning, TestRunning, PollTimesOut, PollFails,
         PollReads, Receive, Handle, TurnEnds
<1>5. NoBrokerWithoutLife'
  BY <1>2, <1>4 DEF NoBrokerWithoutLife
<1>6. broker' \in {"first", "prepared", "testing", "polling", "rebuilding", "reading", "handling", "ended"}
  BY DEF Broker, Spin, BuildPoll, NotifyEffectiveRunning, TestRunning, PollTimesOut, PollFails,
         PollReads, Receive, Handle, TurnEnds, EndOfTurn
<1>7. nitems' \in {nitems, Cardinality(async)}
  BY DEF Broker, Spin, BuildPoll, NotifyEffectiveRunning, TestRunning, PollTimesOut, PollFails,
         PollReads, Receive, Handle, TurnEnds, EndOfTurn
<1>8. nitems' \in 0 .. Cardinality(Async)
  BY <1>7, SocketCounts DEF Typed
<1>9. poll' \subseteq async
  BY DEF Broker, Spin, BuildPoll, NotifyEffectiveRunning, TestRunning, PollTimesOut, PollFails,
         PollReads, Receive, Handle, TurnEnds, Typed
<1>10. ready' \subseteq poll'
  BY DEF Broker, Spin, BuildPoll, NotifyEffectiveRunning, TestRunning, PollTimesOut, PollFails,
         PollReads, Readable, Receive, Handle, TurnEnds, Typed
<1>11. Typed'
  BY <1>1, <1>2, <1>6, <1>8, <1>9, <1>10 DEF Typed
<1>12. QED BY <1>1, <1>3, <1>5, <1>11

(* The clients, the publishers and those that wait leave the service alone. *)
LEMMA ServiceUnchanged ==
    ASSUME ServiceInv,
           UNCHANGED <<lifeVars, createVars, initialized, brokerVars>>,
           (\E t \in Waiters : EffectiveRunning!Test(t) \/ EffectiveRunning!SpuriousWakeUp(t)
                               \/ EffectiveRunning!Leave(t)) \/ UNCHANGED waitVars
    PROVE  ServiceInv'
<1>1. EffectiveRunning!TypeOK' /\ SleepersAndUnits'
  BY WaitStep DEF ServiceInv, Typed
<1>2. UNCHANGED <<status, life, walk, sockets, async, creation, initialized, broker, nitems, poll, ready>>
  BY DEF lifeVars, createVars, brokerVars
<1>3. Typed'
  BY <1>1, <1>2 DEF ServiceInv, Typed
<1>4. Created' /\ Walks' /\ NoBrokerWithoutLife'
  BY <1>2 DEF ServiceInv, Created, Walks, NoBrokerWithoutLife
<1>5. QED BY <1>1, <1>3, <1>4 DEF ServiceInv

LEMMA ServiceStep == ServiceInv /\ [Next]_vars => ServiceInv'
<1> SUFFICES ASSUME ServiceInv, [Next]_vars PROVE ServiceInv'
  OBVIOUS
<1>1. ASSUME NEW s \in Sockets, Create(s) \/ Push(s) \/ PushAsync(s)
      PROVE  ServiceInv'
  BY <1>1, CreationStep
<1>2. CASE Life
  BY <1>2, LifeStep
<1>3. CASE Broker \/ PollFails
  BY <1>3, BrokerStep
<1>4. ASSUME NEW c \in Clients, (\E m \in Messages : Send(c, m)) \/ Answered(c) \/ TimesOut(c)
      PROVE  ServiceInv'
  BY <1>4, ServiceUnchanged DEF Send, Answered, TimesOut
<1>5. ASSUME NEW p \in Publishers, NEW m \in Messages, Publish(p, m)
      PROVE  ServiceInv'
  BY <1>5, ServiceUnchanged DEF Publish
<1>6. ASSUME NEW t \in Waiters, WaitEffectiveRunning(t)
      PROVE  ServiceInv'
  BY <1>6, ServiceUnchanged DEF WaitEffectiveRunning
<1>7. CASE UNCHANGED vars
  BY <1>7, ServiceUnchanged DEF vars
<1>8. QED BY <1>1, <1>2, <1>3, <1>4, <1>5, <1>6, <1>7 DEF Next

-----------------------------------------------------------------------------
(* The requests and their answers. *)

LEMMA ZmqInit == Init => ZmqInv
<1> SUFFICES ASSUME Init PROVE ZmqInv
  OBVIOUS
<1> USE NetworkingAssumption DEF Init
<1>1. ZmqTyped
  BY DEF ZmqTyped, ClientState, Async
<1>2. QueuesMatch /\ OwedMatch /\ AnswersMatch
  BY DEF QueuesMatch, OwedMatch, AnswersMatch, IsAnswered, Async
<1>3. OnePlace
  BY DEF OnePlace, Queued, Owed, IsAnswered
<1>4. Reachable /\ Bounds
  BY DEF Reachable, Bounds
<1>5. QED BY <1>1, <1>2, <1>3, <1>4 DEF ZmqInv, OneRequest

LEMMA ZmqUnchanged ==
    ASSUME ZmqInv, UNCHANGED zmqVars,
           broker' \notin {"reading", "handling"} \/ UNCHANGED <<broker, ready>>
    PROVE  ZmqInv'
<1>1. UNCHANGED <<queue, owes, client>>
  BY DEF zmqVars
<1>2. ZmqTyped' /\ Bounds'
  BY <1>1 DEF ZmqInv, ZmqTyped, Bounds
<1>3. OneRequest'
  BY <1>1 DEF ZmqInv, OneRequest, QueuesMatch, OwedMatch, AnswersMatch, OnePlace, Queued, Owed, IsAnswered
<1>4. Reachable'
  BY <1>1 DEF ZmqInv, Reachable
<1>5. QED BY <1>2, <1>3, <1>4 DEF ZmqInv

LEMMA PollReadsStep ==
    ASSUME ServiceInv, ZmqInv, PollReads
    PROVE  ZmqInv'
<1>1. UNCHANGED <<queue, owes, client>>
  BY DEF PollReads, zmqVars
<1>2. ZmqTyped' /\ Bounds'
  BY <1>1 DEF ZmqInv, ZmqTyped, Bounds
<1>3. OneRequest'
  BY <1>1 DEF ZmqInv, OneRequest, QueuesMatch, OwedMatch, AnswersMatch, OnePlace, Queued, Owed, IsAnswered
<1>4. Reachable'
  BY <1>1 DEF PollReads, Readable, Reachable
<1>5. QED BY <1>2, <1>3, <1>4 DEF ZmqInv
LEMMA ReceiveStep ==
    ASSUME ServiceInv, ZmqInv, NEW s \in ready, Receive(s)
    PROVE  ZmqInv'
<1> USE NetworkingAssumption DEF ZmqInv, OneRequest
<1>1. /\ s \in Async /\ ready \subseteq Async
      /\ s \notin Servers => s \in Subscribers
      /\ queue[s] # <<>> /\ (s \in Servers => owes[s] = <<>>)
  BY DEF Receive, ServiceInv, Typed, Reachable, Async
<1>2. UNCHANGED client /\ broker' = "handling" /\ queue' = [queue EXCEPT ![s] = Tail(queue[s])]
  BY DEF Receive
<1>3. /\ queue[s] \in Seq(Request \union Messages) /\ (s \in Servers => queue[s] \in Seq(Request))
      /\ \A r \in Async : queue'[r] = IF r = s THEN Tail(queue[s]) ELSE queue[r]
  BY <1>1, <1>2 DEF ZmqTyped
<1>4. /\ Len(queue[s]) \in Nat \ {0} /\ DOMAIN queue[s] = 1 .. Len(queue[s])
      /\ Tail(queue[s]) \in Seq(Request \union Messages) /\ (s \in Servers => Tail(queue[s]) \in Seq(Request))
      /\ Len(Tail(queue[s])) = Len(queue[s]) - 1 /\ DOMAIN Tail(queue[s]) = 1 .. (Len(queue[s]) - 1)
      /\ \A i \in 1 .. (Len(queue[s]) - 1) : Tail(queue[s])[i] = queue[s][i + 1]
      /\ Head(queue[s]) = queue[s][1] /\ (s \in Servers => queue[s][1] \in Request)
  BY <1>1, <1>3
<1>5. \A r \in Servers : owes'[r] = IF r = s THEN <<queue[s][1]>> ELSE owes[r]
  BY <1>4 DEF Receive
<1>6. queue'[s] = Tail(queue[s])
  BY <1>1, <1>3
<1>7. /\ DOMAIN queue'[s] = 1 .. (Len(queue[s]) - 1) /\ Len(queue'[s]) = Len(queue[s]) - 1
      /\ \A i \in DOMAIN queue'[s] :
            queue'[s][i] = queue[s][i + 1] /\ i + 1 \in DOMAIN queue[s] /\ i \in Nat /\ i + 1 # 1
  <2>1. DOMAIN queue'[s] = 1 .. (Len(queue[s]) - 1) /\ Len(queue'[s]) = Len(queue[s]) - 1
    BY <1>4, <1>6
  <2>2. \A i \in 1 .. (Len(queue[s]) - 1) : i + 1 \in 1 .. Len(queue[s]) /\ i \in Nat /\ i + 1 # 1
    BY <1>4
  <2>3. QED BY <1>4, <1>6, <2>1, <2>2
<1>8. ZmqTyped'
  <2>1. queue' \in [Async -> Seq(Request \union Messages)]
    BY <1>1, <1>2, <1>4 DEF ZmqTyped
  <2>2. \A r \in Servers : queue'[r] \in Seq(Request)
    BY <1>3, <1>4 DEF ZmqTyped, Async
  <2>3. owes' \in [Servers -> Seq(Request)]
    BY <1>4 DEF Receive, ZmqTyped
  <2>4. QED BY <1>2, <2>1, <2>2, <2>3 DEF ZmqTyped
<1>9. QueuesMatch'
  <2>1. ASSUME NEW r \in Servers, r # s
        PROVE  queue'[r] = queue[r]
    BY <1>3, <2>1 DEF Async
  <2>2. ASSUME s \in Servers, NEW i \in DOMAIN queue'[s]
        PROVE  /\ queue'[s][i] = queue[s][i + 1] /\ i + 1 \in DOMAIN queue[s] /\ i \in Nat
    BY <1>7
  <2>3. ASSUME NEW r \in Servers, r = s, NEW i \in DOMAIN queue'[s]
        PROVE  /\ ServerOf[queue'[s][i].from] = s
               /\ queue'[s][i].number = client[queue'[s][i].from].sent
               /\ \A j \in DOMAIN queue'[s] : queue'[s][j].from = queue'[s][i].from => i = j
    <3>1. /\ queue'[s][i] = queue[s][i + 1] /\ i + 1 \in DOMAIN queue[s] /\ i \in Nat
      BY <2>2, <2>3
    <3>2. ASSUME NEW j \in DOMAIN queue'[s], queue'[s][j].from = queue'[s][i].from
          PROVE  i = j
      <4>1. /\ queue'[s][j] = queue[s][j + 1] /\ j + 1 \in DOMAIN queue[s] /\ j \in Nat
        BY <2>2, <2>3
      <4>2. i + 1 = j + 1
        BY <2>3, <3>1, <3>2, <4>1 DEF QueuesMatch
      <4>3. QED BY <3>1, <4>1, <4>2
    <3>3. QED BY <2>3, <3>1, <3>2 DEF QueuesMatch
  <2>4. QED BY <1>2, <2>1, <2>3 DEF QueuesMatch
<1>10. OwedMatch'
  <2>1. ASSUME NEW r \in Servers, r = s
        PROVE  /\ owes'[r][1] = queue[s][1]
               /\ ServerOf[queue[s][1].from] = s /\ queue[s][1].number = client[queue[s][1].from].sent
    BY <1>4, <1>5, <2>1 DEF QueuesMatch
  <2>2. QED BY <1>2, <1>5, <2>1 DEF OwedMatch
<1>11. AnswersMatch'
  BY <1>2 DEF AnswersMatch, IsAnswered
<1>12. OnePlace'
  <2>1. ASSUME NEW c \in Clients
        PROVE  /\ Queued(c)' => Queued(c)
               /\ Owed(c)' => Owed(c) \/ (Queued(c) /\ ~ Queued(c)')
    <3>1. ServerOf[c] \in Servers /\ ServerOf[c] \in Async
      BY DEF Async
    <3>2. CASE ServerOf[c] # s
      BY <1>3, <1>5, <3>1, <3>2 DEF Queued, Owed
    <3>3. CASE ServerOf[c] = s
      <4>1. s \in Servers
        BY <3>1, <3>3
      <4>2. \A i \in DOMAIN queue'[s] : queue'[s][i] = queue[s][i + 1] /\ i + 1 \in DOMAIN queue[s] /\ i + 1 # 1
        BY <1>7
      <4>3. Queued(c)' => Queued(c)
        BY <3>3, <4>2 DEF Queued
      <4>4. ASSUME Owed(c)'
            PROVE  Queued(c) /\ ~ Queued(c)'
        <5>1. owes'[s][1] = queue[s][1] /\ 1 \in DOMAIN queue[s] /\ queue[s][1].from = c
          BY <1>4, <1>5, <3>3, <4>1, <4>4 DEF Owed
        <5>2. \A j \in DOMAIN queue[s] : queue[s][j].from = c => 1 = j
          BY <4>1, <5>1 DEF QueuesMatch
        <5>3. QED BY <3>3, <4>2, <5>1, <5>2 DEF Queued
      <4>5. QED BY <4>3, <4>4
    <3>4. QED BY <3>2, <3>3
  <2>2. \A c \in Clients : IsAnswered(c)' = IsAnswered(c)
    BY <1>2 DEF IsAnswered
  <2>3. QED BY <1>2, <2>1, <2>2 DEF OnePlace
<1>13. Reachable'
  <2>1. ready' \subseteq ready /\ (s \in ready' => s \in Servers) /\ ready \subseteq Async
    BY <1>1 DEF Receive
  <2>2. \A r \in ready : queue[r] # <<>> /\ (r \in Servers => owes[r] = <<>>)
    BY DEF Receive, Reachable
  <2>3. \A r \in ready' : queue'[r] # <<>> \/ (r \in Servers /\ owes'[r] # <<>>)
    BY <1>3, <1>5, <2>1, <2>2
  <2>4. \A r \in ready' \intersect Servers : owes'[r] # <<>> => r = s
    BY <1>5, <2>1, <2>2
  <2>5. QED BY <1>2, <2>3, <2>4 DEF Reachable
<1>14. Bounds'
  <2>1. \A r \in Servers : queue'[r] # <<>> => queue[r] # <<>>
    BY <1>1, <1>3 DEF Async
  <2>2. \A r \in Subscribers : queue'[r] # <<>> => Publishers # {} /\ Len(queue'[r]) <= MaxRequests
    <3>1. \A r \in Subscribers : r # s => queue'[r] = queue[r]
      BY <1>3 DEF Async
    <3>2. s \in Subscribers => Len(queue'[s]) <= MaxRequests /\ Publishers # {}
      BY <1>1, <1>4, <1>7 DEF Bounds
    <3>3. QED BY <3>1, <3>2 DEF Bounds
  <2>3. QED BY <2>1, <2>2 DEF Bounds
<1>15. QED BY <1>8, <1>9, <1>10, <1>11, <1>12, <1>13, <1>14
LEMMA HandleStep ==
    ASSUME ServiceInv, ZmqInv, Handle
    PROVE  ZmqInv'
<1> USE NetworkingAssumption DEF ZmqInv, OneRequest
<1> DEFINE answering == {r \in ready \intersect Servers : owes[r] # <<>>}
<1>1. UNCHANGED queue /\ broker' = "reading" /\ Bounds'
  BY DEF Handle, Bounds
<1>2. CASE answering = {}
  <2>1. UNCHANGED <<ready, owes, client>>
    BY <1>2 DEF Handle
  <2>2. ZmqTyped' /\ OneRequest'
    BY <1>1, <2>1 DEF ZmqTyped, QueuesMatch, OwedMatch, AnswersMatch, OnePlace, Queued, Owed, IsAnswered
  <2>3. Reachable'
    BY <1>1, <1>2, <2>1 DEF Handle, Reachable
  <2>4. QED BY <1>1, <2>2, <2>3
<1>3. ASSUME NEW s \in answering,
             ready' = ready \ {s},
             IF Handler[owes[s][1].message] = Mute THEN UNCHANGED <<owes, client>>
             ELSE client' = SendsTo(owes[s][1]) /\ owes' = [owes EXCEPT ![s] = <<>>]
      PROVE  ZmqInv'
  <2>1. /\ s \in Servers /\ s \in ready /\ owes[s] # <<>> /\ owes[s] \in Seq(Request) /\ owes[s][1] \in Request
    BY DEF ZmqTyped
  <2>2. Reachable'
    <3>1. \A r \in ready : r # s => queue[r] # <<>> /\ (r \in Servers => owes[r] = <<>>)
      BY <2>1 DEF Handle, Reachable
    <3>2. \A r \in Servers : r # s => owes'[r] = owes[r]
      BY <1>3 DEF ZmqTyped
    <3>3. QED BY <1>1, <1>3, <3>1, <3>2 DEF Reachable
  <2>3. CASE Handler[owes[s][1].message] = Mute
    BY <1>1, <1>3, <2>2, <2>3
       DEF ZmqTyped, QueuesMatch, OwedMatch, AnswersMatch, OnePlace, Queued, Owed, IsAnswered
  <2>4. CASE Handler[owes[s][1].message] # Mute
    <3>0. PICK c \in Clients : c = owes[s][1].from
      BY <2>1 DEF Request
    <3> DEFINE answer == [number |-> owes[s][1].number, answer |-> Handler[owes[s][1].message]]
    <3>1. /\ client' = [client EXCEPT ![c].answers = Append(client[c].answers, answer)]
          /\ owes' = [owes EXCEPT ![s] = <<>>]
      BY <1>3, <2>4, <3>0 DEF SendsTo
    <3>2. c \in Clients /\ ServerOf[c] = s /\ owes[s][1].number = client[c].sent /\ Owed(c)
      BY <2>1, <3>0 DEF OwedMatch, Owed
    <3>3. client[c].waiting /\ client[c].answers = <<>> /\ ~ Queued(c)
      BY <3>2 DEF OnePlace, IsAnswered
    <3>4. /\ answer \in [number : Nat, answer : {Handler[m] : m \in Messages}]
          /\ answer.number = client[c].sent
      BY <2>1, <3>2 DEF Request
    <3> HIDE DEF answer
    <3>5. client' = [client EXCEPT ![c].answers = <<answer>>]
      BY <3>1, <3>3
    <3>6. /\ \A d \in Clients : d # c => client'[d] = client[d]
          /\ client'[c].sent = client[c].sent /\ client'[c].waiting = client[c].waiting
          /\ client'[c].receiving = client[c].receiving /\ client'[c].answers = <<answer>>
      BY <3>2, <3>5 DEF ZmqTyped, ClientState
    <3>7. \A r \in Servers : owes'[r] = IF r = s THEN <<>> ELSE owes[r]
      BY <3>1 DEF ZmqTyped
    <3>8. ZmqTyped'
      <4>1. client' \in [Clients -> ClientState]
        <5>1. client[c] \in ClientState /\ <<answer>> \in Seq([number : Nat, answer : {Handler[m] : m \in Messages}])
          BY <3>2, <3>4 DEF ZmqTyped
        <5>2. client'[c] \in ClientState
          BY <3>2, <3>5, <5>1 DEF ZmqTyped, ClientState
        <5>3. QED BY <3>2, <3>5, <5>2 DEF ZmqTyped
      <4>2. owes' \in [Servers -> Seq(Request)]
        BY <3>1 DEF ZmqTyped
      <4>3. QED BY <1>1, <4>1, <4>2 DEF ZmqTyped
    <3>9. \A d \in Clients : client'[d].sent = client[d].sent /\ client'[d].waiting = client[d].waiting
      BY <3>6
    <3>10. QueuesMatch'
      <4>1. ASSUME NEW r \in Servers, NEW i \in DOMAIN queue[r]
            PROVE  queue[r][i].from \in Clients
        <5>1. queue[r] \in Seq(Request) /\ queue[r][i] \in Request
          BY <4>1 DEF ZmqTyped
        <5>2. QED BY <5>1 DEF Request
      <4>2. QED BY <1>1, <3>9, <4>1 DEF QueuesMatch
    <3>11. OwedMatch'
      <4>1. ASSUME NEW r \in Servers, owes[r] # <<>>
            PROVE  owes[r][1].from \in Clients
        <5>1. owes[r] \in Seq(Request) /\ owes[r][1] \in Request
          BY <4>1 DEF ZmqTyped
        <5>2. QED BY <5>1 DEF Request
      <4>2. QED BY <3>7, <3>9, <4>1 DEF OwedMatch
    <3>12. AnswersMatch'
      <4>1. client'[c].answers[1].number = client'[c].sent /\ Len(client'[c].answers) <= 1
        BY <3>4, <3>6
      <4>2. ASSUME NEW d \in Clients, d # c
            PROVE  /\ client'[d].answers # <<>> => client'[d].answers[1].number = client'[d].sent
                   /\ Len(client'[d].answers) <= 1
        BY <3>6, <4>2 DEF AnswersMatch, IsAnswered
      <4>3. QED BY <4>1, <4>2 DEF AnswersMatch, IsAnswered
    <3>13. OnePlace'
      <4>1. \A d \in Clients : Queued(d)' = Queued(d)
        BY <1>1 DEF Queued
      <4>2. \A d \in Clients : d # c => IsAnswered(d)' = IsAnswered(d)
        BY <3>6 DEF IsAnswered
      <4>3. \A d \in Clients : ServerOf[d] \in Servers
        OBVIOUS
      <4>4. \A d \in Clients : Owed(d)' => Owed(d)
        BY <3>7, <4>3 DEF Owed
      <4>5. ~ Owed(c)'
        BY <3>2, <3>7, <2>1 DEF Owed
      <4>6. ASSUME NEW d \in Clients, d # c
            PROVE  /\ Queued(d)' = Queued(d) /\ IsAnswered(d)' = IsAnswered(d) /\ (Owed(d)' => Owed(d))
                   /\ client'[d].waiting = client[d].waiting
        BY <3>9, <4>1, <4>2, <4>4, <4>6
      <4>7. /\ Queued(c)' = Queued(c) /\ client'[c].waiting = client[c].waiting
            /\ c \in Clients
        BY <3>2, <3>9, <4>1
      <4>8. QED BY <3>3, <4>5, <4>6, <4>7 DEF OnePlace
    <3>14. QED BY <1>1, <2>2, <3>8, <3>10, <3>11, <3>12, <3>13
  <2>5. QED BY <2>3, <2>4
<1>4. QED BY <1>2, <1>3 DEF Handle
LEMMA SendStep ==
    ASSUME ServiceInv, ZmqInv, NEW c \in Clients, NEW m \in Messages, Send(c, m)
    PROVE  ZmqInv'
<1> USE NetworkingAssumption DEF ZmqInv, OneRequest
<1> DEFINE srv == ServerOf[c]
           request == [from |-> c, number |-> client[c].sent + 1, message |-> m]
<1>1. /\ srv \in Servers /\ srv \in Async
      /\ client[c] \in ClientState /\ client[c].sent \in Nat /\ client[c].sent < MaxRequests /\ ~ client[c].waiting
  <2>1. srv \in Servers /\ srv \in Async /\ client[c] \in ClientState
    BY DEF Async, ZmqTyped
  <2>2. client[c].sent \in 0 .. MaxRequests
    BY <2>1 DEF ClientState
  <2>3. client[c].sent < MaxRequests /\ ~ client[c].waiting
    BY DEF Send, MaySend
  <2>4. QED BY <2>1, <2>2, <2>3
<1>2. /\ UNCHANGED <<owes, ready, broker>>
      /\ client' = [client EXCEPT ![c].sent = client[c].sent + 1, ![c].waiting = TRUE, ![c].receiving = TRUE]
      /\ queue' = [queue EXCEPT ![srv] = Append(queue[srv], request)]
  BY DEF Send, brokerVars
<1>3. ~ Queued(c) /\ ~ Owed(c) /\ ~ IsAnswered(c)
  BY <1>1 DEF OnePlace
<1>4. /\ request \in Request /\ request.from = c /\ request.number = client[c].sent + 1
  BY <1>1 DEF Request
<1> HIDE DEF request, srv
<1>5. /\ queue[srv] \in Seq(Request) /\ DOMAIN queue[srv] = 1 .. Len(queue[srv]) /\ Len(queue[srv]) \in Nat
      /\ Append(queue[srv], request) \in Seq(Request)
      /\ \A r \in Async : r # srv => queue'[r] = queue[r]
      /\ queue'[srv] = Append(queue[srv], request)
  BY <1>1, <1>2, <1>4 DEF ZmqTyped
<1>6. /\ DOMAIN queue'[srv] = 1 .. Len(queue[srv]) + 1 /\ Len(queue'[srv]) = Len(queue[srv]) + 1
      /\ queue'[srv][Len(queue[srv]) + 1] = request
      /\ \A i \in DOMAIN queue[srv] : queue'[srv][i] = queue[srv][i]
  BY <1>4, <1>5
<1>7. /\ \A d \in Clients : d # c => client'[d] = client[d]
      /\ client'[c] = [client[c] EXCEPT !.sent = client[c].sent + 1, !.waiting = TRUE, !.receiving = TRUE]
      /\ client'[c].sent = client[c].sent + 1 /\ client'[c].answers = client[c].answers /\ client'[c].waiting
  BY <1>1, <1>2 DEF ZmqTyped, ClientState
<1>8. ZmqTyped'
  <2>1. client' \in [Clients -> ClientState]
    <3>1. client'[c] \in ClientState
      <4>1. client[c].sent + 1 \in 0 .. MaxRequests
        BY <1>1
      <4>2. QED BY <1>1, <1>7, <4>1 DEF ClientState
    <3>2. QED BY <1>2, <1>7, <3>1 DEF ZmqTyped
  <2>2. queue' \in [Async -> Seq(Request \union Messages)]
    <3>1. Append(queue[srv], request) \in Seq(Request \union Messages)
      BY <1>1, <1>4 DEF ZmqTyped
    <3>2. QED BY <1>1, <1>2, <3>1 DEF ZmqTyped
  <2>3. \A r \in Servers : queue'[r] \in Seq(Request)
    BY <1>5 DEF ZmqTyped, Async
  <2>4. QED BY <1>2, <2>1, <2>2, <2>3 DEF ZmqTyped
<1>9. QueuesMatch'
  <2>1. ASSUME NEW r \in Servers, NEW i \in DOMAIN queue[r]
        PROVE  /\ ServerOf[queue[r][i].from] = r
               /\ queue[r][i].from \in Clients /\ queue[r][i].from # c
               /\ queue[r][i].number = client'[queue[r][i].from].sent
               /\ \A j \in DOMAIN queue[r] : queue[r][j].from = queue[r][i].from => i = j
    <3>1. queue[r] \in Seq(Request) /\ queue[r][i] \in Request
      BY <2>1 DEF ZmqTyped
    <3>2. ServerOf[queue[r][i].from] = r /\ queue[r][i].from \in Clients
      BY <2>1, <3>1 DEF Request, QueuesMatch
    <3>3. queue[r][i].from # c
      BY <1>3, <2>1, <3>2 DEF Queued
    <3>4. QED BY <1>7, <2>1, <3>2, <3>3 DEF QueuesMatch
  <2>2. ASSUME NEW r \in Servers, r # srv
        PROVE  queue'[r] = queue[r]
    BY <1>5, <2>2 DEF Async
  <2>3. ASSUME NEW i \in DOMAIN queue'[srv]
        PROVE  /\ ServerOf[queue'[srv][i].from] = srv
               /\ queue'[srv][i].number = client'[queue'[srv][i].from].sent
               /\ \A j \in DOMAIN queue'[srv] : queue'[srv][j].from = queue'[srv][i].from => i = j
    <3>1. \A j \in DOMAIN queue'[srv] : j \in DOMAIN queue[srv] \/ j = Len(queue[srv]) + 1
      BY <1>5, <1>6
    <3>2. \A j \in DOMAIN queue[srv] : queue'[srv][j] = queue[srv][j] /\ queue'[srv][j].from # c
      BY <1>1, <1>6, <2>1
    <3>3. CASE i \in DOMAIN queue[srv]
      BY SMTT(30), <1>1, <1>4, <1>6, <2>1, <3>1, <3>2, <3>3
    <3>4. CASE i = Len(queue[srv]) + 1
      <4>1. queue'[srv][i].from = c /\ queue'[srv][i].number = client'[c].sent /\ ServerOf[c] = srv
        BY <1>4, <1>6, <1>7, <3>4 DEF srv
      <4>2. QED BY <3>1, <3>2, <3>4, <4>1
    <3>5. QED BY <2>3, <3>1, <3>3, <3>4
  <2>4. QED BY <2>1, <2>2, <2>3 DEF QueuesMatch
<1>10. OwedMatch'
  <2>1. ASSUME NEW r \in Servers, owes[r] # <<>>
        PROVE  /\ owes[r][1].from \in Clients /\ owes[r][1].from # c
    <3>1. owes[r] \in Seq(Request) /\ owes[r][1] \in Request
      BY <2>1 DEF ZmqTyped
    <3>2. owes[r][1].from \in Clients /\ ServerOf[owes[r][1].from] = r
      BY <2>1, <3>1 DEF Request, OwedMatch
    <3>3. QED BY <1>3, <2>1, <3>2 DEF Owed
  <2>2. owes' = owes
    BY <1>2
  <2>3. QED BY <1>7, <2>1, <2>2 DEF OwedMatch
<1>11. AnswersMatch'
  <2>1. client[c].answers = <<>>
    BY <1>3 DEF IsAnswered
  <2>2. \A d \in Clients : d # c =>
            /\ client'[d].answers # <<>> => client'[d].answers[1].number = client'[d].sent
            /\ Len(client'[d].answers) <= 1
    BY <1>7 DEF AnswersMatch, IsAnswered
  <2>3. Len(client'[c].answers) <= 1
    BY <1>7, <2>1
  <2>4. QED BY <1>7, <2>1, <2>2, <2>3 DEF AnswersMatch, IsAnswered
<1>12. OnePlace'
  <2>1. ASSUME NEW d \in Clients
        PROVE  Owed(d)' = Owed(d) /\ IsAnswered(d)' = IsAnswered(d)
    BY <1>2, <1>7 DEF Owed, IsAnswered
  <2>2. ASSUME NEW d \in Clients, d # c, Queued(d)'
        PROVE  Queued(d)
    <3>1. ServerOf[d] \in Servers /\ ServerOf[d] \in Async
      BY DEF Async
    <3>2. CASE ServerOf[d] # srv
      BY <1>5, <2>2, <3>1, <3>2 DEF Queued
    <3>3. CASE ServerOf[d] = srv
      <4>1. PICK i \in DOMAIN queue'[srv] : queue'[srv][i].from = d
        BY <2>2, <3>3 DEF Queued
      <4>2. i # Len(queue[srv]) + 1
        BY <1>4, <1>6, <2>2, <4>1
      <4>3. i \in DOMAIN queue[srv] /\ queue[srv][i].from = d
        BY <1>5, <1>6, <4>1, <4>2
      <4>4. QED BY <3>3, <4>3 DEF Queued
    <3>4. QED BY <3>2, <3>3
  <2>3. QED BY <1>3, <1>7, <2>1, <2>2 DEF OnePlace
<1>13. \A r \in Async : queue[r] # <<>> => queue'[r] # <<>>
  BY <1>5, <1>6
<1>14. Reachable'
  BY <1>2, <1>13 DEF Reachable, ServiceInv, Typed
<1>15. Bounds'
  <2>1. MaxRequests > 0
    BY <1>1
  <2>2. \A r \in Subscribers : queue'[r] = queue[r]
    BY <1>1, <1>5 DEF Async
  <2>3. QED BY <2>1, <2>2 DEF Bounds
<1>16. QED BY <1>8, <1>9, <1>10, <1>11, <1>12, <1>14, <1>15

LEMMA WaitingStep ==
    ASSUME ServiceInv, ZmqInv, NEW c \in Clients, Answered(c) \/ TimesOut(c)
    PROVE  ZmqInv'
<1> USE NetworkingAssumption DEF ZmqInv, OneRequest
<1>1. UNCHANGED <<queue, owes, broker, ready>> /\ client[c] \in ClientState
  BY DEF Answered, TimesOut, brokerVars, ZmqTyped
<1>2. /\ \A d \in Clients : d # c => client'[d] = client[d]
      /\ client'[c] \in ClientState /\ client'[c].sent = client[c].sent
      /\ client' = [client EXCEPT ![c] = client'[c]]
      /\ \/ client'[c].answers = client[c].answers /\ client'[c].waiting = client[c].waiting
         \/ client'[c].answers = <<>> /\ IsAnswered(c)
  <2>1. CASE Answered(c)
    <3>1. client[c].answers # <<>> /\ Len(client[c].answers) <= 1
      BY <2>1 DEF Answered, AnswersMatch
    <3>2. client[c].answers \in Seq([number : Nat, answer : {Handler[m] : m \in Messages}])
      BY <1>1 DEF ClientState
    <3>3. Tail(client[c].answers) = <<>>
      BY <3>1, <3>2
    <3>4. client' = [client EXCEPT ![c].receiving = FALSE, ![c].waiting = FALSE, ![c].answers = <<>>]
      BY <2>1, <3>3 DEF Answered
    <3>5. client'[c] = [client[c] EXCEPT !.receiving = FALSE, !.waiting = FALSE, !.answers = <<>>]
      BY <3>4 DEF ZmqTyped
    <3>6. client'[c] \in ClientState /\ client'[c].answers = <<>> /\ client'[c].sent = client[c].sent
      <4>1. <<>> \in Seq([number : Nat, answer : {Handler[m] : m \in Messages}])
        OBVIOUS
      <4>2. QED BY <1>1, <3>5, <4>1 DEF ClientState
    <3>7. QED BY <3>1, <3>4, <3>6 DEF ZmqTyped, IsAnswered
  <2>2. CASE TimesOut(c)
    <3>1. client' = [client EXCEPT ![c].receiving = FALSE]
      BY <2>2 DEF TimesOut
    <3>2. client'[c] = [client[c] EXCEPT !.receiving = FALSE]
      BY <3>1 DEF ZmqTyped
    <3>3. /\ client'[c] \in ClientState /\ client'[c].answers = client[c].answers
          /\ client'[c].sent = client[c].sent /\ client'[c].waiting = client[c].waiting
      BY <1>1, <3>2 DEF ClientState
    <3>4. QED BY <3>1, <3>3 DEF ZmqTyped
  <2>3. QED BY <2>1, <2>2
<1>3. ZmqTyped'
  BY <1>1, <1>2 DEF ZmqTyped
<1>4. \A d \in Clients : client'[d].sent = client[d].sent
  BY <1>2
<1>5. QueuesMatch'
  <2>1. ASSUME NEW r \in Servers, NEW i \in DOMAIN queue[r]
        PROVE  queue[r][i].from \in Clients
    <3>1. queue[r] \in Seq(Request) /\ queue[r][i] \in Request
      BY <2>1 DEF ZmqTyped
    <3>2. QED BY <3>1 DEF Request
  <2>2. QED BY <1>1, <1>4, <2>1 DEF QueuesMatch
<1>6. OwedMatch'
  <2>1. ASSUME NEW r \in Servers, owes[r] # <<>>
        PROVE  owes[r][1].from \in Clients
    <3>1. owes[r] \in Seq(Request) /\ owes[r][1] \in Request
      BY <2>1 DEF ZmqTyped
    <3>2. QED BY <3>1 DEF Request
  <2>2. QED BY <1>1, <1>4, <2>1 DEF OwedMatch
<1>7. AnswersMatch'
  <2>1. Len(<<>>) <= 1
    OBVIOUS
  <2>2. QED BY <1>2, <2>1 DEF AnswersMatch, IsAnswered
<1>8. OnePlace'
  <2>1. \A d \in Clients : Queued(d)' = Queued(d) /\ Owed(d)' = Owed(d)
    BY <1>1 DEF Queued, Owed
  <2>2. QED BY <1>2, <2>1 DEF OnePlace, IsAnswered
<1>9. Reachable' /\ Bounds'
  BY <1>1 DEF Reachable, Bounds
<1>10. QED BY <1>3, <1>5, <1>6, <1>7, <1>8, <1>9

LEMMA PublishStep ==
    ASSUME ServiceInv, ZmqInv, NEW p \in Publishers, NEW m \in Messages, Publish(p, m)
    PROVE  ZmqInv'
<1> USE NetworkingAssumption DEF ZmqInv, OneRequest
<1>1. UNCHANGED <<owes, client, broker, ready>>
  BY DEF Publish, brokerVars
<1>2. queue' = [s \in Async |-> IF s \in Subscribers \intersect initialized THEN Append(queue[s], m) ELSE queue[s]]
  BY DEF Publish, Async
<1>3. \A s \in Servers : queue'[s] = queue[s]
  BY <1>2 DEF Async
<1>4. ASSUME NEW s \in Subscribers
      PROVE  /\ queue'[s] \in {queue[s], Append(queue[s], m)}
             /\ queue[s] \in Seq(Request \union Messages) /\ Len(queue[s]) < MaxRequests
             /\ Append(queue[s], m) \in Seq(Request \union Messages)
             /\ Len(Append(queue[s], m)) = Len(queue[s]) + 1 /\ Len(queue[s]) \in Nat
  BY <1>2 DEF Async, ZmqTyped, Publish
<1>5. ZmqTyped'
  <2>1. \A s \in Async : queue'[s] \in Seq(Request \union Messages)
    BY <1>3, <1>4 DEF ZmqTyped, Async
  <2>2. queue' \in [Async -> Seq(Request \union Messages)]
    BY <1>2, <2>1
  <2>3. QED BY <1>1, <1>3, <2>2 DEF ZmqTyped
<1>6. OneRequest'
  <2>1. \A c \in Clients : Queued(c)' = Queued(c) /\ Owed(c)' = Owed(c) /\ IsAnswered(c)' = IsAnswered(c)
    BY <1>1, <1>3 DEF Queued, Owed, IsAnswered
  <2>2. QueuesMatch' /\ OwedMatch' /\ AnswersMatch'
    BY <1>1, <1>3 DEF QueuesMatch, OwedMatch, AnswersMatch, IsAnswered
  <2>3. QED BY <1>1, <2>1, <2>2 DEF OnePlace
<1>7. Reachable'
  <2>1. \A s \in Async : queue[s] # <<>> => queue'[s] # <<>>
    BY <1>3, <1>4 DEF Async
  <2>2. QED BY <1>1, <2>1 DEF Reachable, ServiceInv, Typed
<1>8. Bounds'
  <2>1. \A s \in Subscribers : Publishers # {} /\ Len(queue'[s]) <= MaxRequests
    BY <1>4
  <2>2. QED BY <1>3, <2>1 DEF Bounds
<1>9. QED BY <1>5, <1>6, <1>7, <1>8

LEMMA ZmqStep == ServiceInv /\ ZmqInv /\ [Next]_vars => ZmqInv'
<1> SUFFICES ASSUME ServiceInv, ZmqInv, [Next]_vars PROVE ZmqInv'
  OBVIOUS
<1>1. ASSUME NEW s \in Sockets, Create(s) \/ Push(s) \/ PushAsync(s)
      PROVE  ZmqInv'
  BY <1>1, ZmqUnchanged DEF Create, Push, PushAsync, brokerVars
<1>2. CASE Life
  BY <1>2, ZmqUnchanged
     DEF Life, Initialize, InitializeNext, SpawnBroker, StatusRunning, Stop, Join, DestroyNext, brokerVars
<1>3. CASE PollReads
  BY <1>3, PollReadsStep
<1>4. ASSUME NEW s \in ready, Receive(s)
      PROVE  ZmqInv'
  BY <1>4, ReceiveStep
<1>5. CASE Handle
  BY <1>5, HandleStep
<1>6. CASE Spin \/ BuildPoll \/ NotifyEffectiveRunning \/ TestRunning \/ PollTimesOut \/ PollFails \/ TurnEnds
  BY <1>6, ZmqUnchanged
     DEF Spin, BuildPoll, NotifyEffectiveRunning, TestRunning, PollTimesOut, PollFails, TurnEnds, EndOfTurn
<1>7. ASSUME NEW c \in Clients, NEW m \in Messages, Send(c, m)
      PROVE  ZmqInv'
  BY <1>7, SendStep
<1>8. ASSUME NEW c \in Clients, Answered(c) \/ TimesOut(c)
      PROVE  ZmqInv'
  BY <1>8, WaitingStep
<1>9. ASSUME NEW p \in Publishers, NEW m \in Messages, Publish(p, m)
      PROVE  ZmqInv'
  BY <1>9, PublishStep
<1>10. ASSUME NEW t \in Waiters, WaitEffectiveRunning(t)
       PROVE  ZmqInv'
  BY <1>10, ZmqUnchanged DEF WaitEffectiveRunning, brokerVars
<1>11. CASE UNCHANGED vars
  BY <1>11, ZmqUnchanged DEF vars, brokerVars
<1>12. QED BY <1>1, <1>2, <1>3, <1>4, <1>5, <1>6, <1>7, <1>8, <1>9, <1>10, <1>11 DEF Next, Broker
(* The messages that wait in a socket: one of each client, or as many as   *)
(* the publishers may send.                                                *)
LEMMA QueueBounded ==
    ASSUME ZmqInv
    PROVE  \A s \in Async : Len(queue[s]) <= MaxRequests * Cardinality(Clients \cup Publishers)
<1> USE NetworkingAssumption DEF ZmqInv
<1> DEFINE K == Cardinality(Clients \cup Publishers)
<1>1. IsFiniteSet(Clients \cup Publishers) /\ K \in Nat
  BY FS_Subset, FS_CardinalityType DEF Sockets
<1>2. \A a, b \in Nat : a > 0 => b <= a * b /\ b <= b * a
  <2>1. ASSUME NEW a \in Nat, NEW b \in Nat, a > 0
        PROVE  b <= a * b
    <3>1. a * b = (a - 1) * b + b /\ (a - 1) * b >= 0
      BY <2>1
    <3>2. QED BY <3>1
  <2>2. ASSUME NEW a \in Nat, NEW b \in Nat
        PROVE  a * b = b * a
    OBVIOUS
  <2>3. QED BY <2>1, <2>2
<1>3. ASSUME NEW s \in Async
      PROVE  /\ Len(queue[s]) \in Nat /\ DOMAIN queue[s] = 1 .. Len(queue[s])
             /\ queue[s] = <<>> => Len(queue[s]) = 0
  BY DEF ZmqTyped
<1>4. ASSUME NEW s \in Async, queue[s] = <<>>
      PROVE  Len(queue[s]) <= MaxRequests * K
  BY <1>1, <1>3, <1>4
<1>5. ASSUME NEW s \in Servers, queue[s] # <<>>
      PROVE  Len(queue[s]) <= MaxRequests * K
  <2> DEFINE f == [i \in 1 .. Len(queue[s]) |-> queue[s][i].from]
  <2>1. Len(queue[s]) \in Nat /\ DOMAIN queue[s] = 1 .. Len(queue[s]) /\ MaxRequests > 0
    BY <1>3, <1>5 DEF Async, Bounds
  <2>2. \A i \in 1 .. Len(queue[s]) : queue[s][i].from \in Clients
    <3>1. \A i \in 1 .. Len(queue[s]) : queue[s][i] \in Request
      BY DEF ZmqTyped
    <3>2. QED BY <3>1 DEF Request
  <2>3. f \in Injection(1 .. Len(queue[s]), Clients \cup Publishers)
    BY <2>1, <2>2 DEF Injection, IsInjective, OneRequest, QueuesMatch
  <2>4. Cardinality(1 .. Len(queue[s])) <= K
    BY <1>1, <2>3, FS_Injection
  <2>5. Cardinality(1 .. Len(queue[s])) = Len(queue[s])
    <3>1. \A n \in Nat : Cardinality(1 .. n) = n
      BY FS_Interval
    <3>2. QED BY <2>1, <3>1
  <2>6. K <= MaxRequests * K /\ MaxRequests * K \in Nat
    BY <1>1, <1>2, <2>1
  <2>7. QED BY <1>1, <2>1, <2>4, <2>5, <2>6
<1>6. ASSUME NEW s \in Subscribers, queue[s] # <<>>
      PROVE  Len(queue[s]) <= MaxRequests * K
  <2>1. Publishers # {} /\ Len(queue[s]) <= MaxRequests /\ Len(queue[s]) \in Nat
    BY <1>3, <1>6 DEF Async, Bounds
  <2>2. K > 0
    <3>1. Clients \cup Publishers # {}
      BY <2>1
    <3>2. K # 0
      BY <1>1, <3>1, FS_EmptySet
    <3>3. QED BY <1>1, <3>2
  <2>3. MaxRequests <= MaxRequests * K /\ MaxRequests * K \in Nat
    BY <1>1, <1>2, <2>2
  <2>4. QED BY <2>1, <2>3
<1>7. QED BY <1>4, <1>5, <1>6 DEF Async

-----------------------------------------------------------------------------
LEMMA InvariantHolds == Spec => [](ServiceInv /\ ZmqInv)
<1>1. Init => ServiceInv /\ ZmqInv
  BY ServiceInit, ZmqInit
<1>2. ServiceInv /\ ZmqInv /\ [Next]_vars => ServiceInv' /\ ZmqInv'
  BY ServiceStep, ZmqStep
<1>3. QED BY <1>1, <1>2, PTL DEF Spec

(* NetworkingService: however often it starts and stops, and wherever the  *)
(* creation of the sockets is then, its iterator and m_sockets keep within *)
(* what has been created, no socket is pushed twice, only valid ones are   *)
(* bound or connected, the thread of the broker has left its loop when the *)
(* service walks or destroys the sockets, and nobody sleeps on             *)
(* m_effectiveRunning while it has units.                                  *)
THEOREM BrokerIsSafe == Spec => []BrokerInvariant
<1>1. ServiceInv /\ ZmqInv => BrokerInvariant
  <2>1. ASSUME ServiceInv, ZmqInv
        PROVE  \A s \in Async : Len(queue[s]) <= MaxRequests * Cardinality(Clients \cup Publishers)
    BY <2>1, QueueBounded
  <2>2. ASSUME ServiceInv, ZmqInv
        PROVE  \A c \in Clients : Len(client[c].answers) <= 1
    BY <2>2 DEF ZmqInv, OneRequest, AnswersMatch
  <2>3. QED BY <2>1, <2>2 DEF ServiceInv, Typed, BrokerInvariant, TypeOK, Async
<1>2. QED BY <1>1, InvariantHolds, PTL

(* ClientSocket::send throws when nothing comes in 50 ms, and the answer   *)
(* may come later: whatever the handler does and whenever the service      *)
(* stops, the socket sends nothing until it has read that answer, hence an *)
(* answer that is read is the one to the last request.                     *)
THEOREM AnswersAreMatched == Spec => []AnswersMatchRequests
<1>1. ServiceInv /\ ZmqInv => AnswersMatchRequests
  <2>1. ASSUME ZmqInv, NEW c \in Clients, NEW a \in Range(client[c].answers)
        PROVE  a.number = client[c].sent
    <3>1. client[c].answers \in Seq([number : Nat, answer : {Handler[m] : m \in Messages}])
      BY <2>1 DEF ZmqInv, ZmqTyped, ClientState
    <3>2. PICK i \in DOMAIN client[c].answers : client[c].answers[i] = a
      BY DEF Range
    <3>3. client[c].answers # <<>> /\ i = 1
      BY <2>1, <3>1, <3>2 DEF ZmqInv, OneRequest, AnswersMatch
    <3>4. QED BY <2>1, <3>2, <3>3 DEF ZmqInv, OneRequest, AnswersMatch, IsAnswered
  <2>2. QED BY <2>1 DEF AnswersMatchRequests
<1>2. QED BY <1>1, InvariantHolds, PTL
=============================================================================
