# coffee: verification development

Coffee is a C++ framework for servers: an `Application` owns `Service`s (time,
databases, networking, http), starts them in the order of their requirements and
stops them; below them there is a library of patterns (semaphores, LRU caches,
observers, load balancing, logging). This directory holds TLA+ models of its code,
the TLC runs that check them on small instances, and theorems about them proved
with TLAPS. Paths are relative to `src/source/` unless they say otherwise.

How to run, from this directory:

    tlc -workers 2 -config TimeServiceClock.cfg TimeServiceClock
    tlapm TimeServiceProofs.tla

`PROJECT.json` lists the components, the runs with what each shows, the line of
code behind each definition (`map`), the hazards of the code with the properties
that watch them, and what the code does against its own documentation (`findings`).
Definitions marked `\* mutant` are broken variants of the definition that follows
them, each of which makes a property fail; no specification uses them.

## 1. Inventory

### Components and their state

| Component | Code | State | Operations |
|---|---|---|---|
| Time service | `src/time`, `include/coffee/time` | wheel of lists `timeTable`, `currentQuantum`, `temporaryQuantum`, `events` (id to list and iterator), queue of `ticks` | `activate`, `cancel`, `produce`, `consume`, `do_initialize`, `do_stop` |
| Semaphore | `src/basis/Semaphore.cc` | counter, mutex, condition | `wait`, `signal` |
| Application, services | `src/app` | flags of each `Runnable`, multimap of services, requirements, `stopNow` | `start`, `stop`, `attach`, `require`, `select`, `Service::initialize`, signal handlers |
| Connections | `src/dbms/Connection.cc`, `GuardConnection.cc` | mutex, `m_lockingCounter`, `m_commitPending`, `m_rollbackPending`, `m_maxCommitPending`, the driver's session | `lock`, `execute`, `commit`, `rollback`, `unlock`, `recover` |
| Statements | `src/dbms/Statement.cc`, `GuardStatement.cc` | mutex, binders, `m_isPrepared`, rows | `lock`, input and output data, `execute`, `fetch`, `unlock` |
| Database | `src/dbms/Database.cc` | vectors of connections and statements | `createConnection`, `createStatement`, `do_initialize`, `do_stop` |
| Drivers | `src/dbms.sqlite`, `src/dbms.ldap` | handles of sqlite3 and libldap | `open`, `close`, `do_*` |
| Datatypes, binders | `src/dbms/datatype`, `src/dbms/binder` | a value and its NULL flag | `clear`, `isNull`, `clone`, `compare`, conversions |
| Persistence | `src/persistence` | a `Storage` per class with its cache, hit and fault counters; classes, keys and objects | `load`, `save`, `erase`, `build`, `createPrimaryKey`, `createObject` |
| LRU cache | `include/coffee/basis/pattern/lru/Cache.hpp` | list of pairs, map from key to iterator | `find`, `set`, `erase` |
| Balance | `src/balance` | list of resources, `m_position`, ranges | `add`, `apply` of each strategy, `addRange` |
| Networking | `src/networking` | vectors of sockets, the broker thread and its `Poll` | `create*Socket`, `broker`, `do_stop`, `ClientSocket::send` |
| HTTP | `src/http` | state of the decoder, map of servlets | `HttpProtocolDecoder::apply`, `HttpRequestHandler::apply`, `HttpClient::send` |
| Logger | `src/logger` | static vector of writers, a file and its size, the backtrace | `write`, `initialize`, `add`, `apply` of each writer |
| Other patterns | `include/coffee/basis` | observers, average, tree of solutions | `notify`, `+=`, `Solver::apply` |
| xml | `src/xml` | the tree of libxml2, the wrappers of its nodes, the values that attributes keep | `parse`, `create*`, `setValue`, `compile` |
| config | `src/config` | registry of versions | |

### How they interact

- `Application::start` walks the services by feature and calls `Service::initialize`,
  which calls itself for the services required and then `do_initialize`; those of the
  time service and of networking spawn threads that wait for the status of the service
  to change and announce themselves with `notifyEffectiveRunning` (a `Semaphore`).
- `Runnable::stop` calls `do_stop`: that of the application stops every service and
  wakes `run()` up; that of the time service joins its threads.
- The producer of the time service queues ticks for its consumer, which notifies
  the observers of the events that expire.
- Clients of a `Database` share its connections and statements through
  `GuardConnection` and `GuardStatement`, which are locks; a `Connection` is a
  `balance::Resource`, so that a strategy may pick the one to use. `Storage` puts a
  cache between its clients and these guards.
- `HttpService` handles the messages that the broker of the `NetworkingService`
  receives, in the thread of the broker.

### What is hard

Status flags that are read and written without locks by several threads; conditions
that are notified without their mutex; iterators kept after the lock that made them
valid is released; failures in destructors and half-way through a chain of calls;
modular arithmetic of the wheel; transactions whose state is kept both by the
connection and by its driver; timeouts of request and answer sockets. `hazards` in
`PROJECT.json` names each of them at its line.

### What makes each component correct

- Time service: each active event is in exactly one list of the wheel and is notified
  by the tick its duration asks for; a tick that is queued is drained; `stop` returns.
- Semaphore: nobody sleeps while there are units, a signal wakes somebody up.
- Application: services start after what they require, loops are refused, whatever
  fails; after `start()` nothing runs; a stop is not lost.
- Connections: a guard commits all of its writes or none, and never another's; a
  failure is told to the client; the connection is never left locked.
- Statements: rows and inputs belong to whoever holds the guard; no deadlock.
- Cache and storage: map and list agree, size is bounded, the least recently used is
  evicted; what is cached is what was loaded.
- Balance: an available resource is found whenever there is one, in turn.
- Networking and HTTP: every request is answered once, by the right servlet, and what
  the encoder writes the decoder reads.

## 2. Plan

Done, in this order:

1. `TimeEvents`, `Timers`, `TimeService`, `TimeServiceProofs`, `TimeServiceClock`:
   the wheel, its abstract specification, the refinement and its proof.
2. `TimeServiceThreads`, `TimeServiceRestart`, `TimeServicePacing`: its threads,
   its lives, its pace.
3. `Semaphore`, `Application`: start and stop of the framework.
4. `DbmsConnection`, `GuardStatements`: transactions and the order of the locks.
5. `LruCache`, `RecentlyUsed`, `Storage`, `SharedKeys`, `StorageProofs`:
   the cache, its abstract specification, and the accesses of several clients to it.
6. `Balance`, `BalanceProofs`: resources that come and go, and the strategies.
7. `Networking` (with `Semaphore` in it), `MCNetworking` (with `HttpService` as the handler of
   its servers): the broker, the sockets created meanwhile, requests that time out.
8. `Url`, `HttpProtocol`, `HttpService`, `HttpMessages`: parser, encoder and decoder.
9. `Database`: connections that are created, opened, lost and closed under a client.
10. `Logger`, `Subject`, `Backtracking`, `Average`, `Classes`, `Columns`, `Documents`, composed
    by `MCParts`.
11. `ApplicationProofs`, `DbmsProofs`, `NetworkingProofs`, `DatabaseProofs`: the safety of the
    systems above for all values of their constants.
12. `PartsProofs`: the same of the parts that stand alone; and the refinement of the cache, in
    `StorageProofs`.

Next:

13. `Application`: a second start of one instance, and the requirements of services that are
    attached while it runs. `Networking`: client sockets by their names.

## 3. The models

### Time service

`TimeEvents` has the data: events and the arithmetic from milliseconds to positions of
the wheel. `Timers` is what the service promises: a set of countdown timers.
`TimeService` is the running service: one action for `activate`, `cancel`, one tick of
`produce`, the wake-up of `consume`, each tick it drains, and its wait. The mutex is
in the granularity of the actions: `consume` holds it from the return of
`condition.wait` to the next wait, and `draining` keeps `activate` and `cancel` out. A
`std::list` of the wheel is a set, for no client sees its order. A `Location` is an
iterator, which goes on naming its node when `splice` moves it, so it is modelled
by the position where the node expires.

`TimeServiceClock` adds the milliseconds that really pass. A round of the producer may be late, by
`MaxDelay` at most, and the next wait is shorter by as much (`Corrected`): ticks are due one resolution apart,
but come at any distance. A tick may stay in the queue, and its observers take time: `MaxLate` bounds
what passes from the instant it is due to the end of its drain. An event that is activated just before a late tick has
less than its duration, also when this is a multiple of the resolution. `TimeServiceRestart` adds
`do_stop`, which clears `events` and `ticks` but not the lists, and another
`initialize`. `TimeServiceThreads` drops the wheel and has the three threads statement
by statement, because `isRunning()` is read without the mutex. `TimeServicePacing` has
the correction of `timeToWait`, and `usleep`, which takes the signed `timeToWait` as an
unsigned number.

### Semaphore and application

`Semaphore` has one step for what a thread does between two releases of the mutex,
spurious wake-ups included. In `Application`, the threads are `Main`, which calls
`start()`, threads that call `stop()` (after `waitUntilRunning()`, as the fixtures do,
or at any time, as the handler of SIGTERM does) and threads that call `attach`. Each
has a stack of the calls of `Service::initialize` under way; the graph of requirements
is chosen at the start. The flags of a `Runnable` are a set: `isStopped` is, as in the
code, the absence of flags or `StoppedWithError` alone.

### Databases

`DbmsConnection` has one connection, the guards of its clients, and a driver: what is
written but not committed (`session`), what is committed (`table`), and for SQLite
whether a transaction is open; a write outside of one is committed at once. The test
of availability at the head of `lock` is a step of its own, because it comes before
the mutex. `GuardStatements` has the two kinds of mutexes, what is bound to a shared
statement and what it answers; the constructor of `GuardStatement` is two steps,
`linkStatement` and `lock`, and exceptions leave the block of the guards anywhere but
inside a lock.

### Cache and storage

`LruCache` has the list and the map of `Cache`. A node of the list is a number that is
never used again and an iterator is the number of its node, so that an iterator of a node
that is gone can be told from a good one. `RecentlyUsed` is the promise: a bounded sequence
of pairs in the order of their last use; the refinement mapping reads the list in the order
of its numbers.

`Storage` composes the cache with connections and rows. `load` is five steps, because it
looks the key up before it waits for the connection: `LookUp`, `LoadLocks`, then `LoadHit`,
or `LoadFault` (the statement) and `LoadSets`, and `LoadReturns`. `save` and `erase` come
inside of a guard (`GuardLocks`) that ends with a commit or a rollback, and may commit in the
middle (`hasAutoCommit`). `erase` is two steps: the cache first, the row later; either may
fail. What a connection does with failures is in `DbmsConnection`: here, a guard commits all
of what succeeded or nothing. Two clients inside of the cache at once are not modelled.

`SharedKeys` drops the database and keeps what `LruCache` abstracts: keys are shared
pointers, whose value the client may change, and the map finds an entry by the hash it had
when it was inserted.

### Balance

`Balance` has one list and its strategies. The guard of the list is held for the whole of a
walk, so that there is one at a time (`call`), and each turn of the `do` loop is a step
(`Test`), because `isAvailable` of a resource changes without the list (`Change`, and
`Initialize`, after which those that do not throw are available). `Descend` is `apply` of a
strategy by range, which calls that of the strategy it finds. An iterator is the capacity of
the buffer it was taken from and an index: `push_back` doubles the capacity of a vector that
is full, and an iterator of another buffer must not be used (`undefined`, where the model stops).
`waited` is a history variable, which only `InTurn` reads.

### Networking and http

`Networking` has four kinds of threads: one that initializes and stops the service (`life`,
with its iterator `walk`), one that creates sockets, the broker, and those that wait for it in
`waitEffectiveRunning`, which is an instance of `Semaphore`. A creation is two or three steps (`Create`,
`Push`, `PushAsync`), since it tests the status and changes two vectors without a lock; the broker
is one step for each thing it does with what others may change: the test of the status,
the sizes, `zmq_poll`, `recv`, the handler. `broken` says that a vector was walked while it grew,
where the model stops. What zmq does is external: a socket of type REP answers a request before
it reads another (`owes`), one of type REQ sends nothing until its answer was read (`client`).

`HttpProtocol` has the encoder and the states of the decoder, over tokens: what `readToken` finds
in a block of data, told apart by what the states ask of it. `HttpMessages` has a message in the
hands of its user, who sets headers and bodies, has it encoded, and loses the end of it.
`HttpService` is `HttpRequestHandler::apply`; `MCNetworking` derives from it what the servers of
`Networking` answer (`HandlerAssumption`), and a request without a path is the one to which it
sends nothing. `Url` works on texts, for `URLParser` is about where delimiters are found.

### Database

`Database` has a thread that creates connections and initializes and stops the service, and a
client that finds a connection, locks it, and prepares, executes and fetches a statement, which
is shared by the connections. A session is a number that is never used again, so that a handle of
a session that was closed, or of another connection, can be told; both drivers are in one module, by
their differences (`driver`).

### The parts that stand alone

`Logger` has the writers and a file system whose calls fail as they like; a trace goes from writer
to writer (`todo`: each is asked in its turn whether it wants the line), and a line is the number of its trace, so that its being lost, told twice or out of
order is seen. `Subject` has the calls that an `update` makes while `notify` walks the map, which are what
makes its iterator stale. `Backtracking` has the recursion of `Solver` as a stack of frames, over every
problem of a bounded size. `Average` counts in a type of `2 * Half` values. `Classes` has data as numbers, so
that sharing one and having a clone of it are different things. `Columns` takes a row of two data
through the binders of a driver, into the table and out of it; the values are those that the
conversions treat in different ways (a date is in summer, before the epoch, or has no local
time; a text or a block is its length). `Documents` has the tree of libxml2
and the wrappers beside it, with what they keep of it. Its texts are ASCII, of Latin-1 or beyond it (`Ascii`, `Latin`),
which is what `Content::setValue` and `Compiler::encode` tell apart: what reaches the writer of libxml2 is a
text and whether it is UTF-8 (`Written`), by the encoding that the compiler has, which throws for one it does not know.

## 4. Runs

| Run | Module, configuration | Properties | What it shows |
|---|---|---|---|
| `time_wheel` | `TimeServiceClock`, `TimeServiceClock.cfg` | `WheelMatchesEvents`, `ClockInvariant`, `ImplementsTimers`, `EveryEventExpires` | The lists of the wheel and the map of active events stay in step, and the wheel notifies every event at exactly the tick the countdown timers promise; under a fair producer and consumer every event that stays active is notified. In milliseconds: with rounds, ticks and observers that are late by no more than named bounds, an observer is notified less than a resolution and that lateness early, at most as much late, and, when the duration is a multiple of the resolution, early by no more than the lateness. |
| `time_threads` | `MCTimeServicePacing`, `MCTimeServicePacing.cfg` | `PacingInvariant`, `TicksAreDrained`, `StopReturnsUnlessLost` | Whatever the interleaving of owner, producer and consumer, ticks are drained while both threads live, and a stop returns unless its notification is lost; while no round of the producer is delayed by more than a resolution, its correction keeps the delays from adding up and every tick is in time. |
| `application` | `MCApplication`, `MCApplication.cfg` | `InitializeInvariant`, `DependenciesFirst`, `NothingRunsAfterStop`, `StartupEnds`, `StopEndsStart` | Over 433 graphs of requirements, loops are refused, a service runs only after what it requires, and the start ends, whatever fails; when two threads and start() itself stop the application at once nothing is left running, and start() ends unless it sleeps through the notification. |
| `dbms` | `MCDbmsConnection`, `MCDbmsConnection.cfg` | `GuardsAreAtomic`, `ConnectionInvariant`, `CommitsOwnWritesOnly`, `LockReturnsUnlessStuck` | A driver that queues writes, commits every two and may break at any time, and one with transactions whose statements may find the connection lost: nobody commits what another guard wrote; a guard one of whose critical statements failed, or found the connection lost, adds nothing unless its client goes on; one whose connection does not break under it is committed as a whole, where its client was told of nothing; nothing is left for the next; and every client gets through unless a BEGIN failed. |
| `guards` | `MCGuardStatements`, `MCGuardStatements.cfg` | `GuardInvariant`, `EveryoneLeaves` | Two clients that share a connection take two statements in opposite orders, a third has a connection of its own: no deadlock, and nobody reads another's rows. |
| `guards_deadlock` (*violation*) | `MCGuardStatements`, `MCGuardDeadlock.cfg` | `EveryoneLeaves` | With a connection each, two clients that take two statements in opposite orders wait for each other. |
| `storage` | `MCStorage`, `MCStorage.cfg` | `ListMatchesMap`, `CachedRowsExist`, `ImplementsRecentlyUsed` | Two clients that load, save and erase: the list and the map of the cache stay together and implement a bounded cache in the order of use; with one connection, whatever fails or is rolled back, nothing is found in the cache whose row is gone. |
| `storage_keys` (*violation*) | `SharedKeys`, `SharedKeys.cfg` | `SizeIsBounded` | A primary key that is given another value after load has cached it: set evicts by the value the key has now, the entry of the old one stays in the map, and the cache outgrows its size. |
| `balance` | `MCBalance`, `MCBalance.cfg` | `RangesDisjoint`, `AvailableIsFound`, `InTurn`, `ApplyEndsUnlessNested` | While resources are added, fail and recover under the walk of a strategy, apply throws only if no resource was available all along, the round robin passes over nobody twice, the ranges never overlap, and apply ends unless strategies by range contain each other. |
| `networking` | `MCNetworking`, `MCNetworking.cfg` | `AnswersMatchRequests`, `BrokerInvariant`, `MessagesAreRead`, `WaitsReturn` | A server with the handler of HttpService, a client whose requests time out, a publisher and a subscriber are created while the service starts and stops twice: no client takes a late answer for another one, no handler runs once the sockets are being destroyed, messages are read while the service runs, a stop returns, and threads waiting for the broker are let through. |
| `database` | `Database`, `Database.cfg` | `StatementInvariant`, `RowsAreFetchedOnce`, `InitializedMeansConnected` | Over two drivers, while connections are created, opened, lost and closed by two lives of the service: a statement that is shared is prepared again for each connection, its rows are fetched once each, and the service is only initialized if some connection opened. |
| `parts` | `MCParts`, `MCParts.cfg` | `LogsAreKept`, `SubscribedOnce`, `SolutionsAreFound`, `DataAreSound`, `TreeIsCompiled`, `AverageOfPositives`, `MessagesAreKept`, `UrlIsRead` | The parts that stand alone, one in each behaviour: whatever fails, the writers of the logger keep the lines they took and their files are bounded; an observer is subscribed to one subject at a time; the solver finds every solution; objects of a class share nothing; the columns of a row that is fetched have the values that were stored; what is compiled of a document is what was edited, as far as the conversions of its texts keep them; the average of positive numbers is right until it overflows, and of the rest after; what a URL says is what is parsed, and what is encoded of a message is what is decoded, or nothing. |

A run marked *violation* checks one property that the documentation or a test states,
and TLC finds the behaviour of the code that breaks it; `findings` quotes the words.

Several properties are conjunctions, whose parts are definitions of their own with their own
comments: `ClockInvariant`, `PacingInvariant`, `InitializeInvariant`, `ConnectionInvariant`,
`GuardInvariant`, `BrokerInvariant`, `StatementInvariant` and `MessagesAreKept` hold the type
invariant of their module and what is said of its hazards, `GuardsAreAtomic`, `LogsAreKept`,
`DataAreSound` and `WaitsReturn` two or more of these. The `TypeOK` of `TimeService`, `Storage` and
`Balance` is proved (section 6), and no run repeats it.

### Further configurations

These are run in the same way, but are not among the runs of `PROJECT.json`. A row names
the configuration, with the constants to be changed in it if there are any, and the one
property it is to be run with, in place of those it lists (an `INVARIANT` or, for a temporal
formula, a `PROPERTY`). The first three pass; TLC finds each of the others violated, by a
behaviour of the code that its words do not allow.

| Configuration, module | Property | What it shows |
|---|---|---|
| `MCBalance.cfg`, `MCBalance` | `AvailableIsFound` | *Passes*, like the other properties of `balance`, with `Resources` = {r1, r2, r3, r4} and `Limits <- MCFourLimits`. Four resources: the fourth is the first that is added to a vector with room, so that the positions taken from it stay good. |
| `TimeServiceClock.cfg`, `TimeServiceRestart` | `CancelFindsItsNode` | *Passes*, with `SPECIFICATION RestartSpec`, `Timeouts` = {2, 4} and without `MaxDelay` and `MaxLate`. Whatever a stop left in the lists of the wheel, cancel of an active event erases a node that exists. A list is a set, which is exact while no list holds two nodes of one id; `RoomFor` stops short of that. |
| `Semaphore` | `SignalledWaitReturns` | *Passes*, as a `PROPERTY` of `Spec` with `Threads` = {t1, t2, t3, t4}, `InitialCounter` = 0 and `MaxCounter` = 2: without the networking service around them. |
| `TimeServiceClock.cfg`, `TimeServiceRestart` | `QuietWhenEmpty` | A `PROPERTY`, with the same. `src/time/TimeService.cc:109`: `do_stop` clears `events` and `ticks`, but neither the lists of `timeTable` nor `temporaryQuantum`; a service that is initialized again notifies an observer of its previous life while nothing is activated. `TimeService.hpp:87` says of `empty()` "true if there is not any event activated or false otherwise". |
| `TimeServiceClock.cfg`, `TimeServiceClock` | `NeverEarly` | `src/time/TimeService.cc:150`: `timeout / resolution` drops the remainder, so an event of 3 ms on a wheel of 2 ms may be notified after 2 ms. `TimeService.hpp:74-75`: "Once the duration of this event has been reach the associated observer will be notified". |
| `TimeServiceClock.cfg`, `TimeServiceClock` | `WholeNeverEarly` | `src/time/TimeService.cc:219`: a round that is late makes the next wait shorter; an event of 4 ms on a wheel of 2 ms that is activated just before a late tick is notified after 3 ms. `TimeService.hpp:74-75`, as above. With `MaxDelay` = `MaxLate` = 0 it *passes*. |
| `MCTimeServicePacing.cfg`, `MCTimeServicePacing` | `ServesWhenEffective` | `src/time/TimeService.cc:208`: a producer that is faster than the thread that spawned it finds the service still starting and leaves; the service is then running and effectively running, and has no ticks. `Service.hpp:77` says of `waitEffectiveRunning` "Method to call to be sure Service is fully prepared to accept requests". |
| `MCTimeServicePacing.cfg`, `MCTimeServicePacing` | `StopReturns` | `src/time/TimeService.cc:110`: `do_stop` sets the status and notifies without the mutex; the notification may come between the consumer's test of `isRunning()` (230) and its wait (231), and `consumer.join()` waits for ever. |
| `MCTimeServicePacing.cfg`, `MCTimeServicePacing` | `TicksInTime` | With `Delays <- BeyondResolution`. `src/time/TimeService.cc:219`: a round delayed by more than a resolution makes `timeToWait` negative, and `usleep` takes it as almost 2^32 microseconds. |
| `MCApplicationFew.cfg`, `MCApplication` | `NothingRunsAfterStop` | With `Impatient` = {stopper} and no `Attachers`. `src/app/ApplicationServiceStarter.cc:58`: a `stop()` of another thread (the handler of SIGTERM) that walks the services before they run, and ends after `statusRunning` of `start()`, leaves them running. `ApplicationServiceStarter.hpp:45-46`: "it will stop all services before finished execution". |
| `MCApplicationFew.cfg`, `MCApplication` | `NothingRunsAfterStop` | `src/app/Application.cc:212`: `isRunning()` holds until `do_stop` is over; a service attached behind its walk is initialized and never stopped. |
| `MCApplicationFew.cfg`, `MCApplication` | `FailureIsKept` | `include/coffee/app/Runnable.hpp:47`: `start()` calls `stop()` again and sets `Stopped` over the `StoppedWithError` of the thread whose `do_stop` failed. `Runnable.hpp:60`: "true if this instance had and error during stop processing or false otherwise". |
| `MCApplicationFew.cfg`, `MCApplication` | `StartReturns` | `src/app/ApplicationServiceStarter.cc:59`: `stopNow` is set and notified without the mutex, both possibly between the test of `run()` (47) and its wait (48). |
| `MCDbmsConnection.cfg`, `MCDbmsConnection` | `QuietGuardIsCommitted` | `src/dbms/Connection.cc:183`: `unlock` writes the exception of `commit` to the log; a connection that breaks after the last statement of a guard loses its writes without a word to the client. |
| `MCDbmsConnection.cfg`, `MCDbmsConnection` | `UnbrokenGuardIsCommitted` | With `Settings <- MCTransactions`. The same line: a COMMIT that fails at the end of a guard, of SQLite with `setMaxCommitPending` or a database that is busy, is told to nobody. |
| `MCDbmsConnection.cfg`, `MCDbmsConnection` | `LossIsNotGoneOver` | `src/dbms/Connection.cc:78-82`: a critical statement that finds the connection lost throws before `m_rollbackPending` (97) is set; what was written before it is gone with the session, and a client that goes on has what it writes then committed at `unlock` (180-181): the second part of a guard without the first. `include/coffee/dbms/Statement.hpp:96-98`: "si la ejecucion de esta sentencia falla al desbloquear la conexion con la que ejecutamos esta sentencia se invocara a Connection::rollback". |
| `MCDbmsConnection.cfg`, `MCDbmsConnection` | `BatchedWritesSucceed` | With `Settings <- MCTransactions`. `src/dbms/Connection.cc:104`: `commit` ends the transaction that `lock` began and begins none; with SQLite the second COMMIT of `setMaxCommitPending` throws out of a write that has succeeded. `test/dbms/Definition_test.cc:652` expects of every write, with a driver without transactions, `ASSERT_NO_THROW(writeRecord(writer, ii))`. |
| `MCDbmsConnection.cfg`, `MCDbmsConnection` | `LockReturns` | With `Settings <- MCTransactions` and `Clients` = {c1, c2, c3}. `src/dbms/Connection.cc:162`: a COMMIT that fails leaves its transaction open; the BEGIN of the next guard throws out of `lock` with `m_mutex` locked, and every later client waits for ever. |
| `MCApplicationFew.cfg`, `MCApplication` | `InitializedOnce` | `src/app/Application.cc:154`: `startServices` initializes every service of the multimap, those already `Running` because a service of a lower feature requires them included (a `TimeService` would assign to a joinable `std::thread`). The tests expect one initialization: `ASSERT_EQ(1, service->getInitializedCounter());` (`test/app/Application_test.cc:89`). |
| `MCDbmsConnection.cfg`, `MCDbmsConnection` | `FailedGuardLeavesNothing` | `src/dbms/Connection.cc:122`: `commit` clears `m_rollbackPending` and tests it nowhere; after a critical statement has failed, `GuardConnection::commit` commits what the guard wrote before. `include/coffee/dbms/Statement.hpp:96-98`: "si la ejecucion de esta sentencia falla al desbloquear la conexion con la que ejecutamos esta sentencia se invocara a Connection::rollback". |
| `MCStorage.cfg`, `MCStorage` | `IteratorsAreValid` | `src/persistence/Storage.cc:69`: the iterator that `find` returned is used (89) after the connection has been waited for; another client's load or erase removes its node meanwhile. `Cache.hpp:89`: "the value ii must be contained in [#begin, #end)". |
| `SharedKeys.cfg`, `SharedKeys` | `IteratorsAreValid` | The run `storage_keys` continued: the entry that stayed in the map names a node that is gone, and a `find` of the old value uses it. |
| `MCBalance.cfg`, `MCBalance` | `PositionIsValid` | `src/balance/StrategyRoundRobin.cc:46`: an `apply` on an empty list keeps its `begin()`, and `push_back` moves a vector that is full; the next `apply` compares and uses an iterator that is no longer good. `ResourceList.hpp:94`: "the value ii must be contained in [#resource_begin, #resource_end)". |
| `MCBalance.cfg`, `MCBalance` | `ApplyEnds` | `src/balance/StrategyByRange.cc:46`: a strategy refuses itself ("can not generate a recursive association"), but not another one that contains it, and `apply` never ends. |
| `Semaphore` | `UnitsAreUsed` | With the same constants. `src/basis/Semaphore.cc:30`: `wait` returns as soon as the counter is not 0 and leaves it as it is, so that one signal lets any number of threads through, for ever. `Semaphore.hpp:49-51`: "decrement it by 1 ... Otherwise, the process continues execution, having used a unit of the resource". |
| `MCNetworking.cfg`, `MCNetworking` | `InitializedWhenPrepared` | `src/networking/NetworkingService.cc:160`: a socket that is created while the service starts is pushed behind the walk of `do_initialize` by a thread that has seen the service not running: nobody initializes it. `include/coffee/networking/Socket.hpp:66-69`. |
| `MCNetworking.cfg`, `MCNetworking` | `ValidIsInitialized` | With `MaxLives` = 2: `do_stop` destroys the sockets (149), but leaves them in the vectors; the next `do_initialize` binds a socket that was bound and closed, and throws. |
| `MCNetworking.cfg`, `MCNetworking` | `RequestsAreAnswered` | `src/networking/NetworkingService.cc:119`: a handler that throws leaves its request without an answer, the client without more than its time-out, and the socket of type REP without another request. `HttpRequestHandler::apply` does (`src/http/HttpService.cc:187`): `getPath` throws once more inside of its `catch`. |
| `MCNetworking.cfg`, `MCNetworking` | `VectorsAreStable` | `src/networking/NetworkingService.cc:87`: `Poll` walks `m_serverSockets` and `m_subscriberSockets` in the thread of the broker while another thread pushes sockets. |
| `Database.cfg`, `Database` | `GuardKeepsItsSession` | `src/dbms/Database.cc:102`: `do_stop` and `do_initialize` close and open the connections that a guard of another thread is using; the statement goes to another session than the one it was prepared for. |
| `Database.cfg`, `Database` | `StopClosesEverything` | `src/dbms.sqlite/SqliteConnection.cc:60`: `sqlite3_close` refuses a session with statements that nobody has finalized; its result is not looked at, and the session stays open. |
| `Database.cfg`, `Database` | `StoppedIsClosed` | `src/dbms/Connection.cc:147`: `lock` recovers a connection that is not available, also one that a stop of the service has closed. |
| `Database.cfg`, `Database` | `FailuresAreTold` | `src/dbms.sqlite/SqliteStatement.cc:99`: whatever `sqlite3_step` returns for a select, but SQLITE_DONE, becomes SQLITE_OK: an error is told as a success with a row. |
| `Database.cfg`, `Database` | `NothingAfterTheEnd` | A `PROPERTY`. `src/dbms.sqlite/SqliteStatement.cc:119`: `sqlite3_step` after its end begins the select again; `src/dbms.ldap/LdapStatement.cc:109`: so does the search in entries that `ldap_memfree` (114) has freed. A client that calls `fetch` once more has the first row again, or undefined behaviour. |
| `MCParts.cfg`, `MCParts` | `LevelIsKept` | `src/logger/BacktraceWriter.cc:78`: the level of the logger is set and restored around a backtrace; a `setLevel` of another thread in between is lost. `Logger.hpp:87`: "Change the current level". |
| `MCParts.cfg`, `MCParts` | `StartedAgain` | `src/logger/CircularTraceWriter.cc:146`: a `rename` that fails truncates the file, and throws before it is opened again: the writer has no stream for ever. |
| `MCParts.cfg`, `MCParts` | `IteratorsOfNotify` | `src/basis/pattern/observer/Subject.cc:75`: `notify` walks the map with an iterator that an observer invalidates when its `update` detaches itself. |
| `MCParts.cfg`, `MCParts` | `AttachSubscribes` | A `PROPERTY`. `src/basis/pattern/observer/Subject.cc:42`: an observer whose name is taken is not attached. `Subject.hpp:64`: "Subscribe the observer to change on this subject". |
| `MCParts.cfg`, `MCParts` | `CountIsOfSolutions` | `include/coffee/basis/pattern/backtracking/TreeNode.hpp:165`: the root of a problem without solutions is a leaf, and counted as one. `TreeNode.hpp:154`: "The number of found solutions(which matches with the number of leaf nodes on the tree)". |
| `MCParts.cfg`, `MCParts` | `SolutionsAreErased` | `TreeNode.hpp:187`: a node has a `shared_ptr` to its predecessor, which has one to it; neither is ever freed. `Solver.hpp:67`: "It will erased when the Solver goes out of scope". |
| `MCParts.cfg`, `MCParts` | `EverythingIsCompiled` | `src/xml/Document.cc:152`: a node keeps one text, the last one; `compile` writes that one, where the tree has several. |
| `MCParts.cfg`, `MCParts` | `EveryTextIsCompiled` | `src/xml/Content.cc:41-51`: a value in UTF-8 is kept in Latin-1, up to the first character that Latin-1 does not have; `src/xml/Compiler.cc:106`: without an encoding it is written as it is, and with UTF-8 (139) copied, though the writer takes UTF-8. What is compiled of such a document is not what was parsed. The tests have accents with ISO-8859-1 only (`test/xml/Reading_Document_test.cc:343-354`, `Writing_Document_test.cc:142-157`). |
| `MCParts.cfg`, `MCParts` | `NodesAreAlive` | `src/xml/Document.cc:67`: a `parse` that fails has freed the tree, and `m_root` still wraps its root. |
| `MCParts.cfg`, `MCParts` | `BodyIsWhole` | `src/http/protocol/HttpProtocolDecoder.cc:54`: when the data end, whatever has a first line is answered; a message that is cut off before its body is a message without one. |
| `MCParts.cfg`, `MCParts` | `EncodedIsDecoded` | `src/http/protocol/HttpProtocolEncoder.cc:42`: a Content-Length that is there is left as it is; with another body the message that was encoded is refused, or read in part. |
| `MCParts.cfg`, `MCParts` | `AverageOfValues` | `include/coffee/basis/Average.hpp:132`: a negative value makes the sum less than it was, which is taken for an overflow: the average starts again. |
| `MCParts.cfg`, `MCParts` | `UrlOfTheGrammarIsRead` | `src/http/url/URLParser.cc:70-147`: a delimiter in a later component is found first, and a user and a password shorter than `//` are not found. The grammar is that of `URLParser.cc:32-33`. |
| `MCParts.cfg`, `MCParts` | `EqualKeysHashAlike` | With `Names` = {"a"}, `MaxChanges` = 2, `MaxClasses` = 0. `src/persistence/PrimaryKey.cc:57`: the hash is of the values, also of those that are NULL, which compare as equal whatever they were. |
| `MCParts.cfg`, `MCParts` | `ComparesBothWays` | With `Names` = {"a"}, `MaxChanges` = 2, `MaxClasses` = 0. `src/dbms/datatype/Integer.cc:59`: the difference of two ints overflows, and the comparison has the wrong sign. |
| `MCParts.cfg`, `MCParts` | `StoredIsRead` | With `ColumnTypes` = {"Date"}. `src/dbms/datatype/Date.cc:82`: a date is stored as the text of its local time, and read with `tm_isdst` = 0: where there is daylight saving time, a date of summer is an hour later when it is fetched. `test/dbms.sqlite/SqliteDatabase_test.cc` expects of a row that was written `ASSERT_EQ(now + seconds(counter), select.theDate->getValue())`. |
| `MCParts.cfg`, `MCParts` | `StoredIsRead` | With `ColumnTypes` = {"MultiString"}: `src/dbms.sqlite/SqliteInputBinder.cc:56` has no case for it, and what is not bound is NULL. With `ColumnTypes` = {"Float"}: SQLite stores NULL for a value that is not a number. |
| `MCParts.cfg`, `MCParts` | `FailedFetchReadsNothing` | `src/dbms/Statement.cc:173`: a column that throws (a NULL for an output that can not be, a text that is too long) has those before it changed, and leaves those behind it with the row before. |
| `MCParts.cfg`, `MCParts` | `ClonesAreEqual` | With `Types` = {"String"}. `src/dbms/datatype/String.cc:43`: the copy of a text as long as the datatype allows is without its final zero. `include/coffee/dbms/datatype/Abstract.hpp:132`: "a duplicate of this instance". |

### Bounds, and why they are enough

- `time_wheel`: a wheel of two positions has events of one quantum and of a whole turn (those
  that go to `temporaryQuantum`), with a duration that is a multiple of the resolution and one
  that is not; two ids are two events in the same list or in two. `MaxDelay` =
  `MaxLate` = 1 ms, half of the resolution, is enough for a late tick to shorten the next wait
  and for an event of whole resolutions to be early by it; `MaxTicks` = 1, so that a backlog of
  several ticks against the clock is only in the proof. The theorems of section 6
  remove these bounds for the safety part. No symmetry, which is unsound for liveness.
- `time_threads`: ticks are told apart up to 2, the loops of the threads only depend
  on whether there are any; delays of up to one resolution; words of 64 values instead of
  2^32, more than any legal sleep, and eight rounds, enough for every sequence of two or three
  delays to be followed by another.
- `application`: two sets of scenarios. `start()` alone runs over all 433 graphs of four
  services in which three have at most one requirement and one of them may have two:
  chains, loops of every length up to three, a feature nobody has, an implementation that
  is attached late. Three graphs run with one or two concurrent threads that call `stop()`.
- `dbms`: two guards of one connection with up to three writes each, so that a batch of
  two ends and another begins in one guard; with a driver that queues and one that has
  transactions (`Settings`). The end of one guard and the whole of another are all that
  what is left behind needs to show.
- `guards`: opposite orders need two clients and two statements; the third client shares
  a statement but no connection.
- `storage`: two clients with a connection each or a shared one, two calls each; three keys on
  a cache of two, so that the third evicts; four nodes, as many as the calls can create; five objects,
  so that there is always a new one. The keys are interchangeable: symmetry is used, the run
  has no liveness.
- `balance`: three resources, so that a walk may pass over two, or find a new one behind it; each
  change of availability is one of two, enough for one to fail and another to recover in
  one walk (their first availability is any). The limits are a set of scenarios, because
  ranges and resources do not touch: three resources without ranges, or two ranges, over
  two strategies by range, with the list empty. The identifiers are -1, 0 and 1; `Word` = 16
  stands for 2^64 (a power of two that is not a multiple of three, as 2^64 is not, which is
  what tells the conversion of a negative identifier from a `%` with sign). The theorems
  of section 6 remove these bounds for the safety part.
- `networking`: one socket of each type; two lives of the service, so that sockets are
  destroyed and initialized again; two requests and two publications, so that the answer
  to the first may come while the second is waited for. One request is answered, the other is not.
- `database`: two names and two connections, with one that is created meanwhile; three sessions,
  so that one may be lost and recovered; a table of up to two rows, the first of which is
  read by `do_execute`.
- `parts`: each part has bounds of its own (`MCParts.cfg`). Writers: one of each kind, which rotate
  every two lines, four traces, and files that are full from the start. Observers: three, two of one
  name, over two subjects. Solver: all problems of two levels over two values. Words of four bits.
  Documents: ASCII and accents are created and set, symbols are parsed; documents and compilers have no encoding or
  one that converts nothing beyond ASCII, while the property asks for every encoding. Columns: two rows, so that what is left of the first may be taken for the second; the second
  column is of any datatype, and a text or a block may be longer than the output takes.
  Messages: bodies of no, one and two lines, headers set twice; URLs with every delimiter in the
  components where it is ambiguous.
- `storage_keys`: one primary key with three values and a cache of two is the least with
  which an eviction goes wrong.

Deadlock is not checked where the modelled program comes to its end: all the calls of
`Application`, all the guards, the rounds of the producer have been made, the service
is stopped, or, in `time_wheel`, `MaxTicks` with no client to act; in `balance`, behaviour that the
language does not define, where the model stops.

## 5. Fairness

- Time service: time passes and the consumer goes on while it holds the mutex (weak fairness); the
  producer, which competes for the mutex, obtains it in the end (strong). These threads
  have nothing else to wait for, so a scheduler that runs every thread gives no less.
- `TimeServiceThreads`: strong fairness of producer and consumer, weak of the owner's
  own steps; nobody is obliged to call `stop`.
- `Semaphore`: weak fairness of a thread that has been notified (in `Networking` too); signals
  are not fair.
- `Application`: weak fairness of every step of a thread inside a call; the calls of
  `stop` and `attach` themselves need not happen.
- `DbmsConnection`, `GuardStatements`: destructors run (weak fairness), and a mutex that
  is free again and again is obtained (strong). Drivers need not break, nor exceptions
  happen.
- `Balance`: weak fairness of the steps of an `apply` under way, which waits for nothing once
  it holds the mutex; nobody is obliged to call it, nor to change a resource.
- `Networking`: weak fairness of the broker, of an `initialize` or a `stop` that has begun, and
  of a waiter that has been notified. Nobody is obliged to create sockets, to send or to answer
  in time; `MessagesAreRead` says that a message is received if the socket goes on being served.
- `Database` and the parts have no fairness, nor properties that need it.

## 6. What is proved

`TimeServiceProofs`, for every set of ids and durations, every resolution of at least
1 ms and every `maxTime` above it (`TimesAssumption`: `do_initialize` refuses the rest),
and any bound `MaxTicks`:

- `TypeCorrect`: `Spec => []TypeOK`. The heart of it is `IndexInWheel`: the position that
  `store` computes is on the wheel, which rests on `StepsInRange` (an accepted event runs
  for one quantum to a whole turn) and `Wrap` (`%` of a number below twice the modulus).
- `WheelAndEventsAgree`: `Spec => []WheelMatchesEvents`. With `TypeOK` the property is
  inductive as it stands, because it was stated for that: it says of `temporaryQuantum`
  too where its events are located, and that no id is at once in the list of a
  position and in `temporaryQuantum`. Without this part the step of a tick cannot be proved: the
  `splice` of `temporaryQuantum` into the list of the new position could put two nodes of
  one id together. The proof has a lemma for each action that moves nodes.
- `WheelImplementsTimers`: `Spec => ImplementsTimers`. A node at position `q` is mapped to
  a timer with as many ticks left as there are positions from `currentQuantum` to `q`
  plus one, a node of `temporaryQuantum` to one with a whole turn left. `activate`
  and `cancel` map to those of `Timers`, a tick that is consumed to `Tick`, and the
  steps of the producer and of the mutex to stuttering. `WheelTurns` (a step of the
  wheel takes one from every distance) is the lemma that does the work; the invariant
  above is what makes the mapping unambiguous.
- `EventsRunOnTime`: `ClockSpec => []ClockInvariant`. The invariant is about the countdown of the
  refinement (`Scheduled`): what a timer has aged and the milliseconds to the tick that it waits for
  (`UntilTick`) add up to the same from its activation on, between the quanta of its
  duration and one more. Each step of the wheel is one of `Timers` by the lemmas above, which say
  what becomes of the countdown; a millisecond takes from one part of the sum what it gives to the other, and so does
  what the observers of a tick take; a tick that is produced late takes a resolution from the one and gives it to the
  other, for the correction of `timeToWait` makes ticks due one resolution apart (`TicksAreDue`). `StepsTime` is the rounding of
  `timeout / resolution`. `LatenessAssumption` is that a round is late by a resolution at most: the lateness is part of
  what is proved (early and late by `MaxLate` more than the rounding), so with bounds of 0 an event of whole resolutions is never
  early, and with others it may be. What passes between the last reading of the clock in a
  round and the first of the next is taken as nothing; it would add up.
- `ProducerKeepsPace`: `PacedSpec => []PacingInvariant`, for every resolution, delays and width of
  `useconds_t` that is more than a resolution (`PacingAssumption`). It has the hypothesis `Punctual`: no round is
  delayed by more than a resolution; the behaviour without it is in section 4. The
  invariant, `Paced`, says what `timeToWait` is: a resolution less the delay of the last round, so that its conversion
  by `usleep` changes nothing. `ThreadsTypeOK` is not inductive: that the consumer has the mutex by its place in the
  code needs a life to begin without the threads of the one before (`Lives`).

`StorageProofs`, of `LruCache`, for every set of keys and values and every size above 0
(`CacheAssumption`: `front()` of an empty list is undefined):

- `CacheTypeCorrect` and `CacheListMatchesMap`: `CacheSpec => []CacheTypeOK`, and the same of
  `ListMatchesMap`. The two are one inductive invariant, `Consistent`: that the size is at
  most `MaxSize` after an eviction needs the oldest pair's key to be in the map, which is
  `ListMatchesMap`; that the key is the only one that names the node is what lets
  `updateAccess` and `erase` remove it. `OldestIsANode` (a set of numbers that is not empty
  has a least one) and `RoomForOne` (the cardinality of a set with one more element) are the
  lemmas about data, from the library's theorems; `IsFiniteSet` of the map's keys is part
  of the invariant, so that nothing is assumed of `Keys`.

`StorageProofs`, of `Storage`, for every number of clients, every way to share connections and any
bounds: `StorageTypeCorrect`, `StorageListMatchesMap` and `StorageCachedRowsExist`. The
invariant `StorageInvariant` adds to that of the cache:

- `Guarded`: who is past the lock owns the connection, and only who writes has rows to
  commit. It makes two clients of one connection that are both past the lock equal (`OneGuard`).
- `RowsKept`, the strengthening of `CachedRowsExist`: that a key is in the cache only if it
  has a row is kept by `set` because a load that found the row is still inside of its guard,
  and by the commit because what the guard erased has left the cache and not come back:
  nobody else has loaded it since.

Each action has a lemma, which has a step for each part of the invariant.

`StorageProofs`, of the refinement, for the same constants: `CacheIsLeastRecentlyUsed`
(`CacheSpec => Abstract!Spec`) and `StorageImplementsRecentlyUsed` (`Spec => ImplementsRecentlyUsed`).
The mapping reads the pairs of the list by the ranks of their nodes (`NodeAt`). It is the only way to have the nodes
in order (`OneOrder`), so that to know the list after a step it is enough to name a sequence
that has its nodes in order (`ListingIs`): without one node it is `RemoveAt`, without the oldest `Tail`, with
a new one `Append`. With `Consistent`, `find`, `set` and `erase` are then those of `RecentlyUsed`; the steps of
the storage are one of these or leave the cache alone.

`BalanceProofs`, for every set of resources and strategies, all integers as identifiers and
as ends of ranges, and any bounds: `BalanceTypeCorrect`, `RangesNeverOverlap`,
`AvailableIsAlwaysFound` and `RoundRobinIsFair`. `BalanceAssumption` only keeps the kinds of
strategies apart. `TypeOK` (that an index is on the list) and `RangesDisjoint` are inductive;
the other two need more:

- `NonePassed`: no candidate that a walk has left behind has been available all along. What
  is behind is an interval of a circle (`Passed`), and when the next candidate is the first
  one it is the whole list (`OneMorePassed`).
- `Turns`: a resource has waited for `w` answers only if `w` plus the candidates between the
  position and the resource (`Distance`) are fewer than the list has. Each answer adds one to
  the first and takes one, at least, from the second (`DistanceOfNext`), except for those
  that the walk has passed over, which were not available and start to wait; a resource that is
  added is one more candidate for the list and, at most, for the distance. A walk reads
  `m_position` when it begins, which is why `Turns` has a part about `call.end`.

`ApplicationProofs`, for any services, features and graphs of requirements, any of which may
throw, and any number of threads: `InitializeIsSound`, `NothingIsLeftRunning` and
`RequirementsRunFirst`. `ApplicationAssumption` says what the types of the code say (features
are numbers, the multimap is in their order and without repetitions, threads and services are
different things). The theorems have the hypothesis `Separate`: no thread stops the application
before it runs, and none stops it while others attach services. It is needed: section 4 has the
behaviours without it (`NothingRunsAfterStop` with `Impatient` stoppers, and with a stopper and
an attacher), in which a service is stopped under the call that starts it. The
configuration of the run satisfies it. The invariant `IInv` is:

- `Phases`: what the places of the threads tell of each other and of the flags of the
  application. Main is in `run()` while another thread attaches, there are no attachers left
  when there are stoppers, `stopNow` is not set before `run()`.
- `Stacks`: the calls of `initialize` under way, of all threads together, are for different
  services (`Once`), each of which is in the multimap and has the flag of those that start
  (`Started`). `NoRecursiveInitialize` alone is not inductive: it is the flag, which
  `Service::initialize` tests, that keeps a second call out.
- `Resolved`: the requirements that a call has passed run, but for the one that the call above
  it in the stack is for. It is what makes `statusRunning` come after them, and
  it is stable because nothing stops a service meanwhile, and because `attach` puts a service
  behind those of its feature, so that what `select` finds does not change (`InsertKeepsOrder`).
- `Loops`: what a walk of `do_stop` has passed is stopped (`Walk`, for each thread, with the
  iterators of `FirstIsThere` and `AfterIsThere`), and once the application is stopped all
  the services are (`Over`).

`DbmsProofs`, of `DbmsConnection`, for any clients, bounds and settings. Without hypotheses:
`DbmsTypeCorrect` and `FailedGuardsAddNothing`, which is about a statement that fails and one that finds the connection
lost alike, and about clients that do not go on after either (`wentOn`: one that commits with a rollback pending, or
writes again after a loss, commits a part of its guard; section 4 has both). With `NeverBusy` (no setting in which a COMMIT of a
good connection fails): `ConnectionIsClean`, `GuardsCommitTheirOwn` and `GuardsAreAlwaysAtomic`. A COMMIT that
is refused leaves its transaction open and its writes in the session (`LockReturns`
in section 4), and then neither holds; the run has no such setting either. The parts
of the invariant are `Ownership` (whose `m_mutex` is, and that the locking counter says so),
`Rollbacks` (a guard that failed has a rollback pending, or nothing left in the session, or a
client that is excused, and has committed what it had when it failed), `Sessions` (what is
in the session is of the guard that has the mutex, and without one there is neither session
nor transaction) and `Commits` (what a guard wrote is in the session or committed, or
`m_rollbackPending` or its client knows better). That a guard is atomic needs all four: `unlock`
decides by `m_commitPending` and `m_rollbackPending`, which `recover` and an explicit `commit` change
in the middle.

`DbmsProofs`, of `GuardStatements`, for any clients, connections and statements, and any way to take them:
`RowsAreOnesOwn`. `OwnRows` needs the inputs to be one's own (`Values`), which needs
the mutexes to be (`Ownership`: who is past the lock of a statement has its mutex, and a
statement is in the guards of one client only, at one place), and that nothing is
locked outside (`Unused`).

`NetworkingProofs`, for any sockets, clients, publishers and messages, any order of
creation, any of the sockets invalid: `BrokerIsSafe` and `AnswersAreMatched`. `NetworkingAssumption`
keeps the kinds of sockets apart and gives each client a server. Two invariants:

- `ServiceInv`, of the lives of the service: its iterator and the vectors keep within
  what was created, and the broker is out of its loop when the service walks or destroys.
- `ZmqInv`, of the messages: a request that waits for its answer is in one place (`OnePlace`):
  in the queue of its server, owed by it, or answered, with the number its client gave
  it last. The bound of the queues in `TypeOK` follows from it: `QueueBounded` counts the messages
  of each sender, and takes the cardinality of their union from the library.

`DatabaseProofs`, for any names, connections, rows and sessions, and both drivers:
`StatementsStayOnTheirConnection`, `RowsAreFetchedInOrder` and `RunningIsConnected`. The invariant has a
part for each thing that another may change under a guard: `Sessions` (a session belongs to one
connection for ever, since each open takes a new one), `Client` and `Prepared` (whose the handle
of the statement is, which need not be open), `Rows` (where the cursor of sqlite and the
client's last row are, with `m_fetchIsDone` between them) and `Service` (what the walks of
`do_initialize` have counted: the counter tells of failures, not of connections that are open,
which is why the property excepts the one that a client has in its guard).

`PartsProofs`, of each part that stands alone, for every value of its constants, and then of `PartsSpec`, which
the run checks: a step of the run is a step of the part or leaves it (`PartsStep`).

- `ObserversHaveOneSubject`: `SubjectSpec => []SubscribedOnce`, for any subjects, observers and names. `OneSubject`
  says without numbers what the property counts: the maps of two subjects have no observer in common, and
  `m_isSubscribed` is their union.
- `LinesStayKept` and `LogsStayKept`, for any writers, levels and sizes. `LoggerAssumption` asks for a length of a
  backtrace above 0, since `pop_front` of an empty list is undefined. `LoggerInvariant` has what is left of a trace
  (`TodoIsLeft`: whoever is in the list has not got the line yet, but for the first, which may be telling what it had stored)
  and of each writer (`LinesAreSound`) three things: that what a `BacktraceWriter` stores are the last lines that it was given,
  with no error among them, and how many there are from each of them on (`StoreIsSound`, which is how `pop_front` drops
  the line that is no longer due); that the file comes after its `.old`, and both before what is stored
  (`FileIsSound`); that what is due is in the file or is still to be told, unless the file has failed
  (`NothingIsMissed`). `FilesAreSmall` counts the lines since the last check of the size by `m_lineno`.
- `ColumnsStayRead`: the rows in the table are what those that were stored are encoded as, and the cursor is at the
  row that `fetch` reports (`ColumnsAreSound`). What is kept is then a matter of each type of datum, and of what
  its output was before (`BeforeDecode`).
- `ObjectsStayIndependent`: names of data do not change and data are only added (`Grows`), so that it is enough to
  say of each set, key, class and object what its names are (`ClassesAreSound`); `createObject` clones the members,
  which are data that nobody had. `DataStaySound` is both in the run.
- `SolutionsStayFound`, for every problem, width and depth (`SolverAssumption`: they are numbers). The search is not
  recursive in the model but a stack of frames, so that what it has found can be said in the middle:
  a node has a successor exactly if the search has passed it (`IsPassed`: it is before the path of the
  frames) and it is on the way to a solution (`IsGood`). `exploreSolutions` moves the path on by one node; the
  node it comes back from is good if its own tree has successors (`KnowSolutions`), or if it was accepted.
  No node of the path was judged (`IsOpen`). When the stack is empty all nodes have been passed.
- `TreesStayCompiled`. `DocumentAssumption` says of what is parsed what libxml2 says of it: a node has one attribute of a name.
  While the handler is that of the root, the wrappers are those of the nodes of the tree (`IsWrapped`: the children, the first
  attribute of each name, the last text), and what an attribute keeps is what the tree has (`IsInTree`). A second
  attribute of a name is in the tree and not among the wrappers; `xmlSetProp` changes the first one, which is
  (`FirstIsLeast`). What both conversions make of a text that is ASCII, or of Latin-1 and encoded as such, is that text
  (`WrittenAsInTree`); of others nothing is said, and section 4 has what becomes of them. `GreatestOf` and `LeastOf`, from the well-foundedness of the numbers, are the lemmas about `Max` and `Min`.
- `AveragesStayRight`, for a type of any size (`AverageAssumption`: what is registered is of the type).
  `AverageIsSound` says of the values that were registered that they have sums of the first, the first two
  and so on (`AddUpTo`), of which the accumulator is the last. The induction is over a number, so it is done
  with the least position at which the sums fail (`SumsGrow`: n positive values add up to n at least; `OneSum`: there is
  one sequence of sums, hence `SumOf` is its last). `-=` starts over when `accumulator > v` fails: with positive values
  this is so of the last one only, by `SumsGrow`.

## 7. What is only model-checked

Liveness (`EveryEventExpires`, `TicksAreDrained`, `StopReturnsUnlessLost`,
`SignalledWaitReturns`, `StartupEnds`, `StopEndsStart`, `LockReturnsUnlessStuck`,
`EveryoneLeaves`, `ApplyEndsUnlessNested`,
`MessagesAreRead`, `WaitsReturn`), which depends on fairness and is out of the reach of the prover.

Safety that only TLC checks: two invariants of the parts in `MCParts`. They are about what a recursive definition
computes for each input (the parser of `UrlIsRead`, the decoder of `MessagesAreKept`): an induction over the
characters of a text and the lines of a message, by the least position that fails as in section 6, which has not been done. The prover is not asked for what is false without a
hypothesis that the code does not give: section 4 has those.

## 8. What is not modelled, and why

- Data races proper: two threads inside one `std::vector`, `std::list` or `std::multimap`
  without a lock (`Application::attach` during `start()`, `Database::do_stop`, the
  writers of the logger, the list of ticks that `do_stop` clears). They are undefined
  behaviour with no set of outcomes to enumerate; `hazards` lists them.
- Drivers, zmq, libxml2: libraries. What the code relies on is stated in `map` as external.
- Formatting: `asString`, `asXML`, the format of a trace, and the XML context of the application.
- The digits of values: a datum is a member of a small set (`Classes`, `Columns`), and a text of xml is
  ASCII, of Latin-1 or neither; the encodings of iconv are not there.
- Registries that are filled once and looked up: the `Repository` of storages, the statements
  of a `Database`, the names of client sockets, the versions of `src/config`.
- The notes of the components in `PROJECT.json` name what each model leaves out.
