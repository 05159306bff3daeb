# A verification project for OWLS

OWLS, the OpenWifi load simulator, connects thousands of simulated access
points to a TIP gateway to see what the gateway can bear. This directory holds
TLA+ models of the parts of OWLS whose correctness depends on the order in
which threads, sockets, timers and other daemons act; TLC configurations that
check them on small instances; and proofs, checked by TLAPS, that the main
properties hold for every size.

Paths below are relative to the repository's `src/` directory, so
`SimStats.h:240` is `src/src/SimStats.h`, line 240.

Contents: [the system](#the-system), [hard behaviours](#what-is-hard-about-it),
[modules](#the-modules), [runs](#the-runs), [fairness](#fairness),
[findings](#what-the-runs-found), [proofs](#the-proofs),
[what is not modelled](#what-is-not-modelled), [plan](#plan),
[how to run it](#how-to-run-it).

## The system

A daemon is a *master* or a *secondary* (`simulator.master`,
`Daemon.cpp:41-43`). A user asks the master to run a *simulation definition*;
the master takes a share of the devices itself and asks every secondary it
knows to simulate another share. Each share is a `SimulationRunner` whose
devices are `OWLSclient` objects, driven by a scheduler, a pool of threads and
socket reactors.

| Component | State | Operations | Talks to |
|---|---|---|---|
| Simulation coordinator (`SimulationCoordinator.*`) | `Simulations_`, `Services_`, `LookForServices_`, `Running_`, one recursive mutex, one worker thread | `StartSim` (master and secondary forms), `StopSim`, `CancelSim`, the worker's `run`, `Start`, `Stop` | called by REST threads; calls the runner, the statistics, the results table, other daemons |
| Operation API (`RESTAPI_operation_handler.cpp`) | none | start, stop, cancel; on a secondary also the start sent by the master | coordinator |
| Simulation statistics (`SimStats.h`) | `Statuses_`: one status per daemon of each run; per-device counts | `StartSim`, `EndSim`, `RemoveSim`, `SetState`, `Connect`, `Disconnect`, `UpdateRemoteStatus`, `GetCurrent` | called by all of the others, under a mutex of its own |
| Simulation results (`storage/storage_results.cpp`) | a table keyed by running id | `CreateRecord` | coordinator |
| Simulation runner (`SimulationRunner.*`) | `Running_`, `Mutex_`, reactors with their threads, `UpdateTimer_`, `Clients_`, `Clients_fd_` | `Start`, `run`, `Stop`, `onUpdateTimer`, socket callbacks, `ProcessCommand` | coordinator, reactors, timer, scheduler, master |
| Device client (`OWLSclient.*`) | `WS_`, `fd_`, `Connected_`, `Backoff_`, one mutex | `Disconnect`, `DoConfigure`, `DoReboot`, `DoUpgrade`, `DoFactory`, `DoLEDs`, `SendObject` | gateway |
| Device events (`OWLS_*.cpp`) | none | `EstablishConnection`, `Connect`, `Reconnect`, `Disconnect`, `State`, `HealthCheck`, `Log`, `WSPing` | scheduler, client, runner |
| Scheduler, sleeper, pool (`libs/`) | tasks by time, an interruptible sleep, a queue and its threads | `in`, the loop, `manage_tasks`, `push`, `interrupt`, the destructors | runner and events |
| Service registry and subsystems (`framework/MicroService.cpp`) | `Services_` with the time each was last heard of, one recursive mutex `InfraMutex_`, the vector of subsystems | `BusMessageReceived`, `GetServices`, start and stop of subsystems | called by the Kafka consumer, by every outgoing request, by the coordinator's worker |
| Kafka manager (`framework/KafkaManager.*`) | producer: queue, `Running_`; consumer: `Running_`, a dispatcher with a flag of its own | `Produce`, `run`, `Start`, `Stop` of both | event bus, broker, registry |
| Event bus (`framework/EventBusManager.*`) | `Running_`, one thread | `run`: JOIN, keep-alives, LEAVE; `Start`, `Stop` | Kafka producer |
| UI notifications (`framework/UI_WebSocketClientServer.*`) | `Clients_`, `ToBeRemoved_`, `UsersConnected_`, a reactor and a cleaner thread, `LocalMutex_` | `NewClient`, socket callbacks, the cleaner's `run`, `SendToAll`, `Stop` | browsers, the logger, the security service |
| Definitions API (`RESTAPI_simulation_handler.cpp`) | rows of a table | `DoPost`, `DoPut`, `DoDelete`, `DoGet` | storage |
| REST objects (`RESTObjects/`), tables (`storage/`) | none | `to_json`, `from_json`, `Convert` to and from rows | every handler |
| REST framework, storage layer, load-balancer check | tables, caches | see `PROJECT.json` | |

What makes each of them correct:

* *Coordinator, statistics, results*: a run is started once and ended once,
  whoever ends it; a completed run leaves one final row, unless the table
  refuses it, and a cancelled one leaves none; statistics exist for exactly the
  runs in the map; a run with a length is ended by the worker; an idle
  coordinator looks for secondaries again; a shutdown terminates.
* *Runner*: after `Stop` and destruction none of the runner's threads is left and
  no update is sent; nobody begins to use a reactor that is gone; `Stop` returns.
* *Clients and events*: the descriptor table names only live sockets; live
  devices are never counted beyond the connections there are; a connected device
  keeps reporting; a device that lost its connection gets another.
* *Scheduler*: a task runs once, not before its time, and does run; no wake-up
  is lost; the destructor returns with the queue empty.
* *Cluster*: no device is simulated twice; a run that is started undisturbed
  covers all its devices; the statistics of each share are counted once; a stop
  reaches every secondary.
* *Event bus and Kafka*: what other processes see of this one is a JOIN,
  keep-alives and a LEAVE in that order; the process hears itself while it
  serves; a stop ends all three threads.
* *Registry*: a service that lives is listed, one that died is not for long, and
  what is known of a service is what it announced when it started last.
* *UI clients*: an ended client is erased, once, and never used afterwards; the
  stop returns.
* *Definitions*: what is stored can be run, what is deleted stays so, a change
  changes what it names.
* *Objects and rows*: what was written is what is read.

## What is hard about it

`PROJECT.json` lists each hazard at its line with the properties aimed at it.
The recurring ones:

* *A mutex that covers less than it seems.* The worker reads the clock before it
  locks (`SimulationCoordinator.cpp:74`); a socket callback releases the
  descriptor table before it locks the client (`SimulationRunner.cpp:307`); the
  list of secondaries is replaced without a lock while three threads read it
  (`SimulationCoordinator.cpp:63`); `Stop` tests `Running_` before `run()` has
  set it (`SimulationRunner.cpp:240`).
* *Joining with a lock held.* `SimulationRunner::Stop` joins reactor threads
  whose error callback needs the same mutex.
* *Two ways into the same change.* A device is disconnected by events, by socket
  callbacks and by commands; a run is ended by a user, by its length and by a
  shutdown.
* *A flag instead of a lock.* Events and detached command threads look at
  `Running_` and then use the reactor of their device, which `Stop` may destroy in
  between (`SimulationRunner.cpp:247`).
* *A chain of tasks that must not break.* Reports, reconnections and back-off
  are tasks that schedule the next task; an early return or an exception ends
  the chain silently.
* *Condition variables.* The sleeper and the pool keep flag, queue and waiting
  thread under different mutexes.
* *Threads that raise their own flag.* `run()` of the event bus, the producer, the
  consumer, cppkafka's dispatcher, the runner and the UI cleaner each set
  `Running_` themselves, so that a stop that comes first does nothing or is undone.
* *Wake-ups nobody waits for yet.* `wakeUpAll` of the producer's queue reaches
  only a thread that waits already (`KafkaManager.cpp:220`).
* *Ageing by traffic.* Entries of the registry are purged only when a message
  arrives (`MicroService.cpp:136`); that the process hears its own keep-alives is
  what makes others vanish.
* *Checked here, stored there.* A PUT validates its body, completed by defaults,
  and stores the merge of the body with what it read before
  (`RESTAPI_simulation_handler.cpp:118-144`).
* *Hand-written symmetry.* Several hundred members are written in one function and
  read in another by name; table rows are filled and read by position.
* *Partial failure.* Requests to secondaries are sent one after another; the
  first that gets no answer throws out of the loop. The insertion of a result may
  fail, and its caller does not look (`SimulationCoordinator.cpp:90, 206`).

## The modules

| Module | Models | Lines of code it stands for |
|---|---|---|
| `SimulationLifecycle` | what the coordinator promises about one run | abstract specification |
| `SimulationCoordinator` | REST threads, worker, shutdown of a master, with `SimStats` and the results table | `SimulationCoordinator.cpp`, `RESTAPI_operation_handler.cpp`, `SimStats.h`, `storage_results.cpp` |
| `DeviceConnection` | clients of one runner: events, socket callbacks, commands | `OWLSclient.cpp`, `OWLS_*.cpp`, `SimulationRunner.cpp:252-402`, `SimStats.h:30-60` |
| `TaskQueue` | what the scheduler promises about tasks with a time | abstract specification |
| `Scheduler` | scheduler, interruptible sleep, thread pool | `libs/Scheduler.h`, `libs/InterruptableSleep.h`, `libs/ctpl_stl.h` |
| `SimulationRunner` | threads, timer, reactors, events and commands of a runner through `Stop` and destruction | `SimulationRunner.cpp:117-300, 370-402`, `SimulationRunner.h`, `OWLSclient.cpp:420-465, 612-634` |
| `OWLSCluster` | one run over a master and its secondaries | `SimulationRunner.cpp:27-51, 139-188`, `SimulationCoordinator.cpp:53-72, 167-303`, `SimStats.h:139-162, 233-247`, `sdk_utils.h` |
| `ServiceBus` | the topic that the modules below share, its bound, and the steps of a life (`LifeStep`) | external: the broker; `EventBusManager.cpp:14-31` |
| `ServiceLife` | what a service promises the others on that topic | abstract specification |
| `KafkaManager` | event bus, producer and consumer of one process, from start to stop | `KafkaManager.*`, `EventBusManager.cpp` |
| `MicroService` | the registry, fed by a topic that other processes write | `MicroService.cpp:20-170` |
| `UI_WebSocketClientServer` | browsers, reactor, cleaner, the bus that logs, and stop | `UI_WebSocketClientServer.cpp`, `WebSocketLogger.h` |
| `SimulationDefinitions` | threads that create, change and delete definitions, statement by statement | `RESTAPI_simulation_handler.cpp`, `RESTAPI_OWLSobjects.*`, `RESTAPI_Handler.h:259-275`, `orm.h` |
| `RESTAPI_utils`, `OWLSObjects`, `SecurityObjects`, `ProvObjects`, `GWObjects`, `FMSObjects`, `SubObjects`, `CertObjects`, `AnalyticsObjects` | how each struct is converted to JSON and back | `RESTAPI_utils.h`, `RESTObjects/*` |
| `RESTObjects` | composes these with the two tables, and follows a member through them | `storage_simulations.cpp`, `storage_results.cpp`, the above |
| `MC*` | small instances for TLC | |
| `*_proofs` | theorems about the module of the same name | |

`PROJECT.json` maps every definition to the lines it translates. Definitions
headed "mutated forms" are in no behaviour: each is a slip in one definition,
kept to show that the properties can tell the difference.

### SimulationCoordinator and SimulationLifecycle

A thread is a program counter (`pc`) and what it works on (`job`). One action is
a stretch of code nobody else can observe half done: it runs under `Mutex_`, or
touches only the thread's own variables. `StopSim` is therefore four actions,
`EndAccepted`, `EndSim`, `Record` and `Remove`, since `SimStats` and the database
can be read in between, although `Mutex_` is held over all four. `CreateRecord`
inserts the row or fails (`orm.h:420-440` catches what the database throws and
returns false); its callers go on alike, and the history variable `unsaved` keeps
the runs whose row was refused. The runner's `Stop` is called with `Mutex_` held and
may never return, as `SimulationRunner` shows: `RunnerHangs` and `StopHangs` leave
the thread, a REST thread, the worker or main, at `hung` with the mutex. A start is
`RequestStart` (the check of a running instance takes and releases the mutex on
its own), `StartInsert`, and `StartStats`. The worker is `WorkerWakes`,
`WorkerRefreshes` (no lock), `WorkerLocks`, then `WorkerSkips` or
`WorkerCompletes` for each run, in any order, and `WorkerUnlocks`. `Elapsed`
keeps the unsigned subtraction of the code (`% Word`). Strings are model values;
a status keeps its state, start and end; a row also keeps owner and definition.
`Shutdown`, `Stop` and `StopJoined` follow `MicroService::StopSubSystemServers`:
REST servers first, then the coordinator joins its worker before it locks.

The coordinator is shown to implement `SimulationLifecycle` under the mapping
`Phase`: a run is *completed* when its row is stored, *running* while it is in the
map without one, *discarded* when it was issued and is neither.

### DeviceConnection

Per device: the descriptor of its socket (`WS_`), the one it registered (`fd_`),
`Connected_`, the back-off, what the reactor is doing with it, how many tasks of
each kind the scheduler holds, and the threads of commands that wait for its
mutex. Per descriptor: free or open, and free again once its socket is closed,
so that the next socket of any device may get it; the entry of `Clients_fd_`;
the client whose reactor it is registered with. A handler that keeps the
client's mutex is one action; where it waits for the gateway or sleeps with the
mutex (`EstablishConnection`, reboot and upgrade) it is two and `busy` says who
holds the mutex. `ReactorReconnects` is apart from `SocketDown` because the
callback releases the mutex in between. Delays are abstracted: a task runs at
any time after it was scheduled. The JSON of messages and most arguments of
commands are left out; the one argument that matters to control, the URI of an
upgrade, is `valid` or `malformed`. `MayThrow` says what may fail before the
`try` block of `EstablishConnection`: the parsing of the gateway's URI, or the
loading of certificates and key (`OWLS_EstablishConnection.cpp:21-49`). Either
ends the task whatever a user sends, and whoever has the client's mutex.

### Scheduler and TaskQueue

The loop, the other threads of the pool, callers outside, and the destructor. The
scheduler's lock is a variable; the sleeper's and the pool's mutexes are held only
within single actions. The push of a task and its notification are two actions
(`Pushes`, `Notifies`), since the pool releases nothing but also protects nothing
between them; a worker pops without the pool's mutex first (`Pops`) and with it
afterwards (`Waits`). Spurious wake-ups are left out so that no property can rely
on one. Only `in()` is used by the program, so tasks do not repeat. `in()` reads the
clock before `add_task` has the lock: `Adds` takes the time its caller computed,
and the history variable `late` keeps the tasks whose time was past by then.

The scheduler is shown to implement `TaskQueue`, a queue of tasks by time without
loop, sleep, pool or destructor: a task *waits* from its insertion until a thread
of the pool starts it, wherever it is in between; each is started at most once,
not before its time, and only while all that wait with an earlier time came late.
The promise is about starts: tasks that were started run side by side.

### SimulationRunner

The coordinator's thread (`main`), the runner's own thread (`run`), the update
timer and the reactors, each with its position in the code, and the holder of the
recursive mutex. `missed` and `overtook` are history variables: `Stop` found
`Running_` still down, or took the mutex between `run()`'s first line and its
lock. In both cases the record is destroyed under a running thread; the
properties say what holds in all others. What a socket error does to a device is
in `DeviceConnection`; here it is the time its callback needs the mutex.
`StatsUpdates_` is kept modulo `Period`.

An event is a task of the runner's scheduler, which the destructor ends after the
timer: it waits for events that have begun and drops the others. A command is a
detached thread that a reactor starts and nobody joins. Both are followed up to
their last look at `Running_`, in `SendObject` or in `Disconnect` (`sent`), and to
the use of the device's reactor that comes after it. `caught` is the history of
who was in between when `Stop` cleared `Running_`, `dangled` of who used a reactor
when the pool was empty. The model ends with the destruction: what a command's
thread does to a runner that is gone is open.

### OWLSCluster

One run. The master's worker refreshes `Services_` in two steps, as in
`SimulationCoordinator`, and other runs raise and clear `LookForServices_` at
any time. `run()` reads the list once for the test, the batch, the remainder and
the loop; each reading is an action. A start is answered and accepted, answered
and refused (`Accepts` has the secondary's own conditions), or not answered:
then the null response throws out of `run()` and the request may still arrive
later (`Arrives`). The end of a run waits for a `run()` that is under way, since
it holds the runner's mutex, but not for one that has not begun: `Stop` then
finds `Running_` down (`SimulationRunner.cpp:240`), and stops may be sent before
`run()` sends the starts. `early` records that, and `RunDangles` what a `run()`
may still do whose runner went away with the run. A stop or cancellation asks
the secondaries on the list of that moment in order, and an unanswered request
ends its loop. `ThisBatchSize` keeps the unsigned difference. `failed`,
`replaced` and `crashed` record whether a request went unanswered, whether the
list was replaced after its first use by this run, and whether the daemon went
down. A thread that iterates over the list while it is replaced goes on with
what it had, ends, or crashes: the C++ program has a data race there, and the
model has all three outcomes.

### KafkaManager

The main thread starts consumer, producer and bus and stops them in the reverse
order, one action for each flag, wake-up and join; each of the three threads has
a position. `Post` is `Produce`: Poco's queue hands a message to a thread that
waits, or keeps it. `ProducerTook` is `while (Note && Running_)`: a message taken
after the stop is dropped, and what is still queued is lost. A send may fail
(`ProducerFails`) and so may the commit, which is outside the `try` block and ends
the consumer (`ConsumerCommits`). `missed` is a history variable: the threads that
a step of the stop overtook between two of their own. Of a message the order of
the three events of a life is kept, and of others' messages nothing.

To everyone else the three threads, the queue and the lost sends are one life,
`ServiceLife`: unborn, up or gone, with a JOIN, keep-alives and a LEAVE in this
order, the first and the last at most once and possibly lost, each a message of
its own at the end of the topic. `ImplementsServiceLife` maps the state to it by
what is still under way (`JoinPending`, `LeavePending`): the life begins when the
JOIN is sent or lost, and ends when the LEAVE is.

### MicroService

`BusMessageReceived` is one action, since it holds `InfraMutex_` throughout:
`Entry` is what a message does to its sender's entry, `Expired` the purge at the
end, with the unsigned difference that a clock set back makes enormous. Other
services start, beat, leave and crash, and a JOIN or a LEAVE may never reach the
broker. `open` is whether the consumer still hands messages on, which
`KafkaManager` explains; that this process hears itself (`OwnBeats`, fair) is
`KafkaManager`'s `OwnBeatsAreHeard`. What it lets another service do is
`LivesOn`, the same life that `KafkaManager` implements. A number for each life
stands for what the service announces in it, its version and addresses; the id
in its messages is kept on disk (`framework/utils.cpp:402-418`) and is the same
in every life. `PeersAreLives` proves that the four actions are a life and
nothing else, so what the registry expects of others is what this process keeps
to. Both modules extend `ServiceBus`, the topic they have in common, so that one
module can hold the proofs about both; the registry's own state and formulas are
therefore named `RegistryInit`, `RegistryNext`, `RegistrySpec` and
`FairRegistrySpec`.

### UI_WebSocketClientServer

A client is its descriptor and which connection of that descriptor it is, so that
an iterator in `ToBeRemoved_` can outlive its entry: `dangled` says that one was
used or erased after that. A callback is `ReactorPicks`, `ReactorFinds` (it takes
`LocalMutex_` and looks the client up), and then `ReactorReads`, or `ReactorAsks`
and `ReactorAnswers` around the request to the security service. `BusReceives`
and `BusLogs` are the one other thread that takes the two mutexes, in the other
order. `Stop` clears the map without the mutex (`StopClears`).

### SimulationDefinitions

A request is a thread with a position between its statements. A definition keeps
one field of each kind that is treated alike; `MCBodies` holds a body for each
way to be accepted, merged or refused. `FieldsAreValid` and `ValidateSimulation`
have exactly the limits of the code. `Random` is what a runner does with what is
stored, for the draws of its generator in `Draws`: the unsigned remainder and
difference of `MicroService.h:103`, modulo `Word`. `overtaken`, `patched` and
`deleted` are history variables. A statement of the database is atomic and may
fail.

### REST objects

A struct is a function from its members to their own conversions, with the
members that `to_json` writes and those that `from_json` reads. `RESTObjects`
starts from any struct that is part of no other one and descends from member to
member; `kept` says whether what was there before is there afterwards. Values are
not modelled, keys are: a member is named by its key, so that a key that differs
between the two functions would be two members, one never read and one never
written. Enumerators are converted by value, and rows by position.

## The runs

Ten runs finish without an error; two end with the violation they are meant to
show. Liveness is checked in the runs of the safety properties, on the same
instance.

| Run | Instance | Distinct states | Shows |
|---|---|---|---|
| `coordinator` | 2 REST threads, 2 users (1 root), a timed, an endless and a missing definition, 2 running ids, 2 requests, time 0..2 | 121,000 | `ResultsAreFinal`, `StatsMatchSimulations`, `CompletedRunsAreRecorded`: final results, statistics in step with the map, a completed run leaves with its row stored, or refused by the table; `ImplementsLifecycle`: the refinement; `RunsItsLength`: no run completed before its length, with the one exception; `TimedRunsEnd`, `IdleLooksForServices`, `ShutdownEnds`, the first and the last unless a runner's stop hangs |
| `coordinator_instances` | as above with a secondary and 3 requests | | violation of `NoSecondInstance`: two runs of one definition |
| `device` | 1 device, 3 descriptors, 2 tasks of a kind, the `State` event, valid and malformed URIs, a gateway and certificates that may throw | 1,599,000 | `TableIsLive`, `LiveDevicesAreBacked`, `ConnectedDevicesReport`; `OnlyThrowsStrand`: the only two steps that leave a device without a way back |
| `device_backoff` | 1 device, 1 descriptor | | violation of `BackoffGrows` |
| `scheduler` | 3 pool threads, 1 caller, 2 tasks, time 0..1 | 168,000 | `ImplementsTaskQueue`: the refinement, none lost, repeated, early or out of order; `DueTasksRun`, `QueuedTasksRun`, `DestructorReturns`, also against the destructor |
| `runner` | 2 reactors, 2 events, 1 command thread, period 2, 2 socket errors | 175,000 | `QuietAfterStop`, `NoUpdateAfterStop`; `DanglesOnlyIfCaught`: who may use a destroyed reactor; `StopReturnsOrIsStuck`: `Stop` returns, or is stuck in the one known way |
| `cluster` | 2 secondaries, 2, 3 or 5 devices | 1,189,000 | `DisjointParts`, `DevicesCovered`, `PartsCount`, `StopReachesAll`; `CrashesOnFewDevices`: when the division by zero happens |
| `kafka` | 1 kind of foreign message, queue and topic up to 2 | 63,000 | `ImplementsServiceLife`: the refinement, one life in order whatever is lost; `HangsOnlyIfMissed` and `StopEnds`: the stop hangs only in the windows left open; `OwnBeatsAreHeard` |
| `registry` | 2 peers, each started at most once again, topic up to 2, entries old after 1 tick, the clock set back once | 130,000 | `StaleOnlyIfJoinLost`, `DeadPeersVanish`, `LivePeersAreListed` |
| `ui` | 2 descriptors, 3 connections, logging synchronous or not | 92,000 | `DanglesOnlyInStop`, `EndedClientsAreErased`, `StopReturns` |
| `definitions` | 2 threads, 2 ids, 6 bodies, 4 draws, `Word` 32 | 1,004,000 | `StoredAreRunnable`, `DeletedStayDeleted`, `OnlyTheBodyChanges` |
| `records` | every struct of the API | 1,936 | `JsonKeeps`, `RowsKeep`: exactly what is lost on the way |

Why these bounds are enough to meet the interesting cases:

* `coordinator`: two threads can race for one run, the worker is the third; two
  requests allow a start with a stop or a cancellation, or two starts, and the
  instance of `coordinator_instances` allows a third; `MaxTime` 2 exceeds the
  length 1 of the timed definition, so the worker completes runs; `Word` 16 is only
  required to exceed the clock, and lets the subtraction wrap. `MaxRequests`,
  `MaxTime` and the number of running ids are bounds in the guards. What more
  users and threads would do is the proofs' part: they are about any number.
* `device`: three descriptors allow a live connection, one in flight and one that
  a late callback left behind, and each is used again once it is closed;
  `MaxTasks` bounds tasks and command threads in the guards. Devices share the
  count, the table and the descriptors. That one gets the descriptor another
  device has closed needs two devices, too many for TLC: it is the proofs' part,
  which are about any number of devices and descriptors.
* `scheduler`: with three threads a push can meet a waiting, a notified and a
  running one at once; `Horizon` bounds the clock.
* `runner`: one reactor can end while the other waits for the mutex; with
  `Period` 2 the timer both skips and takes its locking branch; one event can be
  caught by `Stop` while another is scheduled, begins or turns back, beside a
  command. `Tasks` and `Commands` are what is in flight at once: each is there
  again when it has ended, and the proofs are about any number.
* `cluster`: 2 devices are fewer than the daemons, 3 are as many, 5 leave a
  remainder; `Word` 32 exceeds the number of devices, as 2^64 does in the code.
* `kafka`: `MaxQueue` 2 lets a keep-alive and the LEAVE wait behind another
  message; `MaxTopic` 2 lets own and foreign messages be ahead of each other.
  Both are guards of what adds to the queue and the topic from outside.
* `registry`: `MaxId` 2 gives a service a second life that can be taken for its
  first; ages beyond the limit are all alike, so the clock is unbounded.
* `ui`: with two descriptors one can be reused while the other is served; the
  third connection is the one on a reused descriptor.
* `definitions`: two threads overtake each other on one row or work on two; the
  bodies name texts alone, two limits, one of two limits, a field without an
    upper limit and one that a PUT leaves out; two are refused. One of the limits
  named alone gives equal limits in a POST and, in a PUT, the wrong order. The
  draws are below, at and above the differences of the limits and at the top of
  `Word`, which stands for 2^64.

Deadlock is not checked: each system may come to rest, when the service, the
runner or the scheduler is stopped, or when the bounds are used up. Symmetry is
used in `device` only, over sockets.

## Fairness

* `SimulationCoordinator`: weak fairness of time, the worker and the shutdown.
  REST threads have strong fairness: a thread waiting for `Mutex_` finds it
  free over and over, since the worker sleeps two seconds per round, and
  the operating system's mutex does not starve it forever. A runner's stop need
  not return: `EndSim` and `RunnerHangs` are alternatives of one fair step, and so
  are `StopJoined` and `StopHangs`. `TimedRunsEnd` and `ShutdownEnds` therefore
  except a thread that hangs, and only that. Clients need not ask
  for anything and nobody has to shut the service down.
* `DeviceConnection`: weak fairness of the events and command threads. It is only
  used to state the action property of `device_backoff`; the gateway and the
  user owe nothing.
* `Scheduler`: weak fairness of time, the loop, each thread and the destructor's
  steps once it has begun. Adding tasks and destroying the scheduler are not fair.
* `SimulationRunner`: weak fairness of each thread's steps, events and commands
  included. Socket errors, lost connections, commands, starting and stopping are
  not fair.
* `OWLSCluster` has no liveness property: a secondary or the network may be
  silent for good.
* `KafkaManager`: weak fairness of each thread and of main once it starts or
  stops; strong fairness of a send, which may fail any number of times but not
  every time. That a stop begins and that others send is not fair.
* `MicroService`: weak fairness of time and of the consumer; strong fairness of
  this process's keep-alives, which is what `OwnBeatsAreHeard` grants, and of
  those of services that live. Starting, leaving, crashing and losing are not fair.
* `UI_WebSocketClientServer`: weak fairness of steps that nobody can hinder, and
  strong fairness of taking a mutex that is free again and again. Browsers owe
  nothing, and the service need not stop.

## What the runs found

Two runs show a disagreement with what the repository says:

1. *The check for a running instance never finds one* (`coordinator_instances`).
   `RESTAPI_operation_handler.cpp:31` passes a running id where definition ids
   are compared.
2. *Back-off never grows* (`device_backoff`). `Backoff_` starts at 0 and is
   doubled (`OWLSclient.h:99`), while the repository's README says that
   reconnections back off exponentially.

What a definition may be is said twice, in `openapi/owls.yaml` and in the tests of
`RESTAPI_simulation_handler.cpp:46-70`, and the two disagree. These divergences are
plain from the two texts; they are recorded here, without a run of their own:

| Field | `openapi/owls.yaml` | The handler |
|---|---|---|
| `devices` | at least 5 (`:304`) | at least 1 |
| `stateInterval` | at most 600 (`:315`) | no upper limit: `:55` tests `healthCheckInterval` again |
| `maxClients` | at most 16 (`:335`) | no upper limit: `:59` tests `maxAssociations` again |
| `maxAssociations` | at most 64 (`:325`) | at most 16, by the same line |
| `simulationLength` | at least 120 (`:339`) | not tested; 0 is a run without an end |
| `clientInterval` | 1 to 60 (`:347-351`) | not tested |

The code says nothing of the other things it does. They are the exceptions of
properties that hold, so that a run shows them to be the only ones:

* *A completed run can leave no record.* A failed insertion is logged and returned
  as false (`orm.h:436`); the worker and `StopSim` drop the answer and remove the
  run and its statistics (`SimulationCoordinator.cpp:90, 206`).
  `CompletedRunsAreRecorded` says that nothing else loses a result.

* *A run can be completed at once.* The worker reads the clock before it locks
  (`SimulationCoordinator.cpp:74-81`); a run that was started in between has a
  later start, and the unsigned difference is enormous. `RunsItsLength` says
  that no other run is completed early.
* *A task can be overtaken by a later one.* `in()` reads the clock before
  `add_task` locks (`libs/Scheduler.h:107`), so a task can be inserted when its time
  is past and others were pushed already. `ImplementsTaskQueue` has no other.
* *An upgrade with a malformed URI strands a device* (`OWLSclient.cpp:512-522`
  disconnects first and parses afterwards), and so does an exception before the
  `try` block of `EstablishConnection`: a gateway that does not parse, certificates
  or a key that do not load. `OnlyThrowsStrand` says that nothing else
  does.
* *`SimulationRunner::Stop` can hang*: it joins reactor threads with the mutex that
  `OnSocketError` needs (`StopReturnsOrIsStuck`). `StopSim`, `CancelSim`, the worker
  and the coordinator's own `Stop` call it with `Mutex_` held, so that every later
  request hangs, no run is ended any more and the shutdown does not return
  either. `TimedRunsEnd` and `ShutdownEnds` say that nothing else keeps a timed run
  or a shutdown from its end.
* *A stopped runner's reactors can still be used* (`SimulationRunner.cpp:247`),
  by an event that is past its last look at `Running_`, in `EstablishConnection`
  or `Disconnect`, and by the thread of a command, which may even outlive the
  runner: a reboot, an upgrade or a factory reset sleeps 5 to 30 seconds with
  references to it (`OWLSclient.cpp:465, 515, 551`), and `Stop` waits for no
  such thread. `DanglesOnlyIfCaught` says that what `Stop` caught between look
  and use is the only danger for the reactors, `QuietAfterStop` that commands
  are the only ones left when the runner is gone.
* *With more daemons than devices the master divides by zero*
  (`SimulationRunner.cpp:142`), and definitions with one device pass validation.
  `CrashesOnFewDevices` says that, under an unchanged list, nothing else in the
  split brings the daemon down, but for a `run()` whose runner is gone.
* *A stop may leave secondaries simulating* after an unanswered request, when a
  cancellation of another run has let the worker replace the list, or when it
  comes before the runner's `run()`: the stops are then sent first and the starts
  after them. `StopReachesAll` says that these are the only three reasons on the
  master's side. That a secondary's own stop can come before its `run()` in the
  same way, and find nothing to stop, is the subject of `SimulationRunner`.
* *The process may not end* if it is told to while the bus, the producer or the
  consumer are on their way to the point where the stop would reach them:
  before they raised their flag, between the look at `Running_` and the wait for
  a message, before the dispatcher runs. `HangsOnlyIfMissed`, `StopEnds`.
* *A service that crashed and came back keeps its former entry*, with the version
  and addresses it had then, if its JOIN was lost, since keep-alives only refresh.
  `StaleOnlyIfJoinLost`.
* *UI `Stop` clears the clients without the mutex*, under a callback that may be
  using one. `DanglesOnlyInStop` says that before that nothing dangles. With
  synchronous logging (`logging.asynch` off) a callback and the bus can wait for
  each other's mutex for good: the two liveness properties are about `asynch`.
* *Limits that a runner cannot draw from.* A device draws its number of clients
  between the limits, `r % (max - min) + min` (`MicroService.h:103`). The tests let
  a POST store equal limits, and then the remainder is by zero. A PUT, which
  validates its body and stores the merge, can store a minimum above its maximum,
  and then the difference wraps. `StoredAreRunnable` says that these are the only
  ways: what else is stored has as many devices as there are serial numbers at
  most, and draws within its limits.
* *Members that do not come back.* `JsonKeeps` and `RowsKeep` list them: the table
  of results has no column for `expectedDevices`; `contact_from_string` does not
  know MANAGER; `ManagementPolicy.venue`, `ManagementRole.inUse`,
  `ApiKeyEntry.created`, `HomeDeviceMode.leaseTime`, `WebToken.id_token_` and
  `DeviceTimePointAnalysis.timestamp` are in neither conversion;
  `WebToken.errorCode` and the two times of `DefaultConfiguration` are only
  written, `Device.deviceType` is only read. `DeviceReport::from_json` reads
  nothing.

## The proofs

TLAPS proves the following for every value of the constants allowed by their
assumptions: thread names are distinct, ids and empty values differ, the clock's
modulus exceeds its bound, bounds are positive, bodies have fields of
definitions whose numbers fit a word, and a word holds more than 4, the greatest
minimum that is accepted, a process is not one of its peers, and, in the
cluster, device counts are positive and below the modulus. `DevicesReturn` has
an assumption of its own, given below. Nothing else is assumed, and every leaf
is checked.

| Module | Theorems | Argument |
|---|---|---|
| `SimulationCoordinator_proofs` | `InductiveInvariant`, `TypeCorrect`, `ResultsCorrect`, `StatsCorrect`, `CompletedRecorded`, `LengthCorrect`, `LifecycleCorrect`, `ShutdownCorrect`, `RoundCorrect` | `IInv` adds to the types: exactly the thread in a critical section holds `Mutex_` (`LockInv`); how far the statistics and the row of the run a thread works on are (`JobInv`); a run in the map is either untouched or owned by one thread (`RunInv`); statistics belong to runs in the map (`StatsInv`); the worker scans only runs in the map (`ScanInv`). Two threads ending one run is excluded by the combination of the first three. A run being removed as completed has its row, or is in `unsaved` (`RunInv`), and a thread that hangs keeps the mutex and its run's statistics as they were. The refinement maps each step to a start, a completion, a discard or a stutter of `SimulationLifecycle`. `RoundCorrect` needs `ScannedInv`: what the worker has passed over in this round is not due by the time it read, since a status that exists keeps its start. |
| `DeviceConnection_proofs` | `InductiveInvariant`, `TypeCorrect`, `TableCorrect`, `LiveDevicesCorrect`, `ReportsCorrect`, `DevicesReturn`, `OnlyThrowsCorrect` | `SocketInv` says where a client's current socket can be: two clients never share one, a descriptor that is free is in no table, in no reactor and no client's, one in the table is the one its client registered, and one being connected is in no reactor. Without it a late reconnection could close a descriptor that is in the table by now for another device. The count is compared with the cardinality of the table. `DevicesReturn` assumes that nothing throws: `MayThrow = {}`, the gateway parses and certificates and key load every time, and no upgrade has a malformed URI. `OnlyThrowsCorrect` assumes neither and says step by step that those are what it takes. |
| `Scheduler_proofs` | `InductiveInvariant`, `TypeCorrect`, `NoneEarlyCorrect`, `WakesCorrect`, `PoolCorrect`, `DestructorCorrect`, `AsleepCorrect`, `TasksCorrect`, `TaskQueueCorrect` | `LockInv` and `DoneInv` say what the flags mean at each position of the loop and the destructor; the wake-up properties are inductive with them. `NoneLostOrRepeated` counts the positions of a task in the queue, with lemmas on what `Append` and `Tail` do to them. The refinement adds `QueueInOrder` and `QueueIsFirst` (`OrderInv`): a task is behind one of a later time, in the pool's queue or on the way there, only if it came late; the loop pushes what is due by one reading of the clock, earliest first, and holds the lock. |
| `SimulationRunner_proofs` | `InductiveInvariant`, `TypeCorrect`, `QuietCorrect`, `DanglesCorrect`, `NoUpdateCorrect`, `OnlyErrorsCorrect` | Who holds the mutex; how far `run()` is wherever `Stop` is (`ProgressInv`); which reactors are in the pool (`PoolInv`); which of them `Stop` has told to end (`StoppingInv`). `UserInv` says that whoever is past a look at `Running_` once `Stop` has begun is one of the caught, and that events and commands are there only when `run()` has made its reactors, so that an empty pool means `Stop` has emptied it. |
| `OWLSCluster_proofs` | `InductiveInvariant`, `TypeCorrect`, `DisjointCorrect`, `CoveredCorrect`, `CountsCorrect`, `StopCorrect`, `CrashCorrect` | `AskInv`: what was asked lies in consecutive, disjoint shares behind the master's, with distinct indexes, and a late request can only bring back what was asked. `SplitInv`, for an unchanged list: the start value plus the batches still to give equals the number of devices, and the same for the indexes. The arithmetic is `SplitAddsUp`: with b = d div (n+1) and b not zero, b + d mod (b(n+1)) + n b = d. `OrderInv` orders the request's thread and the runner's, unless the end overtook `run()`; that a `run()` left without its runner stays so (`DanglingStays`) confines what it does to the exceptions of the properties. |
| `KafkaManager_proofs` | `InductiveInvariant`, `HangsOnlyInTheWindows`, `AnnouncementsInOrder`, `ServiceLifeCorrect`, `BeatsCorrect`, `RegistryInvariant`, `RegistryIsCurrent`, `DepartedCorrect`, `PeersAreLives` | The events sent, in hand and queued are in the order of a life, whatever the producer drops (`QueueInOrder`, `NoteIsNext`, `SentIsOldest`), and the bus posts its JOIN before and its LEAVE after everything else (`JoinIsFirst`, `LeaveIsLast`). The refinement follows the set of events under way: a step leaves it alone, the bus adds one, or the producer is done with the first (`WaySteps`); `LeaveIsQueued`, that nothing is under way after the bus has ended without its LEAVE behind it, keeps a life that loses its JOIN from ending there. `ServingInv` is what `BeatsGoOn` needs before the process serves. `BusFollows`, `ProducerFollows` and `ConsumerFollows` say how far a thread is that no step of the stop overtook. The registry has an inductive invariant of its own, `RegistryInv`: unless a JOIN was lost, an entry with a former id of a service gives way, the JOIN of its present id being in the topic (`EntryGivesWay`), and every message of a former id is ahead of that JOIN (`OldMessagesFirst`). |
| `UI_WebSocketClientServer_proofs` | `InductiveInvariant`, `DanglesCorrect`, `NoneForgottenCorrect`, `StopCorrect` | While main serves, a client in a callback is in the map and in the reactor, one that waits to be erased is in the map and not in the reactor, and it waits once (`CallbackInv`, `RemovalInv`): so no callback finds it again, and its descriptor is not free before it is erased. That no entry is erased twice is a statement about the size of the list, from a bijection. `NoneForgotten` adds the converse, that an entry is in the reactor or waits; `StopInv` follows flags and mutexes through the stop. |
| `SimulationDefinitions_proofs` | `InductiveInvariant`, `RunnableCorrect`, `DeletedCorrect`, `BodyCorrect` | `CopyInv`: what a PUT is about to write is the merge of its body with the row, or with what the row was before it was overtaken, and its fields come from two definitions with valid fields (`MergedIsValid`). `RunnableCorrect` follows from these and from the arithmetic of one draw, a remainder below the difference of two numbers of a word (`DrawsWithin`), for every word, generator and set of bodies. |

Beside what the runs list, these prove the types and `NoneEarly`, `WakesInTime`,
`PoolWakes`, `LoopHearsDestructor`, `NoneLostOrRepeated`, `AnnouncedInOrder`,
`BeatsGoOn`, `DepartedFade` and `DisconnectedDevicesReturn`; each module defines
the formulas its theorems name, and TLC checks any of them as an invariant or
action property on the instance of the run.

The liveness properties stay with TLC, since the provers have no rule for fairness
and `ENABLED`. What can be proved of some of them is the safety that their argument
rests on, that nobody waits for what nobody will do:

| Liveness (TLC, small instance) | Its safety half (proved, every size) |
|---|---|
| `TimedRunsEnd` | `RoundLeavesNoneDue`: a round of the worker ends every run that was over when it read the clock |
| `ShutdownEnds` | `ShutdownPasses`: the worker it joins was told to end, and who keeps it from `Mutex_` is no REST thread, so that nothing but a runner's stop is in its way |
| `QueuedTasksRun`, `DueTasksRun` | `PoolWakes`, `WakesInTime`: a queue that is not empty has a thread that will look, and the loop does not sleep beyond its first task |
| `DestructorReturns` | `NoneLeftAsleep`: no thread waits that has not heard |
| `StopReturnsOrIsStuck` | `OnlyErrorsBlockStop`: only a reactor in an error callback waits for `Stop` |
| `EndedClientsAreErased` | `NoneForgotten`: a client out of the reactor waits to be erased |
| UI `StopReturns` | `StopPasses`: what is joined was told to end, for good, and no mutex is held across |
| `StopEnds` | `HangsOnlyIfMissed` |
| `OwnBeatsAreHeard` | `BeatsGoOn`: while the process serves its bus and producer go on, nothing taken is dropped, and a dispatcher that polls is told to |
| `DeadPeersVanish` | `DepartedFade`: once a service has gone and nothing of it waits, its entry only ages, but for a clock set back, and the next message that finds it too old takes it away |

Only model-checked: the left column and the other liveness properties
(`IdleLooksForServices`, `LivePeersAreListed`), and `JsonKeeps` and `RowsKeep`,
which have no parameter, so that the run is exhaustive, and whose structs are
put together with `@@`, which the provers do not know. Induction over data is
out of the provers' reach too, so what the program does with sequences is proved
through lemmas over one `Append` or `Tail`; no module uses a recursive operator.

## What is not modelled

* The data race of a secondary's unlocked insertion into its map
  (`SimulationCoordinator.cpp:161`): a model that allows what C++ allows
  would check nothing. In `OWLSCluster` the insertion is one step.
* What follows when an event or a command uses a reactor that is gone, or a
  command a runner that is gone: C++ leaves it open. `SimulationRunner` shows
  when it happens.
* Exceptions of `close()` on a socket.
* Contents of state, health and log messages (`MockElements.h`,
  `OWLS_utils.h`), message counters, and values in the JSON of objects. A list of
  an object that is read into a second time is appended to; no handler does so.
* The SQL that `orm.h` makes, its queries and iteration: the handlers use
  `GetRecord`, `CreateRecord`, `UpdateRecord`, `DeleteRecord` and plain lists,
  and what those do is in the models of the handlers.
* Authorization with its caches of tokens (`AuthClient.cpp`), the rate limiter,
  query parsing, the proxy and the reply formats of the REST framework.
* `ConfigurationValidator.cpp`, which is a JSON schema in a string and the library
  call that applies it; `utils.cpp`, `CIDR.h` and `Daemon.cpp`: formatting,
  arithmetic on addresses, reading of configuration files.
* Subscription to UI notifications and the contents of what is sent; the texts of
  commands that browsers send.
* Parts the program never calls: `StopSimulations`, `CancelSimulations`,
  `ProgressUpdate`, keep-alive, pending-configuration and crash-log events,
  recurring tasks and cron expressions.

## Plan

Done, in this order: the coordinator with statistics, results and shutdown, and
the lifecycle it implements; device connections; the scheduler and the queue of
tasks it implements; the life of a runner; a run over several daemons; the event
bus with producer and consumer, and the life of a service they implement; the
registry; the UI clients; definitions; objects and rows. Each with its proofs,
except the objects, which have no parameter.

What would add most next:

1. Refinement of `DeviceConnection` by an abstract device that is off, connecting,
   on or gone.
2. Composition of `KafkaManager` and `MicroService` over `ServiceBus` in one run, in
   place of the fairness of `OwnBeats`; on the safety side `ServiceLife` joins them.
3. The cache of tokens with its removal through UI and bus messages, and the rate
   limiter, as functions compared with reference definitions.

## How to run it

With `tlc` and `tlapm` on the path, from this directory:

    tlc -workers 2 -config SimulationCoordinator.cfg MCSimulationCoordinator
    tlapm SimulationCoordinator_proofs.tla

and likewise for the other pairs in the table of runs; the module that goes with
a configuration is named in `PROJECT.json`. The longest run takes under two
minutes on two cores, and all proofs together some ten minutes.
