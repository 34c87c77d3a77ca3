# Uranus Neo: verification project

Uranus Neo is an actor framework for game servers, written in C++20 on
standalone asio coroutines. *Services* and *players* are actors. Each lives in
an *agent*, which gives it a mailbox, timers and access to the modules of the
server. This directory holds TLA+ modules that model the framework's own
logic, the TLC configurations that check them, and proofs checked by TLAPS.

The repository has no tests and no documentation beside header comments, so
what a component *should* do is taken from those comments and from what its
callers rely on. Paths below are relative to `src/` of the repository.

## 1. Inventory

| Component | State | Operations | Hard behaviour |
|---|---|---|---|
| Identifier allocator, `base/IdentAllocator.h` | `mHashSet`, atomics `mNext`, `mUsage`, a mutex | `AllocateTS`, `RecycleTS` | the atomics are updated outside the mutex |
| Agent mailbox, `AgentBase.cpp` | a bounded `concurrent_channel`, the actor | `PushPackage`, `PushEvent`, `PushTask`, `ProcessChannel`, close, `CleanUp` | full channel, close against receive, exceptions |
| Service agent, `service/ServiceAgent.cpp` | service handle, id | `Initial`, `BootService`, `Stop`, `PushTicker`, `CleanUp` | runs on four threads |
| Service registry, `service/ServiceModule.cpp` | id map, name map, ticker set, three mutexes, allocator | `Initial`, `Start`, `Stop`, `UpdateLoop`, `BootService`, `ShutdownService`, `FindService` | calls take several locks one after the other |
| Timers, `timer/` | timer map, allocator, one coroutine per timer; handles | `CreateTimer`, `CancelTimer`, `CancelAll`, `RemoveTimer` | cancel against expiry, ids reused |
| Event module, `event/EventModule.cpp` | two listener maps of weak references, two sweep flags and timers | listen, remove, `Dispatch`, sweep | sweep flag without a lock, expiry, stop |
| Gateway and login, `gateway/`, `login/` | `mAgentMap`, `mPlayerMap`, agents with a socket | accept, login, set-up, repeat, disconnect | locks released between steps |
| Player cache, `gateway/Gateway.cpp` | `mCachedMap`, players | `CleanUp`, `RecyclePlayer`, collection, lookups | agents that share a key |
| Client connection, `gateway/PlayerAgent.cpp` | socket, output channel, three coroutines | handshake, read, write, watchdog, `SendPackage`, `Disconnect` | coroutines that end each other |
| Packets and codec, `internal/`, `base/ByteArray.*` | header, payload with size and capacity | `SetData`, `CopyFrom`, `EncodeT`, `DecodeT`, casts | lengths kept in two places |
| Routing, `route/`, `service/ServiceBase.cpp` | none of its own | post a package or a task by id or name, answer, send to players | receiver looked up, then pushed to |
| Package pool, `base/Recycler.*`, `base/Recycle.h` | a deque of packages, usage counters, a weak link from handles | acquire, copy, cast, recycle, shrink | lock upgrades, handles that outlive the pool |
| Worker pools, `base/*IOContextPool.*` | io_contexts, threads | `Start`, `Stop`, `GetIOContext` | work dropped at stop |
| Server, `Uranus.cpp`, `Server.cpp`, `Module.cpp` | modules in order, state | `CreateModule`, `Initial`, `Start`, `Shutdown`, destruction | order of stops and of destruction |
| Service factory, `factory/`, `base/SharedLibrary.h` | libraries, counted; instances by path | load, `CreateInstance`, `DestroyInstance` | code unloaded under its objects |
| Database access, `database/`, `base/ConcurrentDeque.h` | a queue and a thread per worker | `PushTask`, `Stop`, `RunInThread` | condition variables, round robin |
| Logger, `logger/` | use counts by name | `TryCreateLogger`, `TryDestroyLogger`, `Stop` | count looked at without the lock |
| Helpers and configuration, `Utils.*`, `config/` | - | strings, dates, draws, keys of files | edges of dates and sums |
| Monitor, examples, scripts, retired code | - | - | outside the framework's logic |

How they interact. The main thread initialises and starts the modules in a
fixed order and then runs the main io_context, which also accepts clients.
Services run on a pool of four threads that share one io_context; players run
on a pool of four io_contexts with a thread each. Agents talk by pushing nodes
(package, event, task, ticker) into each other's channel, found through the
registry or the gateway. The registry tells `UpdateLoop` who wants ticks.
Timer callbacks are run by the io_context of the agent, beside the handlers
that `ProcessChannel` executes.

What makes each component correct, in short:

- allocator: an id has one owner, none leaks, the id space follows demand;
- mailbox: a node is handled at most once, one at a time, not after the close;
  it is never lost while the agent serves; a close ends in `CleanUp`;
- registry: an id belongs to one service until it is recycled, no service runs
  beyond reach, ticks go to those who asked, the two maps agree;
- timers: an id leads to its own timer, cancelled waits never run, ended timers
  leave;
- events: a registered live listener gets the event, dead ones are swept;
- gateway: an agent is in one map, a login concerns the connection that asked
  for it, a logged-in agent has a player;
- package pool: a package has its handles or a place in the pool, the pool's
  control block outlives both;
- connection: it ends as a whole and closes everything, the client sees whole
  frames up to the last;
- routing: what is posted to an id is handled by the owner of that id, an answer
  finds the asker;
- server: a module runs only on modules that run, a service only on a library
  that is loaded, and a shutdown ends;
- database access: a task that is queued is executed, no wake-up is lost, Stop
  ends the workers;
- player cache: an agent that ends leaves both maps and its player is kept or
  destroyed once;
- logger: a logger that somebody holds is registered;
- helpers: a conversion computes what its name says.

## 2. Modules

| Module | Models | Composition |
|---|---|---|
| `IdentPool` | what an allocator promises: ids taken and given back, none twice | abstract |
| `IdentAllocator` | `AllocateTS` and `RecycleTS`, split at the mutex and at every atomic access | implements `IdentPool` (`ImplementsPool`) |
| `Mailbox` | what an agent promises to those who push nodes | abstract |
| `AgentChannel` | the channel, `Push*`, the overflow coroutines, `ProcessChannel`, close, `CleanUp` | implements `Mailbox` (`ImplementsMailbox`) |
| `ServiceRegistry` | what the registry promises of a service: an id of its own from creation to end, one entry, answers that are registered | abstract |
| `ServiceModule` | the registry: main thread, callers, `UpdateLoop`, the worker pool | implements `ServiceRegistry` (`ImplementsRegistry`); takes and gives back ids as an `IdentAllocator` asks of its callers (`UsesSidsAsAgreed`), and uses agents as `Mailbox` describes them |
| `TimerManager` | timers, their coroutines, the manager's map and allocator | takes and gives back ids as an `IdentAllocator` asks of its callers (`UsesIdsAsAgreed`) |
| `AgentTimers` | timers beside the handlers of their service, `CleanUp` and the destructor of the agent | extends `TimerManager`; the mailbox is `AgentChannel`'s |
| `Subscriptions` | what the event module promises its listeners: a table that only their owner and a purge of the dead change | abstract |
| `EventModule` | listeners, dispatch, the sweep and its flag | implements `Subscriptions` (`ImplementsTable`); agents live and end as in `ServiceModule` |
| `PlayerLogin` | accept, login request, `OnPlayerLogin`, `SetUpPlayer` | the mailbox of a player agent is `AgentChannel` |
| `PlayerCache` | what becomes of a player: `CleanUp`, `RecyclePlayer`, the cache, lookups | operators on the maps of `PlayerLogin` |
| `Connection` | handshake, reading, writing, watchdog and `Disconnect` of one client | extends `PacketCodec`; ends where `PlayerLogin` begins |
| `PacketCodec`, `ByteArray` | packages, frames, byte arrays with their size and capacity | operators |
| `Routing` | services that post packages and tasks to each other, and shutdowns by id and by name, one critical section at a time | ids come and go as in `ServiceModule`, a mailbox is a queue |
| `PackagePool` | what the package pool promises those who pass packages: one holder and its copies, no destruction before the last | abstract |
| `Recycler` | threads on the package pool, its handles, its control block | implements `PackagePool` (`ImplementsPackages`) |
| `RecycleHandle` | every operation on handles, nodes and the pool in one thread, `Shrink` among them | operators on a state |
| `TaskQueue` | what database access promises those who push tasks: queued once, executed once, one at a time | abstract |
| `DataAccess` | `PushTask`, the workers, their queues, `Stop` and the destructor | implements `TaskQueue` (`ImplementsTasks`) |
| `Server` | `main`: the modules from their creation to their destruction, the agents in the service map, and the threads of both pools, whose handlers end, throw or block | extends `ServiceFactory` |
| `ServiceFactory` | loading of services, instances made and destroyed | uses `SharedLibrary` and `OwningHandle` for what a handle counts and owns |
| `SharedLibrary`, `OwningHandle` | a counted library; the handle that owns an instance | operators on a state |
| `ContextPool`, `Logger` | the contexts of the multi pool; one logger with several callers | operators on a state |
| `TimerHandle`, `Utils` | comparisons of timer handles; strings, dates, draws, keys | operators |
| `MC*` | constants, bounds and symmetry for TLC; assumptions about the operators | extends the module it is named after; `IdentAllocator` and `DataAccess` need none, their `.cfg` is enough |
| `GatewayProofs` | theorems and their proofs | extends `PlayerLogin` and `Connection`, instantiates `PlayerCache` |
| `MessagingProofs` | theorems and their proofs | extends `AgentChannel` and `Routing` |
| `ServerProofs` | theorems and their proofs | extends `IdentAllocator` and `Server`, instantiates `SharedLibrary`, `OwningHandle`, `Logger`, `ContextPool` and `Utils` |
| `RecyclerProofs` | theorems and their proofs | extends `Recycler`, instantiates `RecycleHandle` |
| the other `*Proofs` | theorems and their proofs | extend the module they are named after |

Where a component has no steps of other threads to interleave with, or only a
step or two, it is a module of operators on a state record instead of a
specification with variables. Such a module says what its operations do and
what should hold of their results; the `ASSUME`s of the `MC*` module named below
make TLC evaluate that for all inputs of a bounded set, or for all states that a
bounded number of operations reaches.

**State.** Variables bear the names of the members they stand for (`mHashSet`,
`mServiceMap`, `mTickerSet`, `mRecentLoginMap`, ...). Where a call takes several
locks, or reads an atomic more than once, its thread has a position `pc`; an
action is what the code does between two points where another thread can come
in. Coroutines have a position each (`pump`, `loop`, `sweep`, a timer's phase),
and an action ends at a `co_await`. Maps are total functions with `None` for
"no entry".

**Data.** A node, a package or a task is a pair or a number; names, keys and
player ids are model values; time is left out, so that a timer may fire as soon
as it is armed, except that the signs of delay and rate, on which control
depends, are kept. Logging and formatting are left out.

**asio.** What the code uses of asio is modelled from its use and marked
external: `concurrent_channel` (`AgentChannel`), a steady timer whose cancel or
re-arming ends the wait, an `io_context` whose threads run ready coroutines in
any order and whose `stop` drops them.

**Undefined behaviour.** `Recycle` locks a `shared_mutex` it holds: the model
lets the thread block or the exception escape. A null or dead object that is
used ends the process (`crashed`). The data race on the manager of a timer
continues with the value read first. `UServiceModule::Stop` iterates the maps
without their locks while callers use them; the model takes each loop as one
step. Reading the library list of a factory that is gone, or indexing
`mWorkerList` beyond its end, ends the process. What a buffer holds behind the
bytes that were written is `Junk`.

## 3. Runs

Distinct states are those TLC finds on the instance.

| Run | Instance | Shows |
|---|---|---|
| `ident_allocator` | 3 threads, 8 calls; 1.4M states | ids have one owner, none leaks, the space follows demand, the usage count is right unless calls overlap the tail of a recycle, `IdentPool` is implemented |
| `agent_channel` | 2 senders, 2 nodes each, channel of 1, one handler throws; 9k | a node is in one place, order is lost through overflow only, an idle loop means an empty channel, `Mailbox` is implemented; with fairness, close leads to `CleanUp` and every node is executed |
| `service_registry` | 2 symmetric callers, 2 names (one updating), 1 core service, 3 agents; 7.0M | an id is owned once and given back once, by the one who holds it, no service beyond reach, ticks on request only, whatever boots and shutdowns race |
| `service_serial` | 1 caller, a configuration that repeats a name, 3 agents; 191k | the two maps agree between calls; with fairness, removed services are cleaned up while the pool runs, unless a handler throws |
| `timers` | an agent with 2 timers, 2 runs each; 192k | an id leads to its timer, cancelled waits never run, ended timers leave the map; with fairness, no timer outlives its agent but one that the destructor missed outside its wait |
| `events` | 2 agents under one id, 2 events, 2 sweeps; 148k | the flag never blocks sweeping for good, live listeners stay, gone ones leave |
| `player_login` | 2 connections under one key, 1 under another, 2 players; 8k | a login moves its own connection, an agent is in one map |
| `package_pool` | 4 symmetric handles, a pool of 2, 8 elements; 15k | elements follow their handles, the control block goes last, the usage count is right |
| `data_access` | 2 workers, 2 callers, 3 tasks; 422k | no wake-up of a push is lost; with fairness, queued tasks are executed and Stop ends the workers, but for one that missed the notice of `Quit` |
| `connection` | 3 packages of 4 kinds, 3 kinds of frames and of pooled packages, an output channel of 1; 901k | nothing follows a farewell or a short frame, what ends is closed on all sides; with fairness, every connection that has an expiration and gets through the handshake ends |
| `routing` | 3 services, 2 of one name, 2 ids, 2 packages, 1 task, 2 posts, 2 shutdowns under way; 5.4M | what is posted once is handled by the service whose id it shows, an answer finds the asker or finds it gone |
| `server` | 2 services, 4 libraries of which one is broken and one lacks symbols; handlers that end, throw or block; 1.2M | modules run on modules that run, services have their library loaded; with fairness, a shutdown ends unless a thread is blocked for good |

Operators, by the assumptions of the `MC*` modules (TLC evaluates them at the
start of the run):

| Module | In | Inputs |
|---|---|---|
| `TimerHandle` | `MCTimerManager` | handles with ids -1 to 9, against ints of four bits |
| `PlayerCache` | `MCPlayerLogin` | all maps of two players (and id 0) and three agents that `Logins` describes; caches with four times and six sizes |
| `RecycleHandle` | `MCRecycler` | every sequence of six operations on five handles and two nodes, in both layouts; `Shrink` for pools of up to 600 |
| `ByteArray` | `MCConnection` | objects of up to three bytes, lists of up to three |
| `SharedLibrary`, `OwningHandle` | `MCServer` | every sequence of six operations on four or three handles |
| `Utils` | `MCServer` | strings of up to five characters; six-hourly points around two turns; pools of three weights |
| `Logger` | `MCServer` | eight steps of two callers |
| `ContextPool` | `MCServer` | seven operations on pools of up to three contexts |

### Bounds, and why they are enough

- Three threads in the allocator are what a lost id takes at worst: one between
  the miss and the increment, one in the tail of a recycle, one that allocates.
  Eight calls (`MaxCalls`) let each thread allocate, recycle and reuse.
- A channel of one node with four nodes to push makes overflow, waiting sends
  and a close beside each of them happen; a larger channel only postpones them
  (the sizes in the code are 4096 and 512).
- Three agents (`MaxAgents`) in the registry give a service, its successor under
  the same id and one of another id or name. `UntilStop` follows behaviours up
  to the call of `Stop`; `service_serial` follows them beyond, with one caller:
  two of them and liveness take longer than a run may, and that a removed service
  is in the hands of exactly one caller, who stops it, is `NoOrphanService`,
  proved for any number of callers.
- Two timers reuse one id; two runs (`MaxRuns`) have a timer armed again.
- Two sweeps (`MaxSweeps`) are what the race for the flag takes; an agent and
  its successor share one id, the only way one touches the other's entries.
- Two connections under one key and one under another give both branches of a
  repeated login.
- In the pool the third of four handles expands it, and the fourth meets what
  the expansion left behind. `MaxNodes` leaves room for three expansions at once.
- Two workers are those of the code; two callers can both stand between the
  increment and the reduction of `mNextIndex`; the third task
  comes to a worker that has been served.
- One place in the output channel makes the second package wait and the third
  overflow. A payload is empty, as long as the buffer or longer (`MaxLength`);
  the coroutines only ask which of the three it is.
- Two ids for three services give an id to a second owner; two services of one
  name give the name one. Two posts (`MaxPosts`) are a question and its answer,
  or one handle posted twice. Two shutdowns (`MaxShutdowns`) are one by name and
  the one that overtakes it between its critical sections; one item on its way
  at a time (`MaxUnderWay`) is enough to be overtaken by both.
- A core and an extending service, a library that does not load and one without
  the symbols take every branch of the loading; `MayFail` lets files and
  directories be missing.

Symmetry is declared only in runs without liveness properties. Deadlock is not
checked where the system may stop: callers and senders are not obliged to call,
agents end, a process may crash.

### Fairness

`AgentChannel` assumes that the threads of the `io_context` run coroutines that
are ready and that a push that has begun returns. `ServiceModule` assumes that
a call that has begun returns and that the pool runs its coroutines while it is
not stopped. `TimerManager`, `AgentTimers` and `EventModule` assume that coroutines make
progress, which includes that a wait on a steady timer ends. `Connection` has the
thread of its context resume what can go on, a write end and the watchdog, if
it has an expiration, expire; the peer owes nothing. That is what an `io_context` driven by live
threads guarantees. `DataAccess` has threads run and a call that has begun go
on, and gives nobody a spurious wake-up. `Server` has `main` go on, and a
handler that runs end, throw or be blocked for good: that it comes to its end is
not assumed, since `Recycle` may block the thread that runs it. Nobody is obliged to push,
close, boot, shut down, cancel or listen. Weak fairness suffices: a coroutine
that is ready stays ready.

## 4. Proofs

Every safety invariant, action property and refinement that a run checks is a
theorem, and some that no run needs. A run shows a property on its instance,
with an inductive invariant found along the way; the theorem shows it for every
value of the constants. The bounds on calls, pushes, agents, runs, sweeps,
posts and shutdowns are constants too, so that the theorems hold for all of them.

Each proof fixes an inductive invariant, shows that it holds initially and is
preserved by every action (one lemma or step per action), and derives the
properties. The invariant is called `IInv` where a module has one, otherwise
after what it is about (`ConnectionInv`, `RoutingInv`, `LifeInv`, `FactoryInv`,
`AgentInv`, `AgreeInv`); each includes the types, which are theorems of their own
(`TypeCorrect` and the like), so that no run repeats them.

| Module | Theorems | What the invariant adds |
|---|---|---|
| `ServerProofs`: `IdentAllocator` | `OwnersAreUnique`, `NothingLeaks`, `GrowthIsBounded`, `UsageIsExactWithoutOverlap`, `PoolImplemented` | what threads between the miss and the increment of `mNext` are committed to take; for the usage count, that a thread in the tail of a recycle is alone and has loaded the present count |
| `MessagingProofs`: `AgentChannel` | `NodesAreInOnePlace`, `OrderIsLostByOverflowOnly`, `NeverIdleBesideWork`, `MailboxImplemented` | the places a node can be in are disjoint and hold nothing but what was pushed; what has gone further than a node was not to come behind it, unless that node has found the channel full |
| `MessagingProofs`: `Routing` | `RoutingTypeCorrect`, `IdsHaveOneOwner`, `PostsAreHandledByTheirTarget`, `AnswersReachTheAsker` | per package or task: what is posted once is in one kind of place, on its way only to services that the shown id belongs to or that are terminated; a sender keeps its id until it is gone, so that an answer that shows that id has found no other; `mServiceMap` leads to owners, and who was taken from it and has not given its id back is an owner still (of `mServiceNameMap` nothing is claimed: names are left behind) |
| `ServiceModuleProofs` | `SidsAreOwnedOnce`, `ServicesAreReachable`, `TicksAreRequested`, `MapsAgreeForOneCaller`, `RegistryImplemented`, `SidsAreUsedAsAgreed` | what each caller owns at each position; which agents and ids may still be met; for the agreement of the maps, which half of an entry the one caller has made or erased |
| `TimerManagerProofs` | `IdsLeadToTimers`, `EndedTimersLeave`, `CancelIsFinal`, `NoTimerOutlivesUnlessEscaped`, `AgentsTimerIdsAreUsedAsAgreed` | an id in use is neither reusable nor beyond the last one issued; behind the destructor, a timer that has not escaped is settled: never started, ended, or on its way to its end |
| `EventModuleProofs` | `SweepIsOnItsWay`, `LiveListenersAreSafe`, `SubscriptionsImplemented` | a sweep gives up its wait only to one that armed the timer after it |
| `GatewayProofs`: `PlayerLogin` | `LoginsMoveTheCaller`, `AgentsHaveOneHome`, `NobodyGetsAPlayer` | agents in `mPlayerMap` are about to throw or have thrown, so that nobody under their key reads on |
| `GatewayProofs`: `Connection` | `ConnectionTypeCorrect`, `ConnectionsEndClosed`, `NothingIsWrittenBehindTheLast` | socket, mailbox and output close together, and are closed once any coroutine has ended; the writer that wrote a last frame has ended |
| `DataAccessProofs` | `NoWakeUpOfAPushIsLost`, `NeverPopsEmpty`, `IndexInRange`, `TasksImplemented` | a worker past its test has a task or the flag before it, a worker with `mMutex` on its way to sleep has seen an empty queue; for the refinement, how far the server's thread has come determines `mState`, and only `Stop` sets a flag |
| `RecyclerProofs`: `Recycler` | `ElementsAreWhereCounted`, `ControlIsLast`, `UsageCounted`, `PackagePoolImplemented` | the control block counts exactly the pool and the elements left; what an expansion is about to queue is nowhere else |
| `ServerProofs`: `Server` | `ServerTypeCorrect`, `ModulesRunOnWhatRuns`, `ServicesKeepTheirLibrary` | how far `main` has come determines which modules exist and run, or ran when `Start` threw; an instance that was not destroyed has one of two handles and a path, the path is an entry's, and entries hold their library until the factory goes |
| `ServerProofs`: `SharedLibrary`, `OwningHandle` | `LibrariesCountTheirObjects`, `HandlesOwnOnce` | a block's count is the number of objects that hold it; an instance is owned by one handle or has been destroyed, once |
| `RecyclerProofs`: `RecycleHandle` | `HandlesAreCounted`, `CreationsAreWhole`, `ShrinksKeepTheMinimum` | a node lives while a handle leads to it, it is queued or lost to a bad cast; what lives is what is allocated and counted |
| `GatewayProofs`: `PlayerCache` | `CleanUpsSettle`, `CollectionTrims` | - |
| `GatewayProofs`: `ByteArray`, `PacketCodec` | `CastsNeedElements`, `ListsNeedTheirSize`, `PayloadsNeedElements` | - |
| `ServerProofs`: `Logger`, `ContextPool` | `LoggersAreCounted`, `ContextsAreServed` | the count of a logger is what its users hold, and called one at a time it is registered exactly while that is positive or a caller is about to count or drop it; a context has its guard exactly until it is stopped, and every context has been dealt equally often, those before the next once more |
| `ServerProofs`: `Utils` | `DaysAndWeeksAgree` | - |

**Refinements.** `PoolImplemented` and `MailboxImplemented` state the refinements
that runs check. The others are proved without a run of their own, each after TLC
had found no counterexample on the instance of the component's run. The registry
implements `ServiceRegistry`, the package pool `PackagePool`, the maps and sweeps
of the event module `Subscriptions`, and the deques of database access
`TaskQueue`, all under every interleaving of their callers, while the
abstract modules take one step for an operation or, in `TaskQueue`, for each
of the points a caller can tell apart. In `PackagePool` an element is no
handle's unless it was handed out, and is destroyed only when nobody holds
it and the pool has closed; in `Subscriptions` nothing but a call of the owner or
the death of the listener empties an entry; in `TaskQueue` a worker takes one
task at most after `Stop`, and may resign before `Start`. `SidsAreUsedAsAgreed`
and `AgentsTimerIdsAreUsedAsAgreed` connect components. The registry and the timers
model the allocator by its promise, and `IdentAllocator` has its callers give back
only what they hold. Who holds an id is read off the clients' own state
(what a caller has in hand, the maps, the timers), not off the allocator's; the two
theorems say that an id that is given back is in use, held by the one who gives it
back and by nobody afterwards, and that no id comes into anybody's hands while it
is in use. The first is also checked by `service_registry`.

**Operators.** Where a component is a module of operators, its theorems say what
a sequence of operations does by induction's two halves: the state that a
component starts with satisfies the invariant, and every operation of the module,
on any of the objects, preserves it. `LibrariesCountTheirObjects`,
`HandlesOwnOnce`, `HandlesAreCounted`, `LoggersAreCounted` and `ContextsAreServed`
have this form. That this makes every sequence of operations
safe is the induction over its length, which the reader supplies (and TLC, for
six operations). `CreationsAreWhole` is the step that `Initial` repeats for every
node. `CleanUpsSettle`, `CollectionTrims` and `ShrinksKeepTheMinimum` are about one
operation on any state; `CastsNeedElements`, `ListsNeedTheirSize`,
`PayloadsNeedElements` and `DaysAndWeeksAgree` about any arrays, lists, packages and
points in time. `LoggersAreCounted`
has three parts because the code has a race: what holds depends on which calls
overlap (creations and destructions, creations only, none).

**Assumptions.** On constants they are named in the modules that declare them: a
positive channel size and number of workers, natural bounds, ids and keys that
agents are born with, `None` distinct from the rest, finite sets where elements are
counted, and core services with known names. Theorems with hypotheses of their
own name them:

- `MapsAgreeForOneCaller` has `OneCaller`: nobody boots and shuts down services at
  the same time. With two callers the property is false (section 5). It says
  nothing of the configuration, which may repeat a name.
- `HandlesAreCounted` and `ShrinksKeepTheMinimum` take the sizes of the pool to be
  natural numbers and `2 ^ Width` to be a positive one (`SizesAssumption`).
- `LibrariesCountTheirObjects` and `HandlesOwnOnce` take finitely many objects
  (`Finitely`). `CacheAssumption` has player ids be numbers; the operations on the
  cache are given the states in which their destroyed list is empty, where it
  lists what the operation itself destroys.
- `CastsNeedElements` and `ListsNeedTheirSize` take any set of bytes that has the
  values new storage is filled with, and arrays whose size is within their capacity;
  objects have at least one byte. `ContextsAreServed` has a pool of at least one
  context, `DaysAndWeeksAgree` a clock that is a fixed whole number of hours ahead of
  UTC; the days on which the clocks of `current_zone()` change are outside.
- `PayloadsNeedElements` takes any packages over any bytes, with or without elements,
  as `RawRef()` may leave them.

**Only model-checked** are

- liveness: `CloseLeadsToCleanUp`, `EveryNodeExecuted`, `RemovedServiceIsCleanedUp`,
  `TimersEndWithTheirAgent`, `GoneListenersLeave`, `StopEndsWorkers`,
  `QueuedTasksAreExecuted`, `ConnectionsEnd` and `ServerEnds`, which need reasoning
  about fairness and `ENABLED` that the prover does not do;
- what the assumptions say of `Initial` in `RecycleHandle`, of the strings, bits,
  months, years and draws of `Utils`, of `TimerHandle` and of the lookups of
  `PlayerCache`: their operators are evaluated on bounded inputs. Most are recursive
  functions or folds, and what those compute for every input takes induction over
  data, which is out of the prover's reach.

## 5. Where code and comments disagree

Each of these is a way the model goes as well; what names the place is given
in brackets.

Actors:

- `BootService` tests the name and registers it in two critical sections
  (`service/ServiceModule.cpp:250` and `266`). Two concurrent boots of one name
  both succeed; one of the services loses its name (`BootName`, `BootRegister`).
- `Initial` spawns `UpdateLoop` and starts the pool; the loop tests for
  `RUNNING` (`service/ServiceModule.cpp:137`), which only `Start` sets. If the
  pool is faster, nothing is ever ticked (`UpdateCheck`).
- A handler that throws ends `ProcessChannel` without `CleanUp`
  (`AgentChannel!Execute`, `ServiceModule!HandlerThrows`, `Server!HandlerThrows`).
- `FindService` and `ShutdownService` by name look an id up and use it under
  another lock; it may belong to another service by then (`FindAgent`,
  `EraseById`). `ShutdownService` by id may erase a name that has been given to
  another service (`EraseOwnName`). A shutdown by name that is overtaken takes
  the successor under its id and leaves that one's name in `mServiceNameMap`
  (`Routing!EraseNamed`); a later owner of the id that posts to the name posts to
  itself, past the check at `service/ServiceAgent.cpp:180`.
- A tick that falls between `InsertTicker` and the registration of a service
  drops its request, and core services ask for ticks before the module is
  `RUNNING` and are ignored (`UpdateTick`, `InsertTicker`).
- `Stop` closes the channels and stops the pool at once, so that services need
  not be cleaned up (`StopPool`); the pool's own `signal_set` is a local of
  `Start`, whose destruction may stop the pool at any time (`PoolAbort`).
- A handle that is posted twice has one target for both receivers: who handles
  it late may see the target of the later post (`Routing!PostPackage`).
- Two creations of one logger may meet; one of them throws
  (`logger/LoggerModule.cpp:25`, `LoggersRace`).

Timers and events:

- `timer/Timer.cpp:51` waits only if the rate is positive; a one-shot timer with
  a delay ends at once and its task is never run (`WaitOrEnd`).
- Nothing calls `UTimer::Start` (`timer/TimerManager.cpp:36`): a task is executed
  only if its service starts the timer through the handle (`ServiceStarts`).
- A cancel that finds a timer outside its wait is lost (`Interrupt`). `CleanUp`
  releases a service and leaves its timers, whose tasks hold it by a raw pointer
  (`service/ServiceAgent.cpp:298`), and a repeating timer that is at its task when
  the agent is destroyed goes on for good (`escaped`).
- `int > handle` compares by `<` (`timer/TimerHandle.h:95`, `OneDoesNot`).
- An agent whose id has been recycled takes the events of its successor under
  that id (`ListenEvent`).

Clients:

- `SetUpPlayer` throws if the agent has *no* player
  (`gateway/PlayerAgent.cpp:127`), that is always (theorem `NobodyGetsAPlayer`).
  No login completes, the agent stays in `mPlayerMap`, and the next login as the
  same player dereferences its null player. `OnLoginFailed` and `OnRepeated` have
  their guards inverted too.
- Agents that disconnect before they log in stay in `mAgentMap` (`Disconnect`),
  and one client that is gone too early ends the accept loop (`AcceptThrows`, or
  `AcceptThrowsLate` when its agent is in the map already).
  `CleanUp` of a logged-in agent erases whatever stands under its key in
  `mAgentMap`, a twin's entry included (`CleanUpTakesTheTwin`).
- `FByteArray::FromString` fills capacity and not elements
  (`base/ByteArray.cpp:54`), and `DecodeT` reads into as many elements as there
  are: a package that was filled by `SetData` is not written whole, and one with a
  payload is not read into a package as it comes from the pool. A payload crosses
  only if both sides make elements through `RawRef()`, which only the codec calls,
  to read (`PayloadsNeedElements`, `PayloadsCross`). The casts have the same
  flaw (`NothingComesBack`, `ListsDoNotComeBack`), and one overruns a list that is
  short (`ListsOfTheirSize`).
- A handshake that fails because the client is gone throws for its log message,
  and the socket stays open (`HandshakeThrows`).
- `Recycle` never clears a package, whose next user finds the length of the last
  (`LengthOutlivesData`).

Pools, server and helpers:

- An acquire on an empty package pool puts null pointers into it, or throws if
  at most one package is in use (`Expand`); every recycling locks a mutex the
  thread holds (`Relock`), so that a handler may block its thread, and the join in
  the pool's destructor with it, for good (`Server!HandlerBlocks`); a pool may be destroyed between the look at the
  control block and the call (`RecycleBegin`).
- A pool shrinks at the threshold that is meant for expansion
  (`base/Recycler.cpp:118`), and `Acquire<Type>` loses a node whose element is of
  another type (`base/Recycler.h:99`).
- `Quit` notifies without the mutex, so that a worker may sleep through it and
  the destructor waits for good (`base/ConcurrentDeque.h:113`, `overslept`).
  `PushTask` may index `mWorkerList` beyond its end (`crashed`).
- The service module destroys its factory before its maps and its pool, whose
  services still need it (`DestroyFactory`, `MapCleared`, `DestroyPool`); and `UGateway::Stop` on a gateway
  that was never initialised dereferences null (`StopModule`).
- `GetDayOfYear` takes chrono's average years for calendar years
  (`Utils.cpp:135`), and `RandomDraw` may draw nothing from a pool with weight
  (`Utils.cpp:204`).

## 6. Not modelled

- What a player does with packages, events and timers: `SetUpPlayer` never lets
  the program get there. (Its end is in `PlayerCache`, by operators only.)
- Operations nothing calls: `RemoveTicker`, the removal of all listeners of a
  service or player, `TConcurrentDeque` beyond what `DataAccess` uses, the setters
  of the package pool (its parameters are constants).
- The monitor module beyond its place among the modules; the parsing of
  configuration, which libraries do; `service/`, `impl/` and `script/`, which use
  or generate code for the framework; `back/`, which no build compiles.
- What a task and a handler of one actor do to the actor's own data when they run
  beside each other, which is the service's business; `AgentTimers` has them run
  so, and follows what both do to the timers.
- Weak memory: atomics are taken as sequentially consistent. Data races on the
  containers themselves (`mUseCount`, the registry's maps at stop) are taken at
  the grain of whole calls.

## 7. Plan

All components that keep state are modelled, and every safety property that a
run checks is proved. What is left:

1. Liveness, should the prover come to reason about fairness: the nine properties
   that section 4 lists are only checked on their instances.
2. Months and draws of `Utils` for every calendar and every pool, and `Initial` of
   `RecycleHandle` for every capacity, which need induction over data.
3. An abstract specification of routing, which today has none but its properties.
