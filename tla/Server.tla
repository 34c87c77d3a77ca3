-------------------------------- MODULE Server --------------------------------
(***************************************************************************)
(* The life of the process (src/Uranus.cpp, src/src/Server.cpp): main      *)
(* creates the modules, initialises and starts them in that order, waits   *)
(* for a signal, stops them in reverse and destroys the server.  With it   *)
(* goes what depends on the order: the libraries that services come from   *)
(* (ServiceFactory), the services' agents, and the threads of the two      *)
(* pools, which go on with what they are at after a pool was stopped and   *)
(* are joined when it is destroyed.                                        *)
(*                                                                         *)
(* An exception that leaves Initial or Start ends the process, since main  *)
(* catches none.  What a module does between Start and Stop is in the      *)
(* modules on it; a handler here ends, throws, blocks its thread for good  *)
(* or uses a module that is gone.                                          *)
(***************************************************************************)
EXTENDS ServiceFactory, SequencesExt

CONSTANTS
    MayFail         \* bound: whether files and directories may be missing

ASSUME MayFailAssumption == MayFail \in BOOLEAN

\* In the order of CreateModule in main.
Modules == <<"config", "login", "event", "route", "logger", "monitor",
             "service", "gateway">>
Index == 1 .. Len(Modules)
Pools == {"service", "gateway"}

VARIABLES
    mState,         \* of the server
    moduleState,    \* of each module; "none" and "gone" when it does not exist
    mModuleOrder,
    at,             \* what main is doing: a name and the index of a module
    poolStopped,    \* io_context::stopped() of each module's pool
    threads,        \* the pools whose threads are not joined
    agent,          \* each service's coroutine
    open,           \* its channel
    mServiceMap,    \* the agents in it
    blocked,        \* the pools with a thread that never comes back
    crashed         \* the process has ended at a null pointer or a dead object

Stages == {"create", "directories", "initial", "initialized", "start",
           "started", "run", "stop", "delete", "ended", "aborted"}

serverVars == <<mState, moduleState, mModuleOrder, at>>
agents == <<agent, open, mServiceMap>>
workers == <<poolStopped, threads, blocked, agents>>
processVars == <<serverVars, workers, factoryVars, crashed>>

ServerInit ==
    /\ FactoryInit
    /\ mState = "CREATED"
    /\ moduleState = [m \in Range(Modules) |-> "none"]
    /\ mModuleOrder = <<>>
    /\ at = <<"create", 1>>
    /\ poolStopped = [p \in Pools |-> FALSE]
    /\ threads = {}
    /\ agent = [a \in Agents |-> "none"]
    /\ open = [a \in Agents |-> FALSE]
    /\ mServiceMap = {}
    /\ blocked = {}
    /\ crashed = FALSE

At(what, i) == at = <<what, i>>
Goes(what, i) == at' = <<what, i>>
Module == Modules[at[2]]

\* The next module, or what follows the last.
GoesOn(what, then) ==
    IF at[2] < Len(Modules) THEN Goes(what, at[2] + 1) ELSE Goes(then, 1)

Becomes(m, state) == moduleState' = [moduleState EXCEPT ![m] = state]

----------------------------------------------------------------------------
\* CreateModule, and the factories that are set while all is CREATED.
CreateModule ==
    /\ at[1] = "create"
    /\ Becomes(Module, "CREATED")
    /\ mModuleOrder' = Append(mModuleOrder, Module)
    /\ GoesOn("create", "directories")
    /\ UNCHANGED <<mState, workers, factoryVars, crashed>>

\* UServer::Initial: a directory that cannot be made leads to Shutdown.
Directories ==
    /\ at[1] = "directories"
    /\ \/ Goes("initial", 1) /\ UNCHANGED mState
       \/ MayFail /\ Goes("stop", Len(Modules)) /\ mState' = "TERMINATED"
    /\ UNCHANGED <<moduleState, mModuleOrder, workers, factoryVars, crashed>>

Throws == Goes("aborted", 1)

\* Initial of a module without threads; the configuration may be missing.
InitialModule ==
    /\ at[1] = "initial" /\ Module \notin Pools
    /\ \/ Becomes(Module, "INITIALIZED") /\ GoesOn("initial", "initialized")
       \/ Module = "config" /\ MayFail /\ Throws /\ UNCHANGED moduleState
    /\ UNCHANGED <<mState, mModuleOrder, workers, factoryVars, crashed>>

\* UServiceModule: LoadService, ...
InitialLoads ==
    /\ at[1] = "initial" /\ Module = "service"
    /\ LoadLibrary \/ InsertEntry \/ LoadDone
    /\ IF factory' = "threw" THEN Throws ELSE UNCHANGED at
    /\ UNCHANGED <<mState, moduleState, mModuleOrder, workers, crashed>>

\* ... the core services, ...
InitialCreates(a) ==
    /\ at[1] = "initial" /\ Module = "service"
    /\ threads \cap {"service"} = {}
    /\ \E f \in CoreFiles : CreateInstance(a, f)
    /\ UNCHANGED <<serverVars, workers, crashed>>

\* An agent that nobody has any more gives its service back, to a factory that
\* may be gone.
Drop(a) ==
    /\ agent' = [agent EXCEPT ![a] = "ended"]
    /\ open' = [open EXCEPT ![a] = FALSE]
    /\ IF CanDestroy(a) THEN ReleaseService(a) /\ UNCHANGED crashed
       ELSE crashed' = TRUE /\ UNCHANGED factoryVars

\* ... in agents that may fail to initialise and be dropped ...
InitialAgent(a) ==
    /\ SetUpService(a)
    /\ agent' = [agent EXCEPT ![a] = "initialized"]
    /\ open' = [open EXCEPT ![a] = TRUE]
    /\ UNCHANGED <<serverVars, poolStopped, threads, blocked, mServiceMap, crashed>>

InitialFails(a) ==
    /\ agent[a] = "initialized" /\ a \notin mServiceMap
    /\ Drop(a)
    /\ UNCHANGED <<serverVars, poolStopped, threads, blocked, mServiceMap>>

\* ... or are in the map, ...
InitialInserts(a) ==
    /\ agent[a] = "initialized"
    /\ path[a] \in CoreFiles
    /\ mServiceMap' = mServiceMap \cup {a}
    /\ UNCHANGED <<serverVars, poolStopped, threads, blocked, agent, open,
                   factoryVars, crashed>>

\* ... and the threads of the pool, which may stop by the signal set that
\* Start drops; "update" or the player library may be missing.
InitialPool ==
    /\ at[1] = "initial" /\ Module \in Pools
    /\ Module = "service" => factory = "loaded"
    /\ \A a \in Agents : /\ ~Own!Owns(handles, <<a, "boot">>)
                         /\ agent[a] = "initialized" => a \in mServiceMap
    /\ \/ /\ threads' = threads \cup {Module}
          /\ Becomes(Module, "INITIALIZED")
          /\ GoesOn("initial", "initialized")
       \/ MayFail /\ Throws /\ UNCHANGED <<threads, moduleState>>
    /\ UNCHANGED <<mState, mModuleOrder, poolStopped, blocked, agents, factoryVars,
                   crashed>>

InitialDone ==
    /\ at[1] = "initialized"
    /\ mState' = "INITIALIZED"
    /\ Goes("start", 1)
    /\ UNCHANGED <<moduleState, mModuleOrder, workers, factoryVars, crashed>>

\* Stopped by that set, or by a signal that comes before main waits for one.
PoolAborts(p) ==
    /\ p \in threads /\ ~poolStopped[p]
    /\ poolStopped' = [poolStopped EXCEPT ![p] = TRUE]
    /\ UNCHANGED <<serverVars, threads, blocked, agents, factoryVars, crashed>>

----------------------------------------------------------------------------
\* UServer::Start.  The service module boots its core services, and keeps those
\* that do not start; a service, or the gateway without a port, may throw.
StartModule ==
    /\ at[1] = "start"
    /\ \/ /\ Becomes(Module, "RUNNING")
          /\ GoesOn("start", "started")
          /\ \E fail \in SUBSET {a \in Agents : agent[a] = "initialized"} :
                agent' = [a \in Agents |->
                    IF Module # "service" \/ agent[a] # "initialized" THEN agent[a]
                    ELSE IF a \in fail THEN "failed" ELSE "looping"]
       \/ Module \in Pools /\ MayFail /\ Throws /\ UNCHANGED <<moduleState, agent>>
    /\ UNCHANGED <<mState, mModuleOrder, poolStopped, threads, blocked, open,
                   mServiceMap, factoryVars, crashed>>

StartDone ==
    /\ at[1] = "started"
    /\ mState' = "RUNNING"
    /\ Goes("run", 1)
    /\ UNCHANGED <<moduleState, mModuleOrder, workers, factoryVars, crashed>>

\* SIGINT or SIGTERM: Shutdown, which does nothing the second time.
Signal ==
    /\ at[1] = "run"
    /\ mState' = "TERMINATED"
    /\ Goes("stop", Len(Modules))
    /\ UNCHANGED <<moduleState, mModuleOrder, workers, factoryVars, crashed>>

----------------------------------------------------------------------------
\* Services.

\* UServiceModule::BootService, while the server runs.
Boots(a) ==
    /\ moduleState["service"] = "RUNNING"
    /\ \E f \in ExtendFiles : CreateInstance(a, f)
    /\ UNCHANGED <<serverVars, workers, crashed>>

BootStarts(a) ==
    /\ agent[a] = "initialized"
    /\ path[a] \in ExtendFiles
    /\ agent' = [agent EXCEPT ![a] = "looping"]
    /\ UNCHANGED <<serverVars, poolStopped, threads, blocked, open, mServiceMap,
                   factoryVars, crashed>>

\* The call that boots an agent has it, and leaves it in the map, which may be
\* cleared by now, or gone.
BootInserts(a) ==
    /\ path[a] \in ExtendFiles
    /\ agent[a] \notin {"none", "initialized", "ended"}
    /\ open[a] /\ a \notin mServiceMap
    /\ \/ /\ moduleState["service"] \in {"RUNNING", "STOPPED", "destroying"}
          /\ mServiceMap' = mServiceMap \cup {a}
          /\ UNCHANGED crashed
       \/ /\ moduleState["service"] \in {"destroying", "gone"}
          /\ crashed' = TRUE
          /\ UNCHANGED mServiceMap
    /\ UNCHANGED <<serverVars, poolStopped, threads, blocked, agent, open, factoryVars>>

\* Mutant: the threads let what is in the context run dry.
RunsOn(a) == agent[a] = "looping" /\ "service" \in threads

\* ProcessChannel on a thread of the pool.
Runs(a) == agent[a] = "looping" /\ "service" \in threads /\ ~poolStopped["service"]

HandleBegin(a) ==
    /\ Runs(a) /\ open[a]
    /\ agent' = [agent EXCEPT ![a] = "handling"]
    /\ UNCHANGED <<serverVars, poolStopped, threads, blocked, open, mServiceMap,
                   factoryVars, crashed>>

\* A handler asks the server for a module.
HandlerUses(a) ==
    /\ agent[a] = "handling"
    /\ \E m \in Range(Modules) : moduleState[m] = "gone"
    /\ crashed' = TRUE
    /\ UNCHANGED <<serverVars, workers, factoryVars>>

\* Behind a handler that found the channel closed, CleanUp follows at once.
HandleEnd(a) ==
    /\ agent[a] = "handling"
    /\ IF open[a] THEN /\ agent' = [agent EXCEPT ![a] = "looping"]
                       /\ UNCHANGED <<open, factoryVars, crashed>>
       ELSE Drop(a)
    /\ UNCHANGED <<serverVars, poolStopped, threads, blocked, mServiceMap>>

\* The coroutine is over; the map, or the call that boots it, may have the agent.
HandlerThrows(a) ==
    /\ agent[a] = "handling"
    /\ IF open[a] \/ a \in mServiceMap
       THEN /\ agent' = [agent EXCEPT ![a] = "failed"]
            /\ UNCHANGED <<open, factoryVars, crashed>>
       ELSE Drop(a)
    /\ UNCHANGED <<serverVars, poolStopped, threads, blocked, mServiceMap>>

\* For good, at the mutex that Recycle has already; a player's may do so too.
HandlerBlocks(a) ==
    /\ agent[a] = "handling"
    /\ agent' = [agent EXCEPT ![a] = "blocked"]
    /\ blocked' = blocked \cup {"service"}
    /\ UNCHANGED <<serverVars, poolStopped, threads, open, mServiceMap, factoryVars,
                   crashed>>

PlayerBlocks ==
    /\ moduleState["gateway"] = "RUNNING" /\ ~poolStopped["gateway"]
    /\ blocked' = blocked \cup {"gateway"}
    /\ UNCHANGED <<serverVars, poolStopped, threads, agents, factoryVars, crashed>>

CleanUp(a) ==
    /\ Runs(a) /\ ~open[a]
    /\ Drop(a)
    /\ UNCHANGED <<serverVars, poolStopped, threads, blocked, mServiceMap>>

\* The map lets an agent go, which nobody else has when its coroutine is over.
LetGo(a) ==
    /\ mServiceMap' = mServiceMap \ {a}
    /\ IF agent[a] = "failed" THEN Drop(a)
       ELSE /\ open' = [open EXCEPT ![a] = FALSE]
            /\ UNCHANGED <<agent, factoryVars, crashed>>

ShutdownService(a) ==
    /\ moduleState["service"] = "RUNNING"
    /\ a \in mServiceMap
    /\ LetGo(a)
    /\ UNCHANGED <<serverVars, poolStopped, threads, blocked>>

----------------------------------------------------------------------------
\* UServer::Shutdown: Stop of each module, the last first.

\* Those it has closed are out of the map before Stop goes on.
Cleared == \A a \in mServiceMap : open[a]

\* A pool is stopped and not joined; the channels of the services in the map are
\* closed.  The gateway uses a timer that only its Initial makes.
StopsModule(m) ==
    /\ at[1] = "stop" /\ at[2] > 0 /\ Cleared
    /\ crashed' = (m = "gateway" /\ moduleState[m] = "CREATED")
    /\ Becomes(m, "STOPPED")
    /\ poolStopped' = [p \in Pools |-> poolStopped[p] \/ p = m]
    /\ open' = [a \in Agents |-> open[a] /\ ~(m = "service" /\ a \in mServiceMap)]
    /\ Goes("stop", at[2] - 1)
    /\ UNCHANGED <<mState, mModuleOrder, threads, blocked, agent, mServiceMap,
                   factoryVars>>

\* Mutant: the first first.
StopModuleForwards == StopsModule(mModuleOrder[Len(mModuleOrder) + 1 - at[2]])

StopModule == StopsModule(mModuleOrder[at[2]])

\* The map is cleared behind that, and goes behind the factory.
MapCleared(a) ==
    /\ a \in mServiceMap
    /\ \/ at[1] = "stop" /\ ~open[a]
       \/ at[1] = "delete" /\ moduleState["service"] = "destroying"
    /\ LetGo(a)
    /\ UNCHANGED <<serverVars, poolStopped, threads, blocked>>

\* run returns, main calls Shutdown again and deletes the server.
ShutdownDone ==
    /\ At("stop", 0) /\ Cleared
    /\ mState = "TERMINATED"
    /\ Goes("delete", 1)
    /\ UNCHANGED <<mState, moduleState, mModuleOrder, workers, factoryVars, crashed>>

----------------------------------------------------------------------------
\* ~UServer: the map of the modules destroys them in any order.

Destroyed(m) ==
    /\ Becomes(m, "gone")
    /\ IF \E n \in Range(Modules) \ {m} : moduleState[n] # "gone"
       THEN UNCHANGED at
       ELSE Goes("ended", 1)

DestroyModule(m) ==
    /\ at[1] = "delete" /\ m \notin Pools /\ moduleState[m] # "gone"
    /\ \A p \in Pools : moduleState[p] # "destroying"
    /\ Destroyed(m)
    /\ UNCHANGED <<mState, mModuleOrder, workers, factoryVars, crashed>>

\* The members in the reverse order of their declaration: the factory before the
\* maps, and the pool last, which stops once more.
DestroyFactory(p) ==
    /\ at[1] = "delete" /\ moduleState[p] = "STOPPED"
    /\ \A q \in Pools : moduleState[q] # "destroying"
    /\ Becomes(p, "destroying")
    /\ poolStopped' = [poolStopped EXCEPT ![p] = TRUE]
    /\ IF p = "service" THEN FactoryGone ELSE UNCHANGED factoryVars
    /\ UNCHANGED <<mState, mModuleOrder, at, threads, blocked, agents, crashed>>

\* Its threads are joined, and the coroutines that wait in its io_context are
\* destroyed with their agents.
DestroyPool(p) ==
    /\ at[1] = "delete" /\ moduleState[p] = "destroying"
    /\ p \notin blocked
    /\ p = "service" => mServiceMap = {} /\ \A a \in Agents : agent[a] # "handling"
    /\ threads' = threads \ {p}
    /\ crashed' = (p = "service" /\ \E a \in Agents :
                        agent[a] = "looping" /\ ~CanDestroy(a))
    /\ Destroyed(p)
    /\ UNCHANGED <<mState, mModuleOrder, poolStopped, blocked, agents, factoryVars>>

----------------------------------------------------------------------------
Main ==
    \/ CreateModule \/ Directories \/ InitialModule \/ InitialLoads
    \/ InitialPool \/ InitialDone \/ StartModule \/ StartDone
    \/ StopModule \/ ShutdownDone
    \/ \E m \in Range(Modules) : DestroyModule(m)
    \/ \E p \in Pools : DestroyFactory(p) \/ DestroyPool(p)
    \/ \E a \in Agents : MapCleared(a)

HandlerReturns(a) == HandleEnd(a) \/ HandlerThrows(a) \/ HandlerBlocks(a)

Service(a) ==
    \/ InitialCreates(a) \/ InitialAgent(a) \/ InitialFails(a) \/ InitialInserts(a)
    \/ Boots(a) \/ BootStarts(a) \/ BootInserts(a) \/ ShutdownService(a)
    \/ HandleBegin(a) \/ HandlerUses(a) \/ HandlerReturns(a) \/ CleanUp(a)

Lives == ~crashed /\ at[1] \notin {"aborted", "ended"}

ServerNext ==
    /\ Lives
    /\ \/ Main \/ Signal \/ PlayerBlocks
       \/ \E p \in Pools : PoolAborts(p)
       \/ \E a \in Agents : Service(a)

\* Main goes on, and a handler ends, throws or is blocked for good.
Fairness ==
    /\ WF_processVars(Lives /\ Main)
    /\ \A a \in Agents : WF_processVars(Lives /\ HandlerReturns(a))

ServerSpec == ServerInit /\ [][ServerNext]_processVars /\ Fairness

----------------------------------------------------------------------------
AgentStates == {"none", "initialized", "looping", "handling", "failed", "blocked",
                "ended"}

ServerTypeOK ==
    /\ mState \in {"CREATED", "INITIALIZED", "RUNNING", "TERMINATED"}
    /\ moduleState \in [Range(Modules) -> {"none", "CREATED", "INITIALIZED",
                            "RUNNING", "STOPPED", "destroying", "gone"}]
    /\ mModuleOrder \in Seq(Range(Modules))
    /\ at \in Stages \X (0 .. Len(Modules))
    /\ poolStopped \in [Pools -> BOOLEAN] /\ threads \subseteq Pools
    /\ blocked \subseteq Pools
    /\ agent \in [Agents -> AgentStates]
    /\ open \in [Agents -> BOOLEAN] /\ mServiceMap \subseteq Agents
    /\ crashed \in BOOLEAN

\* A module runs only while those that were created before it, which it uses,
\* run; through start, stop and what ends them early.
RunsOnWhatRuns ==
    \A i, j \in Index :
        i < j /\ moduleState[Modules[j]] = "RUNNING" =>
            moduleState[Modules[i]] = "RUNNING"

\* Once Shutdown has begun, the server ends, whatever its services are at when
\* the pools are stopped, and whoever is booted, shut down or dropped meanwhile:
\* no thread is waited for that does not come back, unless a handler blocked it
\* for good.  (What a handler or an agent touches that is gone ends it too.)
ServerEnds ==
    mState = "TERMINATED" ~> (crashed \/ at[1] = "ended" \/ blocked # {})
=============================================================================
