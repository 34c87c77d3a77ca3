---------------------------- MODULE ServiceModule ----------------------------
(***************************************************************************)
(* UServiceModule (src/service/ServiceModule.cpp): the registry of         *)
(* services.  The main thread runs Initial, Start and Stop; any number of  *)
(* caller threads boot, shut down and look up services while the module    *)
(* runs; the coroutine UpdateLoop ticks services from the worker pool.     *)
(* mServiceMap, mServiceNameMap and mTickerSet each have a mutex of their  *)
(* own, so a call is a sequence of steps: one per critical section, one    *)
(* for the state check it starts with, one for the work between two locks. *)
(*                                                                         *)
(* The allocator appears here by what IdentAllocator is shown to do, as    *)
(* one step per call, and an agent by what AgentChannel is shown to do:    *)
(* once its channel is closed, its ProcessChannel ends in CleanUp, which   *)
(* stops the service, as long as the worker pool runs and unless one of    *)
(* the service's handlers throws.                                          *)
(***************************************************************************)
EXTENDS Naturals, Sequences, FiniteSets

CONSTANTS
    Callers,        \* threads that boot, shut down and look up services
    Names,          \* service names
    UpdatingNames,  \* names of services with bUpdatePerTick
    CoreNames,      \* the core services of the configuration, in order
    MaxAgents       \* bound: agents ever created

ASSUME NamesAssumption ==
    /\ UpdatingNames \subseteq Names
    /\ CoreNames \in Seq(Names)
    /\ 0 \notin Names
ASSUME MaxAgentsAssumption == MaxAgents \in Nat

Agents == 1 .. MaxAgents
Sids == 1 .. MaxAgents
None == 0

VARIABLES
    mState,             \* state of the module
    main,               \* where the main thread is
    pool,               \* the worker pool: "idle", "running" or "stopped"
    loop,               \* UpdateLoop: "none", "checking", "waiting", "ended"
    mServiceMap,        \* service id -> agent, or None
    mServiceNameMap,    \* service name -> service id, or None
    mTickerSet,         \* ids of the services to update
    mHashSet, mNext,    \* the allocator: recycled ids, the last fresh id
    created,            \* number of agents created
    agents,             \* their service id, name, phase, and channel state
    pc, target          \* each caller's position, and what it works on

allocator == <<mHashSet, mNext>>
maps == <<mServiceMap, mServiceNameMap>>
mainVars == <<mState, main, pool>>
callVars == <<pc, target>>
vars == <<mainVars, loop, maps, mTickerSet, allocator, created, agents,
          callVars>>

NoTarget == [sid |-> None, agent |-> None, name |-> None]

Registered(a) == mServiceMap[agents[a].sid] = a

\* GetServiceName of an agent whose service was released by CleanUp.
CurrentName(a) == IF agents[a].phase = "cleaned" THEN None ELSE agents[a].name

----------------------------------------------------------------------------
Init ==
    /\ mState = "CREATED"
    /\ main = "initial"
    /\ pool = "idle"
    /\ loop = "none"
    /\ mServiceMap = [s \in Sids |-> None]
    /\ mServiceNameMap = [n \in Names |-> None]
    /\ mTickerSet = {}
    /\ mHashSet = {} /\ mNext = 0
    /\ created = 0
    /\ agents = <<>>
    /\ pc = [t \in Callers |-> "idle"]
    /\ target = [t \in Callers |-> NoTarget]

----------------------------------------------------------------------------
\* Parts shared by the operations.

\* AllocateTS: a recycled id if there is one, else the next fresh one.
IsFree(sid) == IF mHashSet # {} THEN sid \in mHashSet ELSE sid = mNext + 1

\* Mutant: the fresh id is not counted.
IssueForgotten(sid) == UNCHANGED mNext

Issue(sid) == mNext' = IF mHashSet # {} THEN mNext ELSE sid

Allocate(sid) ==
    /\ IsFree(sid)
    /\ Issue(sid)
    /\ mHashSet' = mHashSet \ {sid}

Recycle(sid) == mHashSet' = mHashSet \cup {sid} /\ UNCHANGED mNext

NewAgent(sid, name, isOpen) ==
    /\ created < MaxAgents
    /\ created' = created + 1
    /\ agents' = Append(agents, [sid |-> sid, name |-> name,
                                 phase |-> "created", open |-> isOpen])

\* UServiceAgent::Stop closes the channel.
StopAgent(a) == agents' = [agents EXCEPT ![a].open = FALSE]

\* UServiceAgent::BootService: the service starts, ProcessChannel is spawned.
ServeAgent(a) == agents' = [agents EXCEPT ![a].phase = "serving"]

\* UServiceAgent::BootService: the service refuses to start.
RefuseAgent(a) == agents' = [agents EXCEPT ![a].phase = "refused"]

\* InsertTicker, by a service with bUpdatePerTick; ignored unless RUNNING.
InsertTicker(a) ==
    mTickerSet' = IF mState = "RUNNING" /\ agents[a].name \in UpdatingNames
                  THEN mTickerSet \cup {agents[a].sid}
                  ELSE mTickerSet

Register(a) ==
    /\ mServiceMap' = [mServiceMap EXCEPT ![agents[a].sid] = a]
    /\ mServiceNameMap' = [mServiceNameMap EXCEPT ![agents[a].name]
                                                     = agents[a].sid]

Goto(t, label) == pc' = [pc EXCEPT ![t] = label]

Return(t) ==
    /\ Goto(t, "idle")
    /\ target' = [target EXCEPT ![t] = NoTarget]

\* A call starts with the check that the module is RUNNING.
Call(t, label, what) ==
    /\ pc[t] = "idle"
    /\ mState = "RUNNING"
    /\ Goto(t, label)
    /\ target' = [target EXCEPT ![t] = what]
    /\ UNCHANGED <<mainVars, loop, maps, mTickerSet, allocator, created,
                   agents>>

----------------------------------------------------------------------------
\* Mutants: a name that is not looked up, an agent left in mServiceMap, an id
\* left in mTickerSet, an agent that is not stopped.
BootUnchecked(t) ==
    /\ pc[t] = "bootName"
    /\ Goto(t, "bootStart")
    /\ UNCHANGED <<mainVars, loop, maps, mTickerSet, allocator, created, agents,
                   target>>

EraseByIdKeeps(t) ==
    /\ pc[t] = "eraseById"
    /\ LET a == mServiceMap[target[t].sid] IN
       IF a = None
       THEN Return(t)
       ELSE /\ target' = [target EXCEPT ![t].agent = a]
            /\ Goto(t, "eraseTicker")
    /\ UNCHANGED <<mainVars, loop, maps, mTickerSet, allocator, created, agents>>

TickerKept(t) ==
    /\ pc[t] = "eraseTicker"
    /\ Goto(t, "recycle")
    /\ UNCHANGED <<mainVars, loop, maps, mTickerSet, allocator, created, agents,
                   target>>

AgentNotStopped(t) ==
    /\ pc[t] = "stopAgent"
    /\ Return(t)
    /\ UNCHANGED <<mainVars, loop, maps, mTickerSet, allocator, created, agents>>

----------------------------------------------------------------------------
\* The main thread: Initial, Start, Stop.

\* Initial, one core service of the configuration: registered, or stopped if
\* its Initial fails (the id is recycled) or its name is taken (it is not).
InitialCore ==
    /\ main = "initial"
    /\ created < Len(CoreNames)
    /\ \E sid \in Sids, ok \in BOOLEAN :
        LET name   == CoreNames[created + 1]
            joined == ok /\ mServiceNameMap[name] = None
        IN  /\ IsFree(sid)
            /\ Issue(sid)
            /\ mHashSet' = IF ok THEN mHashSet \ {sid} ELSE mHashSet \cup {sid}
            /\ NewAgent(sid, name, joined)
            /\ IF joined
               THEN /\ mServiceMap' = [mServiceMap EXCEPT ![sid] = created + 1]
                    /\ mServiceNameMap' = [mServiceNameMap EXCEPT ![name] = sid]
               ELSE UNCHANGED maps
    /\ UNCHANGED <<mainVars, loop, mTickerSet, callVars>>

\* Initial, the rest: UpdateLoop is spawned and the worker pool started.
InitialDone ==
    /\ main = "initial"
    /\ created = Len(CoreNames)
    /\ mState' = "INITIALIZED"
    /\ main' = "start"
    /\ pool' = "running"
    /\ loop' = "checking"
    /\ UNCHANGED <<maps, mTickerSet, allocator, created, agents, callVars>>

\* Start, one core service: it is booted before the module is RUNNING, and
\* stays registered if it refuses to start.
StartCore(a) ==
    /\ main = "start"
    /\ Registered(a)
    /\ agents[a].phase = "created"
    /\ \/ ServeAgent(a) /\ InsertTicker(a)
       \/ RefuseAgent(a) /\ UNCHANGED mTickerSet
    /\ UNCHANGED <<mainVars, loop, maps, allocator, created, callVars>>

StartDone ==
    /\ main = "start"
    /\ \A a \in 1 .. created : Registered(a) => agents[a].phase # "created"
    /\ mState' = "RUNNING"
    /\ main' = "run"
    /\ UNCHANGED <<pool, loop, maps, mTickerSet, allocator, created, agents,
                   callVars>>

\* Stop: the state is set and the tick timer cancelled; its wait fails unless
\* it has fired already.
StopBegin ==
    /\ main = "run"
    /\ mState' = "STOPPED"
    /\ main' = "stopAgents"
    /\ loop' \in IF loop = "waiting" THEN {"waiting", "ended"} ELSE {loop}
    /\ UNCHANGED <<pool, maps, mTickerSet, allocator, created, agents,
                   callVars>>

\* Stop: every registered agent is stopped.
StopAgents ==
    /\ main = "stopAgents"
    /\ main' = "stopPool"
    /\ agents' = [a \in 1 .. created |->
                    IF Registered(a) THEN [agents[a] EXCEPT !.open = FALSE]
                                     ELSE agents[a]]
    /\ UNCHANGED <<mState, pool, loop, maps, mTickerSet, allocator, created,
                   callVars>>

\* Stop: the worker pool is stopped at once, whatever is still queued in it.
StopPool ==
    /\ main = "stopPool"
    /\ pool' = "stopped"
    /\ main' = "clear"
    /\ UNCHANGED <<mState, loop, maps, mTickerSet, allocator, created, agents,
                   callVars>>

StopClear ==
    /\ main = "clear"
    /\ mServiceMap' = [s \in Sids |-> None]
    /\ mServiceNameMap' = [n \in Names |-> None]
    /\ main' = "stopped"
    /\ UNCHANGED <<mState, pool, loop, mTickerSet, allocator, created, agents,
                   callVars>>

Main ==
    \/ InitialCore \/ InitialDone
    \/ \E a \in 1 .. created : StartCore(a)
    \/ StartDone
    \/ StopBegin \/ StopAgents \/ StopPool \/ StopClear

----------------------------------------------------------------------------
\* UpdateLoop and the agents' coroutines, on the worker pool.

\* USingleIOContextPool::Start waits for signals on a signal_set that is gone
\* when Start returns: its handler stops the io_context, sooner or later.
PoolAbort ==
    /\ pool = "running"
    /\ pool' = "stopped"
    /\ UNCHANGED <<mState, main, loop, maps, mTickerSet, allocator, created,
                   agents, callVars>>

\* while (mState == RUNNING), then the timer is armed.
UpdateCheck ==
    /\ pool = "running"
    /\ loop = "checking"
    /\ loop' = IF mState = "RUNNING" THEN "waiting" ELSE "ended"
    /\ UNCHANGED <<mainVars, maps, mTickerSet, allocator, created, agents,
                   callVars>>

\* The timer fires: under both locks, registered services are pushed a tick
\* (a node in their channel) and ids that are not registered are dropped.
UpdateTick ==
    /\ pool = "running"
    /\ loop = "waiting"
    /\ mTickerSet' = {s \in mTickerSet : mServiceMap[s] # None}
    /\ loop' = "checking"
    /\ UNCHANGED <<mainVars, maps, allocator, created, agents, callVars>>

\* A handler that throws, or the service's Stop in CleanUp, ends ProcessChannel
\* at once: the channel stays as it is, the service is not released.
HandlerThrows(a) ==
    /\ pool = "running"
    /\ agents[a].phase = "serving"
    /\ agents' = [agents EXCEPT ![a].phase = "abandoned"]
    /\ UNCHANGED <<mainVars, loop, maps, mTickerSet, allocator, created,
                   callVars>>

\* ProcessChannel of a closed agent ends in CleanUp: the service is stopped
\* and released.
CleanUp(a) ==
    /\ pool = "running"
    /\ agents[a].phase = "serving"
    /\ ~agents[a].open
    /\ agents' = [agents EXCEPT ![a].phase = "cleaned"]
    /\ UNCHANGED <<mainVars, loop, maps, mTickerSet, allocator, created,
                   callVars>>

----------------------------------------------------------------------------
\* BootService.

BootCall(t) ==
    \E n \in Names : Call(t, "bootAllocate", [NoTarget EXCEPT !.name = n])

\* CreateInstance fails, or AllocateTS and the agent is constructed.
BootAllocate(t) ==
    /\ pc[t] = "bootAllocate"
    /\ \/ Return(t) /\ UNCHANGED <<allocator, created, agents>>
       \/ \E sid \in Sids :
            /\ Allocate(sid)
            /\ NewAgent(sid, target[t].name, TRUE)
            /\ target' = [target EXCEPT ![t].sid = sid,
                                        ![t].agent = created + 1]
            /\ Goto(t, "bootInitial")
    /\ UNCHANGED <<mainVars, loop, maps, mTickerSet>>

\* The service is refused: its agent is stopped and its id recycled.
BootFail(t) ==
    /\ StopAgent(target[t].agent)
    /\ Recycle(target[t].sid)
    /\ Return(t)

\* The id is looked up, the agent initialised: Initial may fail, or the name
\* of the service be undefined.
BootInitial(t) ==
    /\ pc[t] = "bootInitial"
    /\ IF mServiceMap[target[t].sid] # None
       THEN Return(t) /\ UNCHANGED <<allocator, agents>>
       ELSE \/ Goto(t, "bootName") /\ UNCHANGED <<target, allocator, agents>>
            \/ BootFail(t)
    /\ UNCHANGED <<mainVars, loop, maps, mTickerSet, created>>

\* The name is looked up: repeated or not.
BootName(t) ==
    /\ pc[t] = "bootName"
    /\ IF mServiceNameMap[target[t].name] = None
       THEN /\ Goto(t, "bootStart")
            /\ UNCHANGED <<target, allocator, agents>>
       ELSE BootFail(t)
    /\ UNCHANGED <<mainVars, loop, maps, mTickerSet, created>>

\* agent->BootService: the service starts and asks for ticks, or refuses.
BootStart(t) ==
    /\ pc[t] = "bootStart"
    /\ \/ /\ ServeAgent(target[t].agent)
          /\ InsertTicker(target[t].agent)
          /\ Goto(t, "bootRegister")
          /\ UNCHANGED <<target, allocator>>
       \/ BootFail(t) /\ UNCHANGED mTickerSet
    /\ UNCHANGED <<mainVars, loop, maps, created>>

\* Both maps, under both locks.
BootRegister(t) ==
    /\ pc[t] = "bootRegister"
    /\ Register(target[t].agent)
    /\ Return(t)
    /\ UNCHANGED <<mainVars, loop, mTickerSet, allocator, created, agents>>

----------------------------------------------------------------------------
\* ShutdownService, by id and by name.

ShutdownCall(t) ==
    \/ \E s \in Sids : Call(t, "sidErase", [NoTarget EXCEPT !.sid = s])
    \/ \E n \in Names : Call(t, "nameErase", [NoTarget EXCEPT !.name = n])

\* By id: the agent is taken out of mServiceMap; its name is asked for.
SidErase(t) ==
    /\ pc[t] = "sidErase"
    /\ LET a == mServiceMap[target[t].sid] IN
       IF a = None
       THEN Return(t) /\ UNCHANGED mServiceMap
       ELSE /\ mServiceMap' = [mServiceMap EXCEPT ![target[t].sid] = None]
            /\ target' = [target EXCEPT ![t].agent = a,
                                        ![t].name = CurrentName(a)]
            /\ Goto(t, "eraseOwnName")
    /\ UNCHANGED <<mainVars, loop, mServiceNameMap, mTickerSet, allocator,
                   created, agents>>

\* By id: whatever the name maps to by now is erased.
EraseOwnName(t) ==
    /\ pc[t] = "eraseOwnName"
    /\ mServiceNameMap' = [n \in Names |-> IF n = target[t].name THEN None
                                           ELSE mServiceNameMap[n]]
    /\ Goto(t, "eraseTicker")
    /\ UNCHANGED <<mainVars, loop, mServiceMap, mTickerSet, allocator, created,
                   agents, target>>

\* By name: the id is taken out of mServiceNameMap.
NameErase(t) ==
    /\ pc[t] = "nameErase"
    /\ LET sid == mServiceNameMap[target[t].name] IN
       IF sid = None
       THEN Return(t) /\ UNCHANGED mServiceNameMap
       ELSE /\ mServiceNameMap' = [mServiceNameMap EXCEPT ![target[t].name]
                                                             = None]
            /\ target' = [target EXCEPT ![t].sid = sid]
            /\ Goto(t, "eraseById")
    /\ UNCHANGED <<mainVars, loop, mServiceMap, mTickerSet, allocator, created,
                   agents>>

\* By name: whatever agent the id belongs to by now is taken out.
EraseById(t) ==
    /\ pc[t] = "eraseById"
    /\ LET a == mServiceMap[target[t].sid] IN
       IF a = None
       THEN Return(t) /\ UNCHANGED mServiceMap
       ELSE /\ mServiceMap' = [mServiceMap EXCEPT ![target[t].sid] = None]
            /\ target' = [target EXCEPT ![t].agent = a]
            /\ Goto(t, "eraseTicker")
    /\ UNCHANGED <<mainVars, loop, mServiceNameMap, mTickerSet, allocator,
                   created, agents>>

EraseTicker(t) ==
    /\ pc[t] = "eraseTicker"
    /\ mTickerSet' = mTickerSet \ {target[t].sid}
    /\ Goto(t, "recycle")
    /\ UNCHANGED <<mainVars, loop, maps, allocator, created, agents, target>>

RecycleSid(t) ==
    /\ pc[t] = "recycle"
    /\ Recycle(target[t].sid)
    /\ Goto(t, "stopAgent")
    /\ UNCHANGED <<mainVars, loop, maps, mTickerSet, created, agents, target>>

\* context->Stop().
ShutdownStop(t) ==
    /\ pc[t] = "stopAgent"
    /\ StopAgent(target[t].agent)
    /\ Return(t)
    /\ UNCHANGED <<mainVars, loop, maps, mTickerSet, allocator, created>>

----------------------------------------------------------------------------
\* FindService by name: two lookups, under one lock after the other.

FindCall(t) ==
    \E n \in Names : Call(t, "findSid", [NoTarget EXCEPT !.name = n])

FindSid(t) ==
    /\ pc[t] = "findSid"
    /\ LET sid == mServiceNameMap[target[t].name] IN
       IF sid = None
       THEN Return(t)
       ELSE /\ target' = [target EXCEPT ![t].sid = sid]
            /\ Goto(t, "findAgent")
    /\ UNCHANGED <<mainVars, loop, maps, mTickerSet, allocator, created, agents>>

\* The second lookup checks the state again.
FindAgent(t) ==
    /\ pc[t] = "findAgent"
    /\ LET a == mServiceMap[target[t].sid] IN
       IF mState = "RUNNING" /\ a # None
       THEN /\ target' = [target EXCEPT ![t].agent = a]
            /\ Goto(t, "found")
       ELSE Return(t)
    /\ UNCHANGED <<mainVars, loop, maps, mTickerSet, allocator, created, agents>>

\* The caller is done with the agent it found.
FindReturn(t) ==
    /\ pc[t] = "found"
    /\ Return(t)
    /\ UNCHANGED <<mainVars, loop, maps, mTickerSet, allocator, created, agents>>

----------------------------------------------------------------------------
Boot(t) ==
    BootAllocate(t) \/ BootInitial(t) \/ BootName(t) \/ BootStart(t)
    \/ BootRegister(t)

Shutdown(t) ==
    SidErase(t) \/ EraseOwnName(t) \/ NameErase(t) \/ EraseById(t)
    \/ EraseTicker(t) \/ RecycleSid(t) \/ ShutdownStop(t)

Find(t) == FindSid(t) \/ FindAgent(t) \/ FindReturn(t)

Next ==
    \/ Main
    \/ PoolAbort \/ UpdateCheck \/ UpdateTick
    \/ \E a \in 1 .. created : HandlerThrows(a) \/ CleanUp(a)
    \/ \E t \in Callers :
        \/ BootCall(t) \/ ShutdownCall(t) \/ FindCall(t)
        \/ Boot(t) \/ Shutdown(t) \/ Find(t)

Spec == Init /\ [][Next]_vars

----------------------------------------------------------------------------
Phases == {"created", "refused", "serving", "abandoned", "cleaned"}

Labels == {"idle", "bootAllocate", "bootInitial", "bootName", "bootStart",
           "bootRegister", "sidErase", "eraseOwnName", "nameErase",
           "eraseById", "eraseTicker", "recycle", "stopAgent", "findSid",
           "findAgent", "found"}

TypeOK ==
    /\ mState \in {"CREATED", "INITIALIZED", "RUNNING", "STOPPED"}
    /\ main \in {"initial", "start", "run", "stopAgents", "stopPool", "clear",
                 "stopped"}
    /\ pool \in {"idle", "running", "stopped"}
    /\ loop \in {"none", "checking", "waiting", "ended"}
    /\ created \in 0 .. MaxAgents
    /\ agents \in [1 .. created -> [sid : Sids, name : Names, phase : Phases,
                                    open : BOOLEAN]]
    /\ mServiceMap \in [Sids -> 0 .. created]
    /\ mServiceNameMap \in [Names -> Sids \cup {None}]
    /\ mTickerSet \subseteq Sids
    /\ mHashSet \subseteq 1 .. mNext
    /\ mNext \in 0 .. created
    /\ pc \in [Callers -> Labels]
    /\ target \in [Callers -> [sid : Sids \cup {None}, agent : 0 .. created,
                               name : Names \cup {None}]]

\* Callers between AllocateTS and the registration of their service, or
\* between its removal from mServiceMap and RecycleTS: they own its id.
Booting == {t \in Callers : pc[t] \in {"bootInitial", "bootName", "bootStart",
                                       "bootRegister"}}
Removing == {t \in Callers : pc[t] \in {"eraseOwnName", "eraseTicker",
                                        "recycle"}}
Holders == Booting \cup Removing

\* A service id has one owner from AllocateTS to RecycleTS: the caller that
\* boots the service, mServiceMap, or the caller that shuts it down.  No id is
\* recycled twice, whatever shutdowns by id and by name race, and BootService
\* never meets the repeated id it checks for.
SidOwnedOnce ==
    /\ \A t \in Holders :
        /\ mServiceMap[target[t].sid] = None
        /\ target[t].sid \in 1 .. mNext \ mHashSet
        /\ \A u \in Holders : target[t].sid = target[u].sid => t = u
    /\ \A s \in Sids :
        mServiceMap[s] # None => s \in 1 .. mNext \ mHashSet

\* The agents a caller is about to register, or has removed and not stopped.
Handled == {target[t].agent : t \in
    {u \in Callers : pc[u] \in {"bootRegister", "eraseOwnName", "eraseTicker",
                                "recycle", "stopAgent"}}}

\* While the module runs no service runs beyond its reach: an agent that
\* serves with its channel open is registered, or some caller is about to
\* register or stop it.  insert_or_assign never replaces a registered agent.
NoOrphanService ==
    mState # "STOPPED" =>
        \A a \in 1 .. created :
            agents[a].phase = "serving" /\ agents[a].open
            => Registered(a) \/ a \in Handled

\* An id waits for ticks only while its owner is a service that asked for
\* them: after the recycling of an id its next owner inherits no tick.
TicksOnlyOnRequest ==
    mState = "RUNNING" =>
        \A s \in mTickerSet :
            \E a \in 1 .. created :
                /\ agents[a].sid = s
                /\ agents[a].name \in UpdatingNames
                /\ \/ Registered(a)
                   \/ \E t \in Callers :
                        /\ target[t].agent = a
                        /\ pc[t] \in {"bootRegister", "eraseOwnName",
                                      "eraseTicker"}

\* With one caller at a time the two maps agree between calls: every name
\* leads to the open agent of that name, and every agent is found by its name.
MapsAgreeBetweenCalls ==
    mState = "RUNNING" /\ (\A t \in Callers : pc[t] = "idle") =>
        /\ \A n \in Names :
            LET s == mServiceNameMap[n] IN
            s # None => mServiceMap[s] # None /\ agents[mServiceMap[s]].name = n
        /\ \A a \in 1 .. created :
            Registered(a) => /\ mServiceNameMap[agents[a].name] = agents[a].sid
                             /\ agents[a].open

----------------------------------------------------------------------------
\* What the registry promises of a service: the stage of its life follows from
\* mServiceMap and from the caller that boots it or shuts it down.
Entered == {a \in 1 .. created : Registered(a)}
Booted == {target[t].agent : t \in Booting}
Leaving == {target[t].agent : t \in Removing}

Life ==
    [a \in Agents |-> CASE a \in Entered -> "registered"
                        [] a \in Booted  -> "booting"
                        [] a \in Leaving -> "leaving"
                        [] a \in 1 .. created \ (Entered \cup Booted \cup Leaving)
                            -> "gone"
                        [] OTHER -> "unborn"]

SidsGiven == [a \in Agents |-> IF a \in 1 .. created THEN agents[a].sid ELSE None]

Answers == [t \in Callers |-> IF pc[t] = "found" THEN target[t].agent ELSE None]

\* Initial, Start, Stop, BootService, ShutdownService and FindService implement
\* it, although each is a sequence of steps under three locks.
Registry == INSTANCE ServiceRegistry WITH
                Services <- Agents, Nobody <- None,
                life <- Life, sid <- SidsGiven, answer <- Answers
ImplementsRegistry == Registry!Spec

\* The ids in the hands of callers and of registered services.
SidsHeld == {target[t].sid : t \in Holders} \cup {s \in Sids : mServiceMap[s] # None}

\* RecycleTS, at the end of a shutdown or by a boot that fails.
GivesBack(t) ==
    \/ RecycleSid(t)
    \/ /\ BootInitial(t) \/ BootName(t) \/ BootStart(t)
       /\ Recycle(target[t].sid)

\* What IdentAllocator asks of its clients: an id that a caller gives back is in
\* use, is that caller's alone and nobody's afterwards, and no id comes into
\* anybody's hands while it is in use.
SidsUsedWell ==
    /\ \A s \in SidsHeld' \ SidsHeld : s \notin (1 .. mNext) \ mHashSet
    /\ \A t \in Callers :
         GivesBack(t) => /\ target[t].sid \in (1 .. mNext) \ mHashSet
                         /\ target[t].sid \in SidsHeld \ SidsHeld'

UsesSidsAsAgreed == [][SidsUsedWell]_vars

----------------------------------------------------------------------------
\* Every call returns, and the worker pool runs the coroutines that are ready.
Fairness ==
    /\ \A t \in Callers : WF_vars(Boot(t) \/ Shutdown(t) \/ Find(t))
    /\ WF_vars(UpdateCheck) /\ WF_vars(UpdateTick)
    /\ \A a \in Agents : WF_vars(a <= created /\ CleanUp(a))

FairSpec == Spec /\ Fairness

\* A service that runs outside the registry, because a call is about to enter
\* it or has taken it out, is registered or cleaned up in the end, as long as
\* the worker pool runs and none of its handlers throws.
RemovedServiceIsCleanedUp ==
    \A a \in Agents :
        /\ a <= created
        /\ main = "run"
        /\ agents[a].phase = "serving" /\ ~Registered(a)
        ~> a <= created /\ (\/ Registered(a)
                            \/ agents[a].phase \in {"cleaned", "abandoned"}
                            \/ pool = "stopped")
=============================================================================
