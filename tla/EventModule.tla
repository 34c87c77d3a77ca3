----------------------------- MODULE EventModule -----------------------------
(***************************************************************************)
(* UEventModule (src/event/EventModule.cpp): who listens to which event.   *)
(* Listeners are kept by event and by service or player id, as weak        *)
(* references to their agents; the two halves of the module are the same   *)
(* code over two maps, and this is one of them.  Agents listen, stop       *)
(* listening and dispatch from the threads that run their handlers.  Each  *)
(* call ends in RemoveExpired, which spawns a coroutine on the main        *)
(* io_context that waits for a second and sweeps the map; a flag, tested   *)
(* and set without a lock, is to keep it the only one.                     *)
(*                                                                         *)
(* An id is given to a new agent once the registry has recycled it, which  *)
(* is before the old agent is stopped (ServiceModule), so that for a while *)
(* two agents act under one id.                                            *)
(***************************************************************************)
EXTENDS Naturals, FiniteSets

CONSTANTS
    Agents,     \* agents, each one a thread of calls
    Ids,        \* service ids or player ids
    IdOf,       \* the id of an agent
    Events,     \* event types
    None,       \* no listener
    MaxSweeps   \* bound: sweep coroutines that exist at a time

ASSUME IdOfAssumption == IdOf \in [Agents -> Ids]
ASSUME NoneAssumption == None \notin Agents
ASSUME MaxSweepsAssumption == MaxSweeps \in Nat

Sweeps == 1 .. MaxSweeps

VARIABLES
    terminated,     \* the server shuts down
    mState,         \* state of the module, INITIALIZED or later
    mListenerMap,   \* event -> id -> agent (the weak reference) or None; an
                    \* event has an entry once somebody has listened to it
    bWaiting,       \* a sweep is under way
    sweep,          \* where each sweep coroutine is
    phase,          \* life of an agent
    pc              \* where each agent is in a call

moduleVars == <<terminated, mState>>
vars == <<moduleVars, mListenerMap, bWaiting, sweep, phase, pc>>

Init ==
    /\ terminated = FALSE
    /\ mState = "INITIALIZED"
    /\ mListenerMap = [e \in {} |-> [i \in Ids |-> None]]
    /\ bWaiting = FALSE
    /\ sweep = [c \in Sweeps |-> "none"]
    /\ phase = [a \in Agents |-> "none"]
    /\ pc = [a \in Agents |-> "idle"]

----------------------------------------------------------------------------
\* The server starts the module, and in its Shutdown, when it has set its own
\* state, stops it.

Start ==
    /\ mState = "INITIALIZED"
    /\ mState' = "RUNNING"
    /\ UNCHANGED <<terminated, mListenerMap, bWaiting, sweep, phase, pc>>

Shutdown ==
    /\ mState = "RUNNING"
    /\ ~terminated
    /\ terminated' = TRUE
    /\ UNCHANGED <<mState, mListenerMap, bWaiting, sweep, phase, pc>>

\* Stop cancels the timer: a wait that has not ended fails.
Stop ==
    /\ terminated
    /\ mState # "STOPPED"
    /\ mState' = "STOPPED"
    /\ sweep' = [c \in Sweeps |-> IF sweep[c] = "waiting" THEN "failed"
                                                         ELSE sweep[c]]
    /\ UNCHANGED <<terminated, mListenerMap, bWaiting, phase, pc>>

----------------------------------------------------------------------------
\* The life of an agent, as far as it matters here: it owns its id, it is out
\* of the registry, its channel is closed, it is gone and references to it
\* have expired.

Become(a, from, to) ==
    /\ phase[a] = from
    /\ phase' = [phase EXCEPT ![a] = to]
    /\ UNCHANGED <<moduleVars, mListenerMap, bWaiting, sweep, pc>>

Boot(a) ==
    /\ \A b \in Agents : IdOf[b] = IdOf[a] => phase[b] # "owner"
    /\ Become(a, "none", "owner")

RecycleId(a) == Become(a, "owner", "recycled")

Close(a) == Become(a, "recycled", "closed")

\* A call in progress keeps its agent.
Expire(a) == pc[a] = "idle" /\ Become(a, "closed", "gone")

Expired(a) == phase[a] = "gone"

\* A channel that is open lets its agent listen and dispatch.
IsOpen(a) == phase[a] \in {"owner", "recycled"}

----------------------------------------------------------------------------
NoListeners == [i \in Ids |-> None]

\* Mutants: a sweep takes every listener, or none, or leaves the flag set, or
\* drops ids from the entries it keeps.
SweepEverybody(c) ==
    /\ sweep[c] = "sweeping"
    /\ mListenerMap' = [e \in DOMAIN mListenerMap |-> NoListeners]
    /\ sweep' = [sweep EXCEPT ![c] = "resetting"]
    /\ UNCHANGED <<moduleVars, bWaiting, phase, pc>>

SweepNobody(c) ==
    /\ sweep[c] = "sweeping"
    /\ sweep' = [sweep EXCEPT ![c] = "resetting"]
    /\ UNCHANGED <<moduleVars, mListenerMap, bWaiting, phase, pc>>

SweepIds(c) ==
    /\ sweep[c] = "sweeping"
    /\ mListenerMap' = [e \in DOMAIN mListenerMap |->
            [i \in {j \in Ids : mListenerMap[e][j] # None
                                /\ ~Expired(mListenerMap[e][j])}
                |-> mListenerMap[e][i]]]
    /\ sweep' = [sweep EXCEPT ![c] = "resetting"]
    /\ UNCHANGED <<moduleVars, bWaiting, phase, pc>>

KeepFlag(c) ==
    /\ sweep[c] = "resetting"
    /\ sweep' = [sweep EXCEPT ![c] = "none"]
    /\ UNCHANGED <<moduleVars, mListenerMap, bWaiting, phase, pc>>

\* The first part of each call ends in RemoveExpired.
Called(a) == pc' = [pc EXCEPT ![a] = "test"]

\* ServiceListenEvent, PlayerListenEvent: insert_or_assign under the lock.
ListenEvent(a, e) ==
    /\ pc[a] = "idle"
    /\ IsOpen(a)
    /\ LET ids == IF e \in DOMAIN mListenerMap THEN mListenerMap[e] ELSE NoListeners
       IN mListenerMap' = [f \in DOMAIN mListenerMap \cup {e} |->
            IF f = e THEN [ids EXCEPT ![IdOf[a]] = a] ELSE mListenerMap[f]]
    /\ Called(a)
    /\ UNCHANGED <<moduleVars, bWaiting, sweep, phase>>

\* RemoveServiceListenerByEvent, RemovePlayerListenerByEvent: the listener of
\* the id is erased, whoever it is, and the entry of the event with the last;
\* nothing happens if there is no entry.  A closed agent still gets here, when
\* CleanUp stops its service.
RemoveListener(a, e) ==
    /\ pc[a] = "idle"
    /\ IsOpen(a) \/ phase[a] = "closed"
    /\ ~terminated
    /\ e \in DOMAIN mListenerMap
    /\ LET rest == [mListenerMap[e] EXCEPT ![IdOf[a]] = None]
           kept == IF rest = NoListeners THEN DOMAIN mListenerMap \ {e}
                                         ELSE DOMAIN mListenerMap
       IN mListenerMap' = [f \in kept |-> IF f = e THEN rest ELSE mListenerMap[f]]
    /\ Called(a)
    /\ UNCHANGED <<moduleVars, bWaiting, sweep, phase>>

\* Dispatch: the event is pushed to every listener that has not expired
\* (AgentChannel), which changes nothing here.
Dispatch(a) ==
    /\ pc[a] = "idle"
    /\ IsOpen(a)
    /\ mState = "RUNNING"
    /\ Called(a)
    /\ UNCHANGED <<moduleVars, mListenerMap, bWaiting, sweep, phase>>

\* RemoveExpired: if (bWaiting) return;
TestWaiting(a) ==
    /\ pc[a] = "test"
    /\ pc' = [pc EXCEPT ![a] = IF bWaiting THEN "idle" ELSE "set"]
    /\ UNCHANGED <<moduleVars, mListenerMap, bWaiting, sweep, phase>>

\* RemoveExpired: bWaiting = true and co_spawn, whatever bWaiting is by now.
SetWaiting(a) ==
    /\ pc[a] = "set"
    /\ bWaiting' = TRUE
    /\ \E c \in Sweeps :
        /\ sweep[c] = "none"
        /\ sweep' = [sweep EXCEPT ![c] = "spawned"]
    /\ pc' = [pc EXCEPT ![a] = "idle"]
    /\ UNCHANGED <<moduleVars, mListenerMap, phase>>

----------------------------------------------------------------------------
\* The sweep coroutines, on the thread of the main io_context.

\* expires_after on the one timer they share: a wait of another coroutine
\* fails, unless it has ended already.
Arm(c) ==
    /\ sweep[c] = "spawned"
    /\ sweep' = [d \in Sweeps |->
                    IF d = c THEN "waiting"
                    ELSE IF sweep[d] = "waiting" THEN "failed" ELSE sweep[d]]
    /\ UNCHANGED <<moduleVars, mListenerMap, bWaiting, phase, pc>>

\* The second is over.
WaitEnds(c) ==
    /\ sweep[c] = "waiting"
    /\ sweep' = [sweep EXCEPT ![c] = "sweeping"]
    /\ UNCHANGED <<moduleVars, mListenerMap, bWaiting, phase, pc>>

\* if (ec) co_return; the flag stays as it is.
WaitFailed(c) ==
    /\ sweep[c] = "failed"
    /\ sweep' = [sweep EXCEPT ![c] = "none"]
    /\ UNCHANGED <<moduleVars, mListenerMap, bWaiting, phase, pc>>

\* Under the lock, listeners that have expired are erased.
SweepExpired(c) ==
    /\ sweep[c] = "sweeping"
    /\ mListenerMap' = [e \in DOMAIN mListenerMap |-> [i \in Ids |->
            IF mListenerMap[e][i] \in {a \in Agents : Expired(a)}
            THEN None ELSE mListenerMap[e][i]]]
    /\ sweep' = [sweep EXCEPT ![c] = "resetting"]
    /\ UNCHANGED <<moduleVars, bWaiting, phase, pc>>

\* bWaiting = false; agents may have expired since the map was swept.
ResetWaiting(c) ==
    /\ sweep[c] = "resetting"
    /\ bWaiting' = FALSE
    /\ sweep' = [sweep EXCEPT ![c] = "none"]
    /\ UNCHANGED <<moduleVars, mListenerMap, phase, pc>>

Sweep(c) ==
    Arm(c) \/ WaitEnds(c) \/ WaitFailed(c) \/ SweepExpired(c) \/ ResetWaiting(c)

RemoveExpired(a) == TestWaiting(a) \/ SetWaiting(a)

Next ==
    \/ Start \/ Shutdown \/ Stop
    \/ \E a \in Agents :
        \/ Boot(a) \/ RecycleId(a) \/ Close(a) \/ Expire(a)
        \/ \E e \in Events : ListenEvent(a, e) \/ RemoveListener(a, e)
        \/ Dispatch(a)
        \/ RemoveExpired(a)
    \/ \E c \in Sweeps : Sweep(c)

\* Calls return, and the main io_context runs what is ready.
Fairness ==
    /\ \A a \in Agents : WF_vars(RemoveExpired(a))
    /\ \A c \in Sweeps : WF_vars(Sweep(c))

Spec == Init /\ [][Next]_vars /\ Fairness

----------------------------------------------------------------------------
TypeOK ==
    /\ terminated \in BOOLEAN
    /\ mState \in {"INITIALIZED", "RUNNING", "STOPPED"}
    /\ DOMAIN mListenerMap \subseteq Events
    /\ mListenerMap \in [DOMAIN mListenerMap -> [Ids -> Agents \cup {None}]]
    /\ bWaiting \in BOOLEAN
    /\ sweep \in [Sweeps -> {"none", "spawned", "waiting", "failed",
                             "sweeping", "resetting"}]
    /\ phase \in [Agents -> {"none", "owner", "recycled", "closed", "gone"}]
    /\ pc \in [Agents -> {"idle", "test", "set"}]

\* While the flag keeps callers from spawning a sweep, there is one that will
\* put it back: the race for the flag, in which one coroutine cuts off the wait
\* of another, never leaves it set for good.
FlagMeansSweep ==
    mState # "STOPPED" /\ bWaiting =>
        \E c \in Sweeps : sweep[c] \notin {"none", "failed"}

\* Somebody listens for e under the id of a, and it is a.
Listens(a, e) ==
    e \in DOMAIN mListenerMap /\ mListenerMap[e][IdOf[a]] = a

\* A listener whose agent lives is taken out only by a call under its own id;
\* no sweep, dispatch or call of another ever costs it its events.
LiveListenersStay ==
    [][\A a \in Agents, e \in Events :
        Listens(a, e) /\ ~Expired(a) /\ ~Listens(a, e)'
        => \E b \in Agents :
            IdOf[b] = IdOf[a] /\ pc[b] = "idle" /\ pc'[b] = "test"
      ]_vars

\* As long as calls keep coming, a listener that is gone leaves the map, even
\* if it went while a sweep had the flag and had passed it by.
GoneListenersLeave ==
    []<><<\E a \in Agents : TestWaiting(a)>>_vars =>
        \A a \in Agents, e \in Events :
            Listens(a, e) /\ Expired(a)
            ~> ~Listens(a, e) \/ mState = "STOPPED"

\* The maps, of which an event has one only while somebody listens to it, and
\* the sweeps amount to a table that changes in single steps.
Table == INSTANCE Subscriptions WITH
    listener <- [e \in Events |-> IF e \in DOMAIN mListenerMap
                                  THEN mListenerMap[e] ELSE NoListeners],
    dead <- {a \in Agents : Expired(a)}

ImplementsTable == Table!Spec
=============================================================================
