------------------------------- MODULE Routing -------------------------------
(***************************************************************************)
(* How services reach each other: IServiceBase (src/service/               *)
(* ServiceBase.cpp), its agent (src/service/ServiceAgent.cpp) and          *)
(* URouteModule (src/route/RouteModule.cpp).  A package is built with the  *)
(* id of its sender as its source, and posted to an id or a name; a task   *)
(* is posted in the same way, and carries no address.  Whoever posts looks *)
(* the receiver up and pushes to what it found; meanwhile services come    *)
(* and go, and their ids are given to others.  A handle may be posted more *)
(* than once: all its receivers share the package, and its target.         *)
(*                                                                         *)
(* The registry (ServiceModule) changes here in the critical sections of   *)
(* BootService and of the two ShutdownService, for any number of callers,  *)
(* so that a name may be left behind that leads to an id of another        *)
(* service; a mailbox (AgentChannel) is a queue.  There are no players     *)
(* (PlayerLogin): what is sent to one arrives nowhere.                     *)
(***************************************************************************)
EXTENDS Integers, Sequences, FiniteSets

CONSTANTS
    Agents,         \* services' agents, each booted once
    Names, NameOf,  \* the name of a service
    MaxId,          \* bound: ids
    Packages, Tasks,\* what is posted
    MaxPosts,       \* bound: how much is posted in all
    MaxUnderWay,    \* bound: how much is made, or under way, at one time
    MaxShutdowns,   \* bound: calls of ShutdownService at one time
    None

ASSUME NameOfAssumption == NameOf \in [Agents -> Names]
ASSUME NoneAssumption == None \notin Agents \cup (1 .. MaxId) \cup Packages

Ids == 1 .. MaxId
Items == Packages \cup Tasks
PLAYER_TARGET_ID == -1
CLIENT_TARGET_ID == -2
INVALID_SERVICE_ID == -10

VARIABLES
    mState,             \* EServiceState of each service
    mServiceID,
    channelOpen,        \* each agent's channel
    booting,            \* agents in BootService, behind their Start
    stopping,           \* what ShutdownService does next with an agent it has
                        \* taken from the map: "name" or "stop"
    lookups,            \* id -> how many ShutdownService have it from a name
    mServiceMap,        \* id -> agent, or None
    mServiceNameMap,    \* name -> id, or None
    issued,             \* ids in use
    target, source,     \* of each package; for a task, where it was posted
    sender,             \* the service that has the handle, or None
    answers,            \* the package a package is the answer to, or None
    posts,              \* how often an item was posted
    mailbox,            \* the items in each agent's channel
    call,               \* what each service is posting
    handled             \* history: who handled an item, and what they saw

services == <<mState, mServiceID, channelOpen, booting, stopping, lookups>>
registry == <<mServiceMap, mServiceNameMap, issued>>
items == <<target, source, sender, answers>>
routingVars == <<services, registry, items, posts, mailbox, call, handled>>

Idle == [at |-> "idle", item |-> None, to |-> None]
Unhandled == [by |-> None, sid |-> None, target |-> None]

RoutingInit ==
    /\ mState = [a \in Agents |-> "CREATED"]
    /\ mServiceID = [a \in Agents |-> INVALID_SERVICE_ID]
    /\ channelOpen = [a \in Agents |-> TRUE]
    /\ booting = {}
    /\ stopping = [a \in Agents |-> "no"]
    /\ lookups = [i \in Ids |-> 0]
    /\ mServiceMap = [i \in Ids |-> None]
    /\ mServiceNameMap = [n \in Names |-> None]
    /\ issued = {}
    /\ target = [m \in Items |-> PLAYER_TARGET_ID]
    /\ source = [m \in Items |-> PLAYER_TARGET_ID]
    /\ sender = [m \in Items |-> None] /\ answers = [m \in Items |-> None]
    /\ posts = [m \in Items |-> 0]
    /\ mailbox = [a \in Agents |-> <<>>]
    /\ call = [a \in Agents |-> Idle]
    /\ handled = [m \in Items |-> Unhandled]

Calls(a, at, m, to) ==
    call' = [call EXCEPT ![a] = [at |-> at, item |-> m, to |-> to]]
Returns(a) == call' = [call EXCEPT ![a] = Idle]

----------------------------------------------------------------------------
\* Services come and go.

unposted == <<items, posts, mailbox, call, handled>>

\* Mutant: an id in use is issued again.
InitialAnyId(a) ==
    /\ mState[a] = "CREATED"
    /\ \E i \in Ids :
        /\ mServiceID' = [mServiceID EXCEPT ![a] = i]
        /\ issued' = issued \cup {i}
    /\ mState' = [mState EXCEPT ![a] = "INITIALIZED"]
    /\ UNCHANGED <<channelOpen, booting, stopping, lookups, mServiceMap, mServiceNameMap,
                   unposted>>

\* SetUpServiceID, SetUpService and Initial, with an id of its own.
Initial(a) ==
    /\ mState[a] = "CREATED"
    /\ \E i \in Ids \ issued :
        /\ mServiceID' = [mServiceID EXCEPT ![a] = i]
        /\ issued' = issued \cup {i}
    /\ mState' = [mState EXCEPT ![a] = "INITIALIZED"]
    /\ UNCHANGED <<channelOpen, booting, stopping, lookups, mServiceMap, mServiceNameMap,
                   unposted>>

\* Start, unless the name is taken.  The service may post from here on.
BootService(a) ==
    /\ mState[a] = "INITIALIZED" /\ channelOpen[a]
    /\ IF mServiceNameMap[NameOf[a]] = None
       THEN /\ mState' = [mState EXCEPT ![a] = "RUNNING"]
            /\ booting' = booting \cup {a}
            /\ UNCHANGED <<issued, channelOpen>>
       ELSE /\ issued' = issued \ {mServiceID[a]}
            /\ channelOpen' = [channelOpen EXCEPT ![a] = FALSE]
            /\ UNCHANGED <<mState, booting>>
    /\ UNCHANGED <<mServiceID, stopping, lookups, mServiceMap, mServiceNameMap, unposted>>

\* It can be found.
Register(a) ==
    /\ a \in booting
    /\ booting' = booting \ {a}
    /\ mServiceMap' = [mServiceMap EXCEPT ![mServiceID[a]] = a]
    /\ mServiceNameMap' = [mServiceNameMap EXCEPT ![NameOf[a]] = mServiceID[a]]
    /\ UNCHANGED <<mState, mServiceID, channelOpen, stopping, lookups, issued, unposted>>

Registered(a) == \E i \in Ids : mServiceMap[i] = a

Shutdowns ==
    Cardinality({p \in Ids \X (1 .. MaxShutdowns) : p[2] <= lookups[p[1]]})
        + Cardinality({a \in Agents : stopping[a] # "no"})

\* ShutdownService by id takes the agent from the map, then the name of the
\* agent from the names, whatever id is there.
ShutdownById(i) ==
    /\ mServiceMap[i] # None /\ Shutdowns < MaxShutdowns
    /\ mServiceMap' = [mServiceMap EXCEPT ![i] = None]
    /\ stopping' = [stopping EXCEPT ![mServiceMap[i]] = "name"]
    /\ UNCHANGED <<mState, mServiceID, channelOpen, booting, lookups, mServiceNameMap,
                   issued, unposted>>

\* (Both forms free the id then.  How long an agent that has left the map keeps
\* it, nobody can see: the id is freed in the step before.)
EraseName(a) ==
    /\ stopping[a] = "name"
    /\ mServiceNameMap' = [mServiceNameMap EXCEPT ![NameOf[a]] = None]
    /\ issued' = issued \ {mServiceID[a]}
    /\ stopping' = [stopping EXCEPT ![a] = "stop"]
    /\ UNCHANGED <<mState, mServiceID, channelOpen, booting, lookups, mServiceMap,
                   unposted>>

\* ShutdownService by name takes the name, then whoever is in the map under the
\* id that the name had; the name of that one stays.
ShutdownByName(n) ==
    /\ mServiceNameMap[n] # None /\ Shutdowns < MaxShutdowns
    /\ mServiceNameMap' = [mServiceNameMap EXCEPT ![n] = None]
    /\ lookups' = [lookups EXCEPT ![mServiceNameMap[n]] = @ + 1]
    /\ UNCHANGED <<mState, mServiceID, channelOpen, booting, stopping, mServiceMap, issued,
                   unposted>>

EraseNamed(i) ==
    /\ lookups[i] > 0
    /\ lookups' = [lookups EXCEPT ![i] = @ - 1]
    /\ IF mServiceMap[i] = None THEN UNCHANGED <<mServiceMap, issued, stopping>>
       ELSE /\ mServiceMap' = [mServiceMap EXCEPT ![i] = None]
            /\ issued' = issued \ {i}
            /\ stopping' = [stopping EXCEPT ![mServiceMap[i]] = "stop"]
    /\ UNCHANGED <<mState, mServiceID, channelOpen, booting, mServiceNameMap, unposted>>

Stop(a) ==
    /\ stopping[a] = "stop"
    /\ channelOpen' = [channelOpen EXCEPT ![a] = FALSE]
    /\ stopping' = [stopping EXCEPT ![a] = "no"]
    /\ UNCHANGED <<mState, mServiceID, booting, lookups, registry, unposted>>

\* ProcessChannel ends, behind the handler that runs.
CleanUpService(a) ==
    /\ mState[a] = "RUNNING" /\ ~channelOpen[a] /\ call[a] = Idle
    /\ mState' = [mState EXCEPT ![a] = "TERMINATED"]
    /\ mServiceID' = [mServiceID EXCEPT ![a] = INVALID_SERVICE_ID]
    /\ UNCHANGED <<channelOpen, booting, stopping, lookups, registry, unposted>>

----------------------------------------------------------------------------
\* A service makes a package, perhaps as an answer to one it has handled.

Posted == Cardinality({p \in Items \X (1 .. MaxPosts) : p[2] <= posts[p[1]]})

UnderWay(m) ==
    /\ sender[m] # None
    /\ \/ posts[m] = 0
       \/ \E a \in Agents :
            \/ call[a].item = m
            \/ channelOpen[a] /\ \E k \in DOMAIN mailbox[a] : mailbox[a][k] = m

Make(a, m, of) ==
    /\ mState[a] = "RUNNING" /\ call[a] = Idle
    /\ sender[m] = None /\ Posted < MaxPosts
    /\ Cardinality({n \in Items : UnderWay(n)}) < MaxUnderWay
    /\ sender' = [sender EXCEPT ![m] = a]
    /\ source' = [source EXCEPT ![m] = mServiceID[a]]
    /\ answers' = [answers EXCEPT ![m] = of]
    /\ UNCHANGED <<services, registry, target, posts, mailbox, call, handled>>

BuildPackage(a, m) == m \in Packages /\ Make(a, m, None)

Answer(a, m) ==
    m \in Packages /\ \E q \in Packages : handled[q].by = a /\ Make(a, m, q)

MakeTask(a, m) == m \in Tasks /\ Make(a, m, None)

----------------------------------------------------------------------------
\* Posting.

\* A call begins, in the handler of the service that has the item.
Posts(a, m) ==
    /\ mState[a] = "RUNNING" /\ call[a] = Idle
    /\ sender[m] = a
    /\ Posted < MaxPosts
    /\ posts' = [posts EXCEPT ![m] = @ + 1]

\* PostPackage by the target that the service has given the package, which may
\* have been posted to another before, and PostTask by id: not to the service
\* itself.
Post(a, m) ==
    /\ Posts(a, m)
    /\ \E i \in Ids \ {mServiceID[a]} :
        /\ target' = [target EXCEPT ![m] = i]
        /\ IF mServiceMap[i] = None THEN UNCHANGED call
           ELSE Calls(a, "push", m, mServiceMap[i])
    /\ UNCHANGED <<services, registry, source, sender, answers, mailbox, handled>>

PostPackage(a, m) == m \in Packages /\ Post(a, m)
PostTask(a, m) == m \in Tasks /\ Post(a, m)

\* By name: the id is looked up, then the agent, under different locks.
PostByName(a, m) ==
    /\ Posts(a, m)
    /\ \E n \in Names \ {NameOf[a]} :
        /\ mServiceNameMap[n] # None
        /\ Calls(a, "agent", m, mServiceNameMap[n])
    /\ UNCHANGED <<services, registry, items, mailbox, handled>>

PostPackageByName(a, m) == m \in Packages /\ PostByName(a, m)
PostTaskByName(a, m) == m \in Tasks /\ PostByName(a, m)

FindAgent(a) ==
    /\ call[a].at = "agent"
    /\ LET agent == mServiceMap[call[a].to] IN
        IF agent = None THEN Returns(a)
        ELSE Calls(a, IF call[a].item \in Packages THEN "address" ELSE "push",
                   call[a].item, agent)
    /\ UNCHANGED <<services, registry, items, posts, mailbox, handled>>

\* Mutant: the package keeps the target it had.
AddressNot(a) ==
    /\ call[a].at = "address"
    /\ Calls(a, "push", call[a].item, call[a].to)
    /\ UNCHANGED <<services, registry, items, posts, mailbox, handled>>

\* pkg->SetTarget(agent->GetServiceID())
Address(a) ==
    /\ call[a].at = "address"
    /\ target' = [target EXCEPT ![call[a].item] = mServiceID[call[a].to]]
    /\ Calls(a, "push", call[a].item, call[a].to)
    /\ UNCHANGED <<services, registry, source, sender, answers, posts, mailbox,
                   handled>>

\* PushPackage, PushTask: nothing if the agent is closed.
Push(a) ==
    /\ call[a].at = "push"
    /\ mailbox' = IF channelOpen[call[a].to]
                  THEN [mailbox EXCEPT ![call[a].to] = Append(@, call[a].item)]
                  ELSE mailbox
    /\ Returns(a)
    /\ UNCHANGED <<services, registry, items, posts, handled>>

\* To a player, by its id: the package gets the target of its kind, and
\* nobody is found.
SendTo(a, m, kind) ==
    /\ m \in Packages
    /\ Posts(a, m)
    /\ target' = [target EXCEPT ![m] = kind]
    /\ UNCHANGED <<services, registry, source, sender, answers, mailbox, call,
                   handled>>

SendToPlayer(a, m) == SendTo(a, m, PLAYER_TARGET_ID)
SendToClient(a, m) == SendTo(a, m, CLIENT_TARGET_ID)

----------------------------------------------------------------------------
\* ProcessChannel: OnPackage, or the task.
Handle(a) ==
    /\ mState[a] = "RUNNING" /\ channelOpen[a] /\ call[a] = Idle
    /\ mailbox[a] # <<>>
    /\ mailbox' = [mailbox EXCEPT ![a] = Tail(@)]
    /\ LET m == Head(mailbox[a]) IN
        handled' = [handled EXCEPT ![m] =
            [by |-> a, sid |-> mServiceID[a], target |-> target[m]]]
    /\ UNCHANGED <<services, registry, items, posts, call>>

ShutdownService ==
    \/ \E i \in Ids : ShutdownById(i) \/ EraseNamed(i)
    \/ \E n \in Names : ShutdownByName(n)
    \/ \E a \in Agents : EraseName(a) \/ Stop(a)

RoutingNext ==
    \/ ShutdownService
    \/ \E a \in Agents :
        \/ Initial(a) \/ BootService(a) \/ Register(a) \/ CleanUpService(a)
        \/ FindAgent(a) \/ Address(a) \/ Push(a) \/ Handle(a)
        \/ \E m \in Items :
            \/ BuildPackage(a, m) \/ Answer(a, m) \/ MakeTask(a, m)
            \/ PostPackage(a, m) \/ PostTask(a, m)
            \/ PostPackageByName(a, m) \/ PostTaskByName(a, m)
            \/ SendToPlayer(a, m) \/ SendToClient(a, m)

RoutingSpec == RoutingInit /\ [][RoutingNext]_routingVars
----------------------------------------------------------------------------
Targets == Ids \cup {PLAYER_TARGET_ID, CLIENT_TARGET_ID, INVALID_SERVICE_ID}

CallStates ==
    [at : {"idle", "agent", "address", "push"}, item : Items \cup {None},
     to : Agents \cup Ids \cup {None}]

Handlings == {Unhandled} \cup [by : Agents, sid : Ids, target : Targets]

RoutingTypeOK ==
    /\ mState \in [Agents -> {"CREATED", "INITIALIZED", "RUNNING", "TERMINATED"}]
    /\ mServiceID \in [Agents -> Ids \cup {INVALID_SERVICE_ID}]
    /\ channelOpen \in [Agents -> BOOLEAN]
    /\ booting \subseteq Agents
    /\ stopping \in [Agents -> {"no", "name", "stop"}]
    /\ lookups \in [Ids -> Nat]
    /\ mServiceMap \in [Ids -> Agents \cup {None}]
    /\ mServiceNameMap \in [Names -> Ids \cup {None}]
    /\ issued \subseteq Ids
    /\ target \in [Items -> Targets]
    /\ source \in [Items -> Ids \cup {PLAYER_TARGET_ID}]
    /\ sender \in [Items -> Agents \cup {None}]
    /\ answers \in [Items -> Packages \cup {None}]
    /\ posts \in [Items -> Nat]
    /\ mailbox \in [Agents -> Seq(Items)]
    /\ call \in [Agents -> CallStates]
    /\ handled \in [Items -> Handlings]

\* What is posted once is handled by the service whose id it was posted to,
\* or whose id a package has got from a post by name, whoever has come and
\* gone between the lookups, the push and the handling.  (Posted again, a package
\* may show the target of the later post to the receiver of the earlier one.
\* And a name that was left behind may lead a post to its own sender, which the
\* comparison of the names was to prevent.)
HandledByItsTarget ==
    \A m \in Items : LET h == handled[m] IN
        h # Unhandled /\ posts[m] = 1 =>
            /\ h.target = h.sid \/ (m \in Tasks /\ h.target = PLAYER_TARGET_ID)

\* An answer, posted to the source of a package, comes back to the service
\* that sent the package, unless that has been shut down: then its id may be
\* another's.
AnswersComeBack ==
    \A m \in Packages : LET q == answers[m] IN
        q # None /\ posts[m] = 1 /\ handled[m].target = source[q] =>
            handled[m].by = sender[q] \/ ~Registered(sender[q])
=============================================================================
