----------------------------- MODULE PlayerLogin -----------------------------
(***************************************************************************)
(* How a client becomes a player: UGateway (src/gateway/Gateway.cpp),      *)
(* UPlayerAgent (src/gateway/PlayerAgent.cpp) and ULoginAuth               *)
(* (src/login/LoginAuth.cpp).  The main thread accepts connections; each   *)
(* gets an agent, known in mAgentMap by a key made of its address and the  *)
(* second it was accepted in, so that keys may repeat.  The agent reads    *)
(* packages on a thread of the pool; the first ones are login requests,    *)
(* which that thread carries through ULoginAuth::OnLoginRequest,           *)
(* UGateway::OnPlayerLogin and UPlayerAgent::SetUpPlayer, one call from    *)
(* within the other, while other agents do the same.                       *)
(*                                                                         *)
(* SetUpPlayer throws unless the agent has a player already, OnLoginFailed *)
(* and OnRepeated throw if it has a handler, which it always has.  An      *)
(* exception ends the reading and disconnects the agent.  So no player is  *)
(* ever served, ProcessChannel and CleanUp of a player agent never run,    *)
(* nothing is ever cached, and what would follow is not modelled here.     *)
(***************************************************************************)
EXTENDS Naturals

CONSTANTS
    Agents,     \* connections
    Keys,       \* values of mKey
    KeyOf,      \* the key of a connection
    Pids,       \* player ids
    None

ASSUME KeyOfAssumption == KeyOf \in [Agents -> Keys]
ASSUME NoneAssumption == None \notin Agents \cup Pids

VARIABLES
    mState,             \* state of the gateway: "RUNNING" or "STOPPED"
    accepting,          \* WaitForClient is in its loop
    mAgentMap,          \* key -> agent, or None
    mPlayerMap,         \* player id -> agent, or None
    mPlayer,            \* each agent's player, or None
    mRecentLoginMap,    \* keys with a login request in the last second
    pc,                 \* where each agent's connection or login is
    request,            \* the player id of its login request, None if unreadable
    crashed             \* the process has dereferenced a null pointer

gateway == <<mState, accepting>>
maps == <<mAgentMap, mPlayerMap>>
vars == <<gateway, maps, mPlayer, mRecentLoginMap, pc, request, crashed>>

Init ==
    /\ mState = "RUNNING"
    /\ accepting = TRUE
    /\ mAgentMap = [k \in Keys |-> None]
    /\ mPlayerMap = [p \in Pids |-> None]
    /\ mPlayer = [a \in Agents |-> None]
    /\ mRecentLoginMap = {}
    /\ pc = [a \in Agents |-> "none"]
    /\ request = [a \in Agents |-> None]
    /\ crashed = FALSE

Known(a) == mAgentMap[KeyOf[a]]
Goto(a, label) == pc' = [pc EXCEPT ![a] = label]

----------------------------------------------------------------------------
\* Mutants: a key that is not looked up, an agent that stays in mAgentMap when
\* it logs in, a request that takes the key for the player id.
AcceptUnchecked(a) ==
    /\ accepting
    /\ pc[a] = "none"
    /\ mAgentMap' = [mAgentMap EXCEPT ![KeyOf[a]] = a]
    /\ Goto(a, "reading")
    /\ UNCHANGED <<gateway, mPlayerMap, mPlayer, mRecentLoginMap, request, crashed>>

EnterKept(a) ==
    /\ mPlayerMap' = [mPlayerMap EXCEPT ![request[a]] = Known(a)]
    /\ UNCHANGED mAgentMap

RequestSwapped(a) ==
    /\ pc[a] = "reading"
    /\ mState = "RUNNING"
    /\ mRecentLoginMap' = mRecentLoginMap \cup {KeyOf[a]}
    /\ request' = [request EXCEPT ![a] = KeyOf[a]]
    /\ Goto(a, "parse")
    /\ UNCHANGED <<gateway, maps, mPlayer, crashed>>

----------------------------------------------------------------------------
\* An exception that reaches ReadPackage ends it and disconnects the agent.
Throw(a) == Goto(a, "closed")

\* OnPlayerLogin moves the agent from one map to the other.
Enter(a) ==
    /\ mAgentMap' = [mAgentMap EXCEPT ![KeyOf[a]] = None]
    /\ mPlayerMap' = [mPlayerMap EXCEPT ![request[a]] = Known(a)]

----------------------------------------------------------------------------
\* WaitForClient: a connection whose key is taken is dropped; another enters
\* mAgentMap and starts to read.
Accept(a) ==
    /\ accepting
    /\ pc[a] = "none"
    /\ IF Known(a) = None
       THEN mAgentMap' = [mAgentMap EXCEPT ![KeyOf[a]] = a] /\ Goto(a, "reading")
       ELSE Goto(a, "closed") /\ UNCHANGED mAgentMap
    /\ UNCHANGED <<gateway, mPlayerMap, mPlayer, mRecentLoginMap, request, crashed>>

\* WaitForClient: the client is gone when its address is asked for or the
\* options of its socket are set, which throws: the loop is left, and nobody is
\* accepted any more.
AcceptThrows(a) ==
    /\ accepting
    /\ pc[a] = "none"
    /\ accepting' = FALSE
    /\ Goto(a, "closed")
    /\ UNCHANGED <<mState, maps, mPlayer, mRecentLoginMap, request, crashed>>

\* The same when the address is asked for again, for the log, or in Initial: the
\* agent is in mAgentMap by then, where it stays, and never reads.
AcceptThrowsLate(a) ==
    /\ accepting
    /\ pc[a] = "none"
    /\ Known(a) = None
    /\ mAgentMap' = [mAgentMap EXCEPT ![KeyOf[a]] = a]
    /\ accepting' = FALSE
    /\ Goto(a, "closed")
    /\ UNCHANGED <<mState, mPlayerMap, mPlayer, mRecentLoginMap, request, crashed>>

\* The handshake or a package fails, or the watchdog finds nothing received:
\* Disconnect, which leaves the maps alone.
Disconnect(a) ==
    /\ pc[a] = "reading"
    /\ Goto(a, "closed")
    /\ UNCHANGED <<gateway, maps, mPlayer, mRecentLoginMap, request, crashed>>

\* OnLoginRequest: ignored within a second of the last request under the key.
Request(a) ==
    /\ pc[a] = "reading"
    /\ mState = "RUNNING"
    /\ KeyOf[a] \notin mRecentLoginMap
    /\ mRecentLoginMap' = mRecentLoginMap \cup {KeyOf[a]}
    /\ \E pid \in Pids \cup {None} : request' = [request EXCEPT ![a] = pid]
    /\ Goto(a, "parse")
    /\ UNCHANGED <<gateway, maps, mPlayer, crashed>>

SecondPasses ==
    /\ mRecentLoginMap # {}
    /\ mRecentLoginMap' = {}
    /\ UNCHANGED <<gateway, maps, mPlayer, pc, request, crashed>>

\* The request cannot be read: the agent found by the key is told so, and
\* OnLoginFailed throws.
ParseFails(a) ==
    /\ pc[a] = "parse"
    /\ request[a] = None
    /\ IF mState = "RUNNING" /\ Known(a) # None
       THEN Throw(a) ELSE Goto(a, "reading")
    /\ UNCHANGED <<gateway, maps, mPlayer, mRecentLoginMap, request, crashed>>

\* OnLoginSuccess, with no verification yet.
ParseSucceeds(a) ==
    /\ pc[a] = "parse"
    /\ request[a] # None
    /\ mRecentLoginMap' = mRecentLoginMap \ {KeyOf[a]}
    /\ Goto(a, "login")
    /\ UNCHANGED <<gateway, maps, mPlayer, request, crashed>>

\* OnPlayerLogin under the locks of both maps, nobody being logged in as the
\* player.
LoginNew(a) ==
    /\ pc[a] = "login"
    /\ mState = "RUNNING"
    /\ mPlayerMap[request[a]] = None
    /\ IF Known(a) = None
       THEN Goto(a, "reading") /\ UNCHANGED maps
       ELSE Enter(a) /\ Goto(a, "setUp")
    /\ UNCHANGED <<gateway, mPlayer, mRecentLoginMap, request, crashed>>

\* The same, with an agent logged in as the player.  Under the same key,
\* nothing happens.  Under another, its player is taken away without a look
\* whether it has one, and OnRepeated throws.
LoginRepeated(a) ==
    /\ pc[a] = "login"
    /\ mState = "RUNNING"
    /\ mPlayerMap[request[a]] # None
    /\ LET existed == mPlayerMap[request[a]] IN
       \/ /\ KeyOf[existed] = KeyOf[a]
          /\ Goto(a, "reading")
          /\ UNCHANGED <<maps, mPlayer, crashed>>
       \/ /\ KeyOf[existed] # KeyOf[a]
          /\ IF mPlayer[existed] = None
             THEN crashed' = TRUE /\ UNCHANGED <<maps, mPlayer, pc>>
             ELSE /\ mPlayer' = [mPlayer EXCEPT ![existed] = None]
                  /\ Enter(a)
                  /\ IF Known(a) = None THEN Goto(a, "reading") ELSE Throw(a)
                  /\ UNCHANGED crashed
    /\ UNCHANGED <<gateway, mRecentLoginMap, request>>

\* OnPlayerLogin does nothing once the gateway is stopped.
LoginStopped(a) ==
    /\ pc[a] = "login"
    /\ mState = "STOPPED"
    /\ Goto(a, "reading")
    /\ UNCHANGED <<gateway, maps, mPlayer, mRecentLoginMap, request, crashed>>

\* After the locks are released, a player is created and given to SetUpPlayer
\* of the agent that was found, which is a: see LoginMovesTheCaller.  It drops
\* the player if the agent has been disconnected since, which is then where its
\* loop of reading ends, and throws unless that has a player: "if (!mPlayer)
\* throw".
SetUpPlayer(a) ==
    /\ pc[a] = "setUp"
    /\ \/ Goto(a, "closed") /\ UNCHANGED mPlayer
       \/ IF mPlayer[a] = None
          THEN Throw(a) /\ UNCHANGED mPlayer
          ELSE mPlayer' = [mPlayer EXCEPT ![a] = request[a]] /\ Goto(a, "reading")
    /\ UNCHANGED <<gateway, maps, mRecentLoginMap, request, crashed>>

\* Stop, on the thread that accepts: the handlers that run finish, the pool
\* takes up no other.
Stop ==
    /\ mState = "RUNNING"
    /\ mState' = "STOPPED"
    /\ accepting' = FALSE
    /\ UNCHANGED <<maps, mPlayer, mRecentLoginMap, pc, request, crashed>>

OnLogin(a) ==
    \/ ParseFails(a) \/ ParseSucceeds(a)
    \/ LoginNew(a) \/ LoginRepeated(a) \/ LoginStopped(a)
    \/ SetUpPlayer(a)

Next ==
    /\ ~crashed
    /\ \/ \E a \in Agents :
            \/ Accept(a) \/ AcceptThrows(a) \/ AcceptThrowsLate(a)
            \/ Disconnect(a) \/ Request(a) \/ OnLogin(a)
       \/ SecondPasses
       \/ Stop

Spec == Init /\ [][Next]_vars

----------------------------------------------------------------------------
TypeOK ==
    /\ mState \in {"RUNNING", "STOPPED"} /\ accepting \in BOOLEAN
    /\ mAgentMap \in [Keys -> Agents \cup {None}]
    /\ mPlayerMap \in [Pids -> Agents \cup {None}]
    /\ mPlayer \in [Agents -> Pids \cup {None}]
    /\ mRecentLoginMap \subseteq Keys
    /\ pc \in [Agents -> {"none", "reading", "closed", "parse", "login", "setUp"}]
    /\ request \in [Agents -> Pids \cup {None}]
    /\ crashed \in BOOLEAN

\* Whoever may ask for a login is the agent its key leads to, although keys
\* repeat: the login of one connection never moves or fails another.  It holds
\* because an agent that has left mAgentMap reads no more.
Asking == {a \in Agents : pc[a] \in {"reading", "parse", "login"}}

LoginMovesTheCaller == \A a \in Asking : Known(a) = a

\* An agent is in mAgentMap, or in mPlayerMap under one player id, or in
\* neither: OnPlayerLogin moves it, whatever logins and connections race.
OneHome ==
    \A a \in Agents :
        LET pids == {p \in Pids : mPlayerMap[p] = a} IN
        /\ \A p, q \in pids : p = q
        /\ pids # {} => Known(a) # a
=============================================================================
