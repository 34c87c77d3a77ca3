------------------------------ MODULE PlayerCache ------------------------------
(***************************************************************************)
(* What becomes of a player that has logged in: CleanUp of its agent       *)
(* (src/gateway/PlayerAgent.cpp), RecyclePlayer, the cache and its         *)
(* collection, and the lookups of logged in players                        *)
(* (src/gateway/Gateway.cpp).  SetUpPlayer refuses every player for now    *)
(* (PlayerLogin), so that this is code in waiting: the operators are those *)
(* of the source, on any maps.                                             *)
(***************************************************************************)
EXTENDS Integers, SequencesExt, FiniteSetsExt

CONSTANTS
    Agents, KeyOf,  \* agents, and the key of each (two may share one)
    Pids,           \* ids of players, positive but for those never set
    None,
    Running,        \* whether the gateway is RUNNING
    Cachable,       \* agents whose player may be cached (bCachable)
    Keep, MaxSize   \* keep_alive and max_size of the configuration

\* A state has mAgentMap, mPlayerMap, the player of each agent, mCachedMap with
\* the time of each entry, and the players destroyed.
GetPlayerID(s, a) == IF s.mPlayer[a] = None THEN -1 ELSE s.mPlayer[a]

FindPlayer(s, pid) == IF Running THEN s.mPlayerMap[pid] ELSE None

GetPlayerList(s, list) ==
    IF Running
    THEN SelectSeq([i \in DOMAIN list |-> s.mPlayerMap[list[i]]], LAMBDA a : a # None)
    ELSE <<>>

RemovePlayer(s, pid) == IF Running THEN [s EXCEPT !.mPlayerMap[pid] = None] ELSE s
RemoveAgent(s, key) == IF Running THEN [s EXCEPT !.mAgentMap[key] = None] ELSE s

\* The player of a goes into the cache, over one that is there already.
RecyclePlayer(s, a, now) ==
    LET pid == s.mPlayer[a] IN
    IF ~Running \/ pid = None \/ GetPlayerID(s, a) <= 0 THEN s
    ELSE [RemovePlayer(s, pid) EXCEPT
            !.mPlayer[a] = None,
            !.mCachedMap[pid] = now,
            !.destroyed = IF s.mCachedMap[pid] = None THEN @ ELSE Append(@, pid)]

\* mPlayer.Release()
ReleasePlayer(s, a) ==
    [s EXCEPT !.mPlayer[a] = None, !.destroyed = Append(@, s.mPlayer[a])]

\* bRepeated is never set.
CleanUp(s, a, now) ==
    RemoveAgent(
        CASE s.mPlayer[a] = None -> s
          [] a \in Cachable -> RecyclePlayer(s, a, now)
          [] OTHER -> ReleasePlayer(RemovePlayer(s, s.mPlayer[a]), a),
        KeyOf[a])

\* A round of CollectCachedPlayer at point: entries that are too old go, then
\* any, until there are max_size.  That is an int beside a size_t: a negative
\* one is no limit.
Cached(s) == {pid \in Pids : s.mCachedMap[pid] # None}

CollectCachedPlayer(s, point) ==
    LET rest == {pid \in Cached(s) : point - s.mCachedMap[pid] <= Keep}
        size == IF MaxSize < 0 \/ Cardinality(rest) <= MaxSize
                THEN Cardinality(rest) ELSE MaxSize IN
    {[s EXCEPT !.mCachedMap = [pid \in Pids |-> IF pid \in kept THEN @[pid] ELSE None],
               !.destroyed = @ \o SetToSeq(Cached(s) \ kept)] :
        kept \in kSubset(size, rest)}

\* Which agents func is called with, in an order of their addresses, when it
\* returns true for those of stops.
ForeachPlayer(s, stops) ==
    LET players == IF Running THEN {s.mPlayerMap[pid] : pid \in Pids} \ {None} ELSE {}
        Until(q) == {i \in DOMAIN q : q[i] \in stops} IN
    {IF Until(q) = {} THEN q ELSE SubSeq(q, 1, Min(Until(q))) :
        q \in SetToSeqs(players)}

----------------------------------------------------------------------------
\* Every agent has its player to itself and is found by its id.
LoggedIn(s) ==
    \A a \in Agents : s.mPlayer[a] # None =>
        /\ s.mPlayerMap[s.mPlayer[a]] = a
        /\ \A b \in Agents \ {a} : s.mPlayer[b] # s.mPlayer[a]

\* CleanUp takes what is under the agent's key out of mAgentMap, whether it has a
\* player or not, and leaves nothing of one that is logged in: neither its id
\* nor its key leads to it, and its player goes to one place, the cache or its
\* destructor.
CleanUpSettles(s, a, now) ==
    LET t == CleanUp(s, a, now)
        pid == s.mPlayer[a] IN
    /\ Running => t.mAgentMap = [s.mAgentMap EXCEPT ![KeyOf[a]] = None]
    /\ LoggedIn(s) /\ Running /\ GetPlayerID(s, a) > 0 =>
        /\ LoggedIn(t) /\ t.mPlayer[a] = None /\ FindPlayer(t, pid) = None
        /\ a \in Cachable => t.mCachedMap[pid] = now
        /\ a \notin Cachable => t.mCachedMap = s.mCachedMap /\ t.destroyed = <<pid>>

\* It takes no other agent out of mAgentMap, if that has not its key.
CleanUpSparesOthers(s, a, now) ==
    \A b \in Agents : LET t == CleanUp(s, a, now) IN
        s.mAgentMap[KeyOf[b]] = b /\ KeyOf[b] # KeyOf[a] => t.mAgentMap[KeyOf[b]] = b

\* After a round no entry is too old or too many, none went without a reason,
\* and what went is destroyed.
CollectTrims(s, point) ==
    \A t \in CollectCachedPlayer(s, point) :
        LET gone == Cached(s) \ Cached(t)
            Old(pid) == point - s.mCachedMap[pid] > Keep IN
        /\ \A pid \in Cached(t) : ~Old(pid) /\ t.mCachedMap[pid] = s.mCachedMap[pid]
        /\ MaxSize >= 0 => Cardinality(Cached(t)) <= MaxSize
        /\ (\E pid \in gone : ~Old(pid)) => Cardinality(Cached(t)) = MaxSize
        /\ ToSet(t.destroyed) = gone /\ Len(t.destroyed) = Cardinality(gone)

\* Nobody is called twice, and nobody behind one that stops the round.
EachOnce(s, stops) ==
    \A q \in ForeachPlayer(s, stops) :
        /\ IsInjective(q)
        /\ \A i \in 1 .. Len(q) - 1 : q[i] \notin stops
        /\ (q = <<>> \/ Last(q) \notin stops) /\ Running =>
            \A pid \in Pids : FindPlayer(s, pid) \in ToSet(q) \cup {None}
=============================================================================
