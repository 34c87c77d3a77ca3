---------------------------- MODULE MCPlayerLogin ----------------------------
(***************************************************************************)
(* A small instance of PlayerLogin: two connections of one address in one  *)
(* second, which share a key, a third, and two players.  And the operators *)
(* of PlayerCache, on all maps of three such agents and two players.       *)
(***************************************************************************)
EXTENDS PlayerLogin, Integers, Sequences, FiniteSets

CONSTANTS twin1, twin2, single, here, there

SharedKey == [a \in Agents |-> IF a = single THEN there ELSE here]

\* Player 0 has not been given its id.
CachePids == {0, 1, 2}

Cache(Running, Cachable, MaxSize) == INSTANCE PlayerCache WITH
    KeyOf <- SharedKey, Pids <- CachePids, Keep <- 2

Times == 3 .. 6
Logins == [mAgentMap : [{here, there} -> Agents \cup {None}],
           mPlayerMap : [CachePids -> {twin1, single, None}],
           mPlayer : [Agents -> {0, 1, None}],
           mCachedMap : {[p \in CachePids |-> t] : t \in {5, None}},
           destroyed : {<<>>}]
Caches == [mCachedMap : [CachePids -> Times \cup {None}], destroyed : {<<>>}]

ASSUME CleanUps ==
    \A running \in BOOLEAN, cachable \in {{}, {twin1, twin2}} :
        \A s \in Logins, a \in Agents :
            /\ Cache(running, cachable, 1)!CleanUpSettles(s, a, 6)
            /\ Cache(running, cachable, 1)!CleanUpSparesOthers(s, a, 6)
\* A twin that is not logged in yet leaves mAgentMap with the other's CleanUp.
ASSUME CleanUpTakesTheTwin == \E s \in Logins :
    /\ s.mAgentMap[here] = twin2
    /\ Cache(TRUE, {}, 1)!CleanUp(s, twin1, 6).mAgentMap[here] = None
ASSUME Collections ==
    \A s \in Caches, size \in -1 .. 3 : Cache(TRUE, {}, size)!CollectTrims(s, 6)
ASSUME Rounds ==
    \A running \in BOOLEAN, s \in Logins, stops \in SUBSET {twin1, single} :
        /\ Cache(running, {}, 1)!EachOnce(s, stops)
        /\ Len(Cache(running, {}, 1)!GetPlayerList(s, <<0, 1, 2>>)) =
               Cardinality({p \in CachePids : running /\ s.mPlayerMap[p] # None})
=============================================================================
