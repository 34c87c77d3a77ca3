------------------------------ MODULE ContextPool ------------------------------
(***************************************************************************)
(* UMultiIOContextPool (src/base/MultiIOContextPool.cpp): a thread for     *)
(* each io_context, dealt out in turn to the connections that the gateway  *)
(* accepts, stopped by Stop or by the signals that each thread waits for   *)
(* itself, and joined by the destructor.                                   *)
(***************************************************************************)
EXTENDS Naturals, Sequences, FiniteSets

NoPool == [mNodeList |-> <<>>, mNextIndex |-> 0, dealt |-> <<>>, gone |-> FALSE]

Start(s, count) ==
    [s EXCEPT !.mNodeList = [i \in 1 .. count |->
        [guard |-> TRUE, stopped |-> FALSE, thread |-> "running"]]]

Stops(node) == [node EXCEPT !.guard = FALSE, !.stopped = TRUE]

\* The wait of one thread's signal_set ends.
Signal(s, i) == [s EXCEPT !.mNodeList[i] = Stops(@)]

Stop(s) == [s EXCEPT !.mNodeList = [i \in DOMAIN @ |-> Stops(@[i])]]

\* run() returns, and the thread ends, when its context is stopped.
Returns(s) == {i \in DOMAIN s.mNodeList :
    s.mNodeList[i].stopped /\ s.mNodeList[i].thread = "running"}
RunReturns(s, i) == [s EXCEPT !.mNodeList[i].thread = "ended"]

\* Called where there is a context, by the loop that accepts and by no other;
\* mNextIndex counts from 0.
GetIOContext(s) ==
    [s EXCEPT !.dealt = Append(@, s.mNextIndex + 1),
              !.mNextIndex = (@ + 1) % Len(s.mNodeList)]

\* The destructor, once it could join every thread.
CanDestroy(s) == \A i \in DOMAIN s.mNodeList : s.mNodeList[i].thread = "ended"
Destroy(s) == [s EXCEPT !.mNodeList = <<>>, !.gone = TRUE]

\* What n steps lead to with so many contexts.
After(count, steps) ==
    LET Steps(s) ==
            {Stop(s)}
            \cup {Signal(s, i) : i \in DOMAIN s.mNodeList}
            \cup {RunReturns(s, i) : i \in Returns(s)}
            \cup (IF s.mNodeList = <<>> THEN {} ELSE {GetIOContext(s)})
            \cup (IF CanDestroy(Stop(s)) THEN {Destroy(s)} ELSE {})
        after[n \in 0 .. steps] ==
            IF n = 0 THEN {Start(NoPool, count)}
            ELSE after[n - 1] \cup UNION {Steps(s) : s \in after[n - 1]} IN
    after[steps]

----------------------------------------------------------------------------
\* Connections are spread evenly, whatever stops meanwhile, over the contexts
\* there are.
DealtInTurn(s) ==
    LET Share(i) == Cardinality({k \in DOMAIN s.dealt : s.dealt[k] = i}) IN
    /\ \A i, j \in DOMAIN s.mNodeList : Share(i) <= Share(j) + 1
    /\ s.gone \/ \A k \in DOMAIN s.dealt : s.dealt[k] \in DOMAIN s.mNodeList

\* The destructor waits for no thread that does not come back, and no context
\* runs, or is served by a thread, without its guard.
DestructorReturns(s) ==
    LET t == Stop(s) IN
    /\ \A i \in DOMAIN t.mNodeList : t.mNodeList[i].thread = "running" => i \in Returns(t)
    /\ \A i \in DOMAIN s.mNodeList : LET node == s.mNodeList[i] IN
        /\ node.guard <=> ~node.stopped
        /\ node.thread = "ended" => node.stopped
=============================================================================
