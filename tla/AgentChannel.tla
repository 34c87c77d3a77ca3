----------------------------- MODULE AgentChannel -----------------------------
(***************************************************************************)
(* The mailbox of an agent (src/AgentBase.cpp): threads push nodes into a  *)
(* bounded concurrent channel, PushPackage, PushEvent and PushTask alike;  *)
(* the coroutine ProcessChannel receives and executes them one at a time;  *)
(* a thread closes the channel (UServiceAgent::Stop, UPlayerAgent::        *)
(* Disconnect); ProcessChannel then ends in CleanUp.                       *)
(*                                                                         *)
(* The channel is asio's concurrent_channel, used through four operations: *)
(* try_send (false when full or closed), async_send (waits while the       *)
(* channel is full, fails once it is closed), async_receive (waits while   *)
(* it is empty, fails once it is closed and empty) and close.  Waiting     *)
(* sends are served first come first served, so the channel is one queue   *)
(* whose first Capacity nodes are its buffer and the rest waiting sends.   *)
(* A push that finds the channel full leaves the node to a coroutine of    *)
(* its own; several threads drive the io_context, which therefore runs     *)
(* such coroutines in any order.                                           *)
(***************************************************************************)
EXTENDS Naturals, Sequences, FiniteSets

CONSTANTS
    Senders,        \* threads that push nodes
    Capacity,       \* channel size (4096 for services, 512 for players)
    MaxPushes,      \* bound: nodes each sender pushes
    Faulty          \* nodes whose handler throws

ASSUME CapacityAssumption == Capacity \in Nat \ {0}
ASSUME MaxPushesAssumption == MaxPushes \in Nat

\* <<s, i>> is the i-th node that s pushes.
Nodes == Senders \X (1 .. MaxPushes)

VARIABLES
    open,       \* mChannel.is_open()
    queue,      \* the nodes in the channel
    spawned,    \* nodes of overflow coroutines that have not sent yet
    count,      \* count[s]: nodes s has pushed or is pushing
    pushing,    \* nodes of pushes between the is_open check and try_send
    pump,       \* where ProcessChannel is
    current,    \* what ProcessChannel received: no node or one
    cleanedUp,  \* CleanUp has run
    executed,   \* history: the nodes executed, in order
    lost,       \* history: nodes taken out and discarded
    overflown   \* history: nodes that found the channel full

vars == <<open, queue, spawned, count, pushing, pump, current, cleanedUp,
          executed, lost, overflown>>

ElementsOf(s) == {s[i] : i \in 1 .. Len(s)}

Init ==
    /\ open = TRUE
    /\ queue = <<>>
    /\ spawned = {}
    /\ count = [s \in Senders |-> 0]
    /\ pushing = {}
    /\ pump = "none"
    /\ current = {}
    /\ cleanedUp = FALSE
    /\ executed = <<>>
    /\ lost = {}
    /\ overflown = {}

----------------------------------------------------------------------------
\* Operations of the channel (asio).

\* A receive waits for a node, which a send hands over directly.
Receiving == pump = "receiving"

\* Mutants of the channel: a buffer without a limit, a stack.
AcceptsWhenFull == open

EnqueueInFront(node) ==
    IF Receiving
    THEN current' = {node} /\ pump' = "received" /\ UNCHANGED queue
    ELSE queue' = <<node>> \o queue /\ UNCHANGED <<current, pump>>

\* try_send succeeds.
Accepts == open /\ (Receiving \/ Len(queue) < Capacity)

Enqueue(node) ==
    IF Receiving
    THEN current' = {node} /\ pump' = "received" /\ UNCHANGED queue
    ELSE queue' = Append(queue, node) /\ UNCHANGED <<current, pump>>

\* Mutants of its use: a node executed after the close, a node kept after it
\* was executed, an overflow without a coroutine or always through one, a close
\* that wakes nobody.
ExecuteUnchecked ==
    /\ pump = "received"
    /\ pump' = "executing"
    /\ UNCHANGED <<open, queue, spawned, count, pushing, current, cleanedUp,
                   executed, lost, overflown>>

ExecuteKeeps ==
    /\ pump = "executing"
    /\ \E node \in current :
        /\ executed' = Append(executed, node)
        /\ pump' = IF node \in Faulty THEN "failed" ELSE "looping"
    /\ UNCHANGED <<open, queue, spawned, count, pushing, current, cleanedUp,
                   lost, overflown>>

SpillNothing(node) ==
    /\ node \in pushing
    /\ ~Accepts
    /\ pushing' = pushing \ {node}
    /\ overflown' = overflown \cup {node}
    /\ UNCHANGED <<open, queue, spawned, count, pump, current, cleanedUp,
                   executed, lost>>

SpillAlways(node) ==
    /\ node \in pushing
    /\ pushing' = pushing \ {node}
    /\ spawned' = spawned \cup {node}
    /\ overflown' = IF Accepts THEN overflown ELSE overflown \cup {node}
    /\ UNCHANGED <<open, queue, count, pump, current, cleanedUp, executed,
                   lost>>

CloseQuietly ==
    /\ open
    /\ open' = FALSE
    /\ UNCHANGED <<queue, spawned, count, pushing, pump, current, cleanedUp,
                   executed, lost, overflown>>

----------------------------------------------------------------------------
\* The agent spawns ProcessChannel, after checking that the channel is open.
Spawn ==
    /\ pump = "none"
    /\ open
    /\ pump' = "looping"
    /\ UNCHANGED <<open, queue, spawned, count, pushing, current, cleanedUp,
                   executed, lost, overflown>>

\* Push*: returns at once unless the channel is open.
PushCheck(s) ==
    /\ open
    /\ count[s] < MaxPushes
    /\ <<s, count[s]>> \notin pushing
    /\ count' = [count EXCEPT ![s] = @ + 1]
    /\ pushing' = pushing \cup {<<s, count[s] + 1>>}
    /\ UNCHANGED <<open, queue, spawned, pump, current, cleanedUp, executed,
                   lost, overflown>>

\* Push*: try_send_via_dispatch succeeds.
TrySend(node) ==
    /\ node \in pushing
    /\ Accepts
    /\ pushing' = pushing \ {node}
    /\ Enqueue(node)
    /\ UNCHANGED <<open, spawned, count, cleanedUp, executed, lost, overflown>>

\* Push*: try_send fails, the channel being full, or closed since the check;
\* a coroutine is spawned for a copy of the node.
Spill(node) ==
    /\ node \in pushing
    /\ ~Accepts
    /\ pushing' = pushing \ {node}
    /\ spawned' = spawned \cup {node}
    /\ overflown' = overflown \cup {node}
    /\ UNCHANGED <<open, queue, count, pump, current, cleanedUp, executed,
                   lost>>

\* The coroutine of a spilled node calls async_send: the node joins the
\* channel, waiting if it is full, or the send fails because it is closed.
OverflowSend(node) ==
    /\ node \in spawned
    /\ spawned' = spawned \ {node}
    /\ IF open
       THEN Enqueue(node) /\ UNCHANGED lost
       ELSE lost' = lost \cup {node} /\ UNCHANGED <<queue, pump, current>>
    /\ UNCHANGED <<open, count, pushing, cleanedUp, executed, overflown>>

\* while (mChannel.is_open())
LoopCheck ==
    /\ pump = "looping"
    /\ pump' = IF open THEN "calling" ELSE "closing"
    /\ UNCHANGED <<open, queue, spawned, count, pushing, current, cleanedUp,
                   executed, lost, overflown>>

\* async_receive completes with a node, waits, or fails.
Receive ==
    /\ pump = "calling"
    /\ IF queue # <<>>
       THEN /\ current' = {Head(queue)}
            /\ queue' = Tail(queue)
            /\ pump' = "received"
       ELSE /\ pump' = IF open THEN "receiving" ELSE "closing"
            /\ UNCHANGED <<queue, current>>
    /\ UNCHANGED <<open, spawned, count, pushing, cleanedUp, executed, lost,
                   overflown>>

\* if (ec || !mChannel.is_open()) break;
ReceivedCheck ==
    /\ pump = "received"
    /\ IF open
       THEN pump' = "executing" /\ UNCHANGED <<current, lost>>
       ELSE /\ pump' = "closing"
            /\ current' = {}
            /\ lost' = lost \cup current
    /\ UNCHANGED <<open, queue, spawned, count, pushing, cleanedUp, executed,
                   overflown>>

\* node->Execute(pActor): an exception ends the coroutine.
Execute ==
    /\ pump = "executing"
    /\ \E node \in current :
        /\ executed' = Append(executed, node)
        /\ pump' = IF node \in Faulty THEN "failed" ELSE "looping"
    /\ current' = {}
    /\ UNCHANGED <<open, queue, spawned, count, pushing, cleanedUp, lost,
                   overflown>>

\* CleanUp() behind the loop.
CleanUp ==
    /\ pump = "closing"
    /\ cleanedUp' = TRUE
    /\ pump' = "done"
    /\ UNCHANGED <<open, queue, spawned, count, pushing, current, executed,
                   lost, overflown>>

\* Stop or Disconnect: a receive that waits fails; nodes stay in the channel.
Close ==
    /\ open
    /\ open' = FALSE
    /\ pump' = IF Receiving THEN "closing" ELSE pump
    /\ UNCHANGED <<queue, spawned, count, pushing, current, cleanedUp,
                   executed, lost, overflown>>

ProcessChannel == LoopCheck \/ Receive \/ ReceivedCheck \/ Execute \/ CleanUp

Next ==
    \/ Spawn
    \/ \E s \in Senders : PushCheck(s)
    \/ \E node \in Nodes : TrySend(node) \/ Spill(node) \/ OverflowSend(node)
    \/ ProcessChannel
    \/ Close

\* The threads of the io_context run every coroutine that can proceed, and a
\* push that began returns; nobody is obliged to push or to close.
Fairness ==
    /\ WF_vars(ProcessChannel)
    /\ \A node \in Nodes :
        WF_vars(TrySend(node) \/ Spill(node)) /\ WF_vars(OverflowSend(node))

Spec == Init /\ [][Next]_vars /\ Fairness

----------------------------------------------------------------------------
Pushed == {node \in Nodes : node[2] <= count[node[1]]}

TypeOK ==
    /\ open \in BOOLEAN /\ cleanedUp \in BOOLEAN
    /\ queue \in Seq(Nodes) /\ executed \in Seq(Nodes)
    /\ count \in [Senders -> 0 .. MaxPushes]
    /\ spawned \subseteq Nodes /\ pushing \subseteq Nodes
    /\ lost \subseteq Nodes /\ overflown \subseteq Nodes
    /\ pump \in {"none", "looping", "calling", "receiving", "received",
                 "executing", "closing", "done", "failed"}
    /\ IF pump \in {"received", "executing"}
       THEN \E node \in Nodes : current = {node}
       ELSE current = {}

\* A pushed node is in exactly one place: it is never duplicated by the copy
\* that Push* makes for the overflow coroutine, never executed twice, and it
\* disappears only through a closed channel.
InOnePlace ==
    LET places == <<pushing, spawned, ElementsOf(queue), current,
                    ElementsOf(executed), lost>> IN
    /\ Pushed = UNION {places[i] : i \in 1 .. 6}
    /\ \A i, j \in 1 .. 6 : i # j => places[i] \cap places[j] = {}
    /\ Cardinality(ElementsOf(queue)) = Len(queue)
    /\ Cardinality(ElementsOf(executed)) = Len(executed)
    /\ lost # {} => ~open

\* Two nodes of one sender are executed in the order they were pushed, unless
\* the earlier one found the channel full: only the overflow coroutine of
\* Push* lets a later push overtake.
OvertakenOnlyByOverflow ==
    \A i, j \in 1 .. Len(executed) :
        LET early == executed[j]
            late  == executed[i]
        IN  i < j /\ early[1] = late[1] /\ early[2] < late[2]
            => early \in overflown

\* A waiting receive means an empty channel: nodes never wait beside an idle
\* ProcessChannel, whichever of try_send and async_send came first.
IdleOnlyIfEmpty == Receiving => queue = <<>> /\ open

\* The agent's mailbox keeps its promises.
Waiting == pushing \cup spawned \cup ElementsOf(queue)
           \cup (IF pump = "received" THEN current ELSE {})
Handling == IF pump = "executing" THEN current ELSE {}
Handled == ElementsOf(executed)
Phase == IF pump = "none" THEN "idle"
         ELSE IF pump \in {"done", "failed"} THEN "ended" ELSE "serving"
Abstract == INSTANCE Mailbox WITH waiting <- Waiting, handling <- Handling,
                                  handled <- Handled, phase <- Phase
ImplementsMailbox == Abstract!Spec

\* Closing the channel ends ProcessChannel, wherever it was, and the actor is
\* cleaned up, unless a handler throws.
CloseLeadsToCleanUp ==
    ~open /\ pump \notin {"none", "failed"} ~> cleanedUp \/ pump = "failed"

\* While the mailbox is served and stays open, every pushed node is executed,
\* those that found the channel full included.
EveryNodeExecuted ==
    \A node \in Nodes :
        node \in Pushed ~>
            node \in ElementsOf(executed) \/ ~open \/ pump \in {"none", "failed"}
=============================================================================
