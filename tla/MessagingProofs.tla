--------------------------- MODULE MessagingProofs ---------------------------
(***************************************************************************)
(* Proofs about what services send each other.                             *)
(*                                                                         *)
(* AgentChannel, for any number of senders, nodes and any channel size:    *)
(* the agent's mailbox implements Mailbox.  The invariant behind it is     *)
(* that a node is in one place only, so that taking it out of the channel  *)
(* takes it away from everybody else.                                      *)
(*                                                                         *)
(* Routing, for any number of services, names, ids, packages and tasks:    *)
(* what is posted once is handled by the service it was posted to, and an  *)
(* answer comes back to the asker while that is there.                     *)
(***************************************************************************)
EXTENDS AgentChannel, Routing, FiniteSetTheorems, TLAPS

Injective(s) == \A i, j \in 1 .. Len(s) : s[i] = s[j] => i = j

\* No node is in two places, and every place holds pushed nodes only.
Apart ==
    /\ pushing \cap spawned = {}
    /\ pushing \cap ElementsOf(queue) = {}
    /\ pushing \cap current = {}
    /\ pushing \cap ElementsOf(executed) = {}
    /\ spawned \cap ElementsOf(queue) = {}
    /\ spawned \cap current = {}
    /\ spawned \cap ElementsOf(executed) = {}
    /\ ElementsOf(queue) \cap current = {}
    /\ ElementsOf(queue) \cap ElementsOf(executed) = {}
    /\ current \cap ElementsOf(executed) = {}
    /\ (pushing \cup spawned \cup ElementsOf(queue) \cup current) \cap lost = {}
    /\ ElementsOf(executed) \cap lost = {}

PlacesPushed ==
    pushing \cup spawned \cup ElementsOf(queue) \cup current
        \cup ElementsOf(executed) \cup lost \subseteq Pushed

IInv ==
    /\ TypeOK
    /\ Apart
    /\ PlacesPushed
    /\ Injective(queue)
    /\ IdleOnlyIfEmpty
    /\ pump = "closing" => ~open

----------------------------------------------------------------------------
\* What the sequence operations of the channel do to the set of its nodes.
LEMMA AppendElements ==
    ASSUME NEW S, NEW s \in Seq(S), NEW e \in S
    PROVE  /\ Append(s, e) \in Seq(S)
           /\ ElementsOf(Append(s, e)) = ElementsOf(s) \cup {e}
           /\ Injective(s) /\ e \notin ElementsOf(s) => Injective(Append(s, e))
<1>1. /\ Append(s, e) \in Seq(S)
      /\ Len(Append(s, e)) = Len(s) + 1
      /\ Len(s) \in Nat
      /\ \A i \in 1 .. Len(s) : Append(s, e)[i] = s[i]
      /\ Append(s, e)[Len(s) + 1] = e
  OBVIOUS
<1>2. 1 .. Len(s) + 1 = (1 .. Len(s)) \cup {Len(s) + 1}
  BY <1>1
<1>3. ElementsOf(Append(s, e)) = ElementsOf(s) \cup {e}
  BY <1>1, <1>2 DEF ElementsOf
<1>4. ASSUME Injective(s), e \notin ElementsOf(s) PROVE Injective(Append(s, e))
  BY <1>1, <1>2, <1>4 DEF Injective, ElementsOf
<1> QED BY <1>1, <1>3, <1>4

LEMMA TailElements ==
    ASSUME NEW S, NEW s \in Seq(S), s # <<>>, Injective(s)
    PROVE  /\ Head(s) \in S /\ Tail(s) \in Seq(S)
           /\ Head(s) \in ElementsOf(s)
           /\ ElementsOf(Tail(s)) = ElementsOf(s) \ {Head(s)}
           /\ Injective(Tail(s))
<1>1. /\ Head(s) \in S /\ Tail(s) \in Seq(S)
      /\ Len(s) \in Nat \ {0}
      /\ Len(Tail(s)) = Len(s) - 1
      /\ \A i \in 1 .. Len(s) - 1 : Tail(s)[i] = s[i + 1]
      /\ Head(s) = s[1]
  OBVIOUS
<1>2. Head(s) \in ElementsOf(s)
  BY <1>1 DEF ElementsOf
<1>3. ASSUME NEW x \in ElementsOf(Tail(s)) PROVE x \in ElementsOf(s) \ {Head(s)}
  <2>1. PICK i \in 1 .. Len(s) - 1 : x = s[i + 1]
    BY <1>1, <1>3 DEF ElementsOf
  <2>2. i + 1 \in 1 .. Len(s) /\ 1 \in 1 .. Len(s) /\ i + 1 # 1
    BY <1>1, <2>1
  <2> QED BY <1>1, <2>1, <2>2 DEF ElementsOf, Injective
<1>4. ASSUME NEW x \in ElementsOf(s) \ {Head(s)} PROVE x \in ElementsOf(Tail(s))
  <2>1. PICK i \in 1 .. Len(s) : x = s[i]
    BY <1>4 DEF ElementsOf
  <2>2. i - 1 \in 1 .. Len(s) - 1 /\ (i - 1) + 1 = i
    BY <1>1, <1>4, <2>1
  <2>3. x = Tail(s)[i - 1]
    BY <1>1, <2>1, <2>2
  <2> QED BY <1>1, <2>2, <2>3 DEF ElementsOf
<1>5. Injective(Tail(s))
  <2> SUFFICES ASSUME NEW i \in 1 .. Len(s) - 1, NEW j \in 1 .. Len(s) - 1,
                      Tail(s)[i] = Tail(s)[j]
               PROVE  i = j
    BY <1>1 DEF Injective
  <2>1. s[i + 1] = s[j + 1] /\ i + 1 \in 1 .. Len(s) /\ j + 1 \in 1 .. Len(s)
    BY <1>1
  <2> QED BY <2>1 DEF Injective
<1> QED BY <1>1, <1>2, <1>3, <1>4, <1>5

----------------------------------------------------------------------------
\* A node sent to the channel goes to the receive that waits or to the queue.
LEMMA EnqueueEffect ==
    ASSUME IInv, NEW node \in Nodes, node \notin ElementsOf(queue),
           Enqueue(node)
    PROVE  \/ /\ Receiving /\ queue = <<>> /\ queue' = <<>>
              /\ current = {} /\ current' = {node} /\ pump' = "received"
           \/ /\ ~Receiving /\ pump' = pump /\ current' = current
              /\ queue' \in Seq(Nodes)
              /\ ElementsOf(queue') = ElementsOf(queue) \cup {node}
              /\ Injective(queue')
<1>1. CASE Receiving
  BY <1>1 DEF Enqueue, IInv, TypeOK, IdleOnlyIfEmpty, Receiving
<1>2. CASE ~Receiving
  <2>1. queue' = Append(queue, node) /\ current' = current /\ pump' = pump
    BY <1>2 DEF Enqueue
  <2>2. queue \in Seq(Nodes) /\ Injective(queue)
    BY DEF IInv, TypeOK
  <2> QED BY <1>2, <2>1, <2>2, AppendElements
<1> QED BY <1>1, <1>2

\* Sending a node from where it was, pushing or spawned, keeps it in one place.
LEMMA SendKeeps ==
    ASSUME IInv, NEW node \in pushing \cup spawned, open,
           Enqueue(node),
           pushing' = pushing \ {node}, spawned' = spawned \ {node},
           UNCHANGED <<open, count, cleanedUp, executed, lost, overflown>>
    PROVE  IInv'
<1>0. node \in Nodes /\ node \notin ElementsOf(queue)
  BY DEF IInv, TypeOK, Apart
<1>1. Pushed' = Pushed /\ node \in Pushed
  BY DEF Pushed, IInv, PlacesPushed
<1>2. CASE /\ Receiving /\ queue = <<>> /\ queue' = <<>>
           /\ current = {} /\ current' = {node} /\ pump' = "received"
  <2>1. TypeOK'
    BY <1>0, <1>2 DEF IInv, TypeOK
  <2>2. Apart' /\ PlacesPushed'
    BY <1>1, <1>2 DEF IInv, Apart, PlacesPushed
  <2> QED BY <1>2, <2>1, <2>2 DEF IInv, IdleOnlyIfEmpty, Receiving
<1>3. CASE /\ ~Receiving /\ pump' = pump /\ current' = current
           /\ queue' \in Seq(Nodes)
           /\ ElementsOf(queue') = ElementsOf(queue) \cup {node}
           /\ Injective(queue')
  <2>1. TypeOK'
    BY <1>0, <1>3 DEF IInv, TypeOK
  <2>2. Apart' /\ PlacesPushed'
    BY <1>1, <1>3 DEF IInv, Apart, PlacesPushed
  <2> QED BY <1>3, <2>1, <2>2 DEF IInv, IdleOnlyIfEmpty, Receiving
<1> QED BY <1>0, <1>2, <1>3, EnqueueEffect

LEMMA IInvInit == Init => IInv
<1> SUFFICES ASSUME Init PROVE IInv
  OBVIOUS
<1>1. open \in BOOLEAN /\ cleanedUp \in BOOLEAN
  BY Zenon DEF Init
<1>2. ElementsOf(queue) = {} /\ ElementsOf(executed) = {} /\ Injective(queue)
  BY DEF Init, ElementsOf, Injective
<1>3. TypeOK
  BY <1>1, MaxPushesAssumption DEF Init, TypeOK
<1> QED
  BY <1>2, <1>3 DEF Init, IInv, Apart, PlacesPushed, IdleOnlyIfEmpty, Receiving

LEMMA IInvStep == IInv /\ [Next]_vars => IInv'
<1> SUFFICES ASSUME IInv, [Next]_vars PROVE IInv'
  OBVIOUS
<1>1. CASE Spawn
  BY <1>1 DEF Spawn, IInv, TypeOK, Apart, PlacesPushed, Pushed,
              IdleOnlyIfEmpty, Receiving
<1>2. ASSUME NEW s \in Senders, PushCheck(s) PROVE IInv'
  <2> DEFINE node == <<s, count[s] + 1>>
  <2>1. count[s] \in 0 .. MaxPushes /\ count[s] < MaxPushes
    BY <1>2 DEF PushCheck, IInv, TypeOK
  <2>2. node \in Nodes /\ node \notin Pushed
    BY <2>1, MaxPushesAssumption DEF Nodes, Pushed
  <2>3. Pushed \cup {node} \subseteq Pushed'
    <3>1. \A m \in Nodes : m[1] \in Senders /\ m[2] \in Nat
      BY DEF Nodes
    <3>2. \A t \in Senders : count'[t] >= count[t] /\ count[t] \in Nat
      BY <1>2, MaxPushesAssumption DEF PushCheck, IInv, TypeOK
    <3>3. \A t \in Senders : count'[t] \in Nat
      BY <1>2, MaxPushesAssumption DEF PushCheck, IInv, TypeOK
    <3>4. count'[s] = count[s] + 1
      BY <1>2 DEF PushCheck, IInv, TypeOK
    <3>5. node \in Pushed'
      BY <2>1, <2>2, <3>4 DEF Pushed
    <3>6. ASSUME NEW m \in Pushed PROVE m \in Pushed'
      <4>1. m \in Nodes /\ m[2] <= count[m[1]]
        BY DEF Pushed
      <4>2. m[2] <= count'[m[1]]
        BY <3>1, <3>2, <3>3, <4>1
      <4> QED BY <4>1, <4>2 DEF Pushed
    <3> QED BY <3>5, <3>6
  <2>5. pushing' = pushing \cup {node}
    BY <1>2 DEF PushCheck
  <2>4. TypeOK'
    <3>1. count' \in [Senders -> 0 .. MaxPushes]
      BY <1>2, <2>1, MaxPushesAssumption DEF PushCheck, IInv, TypeOK
    <3>2. pushing' \subseteq Nodes
      BY <2>2, <2>5 DEF IInv, TypeOK
    <3> QED BY <1>2, <3>1, <3>2 DEF PushCheck, IInv, TypeOK
  <2>6. Apart' /\ PlacesPushed'
    BY <1>2, <2>2, <2>3, <2>5 DEF PushCheck, IInv, Apart, PlacesPushed
  <2> QED BY <1>2, <2>4, <2>6
          DEF PushCheck, IInv, IdleOnlyIfEmpty, Receiving
<1>3. ASSUME NEW node \in Nodes, TrySend(node) PROVE IInv'
  <2>1. spawned' = spawned \ {node} /\ node \in pushing
    BY <1>3 DEF TrySend, IInv, Apart
  <2> QED BY <1>3, <2>1, SendKeeps DEF TrySend, Accepts
<1>4. ASSUME NEW node \in Nodes, Spill(node) PROVE IInv'
  <2>1. TypeOK'
    BY <1>4 DEF Spill, IInv, TypeOK
  <2>2. Apart' /\ PlacesPushed'
    BY <1>4 DEF Spill, IInv, Apart, PlacesPushed, Pushed
  <2> QED BY <1>4, <2>1, <2>2 DEF Spill, IInv, IdleOnlyIfEmpty, Receiving
<1>5. ASSUME NEW node \in Nodes, OverflowSend(node) PROVE IInv'
  <2>1. CASE open
    <3>1. pushing' = pushing \ {node} /\ node \in spawned
      BY <1>5 DEF OverflowSend, IInv, Apart
    <3> QED BY <1>5, <2>1, <3>1, SendKeeps DEF OverflowSend
  <2>2. CASE ~open
    BY <1>5, <2>2 DEF OverflowSend, IInv, TypeOK, Apart, PlacesPushed,
                      Pushed, IdleOnlyIfEmpty, Receiving
  <2> QED BY <2>1, <2>2
<1>6. CASE LoopCheck
  BY <1>6 DEF LoopCheck, IInv, TypeOK, Apart, PlacesPushed, Pushed,
              IdleOnlyIfEmpty, Receiving
<1>7. CASE Receive
  <2>1. CASE queue = <<>>
    BY <1>7, <2>1 DEF Receive, IInv, TypeOK, Apart, PlacesPushed, Pushed,
                      IdleOnlyIfEmpty, Receiving
  <2>2. CASE queue # <<>>
    <3>1. queue \in Seq(Nodes) /\ Injective(queue) /\ current = {}
      BY <1>7 DEF Receive, IInv, TypeOK
    <3>a. /\ Head(queue) \in Nodes /\ Tail(queue) \in Seq(Nodes)
          /\ Head(queue) \in ElementsOf(queue)
          /\ ElementsOf(Tail(queue)) = ElementsOf(queue) \ {Head(queue)}
          /\ Injective(Tail(queue))
      BY <2>2, <3>1, TailElements
    <3>b. queue' = Tail(queue)
      BY <1>7, <2>2 DEF Receive
    <3>2. /\ Head(queue) \in Nodes /\ queue' \in Seq(Nodes)
          /\ Head(queue) \in ElementsOf(queue)
          /\ ElementsOf(queue') = ElementsOf(queue) \ {Head(queue)}
          /\ Injective(queue')
      BY <3>a, <3>b
    <3>3. TypeOK'
      BY <1>7, <2>2, <3>2 DEF Receive, IInv, TypeOK
    <3>4. Apart' /\ PlacesPushed'
      BY <1>7, <2>2, <3>1, <3>2
      DEF Receive, IInv, Apart, PlacesPushed, Pushed
    <3> QED BY <1>7, <2>2, <3>2, <3>3, <3>4
            DEF Receive, IInv, IdleOnlyIfEmpty, Receiving
  <2> QED BY <2>1, <2>2
<1>8. CASE ReceivedCheck
  <2>1. TypeOK'
    BY <1>8 DEF ReceivedCheck, IInv, TypeOK
  <2>2. Apart' /\ PlacesPushed'
    BY <1>8 DEF ReceivedCheck, IInv, Apart, PlacesPushed, Pushed
  <2> QED
    BY <1>8, <2>1, <2>2 DEF ReceivedCheck, IInv, IdleOnlyIfEmpty, Receiving
<1>9. CASE Execute
  <2>1. PICK node \in Nodes : current = {node}
    BY <1>9 DEF Execute, IInv, TypeOK
  <2>2. executed' = Append(executed, node) /\ current' = {}
        /\ pump' \in {"failed", "looping"}
    BY <1>9, <2>1 DEF Execute
  <2>3. executed' \in Seq(Nodes)
        /\ ElementsOf(executed') = ElementsOf(executed) \cup {node}
    BY <2>2, AppendElements DEF IInv, TypeOK
  <2>4. TypeOK'
    BY <1>9, <2>2, <2>3 DEF Execute, IInv, TypeOK
  <2>5. Apart' /\ PlacesPushed'
    BY <1>9, <2>1, <2>2, <2>3
    DEF Execute, IInv, Apart, PlacesPushed, Pushed
  <2> QED BY <1>9, <2>2, <2>4, <2>5
          DEF Execute, IInv, IdleOnlyIfEmpty, Receiving
<1>10. CASE CleanUp
  BY <1>10 DEF CleanUp, IInv, TypeOK, Apart, PlacesPushed, Pushed,
               IdleOnlyIfEmpty, Receiving
<1>11. CASE Close
  BY <1>11 DEF Close, IInv, TypeOK, Apart, PlacesPushed, Pushed,
               IdleOnlyIfEmpty, Receiving
<1>12. CASE UNCHANGED vars
  BY <1>12 DEF vars, IInv, TypeOK, Apart, PlacesPushed, Pushed,
               IdleOnlyIfEmpty, Receiving
<1> QED
  BY <1>1, <1>2, <1>3, <1>4, <1>5, <1>6, <1>7, <1>8, <1>9, <1>10, <1>11, <1>12
  DEF Next, ProcessChannel

\* The inductive invariant holds in every reachable state.
THEOREM Invariance == Spec => []IInv
BY IInvInit, IInvStep, PTL DEF Spec

\* The state of the mailbox stays well typed.
THEOREM TypeCorrect == Spec => []TypeOK
BY Invariance, PTL DEF IInv

\* ProcessChannel never waits for a node beside one that is in the channel.
THEOREM NeverIdleBesideWork == Spec => []IdleOnlyIfEmpty
BY Invariance, PTL DEF IInv

----------------------------------------------------------------------------
\* A node on its way through the channel stays among the waiting ones.
LEMMA SendStutters ==
    ASSUME IInv, NEW node \in pushing \cup spawned, open,
           Enqueue(node),
           pushing' = pushing \ {node}, spawned' = spawned \ {node},
           UNCHANGED <<open, executed>>
    PROVE  UNCHANGED Abstract!vars
<1>0. node \in Nodes /\ node \notin ElementsOf(queue)
  BY DEF IInv, TypeOK, Apart
<1>1. CASE /\ Receiving /\ queue = <<>> /\ queue' = <<>>
           /\ current = {} /\ current' = {node} /\ pump' = "received"
  <2>1. Waiting' = Waiting
    BY <1>1 DEF Waiting, Receiving
  <2> QED BY <1>1, <2>1 DEF Abstract!vars, Handling, Handled, Phase, Receiving
<1>2. CASE /\ ~Receiving /\ pump' = pump /\ current' = current
           /\ queue' \in Seq(Nodes)
           /\ ElementsOf(queue') = ElementsOf(queue) \cup {node}
           /\ Injective(queue')
  <2>1. Waiting' = Waiting
    BY <1>2 DEF Waiting
  <2> QED BY <1>2, <2>1 DEF Abstract!vars, Handling, Handled, Phase
<1> QED BY <1>0, <1>1, <1>2, EnqueueEffect

LEMMA MailboxStep == IInv /\ [Next]_vars => [Abstract!Next]_(Abstract!vars)
<1> SUFFICES ASSUME IInv, [Next]_vars
             PROVE  Abstract!Next \/ UNCHANGED Abstract!vars
  OBVIOUS
<1>1. CASE Spawn
  <2>1. Waiting' = Waiting /\ Handling' = Handling /\ Handled' = Handled
        /\ Phase = "idle" /\ Phase' = "serving"
    BY <1>1 DEF Spawn, Waiting, Handling, Handled, Phase
  <2> QED BY <1>1, <2>1 DEF Spawn, Abstract!Next, Abstract!Start
<1>2. ASSUME NEW s \in Senders, PushCheck(s)
      PROVE Abstract!Next
  <2> DEFINE node == <<s, count[s] + 1>>
  <2>1. node \notin Pushed
    BY <1>2, MaxPushesAssumption DEF PushCheck, IInv, TypeOK, Pushed
  <2>2. node \notin Waiting \cup Handling \cup Handled
    BY <2>1 DEF IInv, PlacesPushed, Waiting, Handling, Handled
  <2>3. Waiting' = Waiting \cup {node}
    BY <1>2 DEF PushCheck, Waiting
  <2>4. UNCHANGED <<open, Handling, Handled, Phase>>
    BY <1>2 DEF PushCheck, Handling, Handled, Phase
  <2> QED BY <2>2, <2>3, <2>4 DEF Abstract!Next, Abstract!Accept
<1>3. ASSUME NEW node \in Nodes, TrySend(node)
      PROVE UNCHANGED Abstract!vars
  <2>1. spawned' = spawned \ {node} /\ node \in pushing
    BY <1>3 DEF TrySend, IInv, Apart
  <2> QED BY <1>3, <2>1, SendStutters DEF TrySend, Accepts
<1>4. ASSUME NEW node \in Nodes, Spill(node) PROVE UNCHANGED Abstract!vars
  BY <1>4 DEF Spill, Abstract!vars, Waiting, Handling, Handled, Phase
<1>5. ASSUME NEW node \in Nodes, OverflowSend(node)
      PROVE Abstract!Next \/ UNCHANGED Abstract!vars
  <2>1. CASE open
    <3>1. pushing' = pushing \ {node} /\ node \in spawned
      BY <1>5 DEF OverflowSend, IInv, Apart
    <3> QED BY <1>5, <2>1, <3>1, SendStutters DEF OverflowSend
  <2>2. CASE ~open
    <3>1. Waiting' = Waiting \ {node} /\ node \in Waiting
      BY <1>5, <2>2 DEF OverflowSend, Waiting, IInv, Apart
    <3>2. UNCHANGED <<open, Handling, Handled, Phase>>
      BY <1>5, <2>2 DEF OverflowSend, Handling, Handled, Phase
    <3> QED BY <2>2, <3>1, <3>2 DEF Abstract!Next, Abstract!Drop
  <2> QED BY <2>1, <2>2
<1>6. CASE LoopCheck
  BY <1>6 DEF LoopCheck, Abstract!vars, Waiting, Handling, Handled, Phase
<1>7. CASE Receive
  <2>1. CASE queue = <<>>
    BY <1>7, <2>1
    DEF Receive, Abstract!vars, Waiting, Handling, Handled, Phase
  <2>2. CASE queue # <<>>
    <3>1. queue \in Seq(Nodes) /\ Injective(queue)
      BY DEF IInv, TypeOK
    <3>2. /\ Head(queue) \in ElementsOf(queue)
          /\ ElementsOf(Tail(queue)) = ElementsOf(queue) \ {Head(queue)}
      BY <2>2, <3>1, TailElements
    <3>3. queue' = Tail(queue) /\ current' = {Head(queue)}
          /\ pump = "calling" /\ pump' = "received"
      BY <1>7, <2>2 DEF Receive
    <3>4. Waiting' = Waiting
      BY <1>7, <3>2, <3>3 DEF Receive, Waiting
    <3> QED BY <1>7, <3>3, <3>4
            DEF Receive, Abstract!vars, Handling, Handled, Phase
  <2> QED BY <2>1, <2>2
<1>8. CASE ReceivedCheck
  <2>1. PICK node \in Nodes : current = {node}
    BY <1>8 DEF ReceivedCheck, IInv, TypeOK
  <2>2. node \in Waiting
    BY <1>8, <2>1 DEF ReceivedCheck, Waiting
  <2>3. Waiting' = Waiting \ {node} /\ Handling = {}
        /\ UNCHANGED <<open, Handled, Phase>> /\ Phase = "serving"
    BY <1>8, <2>1
    DEF ReceivedCheck, Waiting, Handling, Handled, Phase, IInv, Apart
  <2>4. CASE open
    <3>1. Handling' = {node}
      BY <1>8, <2>1, <2>4 DEF ReceivedCheck, Handling
    <3> QED BY <2>2, <2>3, <2>4, <3>1 DEF Abstract!Next, Abstract!Take
  <2>5. CASE ~open
    <3>1. Handling' = {}
      BY <1>8, <2>5 DEF ReceivedCheck, Handling
    <3> QED BY <2>2, <2>3, <2>5, <3>1 DEF Abstract!Next, Abstract!Drop
  <2> QED BY <2>4, <2>5
<1>9. CASE Execute
  <2>1. PICK node \in Nodes : current = {node}
    BY <1>9 DEF Execute, IInv, TypeOK
  <2>2. executed' = Append(executed, node) /\ current' = {}
        /\ pump' \in {"failed", "looping"} /\ pump = "executing"
    BY <1>9, <2>1 DEF Execute
  <2>3. Handled' = Handled \cup {node}
    BY <2>2, AppendElements DEF IInv, TypeOK, Handled
  <2>4. Handling = {node} /\ Handling' = {} /\ Waiting' = Waiting
        /\ Phase' \in {"serving", "ended"} /\ open' = open
    BY <1>9, <2>1, <2>2 DEF Execute, Handling, Waiting, Phase
  <2> QED BY <2>3, <2>4 DEF Abstract!Next, Abstract!Handle
<1>10. CASE CleanUp
  <2>1. ~open /\ Phase = "serving" /\ Phase' = "ended" /\ Handling = {}
        /\ UNCHANGED <<open, Waiting, Handling, Handled>>
    BY <1>10 DEF CleanUp, Waiting, Handling, Handled, Phase, IInv
  <2> QED BY <2>1 DEF Abstract!Next, Abstract!Finish
<1>11. CASE Close
  <2>1. open' = FALSE /\ UNCHANGED <<Waiting, Handling, Handled, Phase>>
    BY <1>11 DEF Close, Waiting, Handling, Handled, Phase, Receiving
  <2> QED BY <2>1 DEF Abstract!Next, Abstract!Close
<1>12. CASE UNCHANGED vars
  BY <1>12 DEF vars, Abstract!vars, Waiting, Handling, Handled, Phase
<1> QED
  BY <1>1, <1>2, <1>3, <1>4, <1>5, <1>6, <1>7, <1>8, <1>9, <1>10, <1>11, <1>12
  DEF Next, ProcessChannel

\* The channel, the overflow coroutines and ProcessChannel implement the
\* mailbox: at most once, one at a time, nothing taken up after the close.
THEOREM MailboxImplemented == Spec => ImplementsMailbox
<1>1. Init => Abstract!Init
  <2> SUFFICES ASSUME Init PROVE Abstract!Init
    OBVIOUS
  <2>1. ElementsOf(queue) = {} /\ ElementsOf(executed) = {}
    BY DEF Init, ElementsOf
  <2> QED BY <2>1 DEF Init, Abstract!Init, Waiting, Handling, Handled, Phase
<1> QED
  BY <1>1, MailboxStep, Invariance, PTL
  DEF Spec, ImplementsMailbox, Abstract!Spec
----------------------------------------------------------------------------
\* What the places hold together: every pushed node is in one of them, none
\* is executed twice, and nothing is lost as long as the channel is open.
Complete ==
    /\ Pushed \subseteq pushing \cup spawned \cup ElementsOf(queue) \cup current
                          \cup ElementsOf(executed) \cup lost
    /\ Injective(executed)
    /\ lost # {} => ~open

LEMMA InjectiveCardinality ==
    ASSUME NEW S, NEW s \in Seq(S), Injective(s)
    PROVE  Cardinality(ElementsOf(s)) = Len(s)
<1> DEFINE f == [i \in 1 .. Len(s) |-> s[i]]
<1>1. f \in Bijection(1 .. Len(s), ElementsOf(s))
  <2>1. f \in [1 .. Len(s) -> ElementsOf(s)]
    BY DEF ElementsOf
  <2>2. IsInjective(f)
    BY DEF IsInjective, Injective
  <2>3. \A x \in ElementsOf(s) : \E i \in 1 .. Len(s) : f[i] = x
    BY DEF ElementsOf
  <2> QED BY <2>1, <2>2, <2>3 DEF Bijection, Injection, Surjection
<1>2. ExistsBijection(1 .. Len(s), ElementsOf(s)) /\ Len(s) \in Nat
  BY <1>1 DEF ExistsBijection
<1> QED BY <1>2, FS_CountingElements

\* Sending moves a node from where it was into the channel.
LEMMA SendLosesNone ==
    ASSUME IInv, Complete, NEW node \in pushing \cup spawned, open,
           Enqueue(node),
           pushing' = pushing \ {node}, spawned' = spawned \ {node},
           UNCHANGED <<open, count, executed, lost>>
    PROVE  Complete'
<1>1. node \in Nodes /\ node \notin ElementsOf(queue)
  BY DEF IInv, TypeOK, Apart
<1>2. Pushed' = Pushed
  BY DEF Pushed
<1>3. ElementsOf(queue') \cup current' = ElementsOf(queue) \cup current \cup {node}
  BY <1>1, EnqueueEffect
<1> QED BY <1>2, <1>3 DEF Complete

LEMMA CompleteStep == IInv /\ Complete /\ [Next]_vars => Complete'
<1> SUFFICES ASSUME IInv, Complete, [Next]_vars PROVE Complete'
  OBVIOUS
<1>1. ASSUME NEW s \in Senders, PushCheck(s) PROVE Complete'
  <2> DEFINE node == <<s, count[s] + 1>>
  <2>1. pushing' = pushing \cup {node}
    BY <1>1 DEF PushCheck
  <2>2. ASSUME NEW m \in Pushed' PROVE m \in Pushed \cup {node}
    <3>1. m \in Nodes /\ m = <<m[1], m[2]>> /\ m[1] \in Senders /\ m[2] \in Nat
      BY DEF Pushed, Nodes
    <3>2. m[2] <= count'[m[1]] /\ count \in [Senders -> 0 .. MaxPushes]
      BY DEF Pushed, IInv, TypeOK
    <3>3. CASE m[1] = s
      <4>1. m[2] <= count[s] + 1 /\ count[s] \in Nat
        BY <1>1, <3>2, <3>3, MaxPushesAssumption DEF PushCheck
      <4>2. m[2] <= count[s] \/ m[2] = count[s] + 1
        BY <3>1, <4>1
      <4> QED BY <3>1, <3>3, <4>2 DEF Pushed
    <3>4. CASE m[1] # s
      BY <1>1, <3>1, <3>2, <3>4 DEF PushCheck, Pushed
    <3> QED BY <3>3, <3>4
  <2> QED BY <1>1, <2>1, <2>2 DEF PushCheck, Complete
<1>2. ASSUME NEW node \in Nodes, TrySend(node) PROVE Complete'
  <2>1. spawned' = spawned \ {node} /\ node \in pushing
    BY <1>2 DEF TrySend, IInv, Apart
  <2> QED BY <1>2, <2>1, SendLosesNone DEF TrySend, Accepts
<1>3. ASSUME NEW node \in Nodes, Spill(node) PROVE Complete'
  BY <1>3 DEF Spill, Complete, Pushed
<1>4. ASSUME NEW node \in Nodes, OverflowSend(node) PROVE Complete'
  <2>1. CASE open
    <3>1. pushing' = pushing \ {node} /\ node \in spawned
      BY <1>4 DEF OverflowSend, IInv, Apart
    <3> QED BY <1>4, <2>1, <3>1, SendLosesNone DEF OverflowSend
  <2>2. CASE ~open
    BY <1>4, <2>2 DEF OverflowSend, Complete, Pushed
  <2> QED BY <2>1, <2>2
<1>5. CASE Receive
  <2>1. queue \in Seq(Nodes) /\ Injective(queue) /\ current = {}
    BY <1>5 DEF Receive, IInv, TypeOK
  <2>2. ElementsOf(queue') \cup current' = ElementsOf(queue)
    BY <1>5, <2>1, TailElements, ZenonT(60) DEF Receive
  <2>3. UNCHANGED <<open, spawned, count, pushing, executed, lost>>
    BY <1>5 DEF Receive
  <2> QED BY <2>1, <2>2, <2>3 DEF Complete, Pushed
<1>6. CASE ReceivedCheck
  BY <1>6 DEF ReceivedCheck, Complete, Pushed
<1>7. CASE Execute
  <2>1. PICK node \in Nodes : current = {node}
    BY <1>7 DEF Execute, IInv, TypeOK
  <2>2. executed' = Append(executed, node) /\ current' = {}
    BY <1>7, <2>1 DEF Execute
  <2>3. ElementsOf(executed') = ElementsOf(executed) \cup {node}
        /\ Injective(executed')
    BY <2>1, <2>2, AppendElements DEF IInv, TypeOK, Apart, Complete
  <2> QED BY <1>7, <2>1, <2>2, <2>3 DEF Execute, Complete, Pushed
<1>8. CASE Spawn \/ LoopCheck \/ CleanUp \/ Close \/ UNCHANGED vars
  BY <1>8 DEF Spawn, LoopCheck, CleanUp, Close, vars, Complete, Pushed
<1> QED
  BY <1>1, <1>2, <1>3, <1>4, <1>5, <1>6, <1>7, <1>8 DEF Next, ProcessChannel

\* A pushed node is in exactly one place, whatever the copies Push* makes, and
\* only a closed channel loses any.
THEOREM NodesAreInOnePlace == Spec => []InOnePlace
<1>1. Init => Complete
  <2> SUFFICES ASSUME Init PROVE Complete
    OBVIOUS
  <2>1. Pushed = {}
    BY DEF Init, Pushed, Nodes
  <2>2. Injective(executed) /\ lost = {}
    BY DEF Init, Injective
  <2> QED BY <2>1, <2>2 DEF Complete
<1>2. ASSUME IInv, Complete PROVE InOnePlace
  <2> DEFINE places == <<pushing, spawned, ElementsOf(queue), current,
                         ElementsOf(executed), lost>>
  <2>1. UNION {places[i] : i \in 1 .. 6}
        = pushing \cup spawned \cup ElementsOf(queue) \cup current
          \cup ElementsOf(executed) \cup lost
    <3>1. 1 .. 6 = {1, 2, 3, 4, 5, 6}
      OBVIOUS
    <3>2. {places[i] : i \in 1 .. 6}
          = {pushing, spawned, ElementsOf(queue), current, ElementsOf(executed), lost}
      BY <3>1
    <3> QED BY <3>2
  <2>2. ASSUME NEW i \in 1 .. 6, NEW j \in 1 .. 6, i # j
        PROVE places[i] \cap places[j] = {}
    <3>1. \A k \in 1 .. 6 : k = 1 \/ k = 2 \/ k = 3 \/ k = 4 \/ k = 5 \/ k = 6
      OBVIOUS
    <3> QED BY <1>2, <2>2, <3>1 DEF IInv, Apart
  <2>3. Cardinality(ElementsOf(queue)) = Len(queue)
        /\ Cardinality(ElementsOf(executed)) = Len(executed)
    BY <1>2, InjectiveCardinality DEF IInv, TypeOK, Complete
  <2>4. Pushed = UNION {places[i] : i \in 1 .. 6}
    BY <1>2, <2>1 DEF IInv, PlacesPushed, Complete
  <2> QED BY <1>2, <2>2, <2>3, <2>4 DEF InOnePlace, Complete
<1> QED
  BY <1>1, <1>2, CompleteStep, Invariance, PTL DEF Spec
----------------------------------------------------------------------------
\* early was pushed by the sender of late, before it, and found the channel
\* open and not full.
MustPrecede(early, late) ==
    early[1] = late[1] /\ early[2] < late[2] /\ early \notin overflown

\* Nothing that has gone further than a node was to come behind it; and a
\* sender is at its last node, if at any.
Ordered ==
    /\ \A node \in pushing : node[2] = count[node[1]]
    /\ spawned \subseteq overflown
    /\ \A i, j \in 1 .. Len(queue) : i < j => ~MustPrecede(queue[j], queue[i])
    /\ \A early \in ElementsOf(queue), late \in current \cup ElementsOf(executed) :
        ~MustPrecede(early, late)
    /\ \A early \in current, late \in ElementsOf(executed) : ~MustPrecede(early, late)
    /\ \A i, j \in 1 .. Len(executed) : i < j => ~MustPrecede(executed[j], executed[i])

\* A node that is sent is the last one of its sender, or has found the channel
\* full before.
LEMMA SentIsNotAwaited ==
    ASSUME IInv, Ordered, NEW node \in pushing \cup spawned, NEW late \in Pushed
    PROVE  ~MustPrecede(node, late)
<1>1. node \in Nodes /\ late \in Nodes /\ late[2] <= count[late[1]]
  BY DEF IInv, TypeOK, Pushed
<1>2. late[1] \in Senders /\ late[2] \in Nat /\ node[2] \in Nat
      /\ count[late[1]] \in Nat
  BY <1>1, MaxPushesAssumption DEF Nodes, IInv, TypeOK
<1>3. CASE node \in pushing
  BY <1>1, <1>2, <1>3 DEF Ordered, MustPrecede
<1>4. CASE node \in spawned
  BY <1>4 DEF Ordered, MustPrecede
<1> QED BY <1>3, <1>4

\* At the end of the queue or with the receive that waits, nobody is overtaken.
LEMMA SendOrdered ==
    ASSUME IInv, Ordered, NEW node \in pushing \cup spawned,
           Enqueue(node),
           pushing' = pushing \ {node}, spawned' = spawned \ {node},
           UNCHANGED <<count, executed, overflown>>
    PROVE  Ordered'
<1>1. node \in Nodes /\ node \notin ElementsOf(queue) /\ queue \in Seq(Nodes)
  BY DEF IInv, TypeOK, Apart
<1>2. \A late \in ElementsOf(queue) \cup current \cup ElementsOf(executed) :
        ~MustPrecede(node, late)
  BY SentIsNotAwaited DEF IInv, PlacesPushed
<1>3. \A a, b : MustPrecede(a, b)' <=> MustPrecede(a, b)
  BY DEF MustPrecede
<1>4. CASE Receiving
  <2>1. queue = <<>> /\ queue' = <<>> /\ current' = {node}
    BY <1>4 DEF Enqueue, IInv, IdleOnlyIfEmpty
  <2>2. ElementsOf(queue') = {} /\ Len(queue') = 0
    BY <2>1 DEF ElementsOf
  <2> QED BY <1>2, <1>3, <2>1, <2>2 DEF Ordered
<1>5. CASE ~Receiving
  <2>1. queue' = Append(queue, node) /\ current' = current
    BY <1>5 DEF Enqueue
  <2>2. ElementsOf(queue') = ElementsOf(queue) \cup {node}
    BY <1>1, <2>1, AppendElements
  <2>3. ASSUME NEW i \in 1 .. Len(queue'), NEW j \in 1 .. Len(queue'), i < j
        PROVE  ~MustPrecede(queue'[j], queue'[i])
    <3>1. Len(queue') = Len(queue) + 1 /\ i \in 1 .. Len(queue)
          /\ queue'[i] = queue[i] /\ queue[i] \in ElementsOf(queue)
      BY <1>1, <2>1, <2>3 DEF ElementsOf
    <3>2. CASE j \in 1 .. Len(queue)
      <4>1. queue'[j] = queue[j]
        BY <1>1, <2>1, <3>2
      <4> QED BY <2>3, <3>1, <3>2, <4>1 DEF Ordered
    <3>3. CASE j = Len(queue) + 1
      <4>1. queue'[j] = node
        BY <1>1, <2>1, <3>3
      <4> QED BY <1>2, <3>1, <4>1
    <3> QED BY <3>1, <3>2, <3>3, <2>3
  <2>4. \A e \in current, l \in {node} \cup ElementsOf(executed) :
          e \in current' /\ l \in ElementsOf(executed) => ~MustPrecede(e, l)
    BY DEF Ordered
  <2> QED BY <1>2, <1>3, <2>1, <2>2, <2>3, <2>4 DEF Ordered
<1> QED BY <1>4, <1>5

LEMMA OrderedStep == IInv /\ Ordered /\ [Next]_vars => Ordered'
<1> SUFFICES ASSUME IInv, Ordered, [Next]_vars PROVE Ordered'
  OBVIOUS
<1>1. ASSUME NEW s \in Senders, PushCheck(s) PROVE Ordered'
  <2> DEFINE node == <<s, count[s] + 1>>
  <2>1. pushing' = pushing \cup {node} /\ count' = [count EXCEPT ![s] = @ + 1]
        /\ <<s, count[s]>> \notin pushing /\ count \in [Senders -> 0 .. MaxPushes]
    BY <1>1 DEF PushCheck, IInv, TypeOK
  <2>2. ASSUME NEW m \in pushing' PROVE m[2] = count'[m[1]]
    <3>1. CASE m = node
      BY <2>1, <3>1
    <3>2. CASE m \in pushing
      <4>1. m = <<m[1], m[2]>> /\ m[1] \in Senders /\ m[2] = count[m[1]]
        BY <3>2 DEF IInv, TypeOK, Nodes, Ordered
      <4>2. m[1] # s
        BY <2>1, <3>2, <4>1
      <4> QED BY <2>1, <4>1, <4>2
    <3> QED BY <2>1, <3>1, <3>2
  <2> QED BY <1>1, <2>2 DEF PushCheck, Ordered, MustPrecede
<1>2. ASSUME NEW node \in Nodes, TrySend(node) PROVE Ordered'
  <2>1. spawned' = spawned \ {node} /\ node \in pushing
    BY <1>2 DEF TrySend, IInv, Apart
  <2> QED BY <1>2, <2>1, SendOrdered DEF TrySend
<1>3. ASSUME NEW node \in Nodes, Spill(node) PROVE Ordered'
  BY <1>3 DEF Spill, Ordered, MustPrecede
<1>4. ASSUME NEW node \in Nodes, OverflowSend(node) PROVE Ordered'
  <2>1. CASE open
    <3>1. pushing' = pushing \ {node} /\ node \in spawned
      BY <1>4 DEF OverflowSend, IInv, Apart
    <3> QED BY <1>4, <2>1, <3>1, SendOrdered DEF OverflowSend
  <2>2. CASE ~open
    BY <1>4, <2>2 DEF OverflowSend, Ordered, MustPrecede
  <2> QED BY <2>1, <2>2
<1>5. CASE Receive /\ queue = <<>>
  BY <1>5 DEF Receive, Ordered, MustPrecede
<1>6. CASE Receive /\ queue # <<>>
  <2>1. queue \in Seq(Nodes) /\ Injective(queue)
    BY DEF IInv, TypeOK
  <2>2. queue' = Tail(queue) /\ current' = {Head(queue)}
    BY <1>6 DEF Receive
  <2>3. /\ ElementsOf(queue') \subseteq ElementsOf(queue)
        /\ Head(queue) \in ElementsOf(queue) /\ Head(queue) = queue[1]
        /\ Len(queue) \in Nat \ {0} /\ Len(queue') = Len(queue) - 1
        /\ \A i \in 1 .. Len(queue') : queue'[i] = queue[i + 1]
    BY <1>6, <2>1, <2>2, TailElements
  <2>4. ASSUME NEW early \in ElementsOf(queue') PROVE ~MustPrecede(early, Head(queue))
    <3>1. PICK i \in 1 .. Len(queue') : early = queue[i + 1]
      BY <2>3 DEF ElementsOf
    <3>2. 1 \in 1 .. Len(queue) /\ i + 1 \in 1 .. Len(queue) /\ 1 < i + 1
      BY <2>3
    <3> QED BY <2>3, <3>1, <3>2 DEF Ordered
  <2>5. ASSUME NEW i \in 1 .. Len(queue'), NEW j \in 1 .. Len(queue'), i < j
        PROVE  ~MustPrecede(queue'[j], queue'[i])
    <3>1. i + 1 \in 1 .. Len(queue) /\ j + 1 \in 1 .. Len(queue) /\ i + 1 < j + 1
      BY <2>3, <2>5
    <3> QED BY <2>3, <3>1 DEF Ordered
  <2>6. UNCHANGED <<pushing, spawned, count, executed, overflown>>
    BY <1>6 DEF Receive
  <2>7. \A a, b : MustPrecede(a, b)' <=> MustPrecede(a, b)
    BY <2>6 DEF MustPrecede
  <2> QED BY <2>2, <2>3, <2>4, <2>5, <2>6, <2>7 DEF Ordered
<1>7. CASE ReceivedCheck
  BY <1>7 DEF ReceivedCheck, Ordered, MustPrecede
<1>8. CASE Execute
  <2>1. PICK node \in Nodes : current = {node}
    BY <1>8 DEF Execute, IInv, TypeOK
  <2>2. executed' = Append(executed, node) /\ current' = {}
        /\ UNCHANGED <<pushing, spawned, count, queue, overflown>>
    BY <1>8, <2>1 DEF Execute
  <2>3. executed \in Seq(Nodes)
        /\ ElementsOf(executed') = ElementsOf(executed) \cup {node}
    BY <2>2, AppendElements DEF IInv, TypeOK
  <2>4. ASSUME NEW i \in 1 .. Len(executed'), NEW j \in 1 .. Len(executed'), i < j
        PROVE  ~MustPrecede(executed'[j], executed'[i])
    <3>1. Len(executed') = Len(executed) + 1 /\ i \in 1 .. Len(executed)
          /\ executed'[i] = executed[i] /\ executed[i] \in ElementsOf(executed)
      BY <2>2, <2>3, <2>4 DEF ElementsOf
    <3>2. CASE j \in 1 .. Len(executed)
      <4>1. executed'[j] = executed[j]
        BY <2>2, <2>3, <3>2
      <4> QED BY <2>4, <3>1, <3>2, <4>1 DEF Ordered
    <3>3. CASE j = Len(executed) + 1
      <4>1. executed'[j] = node
        BY <2>2, <2>3, <3>3
      <4> QED BY <2>1, <3>1, <4>1 DEF Ordered
    <3> QED BY <3>1, <3>2, <3>3, <2>4
  <2>5. \A a, b : MustPrecede(a, b)' <=> MustPrecede(a, b)
    BY <2>2 DEF MustPrecede
  <2> QED BY <2>1, <2>2, <2>3, <2>4, <2>5 DEF Ordered
<1>9. CASE Spawn \/ LoopCheck \/ CleanUp \/ Close \/ UNCHANGED vars
  BY <1>9 DEF Spawn, LoopCheck, CleanUp, Close, vars, Ordered, MustPrecede
<1> QED
  BY <1>1, <1>2, <1>3, <1>4, <1>5, <1>6, <1>7, <1>8, <1>9
  DEF Next, ProcessChannel

\* A handler sees the nodes of one sender in the order they were pushed, except
\* that one which found the channel full may come late.
THEOREM OrderIsLostByOverflowOnly == Spec => []OvertakenOnlyByOverflow
<1>1. Init => Ordered
  BY DEF Init, Ordered, ElementsOf
<1>2. IInv /\ Ordered => OvertakenOnlyByOverflow
  BY DEF Ordered, MustPrecede, OvertakenOnlyByOverflow
<1> QED
  BY <1>1, <1>2, OrderedStep, Invariance, PTL DEF Spec

----------------------------------------------------------------------------
\* Routing: who has an id.

\* The services whose id nobody else may get: initialised and not refused, in
\* BootService, registered, or taken from the map by a shutdown that has not
\* given the id back.
Owns(a) ==
    \/ mState[a] = "INITIALIZED" /\ channelOpen[a]
    \/ a \in booting
    \/ Registered(a)
    \/ stopping[a] = "name"

\* An id in use belongs to one of them only.
IdsAreOwned ==
    /\ \A a \in Agents : Owns(a) => mServiceID[a] \in issued
    /\ \A a, b \in Agents : Owns(a) /\ Owns(b) /\ mServiceID[a] = mServiceID[b] => a = b

IdsByState ==
    \A a \in Agents :
        /\ mState[a] = "RUNNING" => mServiceID[a] \in Ids
        /\ mState[a] = "TERMINATED" => mServiceID[a] = INVALID_SERVICE_ID

\* The map of ids leads to services that run under the id they are in.  (The map
\* of names may lead to an id that another service has, or nobody.)
MapsLeadToOwners ==
    /\ \A i \in Ids : \A b \in Agents : mServiceMap[i] = b =>
        /\ mServiceID[b] = i /\ mState[b] = "RUNNING" /\ channelOpen[b]
        /\ b \notin booting /\ stopping[b] = "no"
    /\ \A a \in booting : stopping[a] = "no"
    /\ \A a \in Agents : a \in booting \/ stopping[a] # "no" =>
        mState[a] = "RUNNING" /\ channelOpen[a]

RegistryInv == RoutingTypeOK /\ IdsAreOwned /\ IdsByState /\ MapsLeadToOwners

----------------------------------------------------------------------------
\* Routing: where an item is.

InMailbox(b, m) == \E k \in 1 .. Len(mailbox[b]) : mailbox[b][k] = m
InCall(a, m) == call[a].at # "idle" /\ call[a].item = m
Pushing(a, b, m) == InCall(a, m) /\ call[a].at = "push" /\ call[a].to = b
Addressing(a, b, m) == InCall(a, m) /\ call[a].at = "address" /\ call[a].to = b

\* m has been given to b, which has not handled it yet, or is about to be.
OnItsWay(b, m) == InMailbox(b, m) \/ \E a \in Agents : Pushing(a, b, m)

\* A call is one of the sender, about where something is.
CallsAreTheSenders ==
    \A a \in Agents : call[a].at # "idle" =>
        /\ mState[a] = "RUNNING"
        /\ call[a].item \in Items /\ sender[call[a].item] = a
        /\ call[a].at = "agent" => call[a].to \in Ids
        /\ call[a].at # "agent" => call[a].to \in Agents
        /\ call[a].at = "address" => call[a].item \in Packages

Nowhere(m) ==
    /\ \A b \in Agents : ~InMailbox(b, m)
    /\ handled[m] = Unhandled

\* What was not posted is nowhere; what was posted once is in one kind of
\* place.
PostedBefore(m) ==
    /\ sender[m] = None => posts[m] = 0
    /\ posts[m] = 0 =>
        /\ target[m] = PLAYER_TARGET_ID /\ Nowhere(m)
        /\ \A a \in Agents : ~InCall(a, m)
    /\ posts[m] = 1 /\ (\E a \in Agents : InCall(a, m)) => Nowhere(m)

\* A sender keeps its id until it is gone.
SenderKeepsItsId(m) ==
    sender[m] # None =>
        /\ source[m] \in Ids
        /\ mState[sender[m]] \in {"RUNNING", "TERMINATED"}
        /\ mServiceID[sender[m]] \in {source[m], INVALID_SERVICE_ID}

\* m is for b: it shows the id of b, if it shows one and b still has one.
For(b, m) ==
    \/ target[m] = mServiceID[b]
    \/ mState[b] = "TERMINATED"
    \/ m \in Tasks /\ target[m] = PLAYER_TARGET_ID

\* What is posted once is on its way to a service it is for; a task never has an
\* address before.
OnTheRightWay(m) == posts[m] = 1 =>
    /\ \A a \in Agents : InCall(a, m) /\ call[a].at = "agent" =>
        (m \in Tasks => target[m] = PLAYER_TARGET_ID)
    /\ \A a, b \in Agents : Addressing(a, b, m) => mState[b] \in {"RUNNING", "TERMINATED"}
    /\ \A b \in Agents : OnItsWay(b, m) =>
        mState[b] \in {"RUNNING", "TERMINATED"} /\ For(b, m)

\* HandledByItsTarget, of one item.
HandledRight(m) ==
    handled[m] # Unhandled /\ posts[m] = 1 =>
        \/ handled[m].target = handled[m].sid
        \/ m \in Tasks /\ handled[m].target = PLAYER_TARGET_ID

\* While the service that asked has its id, an answer that shows that id has
\* found no other.
NobodyElseAnswers(m) == LET q == answers[m] IN q # None =>
    /\ sender[q] # None /\ sender[m] # None
    /\ posts[m] = 1 /\ Owns(sender[q]) =>
        \A b \in Agents \ {sender[q]} :
            /\ \A a \in Agents : Addressing(a, b, m) => mServiceID[b] # source[q]
            /\ OnItsWay(b, m) => target[m] # source[q]
            /\ handled[m].by = b => handled[m].target # source[q]

ItemOK(m) ==
    /\ PostedBefore(m)
    /\ SenderKeepsItsId(m)
    /\ OnTheRightWay(m)
    /\ HandledRight(m)
    /\ m \in Packages => NobodyElseAnswers(m)

\* The inductive invariant.
RoutingInv ==
    /\ RegistryInv
    /\ CallsAreTheSenders
    /\ \A m \in Items : ItemOK(m)

----------------------------------------------------------------------------
LEMMA RegistryInvInit == RoutingInit => RegistryInv
  BY NoneAssumption
  DEF RoutingInit, RegistryInv, RoutingTypeOK, IdsAreOwned, IdsByState,
      MapsLeadToOwners, Owns, Registered, Ids, PLAYER_TARGET_ID, INVALID_SERVICE_ID,
      Idle, Unhandled, Targets, CallStates, Handlings

\* A step that does not touch the services' states, ids and places.
LEMMA ServicesUntouched ==
    ASSUME RegistryInv, RoutingTypeOK', UNCHANGED <<services, registry>>
    PROVE  RegistryInv'
  BY DEF RegistryInv, IdsAreOwned, IdsByState, MapsLeadToOwners, Owns,
         Registered, services, registry

LEMMA InitialKeepsRegistry ==
    ASSUME RegistryInv, NEW a \in Agents, Initial(a), RoutingTypeOK'
    PROVE  RegistryInv'
<1> USE DEF RegistryInv
<1>1. PICK i \in Ids \ issued :
        /\ mServiceID' = [mServiceID EXCEPT ![a] = i]
        /\ issued' = issued \cup {i}
  BY DEF Initial
<1>2. /\ mState[a] = "CREATED" /\ mState' = [mState EXCEPT ![a] = "INITIALIZED"]
      /\ UNCHANGED <<channelOpen, booting, stopping, mServiceMap, mServiceNameMap>>
  BY DEF Initial
<1>3. \A b \in Agents : b # a =>
        mServiceID'[b] = mServiceID[b] /\ mState'[b] = mState[b] /\ (Owns(b)' <=> Owns(b))
  BY <1>1, <1>2 DEF RoutingTypeOK, Owns, Registered
<1>4. mServiceID'[a] = i /\ mState'[a] = "INITIALIZED"
  BY <1>1, <1>2 DEF RoutingTypeOK
<1>5. IdsAreOwned'
  BY <1>1, <1>3, <1>4 DEF IdsAreOwned
<1>6. IdsByState'
  BY <1>3, <1>4 DEF IdsByState
<1>7. MapsLeadToOwners'
  <2>1. \A b \in Agents : mState[b] = "RUNNING" => b # a
    BY <1>2
  <2> QED BY <1>2, <1>3, <2>1 DEF MapsLeadToOwners, RoutingTypeOK
<1> QED BY <1>5, <1>6, <1>7

LEMMA BootKeepsRegistry ==
    ASSUME RegistryInv, NEW a \in Agents, BootService(a), RoutingTypeOK'
    PROVE  RegistryInv'
<1> USE DEF RegistryInv
<1>1. /\ mState[a] = "INITIALIZED" /\ channelOpen[a] /\ Owns(a)
      /\ UNCHANGED <<mServiceID, stopping, mServiceMap, mServiceNameMap>>
  BY DEF BootService, Owns
<1>2. ~Registered(a) /\ a \notin booting /\ stopping[a] = "no"
  BY <1>1 DEF MapsLeadToOwners, Registered
<1>3. CASE mServiceNameMap[NameOf[a]] = None
  <2>1. /\ mState' = [mState EXCEPT ![a] = "RUNNING"] /\ booting' = booting \cup {a}
        /\ UNCHANGED <<issued, channelOpen>>
    BY <1>3 DEF BootService
  <2>2. \A b \in Agents : Owns(b)' <=> Owns(b)
    BY <1>1, <2>1 DEF Owns, Registered, RoutingTypeOK
  <2>3. IdsAreOwned'
    BY <1>1, <2>1, <2>2 DEF IdsAreOwned
  <2>4. mServiceID[a] \in Ids
    BY <1>1 DEF IdsAreOwned, RoutingTypeOK
  <2>5. IdsByState'
    BY <1>1, <2>1, <2>4 DEF IdsByState, RoutingTypeOK
  <2>6. MapsLeadToOwners'
    BY <1>1, <1>2, <2>1 DEF MapsLeadToOwners, Registered, RoutingTypeOK
  <2> QED BY <2>3, <2>5, <2>6
<1>4. CASE mServiceNameMap[NameOf[a]] # None
  <2>1. /\ issued' = issued \ {mServiceID[a]}
        /\ channelOpen' = [channelOpen EXCEPT ![a] = FALSE]
        /\ UNCHANGED <<mState, booting>>
    BY <1>4 DEF BootService
  <2>2. \A b \in Agents : Owns(b)' <=> Owns(b) /\ b # a
    BY <1>1, <1>2, <2>1 DEF Owns, Registered, RoutingTypeOK
  <2>3. IdsAreOwned'
    BY <1>1, <2>1, <2>2 DEF IdsAreOwned
  <2>4. IdsByState'
    BY <1>1, <2>1 DEF IdsByState
  <2>5. MapsLeadToOwners'
    BY <1>1, <1>2, <2>1 DEF MapsLeadToOwners, Registered, RoutingTypeOK
  <2> QED BY <2>3, <2>4, <2>5
<1> QED BY <1>3, <1>4

LEMMA RegisterKeepsRegistry ==
    ASSUME RegistryInv, NEW a \in Agents, Register(a), RoutingTypeOK'
    PROVE  RegistryInv'
<1> USE DEF RegistryInv
<1>1. /\ a \in booting /\ booting' = booting \ {a}
      /\ mServiceMap' = [mServiceMap EXCEPT ![mServiceID[a]] = a]
      /\ mServiceNameMap' = [mServiceNameMap EXCEPT ![NameOf[a]] = mServiceID[a]]
      /\ UNCHANGED <<mState, mServiceID, channelOpen, stopping, issued>>
  BY DEF Register
<1>2. /\ mState[a] = "RUNNING" /\ channelOpen[a] /\ stopping[a] = "no"
      /\ mServiceID[a] \in Ids /\ Owns(a) /\ a # None
  BY <1>1, NoneAssumption DEF MapsLeadToOwners, IdsByState, Owns
<1>3. mServiceMap[mServiceID[a]] = None
  <2>1. ASSUME NEW b \in Agents, mServiceMap[mServiceID[a]] = b
        PROVE  FALSE
    <3>1. mServiceID[b] = mServiceID[a] /\ b \notin booting /\ Owns(b)
      BY <1>2, <2>1 DEF MapsLeadToOwners, Owns, Registered
    <3> QED BY <1>1, <1>2, <3>1 DEF IdsAreOwned
  <2> QED BY <1>2, <2>1 DEF RoutingTypeOK
<1>4. \A i \in Ids : mServiceMap'[i] = IF i = mServiceID[a] THEN a ELSE mServiceMap[i]
  BY <1>1 DEF RoutingTypeOK
<1>5. ASSUME NEW b \in Agents PROVE Owns(b)' <=> Owns(b)
  <2>1. ASSUME NEW i \in Ids PROVE mServiceMap'[i] = b <=> mServiceMap[i] = b \/ (b = a /\ i = mServiceID[a])
    BY <1>2, <1>3, <1>4, NoneAssumption
  <2>2. Registered(b)' <=> Registered(b) \/ b = a
    BY <1>2, <2>1 DEF Registered
  <2> QED BY <1>1, <1>2, <2>2 DEF Owns
<1>6. IdsAreOwned' /\ IdsByState'
  BY <1>1, <1>5 DEF IdsAreOwned, IdsByState
<1>7. MapsLeadToOwners'
  <2>1. ASSUME NEW i \in Ids, NEW b \in Agents, mServiceMap'[i] = b
        PROVE  /\ mServiceID'[b] = i /\ mState'[b] = "RUNNING" /\ channelOpen'[b]
               /\ b \notin booting' /\ stopping'[b] = "no"
    BY <1>1, <1>2, <1>4, <2>1 DEF MapsLeadToOwners
  <2>2. /\ \A b \in booting' : stopping'[b] = "no"
        /\ \A b \in Agents : b \in booting' \/ stopping'[b] # "no" =>
            mState'[b] = "RUNNING" /\ channelOpen'[b]
    BY <1>1 DEF MapsLeadToOwners
  <2> QED BY <2>1, <2>2 DEF MapsLeadToOwners
<1> QED BY <1>6, <1>7

\* An agent leaves the map of ids: it owns its id until that is given back.
LEMMA LeavingKeepsRegistry ==
    ASSUME RegistryInv, RoutingTypeOK', NEW i \in Ids, NEW a \in Agents,
           mServiceMap[i] = a,
           mServiceMap' = [mServiceMap EXCEPT ![i] = None],
           UNCHANGED <<mState, mServiceID, channelOpen, booting>>,
           \/ /\ stopping' = [stopping EXCEPT ![a] = "name"]
              /\ UNCHANGED issued
           \/ /\ stopping' = [stopping EXCEPT ![a] = "stop"]
              /\ issued' = issued \ {i}
    PROVE  RegistryInv' /\ \A b \in Agents : Owns(b)' => Owns(b)
<1> USE DEF RegistryInv
<1>1. /\ mServiceID[a] = i /\ Owns(a) /\ i \in issued
      /\ mState[a] = "RUNNING" /\ channelOpen[a] /\ a \notin booting
  BY DEF Owns, Registered, MapsLeadToOwners, IdsAreOwned
<1>2. \A k \in Ids : mServiceMap'[k] = IF k = i THEN None ELSE mServiceMap[k]
  BY DEF RoutingTypeOK
<1>3. \A b \in Agents : Registered(b)' <=> Registered(b) /\ b # a
  BY <1>1, <1>2, NoneAssumption DEF Registered, MapsLeadToOwners
<1>4. \A b \in Agents : b # a => (Owns(b)' <=> Owns(b)) /\ stopping'[b] = stopping[b]
  BY <1>3 DEF Owns, RoutingTypeOK
<1>5. \A b \in Agents : Owns(b)' => Owns(b)
  BY <1>1, <1>4
<1>6. IdsAreOwned'
  <2>1. CASE UNCHANGED issued
    BY <1>5, <2>1 DEF IdsAreOwned
  <2>2. CASE stopping' = [stopping EXCEPT ![a] = "stop"] /\ issued' = issued \ {i}
    <3>1. ~Owns(a)'
      BY <1>1, <1>3, <2>2 DEF Owns, RoutingTypeOK
    <3> QED BY <1>1, <1>5, <2>2, <3>1 DEF IdsAreOwned
  <2> QED BY <2>1, <2>2
<1>7. IdsByState'
  BY DEF IdsByState
<1>8. MapsLeadToOwners'
  <2>1. ASSUME NEW k \in Ids, NEW b \in Agents, mServiceMap'[k] = b
        PROVE  /\ mServiceID'[b] = k /\ mState'[b] = "RUNNING" /\ channelOpen'[b]
               /\ b \notin booting' /\ stopping'[b] = "no"
    <3>1. b # a /\ mServiceMap[k] = b
      BY <1>1, <1>2, <2>1, NoneAssumption DEF MapsLeadToOwners
    <3> QED BY <1>4, <3>1 DEF MapsLeadToOwners
  <2>2. \A b \in booting' : stopping'[b] = "no"
    <3>1. \A b \in booting : b \in Agents /\ b # a /\ stopping[b] = "no"
      BY <1>1 DEF MapsLeadToOwners, RoutingTypeOK
    <3> QED BY <1>4, <3>1
  <2>3. ASSUME NEW b \in Agents, b \in booting' \/ stopping'[b] # "no"
        PROVE  mState'[b] = "RUNNING" /\ channelOpen'[b]
    <3>1. CASE b = a
      BY <1>1, <3>1
    <3>2. CASE b # a
      BY <1>4, <2>3, <3>2 DEF MapsLeadToOwners
    <3> QED BY <3>1, <3>2
  <2> QED BY <2>1, <2>2, <2>3 DEF MapsLeadToOwners
<1> QED BY <1>5, <1>6, <1>7, <1>8

LEMMA ShutdownKeepsRegistry ==
    ASSUME RegistryInv, RoutingTypeOK', NEW i \in Ids, ShutdownById(i) \/ EraseNamed(i)
    PROVE  RegistryInv' /\ \A b \in Agents : Owns(b)' => Owns(b)
<1>1. CASE mServiceMap[i] = None
  <2>1. UNCHANGED <<mState, mServiceID, channelOpen, booting, stopping, mServiceMap,
                    mServiceNameMap, issued>>
    BY <1>1 DEF ShutdownById, EraseNamed
  <2> QED BY <2>1 DEF RegistryInv, IdsAreOwned, IdsByState, MapsLeadToOwners, Owns,
                      Registered
<1>2. CASE mServiceMap[i] # None
  <2>1. mServiceMap[i] \in Agents
    BY <1>2 DEF RegistryInv, RoutingTypeOK
  <2>2. /\ mServiceMap' = [mServiceMap EXCEPT ![i] = None]
        /\ UNCHANGED <<mState, mServiceID, channelOpen, booting>>
        /\ \/ /\ stopping' = [stopping EXCEPT ![mServiceMap[i]] = "name"]
              /\ UNCHANGED issued
           \/ /\ stopping' = [stopping EXCEPT ![mServiceMap[i]] = "stop"]
              /\ issued' = issued \ {i}
    BY <1>2 DEF ShutdownById, EraseNamed
  <2> QED BY <2>1, <2>2, LeavingKeepsRegistry
<1> QED BY <1>1, <1>2

\* Nobody but the agent itself is concerned when its name is erased.
LEMMA EraseNameKeepsRegistry ==
    ASSUME RegistryInv, NEW a \in Agents, EraseName(a), RoutingTypeOK'
    PROVE  RegistryInv' /\ \A b \in Agents : Owns(b)' => Owns(b)
<1> USE DEF RegistryInv
<1>1. /\ stopping[a] = "name" /\ stopping' = [stopping EXCEPT ![a] = "stop"]
      /\ issued' = issued \ {mServiceID[a]}
      /\ UNCHANGED <<mState, mServiceID, channelOpen, booting, mServiceMap>>
  BY DEF EraseName
<1>2. a \notin booting /\ ~Registered(a) /\ Owns(a) /\ mState[a] = "RUNNING"
  BY <1>1 DEF MapsLeadToOwners, Registered, Owns
<1>3. \A b \in Agents : Owns(b)' <=> Owns(b) /\ b # a
  BY <1>1, <1>2 DEF Owns, Registered, RoutingTypeOK
<1>4. IdsAreOwned'
  BY <1>1, <1>2, <1>3 DEF IdsAreOwned
<1>5. IdsByState'
  BY <1>1 DEF IdsByState
<1>6. MapsLeadToOwners'
  BY <1>1, <1>2 DEF MapsLeadToOwners, Registered, RoutingTypeOK
<1> QED BY <1>3, <1>4, <1>5, <1>6

LEMMA StopKeepsRegistry ==
    ASSUME RegistryInv, NEW a \in Agents, Stop(a), RoutingTypeOK'
    PROVE  RegistryInv'
<1> USE DEF RegistryInv
<1>1. /\ stopping[a] = "stop" /\ stopping' = [stopping EXCEPT ![a] = "no"]
      /\ channelOpen' = [channelOpen EXCEPT ![a] = FALSE]
      /\ UNCHANGED <<mState, mServiceID, booting, mServiceMap, mServiceNameMap, issued>>
  BY DEF Stop, registry
<1>2. mState[a] = "RUNNING" /\ a \notin booting /\ ~Registered(a)
  BY <1>1 DEF MapsLeadToOwners, Registered
<1>3. \A b \in Agents : Owns(b)' <=> Owns(b)
  BY <1>1, <1>2 DEF Owns, Registered, RoutingTypeOK
<1>4. IdsAreOwned' /\ IdsByState'
  BY <1>1, <1>3 DEF IdsAreOwned, IdsByState
<1>5. MapsLeadToOwners'
  BY <1>1, <1>2 DEF MapsLeadToOwners, Registered, RoutingTypeOK
<1> QED BY <1>4, <1>5

LEMMA CleanUpKeepsRegistry ==
    ASSUME RegistryInv, NEW a \in Agents, CleanUpService(a), RoutingTypeOK'
    PROVE  RegistryInv'
<1> USE DEF RegistryInv
<1>1. /\ mState[a] = "RUNNING" /\ ~channelOpen[a]
      /\ mState' = [mState EXCEPT ![a] = "TERMINATED"]
      /\ mServiceID' = [mServiceID EXCEPT ![a] = INVALID_SERVICE_ID]
      /\ UNCHANGED <<channelOpen, booting, stopping, mServiceMap, mServiceNameMap, issued>>
  BY DEF CleanUpService, registry
<1>2. a \notin booting /\ stopping[a] = "no" /\ ~Registered(a) /\ ~Owns(a)
  BY <1>1 DEF MapsLeadToOwners, Registered, Owns
<1>3. \A b \in Agents : Owns(b)' <=> Owns(b)
  BY <1>1, <1>2 DEF Owns, Registered, RoutingTypeOK
<1>4. IdsAreOwned'
  BY <1>1, <1>2, <1>3 DEF IdsAreOwned, RoutingTypeOK
<1>5. IdsByState'
  BY <1>1 DEF IdsByState, RoutingTypeOK
<1>6. MapsLeadToOwners'
  BY <1>1, <1>2 DEF MapsLeadToOwners, Registered, RoutingTypeOK
<1> QED BY <1>4, <1>5, <1>6

LEMMA CallTyped ==
    ASSUME RoutingTypeOK, NEW a \in Agents, NEW at \in {"agent", "address", "push"},
           NEW m \in Items, NEW to \in Agents \cup Ids,
           Calls(a, at, m, to) \/ Returns(a)
    PROVE  call' \in [Agents -> CallStates]
<1>1. [at |-> at, item |-> m, to |-> to] \in CallStates
  BY DEF CallStates
<1>2. Idle \in CallStates
  BY DEF Idle, CallStates
<1> QED BY <1>1, <1>2 DEF Calls, Returns, RoutingTypeOK

LEMMA ShutdownTypes ==
    ASSUME RoutingTypeOK, ShutdownService
    PROVE  RoutingTypeOK'
<1> USE DEF registry, items, unposted
<1>1. ASSUME NEW i \in Ids, ShutdownById(i) PROVE RoutingTypeOK'
  BY <1>1 DEF ShutdownById, RoutingTypeOK
<1>2. ASSUME NEW i \in Ids, EraseNamed(i) PROVE RoutingTypeOK'
  <2>1. lookups' \in [Ids -> Nat]
    <3>1. lookups[i] \in Nat /\ lookups[i] > 0 /\ lookups' = [lookups EXCEPT ![i] = @ - 1]
      BY <1>2 DEF EraseNamed, RoutingTypeOK
    <3> QED BY <3>1 DEF RoutingTypeOK
  <2>2. CASE mServiceMap[i] = None
    BY <1>2, <2>1, <2>2 DEF EraseNamed, RoutingTypeOK
  <2>3. CASE mServiceMap[i] # None
    <3>1. /\ mServiceMap' \in [Ids -> Agents \cup {None}]
          /\ issued' \subseteq Ids
          /\ stopping' \in [Agents -> {"no", "name", "stop"}]
      BY <1>2, <2>3 DEF EraseNamed, RoutingTypeOK
    <3> QED BY <1>2, <2>1, <3>1 DEF EraseNamed, RoutingTypeOK
  <2> QED BY <2>2, <2>3
<1>3. ASSUME NEW n \in Names, ShutdownByName(n) PROVE RoutingTypeOK'
  <2>1. mServiceNameMap' \in [Names -> Ids \cup {None}]
    BY <1>3 DEF ShutdownByName, RoutingTypeOK
  <2>2. lookups' \in [Ids -> Nat]
    BY <1>3 DEF ShutdownByName, RoutingTypeOK
  <2> QED BY <1>3, <2>1, <2>2 DEF ShutdownByName, RoutingTypeOK
<1>4. ASSUME NEW a \in Agents, EraseName(a) PROVE RoutingTypeOK'
  BY <1>4 DEF EraseName, RoutingTypeOK
<1>5. ASSUME NEW a \in Agents, Stop(a) PROVE RoutingTypeOK'
  BY <1>5 DEF Stop, RoutingTypeOK
<1> QED BY <1>1, <1>2, <1>3, <1>4, <1>5 DEF ShutdownService

\* Every step keeps the types.
LEMMA RoutingTypes ==
    ASSUME RegistryInv, CallsAreTheSenders, RoutingNext
    PROVE  RoutingTypeOK'
<1> USE DEF RegistryInv, services, registry, items, unposted
<1>0. SUFFICES ASSUME ~ShutdownService PROVE RoutingTypeOK'
  BY ShutdownTypes
<1>1. PICK a \in Agents :
        \/ Initial(a) \/ BootService(a) \/ Register(a) \/ CleanUpService(a)
        \/ FindAgent(a) \/ Address(a) \/ Push(a) \/ Handle(a)
        \/ \E m \in Items :
            \/ BuildPackage(a, m) \/ Answer(a, m) \/ MakeTask(a, m)
            \/ PostPackage(a, m) \/ PostTask(a, m)
            \/ PostPackageByName(a, m) \/ PostTaskByName(a, m)
            \/ SendToPlayer(a, m) \/ SendToClient(a, m)
  BY <1>0 DEF RoutingNext
<1>2. CASE Initial(a)
  BY <1>2 DEF Initial, RoutingTypeOK
<1>3. CASE BootService(a)
  <2>1. UNCHANGED <<mServiceID, stopping, lookups, mServiceMap, mServiceNameMap, items,
                    posts, mailbox, call, handled>>
    BY <1>3 DEF BootService
  <2>2. /\ mState' \in [Agents -> {"CREATED", "INITIALIZED", "RUNNING", "TERMINATED"}]
        /\ booting' \subseteq Agents /\ issued' \subseteq Ids
    <3>1. mState' = mState \/ mState' = [mState EXCEPT ![a] = "RUNNING"]
      BY <1>3 DEF BootService
    <3>2. booting' = booting \/ booting' = booting \cup {a}
      BY <1>3 DEF BootService
    <3>3. issued' = issued \/ issued' = issued \ {mServiceID[a]}
      BY <1>3 DEF BootService
    <3> QED BY <3>1, <3>2, <3>3 DEF RoutingTypeOK
  <2>3. channelOpen' \in [Agents -> BOOLEAN]
    <3>1. channelOpen \in [Agents -> BOOLEAN]
      BY DEF RoutingTypeOK
    <3>2. channelOpen' = channelOpen \/ channelOpen' = [channelOpen EXCEPT ![a] = FALSE]
      BY <1>3 DEF BootService
    <3> QED BY <3>1, <3>2
  <2> QED BY <2>1, <2>2, <2>3 DEF RoutingTypeOK
<1>4. CASE Register(a)
  <2>1. UNCHANGED <<mState, mServiceID, channelOpen, stopping, lookups, issued, items,
                    posts, mailbox, call, handled>>
    BY <1>4 DEF Register
  <2>2. booting' \subseteq Agents
    BY <1>4 DEF Register, RoutingTypeOK
  <2>3. /\ a \in booting /\ booting \subseteq Agents
        /\ mServiceMap \in [Ids -> Agents \cup {None}]
        /\ mServiceNameMap \in [Names -> Ids \cup {None}]
        /\ mServiceID \in [Agents -> Ids \cup {INVALID_SERVICE_ID}]
        /\ mServiceMap' = [mServiceMap EXCEPT ![mServiceID[a]] = a]
        /\ mServiceNameMap' = [mServiceNameMap EXCEPT ![NameOf[a]] = mServiceID[a]]
    BY <1>4 DEF Register, RoutingTypeOK
  <2>4. mServiceMap' \in [Ids -> Agents \cup {None}]
    BY <2>3
  <2>5. mServiceID[a] \in Ids
    BY <1>4 DEF Register, MapsLeadToOwners, IdsByState
  <2>6. mServiceNameMap' \in [Names -> Ids \cup {None}]
    BY <2>3, <2>5
  <2> QED BY <2>1, <2>2, <2>4, <2>6 DEF RoutingTypeOK
<1>7. CASE CleanUpService(a)
  BY <1>7 DEF CleanUpService, RoutingTypeOK
<1>8. CASE FindAgent(a)
  <2>1. call[a].item \in Items /\ call[a].to \in Ids
    BY <1>8 DEF FindAgent, CallsAreTheSenders
  <2>2. mServiceMap[call[a].to] \in Agents \cup {None}
    BY <2>1 DEF RoutingTypeOK
  <2>3. call' \in [Agents -> CallStates]
    <3>1. CASE mServiceMap[call[a].to] = None
      BY <1>8, <2>1, <3>1, CallTyped DEF FindAgent
    <3>2. CASE mServiceMap[call[a].to] # None
      <4>1. Calls(a, IF call[a].item \in Packages THEN "address" ELSE "push",
                  call[a].item, mServiceMap[call[a].to])
        BY <1>8, <3>2 DEF FindAgent
      <4> QED BY <2>1, <2>2, <3>2, <4>1, CallTyped
    <3> QED BY <3>1, <3>2
  <2> QED BY <1>8, <2>3 DEF FindAgent, RoutingTypeOK
<1>9. CASE Address(a)
  <2>1. call[a].item \in Items /\ call[a].to \in Agents
    BY <1>9 DEF Address, CallsAreTheSenders
  <2>2. call' \in [Agents -> CallStates]
    BY <1>9, <2>1, CallTyped DEF Address
  <2>3. target' \in [Items -> Targets]
    BY <1>9, <2>1 DEF Address, RoutingTypeOK, Targets
  <2> QED BY <1>9, <2>2, <2>3 DEF Address, RoutingTypeOK
<1>10. CASE Push(a)
  <2>1. call[a].item \in Items /\ call[a].to \in Agents
    BY <1>10 DEF Push, CallsAreTheSenders
  <2>2. call' \in [Agents -> CallStates]
    BY <1>10, <2>1, CallTyped DEF Push
  <2>3. mailbox' \in [Agents -> Seq(Items)]
    BY <1>10, <2>1 DEF Push, RoutingTypeOK
  <2> QED BY <1>10, <2>2, <2>3 DEF Push, RoutingTypeOK
<1>11. CASE Handle(a)
  <2>1. Head(mailbox[a]) \in Items /\ Tail(mailbox[a]) \in Seq(Items)
    BY <1>11 DEF Handle, RoutingTypeOK
  <2>2. mServiceID[a] \in Ids /\ target[Head(mailbox[a])] \in Targets
    BY <1>11, <2>1 DEF Handle, IdsByState, RoutingTypeOK
  <2>3. mailbox' \in [Agents -> Seq(Items)]
    BY <1>11, <2>1 DEF Handle, RoutingTypeOK
  <2>4. handled' \in [Items -> Handlings]
    BY <1>11, <2>1, <2>2 DEF Handle, RoutingTypeOK, Handlings
  <2> QED BY <1>11, <2>3, <2>4 DEF Handle, RoutingTypeOK
<1>12. ASSUME NEW m \in Items, BuildPackage(a, m) \/ Answer(a, m) \/ MakeTask(a, m)
       PROVE  RoutingTypeOK'
  <2>1. PICK q \in Packages \cup {None} : Make(a, m, q)
    BY <1>12 DEF BuildPackage, Answer, MakeTask
  <2>2. mServiceID[a] \in Ids
    BY <2>1 DEF Make, IdsByState
  <2> QED BY <2>1, <2>2 DEF Make, RoutingTypeOK
<1>13. ASSUME NEW m \in Items, PostPackage(a, m) \/ PostTask(a, m)
       PROVE  RoutingTypeOK'
  <2>1. Post(a, m)
    BY <1>13 DEF PostPackage, PostTask
  <2>2. PICK i \in Ids :
          /\ target' = [target EXCEPT ![m] = i]
          /\ IF mServiceMap[i] = None THEN UNCHANGED call
             ELSE Calls(a, "push", m, mServiceMap[i])
    BY <2>1 DEF Post
  <2>3. call' \in [Agents -> CallStates]
    <3>1. mServiceMap[i] # None => mServiceMap[i] \in Agents
      BY DEF RoutingTypeOK
    <3>2. call \in [Agents -> CallStates]
      BY DEF RoutingTypeOK
    <3> QED BY <2>2, <3>1, <3>2, CallTyped
  <2>4. target' \in [Items -> Targets]
    BY <2>2 DEF RoutingTypeOK, Targets
  <2>5. /\ posts' = [posts EXCEPT ![m] = @ + 1]
        /\ UNCHANGED <<services, registry, source, sender, answers, mailbox, handled>>
    BY <2>1 DEF Post, Posts
  <2>6. posts' \in [Items -> Nat]
    BY <2>5 DEF RoutingTypeOK
  <2> QED BY <2>3, <2>4, <2>5, <2>6 DEF RoutingTypeOK
<1>14. ASSUME NEW m \in Items, PostPackageByName(a, m) \/ PostTaskByName(a, m)
       PROVE  RoutingTypeOK'
  <2>1. PostByName(a, m)
    BY <1>14 DEF PostPackageByName, PostTaskByName
  <2>2. PICK n \in Names : mServiceNameMap[n] # None /\ Calls(a, "agent", m, mServiceNameMap[n])
    BY <2>1 DEF PostByName
  <2>3. mServiceNameMap[n] \in Ids
    BY <2>2 DEF RoutingTypeOK
  <2>4. call' \in [Agents -> CallStates]
    BY <2>2, <2>3, CallTyped
  <2>5. /\ posts' = [posts EXCEPT ![m] = @ + 1]
        /\ UNCHANGED <<services, registry, target, source, sender, answers, mailbox,
                       handled>>
    BY <2>1 DEF PostByName, Posts
  <2>6. posts' \in [Items -> Nat]
    BY <2>5 DEF RoutingTypeOK
  <2> QED BY <2>4, <2>5, <2>6 DEF RoutingTypeOK
<1>15. ASSUME NEW m \in Items, SendToPlayer(a, m) \/ SendToClient(a, m)
       PROVE  RoutingTypeOK'
  <2>1. PICK kind \in {PLAYER_TARGET_ID, CLIENT_TARGET_ID} : SendTo(a, m, kind)
    BY <1>15 DEF SendToPlayer, SendToClient
  <2>2. posts' \in [Items -> Nat] /\ target' \in [Items -> Targets]
    BY <2>1 DEF SendTo, Posts, RoutingTypeOK, Targets
  <2> QED BY <2>1, <2>2 DEF SendTo, RoutingTypeOK
<1> QED
  BY <1>1, <1>2, <1>3, <1>4, <1>7, <1>8, <1>9, <1>10, <1>11, <1>12, <1>13, <1>14,
     <1>15

\* Facts the steps below share.
LEMMA OwnersApart ==
    ASSUME RegistryInv, NEW i \in Ids, mServiceMap[i] # None
    PROVE  /\ mServiceMap[i] \in Agents /\ mServiceID[mServiceMap[i]] = i
           /\ mState[mServiceMap[i]] = "RUNNING" /\ Owns(mServiceMap[i])
           /\ \A b \in Agents : Owns(b) /\ b # mServiceMap[i] => mServiceID[b] # i
<1>1. mServiceMap[i] \in Agents
  BY DEF RegistryInv, RoutingTypeOK
<1>2. /\ mServiceID[mServiceMap[i]] = i /\ mState[mServiceMap[i]] = "RUNNING"
      /\ Owns(mServiceMap[i])
  BY <1>1 DEF RegistryInv, MapsLeadToOwners, Owns, Registered
<1> QED BY <1>1, <1>2 DEF RegistryInv, IdsAreOwned

LEMMA AskersId ==
    ASSUME RegistryInv, NEW q \in Items, sender[q] # None, SenderKeepsItsId(q)
    PROVE  /\ sender[q] \in Agents
           /\ Owns(sender[q]) => mServiceID[sender[q]] = source[q]
           /\ source[q] \in Ids /\ INVALID_SERVICE_ID \notin Ids
<1>1. INVALID_SERVICE_ID \notin Ids
  BY DEF INVALID_SERVICE_ID, Ids
<1>2. sender[q] \in Agents
  BY DEF RegistryInv, RoutingTypeOK
<1> QED
  BY <1>1, <1>2 DEF SenderKeepsItsId, RegistryInv, IdsAreOwned, RoutingTypeOK

\* One call is about an item at a time, its sender's.
LEMMA OneCall ==
    ASSUME CallsAreTheSenders, NEW a \in Agents, NEW b \in Agents, NEW m,
           InCall(a, m), InCall(b, m)
    PROVE  a = b /\ m \in Items /\ sender[m] = a
  BY DEF CallsAreTheSenders, InCall

\* What a step does not touch.
LEMMA Untouched ==
    ASSUME RoutingInv, UNCHANGED <<services, registry>>, NEW m \in Items,
           /\ target'[m] = target[m] /\ source'[m] = source[m]
           /\ sender'[m] = sender[m] /\ answers'[m] = answers[m]
           /\ posts'[m] = posts[m] /\ handled'[m] = handled[m],
           \A a \in Agents : InCall(a, m)' => InCall(a, m) /\ call'[a] = call[a],
           \A b \in Agents : InMailbox(b, m)' => InMailbox(b, m),
           \A q \in Items : sender[q] # None =>
                sender'[q] = sender[q] /\ source'[q] = source[q]
    PROVE  ItemOK(m)'
<1> USE DEF services, registry
<1>1. ItemOK(m)
  BY DEF RoutingInv
<1>2. \A a, b \in Agents :
        /\ Addressing(a, b, m)' => Addressing(a, b, m)
        /\ Pushing(a, b, m)' => Pushing(a, b, m)
  BY DEF Addressing, Pushing
<1>3. \A b \in Agents : OnItsWay(b, m)' => OnItsWay(b, m)
  BY <1>2 DEF OnItsWay
<1>4. \A b \in Agents : Owns(b)' <=> Owns(b)
  BY DEF Owns, Registered
<1>5. PostedBefore(m)'
  BY <1>1 DEF ItemOK, PostedBefore, Nowhere
<1>6. SenderKeepsItsId(m)'
  BY <1>1 DEF ItemOK, SenderKeepsItsId
<1>7. OnTheRightWay(m)'
  <2> SUFFICES ASSUME posts'[m] = 1 PROVE OnTheRightWay(m)'
    BY DEF OnTheRightWay
  <2>1. ASSUME NEW a \in Agents, InCall(a, m)', call'[a].at = "agent"
        PROVE  m \in Tasks => target'[m] = PLAYER_TARGET_ID
    BY <1>1, <2>1 DEF ItemOK, OnTheRightWay
  <2>2. ASSUME NEW a \in Agents, NEW b \in Agents, Addressing(a, b, m)'
        PROVE  mState'[b] \in {"RUNNING", "TERMINATED"}
    BY <1>1, <1>2, <2>2 DEF ItemOK, OnTheRightWay
  <2>3. ASSUME NEW b \in Agents, OnItsWay(b, m)'
        PROVE  mState'[b] \in {"RUNNING", "TERMINATED"} /\ For(b, m)'
    BY <1>1, <1>3, <2>3 DEF ItemOK, OnTheRightWay, For
  <2> QED BY <2>1, <2>2, <2>3 DEF OnTheRightWay
<1>8. HandledRight(m)'
  BY <1>1 DEF ItemOK, HandledRight
<1>9. ASSUME m \in Packages PROVE NobodyElseAnswers(m)'
  <2> DEFINE q == answers[m]
  <2> SUFFICES ASSUME q # None PROVE NobodyElseAnswers(m)'
    BY DEF NobodyElseAnswers
  <2>1. /\ sender[q] # None /\ sender[m] # None /\ q \in Items
        /\ posts[m] = 1 /\ Owns(sender[q]) =>
            \A b \in Agents \ {sender[q]} :
                /\ \A a \in Agents : Addressing(a, b, m) => mServiceID[b] # source[q]
                /\ OnItsWay(b, m) => target[m] # source[q]
                /\ handled[m].by = b => handled[m].target # source[q]
    BY <1>1, <1>9 DEF ItemOK, NobodyElseAnswers, RoutingInv, RegistryInv, RoutingTypeOK, Items
  <2>2. sender[q] \in Agents /\ sender'[q] = sender[q] /\ source'[q] = source[q]
    BY <2>1 DEF RoutingInv, RegistryInv, RoutingTypeOK
  <2> QED BY <1>2, <1>3, <1>4, <2>1, <2>2 DEF NobodyElseAnswers
<1> QED BY <1>5, <1>6, <1>7, <1>8, <1>9 DEF ItemOK

\* A step of the registry: nothing is posted, pushed or handled, no service
\* comes to own an id unless it is new, and nobody changes the id of one that
\* runs except to take it away.
LEMMA RegistrySteps ==
    ASSUME RoutingInv, RegistryInv',
           UNCHANGED <<items, posts, mailbox, call, handled>>,
           \A b \in Agents : mState[b] \in {"RUNNING", "TERMINATED"} =>
             /\ Owns(b)' => Owns(b)
             /\ \/ mState'[b] = mState[b] /\ mServiceID'[b] = mServiceID[b]
                \/ /\ mState'[b] = "TERMINATED" /\ call[b].at = "idle"
                   /\ mServiceID'[b] = INVALID_SERVICE_ID
    PROVE  RoutingInv'
<1> USE DEF items
<1>1. CallsAreTheSenders'
  BY DEF RoutingInv, CallsAreTheSenders
<1>2. ASSUME NEW m \in Items PROVE ItemOK(m)'
  <2>1. ItemOK(m)
    BY DEF RoutingInv
  <2>2. \A a, b \in Agents :
          /\ InCall(a, m)' <=> InCall(a, m)
          /\ Addressing(a, b, m)' <=> Addressing(a, b, m)
          /\ Pushing(a, b, m)' <=> Pushing(a, b, m)
          /\ InMailbox(b, m)' <=> InMailbox(b, m)
    BY DEF InCall, Addressing, Pushing, InMailbox
  <2>3. \A b \in Agents : OnItsWay(b, m)' <=> OnItsWay(b, m)
    BY <2>2 DEF OnItsWay
  <2>4. PostedBefore(m)' /\ HandledRight(m)'
    BY <2>1, <2>2 DEF ItemOK, PostedBefore, HandledRight, Nowhere
  <2>5. SenderKeepsItsId(m)'
    <3>1. CASE sender[m] = None
      BY <3>1 DEF SenderKeepsItsId
    <3>2. CASE sender[m] # None
      <4>1. sender[m] \in Agents
        BY <3>2 DEF RoutingInv, RegistryInv, RoutingTypeOK
      <4> QED BY <2>1, <3>2, <4>1 DEF ItemOK, SenderKeepsItsId
    <3> QED BY <3>1, <3>2
  <2>6. OnTheRightWay(m)'
    <3> SUFFICES ASSUME posts[m] = 1 PROVE OnTheRightWay(m)'
      BY DEF OnTheRightWay
    <3>1. ASSUME NEW a \in Agents, InCall(a, m), call[a].at = "agent"
          PROVE  m \in Tasks => target[m] = PLAYER_TARGET_ID
      BY <2>1, <3>1 DEF ItemOK, OnTheRightWay
    <3>2. ASSUME NEW a \in Agents, NEW b \in Agents, Addressing(a, b, m)
          PROVE  mState'[b] \in {"RUNNING", "TERMINATED"}
      <4>1. mState[b] \in {"RUNNING", "TERMINATED"}
        BY <2>1, <3>2 DEF ItemOK, OnTheRightWay
      <4> QED BY <4>1
    <3>3. ASSUME NEW b \in Agents, OnItsWay(b, m)
          PROVE  mState'[b] \in {"RUNNING", "TERMINATED"} /\ For(b, m)'
      <4>1. mState[b] \in {"RUNNING", "TERMINATED"} /\ For(b, m)
        BY <2>1, <3>3 DEF ItemOK, OnTheRightWay
      <4> QED BY <4>1 DEF For
    <3> QED BY <2>2, <2>3, <3>1, <3>2, <3>3 DEF OnTheRightWay
  <2>7. ASSUME m \in Packages PROVE NobodyElseAnswers(m)'
    <3> DEFINE q == answers[m]
    <3> SUFFICES ASSUME q # None PROVE NobodyElseAnswers(m)'
      BY DEF NobodyElseAnswers
    <3>1. /\ sender[q] # None /\ sender[m] # None /\ q \in Items
          /\ posts[m] = 1 /\ Owns(sender[q]) =>
              \A b \in Agents \ {sender[q]} :
                  /\ \A a \in Agents : Addressing(a, b, m) => mServiceID[b] # source[q]
                  /\ OnItsWay(b, m) => target[m] # source[q]
                  /\ handled[m].by = b => handled[m].target # source[q]
      BY <2>1, <2>7 DEF ItemOK, NobodyElseAnswers, RoutingInv, RegistryInv,
                        RoutingTypeOK, Items
    <3>2. /\ source[q] \in Ids /\ INVALID_SERVICE_ID \notin Ids
          /\ Owns(sender[q])' => Owns(sender[q])
      <4>1. SenderKeepsItsId(q)
        BY <3>1 DEF RoutingInv, ItemOK
      <4>2. sender[q] \in Agents /\ mState[sender[q]] \in {"RUNNING", "TERMINATED"}
        BY <3>1, <4>1, AskersId DEF SenderKeepsItsId, RoutingInv
      <4> QED BY <3>1, <4>1, <4>2, AskersId DEF RoutingInv
    <3>3. ASSUME NEW b \in Agents, NEW a \in Agents, Addressing(a, b, m), posts[m] = 1,
                 mServiceID[b] # source[q]
          PROVE  mServiceID'[b] # source[q]
      <4>1. mState[b] \in {"RUNNING", "TERMINATED"}
        BY <2>1, <3>3 DEF ItemOK, OnTheRightWay
      <4> QED BY <3>2, <3>3, <4>1
    <3> QED BY <2>2, <2>3, <3>1, <3>2, <3>3 DEF NobodyElseAnswers
  <2> QED BY <2>4, <2>5, <2>6, <2>7 DEF ItemOK
<1> QED BY <1>1, <1>2 DEF RoutingInv, Items

LEMMA ServicesCome ==
    ASSUME RoutingInv, RoutingTypeOK', NEW a \in Agents,
           Initial(a) \/ BootService(a) \/ Register(a) \/ CleanUpService(a)
    PROVE  RoutingInv'
<1> USE DEF RoutingInv, registry, unposted
<1>1. RegistryInv'
  BY InitialKeepsRegistry, BootKeepsRegistry, RegisterKeepsRegistry, CleanUpKeepsRegistry
<1>2. UNCHANGED <<items, posts, mailbox, call, handled>>
  BY DEF Initial, BootService, Register, CleanUpService
<1>3. ASSUME NEW b \in Agents, mState[b] \in {"RUNNING", "TERMINATED"}
      PROVE  /\ Owns(b)' => Owns(b)
             /\ \/ mState'[b] = mState[b] /\ mServiceID'[b] = mServiceID[b]
                \/ /\ mState'[b] = "TERMINATED" /\ call[b].at = "idle"
                   /\ mServiceID'[b] = INVALID_SERVICE_ID
  <2>1. CASE Initial(a)
    BY <1>3, <2>1 DEF Initial, Owns, Registered, RegistryInv, RoutingTypeOK
  <2>2. CASE BootService(a)
    BY <1>3, <2>2 DEF BootService, Owns, Registered, RegistryInv, RoutingTypeOK
  <2>3. CASE Register(a)
    <3>1. \A i \in Ids : mServiceMap'[i] = mServiceMap[i] \/ mServiceMap'[i] = a
      BY <2>3 DEF Register, RegistryInv, RoutingTypeOK
    <3>2. Registered(b)' => Registered(b) \/ b = a
      BY <3>1 DEF Registered
    <3> QED BY <1>3, <2>3, <3>2 DEF Register, Owns, RegistryInv, RoutingTypeOK
  <2>4. CASE CleanUpService(a)
    BY <1>3, <2>4 DEF CleanUpService, Owns, Registered, RegistryInv, RoutingTypeOK, Idle
  <2> QED BY <2>1, <2>2, <2>3, <2>4
<1> QED BY <1>1, <1>2, <1>3, RegistrySteps

LEMMA ServicesGo ==
    ASSUME RoutingInv, RoutingTypeOK', ShutdownService
    PROVE  RoutingInv'
<1> USE DEF RoutingInv, registry, unposted
<1>1. RegistryInv' /\ \A b \in Agents : Owns(b)' => Owns(b)
  <2>1. ASSUME NEW n \in Names, ShutdownByName(n)
        PROVE  RegistryInv' /\ \A b \in Agents : Owns(b)' => Owns(b)
    BY <2>1 DEF ShutdownByName, RegistryInv, IdsAreOwned, IdsByState, MapsLeadToOwners,
                Owns, Registered
  <2>2. ASSUME NEW a \in Agents, Stop(a)
        PROVE  RegistryInv' /\ \A b \in Agents : Owns(b)' => Owns(b)
    <3>1. \A b \in Agents : Owns(b)' => Owns(b)
      BY <2>2 DEF Stop, Owns, Registered, RegistryInv, RoutingTypeOK
    <3> QED BY <2>2, <3>1, StopKeepsRegistry
  <2> QED BY <2>1, <2>2, ShutdownKeepsRegistry, EraseNameKeepsRegistry DEF ShutdownService
<1>2. UNCHANGED <<items, posts, mailbox, call, handled, mState, mServiceID>>
  BY DEF ShutdownService, ShutdownById, EraseNamed, ShutdownByName, EraseName, Stop
<1> QED BY <1>1, <1>2, RegistrySteps

\* The fields and places of an item, for the steps that only touch another.
LEMMA OthersUntouched ==
    ASSUME RoutingInv, UNCHANGED <<services, registry>>,
           NEW m \in Items, NEW a \in Agents,
           \A n \in Items : n # m =>
                /\ target'[n] = target[n] /\ source'[n] = source[n]
                /\ sender'[n] = sender[n] /\ answers'[n] = answers[n]
                /\ posts'[n] = posts[n] /\ handled'[n] = handled[n],
           sender[m] # None => sender'[m] = sender[m] /\ source'[m] = source[m],
           \A b \in Agents : b # a => call'[b] = call[b],
           call'[a] = call[a] \/ call'[a].item = m \/ call'[a].at = "idle",
           \A b \in Agents : \A n \in Items \ {m} :
                InMailbox(b, n)' => InMailbox(b, n)
    PROVE  \A n \in Items : n # m => ItemOK(n)'
<1> SUFFICES ASSUME NEW n \in Items, n # m PROVE ItemOK(n)'
  OBVIOUS
<1>1. \A b \in Agents : InCall(b, n)' => InCall(b, n) /\ call'[b] = call[b]
  BY DEF InCall
<1>2. \A q \in Items : sender[q] # None =>
        sender'[q] = sender[q] /\ source'[q] = source[q]
  OBVIOUS
<1> QED BY <1>1, <1>2, Untouched

LEMMA MakeKeeps ==
    ASSUME RoutingInv, RoutingTypeOK', NEW a \in Agents, NEW m \in Items,
           NEW of \in Packages \cup {None}, Make(a, m, of),
           of # None => handled[of].by = a
    PROVE  RoutingInv'
<1>1. /\ mState[a] = "RUNNING" /\ call[a] = Idle /\ sender[m] = None
      /\ sender' = [sender EXCEPT ![m] = a]
      /\ source' = [source EXCEPT ![m] = mServiceID[a]]
      /\ answers' = [answers EXCEPT ![m] = of]
      /\ UNCHANGED <<services, registry, target, posts, mailbox, call, handled>>
  BY DEF Make
<1>2. RegistryInv' /\ RoutingTypeOK
  BY <1>1, ServicesUntouched DEF RoutingInv, RegistryInv
<1>3. /\ sender'[m] = a /\ source'[m] = mServiceID[a] /\ answers'[m] = of
      /\ \A n \in Items : n # m =>
          sender'[n] = sender[n] /\ source'[n] = source[n] /\ answers'[n] = answers[n]
  BY <1>1, <1>2 DEF RoutingTypeOK
<1>4. \A n \in Items : n # m => ItemOK(n)'
  <2>1. \A b \in Agents, n \in Items : InMailbox(b, n)' <=> InMailbox(b, n)
    BY <1>1 DEF InMailbox
  <2> QED BY <1>1, <1>3, <2>1, OthersUntouched
<1>5. CallsAreTheSenders'
  <2>1. \A b \in Agents : call[b].at # "idle" => call[b].item # m
    BY <1>1, NoneAssumption DEF RoutingInv, CallsAreTheSenders, PostedBefore, ItemOK, InCall
  <2> QED BY <1>1, <1>3, <2>1 DEF RoutingInv, CallsAreTheSenders, services
<1>6. ItemOK(m)'
  <2>1. ItemOK(m) /\ posts[m] = 0 /\ posts'[m] = 0 /\ a # None
    BY <1>1, NoneAssumption DEF RoutingInv, ItemOK, PostedBefore
  <2>2. PostedBefore(m)'
    BY <1>1, <1>3, <2>1 DEF ItemOK, PostedBefore, Nowhere, InMailbox, InCall
  <2>3. SenderKeepsItsId(m)'
    <3>1. mServiceID[a] \in Ids
      BY <1>1 DEF RoutingInv, RegistryInv, IdsByState
    <3> QED BY <1>1, <1>3, <3>1 DEF SenderKeepsItsId, services
  <2>4. OnTheRightWay(m)' /\ HandledRight(m)'
    BY <2>1 DEF OnTheRightWay, HandledRight
  <2>5. NobodyElseAnswers(m)'
    <3>1. CASE of = None
      BY <1>3, <3>1 DEF NobodyElseAnswers
    <3>2. CASE of # None
      <4>1. of \in Items /\ ItemOK(of) /\ handled[of] # Unhandled
        BY <2>1, <3>2 DEF RoutingInv, Items, Unhandled
      <4>2. sender[of] # None
        BY <4>1 DEF ItemOK, PostedBefore, Nowhere
      <4>3. sender'[of] # None
        BY <1>1, <1>3, <4>1, <4>2
      <4> QED BY <1>3, <2>1, <4>3 DEF NobodyElseAnswers
    <3> QED BY <3>1, <3>2
  <2> QED BY <2>2, <2>3, <2>4, <2>5 DEF ItemOK
<1> QED BY <1>2, <1>4, <1>5, <1>6 DEF RoutingInv

\* A post begins: an item posted for the first time is nowhere yet.
LEMMA PostsFirst ==
    ASSUME RoutingInv, NEW a \in Agents, NEW m \in Items, Posts(a, m)
    PROVE  /\ mState[a] = "RUNNING" /\ call[a] = Idle /\ sender[m] = a
           /\ posts' = [posts EXCEPT ![m] = @ + 1] /\ posts[m] \in Nat
           /\ posts'[m] = posts[m] + 1
           /\ posts'[m] = 1 =>
                /\ target[m] = PLAYER_TARGET_ID /\ Nowhere(m)
                /\ \A b \in Agents : ~InCall(b, m)
<1>1. posts' = [posts EXCEPT ![m] = @ + 1] /\ posts \in [Items -> Nat]
  BY DEF Posts, RoutingInv, RegistryInv, RoutingTypeOK
<1>2. posts'[m] = 1 => posts[m] = 0
  BY <1>1
<1>3. PostedBefore(m)
  BY DEF RoutingInv, ItemOK
<1> QED BY <1>1, <1>2, <1>3 DEF Posts, PostedBefore

LEMMA PostKeeps ==
    ASSUME RoutingInv, RoutingTypeOK', NEW a \in Agents, NEW m \in Items, Post(a, m)
    PROVE  RoutingInv'
<1>1. PICK i \in Ids \ {mServiceID[a]} :
        /\ target' = [target EXCEPT ![m] = i]
        /\ IF mServiceMap[i] = None THEN UNCHANGED call
           ELSE Calls(a, "push", m, mServiceMap[i])
  BY DEF Post
<1>2. Posts(a, m) /\ UNCHANGED <<services, registry, source, sender, answers, mailbox, handled>>
  BY DEF Post
<1>3. RegistryInv' /\ RoutingTypeOK
  BY <1>2, ServicesUntouched DEF RoutingInv, RegistryInv
<1>4. /\ target'[m] = i
      /\ \A n \in Items : n # m => target'[n] = target[n] /\ posts'[n] = posts[n]
  BY <1>1, <1>2, <1>3, PostsFirst DEF RoutingTypeOK
<1>5. \A b \in Agents, n \in Items : InMailbox(b, n)' <=> InMailbox(b, n)
  BY <1>2 DEF InMailbox
<1>6. /\ \A b \in Agents : b # a => call'[b] = call[b]
      /\ \/ mServiceMap[i] = None /\ call' = call
         \/ /\ mServiceMap[i] # None
            /\ call'[a] = [at |-> "push", item |-> m, to |-> mServiceMap[i]]
  BY <1>1, <1>3 DEF Calls, RoutingTypeOK
<1>7. \A n \in Items : n # m => ItemOK(n)'
  BY <1>2, <1>4, <1>5, <1>6, OthersUntouched
<1>8. CallsAreTheSenders'
  BY <1>2, <1>3, <1>6, PostsFirst, OwnersApart
  DEF RoutingInv, CallsAreTheSenders, services
<1>9. ItemOK(m)'
  <2>1. ItemOK(m) /\ posts[m] \in Nat /\ posts'[m] = posts[m] + 1 /\ sender[m] = a
    BY <1>2, PostsFirst DEF RoutingInv
  <2>2. posts'[m] = 1 => handled'[m] = Unhandled /\ \A b \in Agents : ~InMailbox(b, m)'
    BY <1>2, <1>5, PostsFirst DEF Nowhere
  <2>3. PostedBefore(m)'
    BY <1>2, <2>1, <2>2, NoneAssumption DEF PostedBefore, Nowhere
  <2>4. SenderKeepsItsId(m)'
    BY <1>2, <2>1 DEF ItemOK, SenderKeepsItsId, services
  <2>5. ASSUME posts'[m] = 1, NEW b \in Agents, NEW c \in Agents, InCall(b, m)'
        PROVE  /\ call'[b].at = "push" /\ ~Addressing(b, c, m)'
               /\ Pushing(b, c, m)' => c = mServiceMap[i] /\ mServiceMap[i] # None
    <3>1. ~InCall(b, m)
      BY <1>2, <2>5, PostsFirst
    <3>2. b = a /\ mServiceMap[i] # None
      BY <1>6, <2>5, <3>1 DEF InCall
    <3> QED BY <1>6, <2>5, <3>2 DEF Addressing, Pushing
  <2>6. ASSUME posts'[m] = 1, NEW b \in Agents, OnItsWay(b, m)'
        PROVE  b = mServiceMap[i] /\ mServiceMap[i] # None
    BY <2>2, <2>5, <2>6 DEF OnItsWay, Pushing
  <2>7. mServiceMap[i] # None =>
          /\ mState'[mServiceMap[i]] = "RUNNING"
          /\ mServiceID'[mServiceMap[i]] = i
    BY <1>2, <1>3, OwnersApart DEF services, RoutingInv
  <2>8. OnTheRightWay(m)'
    <3> SUFFICES ASSUME posts'[m] = 1 PROVE OnTheRightWay(m)'
      BY DEF OnTheRightWay
    <3>1. \A b \in Agents : InCall(b, m)' => call'[b].at # "agent"
      BY <2>5
    <3>2. \A b, c \in Agents : ~Addressing(b, c, m)'
      BY <2>5 DEF Addressing
    <3>3. \A b \in Agents : OnItsWay(b, m)' =>
            mState'[b] \in {"RUNNING", "TERMINATED"} /\ For(b, m)'
      BY <1>2, <1>4, <2>6, <2>7 DEF For
    <3> QED BY <3>1, <3>2, <3>3 DEF OnTheRightWay
  <2>9. HandledRight(m)'
    BY <2>2 DEF HandledRight
  <2>10. ASSUME m \in Packages PROVE NobodyElseAnswers(m)'
    <3> DEFINE q == answers[m]
    <3> SUFFICES ASSUME q # None PROVE NobodyElseAnswers(m)'
      BY <1>2 DEF NobodyElseAnswers
    <3>1. sender[q] # None /\ sender[m] # None /\ q \in Items /\ SenderKeepsItsId(q)
      BY <2>1, <2>10 DEF ItemOK, NobodyElseAnswers, RoutingInv, RegistryInv,
                         RoutingTypeOK, Items
    <3>2. ASSUME posts'[m] = 1, Owns(sender[q])', NEW b \in Agents \ {sender[q]}
          PROVE  /\ \A c \in Agents : ~Addressing(c, b, m)'
                 /\ OnItsWay(b, m)' => target'[m] # source[q]
                 /\ handled'[m].by # b
      <4>1. Owns(sender[q]) /\ sender[q] \in Agents /\ mServiceID[sender[q]] = source[q]
        BY <1>2, <3>1, <3>2, AskersId
        DEF Owns, Registered, services, registry, RoutingInv
      <4>2. OnItsWay(b, m)' => source[q] # i
        BY <1>3, <2>6, <3>2, <4>1, OwnersApart DEF RoutingInv
      <4>3. \A c \in Agents : ~Addressing(c, b, m)'
        BY <2>5, <3>2 DEF Addressing
      <4>4. handled'[m].by # b
        BY <2>2, <3>2, NoneAssumption DEF Unhandled
      <4> QED BY <1>4, <4>2, <4>3, <4>4
    <3> QED BY <1>2, <3>1, <3>2 DEF NobodyElseAnswers
  <2> QED BY <2>3, <2>4, <2>8, <2>9, <2>10 DEF ItemOK
<1> QED BY <1>3, <1>7, <1>8, <1>9 DEF RoutingInv

LEMMA PostByNameKeeps ==
    ASSUME RoutingInv, RoutingTypeOK', NEW a \in Agents, NEW m \in Items, PostByName(a, m)
    PROVE  RoutingInv'
<1>1. PICK n \in Names \ {NameOf[a]} :
        mServiceNameMap[n] # None /\ Calls(a, "agent", m, mServiceNameMap[n])
  BY DEF PostByName
<1>2. Posts(a, m) /\ UNCHANGED <<services, registry, items, mailbox, handled>>
  BY DEF PostByName
<1>3. RegistryInv' /\ RoutingTypeOK
  BY <1>2, ServicesUntouched DEF RoutingInv, RegistryInv
<1> DEFINE i == mServiceNameMap[n]
<1>4. i \in Ids
  BY <1>1 DEF RoutingInv, RegistryInv, RoutingTypeOK
<1>5. \A k \in Items : k # m => posts'[k] = posts[k]
  BY <1>2, <1>3, PostsFirst DEF RoutingTypeOK
<1>6. \A b \in Agents, k \in Items : InMailbox(b, k)' <=> InMailbox(b, k)
  BY <1>2 DEF InMailbox
<1>7. /\ \A b \in Agents : b # a => call'[b] = call[b]
      /\ call'[a] = [at |-> "agent", item |-> m, to |-> i]
  BY <1>1, <1>3 DEF Calls, RoutingTypeOK
<1> HIDE DEF i
<1>8. \A k \in Items : k # m => ItemOK(k)'
  BY <1>2, <1>5, <1>6, <1>7, OthersUntouched DEF items
<1>9. CallsAreTheSenders'
  BY <1>2, <1>4, <1>7, PostsFirst DEF RoutingInv, CallsAreTheSenders, services, items
<1>10. ItemOK(m)'
  <2>1. ItemOK(m) /\ posts[m] \in Nat /\ posts'[m] = posts[m] + 1 /\ sender[m] = a
    BY <1>2, PostsFirst DEF RoutingInv
  <2>2. posts'[m] = 1 =>
          /\ target'[m] = PLAYER_TARGET_ID
          /\ handled'[m] = Unhandled /\ \A b \in Agents : ~InMailbox(b, m)'
    BY <1>2, <1>6, PostsFirst DEF Nowhere, items
  <2>3. PostedBefore(m)'
    BY <1>2, <2>1, <2>2, NoneAssumption DEF PostedBefore, Nowhere, items
  <2>4. SenderKeepsItsId(m)'
    BY <1>2, <2>1 DEF ItemOK, SenderKeepsItsId, services, items
  <2>5. ASSUME posts'[m] = 1, NEW b \in Agents, InCall(b, m)'
        PROVE  b = a
    BY <1>2, <1>7, <2>5, PostsFirst DEF InCall
  <2>6. ASSUME posts'[m] = 1, NEW b \in Agents, NEW c \in Agents
        PROVE  ~Addressing(b, c, m)' /\ ~Pushing(b, c, m)'
    BY <1>7, <2>5, <2>6 DEF Addressing, Pushing
  <2>7. ASSUME posts'[m] = 1, NEW b \in Agents PROVE ~OnItsWay(b, m)'
    BY <2>2, <2>6, <2>7 DEF OnItsWay
  <2>8. OnTheRightWay(m)'
    <3> SUFFICES ASSUME posts'[m] = 1 PROVE OnTheRightWay(m)'
      BY DEF OnTheRightWay
    <3> QED BY <2>2, <2>6, <2>7 DEF OnTheRightWay
  <2>9. HandledRight(m)'
    BY <2>2 DEF HandledRight
  <2>10. ASSUME m \in Packages PROVE NobodyElseAnswers(m)'
    <3>1. answers[m] # None => sender[answers[m]] # None /\ sender[m] # None
      BY <2>1, <2>10 DEF ItemOK, NobodyElseAnswers
    <3>2. posts'[m] = 1 => \A b \in Agents : handled'[m].by # b
      BY <2>2, NoneAssumption DEF Unhandled
    <3> QED BY <1>2, <2>6, <2>7, <3>1, <3>2, AskersId
        DEF NobodyElseAnswers, items, Owns, Registered
  <2> QED BY <2>3, <2>4, <2>8, <2>9, <2>10 DEF ItemOK
<1> QED BY <1>3, <1>8, <1>9, <1>10 DEF RoutingInv

LEMMA SendToKeeps ==
    ASSUME RoutingInv, RoutingTypeOK', NEW a \in Agents, NEW m \in Items, NEW kind,
           SendTo(a, m, kind)
    PROVE  RoutingInv'
<1>1. /\ Posts(a, m) /\ target' = [target EXCEPT ![m] = kind]
      /\ UNCHANGED <<services, registry, source, sender, answers, mailbox, call, handled>>
  BY DEF SendTo
<1>2. RegistryInv' /\ RoutingTypeOK
  BY <1>1, ServicesUntouched DEF RoutingInv, RegistryInv
<1>3. \A k \in Items : k # m => posts'[k] = posts[k] /\ target'[k] = target[k]
  BY <1>1, <1>2, PostsFirst DEF RoutingTypeOK
<1>4. \A b, c \in Agents, k \in Items :
        /\ InMailbox(b, k)' <=> InMailbox(b, k)
        /\ InCall(b, k)' <=> InCall(b, k)
  BY <1>1 DEF InMailbox, InCall
<1>5. \A k \in Items : k # m => ItemOK(k)'
  BY <1>1, <1>3, <1>4, OthersUntouched
<1>6. CallsAreTheSenders'
  BY <1>1 DEF RoutingInv, CallsAreTheSenders, services
<1>7. ItemOK(m)'
  <2>1. ItemOK(m) /\ posts[m] \in Nat /\ posts'[m] = posts[m] + 1 /\ sender[m] = a
    BY <1>1, PostsFirst DEF RoutingInv
  <2>2. posts'[m] = 1 =>
          /\ handled'[m] = Unhandled
          /\ \A b \in Agents : ~InMailbox(b, m)' /\ ~InCall(b, m)'
    BY <1>1, <1>4, PostsFirst DEF Nowhere
  <2>3. PostedBefore(m)'
    BY <1>1, <2>1, <2>2, NoneAssumption DEF PostedBefore, Nowhere
  <2>4. SenderKeepsItsId(m)'
    BY <1>1, <2>1 DEF ItemOK, SenderKeepsItsId, services
  <2>5. posts'[m] = 1 => \A b, c \in Agents : ~Addressing(b, c, m)' /\ ~OnItsWay(b, m)'
    BY <2>2 DEF Addressing, Pushing, OnItsWay
  <2>6. OnTheRightWay(m)' /\ HandledRight(m)'
    BY <2>2, <2>5 DEF OnTheRightWay, HandledRight
  <2>7. ASSUME m \in Packages PROVE NobodyElseAnswers(m)'
    <3>1. answers[m] # None => sender[answers[m]] # None /\ sender[m] # None
      BY <2>1, <2>7 DEF ItemOK, NobodyElseAnswers
    <3>2. posts'[m] = 1 => \A b \in Agents : handled'[m].by # b
      BY <2>2, NoneAssumption DEF Unhandled
    <3> QED BY <1>1, <2>5, <3>1, <3>2 DEF NobodyElseAnswers
  <2> QED BY <2>3, <2>4, <2>6, <2>7 DEF ItemOK
<1> QED BY <1>2, <1>5, <1>6, <1>7 DEF RoutingInv

LEMMA FindAgentKeeps ==
    ASSUME RoutingInv, RoutingTypeOK', NEW a \in Agents, FindAgent(a)
    PROVE  RoutingInv'
<1>0. call[a].at = "agent" /\ call[a].item \in Items /\ call[a].to \in Ids
  BY DEF FindAgent, RoutingInv, CallsAreTheSenders
<1> PICK m \in Items : m = call[a].item
  BY <1>0
<1> PICK i \in Ids : i = call[a].to
  BY <1>0
<1> PICK b \in Agents \cup {None} : b = mServiceMap[i]
  BY DEF RoutingInv, RegistryInv, RoutingTypeOK
<1>1. /\ call[a].at = "agent" /\ sender[m] = a /\ mState[a] = "RUNNING"
      /\ InCall(a, m)
  BY <1>0 DEF RoutingInv, CallsAreTheSenders, InCall
<1>2. /\ UNCHANGED <<services, registry, items, posts, mailbox, handled>>
      /\ IF b = None THEN call' = [call EXCEPT ![a] = Idle]
         ELSE call' = [call EXCEPT ![a] =
                [at |-> IF m \in Packages THEN "address" ELSE "push", item |-> m, to |-> b]]
  BY DEF FindAgent, Calls, Returns
<1>3. RegistryInv' /\ RoutingTypeOK
  BY <1>2, ServicesUntouched DEF RoutingInv, RegistryInv
<1>4. /\ \A c \in Agents : c # a => call'[c] = call[c]
      /\ b = None => call'[a] = Idle
      /\ b # None => call'[a] =
            [at |-> IF m \in Packages THEN "address" ELSE "push", item |-> m, to |-> b]
  BY <1>2, <1>3 DEF RoutingTypeOK
<1>5. b # None => /\ b \in Agents /\ mServiceID[b] = i /\ mState[b] = "RUNNING"
                  /\ \A c \in Agents : Owns(c) /\ c # b => mServiceID[c] # i
                  /\ Owns(b)
  BY <1>1, OwnersApart DEF RoutingInv
<1>6. \A c \in Agents, k \in Items : InMailbox(c, k)' <=> InMailbox(c, k)
  BY <1>2 DEF InMailbox
<1>7. \A k \in Items : k # m => ItemOK(k)'
  BY <1>1, <1>2, <1>4, <1>6, OthersUntouched DEF items, Idle
<1>8. CallsAreTheSenders'
  BY <1>1, <1>2, <1>4, <1>5 DEF RoutingInv, CallsAreTheSenders, services, items, Idle
<1>9. ItemOK(m)'
  <2>1. ItemOK(m)
    BY <1>1 DEF RoutingInv
  <2>2. posts[m] # 0 /\ (posts[m] = 1 => Nowhere(m))
    BY <1>1, <2>1 DEF ItemOK, PostedBefore
  <2>3. \A c \in Agents : InCall(c, m)' => c = a /\ b # None
    <3> SUFFICES ASSUME NEW c \in Agents, InCall(c, m)' PROVE c = a /\ b # None
      OBVIOUS
    <3>1. CASE c = a
      BY <1>4, <3>1 DEF InCall, Idle
    <3>2. CASE c # a
      BY <1>1, <1>4, <3>2, OneCall DEF InCall, RoutingInv
    <3> QED BY <3>1, <3>2
  <2>4. PostedBefore(m)'
    BY <1>1, <1>2, <1>6, <2>1, <2>2, NoneAssumption
    DEF PostedBefore, Nowhere, items
  <2>5. SenderKeepsItsId(m)' /\ HandledRight(m)'
    BY <1>2, <2>1 DEF ItemOK, SenderKeepsItsId, HandledRight, services, items
  <2>7. ASSUME NEW c \in Agents, NEW d \in Agents, Addressing(c, d, m)'
        PROVE  d = b /\ b # None
    BY <1>4, <2>3, <2>7 DEF Addressing
  <2>8. ASSUME NEW c \in Agents, posts[m] = 1, OnItsWay(c, m)'
        PROVE  c = b /\ b # None /\ m \notin Packages
    <3>1. ~InMailbox(c, m)'
      BY <1>1, <1>6, <2>2, <2>8 DEF Nowhere
    <3>2. PICK d \in Agents : Pushing(d, c, m)'
      BY <2>8, <3>1 DEF OnItsWay
    <3> QED BY <1>4, <2>3, <3>2 DEF Pushing
  <2>9. OnTheRightWay(m)'
    <3> SUFFICES ASSUME posts[m] = 1 PROVE OnTheRightWay(m)'
      BY <1>2 DEF OnTheRightWay
    <3>1. \A c \in Agents : InCall(c, m)' => call'[c].at # "agent"
      BY <1>4, <2>3
    <3>2. \A c, d \in Agents : Addressing(c, d, m)' =>
            mState'[d] \in {"RUNNING", "TERMINATED"}
      BY <1>2, <1>5, <2>7 DEF services
    <3>3. \A c \in Agents : OnItsWay(c, m)' =>
            mState'[c] \in {"RUNNING", "TERMINATED"} /\ For(c, m)'
      <4>1. m \in Tasks => target[m] = PLAYER_TARGET_ID
        BY <1>1, <2>1 DEF ItemOK, OnTheRightWay
      <4>2. m \in Packages \cup Tasks
        BY <1>1 DEF Items
      <4> QED BY <1>2, <1>5, <2>8, <4>1, <4>2 DEF For, services, items
    <3> QED BY <1>2, <3>1, <3>2, <3>3 DEF OnTheRightWay
  <2>10. ASSUME m \in Packages PROVE NobodyElseAnswers(m)'
    <3> DEFINE q == answers[m]
    <3> SUFFICES ASSUME q # None PROVE NobodyElseAnswers(m)'
      BY <1>2 DEF NobodyElseAnswers, items
    <3>1. sender[q] # None /\ sender[m] # None /\ q \in Items /\ SenderKeepsItsId(q)
      BY <1>1, <2>1, <2>10 DEF ItemOK, NobodyElseAnswers, RoutingInv, RegistryInv,
                         RoutingTypeOK, Items
    <3>2. ASSUME posts[m] = 1, Owns(sender[q])', NEW d \in Agents \ {sender[q]}
          PROVE  /\ \A c \in Agents : Addressing(c, d, m)' => mServiceID[d] # source[q]
                 /\ ~OnItsWay(d, m)'
                 /\ handled[m].by # d
      <4>1. Owns(sender[q]) /\ sender[q] \in Agents /\ mServiceID[sender[q]] = source[q]
        BY <1>2, <3>1, <3>2, AskersId
        DEF Owns, Registered, services, registry, items, RoutingInv
      <4>2. \A c \in Agents : Addressing(c, d, m)' => mServiceID[d] # source[q]
        BY <1>5, <2>7, <3>2, <4>1
      <4>3. handled[m].by # d
        BY <2>2, <3>2, NoneAssumption DEF Nowhere, Unhandled
      <4> QED BY <2>8, <2>10, <3>2, <4>2, <4>3
    <3> QED BY <1>2, <3>1, <3>2 DEF NobodyElseAnswers, items, services
  <2> QED BY <2>4, <2>5, <2>9, <2>10 DEF ItemOK
<1> QED BY <1>3, <1>7, <1>8, <1>9 DEF RoutingInv

LEMMA AddressKeeps ==
    ASSUME RoutingInv, RoutingTypeOK', NEW a \in Agents, Address(a)
    PROVE  RoutingInv'
<1>0. call[a].at = "address" /\ call[a].item \in Packages /\ call[a].to \in Agents
  BY DEF Address, RoutingInv, CallsAreTheSenders
<1> PICK m \in Packages : m = call[a].item
  BY <1>0
<1> PICK b \in Agents : b = call[a].to
  BY <1>0
<1>1. /\ call[a].at = "address" /\ sender[m] = a /\ mState[a] = "RUNNING"
      /\ InCall(a, m) /\ Addressing(a, b, m) /\ m \in Items
  BY <1>0 DEF RoutingInv, CallsAreTheSenders, InCall, Addressing, Items
<1>2. /\ UNCHANGED <<services, registry, source, sender, answers, posts, mailbox, handled>>
      /\ target' = [target EXCEPT ![m] = mServiceID[b]]
      /\ call' = [call EXCEPT ![a] = [at |-> "push", item |-> m, to |-> b]]
  BY DEF Address, Calls
<1>3. RegistryInv' /\ RoutingTypeOK
  BY <1>2, ServicesUntouched DEF RoutingInv, RegistryInv
<1>4. /\ \A c \in Agents : c # a => call'[c] = call[c]
      /\ call'[a] = [at |-> "push", item |-> m, to |-> b]
      /\ target'[m] = mServiceID[b]
      /\ \A k \in Items : k # m => target'[k] = target[k]
  BY <1>1, <1>2, <1>3 DEF RoutingTypeOK
<1>5. \A c \in Agents, k \in Items : InMailbox(c, k)' <=> InMailbox(c, k)
  BY <1>2 DEF InMailbox
<1>6. \A k \in Items : k # m => ItemOK(k)'
  BY <1>1, <1>2, <1>4, <1>5, OthersUntouched
<1>7. CallsAreTheSenders'
  BY <1>1, <1>2, <1>4 DEF RoutingInv, CallsAreTheSenders, services
<1>8. ItemOK(m)'
  <2>1. ItemOK(m)
    BY <1>1 DEF RoutingInv
  <2>2. posts[m] # 0 /\ (posts[m] = 1 => Nowhere(m))
    BY <1>1, <2>1 DEF ItemOK, PostedBefore
  <2>3. \A c \in Agents : InCall(c, m)' => c = a
    BY <1>1, <1>4, OneCall DEF InCall, RoutingInv
  <2>4. PostedBefore(m)'
    BY <1>1, <1>2, <1>5, <2>2, NoneAssumption DEF PostedBefore, Nowhere
  <2>5. SenderKeepsItsId(m)' /\ HandledRight(m)'
    BY <1>2, <2>1 DEF ItemOK, SenderKeepsItsId, HandledRight, services
  <2>6. \A c, d \in Agents : ~Addressing(c, d, m)'
    BY <1>4, <2>3 DEF Addressing
  <2>7. ASSUME NEW c \in Agents, posts[m] = 1, OnItsWay(c, m)' PROVE c = b
    <3>1. ~InMailbox(c, m)'
      BY <1>1, <1>5, <2>2, <2>7 DEF Nowhere
    <3>2. PICK d \in Agents : Pushing(d, c, m)'
      BY <2>7, <3>1 DEF OnItsWay
    <3> QED BY <1>4, <2>3, <3>2 DEF Pushing
  <2>8. OnTheRightWay(m)'
    <3> SUFFICES ASSUME posts[m] = 1 PROVE OnTheRightWay(m)'
      BY <1>2 DEF OnTheRightWay
    <3>1. mState[b] \in {"RUNNING", "TERMINATED"}
      BY <1>1, <2>1 DEF ItemOK, OnTheRightWay
    <3>2. \A c \in Agents : InCall(c, m)' => call'[c].at # "agent"
      BY <1>4, <2>3
    <3>3. \A c \in Agents : OnItsWay(c, m)' =>
            mState'[c] \in {"RUNNING", "TERMINATED"} /\ For(c, m)'
      BY <1>2, <1>4, <2>7, <3>1 DEF For, services
    <3> QED BY <2>6, <3>2, <3>3 DEF OnTheRightWay
  <2>9. NobodyElseAnswers(m)'
    <3> DEFINE q == answers[m]
    <3> SUFFICES ASSUME q # None PROVE NobodyElseAnswers(m)'
      BY <1>2 DEF NobodyElseAnswers
    <3>1. /\ sender[q] # None /\ sender[m] # None
          /\ posts[m] = 1 /\ Owns(sender[q]) /\ b # sender[q] => mServiceID[b] # source[q]
      BY <1>1, <2>1 DEF ItemOK, NobodyElseAnswers
    <3>2. ASSUME posts[m] = 1, Owns(sender[q])', NEW d \in Agents \ {sender[q]}
          PROVE  /\ OnItsWay(d, m)' => target'[m] # source[q]
                 /\ handled[m].by # d
      <4>1. Owns(sender[q])
        BY <1>2, <3>2 DEF Owns, Registered, services, registry
      <4>2. OnItsWay(d, m)' => target'[m] # source[q]
        BY <1>4, <2>7, <3>1, <3>2, <4>1
      <4>3. handled[m].by # d
        BY <2>2, <3>2, NoneAssumption DEF Nowhere, Unhandled
      <4> QED BY <4>2, <4>3
    <3> QED BY <1>2, <2>6, <3>1, <3>2 DEF NobodyElseAnswers
  <2> QED BY <2>4, <2>5, <2>8, <2>9 DEF ItemOK
<1> QED BY <1>3, <1>6, <1>7, <1>8 DEF RoutingInv

LEMMA PushKeeps ==
    ASSUME RoutingInv, RoutingTypeOK', NEW a \in Agents, Push(a)
    PROVE  RoutingInv'
<1>0. call[a].at = "push" /\ call[a].item \in Items /\ call[a].to \in Agents
  BY DEF Push, RoutingInv, CallsAreTheSenders
<1> PICK m \in Items : m = call[a].item
  BY <1>0
<1> PICK b \in Agents : b = call[a].to
  BY <1>0
<1>1. sender[m] = a /\ mState[a] = "RUNNING" /\ InCall(a, m) /\ Pushing(a, b, m)
  BY <1>0 DEF RoutingInv, CallsAreTheSenders, InCall, Pushing
<1>2. /\ UNCHANGED <<services, registry, items, posts, handled>>
      /\ mailbox' = IF channelOpen[b] THEN [mailbox EXCEPT ![b] = Append(@, m)] ELSE mailbox
      /\ call' = [call EXCEPT ![a] = Idle]
  BY DEF Push, Returns
<1>3. RegistryInv' /\ RoutingTypeOK
  BY <1>2, ServicesUntouched DEF RoutingInv, RegistryInv
<1>4. /\ \A c \in Agents : c # a => call'[c] = call[c]
      /\ call'[a] = Idle
  BY <1>2, <1>3 DEF RoutingTypeOK
<1>5. ASSUME NEW c \in Agents, NEW k \in Items, InMailbox(c, k)'
      PROVE  InMailbox(c, k) \/ (c = b /\ k = m)
  <2>1. CASE mailbox'[c] = mailbox[c]
    BY <1>5, <2>1 DEF InMailbox
  <2>2. CASE mailbox'[c] # mailbox[c]
    <3>1. c = b /\ mailbox'[c] = Append(mailbox[c], m) /\ mailbox[c] \in Seq(Items)
      BY <1>2, <1>3, <2>2 DEF RoutingTypeOK
    <3> QED BY <1>5, <3>1 DEF InMailbox
  <2> QED BY <2>1, <2>2
<1>6. \A k \in Items : k # m => ItemOK(k)'
  BY <1>1, <1>2, <1>4, <1>5, OthersUntouched DEF items, Idle
<1>7. CallsAreTheSenders'
  BY <1>1, <1>2, <1>4 DEF RoutingInv, CallsAreTheSenders, services, items, Idle
<1>8. ItemOK(m)'
  <2>1. ItemOK(m) /\ posts[m] # 0
    BY <1>1 DEF RoutingInv, ItemOK, PostedBefore
  <2>2. \A c \in Agents : ~InCall(c, m)'
    BY <1>1, <1>4, OneCall DEF InCall, RoutingInv, Idle
  <2>3. ASSUME NEW c \in Agents, OnItsWay(c, m)' PROVE OnItsWay(c, m)
    BY <1>1, <1>5, <2>2, <2>3 DEF OnItsWay, Pushing
  <2>4. PostedBefore(m)'
    BY <1>1, <1>2, <2>1, <2>2, NoneAssumption DEF PostedBefore, items
  <2>5. SenderKeepsItsId(m)' /\ HandledRight(m)'
    BY <1>2, <2>1 DEF ItemOK, SenderKeepsItsId, HandledRight, services, items
  <2>6. OnTheRightWay(m)'
    BY <1>2, <2>1, <2>2, <2>3 DEF ItemOK, OnTheRightWay, Addressing, For, services, items
  <2>7. ASSUME m \in Packages PROVE NobodyElseAnswers(m)'
    <3>1. \A c \in Agents : Owns(c)' <=> Owns(c)
      BY <1>2 DEF Owns, Registered, services, registry
    <3> DEFINE q == answers[m]
    <3> SUFFICES ASSUME q # None PROVE NobodyElseAnswers(m)'
      BY <1>2 DEF NobodyElseAnswers, items
    <3>2. sender[q] \in Agents
      BY <2>1, <2>7 DEF ItemOK, NobodyElseAnswers, RoutingInv, RegistryInv,
                        RoutingTypeOK, Items
    <3> QED BY <1>2, <2>1, <2>2, <2>3, <2>7, <3>1, <3>2
        DEF ItemOK, NobodyElseAnswers, Addressing, items
  <2> QED BY <2>4, <2>5, <2>6, <2>7 DEF ItemOK
<1> QED BY <1>3, <1>6, <1>7, <1>8 DEF RoutingInv

LEMMA HandleKeeps ==
    ASSUME RoutingInv, RoutingTypeOK', NEW b \in Agents, Handle(b)
    PROVE  RoutingInv'
<1>1. /\ mState[b] = "RUNNING" /\ mailbox[b] # <<>>
      /\ mailbox[b] \in Seq(Items) /\ Head(mailbox[b]) \in Items
  BY DEF Handle, RoutingInv, RegistryInv, RoutingTypeOK
<1> PICK m \in Items : m = Head(mailbox[b])
  BY <1>1
<1>2. /\ UNCHANGED <<services, registry, items, posts, call>>
      /\ mailbox' = [mailbox EXCEPT ![b] = Tail(@)]
      /\ handled' = [handled EXCEPT ![m] =
            [by |-> b, sid |-> mServiceID[b], target |-> target[m]]]
  BY DEF Handle
<1>3. RegistryInv' /\ RoutingTypeOK
  BY <1>2, ServicesUntouched DEF RoutingInv, RegistryInv
<1>4. InMailbox(b, m) /\ OnItsWay(b, m)
  BY <1>1 DEF InMailbox, OnItsWay
<1>5. ASSUME NEW c \in Agents, NEW k \in Items, InMailbox(c, k)'
      PROVE  InMailbox(c, k)
  <2>1. CASE c # b
    BY <1>2, <1>3, <1>5, <2>1 DEF InMailbox, RoutingTypeOK
  <2>2. CASE c = b
    <3>1. mailbox'[b] = Tail(mailbox[b])
      BY <1>2, <1>3 DEF RoutingTypeOK
    <3>2. PICK j \in 1 .. Len(Tail(mailbox[b])) : Tail(mailbox[b])[j] = k
      BY <1>5, <2>2, <3>1 DEF InMailbox
    <3>3. j + 1 \in 1 .. Len(mailbox[b]) /\ mailbox[b][j + 1] = k
      BY <1>1, <3>2
    <3> QED BY <2>2, <3>3 DEF InMailbox
  <2> QED BY <2>1, <2>2
<1>6. /\ handled'[m] = [by |-> b, sid |-> mServiceID[b], target |-> target[m]]
      /\ \A k \in Items : k # m => handled'[k] = handled[k]
  BY <1>2, <1>3 DEF RoutingTypeOK
<1>7. \A k \in Items : k # m => ItemOK(k)'
  BY <1>2, <1>5, <1>6, OthersUntouched DEF items
<1>8. CallsAreTheSenders'
  BY <1>2 DEF RoutingInv, CallsAreTheSenders, services, items
<1>9. ItemOK(m)'
  <2>1. ItemOK(m) /\ posts[m] # 0
    BY <1>4 DEF RoutingInv, ItemOK, PostedBefore, Nowhere
  <2>2. posts[m] = 1 => \A c \in Agents : ~InCall(c, m)
    BY <1>4, <2>1 DEF ItemOK, PostedBefore, Nowhere
  <2>3. ASSUME NEW c \in Agents, OnItsWay(c, m)' PROVE OnItsWay(c, m)
    BY <1>2, <1>5, <2>3 DEF OnItsWay, Pushing, InCall
  <2>4. PostedBefore(m)'
    BY <1>2, <2>1, <2>2 DEF ItemOK, PostedBefore, InCall, items
  <2>5. SenderKeepsItsId(m)'
    BY <1>2, <2>1 DEF ItemOK, SenderKeepsItsId, services, items
  <2>6. OnTheRightWay(m)'
    BY <1>2, <2>1, <2>2, <2>3
    DEF ItemOK, OnTheRightWay, Addressing, InCall, For, services, items
  <2>7. HandledRight(m)'
    <3> SUFFICES ASSUME posts[m] = 1 PROVE HandledRight(m)'
      BY <1>2 DEF HandledRight
    <3>1. For(b, m)
      BY <1>4, <2>1 DEF ItemOK, OnTheRightWay
    <3>2. target[m] = mServiceID[b] \/ (m \in Tasks /\ target[m] = PLAYER_TARGET_ID)
      BY <1>1, <3>1 DEF For
    <3> QED BY <1>2, <1>6, <3>1, <3>2 DEF HandledRight, items
  <2>8. ASSUME m \in Packages PROVE NobodyElseAnswers(m)'
    <3>1. \A c \in Agents : Owns(c)' <=> Owns(c)
      BY <1>2 DEF Owns, Registered, services, registry
    <3>2. \A c, d \in Agents : Addressing(c, d, m)' <=> Addressing(c, d, m)
      BY <1>2 DEF Addressing, InCall
    <3> DEFINE q == answers[m]
    <3> SUFFICES ASSUME q # None PROVE NobodyElseAnswers(m)'
      BY <1>2 DEF NobodyElseAnswers, items
    <3>3. sender[q] \in Agents
      BY <2>1, <2>8 DEF ItemOK, NobodyElseAnswers, RoutingInv, RegistryInv,
                        RoutingTypeOK, Items
    <3>4. ASSUME posts[m] = 1, Owns(sender[q]), NEW c \in Agents \ {sender[q]}
          PROVE  /\ \A d \in Agents : Addressing(d, c, m) => mServiceID[c] # source[q]
                 /\ OnItsWay(c, m) => target[m] # source[q]
      BY <2>1, <2>8, <3>4 DEF ItemOK, NobodyElseAnswers
    <3>5. ASSUME posts[m] = 1, Owns(sender[q]), NEW c \in Agents \ {sender[q]}
          PROVE  /\ \A d \in Agents : Addressing(d, c, m)' => mServiceID'[c] # source'[q]
                 /\ OnItsWay(c, m)' => target'[m] # source'[q]
                 /\ handled'[m].by = c => handled'[m].target # source'[q]
      <4>1. UNCHANGED <<mServiceID, source, target>>
        BY <1>2 DEF items, services
      <4>2. \A d \in Agents : Addressing(d, c, m)' => mServiceID'[c] # source'[q]
        BY <3>2, <3>4, <3>5, <4>1
      <4>3. OnItsWay(c, m)' => target'[m] # source'[q]
        BY <2>3, <3>4, <3>5, <4>1
      <4>4. handled'[m].by = c => handled'[m].target # source'[q]
        BY <1>4, <1>6, <3>4, <3>5, <4>1
      <4> QED BY <4>2, <4>3, <4>4
    <3>6. sender[q] # None /\ sender[m] # None
      BY <2>1, <2>8 DEF ItemOK, NobodyElseAnswers
    <3>7. UNCHANGED <<sender, answers, posts>>
      BY <1>2 DEF items
    <3> QED BY <3>1, <3>3, <3>5, <3>6, <3>7 DEF NobodyElseAnswers
  <2> QED BY <2>4, <2>5, <2>6, <2>7, <2>8 DEF ItemOK
<1> QED BY <1>3, <1>7, <1>8, <1>9 DEF RoutingInv

LEMMA RoutingInvInit == RoutingInit => RoutingInv
<1> SUFFICES ASSUME RoutingInit PROVE RoutingInv
  OBVIOUS
<1>1. RegistryInv
  BY RegistryInvInit
<1>2. CallsAreTheSenders
  BY DEF RoutingInit, CallsAreTheSenders, Idle
<1>3. ASSUME NEW m \in Items PROVE ItemOK(m)
  <2>1. /\ sender[m] = None /\ answers[m] = None /\ posts[m] = 0
        /\ target[m] = PLAYER_TARGET_ID /\ handled[m] = Unhandled
        /\ \A a \in Agents : call[a].at = "idle" /\ mailbox[a] = <<>>
    BY <1>3 DEF RoutingInit, Idle
  <2>2. \A a \in Agents : ~InMailbox(a, m) /\ ~InCall(a, m)
    BY <2>1 DEF InMailbox, InCall
  <2> QED
    BY <2>1, <2>2 DEF ItemOK, PostedBefore, Nowhere, SenderKeepsItsId, OnTheRightWay,
                      HandledRight, NobodyElseAnswers
<1> QED BY <1>1, <1>2, <1>3 DEF RoutingInv

LEMMA RoutingInvStep == RoutingInv /\ [RoutingNext]_routingVars => RoutingInv'
<1>1. ASSUME RoutingInv, RoutingNext PROVE RoutingInv'
  <2>1. RoutingTypeOK'
    BY <1>1, RoutingTypes DEF RoutingInv
  <2>2. SUFFICES ASSUME ~ShutdownService PROVE RoutingInv'
    BY <1>1, <2>1, ServicesGo
  <2>. PICK a \in Agents :
          \/ Initial(a) \/ BootService(a) \/ Register(a) \/ CleanUpService(a)
          \/ FindAgent(a) \/ Address(a) \/ Push(a) \/ Handle(a)
          \/ \E m \in Items :
              \/ BuildPackage(a, m) \/ Answer(a, m) \/ MakeTask(a, m)
              \/ PostPackage(a, m) \/ PostTask(a, m)
              \/ PostPackageByName(a, m) \/ PostTaskByName(a, m)
              \/ SendToPlayer(a, m) \/ SendToClient(a, m)
    BY <1>1, <2>2 DEF RoutingNext
  <2>3. CASE Initial(a) \/ BootService(a) \/ Register(a) \/ CleanUpService(a)
    BY <1>1, <2>1, <2>3, ServicesCome
  <2>4. CASE FindAgent(a) \/ Address(a) \/ Push(a) \/ Handle(a)
    BY <1>1, <2>1, <2>4, FindAgentKeeps, AddressKeeps, PushKeeps, HandleKeeps
  <2>5. ASSUME NEW m \in Items, BuildPackage(a, m) \/ MakeTask(a, m) PROVE RoutingInv'
    BY <1>1, <2>1, <2>5, MakeKeeps DEF BuildPackage, MakeTask
  <2>6. ASSUME NEW m \in Items, Answer(a, m) PROVE RoutingInv'
    BY <1>1, <2>1, <2>6, MakeKeeps DEF Answer
  <2>7. ASSUME NEW m \in Items, PostPackage(a, m) \/ PostTask(a, m) PROVE RoutingInv'
    BY <1>1, <2>1, <2>7, PostKeeps DEF PostPackage, PostTask
  <2>8. ASSUME NEW m \in Items, PostPackageByName(a, m) \/ PostTaskByName(a, m)
        PROVE  RoutingInv'
    BY <1>1, <2>1, <2>8, PostByNameKeeps DEF PostPackageByName, PostTaskByName
  <2>9. ASSUME NEW m \in Items, SendToPlayer(a, m) \/ SendToClient(a, m)
        PROVE  RoutingInv'
    BY <1>1, <2>1, <2>9, SendToKeeps DEF SendToPlayer, SendToClient
  <2> QED BY <2>3, <2>4, <2>5, <2>6, <2>7, <2>8, <2>9
<1>2. ASSUME RoutingInv, UNCHANGED routingVars PROVE RoutingInv'
  <2>1. UNCHANGED <<services, registry, items, posts, mailbox, call, handled>>
    BY <1>2 DEF routingVars
  <2>2. RegistryInv'
    <3>1. RoutingTypeOK'
      BY <1>2, <2>1 DEF RoutingInv, RegistryInv, RoutingTypeOK, services, registry, items
    <3> QED BY <1>2, <2>1, <3>1, ServicesUntouched DEF RoutingInv
  <2>3. \A b \in Agents : mState'[b] = mState[b] /\ mServiceID'[b] = mServiceID[b]
                          /\ (Owns(b)' => Owns(b))
    BY <2>1 DEF Owns, Registered, services, registry
  <2> QED BY <1>2, <2>1, <2>2, <2>3, RegistrySteps
<1> QED BY <1>1, <1>2

THEOREM RoutingInvariance == RoutingSpec => []RoutingInv
  BY RoutingInvInit, RoutingInvStep, PTL DEF RoutingSpec

\* The registry, the mailboxes and the calls of the services are well typed.
THEOREM RoutingTypeCorrect == RoutingSpec => []RoutingTypeOK
<1>1. RoutingInv => RoutingTypeOK
  BY DEF RoutingInv, RegistryInv
<1> QED BY <1>1, RoutingInvariance, PTL

\* However the critical sections of BootService and of both ShutdownService mix,
\* whoever is initialised, booting or registered, or has left the map and not
\* given its id back, has an id of its own; and the map of ids leads only to
\* services that have that id and run.  (Nothing like it holds of the names.)
THEOREM IdsHaveOneOwner == RoutingSpec => [](IdsAreOwned /\ MapsLeadToOwners)
<1>1. RoutingInv => IdsAreOwned /\ MapsLeadToOwners
  BY DEF RoutingInv, RegistryInv
<1> QED BY <1>1, RoutingInvariance, PTL

\* PostPackage and PostTask push to what they found without a lock on it, by a
\* name that may have been left behind: what was posted once is handled, if at
\* all, by the service whose id it shows.
THEOREM PostsAreHandledByTheirTarget == RoutingSpec => []HandledByItsTarget
<1>1. RoutingInv => HandledByItsTarget
  BY DEF RoutingInv, ItemOK, HandledRight, HandledByItsTarget
<1> QED BY <1>1, RoutingInvariance, PTL

\* Ids are reused, and an answer is posted to the source of a package, which is
\* an id: it is handled by the service that sent the package, or that service
\* is not registered any more.
THEOREM AnswersReachTheAsker == RoutingSpec => []AnswersComeBack
<1>1. RoutingInv => AnswersComeBack
  <2> SUFFICES ASSUME RoutingInv, NEW m \in Packages, NEW q, q = answers[m], q # None,
                      posts[m] = 1, handled[m].target = source[q],
                      Registered(sender[q])
               PROVE  handled[m].by = sender[q]
    BY DEF AnswersComeBack
  <2>1. m \in Items /\ ItemOK(m) /\ q \in Items /\ ItemOK(q)
    BY DEF RoutingInv, RegistryInv, RoutingTypeOK, Items
  <2>2. sender[q] # None /\ source[q] \in Ids /\ sender[q] \in Agents
    BY <2>1, AskersId DEF ItemOK, NobodyElseAnswers, RoutingInv
  <2>3. handled[m] # Unhandled
    BY <2>2, NoneAssumption DEF Unhandled, Ids
  <2>4. handled[m].by \in Agents
    BY <2>1, <2>3 DEF RoutingInv, RegistryInv, RoutingTypeOK, Handlings
  <2> QED BY <2>1, <2>2, <2>4 DEF ItemOK, NobodyElseAnswers, Owns
<1> QED BY <1>1, RoutingInvariance, PTL
=============================================================================
