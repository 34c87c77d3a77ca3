--------------------------- MODULE DataAccessProofs ---------------------------
(***************************************************************************)
(* Proofs about DataAccess, for any number of workers, callers and tasks:  *)
(* type correctness, that no worker takes a task from an empty queue, that *)
(* no wake-up of a push is lost, that mNextIndex is an index whenever no   *)
(* call of PushTask is between its increment and its reduction, and that   *)
(* the deques with their mutexes and flags implement the abstract queues   *)
(* of tasks.                                                               *)
(***************************************************************************)
EXTENDS DataAccess, TLAPS

\* A worker that is about to take a task out finds one: it has seen it under
\* mMutex, and nobody else takes tasks out of its queue.
PopsATask ==
    \A w \in Workers :
        worker[w] = "pop" \/ (worker[w] = "woken" /\ ~bQuit[w]) => mDeque[w] > 0

\* A worker that holds mMutex on its way to sleep has seen an empty queue.
SleepsOnNothing == \A w \in Workers : worker[w] = "tested" => mDeque[w] = 0

IInv ==
    /\ TypeOK
    /\ PopsATask
    /\ SleepsOnNothing
    /\ NoSleepOnWork
    /\ IndexInRangeBetweenCalls

USE NumWorkersAssumption, MaxTasksAssumption
    DEF Workers, server, queues, threads, calls, WorkerAt, CallerAt, PushEnds,
        Locked, Serves

\* The initial states satisfy the invariant.
LEMMA InitIInv == Init => IInv
<1> SUFFICES ASSUME Init PROVE IInv
  OBVIOUS
<1>1. 0 \in Workers  OBVIOUS
<1>2. TypeOK
  <2>1. /\ index \in [Callers -> Workers] /\ reduced \in [Callers -> Workers]
        /\ mDeque \in [Workers -> Nat] /\ bQuit \in [Workers -> BOOLEAN]
    BY <1>1 DEF Init
  <2>2. /\ worker \in [Workers -> {"none", "test", "wait", "tested", "asleep",
                              "woken", "pop", "execute", "leave", "ended"}]
        /\ caller \in [Callers -> {"idle", "fetch", "load", "store", "push", "notify"}]
    BY DEF Init
  <2>3. quitting \in Workers /\ pushed \in 0 .. MaxTasks /\ mNextIndex \in Nat
    BY <1>1 DEF Init
  <2>4. overslept \subseteq Workers /\ crashed \in BOOLEAN  BY DEF Init
  <2>5. mState \in {"CREATED"} /\ main \in {"spawn"}  BY DEF Init
  <2> QED  BY <2>1, <2>2, <2>3, <2>4, <2>5 DEF TypeOK
<1>3. PopsATask /\ SleepsOnNothing  BY DEF Init, PopsATask, SleepsOnNothing
<1>4. NoSleepOnWork  BY DEF Init, NoSleepOnWork
<1>5. IndexInRangeBetweenCalls  BY <1>1 DEF Init, IndexInRangeBetweenCalls
<1> QED  BY <1>2, <1>3, <1>4, <1>5 DEF IInv

\* Every step of the server's thread keeps the invariant.
LEMMA ServerIInv == IInv /\ Server => IInv'
<1> SUFFICES ASSUME IInv, Server PROVE IInv'
  OBVIOUS
<1> USE DEF IInv, TypeOK
<1>1. TypeOK'
  <2>1. CASE Spawn  BY <2>1 DEF Spawn
  <2>2. CASE Start  BY <2>2 DEF Start
  <2>3. CASE Stop  BY <2>3 DEF Stop
  <2>4. CASE SetQuit  BY <2>4 DEF SetQuit
  <2>5. CASE NotifyAll  BY <2>5, SMTT(30) DEF NotifyAll
  <2>6. CASE Join  BY <2>6 DEF Join
  <2> QED  BY <2>1, <2>2, <2>3, <2>4, <2>5, <2>6 DEF Server
<1>2. PopsATask'
  BY DEF PopsATask, Server, Spawn, Start, Stop, SetQuit, NotifyAll, Join
<1>3. SleepsOnNothing'
  BY DEF SleepsOnNothing, Server, Spawn, Start, Stop, SetQuit, NotifyAll, Join
<1>4. NoSleepOnWork'
  BY DEF NoSleepOnWork, Server, Spawn, Start, Stop, SetQuit, NotifyAll, Join
<1>5. IndexInRangeBetweenCalls'
  BY DEF IndexInRangeBetweenCalls, Server, Spawn, Start, Stop, SetQuit, NotifyAll, Join
<1> QED  BY <1>1, <1>2, <1>3, <1>4, <1>5

\* Every step of a worker thread, and every spurious wake-up, keeps it.
LEMMA WorkerIInv ==
    ASSUME NEW w \in Workers, IInv, RunInThread(w) \/ SpuriousWake(w)
    PROVE  IInv'
<1> USE DEF IInv, TypeOK
<1>1. TypeOK'
  <2>1. CASE Test(w)  BY <2>1 DEF Test
  <2>2. CASE Wait(w)  BY <2>2 DEF Wait
  <2>3. CASE Sleep(w)  BY <2>3 DEF Sleep
  <2>4. CASE PopFront(w)  BY <2>4 DEF PopFront, PopsATask
  <2>5. CASE Execute(w)  BY <2>5 DEF Execute
  <2>6. CASE Leave(w)  BY <2>6 DEF Leave
  <2>7. CASE SpuriousWake(w)  BY <2>7 DEF SpuriousWake
  <2> QED  BY <2>1, <2>2, <2>3, <2>4, <2>5, <2>6, <2>7 DEF RunInThread
<1>2. PopsATask'
  BY DEF PopsATask, RunInThread, Test, Wait, Sleep, PopFront, Execute, Leave,
         SpuriousWake
<1>3. SleepsOnNothing'
  BY DEF SleepsOnNothing, RunInThread, Test, Wait, Sleep, PopFront, Execute,
         Leave, SpuriousWake
<1>4. NoSleepOnWork'
  <2>1. caller' = caller /\ index' = index
    BY DEF RunInThread, Test, Wait, Sleep, PopFront, Execute, Leave, SpuriousWake
  <2>2. \A v \in Workers :
          worker'[v] = "asleep" /\ mDeque'[v] > 0 =>
            mDeque[v] > 0 /\ worker[v] \in {"asleep", "tested"}
    BY DEF RunInThread, Test, Wait, Sleep, PopFront, Execute, Leave, SpuriousWake
  <2> SUFFICES ASSUME NEW v \in Workers, worker'[v] = "asleep", mDeque'[v] > 0
               PROVE  \E d \in Callers : caller'[d] = "notify" /\ index'[d] = v
    BY DEF NoSleepOnWork
  <2>3. worker[v] = "asleep" /\ mDeque[v] > 0  BY <2>2 DEF SleepsOnNothing
  <2>4. PICK d \in Callers : caller[d] = "notify" /\ index[d] = v
    BY <2>3 DEF NoSleepOnWork
  <2> QED  BY <2>1, <2>4
<1>5. IndexInRangeBetweenCalls'
  BY DEF IndexInRangeBetweenCalls, RunInThread, Test, Wait, Sleep, PopFront,
         Execute, Leave, SpuriousWake
<1> QED  BY <1>1, <1>2, <1>3, <1>4, <1>5

\* Every step of a call of PushTask keeps it.
LEMMA CallerIInv ==
    ASSUME NEW c \in Callers, IInv, PushBegin(c) \/ PushOn(c)
    PROVE  IInv'
<1>t. /\ index \in [Callers -> Workers] /\ reduced \in [Callers -> Workers]
      /\ mDeque \in [Workers -> Nat] /\ mNextIndex \in Nat
      /\ index[c] \in Workers /\ reduced[c] \in Workers /\ pushed \in 0 .. MaxTasks
  BY DEF IInv, TypeOK
<1>w. worker \in [Workers -> {"none", "test", "wait", "tested", "asleep", "woken",
                              "pop", "execute", "leave", "ended"}]
  BY DEF IInv, TypeOK
<1>c. caller \in [Callers -> {"idle", "fetch", "load", "store", "push", "notify"}]
  BY DEF IInv, TypeOK
<1>i. /\ PopsATask /\ SleepsOnNothing /\ NoSleepOnWork /\ IndexInRangeBetweenCalls
  BY DEF IInv
<1>0. 0 \in Workers /\ mNextIndex % NumWorkers \in Workers
  BY <1>t
<1>1. TypeOK'
  <2> USE DEF IInv, TypeOK
  <2>1. CASE PushBegin(c)  BY <2>1 DEF PushBegin
  <2>2. CASE Fetch(c)
    <3>1. CASE mNextIndex \in Workers /\ main # "gone"
      <4>1. /\ index' = [index EXCEPT ![c] = mNextIndex]
            /\ mNextIndex' = mNextIndex + 1
            /\ caller' = [caller EXCEPT ![c] = "load"]
            /\ UNCHANGED <<server, queues, threads, reduced, pushed, crashed>>
        BY <2>2, <3>1 DEF Fetch
      <4>2. index' \in [Callers -> Workers]  BY <4>1, <3>1, <1>t
      <4>3. mNextIndex' \in Nat  BY <4>1, <1>t
      <4> QED  BY <4>1, <4>2, <4>3
    <3>2. CASE ~(mNextIndex \in Workers /\ main # "gone")
      BY <2>2, <3>2 DEF Fetch
    <3> QED  BY <3>1, <3>2
  <2>3. CASE Load(c)
    <3>1. /\ reduced' = [reduced EXCEPT ![c] = mNextIndex % NumWorkers]
          /\ caller' = [caller EXCEPT ![c] = "store"]
          /\ UNCHANGED <<server, mNextIndex, queues, threads, index, pushed, crashed>>
      BY <2>3 DEF Load
    <3>2. reduced' \in [Callers -> Workers]  BY <3>1, <1>0, <1>t
    <3> QED  BY <3>1, <3>2
  <2>4. CASE Store(c)  BY <2>4, <1>0 DEF Store
  <2>5. CASE PushBack(c)
    <3>1. CASE main = "gone"  BY <2>5, <3>1 DEF PushBack
    <3>2. CASE main # "gone"
      <4>1. /\ mDeque' = [mDeque EXCEPT ![index[c]] = @ + 1]
            /\ caller' = [caller EXCEPT ![c] = "notify"]
            /\ UNCHANGED <<server, mNextIndex, bQuit, threads, index, reduced,
                           pushed, crashed>>
        BY <2>5, <3>2 DEF PushBack
      <4>2. mDeque' \in [Workers -> Nat]  BY <4>1, <1>t
      <4> QED  BY <4>1, <4>2
    <3> QED  BY <3>1, <3>2
  <2>6. CASE NotifyOne(c)
    <3>1. CASE main = "gone"  BY <2>6, <3>1 DEF NotifyOne
    <3>2. CASE main # "gone"
      <4>1. /\ worker' = IF worker[index[c]] = "asleep"
                         THEN [worker EXCEPT ![index[c]] = "wait"] ELSE worker
            /\ caller' = [caller EXCEPT ![c] = "idle"]
            /\ index' = [index EXCEPT ![c] = 0]
            /\ UNCHANGED <<server, mNextIndex, queues, overslept, reduced, pushed,
                           crashed>>
        BY <2>6, <3>2 DEF NotifyOne
      <4>2. index' \in [Callers -> Workers]  BY <4>1, <1>0, <1>t
      <4>3. worker' \in [Workers -> {"none", "test", "wait", "tested", "asleep",
                              "woken", "pop", "execute", "leave", "ended"}]
        BY <4>1, <1>w
      <4> QED  BY <4>1, <4>2, <4>3
    <3> QED  BY <3>1, <3>2
  <2> QED  BY <2>1, <2>2, <2>3, <2>4, <2>5, <2>6 DEF PushOn
\* A push fills a queue whose mutex is free, and a notice only wakes a worker
\* up to its test.
<1>m. /\ bQuit' = bQuit
      /\ \A v \in Workers :
           /\ mDeque'[v] >= mDeque[v]
           /\ mDeque'[v] # mDeque[v] => worker[v] # "tested"
           /\ worker'[v] # worker[v] => worker'[v] = "wait"
  <2>1. CASE PushBegin(c)  BY <2>1, <1>t DEF PushBegin
  <2>2. CASE Fetch(c)  BY <2>2, <1>t DEF Fetch
  <2>3. CASE Load(c)  BY <2>3, <1>t DEF Load
  <2>4. CASE Store(c)  BY <2>4, <1>t DEF Store
  <2>5. CASE PushBack(c)
    <3>1. CASE main = "gone"  BY <2>5, <3>1, <1>t DEF PushBack
    <3>2. CASE main # "gone"  BY <2>5, <3>2, <1>t DEF PushBack
    <3> QED  BY <3>1, <3>2
  <2>6. CASE NotifyOne(c)
    <3>1. CASE main = "gone"  BY <2>6, <3>1, <1>t DEF NotifyOne
    <3>2. CASE main # "gone"  BY <2>6, <3>2, <1>t, <1>w DEF NotifyOne
    <3> QED  BY <3>1, <3>2
  <2> QED  BY <2>1, <2>2, <2>3, <2>4, <2>5, <2>6 DEF PushOn
<1>2. PopsATask'
  <2> SUFFICES ASSUME NEW v \in Workers,
                      worker'[v] = "pop" \/ (worker'[v] = "woken" /\ ~bQuit'[v])
               PROVE  mDeque'[v] > 0
    BY DEF PopsATask
  <2>1. worker'[v] = worker[v]  BY <1>m
  <2>2. mDeque[v] > 0  BY <2>1, <1>m, <1>i DEF PopsATask
  <2>3. mDeque[v] \in Nat /\ mDeque'[v] \in Nat  BY <1>t, <1>1 DEF TypeOK
  <2>4. mDeque'[v] >= mDeque[v]  BY <1>m
  <2> QED  BY <2>2, <2>3, <2>4
<1>3. SleepsOnNothing'
  BY <1>m, <1>i, <1>t DEF SleepsOnNothing
<1>4. NoSleepOnWork'
  <2>1. CASE PushBegin(c) \/ Load(c) \/ Store(c)
    <3>1. /\ worker' = worker /\ mDeque' = mDeque /\ index' = index
          /\ caller[c] # "notify" /\ \A d \in Callers \ {c} : caller'[d] = caller[d]
      BY <2>1, <1>c DEF PushBegin, Load, Store
    <3> QED  BY <3>1, <1>i DEF NoSleepOnWork
  <2>2. CASE Fetch(c)
    <3>1. /\ worker' = worker /\ mDeque' = mDeque /\ caller[c] # "notify"
          /\ \A d \in Callers \ {c} : caller'[d] = caller[d] /\ index'[d] = index[d]
      BY <2>2, <1>c, <1>t DEF Fetch
    <3> QED  BY <3>1, <1>i DEF NoSleepOnWork
  <2>3. CASE PushBack(c)
    <3>1. CASE main = "gone"  BY <2>3, <3>1, <1>i DEF PushBack, NoSleepOnWork
    <3>2. CASE main # "gone"
      <4>1. /\ worker' = worker /\ index' = index /\ caller[c] # "notify"
            /\ caller'[c] = "notify"
            /\ \A d \in Callers \ {c} : caller'[d] = caller[d]
            /\ \A v \in Workers \ {index[c]} : mDeque'[v] = mDeque[v]
        BY <2>3, <3>2, <1>c, <1>t DEF PushBack
      <4> QED  BY <4>1, <1>i DEF NoSleepOnWork
    <3> QED  BY <3>1, <3>2
  <2>4. CASE NotifyOne(c)
    <3>1. CASE main = "gone"  BY <2>4, <3>1, <1>i DEF NotifyOne, NoSleepOnWork
    <3>2. CASE main # "gone"
      <4>1. /\ mDeque' = mDeque /\ worker'[index[c]] # "asleep"
            /\ \A v \in Workers : worker'[v] = "asleep" => worker[v] = "asleep"
            /\ \A d \in Callers \ {c} : caller'[d] = caller[d] /\ index'[d] = index[d]
        BY <2>4, <3>2, <1>c, <1>t, <1>w DEF NotifyOne
      <4> QED  BY <4>1, <1>i DEF NoSleepOnWork
    <3> QED  BY <3>1, <3>2
  <2> QED  BY <2>1, <2>2, <2>3, <2>4 DEF PushOn
<1>5. IndexInRangeBetweenCalls'
  <2>1. CASE PushBegin(c) \/ PushBack(c) \/ NotifyOne(c)
    <3>1. /\ mNextIndex' = mNextIndex /\ caller[c] \notin {"load", "store"}
          /\ \A d \in Callers \ {c} : caller'[d] = caller[d]
      BY <2>1, <1>c DEF PushBegin, PushBack, NotifyOne
    <3> QED  BY <3>1, <1>i DEF IndexInRangeBetweenCalls
  <2>2. CASE Fetch(c)
    <3>1. \/ caller'[c] = "load"
          \/ mNextIndex' = mNextIndex /\ caller' = caller
      BY <2>2, <1>c DEF Fetch
    <3> QED  BY <3>1, <1>i DEF IndexInRangeBetweenCalls
  <2>3. CASE Load(c)
    <3>1. caller'[c] = "store"  BY <2>3, <1>c DEF Load
    <3> QED  BY <3>1 DEF IndexInRangeBetweenCalls
  <2>4. CASE Store(c)
    <3>1. mNextIndex' \in Workers  BY <2>4, <1>t DEF Store
    <3> QED  BY <3>1 DEF IndexInRangeBetweenCalls
  <2> QED  BY <2>1, <2>2, <2>3, <2>4 DEF PushOn
<1> QED  BY <1>1, <1>2, <1>3, <1>4, <1>5 DEF IInv

\* The invariant holds in every reachable state.
THEOREM InvariantHolds == Spec => []IInv
<1>1. IInv /\ [Next]_vars => IInv'
  <2> SUFFICES ASSUME IInv, [Next]_vars PROVE IInv'
    OBVIOUS
  <2>1. CASE Next  BY <2>1, ServerIInv, WorkerIInv, CallerIInv DEF Next
  <2>2. CASE UNCHANGED vars
    BY <2>2 DEF vars, IInv, TypeOK, PopsATask, SleepsOnNothing, NoSleepOnWork,
                IndexInRangeBetweenCalls
  <2> QED  BY <2>1, <2>2
<1> QED  BY <1>1, InitIInv, PTL DEF Spec

\* For any instance, the variables stay in their types; in particular no task
\* is taken from an empty queue, where its count would fall below zero.
THEOREM TypeCorrect == Spec => []TypeOK
<1>1. IInv => TypeOK  BY DEF IInv
<1> QED  BY <1>1, InvariantHolds, PTL

\* For any instance, PopFront of a worker finds a task.
THEOREM NeverPopsEmpty == Spec => []PopsATask
<1>1. IInv => PopsATask  BY DEF IInv
<1> QED  BY <1>1, InvariantHolds, PTL

\* For any instance, no worker sleeps on tasks that nobody is about to notify
\* it of.
THEOREM NoWakeUpOfAPushIsLost == Spec => []NoSleepOnWork
<1>1. IInv => NoSleepOnWork  BY DEF IInv
<1> QED  BY <1>1, InvariantHolds, PTL

\* For any instance, mNextIndex is an index between calls of PushTask.
THEOREM IndexInRange == Spec => []IndexInRangeBetweenCalls
<1>1. IInv => IndexInRangeBetweenCalls  BY DEF IInv
<1> QED  BY <1>1, InvariantHolds, PTL
----------------------------------------------------------------------------
\* The queues that those who push tasks see.

\* How far the server's thread has come determines the state of the module, and
\* a queue is told to quit only by Stop.
Stopping ==
    /\ main = "spawn" =>
        mState = "CREATED" /\ \A w \in Workers : w >= quitting => worker[w] = "none"
    /\ main = "initialized" => mState = "INITIALIZED"
    /\ main = "running" => mState = "RUNNING"
    /\ main \in {"quit", "notify", "join", "gone"} => mState = "STOPPED"
    /\ \A w \in Workers : bQuit[w] => mState = "STOPPED"

QueueInv == IInv /\ Stopping

LEMMA InitStopping == Init => Stopping
  BY DEF Init, Stopping

LEMMA ServerStopping ==
    ASSUME IInv, Stopping, Server
    PROVE  Stopping'
<1>1. /\ quitting \in Workers /\ bQuit \in [Workers -> BOOLEAN]
      /\ worker \in [Workers -> {"none", "test", "wait", "tested", "asleep", "woken",
                                 "pop", "execute", "leave", "ended"}]
  BY DEF IInv, TypeOK
<1>2. CASE Spawn
  <2>1. mState = "CREATED" /\ \A w \in Workers : w >= quitting => worker[w] = "none"
    BY <1>2 DEF Spawn, Stopping
  <2>2. /\ bQuit' = bQuit /\ \A w \in Workers : ~bQuit[w]
        /\ worker' = [worker EXCEPT ![quitting] = "test"]
        /\ \/ quitting' = quitting + 1 /\ mState' = mState /\ main' = main
           \/ main' = "initialized" /\ mState' = "INITIALIZED"
    BY <1>2, <2>1 DEF Spawn, Stopping
  <2>3. main = "spawn"
    BY <1>2 DEF Spawn
  <2>4. \A w \in Workers : w >= quitting + 1 => worker'[w] = "none"
    BY <1>1, <2>1, <2>2
  <2> QED BY <2>1, <2>2, <2>3, <2>4 DEF Stopping
<1>3. CASE Start \/ Stop
  BY <1>3 DEF Start, Stop, Stopping
<1>4. CASE SetQuit
  BY <1>1, <1>4 DEF SetQuit, Stopping
<1>5. CASE NotifyAll \/ Join
  BY <1>5 DEF NotifyAll, Join, Stopping
<1> QED BY <1>2, <1>3, <1>4, <1>5 DEF Server

LEMMA WorkerStopping ==
    ASSUME IInv, Stopping, NEW w \in Workers, RunInThread(w) \/ SpuriousWake(w)
    PROVE  Stopping'
<1>1. UNCHANGED <<main, mState, quitting, bQuit>>
  BY DEF RunInThread, Test, Wait, Sleep, PopFront, Execute, Leave, SpuriousWake
<1>2. worker[w] # "none" /\ \A v \in Workers \ {w} : worker'[v] = worker[v]
  BY DEF RunInThread, Test, Wait, Sleep, PopFront, Execute, Leave, SpuriousWake,
         IInv, TypeOK
<1> QED BY <1>1, <1>2 DEF Stopping

LEMMA CallerStopping ==
    ASSUME IInv, Stopping, NEW c \in Callers, PushBegin(c) \/ PushOn(c)
    PROVE  Stopping'
<1>1. UNCHANGED <<main, mState, quitting, bQuit>>
  BY DEF PushBegin, PushOn, Fetch, Load, Store, PushBack, NotifyOne
<1>2. \A v \in Workers : worker[v] = "none" => worker'[v] = "none"
  BY DEF PushBegin, PushOn, Fetch, Load, Store, PushBack, NotifyOne, IInv, TypeOK
<1> QED BY <1>1, <1>2 DEF Stopping

LEMMA QueueInvariance == Spec => []QueueInv
<1>1. QueueInv /\ [Next]_vars => Stopping'
  <2> SUFFICES ASSUME IInv, Stopping, [Next]_vars PROVE Stopping'
    BY DEF QueueInv
  <2>1. CASE Next
    BY <2>1, ServerStopping, WorkerStopping, CallerStopping DEF Next
  <2>2. CASE UNCHANGED vars
    BY <2>2 DEF vars, Stopping
  <2> QED BY <2>1, <2>2
<1>2. IInv /\ Stopping => QueueInv
  BY DEF QueueInv
<1> QED BY <1>1, <1>2, InitStopping, InvariantHolds, PTL DEF Spec

LEMMA StatusIs ==
    ASSUME NEW w \in Workers
    PROVE  Status[w] = StatusAt(worker[w])
  BY DEF Status

\* A step of a worker's thread as those who push tasks see it.
LEMMA StatusMoves ==
    ASSUME IInv, NEW w \in Workers, NEW label, worker' = [worker EXCEPT ![w] = label]
    PROVE  /\ Status' = [Status EXCEPT ![w] = StatusAt(label)]
           /\ StatusAt(label) = StatusAt(worker[w]) => Status' = Status
<1>1. worker \in [Workers -> {"none", "test", "wait", "tested", "asleep", "woken",
                              "pop", "execute", "leave", "ended"}]
  BY DEF IInv, TypeOK
<1>2. /\ worker'[w] = label
      /\ \A v \in Workers \ {w} : worker'[v] = worker[v]
  BY <1>1
<1>3. /\ Status = [v \in Workers |-> StatusAt(worker[v])]
      /\ Status' = [v \in Workers |-> StatusAt(worker'[v])]
  BY DEF Status
<1> HIDE DEF Workers
<1> QED BY <1>2, <1>3

\* The positions of a worker.
LEMMA Statuses ==
    /\ \A label \in {"none", "test", "wait", "tested", "asleep", "woken"} :
           StatusAt(label) = "free"
    /\ StatusAt("pop") = "due" /\ StatusAt("execute") = "busy"
    /\ StatusAt("leave") = "leaving" /\ StatusAt("ended") = "left"
  BY DEF StatusAt

LEMMA QueuesStart == Init => Tasks!Init
<1> SUFFICES ASSUME Init PROVE Tasks!Init
  OBVIOUS
<1>1. Phase = "new"
  BY DEF Init, Phase
<1>2. Asking = {}
  BY DEF Init, Asking
<1>3. Status = [w \in Workers |-> "free"]
  <2>1. \A w \in Workers : worker[w] = "none"
    BY DEF Init
  <2> HIDE DEF Workers
  <2> QED BY <2>1, Statuses DEF Status
<1>4. mDeque = [w \in Workers |-> 0]
  BY DEF Init
<1> QED BY <1>1, <1>2, <1>3, <1>4 DEF Tasks!Init

LEMMA QueuesServer ==
    ASSUME QueueInv, Server
    PROVE  [Tasks!Next]_<<Phase, Asking, mDeque, Status>>
<1>1. IInv /\ Stopping /\ quitting \in Workers
  BY DEF QueueInv, IInv, TypeOK
<1>2. Asking' = Asking /\ mDeque' = mDeque
  BY DEF Server, Spawn, Start, Stop, SetQuit, NotifyAll, Join, Asking
<1>3. Status' = Status
  <2>1. CASE Spawn
    <3>1. worker' = [worker EXCEPT ![quitting] = "test"] /\ worker[quitting] = "none"
      BY <1>1, <2>1 DEF Spawn, Stopping
    <3>2. StatusAt("test") = StatusAt(worker[quitting])
      BY <3>1, Statuses
    <3> QED BY <1>1, <3>1, <3>2, StatusMoves
  <2>2. CASE NotifyAll
    <3>1. CASE worker[quitting] = "asleep"
      <4>1. worker' = [worker EXCEPT ![quitting] = "wait"]
        BY <2>2, <3>1 DEF NotifyAll
      <4>2. StatusAt("wait") = StatusAt(worker[quitting])
        BY <3>1, Statuses
      <4> QED BY <1>1, <4>1, <4>2, StatusMoves
    <3>2. CASE worker[quitting] # "asleep"
      <4>1. worker' = worker
        BY <2>2, <3>2 DEF NotifyAll
      <4> QED BY <4>1 DEF Status
    <3> QED BY <3>1, <3>2
  <2>3. CASE Start \/ Stop \/ SetQuit \/ Join
    <3>1. worker' = worker
      BY <2>3 DEF Start, Stop, SetQuit, Join
    <3> QED BY <3>1 DEF Status
  <2> QED BY <2>1, <2>2, <2>3 DEF Server
<1>4. CASE Start
  <2>1. mState = "INITIALIZED" /\ mState' = "RUNNING"
    BY <1>1, <1>4 DEF Start, Stopping
  <2>2. Phase = "new" /\ Phase' = "open"
    BY <2>1 DEF Phase
  <2> QED BY <1>2, <1>3, <2>2 DEF Tasks!Next, Tasks!Open
<1>5. CASE Stop
  <2>1. mState \in {"INITIALIZED", "RUNNING"} /\ mState' = "STOPPED"
    BY <1>1, <1>5 DEF Stop, Stopping
  <2>2. Phase \in {"new", "open"} /\ Phase' = "closed"
    BY <2>1 DEF Phase
  <2> QED BY <1>2, <1>3, <2>2 DEF Tasks!Next, Tasks!Close
<1>6. CASE Spawn
  <2>1. mState = "CREATED" /\ mState' \in {"CREATED", "INITIALIZED"}
    BY <1>1, <1>6 DEF Spawn, Stopping
  <2>2. Phase' = Phase
    BY <2>1 DEF Phase
  <2> QED BY <1>2, <1>3, <2>2
<1>7. CASE SetQuit \/ NotifyAll \/ Join
  <2>1. mState' = mState
    BY <1>7 DEF SetQuit, NotifyAll, Join
  <2>2. Phase' = Phase
    BY <2>1 DEF Phase
  <2> QED BY <1>2, <1>3, <2>2
<1> QED BY <1>4, <1>5, <1>6, <1>7 DEF Server

LEMMA QueuesWorker ==
    ASSUME QueueInv, NEW w \in Workers, RunInThread(w) \/ SpuriousWake(w)
    PROVE  [Tasks!Next]_<<Phase, Asking, mDeque, Status>>
<1>1. IInv /\ Stopping /\ PopsATask /\ mDeque[w] \in Nat
  BY DEF QueueInv, IInv, TypeOK
<1>2. Phase' = Phase /\ Asking' = Asking
  BY DEF RunInThread, Test, Wait, Sleep, PopFront, Execute, Leave, SpuriousWake,
         Phase, Asking
<1>3. CASE Wait(w) \/ Sleep(w) \/ SpuriousWake(w)
  <2>1. PICK label \in {"woken", "tested", "asleep", "wait"} :
          worker' = [worker EXCEPT ![w] = label]
    BY <1>3 DEF Wait, Sleep, SpuriousWake
  <2>2. worker[w] \in {"wait", "tested", "asleep"} /\ mDeque' = mDeque
    BY <1>3 DEF Wait, Sleep, SpuriousWake
  <2>3. Status' = Status
    <3>1. StatusAt(label) = StatusAt(worker[w])
      BY <2>1, <2>2, Statuses
    <3> QED BY <1>1, <2>1, <3>1, StatusMoves
  <2> QED BY <1>2, <2>2, <2>3
<1>4. CASE Test(w)
  <2>1. worker[w] \in {"test", "woken"} /\ mDeque' = mDeque
    BY <1>4 DEF Test
  <2>2. StatusAt(worker[w]) = "free"
    BY <2>1, Statuses
  <2>3. CASE ~Serves(w)
    <3>1. worker' = [worker EXCEPT ![w] = "leave"]
      BY <1>4, <2>3 DEF Test
    <3>2. Status[w] = "free" /\ Status' = [Status EXCEPT ![w] = "leaving"]
      <4>1. StatusAt("leave") = "leaving"
        BY Statuses
      <4>2. Status[w] = "free"
        BY <2>2, StatusIs
      <4>3. Status' = [Status EXCEPT ![w] = "leaving"]
        BY <1>1, <2>2, <3>1, <4>1, StatusMoves
      <4> QED BY <4>2, <4>3
    <3>3. mState # "RUNNING"
      BY <1>1, <2>3 DEF Stopping
    <3>4. Phase # "open"
      BY <3>3 DEF Phase
    <3>5. Tasks!Resign(w)
      BY <1>2, <2>1, <3>2, <3>4 DEF Tasks!Resign, Tasks!Becomes
    <3> QED BY <3>5 DEF Tasks!Next
  <2>4. CASE Serves(w) /\ worker[w] = "test"
    <3>1. worker' = [worker EXCEPT ![w] = "wait"]
      BY <1>4, <2>4 DEF Test
    <3>2. Status' = Status
      <4>1. StatusAt("wait") = StatusAt(worker[w])
        BY <2>2, Statuses
      <4> QED BY <1>1, <3>1, <4>1, StatusMoves
    <3> QED BY <1>2, <2>1, <3>2
  <2>5. CASE Serves(w) /\ worker[w] = "woken"
    <3>1. worker' = [worker EXCEPT ![w] = "pop"]
      BY <1>4, <2>5 DEF Test
    <3>2. Status[w] = "free" /\ Status' = [Status EXCEPT ![w] = "due"]
      <4>1. StatusAt("pop") = "due"
        BY Statuses
      <4>2. Status[w] = "free"
        BY <2>2, StatusIs
      <4>3. Status' = [Status EXCEPT ![w] = "due"]
        BY <1>1, <2>2, <3>1, <4>1, StatusMoves
      <4> QED BY <4>2, <4>3
    <3>3. mDeque[w] > 0
      BY <1>1, <2>5 DEF PopsATask
    <3>4. Phase = "open"
      BY <2>5 DEF Phase
    <3>5. Tasks!Commit(w)
      BY <1>2, <2>1, <3>2, <3>3, <3>4 DEF Tasks!Commit, Tasks!Becomes
    <3> QED BY <3>5 DEF Tasks!Next
  <2> QED BY <2>1, <2>3, <2>4, <2>5
<1>5. CASE PopFront(w)
  <2>1. /\ worker[w] = "pop" /\ worker' = [worker EXCEPT ![w] = "execute"]
        /\ mDeque' = [mDeque EXCEPT ![w] = @ - 1]
    BY <1>5 DEF PopFront
  <2>2. Status[w] = "due" /\ Status' = [Status EXCEPT ![w] = "busy"]
    <3>1. StatusAt(worker[w]) = "due" /\ StatusAt("execute") = "busy"
      BY <2>1, Statuses
    <3>2. Status[w] = "due"
      BY <3>1, StatusIs
    <3>3. Status' = [Status EXCEPT ![w] = "busy"]
      BY <1>1, <2>1, <3>1, StatusMoves
    <3> QED BY <3>2, <3>3
  <2>3. mDeque[w] > 0
    BY <1>1, <2>1 DEF PopsATask
  <2>4. Tasks!Take(w)
    BY <1>2, <2>1, <2>2, <2>3 DEF Tasks!Take, Tasks!Becomes
  <2> QED BY <2>4 DEF Tasks!Next
<1>6. CASE Execute(w)
  <2>1. /\ worker[w] = "execute" /\ worker' = [worker EXCEPT ![w] = "test"]
        /\ mDeque' = mDeque
    BY <1>6 DEF Execute
  <2>2. Status[w] = "busy" /\ Status' = [Status EXCEPT ![w] = "free"]
    <3>1. StatusAt(worker[w]) = "busy" /\ StatusAt("test") = "free"
      BY <2>1, Statuses
    <3>2. Status[w] = "busy"
      BY <3>1, StatusIs
    <3>3. Status' = [Status EXCEPT ![w] = "free"]
      BY <1>1, <2>1, <3>1, StatusMoves
    <3> QED BY <3>2, <3>3
  <2>3. Tasks!Finish(w)
    BY <1>2, <2>1, <2>2 DEF Tasks!Finish, Tasks!Becomes
  <2> QED BY <2>3 DEF Tasks!Next
<1>7. CASE Leave(w)
  <2>1. /\ worker[w] = "leave" /\ worker' = [worker EXCEPT ![w] = "ended"]
        /\ mDeque' = [mDeque EXCEPT ![w] = 0]
    BY <1>7 DEF Leave
  <2>2. Status[w] = "leaving" /\ Status' = [Status EXCEPT ![w] = "left"]
    <3>1. StatusAt(worker[w]) = "leaving" /\ StatusAt("ended") = "left"
      BY <2>1, Statuses
    <3>2. Status[w] = "leaving"
      BY <3>1, StatusIs
    <3>3. Status' = [Status EXCEPT ![w] = "left"]
      BY <1>1, <2>1, <3>1, StatusMoves
    <3> QED BY <3>2, <3>3
  <2>3. Tasks!Leave(w)
    BY <1>2, <2>1, <2>2 DEF Tasks!Leave, Tasks!Becomes
  <2> QED BY <2>3 DEF Tasks!Next
<1> QED BY <1>3, <1>4, <1>5, <1>6, <1>7 DEF RunInThread

LEMMA QueuesCaller ==
    ASSUME QueueInv, NEW c \in Callers, PushBegin(c) \/ PushOn(c)
    PROVE  [Tasks!Next]_<<Phase, Asking, mDeque, Status>>
<1>1. /\ IInv /\ index[c] \in Workers
      /\ caller \in [Callers -> {"idle", "fetch", "load", "store", "push", "notify"}]
  BY DEF QueueInv, IInv, TypeOK
<1>2. Phase' = Phase
  BY DEF PushBegin, PushOn, Fetch, Load, Store, PushBack, NotifyOne, Phase
<1>3. CASE PushBegin(c)
  <2>1. /\ caller[c] = "idle" /\ caller' = [caller EXCEPT ![c] = "fetch"]
        /\ mState = "RUNNING" /\ mDeque' = mDeque /\ worker' = worker
    BY <1>3 DEF PushBegin
  <2>2. Phase = "open" /\ Status' = Status
    BY <2>1 DEF Phase, Status
  <2>3. c \notin Asking /\ Asking' = Asking \cup {c}
    BY <1>1, <2>1 DEF Asking
  <2>4. Tasks!Ask(c)
    BY <1>2, <2>1, <2>2, <2>3 DEF Tasks!Ask
  <2> QED BY <2>4 DEF Tasks!Next
<1>4. CASE PushBack(c) /\ main # "gone"
  <2>1. /\ caller[c] = "push" /\ caller' = [caller EXCEPT ![c] = "notify"]
        /\ mDeque' = [mDeque EXCEPT ![index[c]] = @ + 1] /\ worker' = worker
    BY <1>4 DEF PushBack
  <2>2. Status' = Status
    BY <2>1 DEF Status
  <2>3. c \in Asking /\ Asking' = Asking \ {c}
    BY <1>1, <2>1 DEF Asking
  <2>4. Tasks!Put(c, index[c])
    BY <1>2, <2>1, <2>2, <2>3 DEF Tasks!Put
  <2> QED BY <1>1, <2>4 DEF Tasks!Next
<1>5. CASE Fetch(c) \/ Load(c) \/ Store(c) \/ (PushBack(c) /\ main = "gone")
  <2>1. /\ caller[c] \in {"fetch", "load", "store", "push"}
        /\ caller'[c] \in {"fetch", "load", "store", "push"}
        /\ \A d \in Callers \ {c} : caller'[d] = caller[d]
        /\ mDeque' = mDeque /\ worker' = worker
    BY <1>1, <1>5 DEF Fetch, Load, Store, PushBack
  <2>2. Asking' = Asking /\ Status' = Status
    BY <2>1 DEF Asking, Status
  <2> QED BY <1>2, <2>1, <2>2
<1>6. CASE NotifyOne(c)
  <2>1. /\ caller[c] = "notify" /\ caller'[c] \in {"notify", "idle"}
        /\ \A d \in Callers \ {c} : caller'[d] = caller[d]
        /\ mDeque' = mDeque
    BY <1>1, <1>6 DEF NotifyOne
  <2>2. Asking' = Asking
    BY <2>1 DEF Asking
  <2>3. \/ worker' = worker
        \/ worker[index[c]] = "asleep" /\ worker' = [worker EXCEPT ![index[c]] = "wait"]
    BY <1>6 DEF NotifyOne
  <2>4. CASE worker' = worker
    BY <1>2, <2>1, <2>2, <2>4 DEF Status
  <2>5. CASE worker[index[c]] = "asleep" /\ worker' = [worker EXCEPT ![index[c]] = "wait"]
    <3>1. Status' = Status
      <4>1. StatusAt("wait") = StatusAt(worker[index[c]])
        BY <2>5, Statuses
      <4> QED BY <1>1, <2>5, <4>1, StatusMoves
    <3> QED BY <1>2, <2>1, <2>2, <3>1
  <2> QED BY <2>3, <2>4, <2>5
<1> QED BY <1>3, <1>4, <1>5, <1>6 DEF PushOn

\* For any number of workers, callers and tasks, the deques with their mutexes,
\* flags and notices, the index that is reduced in steps of its own, and the
\* server's thread implement the queues of TaskQueue.
THEOREM TasksImplemented == Spec => ImplementsTasks
<1>1. QueueInv /\ [Next]_vars => [Tasks!Next]_<<Phase, Asking, mDeque, Status>>
  <2> SUFFICES ASSUME QueueInv, [Next]_vars
               PROVE  [Tasks!Next]_<<Phase, Asking, mDeque, Status>>
    OBVIOUS
  <2>1. CASE Next
    BY <2>1, QueuesServer, QueuesWorker, QueuesCaller DEF Next
  <2>2. CASE UNCHANGED vars
    BY <2>2 DEF vars, Phase, Asking, Status
  <2> QED BY <2>1, <2>2
<1> QED
  BY <1>1, QueuesStart, QueueInvariance, PTL
     DEF Spec, ImplementsTasks, Tasks!Spec, Tasks!vars
=============================================================================
