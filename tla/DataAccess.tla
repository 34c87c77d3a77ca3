------------------------------ MODULE DataAccess ------------------------------
(***************************************************************************)
(* Database access (src/database/DataAccess.cpp): PushTask deals tasks     *)
(* round robin to worker threads, each of which waits on a queue of its    *)
(* own (src/base/ConcurrentDeque.h: a deque, a mutex, a condition variable *)
(* and the flag bQuit), from Initial until Stop.                           *)
(*                                                                         *)
(* PushBack and Wait change and test the deque under mMutex; Quit sets     *)
(* bQuit and notifies without it, so that a worker between its test and    *)
(* its sleep does not hear of it.  A worker that is started before the     *)
(* module is RUNNING and tests the state at once ends for good.  PushTask  *)
(* advances mNextIndex and reduces it in separate steps, each atomic.      *)
(*                                                                         *)
(* The adapter (AcquireContext, Initial, Stop) and what a task does are    *)
(* external: a worker takes any time before its first test, a task ends or *)
(* throws, which RunInThread catches.                                      *)
(***************************************************************************)
EXTENDS Naturals, FiniteSets

CONSTANTS
    NumWorkers,     \* workers (2 in the code)
    Callers,        \* threads that call PushTask
    MaxTasks        \* bound: tasks pushed

ASSUME NumWorkersAssumption == NumWorkers \in Nat \ {0}
ASSUME CallersAssumption == IsFiniteSet(Callers)
ASSUME MaxTasksAssumption == MaxTasks \in Nat

Workers == 0 .. NumWorkers - 1

VARIABLES
    mState,         \* state of the module
    main,           \* what the thread of the server is doing
    quitting,       \* the worker Stop or the destructor has come to
    mNextIndex,     \* atomic, reduced modulo NumWorkers later on
    mDeque,         \* number of tasks queued for each worker
    bQuit,          \* each queue's flag
    worker,         \* position of each worker thread
    caller,         \* position of each caller
    index, reduced, \* what it has fetched, and what it will store
    pushed,         \* number of tasks pushed or refused
    overslept,      \* workers that fell asleep beside the notice to quit
    crashed         \* mWorkerList was indexed out of its range, or after its
                    \* destruction

server == <<mState, main, quitting>>
queues == <<mDeque, bQuit>>
threads == <<worker, overslept>>
calls == <<caller, index, reduced, pushed>>
vars == <<server, mNextIndex, queues, threads, calls, crashed>>

Init ==
    /\ mState = "CREATED" /\ main = "spawn" /\ quitting = 0
    /\ mNextIndex = 0
    /\ mDeque = [w \in Workers |-> 0]
    /\ bQuit = [w \in Workers |-> FALSE]
    /\ worker = [w \in Workers |-> "none"]
    /\ overslept = {}
    /\ caller = [c \in Callers |-> "idle"]
    /\ index = [c \in Callers |-> 0] /\ reduced = [c \in Callers |-> 0]
    /\ pushed = 0
    /\ crashed = FALSE

WorkerAt(w, label) == worker' = [worker EXCEPT ![w] = label]
CallerAt(c, label) == caller' = [caller EXCEPT ![c] = label]

\* A call returns, and its locals are gone.
PushEnds(c) ==
    /\ CallerAt(c, "idle")
    /\ index' = [index EXCEPT ![c] = 0]

\* Mutant of Locked: Wait tests without mMutex.
NeverLocked(w) == FALSE

\* Wait holds mMutex from its test to its sleep; the other holders are single
\* steps.
Locked(w) == worker[w] = "tested"

----------------------------------------------------------------------------
\* Mutants: the index is reduced modulo one more, Quit sets the flag and
\* notifies nobody, PushBack notifies nobody.
LoadWide(c) ==
    /\ caller[c] = "load"
    /\ reduced' = [reduced EXCEPT ![c] = mNextIndex % (NumWorkers + 1)]
    /\ CallerAt(c, "store")
    /\ UNCHANGED <<server, mNextIndex, queues, threads, index, pushed, crashed>>

NotifyNobody ==
    /\ main = "notify"
    /\ overslept' = IF Locked(quitting) THEN overslept \cup {quitting} ELSE overslept
    /\ IF quitting + 1 < NumWorkers
       THEN quitting' = quitting + 1 /\ main' = "quit"
       ELSE quitting' = 0 /\ main' = "join"
    /\ UNCHANGED <<mState, mNextIndex, queues, worker, calls, crashed>>

NotifyNot(c) ==
    /\ caller[c] = "notify"
    /\ PushEnds(c)
    /\ UNCHANGED <<server, mNextIndex, queues, threads, reduced, pushed, crashed>>

----------------------------------------------------------------------------
\* The server's thread: Initial, Start, Stop, the destructor.

Spawn ==
    /\ main = "spawn"
    /\ WorkerAt(quitting, "test")
    /\ IF quitting + 1 < NumWorkers
       THEN quitting' = quitting + 1 /\ UNCHANGED <<mState, main>>
       ELSE quitting' = 0 /\ main' = "initialized" /\ mState' = "INITIALIZED"
    /\ UNCHANGED <<mNextIndex, queues, overslept, calls, crashed>>

\* IModuleBase::Start.
Start ==
    /\ main = "initialized"
    /\ main' = "running" /\ mState' = "RUNNING"
    /\ UNCHANGED <<quitting, mNextIndex, queues, threads, calls, crashed>>

Stop ==
    /\ main \in {"initialized", "running"}
    /\ main' = "quit" /\ mState' = "STOPPED"
    /\ UNCHANGED <<quitting, mNextIndex, queues, threads, calls, crashed>>

\* Quit of one queue after the other: the flag, and then notify_all.
SetQuit ==
    /\ main = "quit"
    /\ bQuit' = [bQuit EXCEPT ![quitting] = TRUE]
    /\ main' = "notify"
    /\ UNCHANGED <<mState, quitting, mNextIndex, mDeque, threads, calls, crashed>>

NotifyAll ==
    /\ main = "notify"
    /\ IF worker[quitting] = "asleep"
       THEN WorkerAt(quitting, "wait") ELSE UNCHANGED worker
    /\ overslept' = IF Locked(quitting) THEN overslept \cup {quitting} ELSE overslept
    /\ IF quitting + 1 < NumWorkers
       THEN quitting' = quitting + 1 /\ main' = "quit"
       ELSE quitting' = 0 /\ main' = "join"
    /\ UNCHANGED <<mState, mNextIndex, queues, calls, crashed>>

\* The destructor joins the threads and destroys the list.
Join ==
    /\ main = "join"
    /\ worker[quitting] = "ended"
    /\ IF quitting + 1 < NumWorkers
       THEN quitting' = quitting + 1 /\ UNCHANGED main
       ELSE quitting' = 0 /\ main' = "gone"
    /\ UNCHANGED <<mState, mNextIndex, queues, threads, calls, crashed>>

----------------------------------------------------------------------------
\* A worker thread.

\* The condition of the loop, and the same condition after Wait.
Serves(w) == ~bQuit[w] /\ mState = "RUNNING"

Test(w) ==
    /\ worker[w] \in {"test", "woken"}
    /\ WorkerAt(w, IF ~Serves(w) THEN "leave"
                   ELSE IF worker[w] = "test" THEN "wait" ELSE "pop")
    /\ UNCHANGED <<server, mNextIndex, queues, overslept, calls, crashed>>

\* Wait: the predicate, under mMutex ...
Wait(w) ==
    /\ worker[w] = "wait"
    /\ WorkerAt(w, IF mDeque[w] > 0 \/ bQuit[w] THEN "woken" ELSE "tested")
    /\ UNCHANGED <<server, mNextIndex, queues, overslept, calls, crashed>>

\* ... and the sleep, which gives it up.
Sleep(w) ==
    /\ worker[w] = "tested"
    /\ WorkerAt(w, "asleep")
    /\ UNCHANGED <<server, mNextIndex, queues, overslept, calls, crashed>>

\* Condition variables may wake without a notice; Wait tests again.
SpuriousWake(w) ==
    /\ worker[w] = "asleep"
    /\ WorkerAt(w, "wait")
    /\ UNCHANGED <<server, mNextIndex, queues, overslept, calls, crashed>>

PopFront(w) ==
    /\ worker[w] = "pop"
    /\ mDeque' = [mDeque EXCEPT ![w] = @ - 1]
    /\ WorkerAt(w, "execute")
    /\ UNCHANGED <<server, mNextIndex, bQuit, overslept, calls, crashed>>

Execute(w) ==
    /\ worker[w] = "execute"
    /\ WorkerAt(w, "test")
    /\ UNCHANGED <<server, mNextIndex, queues, overslept, calls, crashed>>

\* After the loop: what is still queued is dropped.
Leave(w) ==
    /\ worker[w] = "leave"
    /\ mDeque' = [mDeque EXCEPT ![w] = 0]
    /\ WorkerAt(w, "ended")
    /\ UNCHANGED <<server, mNextIndex, bQuit, overslept, calls, crashed>>

----------------------------------------------------------------------------
\* PushTask.

PushBegin(c) ==
    /\ caller[c] = "idle" /\ pushed < MaxTasks
    /\ mState = "RUNNING"
    /\ pushed' = pushed + 1
    /\ CallerAt(c, "fetch")
    /\ UNCHANGED <<server, mNextIndex, queues, threads, index, reduced, crashed>>

\* mWorkerList[mNextIndex++]
Fetch(c) ==
    /\ caller[c] = "fetch"
    /\ IF mNextIndex \in Workers /\ main # "gone"
       THEN /\ index' = [index EXCEPT ![c] = mNextIndex]
            /\ mNextIndex' = mNextIndex + 1
            /\ CallerAt(c, "load")
            /\ UNCHANGED crashed
       ELSE crashed' = TRUE /\ UNCHANGED <<index, mNextIndex, caller>>
    /\ UNCHANGED <<server, queues, threads, reduced, pushed>>

\* mNextIndex = mNextIndex % mWorkerList.size(): a load ...
Load(c) ==
    /\ caller[c] = "load"
    /\ reduced' = [reduced EXCEPT ![c] = mNextIndex % NumWorkers]
    /\ CallerAt(c, "store")
    /\ UNCHANGED <<server, mNextIndex, queues, threads, index, pushed, crashed>>

\* ... and a store.
Store(c) ==
    /\ caller[c] = "store"
    /\ mNextIndex' = reduced[c]
    /\ reduced' = [reduced EXCEPT ![c] = 0]
    /\ CallerAt(c, "push")
    /\ UNCHANGED <<server, queues, threads, index, pushed, crashed>>

\* PushBack under mMutex ...
PushBack(c) ==
    /\ caller[c] = "push"
    /\ IF main = "gone"
       THEN crashed' = TRUE /\ UNCHANGED <<mDeque, caller>>
       ELSE /\ ~Locked(index[c])
            /\ mDeque' = [mDeque EXCEPT ![index[c]] = @ + 1]
            /\ CallerAt(c, "notify")
            /\ UNCHANGED crashed
    /\ UNCHANGED <<server, mNextIndex, bQuit, threads, index, reduced, pushed>>

\* ... and notify_one after it.
NotifyOne(c) ==
    /\ caller[c] = "notify"
    /\ IF main = "gone"
       THEN crashed' = TRUE /\ UNCHANGED <<worker, caller, index>>
       ELSE /\ IF worker[index[c]] = "asleep"
               THEN WorkerAt(index[c], "wait") ELSE UNCHANGED worker
            /\ PushEnds(c)
            /\ UNCHANGED crashed
    /\ UNCHANGED <<server, mNextIndex, queues, overslept, reduced, pushed>>

----------------------------------------------------------------------------
Server == Spawn \/ Start \/ Stop \/ SetQuit \/ NotifyAll \/ Join

RunInThread(w) ==
    Test(w) \/ Wait(w) \/ Sleep(w) \/ PopFront(w) \/ Execute(w) \/ Leave(w)

PushOn(c) == Fetch(c) \/ Load(c) \/ Store(c) \/ PushBack(c) \/ NotifyOne(c)

Next ==
    /\ ~crashed
    /\ \/ Server
       \/ \E w \in Workers : RunInThread(w) \/ SpuriousWake(w)
       \/ \E c \in Callers : PushBegin(c) \/ PushOn(c)

\* Threads run; a call that has begun goes on; Stop, once called, goes on.
\* Nobody has to call PushTask or Stop, and no wake-up is ever spurious.
Fairness ==
    /\ WF_vars(~crashed /\ (SetQuit \/ NotifyAll \/ Join))
    /\ \A w \in Workers : WF_vars(~crashed /\ RunInThread(w))
    /\ \A c \in Callers : WF_vars(~crashed /\ PushOn(c))

Spec == Init /\ [][Next]_vars /\ Fairness
----------------------------------------------------------------------------
TypeOK ==
    /\ mState \in {"CREATED", "INITIALIZED", "RUNNING", "STOPPED"}
    /\ main \in {"spawn", "initialized", "running", "quit", "notify", "join", "gone"}
    /\ quitting \in Workers
    /\ mNextIndex \in Nat
    /\ mDeque \in [Workers -> Nat]
    /\ bQuit \in [Workers -> BOOLEAN]
    /\ worker \in [Workers -> {"none", "test", "wait", "tested",
                    "asleep", "woken", "pop", "execute", "leave", "ended"}]
    /\ overslept \subseteq Workers
    /\ caller \in [Callers -> {"idle", "fetch", "load", "store", "push", "notify"}]
    /\ index \in [Callers -> Workers]
    /\ reduced \in [Callers -> Workers]
    /\ pushed \in 0 .. MaxTasks
    /\ crashed \in BOOLEAN

\* No wake-up of a push is lost: a worker that sleeps on a queue with tasks is
\* about to be notified by the caller that filled it.  PushBack notifies after
\* it has released mMutex; that is enough because Wait holds mMutex from its
\* test to its sleep.
NoSleepOnWork ==
    \A w \in Workers :
        worker[w] = "asleep" /\ mDeque[w] > 0 =>
            \E c \in Callers : caller[c] = "notify" /\ index[c] = w

\* mNextIndex leaves the range of mWorkerList only while calls of PushTask
\* overlap: with none between its increment and its reduction, it is an index.
\* (With one there, another may fetch an index beyond the list.)
IndexInRangeBetweenCalls ==
    (\A c \in Callers : caller[c] \notin {"load", "store"}) => mNextIndex \in Workers

\* After Stop every worker thread ends, so that the destructor can join it,
\* unless it fell asleep between its test and the notice of Quit.
StopEndsWorkers ==
    \A w \in Workers :
        mState = "STOPPED" ~> worker[w] = "ended" \/ w \in overslept \/ crashed

\* The tasks in the queue of a worker in service are taken out and executed,
\* every one, unless the module stops.
QueuedTasksAreExecuted ==
    \A w \in Workers :
        mDeque[w] > 0 /\ worker[w] \notin {"leave", "ended"}
            ~> mDeque[w] = 0 \/ mState = "STOPPED" \/ crashed

\* The module, the calls and the workers as those who push tasks see them.
Phase ==
    CASE mState = "RUNNING" -> "open"
      [] mState = "STOPPED" -> "closed"
      [] OTHER -> "new"

Asking == {c \in Callers : caller[c] \in {"fetch", "load", "store", "push"}}

StatusAt(label) ==
    CASE label = "pop" -> "due"
      [] label = "execute" -> "busy"
      [] label = "leave" -> "leaving"
      [] label = "ended" -> "left"
      [] OTHER -> "free"

Status == [w \in Workers |-> StatusAt(worker[w])]

Tasks == INSTANCE TaskQueue WITH
    phase <- Phase, asking <- Asking, waiting <- mDeque, status <- Status

\* Whatever calls, workers and Stop do to each other, and whatever wake-up
\* comes when, those who push tasks see the queues of TaskQueue: no task is
\* queued twice, executed twice or beside another of its worker, or dropped by
\* a worker in service, and each worker takes at most one task after Stop.
ImplementsTasks == Tasks!Spec
=============================================================================
