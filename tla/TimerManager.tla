---------------------------- MODULE TimerManager ----------------------------
(***************************************************************************)
(* The timers of an agent (src/timer/Timer.cpp, TimerManager.cpp).  A      *)
(* caller creates a timer, which enters mTimerMap under a new id, and      *)
(* starts it: a coroutine then waits, runs the task, and waits again while *)
(* the rate is positive; when it ends it takes the timer out of the map    *)
(* and recycles the id.  Callers cancel one timer or all of them at any    *)
(* moment, from other threads or from within a task.                       *)
(*                                                                         *)
(* Time is abstracted away: a wait may end at any moment.  Of delay and    *)
(* rate only the sign matters.                                             *)
(***************************************************************************)
EXTENDS Naturals, FiniteSets, Sequences

CONSTANTS
    MaxTimers,  \* bound: timers ever created
    MaxRuns     \* bound: runs of a task

ASSUME BoundsAssumption == MaxTimers \in Nat /\ MaxRuns \in Nat

Timers == 1 .. MaxTimers
Ids == 1 .. MaxTimers
None == 0

VARIABLES
    mTimerMap,          \* id -> timer, or None
    mHashSet, mNext,    \* the allocator of ids
    created,            \* number of timers created
    mID,                \* each timer's id,
    delayed, repeats,   \*   whether its delay, its rate is positive,
    managed,            \*   whether it still points to its manager,
    phase,              \*   where its coroutine is,
    runs,               \*   and how often its task began;
    cancelled,          \* timers cancelled, whatever they were doing
    hit                 \* timers whose wait was cancelled

shape == <<mID, delayed, repeats>>
registry == <<mTimerMap, mHashSet, mNext>>
progress == <<phase, runs>>
vars == <<registry, created, shape, managed, progress, cancelled, hit>>

Init ==
    /\ mTimerMap = [i \in Ids |-> None]
    /\ mHashSet = {} /\ mNext = 0
    /\ created = 0
    /\ mID = [t \in Timers |-> None]
    /\ delayed = [t \in Timers |-> FALSE]
    /\ repeats = [t \in Timers |-> FALSE]
    /\ managed = [t \in Timers |-> FALSE]
    /\ phase = [t \in Timers |-> "none"]
    /\ runs = [t \in Timers |-> 0]
    /\ cancelled = {}
    /\ hit = {}

----------------------------------------------------------------------------
Enter(t, p) == phase' = [phase EXCEPT ![t] = p]

\* Mutant: a wait whose error is ignored.
InterruptNothing(timers) ==
    /\ cancelled' = cancelled \cup timers
    /\ hit' = hit \cup {t \in timers : phase[t] = "waiting"}
    /\ UNCHANGED phase

\* A wait that is cancelled completes with an error, and the loop is left; a
\* cancel finds nothing to cancel while the coroutine does not wait.
Interrupt(timers) ==
    /\ phase' = [t \in Timers |-> IF t \in timers /\ phase[t] = "waiting"
                                  THEN "ending" ELSE phase[t]]
    /\ cancelled' = cancelled \cup timers
    /\ hit' = hit \cup {t \in timers : phase[t] = "waiting"}

RunTask(t) ==
    /\ runs[t] < MaxRuns
    /\ runs' = [runs EXCEPT ![t] = @ + 1]
    /\ Enter(t, "running")

\* Mutant: a fresh id that is not counted.
IssueForgotten(id) == mHashSet' = mHashSet \ {id} /\ UNCHANGED mNext

Issue(id) ==
    /\ mHashSet' = mHashSet \ {id}
    /\ mNext' = IF mHashSet # {} THEN mNext ELSE id

\* Mutants: an id recycled although its timer stays in the map, an end without
\* RemoveTimer, CancelAll that recycles the ids of timers that still run.
EndRecycleOnly(t) ==
    /\ phase[t] = "removing"
    /\ mHashSet' = mHashSet \cup {mID[t]}
    /\ Enter(t, "ended")
    /\ UNCHANGED <<mTimerMap, mNext, created, shape, managed, runs, cancelled, hit>>

EndWithoutRemove(t) ==
    /\ phase[t] = "ending"
    /\ Enter(t, "ended")
    /\ UNCHANGED <<registry, created, shape, managed, runs,
                   cancelled, hit>>

CancelAllRecycles ==
    /\ managed' = [t \in Timers |-> FALSE]
    /\ mHashSet' = mHashSet \cup {i \in Ids : mTimerMap[i] # None}
    /\ mTimerMap' = [i \in Ids |-> None]
    /\ Interrupt({mTimerMap[i] : i \in Ids} \ {None})
    /\ UNCHANGED <<mNext, created, shape, runs>>

----------------------------------------------------------------------------
\* CreateTimer(task, delay, rate): AllocateTS, then the insertion.
CreateTimer ==
    /\ created < MaxTimers
    /\ \E id \in Ids, isDelayed, isRepeating \in BOOLEAN :
        LET t == created + 1 IN
        /\ IF mHashSet # {} THEN id \in mHashSet ELSE id = mNext + 1
        /\ Issue(id)
        /\ created' = t
        /\ mID' = [mID EXCEPT ![t] = id]
        /\ delayed' = [delayed EXCEPT ![t] = isDelayed]
        /\ repeats' = [repeats EXCEPT ![t] = isRepeating]
        /\ managed' = [managed EXCEPT ![t] = TRUE]
        /\ mTimerMap' = IF mTimerMap[id] = None
                        THEN [mTimerMap EXCEPT ![id] = t] ELSE mTimerMap
        /\ Enter(t, IF mTimerMap[id] = None THEN "created" ELSE "none")
    /\ UNCHANGED <<runs, cancelled, hit>>

\* handle.Get()->Start(): the coroutine is spawned.
Start(t) ==
    /\ phase[t] = "created"
    /\ Enter(t, "starting")
    /\ UNCHANGED <<registry, created, shape, managed, runs,
                   cancelled, hit>>

\* while (mRate > 0): the timer has been armed, the coroutine waits or ends.
WaitOrEnd(t) == Enter(t, IF repeats[t] THEN "waiting" ELSE "ending")

\* The coroutine begins: with a delay it arms the timer, else it runs the task.
Begin(t) ==
    /\ phase[t] = "starting"
    /\ IF delayed[t]
       THEN WaitOrEnd(t) /\ UNCHANGED runs
       ELSE RunTask(t)
    /\ UNCHANGED <<registry, created, shape, managed, cancelled, hit>>

\* The wait ends without an error.
Expire(t) ==
    /\ phase[t] = "waiting"
    /\ RunTask(t)
    /\ UNCHANGED <<registry, created, shape, managed, cancelled, hit>>

\* The task returns and the timer is armed again, or the task throws.
TaskEnds(t) ==
    /\ phase[t] = "running"
    /\ WaitOrEnd(t) \/ Enter(t, "ending")
    /\ UNCHANGED <<registry, created, shape, managed, runs,
                   cancelled, hit>>

\* if (self->mManager): not if CancelAll has cleared it.
EndCheck(t) ==
    /\ phase[t] = "ending"
    /\ Enter(t, IF managed[t] THEN "removing" ELSE "ended")
    /\ UNCHANGED <<registry, created, shape, managed, runs,
                   cancelled, hit>>

\* RemoveTimer(mID): whatever timer has the id by now is erased, if any.  If
\* CancelAll has come since the test, mManager is null when it is read again,
\* and the program fails; the behaviours that go on are those of a build that
\* reads it once.
RemoveTimer(t) ==
    /\ phase[t] = "removing"
    /\ IF mTimerMap[mID[t]] # None
       THEN /\ mTimerMap' = [mTimerMap EXCEPT ![mID[t]] = None]
            /\ mHashSet' = mHashSet \cup {mID[t]}
       ELSE UNCHANGED <<mTimerMap, mHashSet>>
    /\ Enter(t, "ended")
    /\ UNCHANGED <<mNext, created, shape, managed, runs,
                   cancelled, hit>>

\* CancelTimer(tid): the timer the id belongs to, if there is one.
CancelTimer(id) ==
    /\ mTimerMap[id] # None
    /\ Interrupt({mTimerMap[id]})
    /\ UNCHANGED <<registry, created, shape, managed, runs>>

\* CancelAll, also the destructor: timers lose their manager, and stay in the
\* map under their ids.
CancelAll ==
    /\ LET all == {mTimerMap[i] : i \in Ids} \ {None} IN
        /\ managed' = [t \in Timers |-> managed[t] /\ t \notin all]
        /\ Interrupt(all)
    /\ UNCHANGED <<registry, created, shape, runs>>

Coroutine(t) == Begin(t) \/ Expire(t) \/ TaskEnds(t) \/ EndCheck(t)
                \/ RemoveTimer(t)

Next ==
    \/ CreateTimer
    \/ \E t \in Timers : Start(t) \/ Coroutine(t)
    \/ \E id \in Ids : CancelTimer(id)
    \/ CancelAll

\* The io_context runs the coroutines that are ready; timers expire.
Spec == Init /\ [][Next]_vars /\ \A t \in Timers : WF_vars(Coroutine(t))

----------------------------------------------------------------------------
TypeOK ==
    /\ mTimerMap \in [Ids -> 0 .. created]
    /\ created \in 0 .. MaxTimers
    /\ mNext \in 0 .. created
    /\ mHashSet \subseteq 1 .. mNext
    /\ mID \in [Timers -> 0 .. mNext]
    /\ delayed \in [Timers -> BOOLEAN] /\ repeats \in [Timers -> BOOLEAN]
    /\ managed \in [Timers -> BOOLEAN]
    /\ phase \in [Timers -> {"none", "created", "starting", "waiting",
                             "running", "ending", "removing", "ended"}]
    /\ runs \in [Timers -> 0 .. MaxRuns]
    /\ cancelled \subseteq Timers /\ hit \subseteq cancelled

Alive == {t \in Timers : phase[t] \in {"created", "starting", "waiting",
                                       "running", "ending", "removing"}}

\* As long as a timer can run its task, its id leads to it and to no other
\* timer: a handle or id never cancels, and an ending coroutine never removes,
\* somebody else's timer.  The manager never meets an id twice.
IdLeadsToTimer ==
    /\ \A t \in Alive : mTimerMap[mID[t]] = t /\ mID[t] \notin mHashSet
    /\ \A t \in 1 .. created : phase[t] # "none"

\* A cancel that finds the timer waiting is final: its task never runs again.
CancelledWaitNeverRuns ==
    [][\A t \in hit : runs'[t] = runs[t]]_vars

\* A timer whose coroutine has ended is no longer in the map, so that its id
\* can be used again, unless CancelAll took its manager away: those stay.
LeavesTheMap ==
    \A t \in Timers :
        phase[t] = "ended" /\ managed[t] => \A i \in Ids : mTimerMap[i] # t

\* The ids of the timers that have not come to their end.
IdsHeld == {mID[t] : t \in Alive}

\* What IdentAllocator asks of its client: an id that RemoveTimer gives back is
\* in use, is the ended timer's alone and nobody's afterwards, and no id is given
\* to a timer while it is in use, by whatever timer or none.
IdsUsedWell ==
    /\ \A i \in IdsHeld' \ IdsHeld : i \notin (1 .. mNext) \ mHashSet
    /\ \A t \in Timers :
         RemoveTimer(t) => /\ mID[t] \in (1 .. mNext) \ mHashSet
                           /\ mID[t] \in IdsHeld \ IdsHeld'

UsesIdsAsAgreed == [][IdsUsedWell]_vars
=============================================================================
