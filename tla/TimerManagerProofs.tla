-------------------------- MODULE TimerManagerProofs --------------------------
(***************************************************************************)
(* Proofs about TimerManager, for any number of timers and runs: an id     *)
(* leads to its own timer as long as that can run, a timer that has ended  *)
(* is out of the map, and the task of a timer whose wait was cancelled is  *)
(* not run again.  The manager recycles no id that it does not hold.       *)
(***************************************************************************)
EXTENDS AgentTimers, TLAPS

\* mTimerMap and the ids agree: what the map holds under an id has that id,
\* and the id is neither recycled nor fresh.
MapAgrees ==
    \A i \in Ids : mTimerMap[i] # None =>
        /\ mID[mTimerMap[i]] = i
        /\ i \notin mHashSet
        /\ i <= mNext

\* Timers that were created have an id that was issued; the others do nothing.
IdsIssued ==
    \A t \in Timers : IF t <= created THEN mID[t] \in 1 .. mNext
                                      ELSE phase[t] = "none"

\* A timer whose wait was cancelled is on its way out.
HitLeaves ==
    \A t \in hit : phase[t] \in {"ending", "removing", "ended"}

IInv == TypeOK /\ MapAgrees /\ IdsIssued /\ HitLeaves /\ IdLeadsToTimer
        /\ LeavesTheMap

----------------------------------------------------------------------------
LEMMA InitInvariant == Init => IInv
  BY BoundsAssumption
     DEF Init, IInv, TypeOK, MapAgrees, IdsIssued, HitLeaves, IdLeadsToTimer,
         LeavesTheMap, Timers, Ids, None, Alive

\* The bounds of the counters, and where ids and timers lie.
LEMMA Bounds ==
    ASSUME IInv
    PROVE  /\ created \in Nat /\ mNext \in Nat
           /\ mNext <= created /\ created <= MaxTimers
           /\ \A t \in Timers : t <= created => mID[t] \in Ids
           /\ \A t \in Alive : t <= created
           /\ \A i \in Ids : mTimerMap[i] # None => mTimerMap[i] \in 1 .. created
<1>1. /\ created \in Nat /\ mNext \in Nat
      /\ mNext <= created /\ created <= MaxTimers
  BY BoundsAssumption DEF IInv, TypeOK
<1>2. \A t \in Timers : t <= created => mID[t] \in Ids
  BY <1>1, BoundsAssumption DEF IInv, IdsIssued, Ids
<1>3. \A t \in Alive : t <= created
  BY DEF IInv, IdsIssued, Alive
<1>4. \A i \in Ids : mTimerMap[i] # None => mTimerMap[i] \in 1 .. created
  BY <1>1 DEF IInv, TypeOK, None
<1> QED BY <1>1, <1>2, <1>3, <1>4

\* What an id is that AllocateTS issues: recycled or fresh, and free.
LEMMA IssuedIdIsFree ==
    ASSUME IInv, NEW id \in Ids,
           IF mHashSet # {} THEN id \in mHashSet ELSE id = mNext + 1,
           Issue(id)
    PROVE  /\ mTimerMap[id] = None
           /\ \A t \in Alive : mID[t] # id
           /\ mNext' \in {mNext, mNext + 1}
           /\ id \in 1 .. mNext'
           /\ mHashSet' = mHashSet \ {id}
<1>1. mNext \in Nat /\ mHashSet \subseteq 1 .. mNext
  BY DEF IInv, TypeOK
<1>2. mTimerMap[id] = None
  BY <1>1 DEF IInv, MapAgrees, Ids
<1>3. \A t \in Alive : mID[t] # id
  <2> SUFFICES ASSUME NEW t \in Alive, mID[t] = id PROVE FALSE
    OBVIOUS
  <2>1. mTimerMap[id] = t
    BY DEF IInv, IdLeadsToTimer
  <2>2. t # None
    BY DEF Alive, Timers, None
  <2> QED BY <2>1, <2>2, <1>2
<1> QED BY <1>1, <1>2, <1>3 DEF Issue, Ids

LEMMA CreateStep == IInv /\ CreateTimer => IInv'
<1> SUFFICES ASSUME IInv, CreateTimer PROVE IInv'
  OBVIOUS
<1> DEFINE t == created + 1
<1>1. PICK id \in Ids, isDelayed \in BOOLEAN, isRepeating \in BOOLEAN :
        /\ IF mHashSet # {} THEN id \in mHashSet ELSE id = mNext + 1
        /\ Issue(id)
        /\ created' = t
        /\ mID' = [mID EXCEPT ![t] = id]
        /\ delayed' = [delayed EXCEPT ![t] = isDelayed]
        /\ repeats' = [repeats EXCEPT ![t] = isRepeating]
        /\ managed' = [managed EXCEPT ![t] = TRUE]
        /\ mTimerMap' = IF mTimerMap[id] = None
                        THEN [mTimerMap EXCEPT ![id] = t] ELSE mTimerMap
        /\ Enter(t, IF mTimerMap[id] = None THEN "created" ELSE "none")
  BY DEF CreateTimer
<1>2. /\ mTimerMap[id] = None
      /\ \A u \in Alive : mID[u] # id
      /\ mNext' \in {mNext, mNext + 1}
      /\ id \in 1 .. mNext'
      /\ mHashSet' = mHashSet \ {id}
  BY <1>1, IssuedIdIsFree
<1>3. /\ t \in Timers /\ t # None /\ created \in Nat /\ mNext \in Nat
      /\ created < MaxTimers
  BY BoundsAssumption DEF CreateTimer, Timers, None, IInv, TypeOK
<1>4. /\ mTimerMap' = [mTimerMap EXCEPT ![id] = t]
      /\ phase' = [phase EXCEPT ![t] = "created"]
      /\ UNCHANGED <<runs, cancelled, hit>>
  BY <1>1, <1>2 DEF CreateTimer, Enter
<1>5. phase[t] = "none" /\ mTimerMap \in [Ids -> 0 .. created]
  BY <1>3 DEF IInv, IdsIssued, TypeOK
<1>6. mNext' \in 0 .. created'
  BY <1>1, <1>2, <1>3 DEF IInv, TypeOK, Issue, Ids
<1>7. TypeOK'
  <2>1. mTimerMap' \in [Ids -> 0 .. created']
    BY <1>1, <1>3, <1>4, <1>5
  <2>2. mHashSet' \subseteq 1 .. mNext'
    BY <1>2, <1>3 DEF IInv, TypeOK
  <2>3. mID' \in [Timers -> 0 .. mNext']
    BY <1>1, <1>2, <1>3 DEF IInv, TypeOK
  <2>4. created' \in 0 .. MaxTimers
    BY <1>1, <1>3, BoundsAssumption
  <2> QED BY <1>1, <1>4, <1>6, <2>1, <2>2, <2>3, <2>4 DEF IInv, TypeOK
<1>8. \A u \in Timers : u # t => mID'[u] = mID[u] /\ phase'[u] = phase[u]
                                 /\ managed'[u] = managed[u]
  BY <1>1, <1>4 DEF IInv, TypeOK
<1>9. mID'[t] = id /\ phase'[t] = "created"
  BY <1>1, <1>3, <1>4 DEF IInv, TypeOK
<1>10. MapAgrees'
  <2> SUFFICES ASSUME NEW i \in Ids, mTimerMap'[i] # None
               PROVE  mID'[mTimerMap'[i]] = i /\ i \notin mHashSet' /\ i <= mNext'
    BY DEF MapAgrees
  <2>1. CASE i = id
    <3>1. mTimerMap'[i] = t
      BY <1>4, <1>5, <2>1
    <3> QED BY <1>2, <1>3, <1>9, <2>1, <3>1
  <2>2. CASE i # id
    <3>1. mTimerMap'[i] = mTimerMap[i]
      BY <1>4, <1>5, <2>2
    <3>2. mTimerMap[i] \in Timers /\ mTimerMap[i] # t
      <4>1. mTimerMap[i] \in 1 .. created
        BY <3>1, Bounds
      <4> QED BY <4>1, <1>3, BoundsAssumption DEF Timers
    <3>3. mID[mTimerMap[i]] = i /\ i \notin mHashSet /\ i <= mNext
      BY <3>1 DEF IInv, MapAgrees
    <3> QED BY <1>2, <1>3, <1>8, <3>1, <3>2, <3>3 DEF Ids
  <2> QED BY <2>1, <2>2
<1>11. IdsIssued'
  BY <1>1, <1>2, <1>3, <1>8, <1>9 DEF IInv, IdsIssued, Timers
<1>12. HitLeaves'
  BY <1>4, <1>5, <1>8 DEF IInv, HitLeaves, TypeOK
<1>13. IdLeadsToTimer'
  <2>1. ASSUME NEW u \in Alive'
        PROVE  mTimerMap'[mID'[u]] = u /\ mID'[u] \notin mHashSet'
    <3>1. CASE u = t
      BY <1>2, <1>3, <1>4, <1>5, <1>9, <3>1
    <3>2. CASE u # t
      <4>1. u \in Alive /\ mID'[u] = mID[u] /\ mID[u] # id
        BY <1>2, <1>8, <3>2 DEF Alive
      <4>2. mID[u] \in Ids
        BY <4>1, Bounds DEF Alive
      <4> QED BY <4>1, <4>2, <1>2, <1>4, <1>5 DEF IInv, IdLeadsToTimer
    <3> QED BY <3>1, <3>2
  <2>2. \A u \in 1 .. created' : phase'[u] # "none"
    <3>1. \A u \in 1 .. created' : u \in Timers /\ (u = t \/ u \in 1 .. created)
      BY <1>1, <1>3, BoundsAssumption DEF Timers
    <3> QED BY <3>1, <1>8, <1>9 DEF IInv, IdLeadsToTimer
  <2> QED BY <2>1, <2>2 DEF IdLeadsToTimer
<1>14. LeavesTheMap'
  BY <1>3, <1>4, <1>5, <1>8, <1>9 DEF IInv, LeavesTheMap
<1> QED BY <1>7, <1>10, <1>11, <1>12, <1>13, <1>14 DEF IInv

\* A step of one timer that leaves the map alone.
LEMMA QuietStep ==
    ASSUME IInv, NEW t \in Timers, NEW p \in {"starting", "waiting", "running",
                                               "ending", "removing", "ended"},
           phase' = [phase EXCEPT ![t] = p],
           phase[t] \notin {"none", "ended"},
           p = "ended" => ~managed[t],
           t \in hit => p \in {"ending", "removing", "ended"},
           runs' \in [Timers -> 0 .. MaxRuns],
           UNCHANGED <<registry, created, shape, managed, cancelled, hit>>
    PROVE  IInv'
<1>1. TypeOK'
  BY DEF IInv, TypeOK, registry, shape
<1>2. MapAgrees' /\ HitLeaves'
  BY DEF IInv, MapAgrees, HitLeaves, TypeOK, registry, shape
<1>3. IdsIssued'
  BY DEF IInv, IdsIssued, TypeOK, registry, shape
<1>4. IdLeadsToTimer'
  <2>1. Alive' \subseteq Alive
    BY DEF Alive, IInv, TypeOK
  <2>2. \A u \in 1 .. created' : phase'[u] # "none"
    BY DEF IInv, IdLeadsToTimer, TypeOK
  <2> QED BY <2>1, <2>2 DEF IInv, IdLeadsToTimer, registry, shape
<1>5. LeavesTheMap'
  BY DEF IInv, LeavesTheMap, TypeOK, registry
<1> QED BY <1>1, <1>2, <1>3, <1>4, <1>5 DEF IInv

LEMMA RemoveStep ==
    ASSUME IInv, NEW t \in Timers, RemoveTimer(t)
    PROVE  IInv'
<1> DEFINE i == mID[t]
<1>1. /\ phase[t] = "removing" /\ phase' = [phase EXCEPT ![t] = "ended"]
      /\ UNCHANGED <<mNext, created, shape, managed, runs, cancelled, hit>>
  BY DEF RemoveTimer, Enter
<1>2. t \in Alive /\ mTimerMap[i] = t /\ i \notin mHashSet
  BY <1>1 DEF IInv, IdLeadsToTimer, Alive
<1>3. t <= created /\ i \in 1 .. mNext
  BY <1>1 DEF IInv, IdsIssued
<1>4. i \in Ids /\ t # None
  BY <1>3, Bounds DEF Timers, None
<1>5. /\ mTimerMap' = [mTimerMap EXCEPT ![i] = None]
      /\ mHashSet' = mHashSet \cup {i}
  BY <1>2, <1>4 DEF RemoveTimer
<1>6. TypeOK'
  <2>1. mTimerMap' \in [Ids -> 0 .. created']
    <3>1. 0 \in 0 .. created
      BY Bounds
    <3> QED BY <3>1, <1>1, <1>5 DEF IInv, TypeOK, None
  <2>2. mHashSet' \subseteq 1 .. mNext'
    BY <1>1, <1>3, <1>5 DEF IInv, TypeOK
  <2>3. phase' \in [Timers -> {"none", "created", "starting", "waiting",
                               "running", "ending", "removing", "ended"}]
    BY <1>1 DEF IInv, TypeOK
  <2> HIDE DEF i
  <2> QED BY <1>1, <2>1, <2>2, <2>3 DEF IInv, TypeOK, shape
<1>7. MapAgrees'
  <2> SUFFICES ASSUME NEW j \in Ids, mTimerMap'[j] # None
               PROVE  mID[mTimerMap'[j]] = j /\ j \notin mHashSet' /\ j <= mNext
    BY <1>1 DEF MapAgrees, shape
  <2>1. j # i /\ mTimerMap'[j] = mTimerMap[j]
    BY <1>4, <1>5 DEF IInv, TypeOK
  <2> QED BY <1>5, <2>1 DEF IInv, MapAgrees
<1>8. IdsIssued' /\ HitLeaves'
  BY <1>1, <1>3 DEF IInv, IdsIssued, HitLeaves, TypeOK, shape
<1>9. IdLeadsToTimer'
  <2>1. ASSUME NEW u \in Alive'
        PROVE  mTimerMap'[mID'[u]] = u /\ mID'[u] \notin mHashSet'
    <3>1. u \in Alive /\ u # t
      BY <1>1 DEF Alive, IInv, TypeOK
    <3>2. mID[u] # i /\ mID[u] \notin mHashSet /\ mTimerMap[mID[u]] = u
      BY <3>1, <1>2 DEF IInv, IdLeadsToTimer
    <3> QED BY <3>2, <1>1, <1>5 DEF IInv, TypeOK, shape
  <2>2. \A u \in 1 .. created' : phase'[u] # "none"
    BY <1>1 DEF IInv, IdLeadsToTimer, TypeOK
  <2> QED BY <2>1, <2>2 DEF IdLeadsToTimer
<1>10. LeavesTheMap'
  <2>1. ASSUME NEW j \in Ids PROVE mTimerMap'[j] # t
    BY <1>4, <1>5 DEF IInv, MapAgrees, TypeOK
  <2> QED BY <1>1, <1>4, <1>5, <2>1 DEF IInv, LeavesTheMap, TypeOK, None, Timers
<1> QED BY <1>6, <1>7, <1>8, <1>9, <1>10 DEF IInv

\* A cancel turns waits into ends, and may take managers away.
LEMMA InterruptStep ==
    ASSUME IInv, NEW timers \in SUBSET Timers, Interrupt(timers),
           managed' \in [Timers -> BOOLEAN],
           \A t \in Timers : managed'[t] => managed[t],
           UNCHANGED <<registry, created, shape, runs>>
    PROVE  IInv'
<1>1. \A t \in Timers : phase'[t] = IF t \in timers /\ phase[t] = "waiting"
                                    THEN "ending" ELSE phase[t]
  BY DEF Interrupt
<1>2. TypeOK'
  BY DEF IInv, TypeOK, Interrupt, registry, shape
<1>3. MapAgrees' /\ IdsIssued'
  BY <1>1 DEF IInv, MapAgrees, IdsIssued, TypeOK, registry, shape
<1>4. HitLeaves'
  <2>1. ASSUME NEW u \in hit' PROVE phase'[u] \in {"ending", "removing", "ended"}
    <3>1. CASE u \in hit
      BY <1>1, <3>1 DEF IInv, HitLeaves, TypeOK
    <3>2. CASE u \in timers /\ phase[u] = "waiting"
      BY <1>1, <3>2
    <3> QED BY <3>1, <3>2 DEF Interrupt
  <2> QED BY <2>1 DEF HitLeaves
<1>5. IdLeadsToTimer'
  <2>1. Alive' = Alive
    BY <1>1 DEF Alive
  <2>2. \A u \in 1 .. created' : phase'[u] # "none"
    BY <1>1, BoundsAssumption DEF IInv, IdLeadsToTimer, TypeOK, Timers
  <2> QED BY <2>1, <2>2 DEF IInv, IdLeadsToTimer, registry, shape
<1>6. LeavesTheMap'
  BY <1>1 DEF IInv, LeavesTheMap, registry
<1> QED BY <1>2, <1>3, <1>4, <1>5, <1>6 DEF IInv

LEMMA StepInvariant == IInv /\ [Next]_vars => IInv'
<1> SUFFICES ASSUME IInv, [Next]_vars PROVE IInv'
  OBVIOUS
<1>t. TypeOK /\ HitLeaves
  BY DEF IInv
<1>1. CASE CreateTimer
  BY <1>1, CreateStep
<1>2. ASSUME NEW t \in Timers, Start(t) PROVE IInv'
  <2>1. /\ phase' = [phase EXCEPT ![t] = "starting"]
        /\ phase[t] = "created"
        /\ UNCHANGED <<registry, created, shape, managed, runs, cancelled, hit>>
    BY <1>2 DEF Start, Enter
  <2> QED BY <2>1, <1>t, QuietStep DEF TypeOK, HitLeaves
<1>3. ASSUME NEW t \in Timers, Begin(t) PROVE IInv'
  <2>1. /\ phase[t] = "starting"
        /\ \E p \in {"waiting", "ending", "running"} :
              phase' = [phase EXCEPT ![t] = p]
        /\ UNCHANGED <<registry, created, shape, managed, cancelled, hit>>
    BY <1>3 DEF Begin, WaitOrEnd, RunTask, Enter
  <2>2. runs' \in [Timers -> 0 .. MaxRuns]
    BY <1>3, <1>t, BoundsAssumption DEF Begin, RunTask, TypeOK
  <2>3. t \notin hit
    BY <2>1, <1>t DEF HitLeaves
  <2> QED BY <2>1, <2>2, <2>3, QuietStep
<1>4. ASSUME NEW t \in Timers, Expire(t) PROVE IInv'
  <2>1. /\ phase[t] = "waiting"
        /\ phase' = [phase EXCEPT ![t] = "running"]
        /\ UNCHANGED <<registry, created, shape, managed, cancelled, hit>>
    BY <1>4 DEF Expire, RunTask, Enter
  <2>2. runs' \in [Timers -> 0 .. MaxRuns]
    BY <1>4, <1>t, BoundsAssumption DEF Expire, RunTask, TypeOK
  <2>3. t \notin hit
    BY <2>1, <1>t DEF HitLeaves
  <2> QED BY <2>1, <2>2, <2>3, QuietStep
<1>5. ASSUME NEW t \in Timers, TaskEnds(t) PROVE IInv'
  <2>1. /\ phase[t] = "running"
        /\ \E p \in {"waiting", "ending"} : phase' = [phase EXCEPT ![t] = p]
        /\ UNCHANGED <<registry, created, shape, managed, runs, cancelled, hit>>
    BY <1>5 DEF TaskEnds, WaitOrEnd, Enter
  <2>3. t \notin hit
    BY <2>1, <1>t DEF HitLeaves
  <2> QED BY <2>1, <2>3, <1>t, QuietStep DEF TypeOK
<1>6. ASSUME NEW t \in Timers, EndCheck(t) PROVE IInv'
  <2>1. /\ phase[t] = "ending"
        /\ \E p \in {"removing", "ended"} :
              /\ phase' = [phase EXCEPT ![t] = p]
              /\ p = "ended" => ~managed[t]
        /\ UNCHANGED <<registry, created, shape, managed, runs, cancelled, hit>>
    BY <1>6 DEF EndCheck, Enter
  <2> QED BY <2>1, <1>t, QuietStep DEF TypeOK
<1>7. ASSUME NEW t \in Timers, RemoveTimer(t) PROVE IInv'
  BY <1>7, RemoveStep
<1>8. ASSUME NEW id \in Ids, CancelTimer(id) PROVE IInv'
  <2>1. {mTimerMap[id]} \in SUBSET Timers
    BY <1>8, <1>t, BoundsAssumption DEF CancelTimer, TypeOK, Timers, None
  <2> QED BY <2>1, <1>8, <1>t, InterruptStep DEF CancelTimer, TypeOK
<1>9. CASE CancelAll
  <2> DEFINE all == {mTimerMap[i] : i \in Ids} \ {None}
  <2>1. all \in SUBSET Timers
    BY <1>t, BoundsAssumption DEF TypeOK, Timers, None
  <2>2. /\ managed' = [t \in Timers |-> managed[t] /\ t \notin all]
        /\ Interrupt(all)
        /\ UNCHANGED <<registry, created, shape, runs>>
    BY <1>9 DEF CancelAll
  <2>3. /\ managed' \in [Timers -> BOOLEAN]
        /\ \A t \in Timers : managed'[t] => managed[t]
    <3> HIDE DEF all
    <3> QED BY <2>2, <1>t DEF TypeOK
  <2> HIDE DEF all
  <2> QED BY <2>1, <2>2, <2>3, InterruptStep
<1>10. CASE UNCHANGED vars
  BY <1>10 DEF vars, registry, shape, progress, IInv, TypeOK, MapAgrees,
              IdsIssued, HitLeaves, IdLeadsToTimer, LeavesTheMap, Alive
<1> QED
  BY <1>1, <1>2, <1>3, <1>4, <1>5, <1>6, <1>7, <1>8, <1>9, <1>10
     DEF Next, Coroutine

\* The inductive invariant holds in every behaviour.
THEOREM Invariance == Spec => []IInv
  BY InitInvariant, StepInvariant, PTL DEF Spec

----------------------------------------------------------------------------
\* The state of the timers is well typed.
THEOREM TypeCorrect == Spec => []TypeOK
<1>1. IInv => TypeOK
  BY DEF IInv
<1> QED BY <1>1, Invariance, PTL

\* For any number of timers, cancels and reused ids: while a timer can run its
\* task its id leads to it alone, so that no cancel or removal by id meets
\* another timer.
THEOREM IdsLeadToTimers == Spec => []IdLeadsToTimer
<1>1. IInv => IdLeadsToTimer
  BY DEF IInv
<1> QED BY <1>1, Invariance, PTL

\* A timer whose coroutine has ended is out of the map, unless CancelAll had
\* taken its manager away.
THEOREM EndedTimersLeave == Spec => []LeavesTheMap
<1>1. IInv => LeavesTheMap
  BY DEF IInv
<1> QED BY <1>1, Invariance, PTL

\* A cancel that meets a timer in its wait is final: whatever happens beside
\* it, the task of that timer does not begin again.
THEOREM CancelIsFinal == Spec => CancelledWaitNeverRuns
<1> DEFINE Rests == \A t \in hit : runs'[t] = runs[t]
<1>1. IInv /\ [Next]_vars => [Rests]_vars
  <2> SUFFICES ASSUME IInv, Next, NEW t \in hit PROVE runs'[t] = runs[t]
    BY DEF vars
  <2>1. phase[t] \notin {"starting", "waiting"} /\ runs \in [Timers -> 0 .. MaxRuns]
        /\ t \in Timers
    BY DEF IInv, HitLeaves, TypeOK
  <2>2. ASSUME NEW u \in Timers, Begin(u) \/ Expire(u) PROVE runs'[t] = runs[t]
    BY <2>1, <2>2 DEF Begin, Expire, RunTask
  <2>3. CASE CreateTimer \/ CancelAll \/ \E id \in Ids : CancelTimer(id)
    BY <2>3 DEF CreateTimer, CancelAll, CancelTimer
  <2>4. ASSUME NEW u \in Timers,
               Start(u) \/ TaskEnds(u) \/ EndCheck(u) \/ RemoveTimer(u)
        PROVE  runs'[t] = runs[t]
    BY <2>4 DEF Start, TaskEnds, EndCheck, RemoveTimer
  <2> QED BY <2>2, <2>3, <2>4 DEF Next, Coroutine
<1>2. CancelledWaitNeverRuns <=> [][Rests]_vars
  BY DEF CancelledWaitNeverRuns
<1> HIDE DEF Rests
<1> QED BY <1>1, <1>2, Invariance, PTL DEF Spec

----------------------------------------------------------------------------
\* With an agent: its steps are steps of the timers or leave them alone, so
\* that all of the above holds for them.
LEMMA AgentStep == AgentNext => [Next]_vars
<1> SUFFICES ASSUME AgentNext PROVE Next \/ UNCHANGED vars
  OBVIOUS
<1>1. CASE ServiceCreates \/ ServiceCancels \/ Destroy
  BY <1>1 DEF ServiceCreates, ServiceCancels, Destroy, Next
<1>2. CASE \E t \in Timers : ServiceStarts(t) \/ Coroutines(t)
  BY <1>2 DEF ServiceStarts, Coroutines, Next
<1>3. CASE Stop \/ Execute \/ Executed \/ Throws \/ CleanUp \/ Release \/ Drop
  BY <1>3 DEF Stop, Execute, Executed, Throws, CleanUp, Release, Drop, Becomes
<1> QED BY <1>1, <1>2, <1>3 DEF AgentNext

\* A timer that runs no task any more once its agent is gone.
Settled(t) ==
    \/ phase[t] \in {"none", "created", "ended"}
    \/ /\ phase[t] = "ending" \/ (phase[t] = "running" /\ ~repeats[t])
       /\ ~managed[t]

AgentInv ==
    /\ IInv /\ AgentTypeOK /\ OnlyEscapedRunOn
    /\ ~gone => late = {}
    /\ gone => /\ actor = "released"
               /\ \A t \in Timers : t \in escaped \/ Settled(t)

LEMMA AgentInitInvariant == AgentInit => AgentInv
  BY InitInvariant
     DEF AgentInit, AgentInv, IInv, AgentTypeOK, OnlyEscapedRunOn

\* The coroutine of a timer that is settled begins no task and stays settled.
LEMMA SettledStays ==
  ASSUME TypeOK, NEW t \in Timers, NEW u \in Timers, Settled(t),
         Coroutine(u), phase[u] # "removing"
  PROVE  Settled(t)' /\ runs'[t] = runs[t]
<1> USE DEF TypeOK, Settled
<1>1. CASE Begin(u)
  BY <1>1 DEF Begin, Enter, RunTask, WaitOrEnd, shape
<1>2. CASE Expire(u)
  BY <1>2 DEF Expire, Enter, RunTask, shape
<1>3. CASE TaskEnds(u)
  BY <1>3 DEF TaskEnds, Enter, WaitOrEnd, shape
<1>4. CASE EndCheck(u)
  BY <1>4 DEF EndCheck, Enter, shape
<1> QED BY <1>1, <1>2, <1>3, <1>4 DEF Coroutine, RemoveTimer

LEMMA AgentStepInvariant ==
  AgentInv /\ [AgentNext]_<<vars, agentVars>> => AgentInv'
<1> SUFFICES ASSUME AgentInv, [AgentNext]_<<vars, agentVars>> PROVE AgentInv'
  OBVIOUS
<1>1. IInv'
  BY AgentStep, StepInvariant DEF AgentInv
<1>t. TypeOK' /\ TypeOK
  BY <1>1 DEF IInv, AgentInv
<1> DEFINE Rest == /\ AgentTypeOK' /\ OnlyEscapedRunOn'
                   /\ ~gone' => late' = {}
                   /\ gone' => /\ actor' = "released"
                               /\ \A t \in Timers : t \in escaped' \/ Settled(t)'
<1>2. CASE UNCHANGED <<vars, agentVars>>
  <2> Rest
    BY <1>2, <1>t DEF AgentInv, AgentTypeOK, OnlyEscapedRunOn, agentVars, vars,
                      progress, shape, Settled
  <2> QED BY <1>1 DEF AgentInv
<1>3. CASE Stop \/ Execute \/ Executed \/ Throws \/ CleanUp \/ Release \/ Drop
  <2>1. UNCHANGED <<phase, repeats, managed, gone, escaped, late>>
    BY <1>3 DEF vars, progress, shape, Stop, Execute, Executed, Throws, CleanUp,
                Release, Drop, Becomes
  <2>2. open' \in BOOLEAN
    BY <1>3 DEF AgentInv, AgentTypeOK, Stop, Execute, Executed, Throws, CleanUp,
                Release, Drop, Becomes
  <2>3. /\ actor' \in {"serving", "handling", "failed", "stopping", "released"}
        /\ actor = "released" => actor' = "released"
    BY <1>3 DEF AgentInv, AgentTypeOK, Stop, Execute, Executed, Throws, CleanUp,
                Release, Drop, Becomes
  <2>4. \A t \in Timers : Settled(t) => Settled(t)'
    BY <2>1 DEF Settled
  <2> Rest
    BY <2>1, <2>2, <2>3, <2>4, <1>t DEF AgentInv, AgentTypeOK, OnlyEscapedRunOn
  <2> QED BY <1>1 DEF AgentInv
<1>4. CASE ServiceCreates \/ ServiceCancels \/ \E t \in Timers : ServiceStarts(t)
  <2>1. UNCHANGED agentVars /\ ~gone
    BY <1>4 DEF ServiceCreates, ServiceCancels, ServiceStarts, Entered, AgentInv
  <2> Rest
    BY <2>1, <1>t DEF agentVars, AgentInv, AgentTypeOK, OnlyEscapedRunOn
  <2> QED BY <1>1 DEF AgentInv
<1>5. ASSUME NEW u \in Timers, Coroutines(u) PROVE AgentInv'
  <2>1. UNCHANGED <<open, actor, gone, escaped>> /\ Coroutine(u)
    BY <1>5 DEF Coroutines
  <2>2. gone => \A t \in Timers :
                  t \in escaped \/ (Settled(t)' /\ runs'[t] = runs[t])
    BY <1>5, <1>t, <2>1, SettledStays DEF AgentInv, Coroutines
  <2>3. late' \subseteq escaped
    BY <1>5, <2>2 DEF Coroutines, AgentInv, OnlyEscapedRunOn
  <2>4. late' \subseteq Timers
    BY <1>5 DEF Coroutines, AgentInv, AgentTypeOK
  <2>5. ~gone => late' = {}
    BY <1>5 DEF Coroutines, AgentInv
  <2> Rest
    BY <2>1, <2>2, <2>3, <2>4, <2>5, <1>t DEF AgentInv, AgentTypeOK, OnlyEscapedRunOn
  <2> QED BY <1>1 DEF AgentInv
<1>6. CASE Destroy
  <2>1. /\ gone' = TRUE /\ actor' = "released" /\ UNCHANGED <<open, late>>
        /\ ~gone /\ CancelAll
    BY <1>6 DEF Destroy
  <2>2. ASSUME NEW t \in Timers, t \notin escaped' PROVE Settled(t)'
    <3>1. /\ phase[t] \notin {"starting", "removing"}
          /\ phase[t] = "running" => ~repeats[t]
      BY <1>6, <2>2 DEF Destroy
    <3>2. t \in Alive => mTimerMap[mID[t]] = t
      BY DEF AgentInv, IInv, IdLeadsToTimer
    <3>3. t \in Alive => mID[t] \in Ids
      <4> SUFFICES ASSUME t \in Alive PROVE mID[t] \in Ids
        OBVIOUS
      <4>1. phase[t] # "none"
        BY DEF Alive
      <4>2. mID[t] \in 1 .. mNext
        BY <4>1 DEF AgentInv, IInv, IdsIssued
      <4> QED BY <4>2, <1>t, BoundsAssumption DEF TypeOK, Ids
    <3>4. t # None
      BY BoundsAssumption DEF Timers, None
    <3>5. t \in Alive => t \in {mTimerMap[i] : i \in Ids} \ {None}
      BY <3>2, <3>3, <3>4
    <3>6. t \in Alive => ~managed'[t]
      BY <2>1, <3>5, <1>t DEF CancelAll, TypeOK
    <3>7. phase[t] = "waiting" => phase'[t] = "ending"
      BY <2>1, <3>5, <1>t DEF CancelAll, Interrupt, TypeOK, Alive
    <3>8. phase[t] # "waiting" => phase'[t] = phase[t]
      BY <2>1, <1>t DEF CancelAll, Interrupt, TypeOK
    <3>9. repeats' = repeats
      BY <2>1 DEF CancelAll, shape
    <3> QED BY <3>1, <3>6, <3>7, <3>8, <3>9, <1>t DEF Settled, Alive, TypeOK
  <2>3. late' = {} /\ escaped' \subseteq Timers
    BY <1>6, <2>1 DEF Destroy, AgentInv
  <2>4. AgentTypeOK' /\ OnlyEscapedRunOn'
    BY <2>1, <2>3, <1>t DEF AgentInv, AgentTypeOK, OnlyEscapedRunOn
  <2> QED BY <1>1, <2>1, <2>2, <2>4 DEF AgentInv
<1> QED BY <1>2, <1>3, <1>4, <1>5, <1>6 DEF AgentNext

\* For any number of timers, whatever the service and its timers were at when
\* the agent went: no task begins behind ~UTimerManager but that of a timer
\* its cancel did not find in a wait.
THEOREM NoTimerOutlivesUnlessEscaped == AgentSpec => []OnlyEscapedRunOn
<1>1. AgentInv => OnlyEscapedRunOn
  BY DEF AgentInv
<1> QED BY <1>1, AgentInitInvariant, AgentStepInvariant, PTL DEF AgentSpec
----------------------------------------------------------------------------
\* The manager is a client its allocator can serve.
LEMMA TimerIdGivenBack ==
    ASSUME IInv, NEW t \in Timers, RemoveTimer(t)
    PROVE  /\ mID[t] \in (1 .. mNext) \ mHashSet
           /\ mID[t] \in IdsHeld \ IdsHeld'
<1>1. phase[t] = "removing" /\ t \in Alive
  BY DEF RemoveTimer, Alive
<1>2. mID[t] \in 1 .. mNext /\ mID[t] \notin mHashSet
  BY <1>1 DEF IInv, IdsIssued, IdLeadsToTimer
<1>3. UNCHANGED mID /\ phase' = [phase EXCEPT ![t] = "ended"]
  BY DEF RemoveTimer, Enter, shape
<1>4. \A u \in Timers : u \in Alive' => u \in Alive /\ u # t
  BY <1>3 DEF Alive, IInv, TypeOK
<1>5. \A u \in Alive : mID[u] = mID[t] => u = t
  BY <1>1 DEF IInv, IdLeadsToTimer
<1>6. mID[t] \notin IdsHeld'
  BY <1>3, <1>4, <1>5 DEF IdsHeld, Alive
<1> QED BY <1>1, <1>2, <1>6 DEF IdsHeld

LEMMA TimerIdTaken ==
    ASSUME IInv, [Next]_vars, NEW i \in IdsHeld' \ IdsHeld
    PROVE  i \notin (1 .. mNext) \ mHashSet
<1>1. PICK t \in Timers : t \in Alive' /\ i = mID'[t]
  BY DEF IdsHeld, Alive
<1>2. CASE CreateTimer
  <2>1. PICK id \in Ids : /\ IF mHashSet # {} THEN id \in mHashSet ELSE id = mNext + 1
                          /\ mID' = [mID EXCEPT ![created + 1] = id]
                          /\ \E p : phase' = [phase EXCEPT ![created + 1] = p]
    BY <1>2 DEF CreateTimer, Enter
  <2>2. t # created + 1 => t \in Alive /\ mID'[t] = mID[t]
    BY <1>1, <2>1 DEF Alive, IInv, TypeOK
  <2>3. t = created + 1
    BY <1>1, <2>2 DEF IdsHeld
  <2>4. i = id
    BY <1>1, <2>1, <2>3 DEF IInv, TypeOK
  <2> QED BY <2>1, <2>4, BoundsAssumption DEF IInv, TypeOK
<1>3. CASE ~CreateTimer
  <2>1. UNCHANGED mID
    <3>1. ASSUME NEW u \in Timers, Start(u) \/ Coroutine(u) PROVE UNCHANGED shape
      BY <3>1 DEF Coroutine, Start, Begin, Expire, TaskEnds, EndCheck, RemoveTimer
    <3>2. (\E id \in Ids : CancelTimer(id)) \/ CancelAll => UNCHANGED shape
      BY DEF CancelTimer, CancelAll
    <3>3. UNCHANGED shape
      BY <1>3, <3>1, <3>2 DEF Next, vars
    <3> QED BY <3>3 DEF shape
  <2>2. t \in Alive
    <3>1. ASSUME NEW u \in Timers, Start(u) \/ Coroutine(u)
          PROVE  u \in Alive /\ \E p : phase' = [phase EXCEPT ![u] = p]
      BY <3>1 DEF Coroutine, Start, Begin, Expire, TaskEnds, EndCheck,
                  RemoveTimer, Enter, WaitOrEnd, RunTask, Alive
    <3>2. ASSUME NEW u \in Timers, Start(u) \/ Coroutine(u) PROVE t \in Alive
      BY <3>1, <3>2, <1>1 DEF Alive, IInv, TypeOK
    <3>3. ASSUME NEW all, Interrupt(all) PROVE t \in Alive
      BY <3>3, <1>1 DEF Alive, Interrupt, IInv, TypeOK
    <3>4. CASE UNCHANGED vars
      BY <3>4, <1>1 DEF Alive, vars, progress
    <3> QED BY <1>3, <3>2, <3>3, <3>4 DEF Next, CancelTimer, CancelAll
  <2> QED BY <1>1, <2>1, <2>2 DEF IdsHeld
<1> QED BY <1>2, <1>3

\* However creations, cancels and ends interleave, the manager gives back no id
\* but that of a timer that ends, and that one once: what IdentAllocator promises
\* of ids that are used so holds for those of its timers.
THEOREM TimerIdsAreUsedAsAgreed == Spec => UsesIdsAsAgreed
<1>1. IInv /\ [Next]_vars => [IdsUsedWell]_vars
  BY TimerIdGivenBack, TimerIdTaken DEF IdsUsedWell
<1> QED BY <1>1, Invariance, PTL DEF Spec, UsesIdsAsAgreed, IdsUsedWell

\* The same with the agent around the timers, up to and behind its end.
THEOREM AgentsTimerIdsAreUsedAsAgreed == AgentSpec => UsesIdsAsAgreed
<1>1. AgentInv /\ [AgentNext]_<<vars, agentVars>> => [IdsUsedWell]_vars
  BY AgentStep, TimerIdGivenBack, TimerIdTaken DEF AgentInv, IdsUsedWell
<1> QED
  BY <1>1, AgentInitInvariant, AgentStepInvariant, PTL
     DEF AgentSpec, UsesIdsAsAgreed, IdsUsedWell
=============================================================================
