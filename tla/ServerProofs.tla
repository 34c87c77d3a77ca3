----------------------------- MODULE ServerProofs -----------------------------
(***************************************************************************)
(* What the process rests on.  The allocator of identifiers that its       *)
(* modules share, for any number of threads and calls: an identifier has   *)
(* one owner, none leaks, the identifier space grows only with demand, the *)
(* usage is exact unless calls overlap, and the lock-and-atomics code      *)
(* implements the pool of distinct identifiers.  The server itself, for    *)
(* any libraries and services: modules run only on modules that run,       *)
(* services only with their library.                                       *)
(*                                                                         *)
(* Then the helpers below it, on any value: the counts of libraries and    *)
(* owned instances, the counts of the loggers' users, the turn in which    *)
(* contexts are dealt out, the days and weeks of time points.              *)
(***************************************************************************)
EXTENDS IdentAllocator, Server, FiniteSetTheorems, TLAPS

\* The ownership facts are inductive together; the typing of peak rests on
\* them too, because a demand is a number only if finitely many are live.
IInv == TypeOK /\ UniqueOwner /\ NoLeak

\* Only finitely many identifiers are live and threads pending: the demand
\* AllocateTS's callers exert is a number.
LEMMA DemandNat ==
    ASSUME TypeOK, UniqueOwner
    PROVE  /\ IsFiniteSet(Live) /\ IsFiniteSet(Pending)
           /\ Cardinality(Live) \in Nat /\ Cardinality(Pending) \in Nat
           /\ Demand \in Nat
<1>1. IsFiniteSet(1 .. mNext)
  BY FS_Interval DEF TypeOK
<1>2. IsFiniteSet(Live)
  BY <1>1, FS_Subset DEF UniqueOwner
<1>3. IsFiniteSet(Pending)
  BY ThreadsAssumption, FS_Subset DEF Pending
<1> QED
  BY <1>2, <1>3, FS_CardinalityType DEF Demand

LEMMA IInvInit == Init => IInv
<1> SUFFICES ASSUME Init PROVE IInv
  OBVIOUS
<1>1. TypeOK
  <2>1. overlapped \in BOOLEAN
    BY Zenon DEF Init
  <2> QED BY <2>1 DEF Init, TypeOK
<1>2. Live = {} /\ mHashSet = {} /\ 1 .. mNext = {}
  BY DEF Init, Live
<1> QED
  BY <1>1, <1>2 DEF Init, IInv, UniqueOwner, NoLeak

LEMMA IInvStep == IInv /\ [Next]_vars => IInv'
<1> SUFFICES ASSUME TypeOK, UniqueOwner, NoLeak, [Next]_vars PROVE IInv'
  BY DEF IInv
<1> USE DEF IInv
<1>1. ASSUME NEW t \in Threads, AllocateReused(t) PROVE IInv'
  <2>1. peak' \in Nat /\ calls' \in Nat
    BY <1>1, DemandNat DEF AllocateReused, MayAllocate, MayStart, TypeOK
  <2>2. PICK id \in mHashSet :
          /\ mHashSet' = mHashSet \ {id}
          /\ held' = [held EXCEPT ![t] = @ \cup {id}]
    BY <1>1 DEF AllocateReused
  <2>3. TypeOK'
    BY <1>1, <2>1, <2>2 DEF AllocateReused, MayAllocate, MayStart, TypeOK
  <2>4. Live' = Live \cup {id} /\ mNext' = mNext
    BY <1>1, <2>2 DEF AllocateReused, Live, TypeOK
  <2>5. UniqueOwner' /\ NoLeak'
    BY <2>2, <2>4 DEF UniqueOwner, NoLeak, Live, TypeOK
  <2> QED BY <2>3, <2>5
<1>2. ASSUME NEW t \in Threads, AllocateMiss(t) PROVE IInv'
  <2>1. peak' \in Nat /\ calls' \in Nat
    BY <1>2, DemandNat DEF AllocateMiss, MayAllocate, MayStart, TypeOK
  <2>2. TypeOK'
    BY <1>2, <2>1 DEF AllocateMiss, MayAllocate, MayStart, TypeOK
  <2>3. UniqueOwner' /\ NoLeak'
    BY <1>2 DEF AllocateMiss, UniqueOwner, NoLeak, Live
  <2> QED BY <2>2, <2>3
<1>3. ASSUME NEW t \in Threads, CountFresh(t) PROVE IInv'
  BY <1>3 DEF CountFresh, TypeOK, UniqueOwner, NoLeak, Live
<1>4. ASSUME NEW t \in Threads, TakeFresh(t) PROVE IInv'
  <2>1. TypeOK'
    BY <1>4 DEF TakeFresh, TypeOK
  <2>2. Live' = Live \cup {mNext + 1}
    BY <1>4 DEF TakeFresh, Live, TypeOK
  <2>3. mNext + 1 \notin Live \cup mHashSet
    BY DEF UniqueOwner, TypeOK
  <2>4. mNext' = mNext + 1 /\ 1 .. mNext' = 1 .. mNext \cup {mNext + 1}
    BY <1>4 DEF TakeFresh, TypeOK
  <2>5. UniqueOwner' /\ NoLeak'
    BY <1>4, <2>2, <2>3, <2>4 DEF TakeFresh, UniqueOwner, NoLeak, Live, TypeOK
  <2> QED BY <2>1, <2>5
<1>5. ASSUME NEW t \in Threads, NEW u \in Threads, RecycleInsert(t, u)
      PROVE IInv'
  <2>1. PICK id \in held[u] :
          /\ mHashSet' = mHashSet \cup {id}
          /\ held' = [held EXCEPT ![u] = @ \ {id}]
    BY <1>5 DEF RecycleInsert
  <2>2. TypeOK'
    BY <1>5, <2>1 DEF RecycleInsert, MayRecycle, MayStart, TypeOK
  <2>3. Live' = Live \ {id} /\ mNext' = mNext /\ id \in Live
    BY <1>5, <2>1 DEF RecycleInsert, Live, TypeOK, UniqueOwner
  <2>4. UniqueOwner' /\ NoLeak'
    BY <2>1, <2>3 DEF UniqueOwner, NoLeak, Live, TypeOK
  <2> QED BY <2>2, <2>4
<1>6. ASSUME NEW t \in Threads, RecycleDecrement(t) PROVE IInv'
  BY <1>6 DEF RecycleDecrement, TypeOK, UniqueOwner, NoLeak, Live
<1>7. ASSUME NEW t \in Threads, RecycleTest(t) PROVE IInv'
  BY <1>7 DEF RecycleTest, TypeOK, UniqueOwner, NoLeak, Live
<1>8. ASSUME NEW t \in Threads, RecycleLoad(t) PROVE IInv'
  BY <1>8 DEF RecycleLoad, TypeOK, UniqueOwner, NoLeak, Live
<1>9. ASSUME NEW t \in Threads, RecycleStore(t) PROVE IInv'
  BY <1>9 DEF RecycleStore, TypeOK, UniqueOwner, NoLeak, Live
<1>10. CASE UNCHANGED vars
  BY <1>10 DEF vars, TypeOK, UniqueOwner, NoLeak, Live
<1> QED
  BY <1>1, <1>2, <1>3, <1>4, <1>5, <1>6, <1>7, <1>8, <1>9, <1>10
  DEF Next, Step

\* The inductive invariant holds in every reachable state.
THEOREM Invariance == Spec => []IInv
BY IInvInit, IInvStep, PTL DEF Spec

\* The state of the allocator and its callers stays well typed.
THEOREM TypeCorrect == Spec => []TypeOK
BY Invariance, PTL DEF IInv

\* AllocateTS never hands out an identifier that somebody holds, although
\* it leaves the mutex before it increments mNext.
THEOREM OwnersAreUnique == Spec => []UniqueOwner
BY Invariance, PTL DEF IInv

\* Every identifier ever issued is live or reusable.
THEOREM NothingLeaks == Spec => []NoLeak
BY Invariance, PTL DEF IInv

----------------------------------------------------------------------------
LEMMA GrowthStep == IInv /\ GrowthByDemand /\ [Next]_vars => GrowthByDemand'
<1> SUFFICES ASSUME TypeOK, UniqueOwner, NoLeak, GrowthByDemand, [Next]_vars
             PROVE  GrowthByDemand'
  BY DEF IInv
<1>0. /\ IsFiniteSet(Live) /\ IsFiniteSet(Pending)
      /\ Cardinality(Live) \in Nat /\ Cardinality(Pending) \in Nat
      /\ Demand \in Nat /\ mNext \in Nat /\ peak \in Nat
  BY DemandNat DEF TypeOK
<1>1. ASSUME NEW t \in Threads, AllocateReused(t) PROVE GrowthByDemand'
  <2>1. Pending' = Pending /\ mNext' = mNext
    BY <1>1 DEF AllocateReused, Pending
  <2>2. peak' >= peak
    BY <1>0, <1>1 DEF AllocateReused, MayAllocate
  <2>3. peak' \in Nat
    BY <1>0, <1>1 DEF AllocateReused, MayAllocate
  <2> QED BY <1>0, <2>1, <2>2, <2>3 DEF GrowthByDemand
<1>2. ASSUME NEW t \in Threads, AllocateMiss(t) PROVE GrowthByDemand'
  <2>1. Live = 1 .. mNext
    BY <1>2 DEF AllocateMiss, UniqueOwner, NoLeak
  <2>2. Cardinality(Live) = mNext
    BY <1>0, <2>1, FS_Interval
  <2>3. Pending' = Pending \cup {t} /\ t \notin Pending /\ mNext' = mNext
    BY <1>2 DEF AllocateMiss, MayAllocate, MayStart, Pending, TypeOK
  <2>4. Cardinality(Pending') = Cardinality(Pending) + 1
    BY <1>0, <2>3, FS_AddElement
  <2>5. peak' \in Nat /\ peak' >= Demand + 1
    BY <1>0, <1>2 DEF AllocateMiss, MayAllocate
  <2> QED BY <1>0, <2>2, <2>3, <2>4, <2>5 DEF GrowthByDemand, Demand
<1>3. ASSUME NEW t \in Threads, CountFresh(t) PROVE GrowthByDemand'
  <2>1. Pending' = Pending
    BY <1>3 DEF CountFresh, Pending, TypeOK
  <2> QED BY <1>3, <2>1 DEF CountFresh, GrowthByDemand
<1>4. ASSUME NEW t \in Threads, TakeFresh(t) PROVE GrowthByDemand'
  <2>1. Pending' = Pending \ {t} /\ t \in Pending
    BY <1>4 DEF TakeFresh, Pending, TypeOK
  <2>2. Cardinality(Pending') = Cardinality(Pending) - 1
    BY <1>0, <2>1, FS_RemoveElement
  <2> QED BY <1>0, <1>4, <2>2 DEF TakeFresh, GrowthByDemand
<1>5. ASSUME NEW t \in Threads,
             \/ \E u \in Threads : RecycleInsert(t, u)
             \/ RecycleDecrement(t) \/ RecycleTest(t)
             \/ RecycleLoad(t) \/ RecycleStore(t)
      PROVE GrowthByDemand'
  <2>1. Pending' = Pending
    BY <1>5 DEF RecycleInsert, MayRecycle, MayStart, RecycleDecrement,
                RecycleTest, RecycleLoad, RecycleStore, Pending, TypeOK
  <2>2. mNext' = mNext /\ peak' = peak
    BY <1>5 DEF RecycleInsert, MayRecycle, RecycleDecrement,
                RecycleTest, RecycleLoad, RecycleStore
  <2> QED BY <2>1, <2>2 DEF GrowthByDemand
<1>6. CASE UNCHANGED vars
  BY <1>6 DEF vars, GrowthByDemand, Pending
<1> QED
  BY <1>1, <1>2, <1>3, <1>4, <1>5, <1>6 DEF Next, Step

\* The identifier space never outgrows the peak demand.
THEOREM GrowthIsBounded == Spec => []GrowthByDemand
<1>1. Init => GrowthByDemand
  <2> SUFFICES ASSUME Init PROVE GrowthByDemand
    OBVIOUS
  <2>1. Pending = {}
    BY DEF Init, Pending
  <2> QED BY <2>1, FS_EmptySet DEF Init, GrowthByDemand
<1> QED
  BY <1>1, GrowthStep, Invariance, PTL DEF Spec

----------------------------------------------------------------------------
\* Every step of the code is a step of the pool, or changes no ownership.
LEMMA PoolStep == IInv /\ [Next]_vars => [Pool!Next]_held
<1> SUFFICES ASSUME TypeOK, UniqueOwner, Next PROVE [Pool!Next]_held
  BY DEF IInv, vars
<1> PICK t \in Threads : Step(t)
  BY DEF Next
<1>1. CASE AllocateReused(t)
  <2>1. PICK id \in mHashSet : held' = [held EXCEPT ![t] = @ \cup {id}]
    BY <1>1 DEF AllocateReused
  <2>2. id \in held'[t] \ Live /\ id \in Nat \ {0}
    BY <2>1 DEF TypeOK, UniqueOwner
  <2> QED BY <2>1, <2>2 DEF Pool!Next, Pool!Allocate, Pool!Live, Live
<1>2. CASE TakeFresh(t)
  <2>1. held' = [held EXCEPT ![t] = @ \cup {mNext + 1}]
    BY <1>2 DEF TakeFresh
  <2>2. mNext + 1 \in held'[t] \ Live /\ mNext + 1 \in Nat \ {0}
    BY <2>1 DEF TypeOK, UniqueOwner
  <2> QED BY <2>1, <2>2 DEF Pool!Next, Pool!Allocate, Pool!Live, Live
<1>3. ASSUME NEW u \in Threads, RecycleInsert(t, u) PROVE [Pool!Next]_held
  BY <1>3 DEF RecycleInsert, Pool!Next, Pool!Recycle
<1> QED
  BY <1>1, <1>2, <1>3 DEF Step, AllocateMiss, CountFresh, RecycleDecrement,
     RecycleTest, RecycleLoad, RecycleStore

\* AllocateTS and RecycleTS implement the pool of distinct identifiers, for
\* any number of threads.
THEOREM PoolImplemented == Spec => ImplementsPool
<1>1. Init => Pool!Init
  BY DEF Init, Pool!Init
<1> QED
  BY <1>1, PoolStep, Invariance, PTL DEF Spec, ImplementsPool, Pool!Spec
----------------------------------------------------------------------------
\* Threads whose call mUsage counts and Live does not: an identifier on its
\* way to its thread, or recycled already.
Counted == {t \in Threads : pc[t] \in {"takeFresh", "decrement"}}

\* As long as no call has run beside the tail of a RecycleTS, whoever is in the
\* tail is alone, mUsage is what its increments and decrements make it, and
\* the value about to be stored is the one mUsage has.
UsageExact ==
    ~overlapped =>
        /\ \A t \in InTail : \A u \in Threads \ {t} : pc[u] = "idle"
        /\ mUsage = Cardinality(Live) + Cardinality(Counted)
        /\ \A t \in Threads : pc[t] = "store" => loaded[t] = mUsage

LEMMA CountedFinite == IsFiniteSet(Counted) /\ Cardinality(Counted) \in Nat
<1>1. IsFiniteSet(Counted)
  BY ThreadsAssumption, FS_Subset DEF Counted
<1> QED BY <1>1, FS_CardinalityType

LEMMA UsageStep == IInv /\ UsageExact /\ [Next]_vars => UsageExact'
<1> SUFFICES ASSUME TypeOK, UniqueOwner, NoLeak, UsageExact, [Next]_vars,
                    ~overlapped'
             PROVE  UsageExact'
  BY DEF IInv, UsageExact
<1>0. /\ IsFiniteSet(Live) /\ IsFiniteSet(Counted)
      /\ Cardinality(Live) \in Nat /\ Cardinality(Counted) \in Nat
  BY DemandNat, CountedFinite
<1>1. ASSUME NEW t \in Threads, AllocateReused(t) PROVE UsageExact'
  <2>1. ~overlapped /\ InTail = {} /\ InTail' = InTail /\ Counted' = Counted
    BY <1>1 DEF AllocateReused, MayAllocate, InTail, Counted
  <2>2. PICK id \in mHashSet : held' = [held EXCEPT ![t] = @ \cup {id}]
    BY <1>1 DEF AllocateReused
  <2>3. Live' = Live \cup {id} /\ id \notin Live
    BY <2>2 DEF Live, UniqueOwner, TypeOK
  <2>4. Cardinality(Live') = Cardinality(Live) + 1
    BY <1>0, <2>3, FS_AddElement
  <2>5. mUsage' = Cardinality(Live') + Cardinality(Counted')
    BY <1>0, <1>1, <2>1, <2>4 DEF AllocateReused, UsageExact
  <2>6. \A u \in Threads : pc'[u] # "store"
    BY <1>1, <2>1 DEF AllocateReused, InTail
  <2> QED BY <2>1, <2>5, <2>6 DEF UsageExact
<1>2. ASSUME NEW t \in Threads, AllocateMiss(t) PROVE UsageExact'
  <2>1. ~overlapped /\ InTail = {} /\ InTail' = {} /\ Counted' = Counted /\ Live' = Live
    BY <1>2 DEF AllocateMiss, MayAllocate, MayStart, InTail, Counted, Live, TypeOK
  <2>2. mUsage' = Cardinality(Live') + Cardinality(Counted')
    BY <1>2, <2>1 DEF AllocateMiss, UsageExact
  <2> QED BY <2>1, <2>2 DEF UsageExact, InTail
<1>3. ASSUME NEW t \in Threads, CountFresh(t) PROVE UsageExact'
  <2>1. ~overlapped /\ Live' = Live
    BY <1>3 DEF CountFresh, Live
  <2>2. InTail = {} /\ InTail' = {}
    BY <1>3, <2>1 DEF CountFresh, InTail, UsageExact, TypeOK
  <2>3. Counted' = Counted \cup {t} /\ t \notin Counted
    BY <1>3 DEF CountFresh, Counted, TypeOK
  <2>4. Cardinality(Counted') = Cardinality(Counted) + 1
    BY <1>0, <2>3, FS_AddElement
  <2>5. mUsage' = Cardinality(Live') + Cardinality(Counted')
    BY <1>0, <1>3, <2>1, <2>4 DEF CountFresh, UsageExact
  <2> QED BY <2>2, <2>5 DEF UsageExact, InTail
<1>4. ASSUME NEW t \in Threads, TakeFresh(t) PROVE UsageExact'
  <2>1. ~overlapped /\ Live' = Live \cup {mNext + 1} /\ mNext + 1 \notin Live
    BY <1>4 DEF TakeFresh, Live, UniqueOwner, TypeOK
  <2>2. InTail = {} /\ InTail' = {}
    BY <1>4, <2>1 DEF TakeFresh, InTail, UsageExact, TypeOK
  <2>3. Counted' = Counted \ {t} /\ t \in Counted
    BY <1>4 DEF TakeFresh, Counted, TypeOK
  <2>4. Cardinality(Counted') = Cardinality(Counted) - 1
        /\ Cardinality(Live') = Cardinality(Live) + 1
    BY <1>0, <2>1, <2>3, FS_AddElement, FS_RemoveElement
  <2>5. mUsage' = Cardinality(Live') + Cardinality(Counted')
    BY <1>0, <1>4, <2>1, <2>4 DEF TakeFresh, UsageExact
  <2> QED BY <2>2, <2>5 DEF UsageExact, InTail
<1>5. ASSUME NEW t \in Threads, NEW u \in Threads, RecycleInsert(t, u)
      PROVE UsageExact'
  <2>1. ~overlapped /\ \A v \in Threads : pc[v] = "idle"
    BY <1>5 DEF RecycleInsert, MayRecycle, Idle
  <2>2. \A v \in Threads : pc'[v] = IF v = t THEN "decrement" ELSE "idle"
    BY <1>5, <2>1 DEF RecycleInsert, TypeOK
  <2>3. Counted = {} /\ Counted' = {t}
    BY <2>1, <2>2 DEF Counted
  <2>4. PICK id \in held[u] : held' = [held EXCEPT ![u] = @ \ {id}]
    BY <1>5 DEF RecycleInsert
  <2>5. Live' = Live \ {id} /\ id \in Live
    BY <2>4 DEF Live, UniqueOwner, TypeOK
  <2>6. Cardinality(Live') = Cardinality(Live) - 1
        /\ Cardinality(Counted) = 0 /\ Cardinality(Counted') = 1
    BY <1>0, <2>3, <2>5, FS_RemoveElement, FS_EmptySet, FS_Singleton
  <2>7. mUsage' = Cardinality(Live') + Cardinality(Counted')
    BY <1>0, <1>5, <2>1, <2>6 DEF RecycleInsert, UsageExact
  <2> QED BY <2>2, <2>7 DEF UsageExact, InTail
<1>6. ASSUME NEW t \in Threads, RecycleDecrement(t) PROVE UsageExact'
  <2>1. ~overlapped /\ Live' = Live /\ t \in InTail
    BY <1>6 DEF RecycleDecrement, Live, InTail
  <2>2. \A v \in Threads : pc'[v] = IF v = t THEN "test" ELSE "idle"
    BY <1>6, <2>1 DEF RecycleDecrement, UsageExact, TypeOK
  <2>3. Counted' = Counted \ {t} /\ t \in Counted
    BY <1>6 DEF RecycleDecrement, Counted, TypeOK
  <2>4. Cardinality(Counted') = Cardinality(Counted) - 1
    BY <1>0, <2>3, FS_RemoveElement
  <2>5. mUsage' = Cardinality(Live') + Cardinality(Counted')
    BY <1>0, <1>6, <2>1, <2>4 DEF RecycleDecrement, UsageExact
  <2> QED BY <2>2, <2>5 DEF UsageExact, InTail
<1>7. ASSUME NEW t \in Threads, RecycleTest(t) \/ RecycleLoad(t) PROVE UsageExact'
  <2>1. ~overlapped /\ Live' = Live /\ t \in InTail /\ mUsage' = mUsage
    BY <1>7 DEF RecycleTest, RecycleLoad, Live, InTail
  <2>2. pc' \in [Threads -> {"idle", "load", "store"}]
        /\ \A v \in Threads \ {t} : pc'[v] = "idle" /\ pc[v] = "idle"
    BY <1>7, <2>1 DEF RecycleTest, RecycleLoad, UsageExact, TypeOK
  <2>3. Counted = {} /\ Counted' = {}
    BY <1>7, <2>2 DEF RecycleTest, RecycleLoad, Counted
  <2>4. mUsage = Cardinality(Live) /\ mUsage \in Nat
    BY <1>0, <2>1, <2>3, FS_EmptySet DEF UsageExact
  <2>5. pc'[t] = "store" => loaded'[t] = mUsage
    BY <1>7, <2>4 DEF RecycleTest, RecycleLoad, TypeOK
  <2> QED BY <2>1, <2>2, <2>3, <2>5 DEF UsageExact, InTail
<1>8. ASSUME NEW t \in Threads, RecycleStore(t) PROVE UsageExact'
  <2>1. ~overlapped /\ Live' = Live /\ t \in InTail /\ mUsage' = mUsage
    BY <1>8 DEF RecycleStore, Live, InTail, UsageExact
  <2>2. \A v \in Threads : pc'[v] = "idle" /\ (v = t \/ pc[v] = "idle")
    BY <1>8, <2>1 DEF RecycleStore, UsageExact, TypeOK
  <2>3. Counted' = Counted
    BY <1>8, <2>2 DEF RecycleStore, Counted
  <2> QED BY <2>1, <2>2, <2>3 DEF UsageExact, InTail
<1>9. CASE UNCHANGED vars
  BY <1>9 DEF vars, UsageExact, Live, Counted, InTail
<1> QED
  BY <1>1, <1>2, <1>3, <1>4, <1>5, <1>6, <1>7, <1>8, <1>9 DEF Next, Step

\* Between calls GetUsage is the number of live identifiers, as long as no call
\* has run beside the tail of a RecycleTS.
THEOREM UsageIsExactWithoutOverlap == Spec => []UsageExactWithoutOverlap
<1>1. Init => UsageExact
  <2> SUFFICES ASSUME Init PROVE UsageExact
    OBVIOUS
  <2>1. Live = {} /\ Counted = {} /\ InTail = {}
    BY DEF Init, Live, Counted, InTail
  <2> QED BY <2>1, FS_EmptySet DEF Init, UsageExact
<1>2. ASSUME IInv, UsageExact PROVE UsageExactWithoutOverlap
  <2> SUFFICES ASSUME ~overlapped, Idle = Threads PROVE mUsage = Cardinality(Live)
    BY DEF UsageExactWithoutOverlap
  <2>1. Counted = {}
    BY DEF Counted, Idle
  <2> QED BY <1>2, <2>1, DemandNat, FS_EmptySet DEF UsageExact, IInv
<1> QED
  BY <1>1, <1>2, UsageStep, Invariance, PTL DEF Spec

----------------------------------------------------------------------------
\* Whether the module created as number k runs.
Running(k) == moduleState[Modules[k]] = "RUNNING"

\* What runs at each place of main: nothing before Start, the first modules
\* during it, all of them until Shutdown, and then what Stop has not reached, or
\* what ran when Start threw.
RunningSoFar ==
    CASE at[1] = "start" -> \A k \in Index : Running(k) <=> k < at[2]
      [] at[1] \in {"started", "run"} -> \A k \in Index : Running(k)
      [] at[1] = "stop" ->
           /\ \A k \in Index : Running(k) => k <= at[2]
           /\ RunsOnWhatRuns
      [] at[1] = "aborted" -> RunsOnWhatRuns
      [] OTHER -> \A k \in Index : ~Running(k)

\* mModuleOrder is what main has created so far, in its order.
OrderSoFar ==
    /\ Len(mModuleOrder) = IF at[1] = "create" THEN at[2] - 1 ELSE Len(Modules)
    /\ \A k \in DOMAIN mModuleOrder : mModuleOrder[k] = Modules[k]
    /\ at[1] # "stop" => at[2] > 0

LifeInv == ServerTypeOK /\ RunningSoFar /\ OrderSoFar

\* The handles of a service: the one it is booted with or that of its agent has
\* it, until one of them destroys it.
HandleStates == [owned : [Agents \X {"boot", "agent"} -> Agents \cup {None}],
                 destroyed : [Agents -> 0 .. 1]]

Has(a, h) == handles.owned[<<a, h>>] = a

OwnersOf(a) == {h \in Agents \X {"boot", "agent"} : handles.owned[h] = a}

HandlesOf(a) ==
    /\ \A h \in {"boot", "agent"} : handles.owned[<<a, h>>] \in {None, a}
    /\ ~(Has(a, "boot") /\ Has(a, "agent"))
    /\ handles.destroyed[a] = 1 => ~Has(a, "boot") /\ ~Has(a, "agent")
    /\ path[a] = None => /\ ~Has(a, "boot") /\ ~Has(a, "agent")
                         /\ handles.destroyed[a] = 0
    /\ path[a] # None => \/ Has(a, "boot") \/ Has(a, "agent")
                         \/ handles.destroyed[a] = 1

HandlesOfTheirAgent == \A a \in Agents : HandlesOf(a)

LibraryStates == [mControl : [Files \cup {"library", "entry"} -> Files \cup {None}],
                  refCount : [Files -> Nat], loaded : SUBSET Files,
                  unloads : [Files -> Nat]]

\* Until the factory goes: an entry has the library of its file to itself, and
\* so has LoadService's variable while it is at a file.
EntriesHoldTheirLibrary ==
    /\ \A f \in Files :
        /\ libraries.mControl[f] \in {None, f}
        /\ libraries.mControl[f] = f => f \in libraries.loaded
        /\ f \in pending \cup {file} => libraries.mControl[f] = None
    /\ libraries.mControl["entry"] = None
    /\ libraries.mControl["library"] = file
    /\ file # None => file \in libraries.loaded /\ libraries.refCount[file] = 1
    /\ file \notin pending
    /\ \A a \in Agents : path[a] # None => path[a] \in Entries

FactoryInv ==
    /\ handles \in HandleStates /\ HandlesOfTheirAgent
    /\ path \in [Agents -> Files \cup {None}]
    /\ pending \subseteq Files /\ file \in Files \cup {None}
    /\ factory # "gone" => libraries \in LibraryStates /\ EntriesHoldTheirLibrary

\* main creates eight different modules, two of which have a pool.
LEMMA ModulesDiffer ==
    /\ Len(Modules) = 8 /\ Index = 1 .. 8
    /\ \A k \in Index : Modules[k] \in Range(Modules)
    /\ \A i, j \in Index : Modules[i] = Modules[j] => i = j
    /\ \A m \in Range(Modules) : \E k \in Index : m = Modules[k]
    /\ Pools \subseteq Range(Modules)
<1>1. /\ Len(Modules) = 8 /\ Index = 1 .. 8 /\ DOMAIN Modules = 1 .. 8
  BY DEF Modules, Index
<1>2. Range(Modules) = {Modules[k] : k \in 1 .. 8}
  BY <1>1 DEF Range
<1>3. \A i, j \in 1 .. 8 : Modules[i] = Modules[j] => i = j
  BY DEF Modules
<1>4. Pools \subseteq {Modules[k] : k \in 1 .. 8}
  <2>1. Modules[7] = "service" /\ Modules[8] = "gateway"
    BY DEF Modules
  <2> QED BY <2>1 DEF Pools
<1> QED BY <1>1, <1>2, <1>3, <1>4

LEMMA LifeInvInit == ServerInit => LifeInv
<1> SUFFICES ASSUME ServerInit PROVE LifeInv
  OBVIOUS
<1> USE ModulesDiffer
<1>1. ServerTypeOK
  <2>1. at \in Stages \X (0 .. Len(Modules))
    BY DEF ServerInit, Stages
  <2>2. mModuleOrder \in Seq(Range(Modules))
    BY DEF ServerInit
  <2>3. agent \in [Agents -> AgentStates] /\ open \in [Agents -> BOOLEAN]
    BY DEF ServerInit, AgentStates
  <2> QED BY <2>1, <2>2, <2>3 DEF ServerInit, ServerTypeOK
<1>2. OrderSoFar
  BY DEF ServerInit, OrderSoFar
<1>3. RunningSoFar
  <2>1. at[1] = "create"
    BY DEF ServerInit
  <2>2. \A k \in Index : ~Running(k)
    BY DEF ServerInit, Running
  <2> QED BY <2>1, <2>2 DEF RunningSoFar
<1> QED BY <1>1, <1>2, <1>3 DEF LifeInv

\* A step that leaves main, the modules and their order where they are.
LEMMA LifeGoesOn ==
    ASSUME LifeInv, UNCHANGED <<moduleState, mModuleOrder, at>>, ServerTypeOK'
    PROVE  LifeInv'
<1>1. RunningSoFar'
  BY DEF LifeInv, RunningSoFar, Running, RunsOnWhatRuns
<1>2. OrderSoFar'
  BY DEF LifeInv, OrderSoFar
<1> QED BY <1>1, <1>2 DEF LifeInv


\* A step outside Start and Shutdown: nothing runs, nothing begins to.
LEMMA LifeIsQuiet ==
    ASSUME LifeInv, ServerTypeOK', UNCHANGED mModuleOrder,
           at[1] \notin {"create", "start", "started", "run", "stop", "aborted"},
           \A k \in Index : Running(k)' => Running(k),
           at'[1] \notin {"create", "started", "run"}, at'[2] > 0,
           at'[1] = "start" => at'[2] = 1
    PROVE  LifeInv'
<1> USE ModulesDiffer
<1>1. \A k \in Index : ~Running(k)'
  <2>1. \A k \in Index : ~Running(k)
    BY DEF LifeInv, RunningSoFar
  <2> QED BY <2>1
<1>2. RunningSoFar'
  <2>1. CASE at'[1] = "start"
    BY <1>1, <2>1 DEF RunningSoFar
  <2>2. CASE at'[1] \in {"stop", "aborted"}
    BY <1>1, <2>2 DEF RunningSoFar, RunsOnWhatRuns, Running
  <2> QED BY <1>1, <2>1, <2>2 DEF RunningSoFar
<1>3. OrderSoFar'
  <2>1. mModuleOrder' = mModuleOrder /\ at[1] # "create" /\ at'[1] # "create"
    OBVIOUS
  <2>2. OrderSoFar
    BY DEF LifeInv
  <2> QED BY <2>1, <2>2 DEF OrderSoFar
<1> QED BY <1>2, <1>3 DEF LifeInv

\* A step that concerns an agent, the map and what blocks.
LEMMA DropTypes ==
    ASSUME ServerTypeOK, NEW a \in Agents, Drop(a)
    PROVE  agent' \in [Agents -> AgentStates] /\ open' \in [Agents -> BOOLEAN]
           /\ crashed' \in BOOLEAN
  BY DEF Drop, ServerTypeOK, AgentStates

LEMMA LetGoTypes ==
    ASSUME ServerTypeOK, NEW a \in Agents, LetGo(a)
    PROVE  agent' \in [Agents -> AgentStates] /\ open' \in [Agents -> BOOLEAN]
           /\ crashed' \in BOOLEAN /\ mServiceMap' \subseteq Agents
<1>1. CASE agent[a] = "failed"
  BY <1>1, DropTypes DEF LetGo, ServerTypeOK
<1>2. CASE agent[a] # "failed"
  BY <1>2 DEF LetGo, ServerTypeOK
<1> QED BY <1>1, <1>2

LEMMA LifeInvStep == LifeInv /\ [ServerNext]_processVars => LifeInv'
<1> SUFFICES ASSUME LifeInv, [ServerNext]_processVars PROVE LifeInv'
  OBVIOUS
<1> USE ModulesDiffer
<1>t. ServerTypeOK /\ at[1] \in Stages /\ at[2] \in 0 .. 8
  BY DEF LifeInv, ServerTypeOK
<1>1. CASE CreateModule
  <2>1. Module \in Range(Modules) /\ Module = Modules[at[2]] /\ at[2] \in Index
    BY <1>1, <1>t DEF CreateModule, LifeInv, OrderSoFar, Module
  <2>2. ServerTypeOK'
    <3>1. at' \in Stages \X (0 .. Len(Modules))
      BY <1>1, <1>t DEF CreateModule, GoesOn, Goes, Stages
    <3>2. mModuleOrder' \in Seq(Range(Modules))
      BY <1>1, <1>t, <2>1 DEF CreateModule, ServerTypeOK
    <3>3. moduleState' \in [Range(Modules) -> {"none", "CREATED", "INITIALIZED",
                                "RUNNING", "STOPPED", "destroying", "gone"}]
      BY <1>1, <1>t DEF CreateModule, ServerTypeOK, Becomes
    <3> QED BY <1>1, <1>t, <3>1, <3>2, <3>3 DEF CreateModule, ServerTypeOK, workers, agents
  <2>3. OrderSoFar'
    <3>1. Len(mModuleOrder) = at[2] - 1 /\ mModuleOrder \in Seq(Range(Modules))
          /\ at[1] = "create"
      BY <1>1, <1>t DEF CreateModule, LifeInv, OrderSoFar, ServerTypeOK
    <3>2. Len(mModuleOrder') = at[2]
      BY <1>1, <3>1, <2>1 DEF CreateModule
    <3>3. \A k \in 1 .. at[2] : mModuleOrder'[k] = Modules[k]
      BY <1>1, <3>1, <2>1 DEF CreateModule, LifeInv, OrderSoFar
    <3>4. DOMAIN mModuleOrder' = 1 .. at[2]
      BY <1>1, <3>1, <2>1 DEF CreateModule
    <3>5. IF at[2] < 8 THEN at' = <<"create", at[2] + 1>> ELSE at' = <<"directories", 1>>
      BY <1>1 DEF CreateModule, GoesOn, Goes
    <3>6. Len(mModuleOrder') = IF at'[1] = "create" THEN at'[2] - 1 ELSE 8
      BY <3>2, <3>5, <2>1
    <3>7. \A k \in DOMAIN mModuleOrder' : mModuleOrder'[k] = Modules[k]
      BY <3>3, <3>4
    <3>8. at'[1] # "stop" /\ at'[2] > 0
      BY <3>5, <2>1
    <3> QED BY <3>6, <3>7, <3>8 DEF OrderSoFar
  <2>4. \A k \in Index : ~Running(k)'
    BY <1>1, <1>t DEF CreateModule, LifeInv, RunningSoFar, Running, Becomes, ServerTypeOK
  <2>5. at'[1] \in {"create", "directories"}
    BY <1>1 DEF CreateModule, GoesOn, Goes
  <2> QED BY <2>2, <2>3, <2>4, <2>5 DEF LifeInv, RunningSoFar
<1>2. CASE Directories
  <2>1. at'[1] \in {"initial", "stop"} /\ at'[2] \in 1 .. 8 /\ at' \in Stages \X (0 .. 8)
    BY <1>2 DEF Directories, Goes, Stages
  <2>2. ServerTypeOK'
    BY <1>2, <1>t, <2>1 DEF Directories, ServerTypeOK, workers, agents
  <2> QED BY <1>2, <2>1, <2>2, LifeIsQuiet DEF Directories, Running
<1>3. CASE InitialModule
  <2>1. /\ at'[1] \in {"initial", "initialized", "aborted"} /\ at'[2] \in 1 .. 8
        /\ at' \in Stages \X (0 .. 8)
    BY <1>3, <1>t DEF InitialModule, GoesOn, Goes, Throws, Stages
  <2>2. \/ UNCHANGED moduleState \/ Becomes(Module, "INITIALIZED")
    BY <1>3 DEF InitialModule
  <2>3. ServerTypeOK'
    BY <1>3, <1>t, <2>1, <2>2 DEF InitialModule, ServerTypeOK, workers, agents, Becomes
  <2>4. \A k \in Index : Running(k)' => Running(k)
    BY <1>t, <2>2 DEF Running, Becomes, ServerTypeOK
  <2> QED BY <1>3, <2>1, <2>3, <2>4, LifeIsQuiet DEF InitialModule
<1>4. CASE InitialLoads
  <2>1. UNCHANGED at \/ at' = <<"aborted", 1>>
    BY <1>4 DEF InitialLoads, Throws, Goes
  <2>2. at'[1] \in {"initial", "aborted"} /\ at'[2] \in 1 .. 8
        /\ at' \in Stages \X (0 .. 8) /\ at[1] = "initial"
    <3>1. at[1] = "initial" /\ at[2] > 0
      BY <1>4 DEF InitialLoads, LifeInv, OrderSoFar
    <3> QED BY <1>t, <2>1, <3>1 DEF ServerTypeOK, Stages
  <2>3. ServerTypeOK'
    BY <1>4, <1>t, <2>2 DEF InitialLoads, ServerTypeOK, workers, agents
  <2> QED BY <1>4, <2>2, <2>3, LifeIsQuiet DEF InitialLoads, Running
<1>5. CASE InitialPool
  <2>1. /\ at'[1] \in {"initial", "initialized", "aborted"} /\ at'[2] \in 1 .. 8
        /\ at' \in Stages \X (0 .. 8)
    BY <1>5, <1>t DEF InitialPool, GoesOn, Goes, Throws, Stages
  <2>2. \/ UNCHANGED moduleState \/ Becomes(Module, "INITIALIZED")
    BY <1>5 DEF InitialPool
  <2>3. ServerTypeOK'
    BY <1>5, <1>t, <2>1, <2>2 DEF InitialPool, agents, ServerTypeOK, Becomes
  <2>4. \A k \in Index : Running(k)' => Running(k)
    BY <1>t, <2>2 DEF Running, Becomes, ServerTypeOK
  <2> QED BY <1>5, <2>1, <2>3, <2>4, LifeIsQuiet DEF InitialPool
<1>6. CASE InitialDone
  <2>1. at' = <<"start", 1>> /\ at' \in Stages \X (0 .. 8)
    BY <1>6 DEF InitialDone, Goes, Stages
  <2>2. ServerTypeOK'
    BY <1>6, <1>t, <2>1 DEF InitialDone, ServerTypeOK, workers, agents
  <2> QED BY <1>6, <2>1, <2>2, LifeIsQuiet DEF InitialDone, Running
<1>7. CASE StartModule
  <2>1. /\ at[1] = "start" /\ at[2] \in Index /\ Module = Modules[at[2]]
        /\ \A k \in Index : Running(k) <=> k < at[2]
    BY <1>7, <1>t DEF StartModule, LifeInv, OrderSoFar, RunningSoFar, Module
  <2>2. agent' \in [Agents -> AgentStates]
    <3>1. UNCHANGED agent \/ \E fail \in SUBSET Agents :
            agent' = [a \in Agents |->
                IF Module # "service" \/ agent[a] # "initialized" THEN agent[a]
                ELSE IF a \in fail THEN "failed" ELSE "looping"]
      BY <1>7 DEF StartModule
    <3> QED BY <1>t, <3>1 DEF ServerTypeOK, AgentStates
  <2>3. CASE Becomes(Module, "RUNNING") /\ GoesOn("start", "started")
    <3>1. IF at[2] < 8 THEN at' = <<"start", at[2] + 1>> ELSE at' = <<"started", 1>>
      BY <2>3 DEF GoesOn, Goes
    <3>2. ServerTypeOK'
      <4>1. at' \in Stages \X (0 .. 8)
        BY <2>1, <3>1 DEF Stages
      <4> QED BY <1>7, <1>t, <2>2, <2>3, <4>1 DEF StartModule, ServerTypeOK, Becomes
    <3>3. \A k \in Index : Running(k)' <=> k < at[2] + 1
      BY <1>t, <2>1, <2>3 DEF Becomes, Running, ServerTypeOK
    <3>4. RunningSoFar'
      BY <2>1, <3>1, <3>3 DEF RunningSoFar
    <3>5. OrderSoFar'
      BY <1>7, <2>1, <3>1 DEF StartModule, LifeInv, OrderSoFar
    <3> QED BY <3>2, <3>4, <3>5 DEF LifeInv
  <2>4. CASE Throws /\ UNCHANGED moduleState
    <3>1. at' = <<"aborted", 1>> /\ at' \in Stages \X (0 .. 8)
      BY <2>4 DEF Throws, Goes, Stages
    <3>2. ServerTypeOK'
      BY <1>7, <1>t, <2>2, <2>4, <3>1 DEF StartModule, ServerTypeOK
    <3>3. \A i, j \in Index : i < j /\ Running(j)' => Running(i)'
      BY <2>1, <2>4 DEF Running
    <3>4. RunningSoFar'
      BY <3>1, <3>3 DEF RunningSoFar, RunsOnWhatRuns, Running
    <3>5. OrderSoFar'
      BY <1>7, <2>1, <3>1 DEF StartModule, LifeInv, OrderSoFar
    <3> QED BY <3>2, <3>4, <3>5 DEF LifeInv
  <2> QED BY <1>7, <2>3, <2>4 DEF StartModule
<1>8. CASE StartDone
  <2>1. at[1] = "started" /\ at' = <<"run", 1>> /\ at' \in Stages \X (0 .. 8)
    BY <1>8 DEF StartDone, Goes, Stages
  <2>2. ServerTypeOK'
    BY <1>8, <1>t, <2>1 DEF StartDone, ServerTypeOK, workers, agents
  <2>3. RunningSoFar' /\ OrderSoFar'
    BY <1>8, <2>1 DEF StartDone, LifeInv, RunningSoFar, OrderSoFar, Running
  <2> QED BY <2>2, <2>3 DEF LifeInv
<1>9. CASE Signal
  <2>1. at[1] = "run" /\ at' = <<"stop", 8>> /\ at' \in Stages \X (0 .. 8)
    BY <1>9 DEF Signal, Goes, Stages
  <2>2. ServerTypeOK'
    BY <1>9, <1>t, <2>1 DEF Signal, ServerTypeOK, workers, agents
  <2>3. RunningSoFar' /\ OrderSoFar'
    BY <1>9, <2>1 DEF Signal, LifeInv, RunningSoFar, OrderSoFar, Running, RunsOnWhatRuns
  <2> QED BY <2>2, <2>3 DEF LifeInv
<1>10. CASE StopModule
  <2>1. /\ at[1] = "stop" /\ at[2] \in 1 .. 8 /\ at' = <<"stop", at[2] - 1>>
        /\ mModuleOrder[at[2]] = Modules[at[2]]
    <3>1. at[1] = "stop" /\ at[2] \in 1 .. 8 /\ at' = <<"stop", at[2] - 1>>
      BY <1>10, <1>t DEF StopModule, StopsModule, Goes
    <3>2. DOMAIN mModuleOrder = 1 .. 8
      BY <1>t, <3>1 DEF LifeInv, OrderSoFar, ServerTypeOK
    <3> QED BY <3>1, <3>2 DEF LifeInv, OrderSoFar
  <2>2. Becomes(Modules[at[2]], "STOPPED")
    BY <1>10, <2>1 DEF StopModule, StopsModule
  <2>3. ServerTypeOK'
    <3>1. at' \in Stages \X (0 .. 8)
      BY <2>1 DEF Stages
    <3>2. poolStopped' \in [Pools -> BOOLEAN]
      <4>1. poolStopped' = [p \in Pools |-> poolStopped[p] \/ p = mModuleOrder[at[2]]]
        BY <1>10 DEF StopModule, StopsModule
      <4>2. \A p \in Pools : (poolStopped[p] \/ p = mModuleOrder[at[2]]) \in BOOLEAN
        OBVIOUS
      <4> QED BY <4>1, <4>2
    <3>3. open' \in [Agents -> BOOLEAN]
      <4>1. open' = [a \in Agents |-> open[a] /\ ~(mModuleOrder[at[2]] = "service"
                                                /\ a \in mServiceMap)]
        BY <1>10 DEF StopModule, StopsModule
      <4>2. \A a \in Agents : (open[a] /\ ~(mModuleOrder[at[2]] = "service"
                                            /\ a \in mServiceMap)) \in BOOLEAN
        OBVIOUS
      <4> QED BY <4>1, <4>2
    <3>4. crashed' \in BOOLEAN
      BY <1>10 DEF StopModule, StopsModule
    <3>5. UNCHANGED <<mState, mModuleOrder, threads, blocked, agent, mServiceMap>>
      BY <1>10 DEF StopModule, StopsModule
    <3> QED BY <1>t, <2>2, <3>1, <3>2, <3>3, <3>4, <3>5 DEF ServerTypeOK, Becomes
  <2>4. \A k \in Index : Running(k)' <=> Running(k) /\ k # at[2]
    BY <1>t, <2>1, <2>2 DEF Becomes, Running, ServerTypeOK
  <2>5. RunningSoFar'
    <3>1. /\ \A k \in Index : Running(k) => k <= at[2]
          /\ \A i, j \in Index : i < j /\ Running(j) => Running(i)
      BY <2>1 DEF LifeInv, RunningSoFar, RunsOnWhatRuns, Running
    <3>2. \A k \in Index : Running(k)' => k <= at[2] - 1
      BY <2>1, <2>4, <3>1
    <3>3. \A i, j \in Index : i < j /\ Running(j)' => Running(i)'
      BY <2>1, <2>4, <3>1
    <3> QED BY <2>1, <3>2, <3>3 DEF RunningSoFar, RunsOnWhatRuns, Running
  <2>6. OrderSoFar'
    BY <1>10, <2>1 DEF StopModule, StopsModule, LifeInv, OrderSoFar
  <2> QED BY <2>3, <2>5, <2>6 DEF LifeInv
<1>11. CASE ShutdownDone
  <2>1. at = <<"stop", 0>> /\ at' = <<"delete", 1>> /\ at' \in Stages \X (0 .. 8)
    BY <1>11 DEF ShutdownDone, At, Goes, Stages
  <2>2. ServerTypeOK'
    BY <1>11, <1>t, <2>1 DEF ShutdownDone, ServerTypeOK, workers, agents
  <2>3. \A k \in Index : ~Running(k)'
    BY <1>11, <2>1 DEF ShutdownDone, LifeInv, RunningSoFar, Running
  <2>4. OrderSoFar'
    BY <1>11, <2>1 DEF ShutdownDone, LifeInv, OrderSoFar
  <2> QED BY <2>1, <2>2, <2>3, <2>4 DEF LifeInv, RunningSoFar
<1>12. ASSUME NEW m \in Range(Modules), DestroyModule(m) PROVE LifeInv'
  <2>1. /\ at[1] = "delete" /\ at'[1] \in {"delete", "ended"} /\ at'[2] \in 1 .. 8
        /\ at' \in Stages \X (0 .. 8) /\ Becomes(m, "gone")
    BY <1>12, <1>t DEF DestroyModule, Destroyed, Goes, Stages, ServerTypeOK, LifeInv, OrderSoFar
  <2>2. ServerTypeOK'
    BY <1>12, <1>t, <2>1 DEF DestroyModule, ServerTypeOK, workers, agents, Becomes
  <2>3. \A k \in Index : Running(k)' => Running(k)
    BY <1>t, <2>1 DEF Running, Becomes, ServerTypeOK
  <2> QED BY <1>12, <2>1, <2>2, <2>3, LifeIsQuiet DEF DestroyModule
<1>13. ASSUME NEW p \in Pools, DestroyFactory(p) \/ DestroyPool(p) PROVE LifeInv'
  <2>1. /\ at[1] = "delete" /\ at'[1] \in {"delete", "ended"} /\ at'[2] \in 1 .. 8
        /\ at' \in Stages \X (0 .. 8)
        /\ Becomes(p, "gone") \/ Becomes(p, "destroying")
    BY <1>13, <1>t DEF DestroyFactory, DestroyPool, Destroyed, Goes, Stages, ServerTypeOK,
       LifeInv, OrderSoFar
  <2>2. ServerTypeOK'
    <3>1. moduleState' \in [Range(Modules) -> {"none", "CREATED", "INITIALIZED",
                                "RUNNING", "STOPPED", "destroying", "gone"}]
      BY <1>t, <2>1 DEF ServerTypeOK, Becomes
    <3>2. threads' \subseteq Pools /\ crashed' \in BOOLEAN
      BY <1>13, <1>t DEF DestroyFactory, DestroyPool, ServerTypeOK
    <3>3. poolStopped' \in [Pools -> BOOLEAN]
      <4>1. poolStopped' = poolStopped \/ poolStopped' = [poolStopped EXCEPT ![p] = TRUE]
        BY <1>13 DEF DestroyFactory, DestroyPool
      <4> QED BY <1>t, <4>1 DEF ServerTypeOK
    <3>4. UNCHANGED <<mState, mModuleOrder, blocked, agents>>
      BY <1>13 DEF DestroyFactory, DestroyPool
    <3> QED BY <1>t, <2>1, <3>1, <3>2, <3>3, <3>4 DEF ServerTypeOK, agents
  <2>3. \A k \in Index : Running(k)' => Running(k)
    BY <1>t, <2>1 DEF Running, Becomes, ServerTypeOK
  <2> QED BY <1>13, <2>1, <2>2, <2>3, LifeIsQuiet DEF DestroyFactory, DestroyPool
<1>14. ASSUME NEW p \in Pools, PoolAborts(p) PROVE LifeInv'
  <2>1. ServerTypeOK'
    BY <1>14, <1>t DEF PoolAborts, agents, ServerTypeOK, serverVars
  <2> QED BY <1>14, <2>1, LifeGoesOn DEF PoolAborts, serverVars
<1>15. ASSUME NEW a \in Agents, Service(a) \/ MapCleared(a) PROVE LifeInv'
  <2>1. UNCHANGED serverVars /\ UNCHANGED <<poolStopped, threads>>
    BY <1>15 DEF Service, InitialCreates, InitialAgent, InitialFails, InitialInserts, Boots,
       BootStarts, BootInserts, ShutdownService, HandleBegin, HandlerUses, HandlerReturns,
       HandleEnd, HandlerThrows, HandlerBlocks, CleanUp, MapCleared, workers
  <2>2. /\ agent' \in [Agents -> AgentStates] /\ open' \in [Agents -> BOOLEAN]
        /\ crashed' \in BOOLEAN /\ mServiceMap' \subseteq Agents /\ blocked' \subseteq Pools
    <3>1. CASE InitialCreates(a) \/ Boots(a) \/ HandlerUses(a)
      BY <1>t, <3>1 DEF InitialCreates, Boots, HandlerUses, workers, agents, ServerTypeOK
    <3>2. CASE InitialAgent(a) \/ InitialInserts(a) \/ BootStarts(a) \/ BootInserts(a)
               \/ HandleBegin(a) \/ HandlerBlocks(a)
      BY <1>t, <3>2 DEF InitialAgent, InitialInserts, BootStarts, BootInserts, HandleBegin,
         HandlerBlocks, ServerTypeOK, AgentStates, Pools
    <3>3. CASE InitialFails(a) \/ CleanUp(a)
      BY <1>t, <3>3, DropTypes DEF InitialFails, CleanUp, ServerTypeOK
    <3>4. CASE HandleEnd(a) \/ HandlerThrows(a)
      <4>1. CASE Drop(a)
        BY <1>t, <3>4, <4>1, DropTypes DEF HandleEnd, HandlerThrows, ServerTypeOK
      <4>2. CASE ~Drop(a)
        BY <1>t, <3>4, <4>2 DEF HandleEnd, HandlerThrows, ServerTypeOK, AgentStates
      <4> QED BY <4>1, <4>2
    <3>5. CASE ShutdownService(a) \/ MapCleared(a)
      BY <1>t, <3>5, LetGoTypes DEF ShutdownService, MapCleared, ServerTypeOK
    <3> QED BY <1>15, <3>1, <3>2, <3>3, <3>4, <3>5 DEF Service, HandlerReturns
  <2>3. ServerTypeOK'
    BY <1>t, <2>1, <2>2 DEF ServerTypeOK, serverVars
  <2> QED BY <2>1, <2>3, LifeGoesOn DEF serverVars
<1>16. CASE UNCHANGED processVars
  <2>1. ServerTypeOK'
    BY <1>16, <1>t DEF processVars, serverVars, workers, agents, ServerTypeOK
  <2> QED BY <1>16, <2>1, LifeGoesOn DEF processVars, serverVars
<1>17. CASE PlayerBlocks
  <2>1. ServerTypeOK'
    BY <1>17, <1>t DEF PlayerBlocks, agents, Pools, ServerTypeOK, serverVars
  <2> QED BY <1>17, <2>1, LifeGoesOn DEF PlayerBlocks, serverVars
<1> QED
  BY <1>1, <1>2, <1>3, <1>4, <1>5, <1>6, <1>7, <1>8, <1>9, <1>10, <1>11, <1>12, <1>13,
     <1>14, <1>15, <1>16, <1>17 DEF ServerNext, Main

----------------------------------------------------------------------------
\* OwningHandle counts as this module does.
LEMMA SameCardinality == \A S : Own!Cardinality(S) = Cardinality(S)
<1> SUFFICES ASSUME NEW S PROVE Own!Cardinality(S) = Cardinality(S)
  BY Zenon
<1> QED BY DEF Own!Cardinality, Cardinality

LEMMA FactoryInvInit == ServerInit => FactoryInv
<1> SUFFICES ASSUME ServerInit PROVE FactoryInv
  OBVIOUS
<1> USE NamesAssumption
<1>1. handles \in HandleStates /\ HandlesOfTheirAgent
  BY DEF ServerInit, FactoryInit, HandleStates, HandlesOfTheirAgent, HandlesOf, Has, Own!NoHandles
<1>2. libraries \in LibraryStates
  BY DEF ServerInit, FactoryInit, LibraryStates, Lib!NoLibraries
<1>3. EntriesHoldTheirLibrary
  BY DEF ServerInit, FactoryInit, EntriesHoldTheirLibrary, Lib!NoLibraries
<1> QED BY <1>1, <1>2, <1>3 DEF ServerInit, FactoryInit, FactoryInv

\* Until the destructor, an entry is the library of its file, or nothing.
LEMMA EntriesMean == \A f \in Files : f \in Entries <=> libraries.mControl[f] # None
  BY DEF Entries, Lib!IsValid

LEMMA LoadLibraryStep == FactoryInv /\ LoadLibrary => FactoryInv'
<1> SUFFICES ASSUME FactoryInv, LoadLibrary PROVE FactoryInv'
  OBVIOUS
<1> USE NamesAssumption
<1>1. factory = "new" /\ file = None /\ UNCHANGED <<path, handles>>
  BY DEF LoadLibrary
<1>2. libraries \in LibraryStates /\ EntriesHoldTheirLibrary
  BY <1>1 DEF FactoryInv
<1>3. HandlesOfTheirAgent'
  BY <1>1 DEF FactoryInv, HandlesOfTheirAgent, HandlesOf, Has
<1>4. CASE factory' = "threw" /\ UNCHANGED <<pending, file, libraries>>
  <2>1. EntriesHoldTheirLibrary'
    BY <1>1, <1>2, <1>4 DEF EntriesHoldTheirLibrary, Entries, Lib!IsValid
  <2> QED BY <1>1, <1>2, <1>3, <1>4, <2>1 DEF FactoryInv
<1>5. ASSUME NEW f \in pending, pending' = pending \ {f}, file' = f,
             libraries' = Lib!Load(libraries, "library", f), UNCHANGED factory
      PROVE  FactoryInv'
  <2>1. f \in Files
    BY DEF FactoryInv
  <2>2. /\ libraries' \in LibraryStates
        /\ libraries'.mControl = [libraries.mControl EXCEPT !["library"] = f]
        /\ libraries'.refCount = [libraries.refCount EXCEPT ![f] = 1]
        /\ libraries'.loaded = libraries.loaded \cup {f}
    BY <1>2, <1>5, <2>1 DEF LibraryStates, Lib!Load, Lib!Points
  <2>3. /\ \A g \in Files : libraries'.mControl[g] = libraries.mControl[g]
        /\ libraries'.mControl["library"] = f
        /\ libraries'.mControl["entry"] = libraries.mControl["entry"]
        /\ libraries'.refCount[f] = 1
    BY <1>2, <2>1, <2>2 DEF LibraryStates
  <2>4. EntriesHoldTheirLibrary'
    BY <1>1, <1>2, <1>5, <2>1, <2>2, <2>3 DEF EntriesHoldTheirLibrary, Entries, Lib!IsValid
  <2> QED BY <1>1, <1>3, <1>5, <2>1, <2>2, <2>4 DEF FactoryInv
<1> QED BY <1>4, <1>5 DEF LoadLibrary

LEMMA InsertEntryStep == FactoryInv /\ InsertEntry => FactoryInv'
<1> SUFFICES ASSUME FactoryInv, InsertEntry PROVE FactoryInv'
  OBVIOUS
<1> USE NamesAssumption
<1>1. /\ factory = "new" /\ file \in Files /\ file' = None
      /\ UNCHANGED <<pending, path, handles, factory>>
  BY DEF InsertEntry, FactoryInv
<1>2. libraries \in LibraryStates /\ EntriesHoldTheirLibrary
  BY <1>1 DEF FactoryInv
<1>3. HandlesOfTheirAgent'
  BY <1>1 DEF FactoryInv, HandlesOfTheirAgent, HandlesOf, Has
<1>4. /\ libraries.mControl["library"] = file /\ libraries.mControl["entry"] = None
      /\ libraries.mControl[file] = None /\ libraries.refCount[file] = 1
      /\ file \in libraries.loaded
  BY <1>1, <1>2 DEF EntriesHoldTheirLibrary
<1>5. CASE file \in NoSymbols
  <2>1. libraries' = Lib!Release(libraries, "library")
    BY <1>5 DEF InsertEntry
  <2>2. /\ libraries' \in LibraryStates
        /\ libraries'.mControl = [libraries.mControl EXCEPT !["library"] = None]
        /\ libraries'.loaded = libraries.loaded \ {file}
    <3>1. PICK t : t = Lib!Points(libraries, "library", None)
      OBVIOUS
    <3>2. libraries' = [t EXCEPT !.refCount[file] = 0, !.loaded = @ \ {file},
                                 !.unloads[file] = @ + 1]
      BY <1>1, <1>4, <2>1, <3>1 DEF Lib!Release
    <3>3. /\ t \in LibraryStates
          /\ t.mControl = [libraries.mControl EXCEPT !["library"] = None]
          /\ t.loaded = libraries.loaded
      BY <1>1, <1>2, <3>1 DEF LibraryStates, Lib!Points
    <3>4. libraries' \in LibraryStates
      <4>1. PICK u : u = [t EXCEPT !.refCount[file] = 0]
        OBVIOUS
      <4>2. u \in LibraryStates
        BY <1>1, <3>3, <4>1 DEF LibraryStates
      <4>3. PICK v : v = [u EXCEPT !.loaded = @ \ {file}]
        OBVIOUS
      <4>4. v \in LibraryStates
        BY <1>1, <4>2, <4>3 DEF LibraryStates
      <4>5. libraries' = [v EXCEPT !.unloads[file] = @ + 1]
        BY <1>1, <3>2, <3>3, <4>1, <4>3 DEF LibraryStates
      <4> QED BY <1>1, <4>4, <4>5 DEF LibraryStates
    <3>5. libraries'.mControl = t.mControl /\ libraries'.loaded = t.loaded \ {file}
      BY <1>1, <3>2, <3>3 DEF LibraryStates
    <3> QED BY <3>3, <3>4, <3>5
  <2>3. /\ \A g \in Files : libraries'.mControl[g] = libraries.mControl[g]
        /\ libraries'.mControl["library"] = None
        /\ libraries'.mControl["entry"] = libraries.mControl["entry"]
    BY <1>2, <2>2 DEF LibraryStates
  <2>4. EntriesHoldTheirLibrary'
    BY <1>1, <1>2, <1>4, <2>2, <2>3 DEF EntriesHoldTheirLibrary, Entries, Lib!IsValid, FactoryInv
  <2> QED BY <1>1, <1>3, <2>2, <2>4 DEF FactoryInv
<1>6. CASE file \notin NoSymbols
  <2>1. PICK entry : entry = Lib!Copy(libraries, "entry", "library")
    OBVIOUS
  <2>2. PICK moved : moved = Lib!MoveAssign(entry, file, "entry")
    OBVIOUS
  <2>3. PICK kept : kept = Lib!Release(moved, "entry")
    OBVIOUS
  <2>4. libraries' = Lib!Release(kept, "library")
    BY <1>6, <2>1, <2>2, <2>3 DEF InsertEntry
  <2>5. /\ entry \in LibraryStates /\ entry.loaded = libraries.loaded
        /\ entry.mControl = [libraries.mControl EXCEPT !["entry"] = file]
        /\ entry.refCount = [libraries.refCount EXCEPT ![file] = 2]
    <3>1. PICK t : t = Lib!Points(libraries, "entry", file)
      OBVIOUS
    <3>2. entry = [t EXCEPT !.refCount[file] = @ + 1]
      BY <1>1, <1>4, <2>1, <3>1 DEF Lib!Copy, Lib!Counted
    <3>3. /\ t \in LibraryStates /\ t.loaded = libraries.loaded
          /\ t.mControl = [libraries.mControl EXCEPT !["entry"] = file]
          /\ t.refCount = libraries.refCount
      BY <1>1, <1>2, <3>1 DEF LibraryStates, Lib!Points
    <3>4. t.refCount[file] = 1
      BY <1>4, <3>3
    <3> QED BY <1>1, <3>2, <3>3, <3>4 DEF LibraryStates
  <2>6. entry.mControl[file] = None
    BY <1>1, <1>2, <1>4, <2>5 DEF LibraryStates
  <2>7. PICK free : free = Lib!Release(entry, file)
    OBVIOUS
  <2>8. /\ free \in LibraryStates /\ free.loaded = libraries.loaded
        /\ free.mControl = [libraries.mControl EXCEPT !["entry"] = file]
        /\ free.refCount = [libraries.refCount EXCEPT ![file] = 2]
    BY <1>1, <1>2, <1>4, <2>5, <2>6, <2>7 DEF LibraryStates, Lib!Release, Lib!Points
  <2>9. moved = Lib!Move(free, file, "entry")
    BY <1>1, <2>2, <2>7 DEF Lib!MoveAssign
  <2>10. /\ moved \in LibraryStates /\ moved.loaded = libraries.loaded
         /\ moved.mControl = [libraries.mControl EXCEPT ![file] = file]
         /\ moved.refCount = [libraries.refCount EXCEPT ![file] = 2]
    BY <1>1, <1>2, <1>4, <2>8, <2>9 DEF LibraryStates, Lib!Move, Lib!Points
  <2>11. /\ kept \in LibraryStates /\ kept.loaded = libraries.loaded
         /\ kept.mControl = [libraries.mControl EXCEPT ![file] = file]
         /\ kept.refCount = [libraries.refCount EXCEPT ![file] = 2]
    BY <1>1, <1>2, <1>4, <2>3, <2>10 DEF LibraryStates, Lib!Release, Lib!Points
  <2>12. kept.mControl["library"] = file /\ kept.refCount[file] = 2
    BY <1>1, <1>2, <1>4, <2>11 DEF LibraryStates
  <2>13. /\ libraries' \in LibraryStates /\ libraries'.loaded = libraries.loaded
         /\ libraries'.mControl = [kept.mControl EXCEPT !["library"] = None]
    <3>1. PICK t : t = Lib!Points(kept, "library", None)
      OBVIOUS
    <3>2. libraries' = [t EXCEPT !.refCount[file] = @ - 1]
      BY <1>1, <2>4, <2>12, <3>1 DEF Lib!Release
    <3>3. /\ t \in LibraryStates /\ t.loaded = kept.loaded
          /\ t.mControl = [kept.mControl EXCEPT !["library"] = None]
          /\ t.refCount = kept.refCount
      BY <1>1, <2>11, <3>1 DEF LibraryStates, Lib!Points
    <3>4. t.refCount[file] = 2
      BY <2>12, <3>3
    <3> QED BY <1>1, <2>11, <3>2, <3>3, <3>4 DEF LibraryStates
  <2>14. /\ \A g \in Files : libraries'.mControl[g]
                                = IF g = file THEN file ELSE libraries.mControl[g]
         /\ libraries'.mControl["library"] = None
         /\ libraries'.mControl["entry"] = libraries.mControl["entry"]
    BY <1>1, <1>2, <2>11, <2>13 DEF LibraryStates
  <2>15. EntriesHoldTheirLibrary'
    BY <1>1, <1>2, <1>4, <2>13, <2>14 DEF EntriesHoldTheirLibrary, Entries, Lib!IsValid,
       FactoryInv
  <2> QED BY <1>1, <1>3, <2>13, <2>15 DEF FactoryInv
<1> QED BY <1>5, <1>6

LEMMA LoadDoneStep == FactoryInv /\ LoadDone => FactoryInv'
<1> SUFFICES ASSUME FactoryInv, LoadDone PROVE FactoryInv'
  OBVIOUS
<1>1. EntriesHoldTheirLibrary'
  BY DEF FactoryInv, LoadDone, EntriesHoldTheirLibrary, Entries, Lib!IsValid
<1>2. HandlesOfTheirAgent'
  BY DEF FactoryInv, LoadDone, HandlesOfTheirAgent, HandlesOf, Has
<1> QED BY <1>1, <1>2 DEF FactoryInv, LoadDone

\* What concerns the libraries holds as long as nobody touches them and paths
\* lead to entries.
LEMMA EntriesStay ==
    ASSUME FactoryInv, UNCHANGED <<pending, file, libraries, factory>>,
           factory # "gone" => \A a \in Agents : path'[a] # None => path'[a] \in Entries
    PROVE  /\ factory' # "gone" => libraries' \in LibraryStates /\ EntriesHoldTheirLibrary'
           /\ pending' \subseteq Files /\ file' \in Files \cup {None}
  BY DEF FactoryInv, EntriesHoldTheirLibrary, Entries, Lib!IsValid

\* A step that concerns the handles and the path of one agent.
LEMMA HandlesStay ==
    ASSUME FactoryInv, NEW a \in Agents, HandlesOf(a)',
           \A b \in Agents \ {a} : /\ path'[b] = path[b]
                                   /\ handles'.destroyed[b] = handles.destroyed[b]
                                   /\ \A h \in {"boot", "agent"} :
                                        handles'.owned[<<b, h>>] = handles.owned[<<b, h>>]
    PROVE  HandlesOfTheirAgent'
<1> SUFFICES ASSUME NEW b \in Agents \ {a} PROVE HandlesOf(b)'
  BY DEF HandlesOfTheirAgent
<1>1. HandlesOf(b)
  BY DEF FactoryInv, HandlesOfTheirAgent
<1> QED BY <1>1 DEF HandlesOf, Has

LEMMA CreateInstanceStep ==
    ASSUME FactoryInv, NEW a \in Agents, NEW f \in Files, CreateInstance(a, f)
    PROVE  FactoryInv'
<1> USE NamesAssumption
<1>1. /\ factory = "loaded" /\ path[a] = None /\ f \in Entries
      /\ path' = [path EXCEPT ![a] = f]
      /\ UNCHANGED <<pending, file, libraries, factory>>
  BY DEF CreateInstance
<1>2. /\ handles' \in HandleStates /\ handles'.destroyed = handles.destroyed
      /\ handles'.owned = [handles.owned EXCEPT ![<<a, "boot">>] = a]
  BY DEF CreateInstance, FactoryInv, HandleStates, Own!Construct
<1>3. path' \in [Agents -> Files \cup {None}]
  BY <1>1 DEF FactoryInv
<1>4. \A b \in Agents, h \in {"boot", "agent"} :
        handles'.owned[<<b, h>>] = IF b = a /\ h = "boot" THEN a ELSE handles.owned[<<b, h>>]
  BY <1>2 DEF FactoryInv, HandleStates
<1>5. HandlesOfTheirAgent'
  <2>1. HandlesOf(a) /\ path'[a] # None /\ \A b \in Agents \ {a} : path'[b] = path[b]
    BY <1>1 DEF FactoryInv, HandlesOfTheirAgent
  <2>2. HandlesOf(a)'
    <3>1. handles.owned[<<a, "agent">>] = None /\ handles.destroyed[a] # 1
      BY <1>1, <2>1 DEF HandlesOf, Has
    <3>2. /\ handles'.owned[<<a, "agent">>] = None /\ handles'.owned[<<a, "boot">>] = a
          /\ handles'.destroyed[a] # 1 /\ a # None
      BY <1>2, <1>4, <3>1
    <3> QED BY <2>1, <3>2 DEF HandlesOf, Has
  <2> QED BY <1>2, <1>4, <2>1, <2>2, HandlesStay
<1>6. \A b \in Agents : path'[b] # None => path'[b] \in Entries
  BY <1>1 DEF FactoryInv, EntriesHoldTheirLibrary
<1> QED BY <1>1, <1>2, <1>3, <1>5, <1>6, EntriesStay DEF FactoryInv

LEMMA SetUpServiceStep ==
    ASSUME FactoryInv, NEW a \in Agents, SetUpService(a)
    PROVE  FactoryInv'
<1> USE NamesAssumption
<1>1. UNCHANGED <<pending, file, libraries, path, factory>> /\ handles \in HandleStates
  BY DEF SetUpService, FactoryInv
<1>2. handles.owned[<<a, "boot">>] = a /\ handles.owned[<<a, "agent">>] = None
  BY DEF SetUpService, FactoryInv, HandlesOfTheirAgent, HandlesOf, Has, Own!Owns
<1>3. Own!Release(handles, <<a, "agent">>) = handles
  BY <1>2 DEF Own!Release, Own!Owns
<1>4. PICK moved : moved = Own!Move(handles, <<a, "agent">>, <<a, "boot">>)
  OBVIOUS
<1>5. Own!MoveAssign(handles, <<a, "agent">>, <<a, "boot">>) = moved
  BY <1>3, <1>4 DEF Own!MoveAssign
<1>6. /\ moved \in HandleStates /\ moved.destroyed = handles.destroyed
      /\ moved.owned = [handles.owned EXCEPT ![<<a, "agent">>] = a, ![<<a, "boot">>] = None]
  BY <1>1, <1>2, <1>4 DEF Own!Move, HandleStates
<1>7. \A b \in Agents, h \in {"boot", "agent"} :
        moved.owned[<<b, h>>] = IF b = a THEN IF h = "boot" THEN None ELSE a
                                ELSE handles.owned[<<b, h>>]
  BY <1>1, <1>6 DEF HandleStates
<1>8. handles' = moved
  BY <1>5, <1>7 DEF SetUpService, Own!Release, Own!Owns
<1>9. HandlesOfTheirAgent'
  <2>1. HandlesOf(a)
    BY DEF FactoryInv, HandlesOfTheirAgent
  <2>2. HandlesOf(a)'
    BY <1>1, <1>2, <1>6, <1>7, <1>8, <2>1 DEF HandlesOf, Has
  <2> QED BY <1>1, <1>6, <1>7, <1>8, <2>2, HandlesStay
<1>10. factory # "gone" => \A b \in Agents : path'[b] # None => path'[b] \in Entries
  BY <1>1 DEF FactoryInv, EntriesHoldTheirLibrary
<1> QED BY <1>1, <1>6, <1>8, <1>9, <1>10, EntriesStay DEF FactoryInv

LEMMA ReleaseServiceStep ==
    ASSUME FactoryInv, NEW a \in Agents, ReleaseService(a)
    PROVE  FactoryInv'
<1> USE NamesAssumption
<1>1. UNCHANGED <<pending, file, libraries, path, factory>> /\ handles \in HandleStates
  BY DEF ReleaseService, FactoryInv
<1>2. factory # "gone" => \A b \in Agents : path'[b] # None => path'[b] \in Entries
  BY <1>1 DEF FactoryInv, EntriesHoldTheirLibrary
<1>3. CASE ~Has(a, "agent")
  <2>1. handles' = handles
    <3>1. HandlesOf(a)
      BY DEF FactoryInv, HandlesOfTheirAgent
    <3>2. handles.owned[<<a, "agent">>] = None
      BY <1>3, <3>1 DEF HandlesOf, Has
    <3> QED BY <3>2 DEF ReleaseService, Own!Release, Own!Owns
  <2>2. HandlesOfTheirAgent'
    BY <1>1, <2>1 DEF FactoryInv, HandlesOfTheirAgent, HandlesOf, Has
  <2> QED BY <1>1, <1>2, <2>1, <2>2, EntriesStay DEF FactoryInv
<1>4. CASE Has(a, "agent")
  <2>1. handles' = [handles EXCEPT !.owned[<<a, "agent">>] = None, !.destroyed[a] = @ + 1]
    BY <1>4 DEF ReleaseService, Own!Release, Own!Owns, Has
  <2>2. handles.destroyed[a] = 0 /\ ~Has(a, "boot")
    <3>1. HandlesOf(a) /\ handles.destroyed[a] \in 0 .. 1
      BY <1>1 DEF FactoryInv, HandlesOfTheirAgent, HandleStates
    <3> QED BY <1>4, <3>1 DEF HandlesOf
  <2>3. /\ handles' \in HandleStates
        /\ handles'.owned = [handles.owned EXCEPT ![<<a, "agent">>] = None]
        /\ handles'.destroyed = [handles.destroyed EXCEPT ![a] = 1]
    <3>1. PICK t : t = [handles EXCEPT !.owned[<<a, "agent">>] = None]
      OBVIOUS
    <3>2. /\ t \in HandleStates /\ t.destroyed = handles.destroyed
          /\ t.owned = [handles.owned EXCEPT ![<<a, "agent">>] = None]
      BY <1>1, <3>1 DEF HandleStates
    <3>3. handles' = [t EXCEPT !.destroyed[a] = 1]
      BY <1>1, <2>1, <2>2, <3>1 DEF HandleStates
    <3> QED BY <3>2, <3>3 DEF HandleStates
  <2>4. \A b \in Agents, h \in {"boot", "agent"} :
          handles'.owned[<<b, h>>] =
            IF b = a /\ h = "agent" THEN None ELSE handles.owned[<<b, h>>]
    BY <1>1, <2>3 DEF HandleStates
  <2>5. \A b \in Agents : handles'.destroyed[b] =
            IF b = a THEN 1 ELSE handles.destroyed[b]
    BY <1>1, <2>3 DEF HandleStates
  <2>6. HandlesOfTheirAgent'
    <3>1. HandlesOf(a)
      BY DEF FactoryInv, HandlesOfTheirAgent
    <3>2. HandlesOf(a)'
      BY <1>1, <1>4, <2>2, <2>4, <2>5, <3>1 DEF HandlesOf, Has
    <3> QED BY <1>1, <2>4, <2>5, <3>2, HandlesStay
  <2> QED BY <1>1, <1>2, <2>3, <2>6, EntriesStay DEF FactoryInv
<1> QED BY <1>3, <1>4

\* A step that leaves the factory, the libraries and the handles where they are.
LEMMA FactoryStays ==
    ASSUME FactoryInv, UNCHANGED factoryVars
    PROVE  FactoryInv'
<1>1. HandlesOfTheirAgent'
  BY DEF factoryVars, FactoryInv, HandlesOfTheirAgent, HandlesOf, Has
<1>2. factory # "gone" => EntriesHoldTheirLibrary'
  BY DEF factoryVars, FactoryInv, EntriesHoldTheirLibrary, Entries, Lib!IsValid
<1> QED BY <1>1, <1>2 DEF factoryVars, FactoryInv

LEMMA DropStep ==
    ASSUME FactoryInv, NEW a \in Agents, Drop(a)
    PROVE  FactoryInv'
  BY ReleaseServiceStep, FactoryStays DEF Drop

LEMMA FactoryInvStep == FactoryInv /\ [ServerNext]_processVars => FactoryInv'
<1> SUFFICES ASSUME FactoryInv, [ServerNext]_processVars PROVE FactoryInv'
  OBVIOUS
<1>1. CASE UNCHANGED factoryVars
  BY <1>1, FactoryStays
<1>2. CASE InitialLoads
  BY <1>2, LoadLibraryStep, InsertEntryStep, LoadDoneStep DEF InitialLoads
<1>3. ASSUME NEW p \in Pools, DestroyFactory(p) PROVE FactoryInv'
  <2>1. CASE FactoryGone
    <3>1. UNCHANGED <<pending, file, path, handles>> /\ factory' = "gone"
      BY <2>1 DEF FactoryGone
    <3>2. HandlesOfTheirAgent'
      BY <3>1 DEF FactoryInv, HandlesOfTheirAgent, HandlesOf, Has
    <3> QED BY <3>1, <3>2 DEF FactoryInv
  <2> QED BY <1>1, <1>3, <2>1 DEF DestroyFactory
<1>4. ASSUME NEW a \in Agents, Service(a) \/ MapCleared(a) PROVE FactoryInv'
  <2>1. CASE InitialCreates(a) \/ Boots(a)
    BY <2>1, CreateInstanceStep DEF InitialCreates, Boots, Files
  <2>2. CASE InitialAgent(a)
    BY <2>2, SetUpServiceStep DEF InitialAgent
  <2>3. CASE InitialFails(a) \/ CleanUp(a)
    BY <2>3, DropStep DEF InitialFails, CleanUp
  <2>4. CASE HandleEnd(a) \/ HandlerThrows(a) \/ ShutdownService(a) \/ MapCleared(a)
    BY <1>1, <2>4, DropStep DEF HandleEnd, HandlerThrows, ShutdownService, MapCleared, LetGo
  <2>5. CASE InitialInserts(a) \/ BootStarts(a) \/ BootInserts(a) \/ HandleBegin(a)
             \/ HandlerUses(a) \/ HandlerBlocks(a)
    BY <1>1, <2>5 DEF InitialInserts, BootStarts, BootInserts, HandleBegin, HandlerUses,
       HandlerBlocks
  <2> QED BY <1>4, <2>1, <2>2, <2>3, <2>4, <2>5 DEF Service, HandlerReturns
<1>5. CASE \/ CreateModule \/ Directories \/ InitialModule \/ InitialPool
           \/ InitialDone \/ StartModule \/ StartDone \/ StopModule \/ ShutdownDone
           \/ Signal \/ PlayerBlocks \/ \E m \in Range(Modules) : DestroyModule(m)
           \/ \E p \in Pools : DestroyPool(p) \/ PoolAborts(p)
  BY <1>1, <1>5 DEF CreateModule, Directories, InitialModule, InitialPool, InitialDone,
     StartModule, StartDone, StopModule, StopsModule, ShutdownDone, Signal, PlayerBlocks,
     DestroyModule, DestroyPool, PoolAborts
<1> QED
  BY <1>1, <1>2, <1>3, <1>4, <1>5 DEF ServerNext, Main, processVars

----------------------------------------------------------------------------
THEOREM ServerInvariance == ServerSpec => [](LifeInv /\ FactoryInv)
<1>1. ServerInit => LifeInv /\ FactoryInv
  BY LifeInvInit, FactoryInvInit
<1>2. LifeInv /\ FactoryInv /\ [ServerNext]_processVars => (LifeInv /\ FactoryInv)'
  BY LifeInvStep, FactoryInvStep
<1> QED BY <1>1, <1>2, PTL DEF ServerSpec

\* Where main is, what it has created, and the pools, agents and channels stay
\* well typed through the life of the process.
THEOREM ServerTypeCorrect == ServerSpec => []ServerTypeOK
<1>1. LifeInv => ServerTypeOK
  BY DEF LifeInv
<1> QED BY <1>1, ServerInvariance, PTL

\* Start goes through mModuleOrder forwards and Stop backwards, and whatever
\* ends them early does so where no order is broken: a module runs only while
\* those created before it, which it uses, run.
THEOREM ModulesRunOnWhatRuns == ServerSpec => []RunsOnWhatRuns
<1>1. LifeInv => RunsOnWhatRuns
  <2> SUFFICES ASSUME LifeInv,
                      NEW i \in Index, NEW j \in Index, i < j, Running(j)
               PROVE  Running(i)
    BY DEF RunsOnWhatRuns, Running
  <2>1. CASE at[1] = "start"
    BY <2>1, ModulesDiffer DEF LifeInv, RunningSoFar, ServerTypeOK
  <2>2. CASE at[1] \in {"stop", "aborted"}
    BY <2>2 DEF LifeInv, RunningSoFar, RunsOnWhatRuns, Running
  <2> QED BY <2>1, <2>2 DEF LifeInv, RunningSoFar
<1> QED BY <1>1, ServerInvariance, PTL

\* However services are created, set up, dropped and released while the factory
\* loads, serves and is destroyed, and its threads go on: a service has one
\* owner until it is destroyed, once, and its library as long as the factory.
THEOREM ServicesKeepTheirLibrary == ServerSpec => []ServicesHaveTheirLibrary
<1>1. FactoryInv => ServicesHaveTheirLibrary
  <2> SUFFICES ASSUME FactoryInv PROVE ServicesHaveTheirLibrary
    OBVIOUS
  <2>1. Own!OneOwner(handles)
    <3>1. ASSUME NEW a \in Agents
          PROVE  Cardinality(OwnersOf(a)) + handles.destroyed[a] <= 1
      <4>1. /\ handles.destroyed[a] \in 0 .. 1 /\ HandlesOf(a) /\ a # None
            /\ \A b \in Agents : HandlesOf(b)
        BY NamesAssumption DEF FactoryInv, HandleStates, HandlesOfTheirAgent
      <4>2. OwnersOf(a) \subseteq {<<a, "boot">>, <<a, "agent">>}
        <5> SUFFICES ASSUME NEW o \in OwnersOf(a)
                     PROVE  o \in {<<a, "boot">>, <<a, "agent">>}
          OBVIOUS
        <5>1. PICK b \in Agents, h \in {"boot", "agent"} : o = <<b, h>>
          BY DEF OwnersOf
        <5>2. handles.owned[<<b, h>>] = a /\ HandlesOf(b)
          BY <4>1, <5>1 DEF OwnersOf
        <5> QED BY <4>1, <5>1, <5>2 DEF HandlesOf
      <4>3. /\ <<a, "boot">> \in OwnersOf(a) => Has(a, "boot")
            /\ <<a, "agent">> \in OwnersOf(a) => Has(a, "agent")
        BY DEF OwnersOf, Has
      <4>4. CASE OwnersOf(a) = {}
        BY <4>1, <4>4, FS_EmptySet
      <4>5. CASE OwnersOf(a) # {}
        <5>1. handles.destroyed[a] = 0
          BY <4>1, <4>2, <4>3, <4>5 DEF HandlesOf
        <5>2. OwnersOf(a) = {<<a, "boot">>} \/ OwnersOf(a) = {<<a, "agent">>}
          BY <4>1, <4>2, <4>3, <4>5 DEF HandlesOf
        <5>3. Cardinality(OwnersOf(a)) = 1
          BY <5>2, FS_Singleton
        <5> QED BY <5>1, <5>3
      <4> QED BY <4>4, <4>5
    <3>2. \A a \in Agents :
            Own!Cardinality({h \in Agents \X {"boot", "agent"} : handles.owned[h] = a})
                + handles.destroyed[a] <= 1
      BY <3>1, SameCardinality DEF OwnersOf
    <3> QED BY <3>2 DEF Own!OneOwner
  <2>2. ASSUME NEW a \in Agents, path[a] # None, handles.destroyed[a] = 0,
               factory # "gone"
        PROVE  /\ path[a] \in libraries.loaded
               /\ \E h \in Agents \X {"boot", "agent"} : handles.owned[h] = a
    <3>1. path[a] \in Files /\ path[a] \in Entries
      BY <2>2 DEF FactoryInv, EntriesHoldTheirLibrary
    <3>2. path[a] \in libraries.loaded
      BY <2>2, <3>1, EntriesMean DEF FactoryInv, EntriesHoldTheirLibrary
    <3>3. Has(a, "boot") \/ Has(a, "agent")
      <4>1. HandlesOf(a)
        BY DEF FactoryInv, HandlesOfTheirAgent
      <4> QED BY <2>2, <4>1 DEF HandlesOf
    <3>4. \E h \in Agents \X {"boot", "agent"} : handles.owned[h] = a
      BY <3>3 DEF Has
    <3> QED BY <3>2, <3>4
  <2> QED BY <2>1, <2>2 DEF ServicesHaveTheirLibrary
<1> QED BY <1>1, ServerInvariance, PTL

----------------------------------------------------------------------------
\* FSharedLibrary by itself: any objects of it and any libraries.
CONSTANTS Objects, Blocks, Null

L == INSTANCE SharedLibrary

LibraryRecords ==
    [mControl : [Objects -> Blocks \cup {Null}], refCount : [Blocks -> Nat],
     loaded : SUBSET Blocks, unloads : [Blocks -> Nat]]

Holders(s, b) == {o \in Objects : s.mControl[o] = b}

\* Every object counts, and what is loaded has not been unloaded.
BlockCounts(s, b) ==
    /\ s.refCount[b] = Cardinality(Holders(s, b))
    /\ b \in s.loaded <=> s.refCount[b] > 0
    /\ s.unloads[b] <= 1
    /\ b \in s.loaded => s.unloads[b] = 0

CountInv(s) == s \in LibraryRecords /\ \A b \in Blocks : BlockCounts(s, b)

\* Objects are finitely many, and no library is Null.
Finitely == IsFiniteSet(Objects) /\ Null \notin Blocks

LEMMA HoldersAreCounted ==
    ASSUME Finitely, NEW s, NEW b
    PROVE  /\ IsFiniteSet(Holders(s, b)) /\ Cardinality(Holders(s, b)) \in Nat
           /\ Cardinality(Holders(s, b)) = 0 <=> Holders(s, b) = {}
<1>1. Holders(s, b) \subseteq Objects
  BY DEF Holders
<1>2. IsFiniteSet(Holders(s, b))
  BY <1>1, FS_Subset DEF Finitely
<1> QED BY <1>2, FS_CardinalityType, FS_EmptySet

LEMMA ExchangeKeepsCount ==
    ASSUME NEW S, IsFiniteSet(S), NEW o \in S, NEW p, p \notin S
    PROVE  Cardinality((S \ {o}) \cup {p}) = Cardinality(S)
<1>1. IsFiniteSet(S \ {o}) /\ Cardinality(S \ {o}) = Cardinality(S) - 1
  BY FS_RemoveElement
<1>2. Cardinality((S \ {o}) \cup {p}) = Cardinality(S \ {o}) + 1
  BY <1>1, FS_AddElement
<1> QED BY <1>1, <1>2, FS_CardinalityType

LEMMA ReleaseCounts ==
    ASSUME Finitely, NEW s, CountInv(s), NEW o \in Objects
    PROVE  /\ CountInv(L!Release(s, o))
           /\ L!Release(s, o).mControl = [s.mControl EXCEPT ![o] = Null]
<1>1. PICK u : u = L!Release(s, o)
  OBVIOUS
<1>2. PICK t : t = L!Points(s, o, Null)
  OBVIOUS
<1>3. /\ t \in LibraryRecords /\ t.mControl = [s.mControl EXCEPT ![o] = Null]
      /\ t.refCount = s.refCount /\ t.loaded = s.loaded /\ t.unloads = s.unloads
  BY <1>2 DEF CountInv, LibraryRecords, L!Points
<1>4. s \in LibraryRecords
  BY DEF CountInv
<1>5. CASE s.mControl[o] = Null
  <2>1. u = t /\ \A b \in Blocks : Holders(t, b) = Holders(s, b)
    BY <1>1, <1>2, <1>3, <1>4, <1>5 DEF L!Release, Holders, LibraryRecords, Finitely
  <2> QED BY <1>1, <1>3, <2>1 DEF CountInv, BlockCounts
<1>6. ASSUME NEW b \in Blocks, s.mControl[o] = b PROVE CountInv(u) /\ u.mControl = t.mControl
  <2>1. o \in Holders(s, b) /\ b # Null
    BY <1>6 DEF Holders, Finitely
  <2>2. BlockCounts(s, b) /\ s.refCount[b] \in Nat /\ s.refCount[b] > 0
    BY <1>4, <2>1, HoldersAreCounted DEF CountInv, BlockCounts, LibraryRecords
  <2>3. Cardinality(Holders(s, b) \ {o}) = s.refCount[b] - 1
    BY <2>1, <2>2, HoldersAreCounted, FS_RemoveElement DEF BlockCounts
  <2>4. ASSUME u \in LibraryRecords, u.mControl = t.mControl,
               \A c \in Blocks \ {b} : /\ u.refCount[c] = s.refCount[c]
                                       /\ c \in u.loaded <=> c \in s.loaded
                                       /\ u.unloads[c] = s.unloads[c],
               u.refCount[b] = s.refCount[b] - 1,
               b \in u.loaded <=> u.refCount[b] > 0, u.unloads[b] <= 1,
               b \in u.loaded => u.unloads[b] = 0
        PROVE  CountInv(u)
    <3>1. Holders(u, b) = Holders(s, b) \ {o}
      BY <1>3, <1>4, <2>1, <2>4 DEF Holders, LibraryRecords
    <3>2. BlockCounts(u, b)
      BY <2>3, <2>4, <3>1 DEF BlockCounts
    <3>3. ASSUME NEW c \in Blocks \ {b} PROVE BlockCounts(u, c)
      <4>1. Holders(u, c) = Holders(s, c)
        BY <1>3, <1>4, <1>6, <2>4, <3>3 DEF Holders, LibraryRecords, Finitely
      <4> QED BY <2>4, <3>3, <4>1 DEF CountInv, BlockCounts
    <3> QED BY <2>4, <3>2, <3>3 DEF CountInv
  <2>5. CASE s.refCount[b] > 1
    <3>1. u = [t EXCEPT !.refCount[b] = @ - 1]
      BY <1>1, <1>2, <1>6, <2>1, <2>5 DEF L!Release
    <3>2. /\ u \in LibraryRecords /\ u.mControl = t.mControl
          /\ u.refCount = [s.refCount EXCEPT ![b] = @ - 1]
          /\ u.loaded = s.loaded /\ u.unloads = s.unloads
      BY <1>3, <2>2, <2>5, <3>1 DEF LibraryRecords
    <3>3. /\ u.refCount[b] = s.refCount[b] - 1
          /\ \A c \in Blocks \ {b} : u.refCount[c] = s.refCount[c]
      BY <1>4, <3>2 DEF LibraryRecords
    <3> QED BY <2>2, <2>4, <2>5, <3>2, <3>3 DEF BlockCounts
  <2>6. CASE ~(s.refCount[b] > 1)
    <3>1. u = [t EXCEPT !.refCount[b] = 0, !.loaded = @ \ {b}, !.unloads[b] = @ + 1]
      BY <1>1, <1>2, <1>6, <2>1, <2>6 DEF L!Release
    <3>2. PICK v : v = [t EXCEPT !.refCount[b] = 0]
      OBVIOUS
    <3>3. /\ v \in LibraryRecords /\ v.mControl = t.mControl
          /\ v.refCount = [s.refCount EXCEPT ![b] = 0]
          /\ v.loaded = s.loaded /\ v.unloads = s.unloads
      BY <1>3, <3>2 DEF LibraryRecords
    <3>4. PICK w : w = [v EXCEPT !.loaded = @ \ {b}]
      OBVIOUS
    <3>5. /\ w \in LibraryRecords /\ w.mControl = t.mControl /\ w.refCount = v.refCount
          /\ w.loaded = s.loaded \ {b} /\ w.unloads = s.unloads
      BY <3>3, <3>4 DEF LibraryRecords
    <3>6. u = [w EXCEPT !.unloads[b] = @ + 1]
      BY <1>3, <3>1, <3>2, <3>4 DEF LibraryRecords
    <3>7. /\ u \in LibraryRecords /\ u.mControl = t.mControl /\ u.refCount = v.refCount
          /\ u.loaded = s.loaded \ {b} /\ u.unloads = [s.unloads EXCEPT ![b] = @ + 1]
      BY <3>5, <3>6 DEF LibraryRecords
    <3>8. /\ u.refCount[b] = 0 /\ u.unloads[b] = s.unloads[b] + 1
          /\ \A c \in Blocks \ {b} : /\ u.refCount[c] = s.refCount[c]
                                     /\ u.unloads[c] = s.unloads[c]
      BY <1>4, <3>3, <3>7 DEF LibraryRecords
    <3> QED BY <2>2, <2>4, <2>6, <3>7, <3>8 DEF BlockCounts
  <2> QED BY <2>5, <2>6
<1> QED BY <1>1, <1>3, <1>4, <1>5, <1>6 DEF LibraryRecords

\* An operation that leaves the counts as they are and as many holders.
LEMMA SameCounts ==
    ASSUME NEW s, CountInv(s), NEW t \in LibraryRecords,
           t.refCount = s.refCount, t.loaded = s.loaded, t.unloads = s.unloads,
           \A b \in Blocks : Cardinality(Holders(t, b)) = Cardinality(Holders(s, b))
    PROVE  CountInv(t)
  BY DEF CountInv, BlockCounts

LEMMA CopyCounts ==
    ASSUME Finitely, NEW s, CountInv(s), NEW o \in Objects, NEW p \in Objects,
           s.mControl[o] = Null
    PROVE  CountInv(L!Copy(s, o, p))
<1>1. PICK u : u = L!Copy(s, o, p)
  OBVIOUS
<1>2. PICK t : t = L!Points(s, o, s.mControl[p])
  OBVIOUS
<1>3. s \in LibraryRecords /\ s.mControl[p] \in Blocks \cup {Null}
  BY DEF CountInv, LibraryRecords
<1>4. /\ t \in LibraryRecords /\ t.mControl = [s.mControl EXCEPT ![o] = s.mControl[p]]
      /\ t.refCount = s.refCount /\ t.loaded = s.loaded /\ t.unloads = s.unloads
  BY <1>2, <1>3 DEF LibraryRecords, L!Points
<1>5. CASE s.mControl[p] = Null
  <2>1. u = t /\ \A b \in Blocks : Holders(t, b) = Holders(s, b)
    BY <1>1, <1>2, <1>3, <1>4, <1>5 DEF L!Copy, L!Counted, Holders, LibraryRecords, Finitely
  <2> QED BY <1>1, <1>4, <2>1, SameCounts
<1>6. ASSUME NEW b \in Blocks, s.mControl[p] = b PROVE CountInv(u)
  <2>1. u = [t EXCEPT !.refCount[b] = @ + 1]
    BY <1>1, <1>2, <1>6 DEF L!Copy, L!Counted, Finitely
  <2>2. /\ u \in LibraryRecords /\ u.mControl = [s.mControl EXCEPT ![o] = b]
        /\ u.refCount = [s.refCount EXCEPT ![b] = @ + 1]
        /\ u.loaded = s.loaded /\ u.unloads = s.unloads
    BY <1>4, <1>6, <2>1 DEF LibraryRecords
  <2>3. o \notin Holders(s, b) /\ Holders(u, b) = Holders(s, b) \cup {o} /\ Holders(s, b) # {}
    BY <1>3, <1>6, <2>2 DEF Holders, LibraryRecords, Finitely
  <2>4. Cardinality(Holders(u, b)) = Cardinality(Holders(s, b)) + 1
    BY <2>3, HoldersAreCounted, FS_AddElement
  <2>5. /\ u.refCount[b] = s.refCount[b] + 1 /\ s.refCount[b] \in Nat
        /\ \A c \in Blocks \ {b} : u.refCount[c] = s.refCount[c]
    BY <1>3, <2>2 DEF LibraryRecords
  <2>6. BlockCounts(s, b) /\ s.refCount[b] > 0
    BY <2>3, HoldersAreCounted DEF CountInv, BlockCounts
  <2>7. BlockCounts(u, b)
    BY <2>2, <2>4, <2>5, <2>6 DEF BlockCounts
  <2>8. ASSUME NEW c \in Blocks \ {b} PROVE BlockCounts(u, c)
    <3>1. Holders(u, c) = Holders(s, c)
      BY <1>3, <2>2, <2>8 DEF Holders, LibraryRecords, Finitely
    <3> QED BY <2>2, <2>5, <2>8, <3>1 DEF CountInv, BlockCounts
  <2> QED BY <2>2, <2>7, <2>8 DEF CountInv
<1> QED BY <1>1, <1>3, <1>5, <1>6

LEMMA SwapCounts ==
    ASSUME Finitely, NEW s, CountInv(s), NEW o \in Objects, NEW p \in Objects
    PROVE  /\ CountInv(L!Swap(s, o, p))
           /\ L!Swap(s, o, p).mControl
                = [s.mControl EXCEPT ![o] = s.mControl[p], ![p] = s.mControl[o]]
<1>1. PICK t : t = L!Swap(s, o, p)
  OBVIOUS
<1>2. s \in LibraryRecords /\ s.mControl[p] \in Blocks \cup {Null}
      /\ s.mControl[o] \in Blocks \cup {Null}
  BY DEF CountInv, LibraryRecords
<1>3. PICK v : v = L!Points(s, o, s.mControl[p])
  OBVIOUS
<1>4. /\ v \in LibraryRecords /\ v.mControl = [s.mControl EXCEPT ![o] = s.mControl[p]]
      /\ v.refCount = s.refCount /\ v.loaded = s.loaded /\ v.unloads = s.unloads
  BY <1>2, <1>3 DEF LibraryRecords, L!Points
<1>5. /\ t \in LibraryRecords /\ t.refCount = s.refCount /\ t.loaded = s.loaded
      /\ t.unloads = s.unloads /\ t.mControl = [v.mControl EXCEPT ![p] = s.mControl[o]]
  BY <1>1, <1>2, <1>3, <1>4 DEF LibraryRecords, L!Points, L!Swap
<1>6. t.mControl = [s.mControl EXCEPT ![o] = s.mControl[p], ![p] = s.mControl[o]]
  BY <1>4, <1>5
<1>7. \A q \in Objects : t.mControl[q] = IF q = p THEN s.mControl[o]
                                         ELSE IF q = o THEN s.mControl[p] ELSE s.mControl[q]
  BY <1>2, <1>6 DEF LibraryRecords
<1>8. ASSUME NEW b \in Blocks
      PROVE  Cardinality(Holders(t, b)) = Cardinality(Holders(s, b))
  <2>1. CASE s.mControl[o] = b /\ s.mControl[p] # b
    <3>1. /\ o \in Holders(s, b) /\ p \notin Holders(s, b)
          /\ Holders(t, b) = (Holders(s, b) \ {o}) \cup {p}
      BY <1>7, <2>1 DEF Holders
    <3> QED BY <3>1, HoldersAreCounted, ExchangeKeepsCount
  <2>2. CASE s.mControl[p] = b /\ s.mControl[o] # b
    <3>1. /\ p \in Holders(s, b) /\ o \notin Holders(s, b)
          /\ Holders(t, b) = (Holders(s, b) \ {p}) \cup {o}
      BY <1>7, <2>2 DEF Holders
    <3> QED BY <3>1, HoldersAreCounted, ExchangeKeepsCount
  <2>3. CASE s.mControl[p] = b <=> s.mControl[o] = b
    <3>1. Holders(t, b) = Holders(s, b)
      BY <1>7, <2>3 DEF Holders
    <3> QED BY <3>1
  <2> QED BY <2>1, <2>2, <2>3
<1>9. CountInv(t)
  BY <1>5, <1>8, SameCounts
<1> QED BY <1>1, <1>6, <1>9

\* A move to an object that has nothing is a swap.
LEMMA MoveCounts ==
    ASSUME Finitely, NEW s, CountInv(s), NEW o \in Objects, NEW p \in Objects,
           s.mControl[o] = Null
    PROVE  CountInv(L!Move(s, o, p))
  BY SwapCounts DEF L!Move, L!Swap

LEMMA LoadCounts ==
    ASSUME Finitely, NEW s, CountInv(s), NEW o \in Objects, NEW b \in Blocks,
           s.mControl[o] = Null, s.refCount[b] = 0, s.unloads[b] = 0
    PROVE  CountInv(L!Load(s, o, b))
<1>1. PICK u : u = L!Load(s, o, b)
  OBVIOUS
<1>2. PICK t : t = L!Points(s, o, b)
  OBVIOUS
<1>3. s \in LibraryRecords
  BY DEF CountInv
<1>4. /\ t \in LibraryRecords /\ t.mControl = [s.mControl EXCEPT ![o] = b]
      /\ t.refCount = s.refCount /\ t.loaded = s.loaded /\ t.unloads = s.unloads
  BY <1>2, <1>3 DEF LibraryRecords, L!Points
<1>5. u = [t EXCEPT !.refCount[b] = 1, !.loaded = @ \cup {b}]
  BY <1>1, <1>2 DEF L!Load
<1>6. /\ u \in LibraryRecords /\ u.mControl = [s.mControl EXCEPT ![o] = b]
      /\ u.refCount = [s.refCount EXCEPT ![b] = 1]
      /\ u.loaded = s.loaded \cup {b} /\ u.unloads = s.unloads
  BY <1>4, <1>5 DEF LibraryRecords
<1>7. Holders(s, b) = {}
  BY HoldersAreCounted DEF CountInv, BlockCounts
<1>8. Holders(u, b) = {o}
  BY <1>3, <1>6, <1>7 DEF Holders, LibraryRecords
<1>9. /\ u.refCount[b] = 1
      /\ \A c \in Blocks \ {b} : u.refCount[c] = s.refCount[c]
  BY <1>3, <1>6 DEF LibraryRecords
<1>10. BlockCounts(u, b)
  BY <1>6, <1>8, <1>9, FS_Singleton DEF BlockCounts
<1>11. ASSUME NEW c \in Blocks \ {b} PROVE BlockCounts(u, c)
  <2>1. Holders(u, c) = Holders(s, c)
    BY <1>3, <1>6, <1>11 DEF Holders, LibraryRecords, Finitely
  <2> QED BY <1>6, <1>9, <1>11, <2>1 DEF CountInv, BlockCounts
<1> QED BY <1>1, <1>6, <1>10, <1>11 DEF CountInv

\* FSharedLibrary counts by hand: its constructors, assignments, moves, swaps and
\* resets, self-assignment included, leave a library loaded as long as an object
\* has it, and unload it once, whatever sequence of them the program runs.
THEOREM LibrariesCountTheirObjects ==
    ASSUME Finitely, NEW temp \in Objects
    PROVE  /\ CountInv(L!NoLibraries) /\ L!NoLibraries.mControl[temp] = Null
           /\ \A s : CountInv(s) /\ s.mControl[temp] = Null =>
                \A t \in L!Operations(s, temp) : CountInv(t) /\ t.mControl[temp] = Null
           /\ \A s : CountInv(s) => L!CountsItsObjects(s)
<1>1. CountInv(L!NoLibraries) /\ L!NoLibraries.mControl[temp] = Null
  <2>1. L!NoLibraries \in LibraryRecords
    BY DEF L!NoLibraries, LibraryRecords
  <2>2. ASSUME NEW b \in Blocks PROVE BlockCounts(L!NoLibraries, b)
    <3>1. Holders(L!NoLibraries, b) = {}
      BY DEF L!NoLibraries, Holders, Finitely
    <3> QED BY <3>1, FS_EmptySet DEF L!NoLibraries, BlockCounts
  <2> QED BY <2>1, <2>2 DEF CountInv, L!NoLibraries
<1>2. ASSUME NEW s, CountInv(s), s.mControl[temp] = Null, NEW t \in L!Operations(s, temp)
      PROVE  CountInv(t) /\ t.mControl[temp] = Null
  <2>0. /\ s \in LibraryRecords /\ s.mControl \in [Objects -> Blocks \cup {Null}]
        /\ DOMAIN s.mControl = Objects
    BY <1>2 DEF CountInv, LibraryRecords
  <2>1. ASSUME NEW o \in Objects \ {temp}, NEW b \in Blocks, ~L!IsValid(s, o),
               s.refCount[b] = 0, s.unloads[b] = 0, t = L!Load(s, o, b)
        PROVE  CountInv(t) /\ t.mControl[temp] = Null
    <3>1. s.mControl[o] = Null
      BY <2>1 DEF L!IsValid
    <3>2. t.mControl = [s.mControl EXCEPT ![o] = b]
      BY <2>0, <2>1 DEF LibraryRecords, L!Load, L!Points
    <3> QED BY <1>2, <2>0, <2>1, <3>1, <3>2, LoadCounts
  <2>2. ASSUME NEW o \in Objects \ {temp}, NEW p \in Objects \ {temp}, NEW r,
               CountInv(r), r.mControl[temp] = Null, r.mControl[o] = Null,
               t = L!Copy(r, o, p)
        PROVE  CountInv(t) /\ t.mControl[temp] = Null
    <3>1. r \in LibraryRecords
      BY <2>2 DEF CountInv
    <3>2. t.mControl = [r.mControl EXCEPT ![o] = r.mControl[p]]
      <4>1. PICK v : v = L!Points(r, o, r.mControl[p])
        OBVIOUS
      <4>2. v.mControl = [r.mControl EXCEPT ![o] = r.mControl[p]]
            /\ v \in LibraryRecords
        BY <3>1, <4>1 DEF LibraryRecords, L!Points
      <4>3. t = v \/ t = [v EXCEPT !.refCount[r.mControl[p]] = @ + 1]
        BY <2>2, <4>1 DEF L!Copy, L!Counted
      <4> QED BY <4>2, <4>3 DEF LibraryRecords
    <3> QED BY <2>2, <3>1, <3>2, CopyCounts DEF LibraryRecords
  <2>3. ASSUME NEW o \in Objects \ {temp}, NEW p \in Objects \ {temp}, NEW r,
               CountInv(r), r.mControl[temp] = Null, r.mControl[o] = Null,
               t = L!Move(r, o, p)
        PROVE  CountInv(t) /\ t.mControl[temp] = Null
    <3>1. t = L!Swap(r, o, p)
      BY <2>3 DEF L!Move, L!Swap
    <3>2. /\ CountInv(t)
          /\ t.mControl = [r.mControl EXCEPT ![o] = r.mControl[p], ![p] = r.mControl[o]]
      BY <2>3, <3>1, SwapCounts
    <3>3. r.mControl \in [Objects -> Blocks \cup {Null}]
      BY <2>3 DEF CountInv, LibraryRecords
    <3> QED BY <2>3, <3>2, <3>3
  <2>4. ASSUME NEW o \in Objects
        PROVE  /\ CountInv(L!Release(s, o)) /\ L!Release(s, o).mControl[temp] = Null
               /\ L!Release(s, o).mControl[o] = Null
    <3>1. /\ CountInv(L!Release(s, o))
          /\ L!Release(s, o).mControl = [s.mControl EXCEPT ![o] = Null]
      BY <1>2, ReleaseCounts
    <3> QED BY <1>2, <2>0, <3>1
  <2>5. ASSUME NEW o \in Objects \ {temp}, NEW p \in Objects \ {temp},
               t = L!CopyAssign(s, o, p) \/ t = L!MoveAssign(s, o, p)
        PROVE  CountInv(t) /\ t.mControl[temp] = Null
    <3>1. CASE o = p
      BY <1>2, <2>5, <3>1 DEF L!CopyAssign, L!MoveAssign
    <3>2. CASE o # p
      BY <2>2, <2>3, <2>4, <2>5, <3>2 DEF L!CopyAssign, L!MoveAssign
    <3> QED BY <3>1, <3>2
  <2>6. ASSUME NEW o \in Objects \ {temp}, NEW p \in Objects \ {temp}, t = L!Swap(s, o, p)
        PROVE  CountInv(t) /\ t.mControl[temp] = Null
    <3>1. /\ CountInv(t)
          /\ t.mControl = [s.mControl EXCEPT ![o] = s.mControl[p], ![p] = s.mControl[o]]
      BY <1>2, <2>6, SwapCounts
    <3> QED BY <1>2, <2>0, <2>6, <3>1
  <2>7. ASSUME NEW o \in Objects \ {temp}, t = L!Reset(s, o, temp)
        PROVE  CountInv(t) /\ t.mControl[temp] = Null
    <3>1. L!Points(s, temp, Null) = s
      BY <1>2, <2>0 DEF L!Points, LibraryRecords
    <3>2. t = L!Release(L!Swap(s, o, temp), temp)
      BY <2>7, <3>1 DEF L!Reset
    <3>3. PICK v : v = L!Swap(s, o, temp)
      OBVIOUS
    <3>4. CountInv(v)
      BY <1>2, <3>3, SwapCounts
    <3>5. CountInv(t) /\ t.mControl = [v.mControl EXCEPT ![temp] = Null]
      BY <3>2, <3>3, <3>4, ReleaseCounts
    <3>6. v.mControl \in [Objects -> Blocks \cup {Null}]
      BY <3>4 DEF CountInv, LibraryRecords
    <3> QED BY <3>5, <3>6
  <2>8. \/ \E o \in Objects \ {temp}, b \in Blocks :
             /\ ~L!IsValid(s, o) /\ s.refCount[b] = 0 /\ s.unloads[b] = 0
             /\ t = L!Load(s, o, b)
        \/ \E o, p \in Objects \ {temp} : ~L!IsValid(s, o) /\ t = L!Copy(s, o, p)
        \/ \E o, p \in Objects \ {temp} : ~L!IsValid(s, o) /\ t = L!Move(s, o, p)
        \/ \E o, p \in Objects \ {temp} : \/ t = L!CopyAssign(s, o, p)
                                          \/ t = L!MoveAssign(s, o, p)
                                          \/ t = L!Swap(s, o, p)
        \/ \E o \in Objects \ {temp} : t = L!Reset(s, o, temp) \/ t = L!Release(s, o)
    BY <1>2 DEF L!Operations
  <2> QED BY <1>2, <2>1, <2>2, <2>3, <2>4, <2>5, <2>6, <2>7, <2>8 DEF L!IsValid
<1>3. ASSUME NEW s, CountInv(s) PROVE L!CountsItsObjects(s)
  <2>1. \A S : L!Cardinality(S) = Cardinality(S)
    <3> SUFFICES ASSUME NEW S PROVE L!Cardinality(S) = Cardinality(S)
      BY Zenon
    <3> QED BY DEF L!Cardinality, Cardinality
  <2>2. \A b \in Blocks :
          LET n == L!Cardinality({o \in Objects : s.mControl[o] = b}) IN
          s.refCount[b] = n /\ (b \in s.loaded <=> n > 0) /\ s.unloads[b] <= 1
    BY <1>3, <2>1 DEF CountInv, BlockCounts, Holders
  <2> QED BY <2>2 DEF L!CountsItsObjects
<1> QED BY <1>1, <1>2, <1>3

----------------------------------------------------------------------------
\* FServiceHandle and FPlayerHandle by themselves: any handles and instances.
CONSTANTS Handles, Instances, Nothing

O == INSTANCE OwningHandle

OwnerRecords == [owned : [Handles -> Instances \cup {Nothing}],
                 destroyed : [Instances -> 0 .. 1]]

OwnerInv(s) ==
    /\ s \in OwnerRecords
    /\ \A g, h \in Handles : s.owned[g] = s.owned[h] /\ s.owned[g] # Nothing => g = h
    /\ \A h \in Handles : s.owned[h] # Nothing => s.destroyed[s.owned[h]] = 0

LEMMA HandleReleases ==
    ASSUME NEW s, OwnerInv(s), NEW h \in Handles
    PROVE  /\ OwnerInv(O!Release(s, h))
           /\ O!Release(s, h).owned = [s.owned EXCEPT ![h] = Nothing]
<1>1. s \in OwnerRecords
  BY DEF OwnerInv
<1>2. CASE s.owned[h] = Nothing
  <2>1. O!Release(s, h) = s /\ s.owned = [s.owned EXCEPT ![h] = Nothing]
    BY <1>1, <1>2 DEF O!Release, O!Owns, OwnerRecords
  <2> QED BY <2>1
<1>3. CASE s.owned[h] # Nothing
  <2>1. PICK t : t = O!Release(s, h)
    OBVIOUS
  <2>2. PICK v : v = [s EXCEPT !.owned[h] = Nothing]
    OBVIOUS
  <2>3. /\ v.owned = [s.owned EXCEPT ![h] = Nothing] /\ v.destroyed = s.destroyed
        /\ v \in OwnerRecords
    BY <1>1, <2>2 DEF OwnerRecords
  <2>4. s.owned[h] \in Instances /\ s.destroyed[s.owned[h]] = 0
    BY <1>1, <1>3 DEF OwnerInv, OwnerRecords
  <2>5. t = [v EXCEPT !.destroyed[s.owned[h]] = 1]
    BY <1>1, <1>3, <2>1, <2>2, <2>3, <2>4 DEF O!Release, O!Owns, OwnerRecords
  <2>6. /\ t \in OwnerRecords /\ t.owned = [s.owned EXCEPT ![h] = Nothing]
        /\ t.destroyed = [s.destroyed EXCEPT ![s.owned[h]] = 1]
    BY <2>3, <2>4, <2>5 DEF OwnerRecords
  <2>7. /\ \A g \in Handles : t.owned[g] = IF g = h THEN Nothing ELSE s.owned[g]
        /\ \A x \in Instances : t.destroyed[x] = IF x = s.owned[h] THEN 1 ELSE s.destroyed[x]
    BY <1>1, <2>6 DEF OwnerRecords
  <2>8. \A g, k \in Handles : t.owned[g] = t.owned[k] /\ t.owned[g] # Nothing => g = k
    BY <2>7 DEF OwnerInv
  <2>9. ASSUME NEW g \in Handles, t.owned[g] # Nothing
        PROVE  t.destroyed[t.owned[g]] = 0
    <3>1. g # h /\ t.owned[g] = s.owned[g] /\ s.owned[g] \in Instances
          /\ s.owned[g] # s.owned[h] /\ s.destroyed[s.owned[g]] = 0
      BY <1>1, <1>3, <2>7, <2>9 DEF OwnerInv, OwnerRecords
    <3> QED BY <2>7, <3>1
  <2> QED BY <2>1, <2>6, <2>8, <2>9 DEF OwnerInv
<1> QED BY <1>2, <1>3

LEMMA HandleMoves ==
    ASSUME NEW s, OwnerInv(s), NEW h \in Handles, NEW g \in Handles \ {h},
           s.owned[h] = Nothing
    PROVE  OwnerInv(O!Move(s, h, g))
<1>1. PICK t : t = O!Move(s, h, g)
  OBVIOUS
<1>2. s \in OwnerRecords /\ s.owned[g] \in Instances \cup {Nothing}
  BY DEF OwnerInv, OwnerRecords
<1>3. /\ t \in OwnerRecords /\ t.destroyed = s.destroyed
      /\ t.owned = [s.owned EXCEPT ![h] = s.owned[g], ![g] = Nothing]
  BY <1>1, <1>2 DEF O!Move, OwnerRecords
<1>4. \A k \in Handles : t.owned[k] = IF k = g THEN Nothing
                                      ELSE IF k = h THEN s.owned[g] ELSE s.owned[k]
  BY <1>2, <1>3 DEF OwnerRecords
<1>5. \A k, l \in Handles : t.owned[k] = t.owned[l] /\ t.owned[k] # Nothing => k = l
  BY <1>4 DEF OwnerInv
<1>6. \A k \in Handles : t.owned[k] # Nothing => t.destroyed[t.owned[k]] = 0
  BY <1>3, <1>4 DEF OwnerInv
<1> QED BY <1>1, <1>3, <1>5, <1>6 DEF OwnerInv

\* Handles are constructed, moved, assigned, to themselves too, and released in
\* any order: an instance has one owner until it is destroyed, and it is
\* destroyed once.
THEOREM HandlesOwnOnce ==
    ASSUME Nothing \notin Instances
    PROVE  /\ OwnerInv(O!NoHandles)
           /\ \A s : OwnerInv(s) => \A t \in O!Operations(s) : OwnerInv(t)
           /\ \A s : OwnerInv(s) => O!OneOwner(s)
<1>1. OwnerInv(O!NoHandles)
  BY DEF O!NoHandles, OwnerInv, OwnerRecords
<1>2. ASSUME NEW s, OwnerInv(s), NEW t \in O!Operations(s) PROVE OwnerInv(t)
  <2>1. ASSUME NEW h \in Handles, NEW x \in Instances, ~O!Owns(s, h), s.destroyed[x] = 0,
               \A g \in Handles : s.owned[g] # x, t = O!Construct(s, h, x)
        PROVE  OwnerInv(t)
    <3>1. s \in OwnerRecords
      BY <1>2 DEF OwnerInv
    <3>2. /\ t \in OwnerRecords /\ t.destroyed = s.destroyed
          /\ t.owned = [s.owned EXCEPT ![h] = x]
      BY <2>1, <3>1 DEF O!Construct, OwnerRecords
    <3>3. \A g \in Handles : t.owned[g] = IF g = h THEN x ELSE s.owned[g]
      BY <3>1, <3>2 DEF OwnerRecords
    <3>4. \A g, k \in Handles : t.owned[g] = t.owned[k] /\ t.owned[g] # Nothing => g = k
      BY <1>2, <2>1, <3>3 DEF OwnerInv
    <3>5. \A g \in Handles : t.owned[g] # Nothing => t.destroyed[t.owned[g]] = 0
      BY <1>2, <2>1, <3>2, <3>3 DEF OwnerInv
    <3> QED BY <3>2, <3>4, <3>5 DEF OwnerInv
  <2>2. ASSUME NEW h \in Handles, NEW g \in Handles, t = O!MoveAssign(s, h, g)
        PROVE  OwnerInv(t)
    <3>1. CASE h = g
      BY <1>2, <2>2, <3>1 DEF O!MoveAssign
    <3>2. CASE h # g
      <4>1. PICK v : v = O!Release(s, h)
        OBVIOUS
      <4>2. OwnerInv(v) /\ v.owned = [s.owned EXCEPT ![h] = Nothing]
        BY <1>2, <4>1, HandleReleases
      <4>3. v.owned[h] = Nothing
        BY <1>2, <4>2 DEF OwnerInv, OwnerRecords
      <4>4. t = O!Move(v, h, g)
        BY <2>2, <3>2, <4>1 DEF O!MoveAssign
      <4> QED BY <3>2, <4>2, <4>3, <4>4, HandleMoves
    <3> QED BY <3>1, <3>2
  <2>3. \/ \E h \in Handles, x \in Instances :
             /\ ~O!Owns(s, h) /\ s.destroyed[x] = 0 /\ \A g \in Handles : s.owned[g] # x
             /\ t = O!Construct(s, h, x)
        \/ \E h, g \in Handles : ~O!Owns(s, h) /\ h # g /\ t = O!Move(s, h, g)
        \/ \E h, g \in Handles : t = O!MoveAssign(s, h, g)
        \/ \E h \in Handles : t = O!Release(s, h)
    BY <1>2 DEF O!Operations
  <2>4. ASSUME NEW h \in Handles, NEW g \in Handles, ~O!Owns(s, h), h # g, t = O!Move(s, h, g)
        PROVE  OwnerInv(t)
    BY <1>2, <2>4, HandleMoves DEF O!Owns
  <2>5. ASSUME NEW h \in Handles, t = O!Release(s, h) PROVE OwnerInv(t)
    BY <1>2, <2>5, HandleReleases
  <2> QED BY <2>1, <2>2, <2>3, <2>4, <2>5
<1>3. ASSUME NEW s, OwnerInv(s) PROVE O!OneOwner(s)
  <2>1. \A S : O!Cardinality(S) = Cardinality(S)
    <3> SUFFICES ASSUME NEW S PROVE O!Cardinality(S) = Cardinality(S)
      BY Zenon
    <3> QED BY DEF O!Cardinality, Cardinality
  <2>2. ASSUME NEW x \in Instances
        PROVE  O!Cardinality({h \in Handles : s.owned[h] = x}) + s.destroyed[x] <= 1
    <3>1. PICK S : S = {h \in Handles : s.owned[h] = x}
      OBVIOUS
    <3>2. s.destroyed[x] \in 0 .. 1
      BY <1>3 DEF OwnerInv, OwnerRecords
    <3>3. CASE S = {}
      BY <2>1, <3>1, <3>2, <3>3, FS_EmptySet
    <3>4. ASSUME NEW h \in S PROVE Cardinality(S) + s.destroyed[x] <= 1
      <4>1. S = {h}
        BY <1>3, <3>1, <3>4 DEF OwnerInv
      <4>2. s.destroyed[x] = 0
        BY <1>3, <3>1, <3>4 DEF OwnerInv
      <4>3. Cardinality(S) = 1
        BY <4>1, FS_Singleton, Zenon
      <4> QED BY <4>2, <4>3
    <3> QED BY <2>1, <3>1, <3>3, <3>4
  <2>3. \A x \in Instances :
          O!Cardinality({h \in Handles : s.owned[h] = x}) + s.destroyed[x] <= 1
    BY <2>2
  <2> QED BY <2>3 DEF O!OneOwner
<1> QED BY <1>1, <1>2, <1>3

----------------------------------------------------------------------------
\* Logger: calls of TryCreateLogger and TryDestroyLogger, for any callers.
CONSTANT Users

G == INSTANCE Logger WITH Callers <- Users

LoggerStates ==
    [stopped : BOOLEAN, mUseCount : Nat, registered : BOOLEAN,
     at : [Users -> {"out", "make", "count", "drop"}],
     threw : SUBSET Users, held : Nat]

\* However calls overlap, what is counted is what callers hold.
Tallied(s) == s \in LoggerStates /\ s.mUseCount = s.held

\* One call at a time: the logger is registered while it is counted or about
\* to be, or about to be dropped.
Alone(s) ==
    /\ Tallied(s)
    /\ s.threw = {}
    /\ \A c, d \in Users : s.at[c] # "out" /\ s.at[d] # "out" => c = d
    /\ \A c \in Users : s.at[c] \in {"make", "drop"} => s.mUseCount = 0
    /\ s.registered <=>
        s.mUseCount > 0 \/ \E c \in Users : s.at[c] \in {"count", "drop"}

\* Calls beside each other, nobody destroys.
Beside(s) ==
    /\ Tallied(s)
    /\ s.mUseCount > 0 => s.registered
    /\ \A c \in Users : /\ s.at[c] # "drop"
                        /\ s.at[c] = "count" => s.registered

\* s after a step of c, which leaves so many uses.
Stepped(s, c, to, use, registered, threw) ==
    [stopped |-> s.stopped, mUseCount |-> use, registered |-> registered,
     at |-> [s.at EXCEPT ![c] = to], threw |-> threw, held |-> use]

\* Every step, by where its caller is.
Creates(s, c, t) ==
    \/ t = s
    \/ /\ s.at[c] = "out" /\ s.mUseCount = 0
       /\ t = Stepped(s, c, "make", 0, s.registered, s.threw)
    \/ /\ s.at[c] = "out" /\ s.mUseCount > 0
       /\ t = Stepped(s, c, "count", s.mUseCount, s.registered, s.threw)
    \/ /\ s.at[c] = "make" /\ s.registered
       /\ t = Stepped(s, c, "out", s.mUseCount, TRUE, s.threw \cup {c})
    \/ /\ s.at[c] = "make" /\ ~s.registered
       /\ t = Stepped(s, c, "count", s.mUseCount, TRUE, s.threw)
    \/ /\ s.at[c] = "count"
       /\ t = Stepped(s, c, "out", s.mUseCount + 1, s.registered, s.threw)

Destroys(s, c, t) ==
    \/ /\ s.at[c] = "out" /\ s.mUseCount = 1
       /\ t = Stepped(s, c, "drop", 0, s.registered, s.threw)
    \/ /\ s.at[c] = "out" /\ s.mUseCount > 1
       /\ t = Stepped(s, c, "out", s.mUseCount - 1, s.registered, s.threw)
    \/ /\ s.at[c] = "drop"
       /\ t = Stepped(s, c, "out", s.mUseCount, FALSE, s.threw)

\* A record is its fields.
LEMMA SteppedIs ==
    ASSUME NEW s, Tallied(s), NEW c \in Users, NEW to \in {"out", "make", "count", "drop"},
           NEW use \in Nat, NEW registered \in BOOLEAN, NEW threw \in SUBSET Users
    PROVE  /\ Tallied(Stepped(s, c, to, use, registered, threw))
           /\ Stepped(s, c, to, use, registered, threw).at[c] = to
           /\ \A d \in Users \ {c} :
                Stepped(s, c, to, use, registered, threw).at[d] = s.at[d]
BY DEF Stepped, Tallied, LoggerStates

LEMMA CreatesOrDestroys ==
    ASSUME NEW s, Tallied(s), NEW c \in Users, NEW t
    PROVE  /\ t \in G!TryCreateLogger(s, c) => Creates(s, c, t)
           /\ t \in G!TryDestroyLogger(s, c) => Destroys(s, c, t)
<1>1. /\ s \in LoggerStates /\ s.mUseCount = s.held /\ s.mUseCount \in Nat
      /\ s.at[c] \in {"out", "make", "count", "drop"}
      /\ s = [stopped |-> s.stopped, mUseCount |-> s.mUseCount,
              registered |-> s.registered, at |-> s.at, threw |-> s.threw,
              held |-> s.held]
  BY DEF Tallied, LoggerStates
<1>2. ASSUME NEW to PROVE G!Goes(s, c, to) = Stepped(s, c, to, s.mUseCount, s.registered, s.threw)
  BY <1>1 DEF G!Goes, Stepped
<1>3. ASSUME s.at[c] = "out" PROVE Creates(s, c, G!Look(s, c))
  <2>1. G!Look(s, c) = s \/ G!Look(s, c) = G!Goes(s, c, IF s.mUseCount = 0 THEN "make" ELSE "count")
    BY DEF G!Look
  <2> QED BY <1>1, <1>2, <1>3, <2>1 DEF Creates
<1>4. ASSUME s.at[c] = "make" PROVE Creates(s, c, G!Make(s, c))
  <2>1. CASE s.registered
    <3>1. G!Make(s, c) = [Stepped(s, c, "out", s.mUseCount, s.registered, s.threw)
                            EXCEPT !.threw = @ \cup {c}]
      BY <1>2, <2>1 DEF G!Make
    <3>2. s.registered = TRUE
      BY <1>1, <2>1 DEF LoggerStates
    <3>3. G!Make(s, c) = Stepped(s, c, "out", s.mUseCount, TRUE, s.threw \cup {c})
      BY <3>1, <3>2 DEF Stepped
    <3> QED BY <1>4, <2>1, <3>3 DEF Creates
  <2>2. CASE ~s.registered
    <3>1. G!Make(s, c) = [Stepped(s, c, "count", s.mUseCount, s.registered, s.threw)
                            EXCEPT !.registered = TRUE]
      BY <1>2, <2>2 DEF G!Make
    <3>2. G!Make(s, c) = Stepped(s, c, "count", s.mUseCount, TRUE, s.threw)
      BY <3>1 DEF Stepped
    <3> QED BY <1>4, <2>2, <3>2 DEF Creates
  <2> QED BY <2>1, <2>2
<1>5. ASSUME s.at[c] = "count" PROVE Creates(s, c, G!Count(s, c))
  <2>1. G!Count(s, c) = [Stepped(s, c, "out", s.mUseCount, s.registered, s.threw)
                            EXCEPT !.mUseCount = @ + 1, !.held = @ + 1]
    BY <1>2 DEF G!Count
  <2>2. G!Count(s, c) = Stepped(s, c, "out", s.mUseCount + 1, s.registered, s.threw)
    BY <2>1 DEF Stepped
  <2> QED BY <1>5, <2>2 DEF Creates
<1>6. ASSUME s.at[c] = "out", s.held > 0 PROVE Destroys(s, c, G!Uncount(s, c))
  <2> DEFINE to == IF s.mUseCount = 1 THEN "drop" ELSE "out"
  <2>1. G!Uncount(s, c) = [G!Goes(s, c, to) EXCEPT !.mUseCount = @ - 1, !.held = @ - 1]
    BY <1>1, <1>6 DEF G!Uncount
  <2>4. to = (IF s.mUseCount = 1 THEN "drop" ELSE "out")
    OBVIOUS
  <2> HIDE DEF to
  <2>2. G!Goes(s, c, to) = Stepped(s, c, to, s.mUseCount, s.registered, s.threw)
    BY <1>2
  <2>3. G!Uncount(s, c) = Stepped(s, c, to, s.mUseCount - 1, s.registered, s.threw)
    <3> DEFINE use == s.mUseCount
               less == use - 1
    <3>1. G!Uncount(s, c) = [Stepped(s, c, to, use, s.registered, s.threw)
                                EXCEPT !.mUseCount = less, !.held = less]
      BY <2>1, <2>2 DEF Stepped
    <3> HIDE DEF use, less
    <3>2. G!Uncount(s, c) = Stepped(s, c, to, less, s.registered, s.threw)
      BY <3>1 DEF Stepped
    <3> QED BY <3>2 DEF less, use
  <2>5. CASE s.mUseCount = 1
    BY <1>6, <2>3, <2>4, <2>5 DEF Destroys
  <2>6. CASE s.mUseCount # 1
    BY <1>1, <1>6, <2>3, <2>4, <2>6 DEF Destroys
  <2> QED BY <2>5, <2>6
<1>7. ASSUME s.at[c] = "drop" PROVE Destroys(s, c, G!Drop(s, c))
  <2>1. G!Drop(s, c) = [Stepped(s, c, "out", s.mUseCount, s.registered, s.threw)
                            EXCEPT !.registered = FALSE]
    BY <1>2 DEF G!Drop
  <2>2. G!Drop(s, c) = Stepped(s, c, "out", s.mUseCount, FALSE, s.threw)
    BY <2>1 DEF Stepped
  <2> QED BY <1>7, <2>2 DEF Destroys
<1>8. t \in G!TryCreateLogger(s, c) =>
        \/ s.at[c] = "out" /\ t = G!Look(s, c)
        \/ s.at[c] = "make" /\ t = G!Make(s, c)
        \/ s.at[c] = "count" /\ t = G!Count(s, c)
  BY <1>1 DEF G!TryCreateLogger
<1>9. t \in G!TryDestroyLogger(s, c) =>
        \/ s.at[c] = "out" /\ s.held > 0 /\ t = G!Uncount(s, c)
        \/ s.at[c] = "drop" /\ t = G!Drop(s, c)
  BY <1>1 DEF G!TryDestroyLogger
<1> QED BY <1>3, <1>4, <1>5, <1>6, <1>7, <1>8, <1>9

LEMMA StepsAreCounted ==
    ASSUME NEW s, Tallied(s), NEW c \in Users, NEW t, Creates(s, c, t) \/ Destroys(s, c, t)
    PROVE  Tallied(t)
<1>1. /\ s.mUseCount \in Nat /\ s.registered \in BOOLEAN /\ s.threw \in SUBSET Users
      /\ s.threw \cup {c} \in SUBSET Users
      /\ s.mUseCount + 1 \in Nat /\ 0 \in Nat /\ (s.mUseCount > 1 => s.mUseCount - 1 \in Nat)
  BY DEF Tallied, LoggerStates
<1>2. ASSUME NEW to \in {"out", "make", "count", "drop"}, NEW use \in Nat,
             NEW registered \in BOOLEAN, NEW threw \in SUBSET Users,
             t = Stepped(s, c, to, use, registered, threw)
      PROVE  Tallied(t)
  BY <1>2, SteppedIs
<1>3. CASE Creates(s, c, t)
  BY <1>1, <1>2, <1>3 DEF Creates
<1>4. CASE Destroys(s, c, t)
  BY <1>1, <1>2, <1>4 DEF Destroys
<1> QED BY <1>3, <1>4

\* The other callers are not in a call.
LEMMA AloneStep ==
    ASSUME NEW s, Alone(s), NEW c \in Users, \A d \in Users \ {c} : s.at[d] = "out",
           NEW t, Creates(s, c, t) \/ Destroys(s, c, t)
    PROVE  Alone(t)
<1>1. /\ Tallied(s) /\ Tallied(t)
      /\ s.mUseCount \in Nat /\ s.registered \in BOOLEAN /\ s.threw = {}
      /\ s.at[c] = "make" => s.mUseCount = 0
      /\ s.at[c] = "drop" => s.mUseCount = 0
      /\ s.registered <=> s.mUseCount > 0 \/ s.at[c] \in {"count", "drop"}
  BY StepsAreCounted DEF Alone, Tallied, LoggerStates
<1>2. ASSUME NEW to \in {"out", "make", "count", "drop"}, NEW use \in Nat,
             NEW registered \in BOOLEAN,
             t = Stepped(s, c, to, use, registered, {}),
             to \in {"make", "drop"} => use = 0,
             registered <=> use > 0 \/ to \in {"count", "drop"}
      PROVE  Alone(t)
  <2>1. /\ t.mUseCount = use /\ t.registered = registered /\ t.threw = {}
        /\ t.at[c] = to /\ \A d \in Users \ {c} : t.at[d] = "out"
    BY <1>1, <1>2, SteppedIs DEF Stepped
  <2>2. \A d \in Users : t.at[d] # "out" => d = c
    BY <2>1
  <2> QED BY <1>1, <1>2, <2>1, <2>2 DEF Alone
<1>3. CASE t = s
  BY <1>3
<1>4. CASE /\ s.at[c] = "out" /\ s.mUseCount = 0
           /\ t = Stepped(s, c, "make", 0, s.registered, s.threw)
  BY <1>1, <1>2, <1>4
<1>5. CASE /\ s.at[c] = "out" /\ s.mUseCount > 0
           /\ t = Stepped(s, c, "count", s.mUseCount, s.registered, s.threw)
  BY <1>1, <1>2, <1>5
<1>6. CASE /\ s.at[c] = "make" /\ ~s.registered
           /\ t = Stepped(s, c, "count", s.mUseCount, TRUE, s.threw)
  BY <1>1, <1>2, <1>6
<1>7. CASE /\ s.at[c] = "count"
           /\ t = Stepped(s, c, "out", s.mUseCount + 1, s.registered, s.threw)
  <2>1. s.mUseCount + 1 \in Nat /\ s.mUseCount + 1 > 0 /\ s.registered
    BY <1>1, <1>7
  <2> QED BY <1>1, <1>2, <1>7, <2>1
<1>8. CASE /\ s.at[c] = "out" /\ s.mUseCount = 1
           /\ t = Stepped(s, c, "drop", 0, s.registered, s.threw)
  BY <1>1, <1>2, <1>8
<1>9. CASE /\ s.at[c] = "out" /\ s.mUseCount > 1
           /\ t = Stepped(s, c, "out", s.mUseCount - 1, s.registered, s.threw)
  <2>1. s.mUseCount - 1 \in Nat /\ s.mUseCount - 1 > 0 /\ s.registered
    BY <1>1, <1>9
  <2> QED BY <1>1, <1>2, <1>9, <2>1
<1>10. CASE /\ s.at[c] = "drop"
            /\ t = Stepped(s, c, "out", s.mUseCount, FALSE, s.threw)
  <2>1. t = Stepped(s, c, "out", 0, FALSE, {})
    BY <1>1, <1>10
  <2>2. /\ "out" \notin {"make", "drop"} /\ "out" \notin {"count", "drop"}
        /\ ~(0 > 0) /\ 0 \in Nat
    OBVIOUS
  <2> QED BY <1>2, <2>1, <2>2, ZenonT(60)
<1>11. s.at[c] = "make" => ~s.registered
  BY <1>1
<1>12. CASE Creates(s, c, t)
  BY <1>3, <1>4, <1>5, <1>6, <1>7, <1>11, <1>12 DEF Creates
<1>13. CASE Destroys(s, c, t)
  BY <1>8, <1>9, <1>10, <1>13 DEF Destroys
<1> QED BY <1>12, <1>13

LEMMA BesideStep ==
    ASSUME NEW s, Beside(s), NEW c \in Users, NEW t, Creates(s, c, t)
    PROVE  Beside(t)
<1>1. /\ Tallied(s) /\ Tallied(t)
      /\ s.mUseCount \in Nat /\ s.registered \in BOOLEAN /\ s.threw \in SUBSET Users
      /\ s.mUseCount > 0 \/ s.at[c] = "count" => s.registered
      /\ s.threw \cup {c} \in SUBSET Users
  BY StepsAreCounted DEF Beside, Tallied, LoggerStates
<1>2. ASSUME NEW to \in {"out", "make", "count"}, NEW use \in Nat,
             NEW registered \in BOOLEAN, NEW threw \in SUBSET Users,
             t = Stepped(s, c, to, use, registered, threw),
             use > 0 \/ to = "count" => registered, s.registered => registered
      PROVE  Beside(t)
  <2>1. /\ t.mUseCount = use /\ t.registered = registered
        /\ t.at[c] = to /\ \A d \in Users \ {c} : t.at[d] = s.at[d]
    BY <1>1, <1>2, SteppedIs DEF Stepped
  <2> QED BY <1>1, <1>2, <2>1 DEF Beside
<1>3. CASE t = s
  BY <1>3
<1>4. CASE /\ s.at[c] = "out" /\ s.mUseCount = 0
           /\ t = Stepped(s, c, "make", 0, s.registered, s.threw)
  BY <1>1, <1>2, <1>4
<1>5. CASE /\ s.at[c] = "out" /\ s.mUseCount > 0
           /\ t = Stepped(s, c, "count", s.mUseCount, s.registered, s.threw)
  BY <1>1, <1>2, <1>5
<1>6. CASE /\ s.at[c] = "make" /\ s.registered
           /\ t = Stepped(s, c, "out", s.mUseCount, TRUE, s.threw \cup {c})
  BY <1>1, <1>2, <1>6
<1>7. CASE /\ s.at[c] = "make" /\ ~s.registered
           /\ t = Stepped(s, c, "count", s.mUseCount, TRUE, s.threw)
  BY <1>1, <1>2, <1>7
<1>8. CASE /\ s.at[c] = "count"
           /\ t = Stepped(s, c, "out", s.mUseCount + 1, s.registered, s.threw)
  <2>1. s.mUseCount + 1 \in Nat
    BY <1>1
  <2> QED BY <1>1, <1>2, <1>8, <2>1
<1> QED BY <1>3, <1>4, <1>5, <1>6, <1>7, <1>8 DEF Creates

\* Calls one after the other: whoever holds a logger finds it registered, and
\* nobody is refused.  Calls of TryCreateLogger beside each other: a logger that
\* is held is registered, though a caller may be refused.  However they
\* overlap, Stop leaves no logger that somebody holds.
THEOREM LoggersAreCounted ==
    /\ Alone(G!Init) /\ Beside(G!Init)
    /\ \A s, t : \A c \in Users :
        /\ Alone(s) /\ G!Free(s, c)
           /\ t \in G!TryCreateLogger(s, c) \cup G!TryDestroyLogger(s, c) => Alone(t)
        /\ Beside(s) /\ t \in G!TryCreateLogger(s, c) => Beside(t)
        /\ Tallied(s)
           /\ t \in G!TryCreateLogger(s, c) \cup G!TryDestroyLogger(s, c) => Tallied(t)
    /\ \A s : /\ Alone(s) /\ s.at = G!Init.at => G!HeldIsRegistered(s) /\ G!NobodyThrows(s)
              /\ Beside(s) => G!HeldIsRegistered(s)
              /\ Tallied(s) => G!StopDrops(s)
<1>1. Alone(G!Init) /\ Beside(G!Init)
  <2>1. /\ G!Init.at = [c \in Users |-> "out"] /\ G!Init.threw = {}
        /\ G!Init.mUseCount = 0 /\ G!Init.held = 0 /\ G!Init.registered = FALSE
        /\ G!Init.stopped = FALSE
    BY DEF G!Init
  <2>2. Tallied(G!Init)
    BY DEF G!Init, Tallied, LoggerStates
  <2> QED BY <2>1, <2>2 DEF Alone, Beside
<1>2. ASSUME NEW s, NEW t, NEW c \in Users, Tallied(s),
             t \in G!TryCreateLogger(s, c) \cup G!TryDestroyLogger(s, c)
      PROVE  Creates(s, c, t) \/ Destroys(s, c, t)
  BY <1>2, CreatesOrDestroys
<1>3. ASSUME NEW s, NEW t, NEW c \in Users, Alone(s), G!Free(s, c),
             t \in G!TryCreateLogger(s, c) \cup G!TryDestroyLogger(s, c)
      PROVE  Alone(t)
  <2>1. Tallied(s) /\ \A d \in Users \ {c} : s.at[d] = "out"
    BY <1>3 DEF Alone, G!Free
  <2> QED BY <1>2, <1>3, <2>1, AloneStep
<1>4. ASSUME NEW s, NEW t, NEW c \in Users, Beside(s), t \in G!TryCreateLogger(s, c)
      PROVE  Beside(t)
  <2>1. Tallied(s)
    BY <1>4 DEF Beside
  <2> QED BY <1>4, <2>1, CreatesOrDestroys, BesideStep
<1>5. ASSUME NEW s, Alone(s), s.at = G!Init.at
      PROVE  G!HeldIsRegistered(s) /\ G!NobodyThrows(s)
  <2>1. s.mUseCount = s.held /\ (s.mUseCount > 0 => s.registered) /\ s.threw = {}
    BY <1>5 DEF Alone, Tallied
  <2> QED BY <2>1 DEF G!HeldIsRegistered, G!NobodyThrows, G!GetLoggerUseCount
<1>6. ASSUME NEW s, Beside(s) PROVE G!HeldIsRegistered(s)
  BY <1>6 DEF Beside, Tallied, G!HeldIsRegistered, G!GetLoggerUseCount
<1>7. ASSUME NEW s, Tallied(s) PROVE G!StopDrops(s)
  <2> DEFINE t == G!Stop(s)
  <2>1. /\ s \in LoggerStates /\ s.mUseCount = s.held /\ s.held \in Nat
        /\ t = [s EXCEPT !.stopped = TRUE, !.registered = @ /\ s.mUseCount = 0]
    BY <1>7 DEF Tallied, LoggerStates, G!Stop
  <2>4. /\ t.stopped = TRUE /\ t.at = s.at
        /\ t.registered = (s.registered /\ s.mUseCount = 0)
    BY <2>1, ZenonT(60) DEF LoggerStates
  <2>2. t.stopped /\ t.at = s.at /\ (s.held > 0 => ~t.registered)
    <3>1. s.held > 0 => ~(s.mUseCount = 0)
      BY <2>1
    <3> QED BY <2>4, <3>1, ZenonT(60)
  <2> HIDE DEF t
  <2>3. ASSUME NEW c \in Users, s.at[c] = "out" PROVE G!TryCreateLogger(t, c) = {t}
    BY <2>2, <2>3 DEF G!TryCreateLogger, G!Look
  <2> QED BY <2>2, <2>3 DEF G!StopDrops, t
<1> QED BY <1>1, <1>2, <1>3, <1>4, <1>5, <1>6, <1>7, StepsAreCounted

----------------------------------------------------------------------------
\* ContextPool: the contexts that connections are dealt, however many.
P == INSTANCE ContextPool

Contexts == [guard : BOOLEAN, stopped : BOOLEAN, thread : {"running", "ended"}]

\* A context runs with its guard; a thread ends behind its context.
Sound(node) ==
    /\ node \in Contexts
    /\ node.guard <=> ~node.stopped
    /\ node.thread = "ended" => node.stopped

\* How often a context has been dealt.
Share(dealt, i) == Cardinality({k \in DOMAIN dealt : dealt[k] = i})

\* Every context has been dealt equally often, those before the next once more.
Spread(dealt, next, count) ==
    \E rounds \in Nat : \A i \in 1 .. count :
        Share(dealt, i) = IF i <= next THEN rounds + 1 ELSE rounds

ContextInv(s, count) ==
    /\ s \in [mNodeList : Seq(Contexts), mNextIndex : 0 .. count - 1,
              dealt : Seq(1 .. count), gone : BOOLEAN]
    /\ Len(s.mNodeList) = IF s.gone THEN 0 ELSE count
    /\ \A i \in 1 .. Len(s.mNodeList) : Sound(s.mNodeList[i])
    /\ Spread(s.dealt, s.mNextIndex, count)

\* One more is dealt.
LEMMA ShareGrows ==
    ASSUME NEW S, NEW dealt \in Seq(S), NEW next \in S
    PROVE  /\ Share(Append(dealt, next), next) = Share(dealt, next) + 1
           /\ Share(dealt, next) \in Nat
           /\ \A i : i # next => Share(Append(dealt, next), i) = Share(dealt, i)
<1> DEFINE longer == Append(dealt, next)
           Deals(d, i) == {k \in DOMAIN d : d[k] = i}
<1>1. /\ Len(dealt) \in Nat
      /\ DOMAIN dealt = 1 .. Len(dealt) /\ DOMAIN longer = 1 .. Len(dealt) + 1
      /\ \A k \in 1 .. Len(dealt) : longer[k] = dealt[k]
      /\ longer[Len(dealt) + 1] = next
  OBVIOUS
<1> HIDE DEF longer
<1>2. Deals(longer, next) = Deals(dealt, next) \cup {Len(dealt) + 1}
  BY <1>1
<1>3. \A i : i # next => Deals(longer, i) = Deals(dealt, i)
  BY <1>1
<1>4. IsFiniteSet(Deals(dealt, next)) /\ Len(dealt) + 1 \notin Deals(dealt, next)
  <2>1. Deals(dealt, next) \subseteq 1 .. Len(dealt)
    BY <1>1
  <2>2. IsFiniteSet(1 .. Len(dealt))
    <3>1. Len(dealt) \in Int
      BY <1>1
    <3> QED BY <3>1, FS_Interval
  <2>3. Len(dealt) + 1 \notin 1 .. Len(dealt)
    BY <1>1
  <2> HIDE DEF Deals
  <2> QED BY <2>1, <2>2, <2>3, FS_Subset
<1>5. /\ Cardinality(Deals(longer, next)) = Cardinality(Deals(dealt, next)) + 1
      /\ Cardinality(Deals(dealt, next)) \in Nat
  <2> HIDE DEF Deals
  <2> QED BY <1>2, <1>4, FS_AddElement, FS_CardinalityType
<1> QED BY <1>3, <1>5 DEF Share, longer

\* The next index goes around.
LEMMA NextIndex ==
    ASSUME NEW count \in Nat \ {0}, NEW next \in 0 .. count - 1
    PROVE  (next + 1) % count = IF next + 1 = count THEN 0 ELSE next + 1
<1>1. CASE next + 1 = count
  <2>1. count % count = 0
    <3> DEFINE r == count % count
               q == count \div count
    <3>1. r \in 0 .. count - 1
      OBVIOUS
    <3>2. q \in Int /\ count = count * q + r
      OBVIOUS
    <3> HIDE DEF q, r
    <3>3. q >= 2 => count * q >= count * 2
      BY <3>2
    <3>4. q <= 0 => count * q <= 0
      BY <3>2
    <3> QED BY <3>1, <3>2, <3>3, <3>4 DEF r
  <2> QED BY <1>1, <2>1
<1>2. CASE next + 1 # count
  OBVIOUS
<1> QED BY <1>1, <1>2

LEMMA SpreadGrows ==
    ASSUME NEW count \in Nat \ {0}, NEW next \in 0 .. count - 1,
           NEW dealt \in Seq(1 .. count), Spread(dealt, next, count)
    PROVE  Spread(Append(dealt, next + 1), (next + 1) % count, count)
<1> DEFINE longer == Append(dealt, next + 1)
<1>1. PICK rounds \in Nat : \A i \in 1 .. count :
        Share(dealt, i) = IF i <= next THEN rounds + 1 ELSE rounds
  BY DEF Spread
<1>2. next + 1 \in 1 .. count
  OBVIOUS
<1>3. /\ Share(longer, next + 1) = Share(dealt, next + 1) + 1
      /\ \A i : i # next + 1 => Share(longer, i) = Share(dealt, i)
  BY <1>2, ShareGrows
<1> HIDE DEF longer
<1>4. \A i \in 1 .. count :
        Share(longer, i) = IF i <= next + 1 THEN rounds + 1 ELSE rounds
  BY <1>1, <1>2, <1>3
<1>5. CASE next + 1 = count
  <2>1. \A i \in 1 .. count :
            Share(longer, i) = IF i <= 0 THEN rounds + 1 + 1 ELSE rounds + 1
    BY <1>4, <1>5
  <2>2. (next + 1) % count = 0
    BY <1>5, NextIndex
  <2>3. rounds + 1 \in Nat
    OBVIOUS
  <2> QED BY <2>1, <2>2, <2>3 DEF Spread, longer
<1>6. CASE next + 1 # count
  <2>1. (next + 1) % count = next + 1
    BY <1>6, NextIndex
  <2> QED BY <1>4, <2>1 DEF Spread, longer
<1> QED BY <1>5, <1>6

WithContexts(s, nodes) == [s EXCEPT !.mNodeList = nodes]
Ended(node) == [node EXCEPT !.thread = "ended"]

\* What Stops and the end of a thread make of a context.
LEMMA ContextStops ==
    ASSUME NEW node, Sound(node)
    PROVE  /\ Sound(P!Stops(node)) /\ P!Stops(node).stopped
           /\ P!Stops(node).thread = node.thread
           /\ node.stopped => Sound(Ended(node))
<1>1. /\ P!Stops(node) \in Contexts /\ P!Stops(node).thread = node.thread
      /\ P!Stops(node).guard = FALSE /\ P!Stops(node).stopped = TRUE
  BY DEF Sound, Contexts, P!Stops
<1>2. /\ Ended(node) \in Contexts
      /\ Ended(node).guard = node.guard
      /\ Ended(node).stopped = node.stopped
  BY DEF Sound, Contexts, Ended
<1> QED BY <1>1, <1>2 DEF Sound

\* Some contexts change, and stay sound.
LEMMA ContextsChange ==
    ASSUME NEW count \in Nat \ {0}, NEW s, ContextInv(s, count), NEW nodes,
           nodes = [i \in 1 .. Len(s.mNodeList) |-> nodes[i]],
           \A i \in 1 .. Len(s.mNodeList) : Sound(nodes[i])
    PROVE  ContextInv(WithContexts(s, nodes), count)
<1> DEFINE n == Len(s.mNodeList)
           t == WithContexts(s, nodes)
<1>1. /\ s \in [mNodeList : Seq(Contexts), mNextIndex : 0 .. count - 1,
                dealt : Seq(1 .. count), gone : BOOLEAN]
      /\ n \in Nat /\ n = IF s.gone THEN 0 ELSE count
      /\ Spread(s.dealt, s.mNextIndex, count)
  BY DEF ContextInv
<1> HIDE DEF n
<1>2. nodes \in [1 .. n -> Contexts]
  BY DEF Sound, n
<1>3. nodes \in Seq(Contexts) /\ Len(nodes) = n
  BY <1>1, <1>2
<1>4. /\ t \in [mNodeList : Seq(Contexts), mNextIndex : 0 .. count - 1,
                dealt : Seq(1 .. count), gone : BOOLEAN]
      /\ t.mNodeList = nodes /\ t.mNextIndex = s.mNextIndex
      /\ t.dealt = s.dealt /\ t.gone = s.gone
  BY <1>1, <1>3 DEF WithContexts
<1> HIDE DEF t
<1>5. ContextInv(t, count)
  BY <1>1, <1>3, <1>4 DEF ContextInv, n
<1> QED BY <1>5 DEF t

\* The threads and contexts of UMultiIOContextPool, whatever is stopped, ended,
\* dealt or destroyed: a context runs with its guard, the destructor waits only
\* for threads that come back, and connections are dealt in turn, so that no
\* context has been dealt two more than another.
THEOREM ContextsAreServed ==
    ASSUME NEW count \in Nat \ {0}
    PROVE  /\ ContextInv(P!Start(P!NoPool, count), count)
           /\ \A s : ContextInv(s, count) =>
                /\ ContextInv(P!Stop(s), count)
                /\ \A i \in DOMAIN s.mNodeList : ContextInv(P!Signal(s, i), count)
                /\ \A i \in P!Returns(s) : ContextInv(P!RunReturns(s, i), count)
                /\ s.mNodeList # <<>> => ContextInv(P!GetIOContext(s), count)
                /\ ContextInv(P!Destroy(s), count)
                /\ P!DealtInTurn(s) /\ P!DestructorReturns(s)
<1>1. ContextInv(P!Start(P!NoPool, count), count)
  <2> DEFINE node == [guard |-> TRUE, stopped |-> FALSE, thread |-> "running"]
             nodes == [i \in 1 .. count |-> node]
             s == P!Start(P!NoPool, count)
  <2>1. Sound(node) /\ node \in Contexts
    BY DEF Sound, Contexts
  <2> HIDE DEF node
  <2>2. nodes \in Seq(Contexts) /\ Len(nodes) = count /\ \A i \in 1 .. count : nodes[i] = node
    BY <2>1
  <2>7. s = [P!NoPool EXCEPT !.mNodeList = nodes]
    BY DEF P!Start, node
  <2> HIDE DEF nodes, s
  <2>3. s = [mNodeList |-> nodes, mNextIndex |-> 0, dealt |-> <<>>, gone |-> FALSE]
    BY <2>7 DEF P!NoPool
  <2>4. Spread(<<>>, 0, count)
    <3>1. \A i : {k \in DOMAIN <<>> : <<>>[k] = i} = {}
      OBVIOUS
    <3>2. \A i : Share(<<>>, i) = 0
      BY <3>1, FS_EmptySet DEF Share
    <3>3. \A i \in 1 .. count : Share(<<>>, i) = IF i <= 0 THEN 0 + 1 ELSE 0
      BY <3>2
    <3> QED BY <3>3 DEF Spread
  <2>5. <<>> \in Seq(1 .. count)
    OBVIOUS
  <2>6. s \in [mNodeList : Seq(Contexts), mNextIndex : 0 .. count - 1,
               dealt : Seq(1 .. count), gone : BOOLEAN]
    BY <2>2, <2>3, <2>5
  <2> QED BY <2>1, <2>2, <2>3, <2>4, <2>6 DEF ContextInv, s
<1> SUFFICES ASSUME NEW s, ContextInv(s, count)
             PROVE  /\ ContextInv(P!Stop(s), count)
                    /\ \A i \in DOMAIN s.mNodeList : ContextInv(P!Signal(s, i), count)
                    /\ \A i \in P!Returns(s) : ContextInv(P!RunReturns(s, i), count)
                    /\ s.mNodeList # <<>> => ContextInv(P!GetIOContext(s), count)
                    /\ ContextInv(P!Destroy(s), count)
                    /\ P!DealtInTurn(s) /\ P!DestructorReturns(s)
  BY <1>1
<1> DEFINE nodes == s.mNodeList
           n == Len(nodes)
<1>2. /\ s \in [mNodeList : Seq(Contexts), mNextIndex : 0 .. count - 1,
                dealt : Seq(1 .. count), gone : BOOLEAN]
      /\ nodes \in Seq(Contexts) /\ n \in Nat /\ DOMAIN nodes = 1 .. n
      /\ nodes = [i \in 1 .. n |-> nodes[i]]
      /\ n = IF s.gone THEN 0 ELSE count
      /\ \A i \in 1 .. n : Sound(nodes[i])
      /\ Spread(s.dealt, s.mNextIndex, count)
  BY DEF ContextInv
<1> HIDE DEF n
<1>4. ContextInv(P!Stop(s), count)
  <2> DEFINE after == [i \in 1 .. n |-> P!Stops(nodes[i])]
  <2>1. \A i \in 1 .. n : Sound(after[i])
    BY <1>2, ContextStops
  <2>2. P!Stop(s) = WithContexts(s, after)
    BY <1>2 DEF P!Stop, WithContexts
  <2>3. after = [i \in 1 .. n |-> after[i]]
    OBVIOUS
  <2> HIDE DEF after
  <2> QED BY <2>1, <2>2, <2>3, ContextsChange DEF n
<1>5. ASSUME NEW i \in DOMAIN s.mNodeList PROVE ContextInv(P!Signal(s, i), count)
  <2> DEFINE after == [nodes EXCEPT ![i] = P!Stops(nodes[i])]
  <2>1. i \in 1 .. n
    BY <1>2, <1>5
  <2>2. \A k \in 1 .. n : after[k] = IF k = i THEN P!Stops(nodes[i]) ELSE nodes[k]
    BY <1>2
  <2>3. after = [k \in 1 .. n |-> after[k]]
    BY <1>2
  <2>4. P!Signal(s, i) = WithContexts(s, after)
    BY DEF P!Signal, WithContexts
  <2> HIDE DEF after
  <2>6. Sound(nodes[i])
    BY <1>2, <2>1
  <2>7. Sound(P!Stops(nodes[i]))
    BY <2>1, <2>6, ContextStops
  <2>5. ASSUME NEW k \in 1 .. n PROVE Sound(after[k])
    BY <1>2, <2>2, <2>7
  <2> QED BY <2>3, <2>4, <2>5, ContextsChange DEF n
<1>6. ASSUME NEW i \in P!Returns(s) PROVE ContextInv(P!RunReturns(s, i), count)
  <2> DEFINE after == [nodes EXCEPT ![i] = Ended(nodes[i])]
  <2>1. i \in 1 .. n /\ nodes[i].stopped
    BY <1>2, <1>6 DEF P!Returns
  <2>2. \A k \in 1 .. n : after[k] = IF k = i THEN Ended(nodes[i]) ELSE nodes[k]
    BY <1>2
  <2>3. after = [k \in 1 .. n |-> after[k]]
    BY <1>2
  <2>4. P!RunReturns(s, i) = WithContexts(s, after)
    BY DEF P!RunReturns, WithContexts, Ended
  <2> HIDE DEF after
  <2>6. Sound(nodes[i])
    BY <1>2, <2>1
  <2>7. Sound(Ended(nodes[i]))
    BY <2>1, <2>6, ContextStops
  <2>5. ASSUME NEW k \in 1 .. n PROVE Sound(after[k])
    BY <1>2, <2>2, <2>7
  <2> QED BY <2>3, <2>4, <2>5, ContextsChange DEF n
<1>7. ASSUME s.mNodeList # <<>> PROVE ContextInv(P!GetIOContext(s), count)
  <2> DEFINE next == s.mNextIndex
             longer == Append(s.dealt, next + 1)
             t == P!GetIOContext(s)
  <2>1. ~s.gone /\ n = count
    BY <1>2, <1>7 DEF n
  <2>2. next \in 0 .. count - 1 /\ next + 1 \in 1 .. count /\ s.dealt \in Seq(1 .. count)
    BY <1>2
  <2>3. longer \in Seq(1 .. count)
    BY <2>2
  <2>4. (next + 1) % count \in 0 .. count - 1
    BY <2>2, NextIndex
  <2>5. t = [s EXCEPT !.dealt = longer, !.mNextIndex = (next + 1) % count]
    BY <2>1 DEF P!GetIOContext, n
  <2>6. Spread(longer, (next + 1) % count, count)
    BY <1>2, <2>2, SpreadGrows
  <2> DEFINE m == (next + 1) % count
  <2> HIDE DEF longer, m
  <2>7. /\ t \in [mNodeList : Seq(Contexts), mNextIndex : 0 .. count - 1,
                  dealt : Seq(1 .. count), gone : BOOLEAN]
        /\ t.mNodeList = nodes /\ t.mNextIndex = m
        /\ t.dealt = longer /\ t.gone = s.gone
    BY <1>2, <2>3, <2>4, <2>5 DEF m
  <2> HIDE DEF t
  <2>8. ContextInv(t, count)
    BY <1>2, <2>6, <2>7 DEF ContextInv, n, m
  <2> QED BY <2>8 DEF t
<1>8. ContextInv(P!Destroy(s), count)
  <2> DEFINE t == P!Destroy(s)
  <2>1. <<>> \in Seq(Contexts) /\ Len(<<>>) = 0
    OBVIOUS
  <2>2. /\ t \in [mNodeList : Seq(Contexts), mNextIndex : 0 .. count - 1,
                  dealt : Seq(1 .. count), gone : BOOLEAN]
        /\ t.mNodeList = <<>> /\ t.mNextIndex = s.mNextIndex
        /\ t.dealt = s.dealt /\ t.gone = TRUE
    BY <1>2, <2>1 DEF P!Destroy
  <2> HIDE DEF t
  <2>3. ContextInv(t, count)
    BY <1>2, <2>1, <2>2 DEF ContextInv
  <2> QED BY <2>3 DEF t
<1>9. P!DealtInTurn(s)
  <2>1. \A S : P!Cardinality(S) = Cardinality(S)
    <3> SUFFICES ASSUME NEW S PROVE P!Cardinality(S) = Cardinality(S)
      BY Zenon
    <3> QED BY DEF P!Cardinality, Cardinality
  <2>2. PICK rounds \in Nat : \A i \in 1 .. count :
            Share(s.dealt, i) = IF i <= s.mNextIndex THEN rounds + 1 ELSE rounds
    BY <1>2 DEF Spread
  <2>3. n <= count /\ \A i \in DOMAIN nodes : i \in 1 .. count
    BY <1>2
  <2>4. \A i, j \in DOMAIN nodes : Share(s.dealt, i) <= Share(s.dealt, j) + 1
    BY <2>2, <2>3
  <2>5. s.gone \/ \A k \in DOMAIN s.dealt : s.dealt[k] \in DOMAIN nodes
    <3>1. \A k \in DOMAIN s.dealt : s.dealt[k] \in 1 .. count
      <4> DEFINE dealt == s.dealt
      <4>1. dealt \in Seq(1 .. count)
        BY <1>2
      <4> HIDE DEF dealt
      <4>2. dealt \in [1 .. Len(dealt) -> 1 .. count]
        BY <4>1
      <4>3. \A k \in DOMAIN dealt : dealt[k] \in 1 .. count
        BY <4>2
      <4> QED BY <4>3 DEF dealt
    <3> QED BY <1>2, <3>1
  <2> QED BY <2>1, <2>4, <2>5 DEF P!DealtInTurn, Share
<1>10. P!DestructorReturns(s)
  <2>1. /\ P!Stop(s).mNodeList = [i \in 1 .. n |-> P!Stops(nodes[i])]
        /\ DOMAIN P!Stop(s).mNodeList = 1 .. n
    BY <1>2 DEF P!Stop
  <2>2. \A i \in 1 .. n : P!Stop(s).mNodeList[i].stopped
    <3> SUFFICES ASSUME NEW i \in 1 .. n PROVE P!Stops(nodes[i]).stopped
      BY <2>1
    <3>1. Sound(nodes[i])
      BY <1>2
    <3> QED BY <3>1, ContextStops
  <2> QED BY <1>2, <2>1, <2>2 DEF P!DestructorReturns, P!Returns, Sound
<1> QED BY <1>4, <1>5, <1>6, <1>7, <1>8, <1>9, <1>10

----------------------------------------------------------------------------
\* Utils: the days and weeks of time points, as Utils has them: on a clock that
\* is some whole number of hours ahead of UTC, the same all the time.
CONSTANTS Zone, FirstYear, LastYear

U == INSTANCE Utils

\* A day has 24 hours, and its first is a multiple of them.
LEMMA DayOf ==
    ASSUME NEW p \in Int, Zone \in Int
    PROVE  /\ U!LocalDay(p) \in Int
           /\ U!LocalDay(p) * 24 <= p + Zone /\ p + Zone <= U!LocalDay(p) * 24 + 23
           /\ U!GetDayZeroTime(p) = U!LocalDay(p) * 24 - Zone
BY DEF U!LocalDay, U!GetDayZeroTime

LEMMA DaysAreOrdered ==
    ASSUME NEW p \in Int, NEW q \in Int, p <= q, Zone \in Int
    PROVE  U!LocalDay(p) <= U!LocalDay(q)
BY DayOf

\* A point is the first of its day if its hours are a multiple of 24.
LEMMA DayBegins ==
    ASSUME NEW d \in Int, Zone \in Int
    PROVE  /\ U!LocalDay(d * 24 - Zone) = d
           /\ U!GetDayZeroTime(d * 24 - Zone) = d * 24 - Zone
<1> DEFINE p == d * 24 - Zone
<1>1. p \in Int /\ p + Zone = d * 24
  OBVIOUS
<1> HIDE DEF p
<1>2. /\ U!LocalDay(p) \in Int
      /\ U!LocalDay(p) * 24 <= p + Zone /\ p + Zone <= U!LocalDay(p) * 24 + 23
      /\ U!GetDayZeroTime(p) = U!LocalDay(p) * 24 - Zone
  BY <1>1, DayOf
<1>3. U!LocalDay(p) = d
  BY <1>1, <1>2
<1>4. U!GetDayZeroTime(p) = d * 24 - Zone
  BY <1>2, <1>3
<1> QED BY <1>3, <1>4 DEF p

\* A week starts on the last Monday that is not behind the point.
LEMMA WeekOf ==
    ASSUME NEW p \in Int, Zone \in Int
    PROVE  LET day == U!LocalDay(p)
               start == U!WeekStart(p)
           IN  /\ start \in day - 6 .. day
               /\ U!Weekday(start) = U!Monday
               /\ \A d \in start + 1 .. day : U!Weekday(d) # U!Monday
<1> DEFINE day == U!LocalDay(p)
           start == U!WeekStart(p)
<1>1. day \in Int
  BY DayOf
<1>2. start = day - ((((day + 4) % 7) - 1) % 7)
  BY DEF U!WeekStart, U!GetDayOfWeek, U!Weekday, U!Monday
<1> HIDE DEF day, start
<1>3. start \in day - 6 .. day
  BY <1>1, <1>2
<1>4. (start + 4) % 7 = 1
  BY <1>1, <1>2
<1>5. ASSUME NEW d \in start + 1 .. day PROVE (d + 4) % 7 # 1
  <2>1. d \in start + 1 .. start + 6
    BY <1>1, <1>3
  <2>2. start \in Int
    BY <1>1, <1>3
  <2> QED BY <1>4, <2>1, <2>2
<1> QED BY <1>3, <1>4, <1>5 DEF U!Weekday, U!Monday, day, start

\* As many days have begun between two points as there are points between them
\* that are the first of their day.
LEMMA DaysBegun ==
    ASSUME NEW former \in Int, NEW latter \in Int, former < latter, Zone \in Int
    PROVE  U!GetDaysGone(former, latter) =
               Cardinality({p \in former + 1 .. latter : U!GetDayZeroTime(p) = p})
<1> DEFINE first == U!LocalDay(former)
           n == U!LocalDay(latter) - U!LocalDay(former)
           Begun == {p \in former + 1 .. latter : U!GetDayZeroTime(p) = p}
           begin == [k \in 1 .. n |-> (first + k) * 24 - Zone]
<1>1. /\ first \in Int
      /\ first * 24 <= former + Zone /\ former + Zone <= first * 24 + 23
  BY DayOf
<1>2. /\ U!LocalDay(latter) \in Int
      /\ U!LocalDay(latter) * 24 <= latter + Zone
      /\ latter + Zone <= U!LocalDay(latter) * 24 + 23
  BY DayOf
<1>3. first <= U!LocalDay(latter)
  BY DaysAreOrdered
<1>4. U!GetDaysGone(former, latter) = n
  BY DEF U!GetDaysGone
<1>5. n = U!LocalDay(latter) - first
  OBVIOUS
<1> HIDE DEF first, n
<1>6. n \in Nat /\ first + n = U!LocalDay(latter)
  BY <1>1, <1>2, <1>3, <1>5
<1>7. /\ first \in Int /\ n \in Nat
      /\ first * 24 <= former + Zone /\ former + Zone <= first * 24 + 23
      /\ (first + n) * 24 <= latter + Zone /\ latter + Zone <= (first + n) * 24 + 23
  BY <1>1, <1>2, <1>6
<1>8. ASSUME NEW k \in 1 .. n PROVE begin[k] \in Begun
  <2>1. first + k \in Int
    BY <1>7
  <2>2. U!GetDayZeroTime((first + k) * 24 - Zone) = (first + k) * 24 - Zone
    BY <2>1, DayBegins
  <2>3. (first + k) * 24 - Zone \in former + 1 .. latter
    BY <1>7
  <2> QED BY <2>2, <2>3
<1>9. ASSUME NEW p \in Begun PROVE \E k \in 1 .. n : begin[k] = p
  <2>1. /\ p \in Int /\ former + 1 <= p /\ p <= latter
        /\ U!LocalDay(p) \in Int /\ p = U!LocalDay(p) * 24 - Zone
    <3>1. p \in former + 1 .. latter /\ U!GetDayZeroTime(p) = p
      OBVIOUS
    <3>2. p \in Int
      BY <3>1
    <3> QED BY <3>1, <3>2, DayOf
  <2> DEFINE k == U!LocalDay(p) - first
  <2>2. k \in 1 .. n /\ p = (first + k) * 24 - Zone
    BY <1>7, <2>1
  <2> QED BY <2>2
<1>10. \A k, m \in 1 .. n : begin[k] = begin[m] => k = m
  BY <1>7
<1>11. begin \in [1 .. n -> Begun]
  BY <1>8
<1> HIDE DEF begin, Begun
<1>12. begin \in Bijection(1 .. n, Begun)
  BY <1>9, <1>10, <1>11 DEF Bijection, Injection, Surjection, IsInjective
<1>13. Cardinality(Begun) = n
  BY <1>7, <1>12, FS_CountingElements DEF ExistsBijection
<1> QED BY <1>4, <1>13 DEF Begun

\* On a clock that is never put forward or back, so many whole hours ahead of UTC
\* as one likes (a zone that changes its clocks has days of 23 and 25 hours, of
\* which nothing is said here): GetDayZeroTime finds the first hour of a point's
\* day; GetDaysGone counts the days that have begun, from whatever hour of the
\* first; IsSameWeek tells whether no Monday has begun.
THEOREM DaysAndWeeksAgree ==
    ASSUME Zone \in Int, NEW former \in Int, NEW latter \in Int
    PROVE  /\ U!GetDayZeroTime(former) \in former - 23 .. former
           /\ U!LocalDay(U!GetDayZeroTime(former)) = U!LocalDay(former)
           /\ U!GetDaysGone(former, latter)
                = U!GetDaysGone(U!GetDayZeroTime(former), latter)
           /\ former < latter =>
                /\ U!IsSameWeek(former, latter) <=> ~U!Begins("week", former, latter)
                /\ U!GetDaysGone(former, latter) =
                     Cardinality({p \in former + 1 .. latter : U!GetDayZeroTime(p) = p})
<1> DEFINE zero == U!GetDayZeroTime(former)
<1>1. /\ U!LocalDay(former) \in Int /\ U!LocalDay(latter) \in Int
      /\ zero \in Int /\ zero \in former - 23 .. former
      /\ U!LocalDay(zero) = U!LocalDay(former)
  <2>1. /\ U!LocalDay(former) \in Int
        /\ U!LocalDay(former) * 24 <= former + Zone
        /\ former + Zone <= U!LocalDay(former) * 24 + 23
        /\ zero = U!LocalDay(former) * 24 - Zone
    BY DayOf
  <2>2. U!LocalDay(latter) \in Int
    BY DayOf
  <2>3. U!LocalDay(U!LocalDay(former) * 24 - Zone) = U!LocalDay(former)
    BY <2>1, DayBegins
  <2>4. U!LocalDay(zero) = U!LocalDay(former)
    BY <2>1, <2>3
  <2> HIDE DEF zero
  <2>5. zero \in Int /\ zero \in former - 23 .. former
    BY <2>1
  <2> QED BY <2>1, <2>2, <2>4, <2>5
<1>2. U!GetDaysGone(former, latter) = U!GetDaysGone(zero, latter)
  <2>1. latter <= former /\ zero < latter => U!LocalDay(latter) = U!LocalDay(former)
    BY <1>1, DaysAreOrdered
  <2> HIDE DEF zero
  <2> QED BY <1>1, <2>1 DEF U!GetDaysGone
<1>3. ASSUME former < latter
      PROVE  U!IsSameWeek(former, latter) <=> ~U!Begins("week", former, latter)
  <2> DEFINE a == U!LocalDay(former)
             b == U!LocalDay(latter)
             v == U!WeekStart(former)
             w == U!WeekStart(latter)
  <2>1. /\ a \in Int /\ b \in Int /\ a <= b
    BY <1>1, <1>3, DaysAreOrdered
  <2>2. /\ v \in a - 6 .. a /\ U!Weekday(v) = U!Monday
        /\ \A d \in v + 1 .. a : U!Weekday(d) # U!Monday
    BY WeekOf
  <2>3. /\ w \in b - 6 .. b /\ U!Weekday(w) = U!Monday
        /\ \A d \in w + 1 .. b : U!Weekday(d) # U!Monday
    BY WeekOf
  <2>4. U!IsSameWeek(former, latter) <=> v = w
    BY <1>3 DEF U!IsSameWeek
  <2>5. U!Begins("week", former, latter)
            <=> \E d \in a + 1 .. b : U!Weekday(d) = U!Monday
    BY DEF U!Begins
  <2> HIDE DEF a, b, v, w
  <2>6. CASE w <= a
    <3>1. v = w
      <4>1. v \in Int /\ w \in Int /\ v <= a /\ w <= b
        BY <2>1, <2>2, <2>3
      <4>2. ~(v < w)
        BY <2>1, <2>2, <2>3, <2>6, <4>1
      <4>3. ~(w < v)
        BY <2>1, <2>2, <2>3, <4>1
      <4> QED BY <4>1, <4>2, <4>3
    <3>2. \A d \in a + 1 .. b : U!Weekday(d) # U!Monday
      BY <2>1, <2>3, <2>6
    <3> QED BY <2>4, <2>5, <3>1, <3>2
  <2>7. CASE ~(w <= a)
    <3>1. w \in a + 1 .. b /\ v # w
      BY <2>1, <2>2, <2>3, <2>7
    <3> QED BY <2>3, <2>4, <2>5, <3>1
  <2> QED BY <2>6, <2>7
<1> QED BY <1>1, <1>2, <1>3, DaysBegun

=============================================================================
