---------------------------- MODULE IdentAllocator ----------------------------
(***************************************************************************)
(* TIdentAllocator<Type, true> (src/base/IdentAllocator.h) under threads   *)
(* that call AllocateTS and RecycleTS concurrently.  mHashSet is guarded   *)
(* by mMutex; mNext and mUsage are atomics that the code touches outside   *)
(* the lock as well, so a call is a sequence of steps: one per critical    *)
(* section and one per atomic access outside it.                           *)
(*                                                                         *)
(* An identifier may be recycled by another thread than the one that       *)
(* allocated it (a service booted by one worker is shut down by another).  *)
(***************************************************************************)
EXTENDS Integers, FiniteSets

CONSTANTS
    Threads,    \* threads calling the allocator
    MaxCalls    \* bound: calls the clients make

ASSUME ThreadsAssumption == IsFiniteSet(Threads)
ASSUME BoundAssumption == MaxCalls \in Nat

VARIABLES
    mHashSet,   \* recycled identifiers, ready for reuse
    mNext,      \* the last fresh identifier
    mUsage,     \* the usage counter GetUsage returns
    held,       \* held[t]: live identifiers allocated by t
    pc,         \* where each thread is in AllocateTS or RecycleTS
    loaded,     \* the value RecycleTS read from mUsage, about to be stored
    peak,       \* history: the highest demand (live + being allocated)
    overlapped, \* history: has RecycleTS's tail overlapped another call?
    calls       \* the calls made so far, for the bound

vars == <<mHashSet, mNext, mUsage, held, pc, loaded, peak, overlapped, calls>>

Live == UNION {held[t] : t \in Threads}

\* Threads between the miss on mHashSet and the fresh identifier.
Pending == {t \in Threads : pc[t] \in {"countFresh", "takeFresh"}}

\* Threads behind RecycleTS's critical section.
InTail == {t \in Threads : pc[t] \in {"decrement", "test", "load", "store"}}

Idle == {t \in Threads : pc[t] = "idle"}

Demand == Cardinality(Live) + Cardinality(Pending)

----------------------------------------------------------------------------
Init ==
    /\ mHashSet = {}
    /\ mNext = 0
    /\ mUsage = 0
    /\ held = [t \in Threads |-> {}]
    /\ pc = [t \in Threads |-> "idle"]
    /\ loaded = [t \in Threads |-> 0]
    /\ peak = 0
    /\ overlapped = FALSE
    /\ calls = 0

\* The client starts a call, within the bound of the model.
MayStart(t) ==
    /\ pc[t] = "idle"
    /\ calls < MaxCalls
    /\ calls' = calls + 1

\* Concurrent AllocateTS calls only increment mUsage: they overlap harmlessly
\* unless a RecycleTS is in its tail.
MayAllocate(t) ==
    /\ MayStart(t)
    /\ peak' = IF Demand < peak THEN peak ELSE Demand + 1
    /\ overlapped' = (overlapped \/ InTail # {})

MayRecycle(t) ==
    /\ MayStart(t)
    /\ overlapped' = (overlapped \/ Idle # Threads)
    /\ UNCHANGED peak

\* Mutants: an identifier left in mHashSet when it is reused, a reuse that is
\* not counted, mHashSet not consulted, mNext++ for ++mNext, and a recycled
\* identifier that is dropped.
ReusedNotErased(t) ==
    /\ MayAllocate(t)
    /\ \E id \in mHashSet : held' = [held EXCEPT ![t] = @ \cup {id}]
    /\ mUsage' = mUsage + 1
    /\ UNCHANGED <<mHashSet, mNext, pc, loaded>>

ReusedNotCounted(t) ==
    /\ MayAllocate(t)
    /\ \E id \in mHashSet :
        /\ mHashSet' = mHashSet \ {id}
        /\ held' = [held EXCEPT ![t] = @ \cup {id}]
    /\ UNCHANGED <<mNext, mUsage, pc, loaded>>

MissWithoutLook(t) ==
    /\ MayAllocate(t)
    /\ pc' = [pc EXCEPT ![t] = "countFresh"]
    /\ UNCHANGED <<mHashSet, mNext, mUsage, held, loaded>>

FreshPostIncrement(t) ==
    /\ pc[t] = "takeFresh"
    /\ mNext' = mNext + 1
    /\ held' = [held EXCEPT ![t] = @ \cup {mNext}]
    /\ pc' = [pc EXCEPT ![t] = "idle"]
    /\ UNCHANGED <<mHashSet, mUsage, loaded, peak, overlapped, calls>>

RecycleDropped(t, u) ==
    /\ MayRecycle(t)
    /\ \E id \in held[u] : held' = [held EXCEPT ![u] = @ \ {id}]
    /\ pc' = [pc EXCEPT ![t] = "decrement"]
    /\ UNCHANGED <<mHashSet, mNext, mUsage, loaded>>

----------------------------------------------------------------------------
\* AllocateTS finds a recycled identifier: erased and counted under mMutex.
AllocateReused(t) ==
    /\ MayAllocate(t)
    /\ \E id \in mHashSet :
        /\ mHashSet' = mHashSet \ {id}
        /\ held' = [held EXCEPT ![t] = @ \cup {id}]
    /\ mUsage' = mUsage + 1
    /\ UNCHANGED <<mNext, pc, loaded>>

\* AllocateTS finds mHashSet empty and leaves the critical section.
AllocateMiss(t) ==
    /\ MayAllocate(t)
    /\ mHashSet = {}
    /\ pc' = [pc EXCEPT ![t] = "countFresh"]
    /\ UNCHANGED <<mHashSet, mNext, mUsage, held, loaded>>

\* ++mUsage outside the lock.
CountFresh(t) ==
    /\ pc[t] = "countFresh"
    /\ mUsage' = mUsage + 1
    /\ pc' = [pc EXCEPT ![t] = "takeFresh"]
    /\ UNCHANGED <<mHashSet, mNext, held, loaded, peak, overlapped, calls>>

\* return ++mNext.
TakeFresh(t) ==
    /\ pc[t] = "takeFresh"
    /\ mNext' = mNext + 1
    /\ held' = [held EXCEPT ![t] = @ \cup {mNext'}]
    /\ pc' = [pc EXCEPT ![t] = "idle"]
    /\ UNCHANGED <<mHashSet, mUsage, loaded, peak, overlapped, calls>>

\* RecycleTS of an identifier u allocated: inserted under mMutex.
RecycleInsert(t, u) ==
    /\ MayRecycle(t)
    /\ \E id \in held[u] :
        /\ mHashSet' = mHashSet \cup {id}
        /\ held' = [held EXCEPT ![u] = @ \ {id}]
    /\ pc' = [pc EXCEPT ![t] = "decrement"]
    /\ UNCHANGED <<mNext, mUsage, loaded>>

\* --mUsage outside the lock.
RecycleDecrement(t) ==
    /\ pc[t] = "decrement"
    /\ mUsage' = mUsage - 1
    /\ pc' = [pc EXCEPT ![t] = "test"]
    /\ UNCHANGED <<mHashSet, mNext, held, loaded, peak, overlapped, calls>>

\* The first load of "mUsage.load() > 0 ? mUsage.load() : 0".
RecycleTest(t) ==
    /\ pc[t] = "test"
    /\ IF mUsage > 0
       THEN pc' = [pc EXCEPT ![t] = "load"] /\ UNCHANGED loaded
       ELSE /\ pc' = [pc EXCEPT ![t] = "store"]
            /\ loaded' = [loaded EXCEPT ![t] = 0]
    /\ UNCHANGED <<mHashSet, mNext, mUsage, held, peak, overlapped, calls>>

\* The second load, of the value to be stored.
RecycleLoad(t) ==
    /\ pc[t] = "load"
    /\ loaded' = [loaded EXCEPT ![t] = mUsage]
    /\ pc' = [pc EXCEPT ![t] = "store"]
    /\ UNCHANGED <<mHashSet, mNext, mUsage, held, peak, overlapped, calls>>

\* The assignment to mUsage.
RecycleStore(t) ==
    /\ pc[t] = "store"
    /\ mUsage' = loaded[t]
    /\ loaded' = [loaded EXCEPT ![t] = 0]
    /\ pc' = [pc EXCEPT ![t] = "idle"]
    /\ UNCHANGED <<mHashSet, mNext, held, peak, overlapped, calls>>

Step(t) ==
    \/ AllocateReused(t)
    \/ AllocateMiss(t)
    \/ CountFresh(t)
    \/ TakeFresh(t)
    \/ \E u \in Threads : RecycleInsert(t, u)
    \/ RecycleDecrement(t)
    \/ RecycleTest(t)
    \/ RecycleLoad(t)
    \/ RecycleStore(t)

Next == \E t \in Threads : Step(t)

Spec == Init /\ [][Next]_vars

----------------------------------------------------------------------------
TypeOK ==
    /\ mHashSet \subseteq Nat \ {0}
    /\ mNext \in Nat
    /\ mUsage \in Int
    /\ held \in [Threads -> SUBSET (Nat \ {0})]
    /\ pc \in [Threads -> {"idle", "countFresh", "takeFresh",
                           "decrement", "test", "load", "store"}]
    /\ loaded \in [Threads -> Int]
    /\ peak \in Nat
    /\ overlapped \in BOOLEAN
    /\ calls \in Nat

\* An identifier has one owner: no two threads hold the same one, none that
\* is held waits in mHashSet for reuse, and none lies beyond mNext, where a
\* racing AllocateTS would hand it out again (AllocateTS leaves the mutex
\* before it increments mNext).
UniqueOwner ==
    /\ \A t, u \in Threads : t # u => held[t] \cap held[u] = {}
    /\ Live \cap mHashSet = {}
    /\ Live \cup mHashSet \subseteq 1 .. mNext

\* Nothing leaks: every identifier ever issued is either live or reusable,
\* whatever the interleaving of the lock-free tails.
NoLeak == 1 .. mNext \subseteq Live \cup mHashSet

\* The identifier space grows only with demand: mNext, with the fresh
\* identifiers threads are committed to take, never passes the highest number
\* of identifiers wanted at once, although a recycle can slip in between the
\* miss on mHashSet and the increment of mNext.
GrowthByDemand == mNext + Cardinality(Pending) <= peak

\* GetUsage is exact between calls as long as no call ran beside the tail of
\* a RecycleTS; that tail reads and stores mUsage in separate atomic accesses.
UsageExactWithoutOverlap ==
    ~overlapped /\ Idle = Threads => mUsage = Cardinality(Live)

\* AllocateTS and RecycleTS implement the pool of distinct identifiers.
Pool == INSTANCE IdentPool
ImplementsPool == Pool!Spec
=============================================================================
