------------------------------- MODULE Recycler -------------------------------
(***************************************************************************)
(* The package pool of an agent (src/base/Recycler.h, Recycler.cpp):       *)
(* IRecyclerBase keeps elements for reuse in mQueue; FRecycleHandle counts *)
(* the references to an element, and its last handle gives the element     *)
(* back; a control block, counted by the pool and by every element, tells  *)
(* the handles whether the pool is still there, since packages travel to   *)
(* other agents and may outlive the agent whose pool they come from.       *)
(*                                                                         *)
(* The actors are the handles: each is acquired, copied and released by    *)
(* whatever thread owns it; one more actor destroys the pool.  Moving a    *)
(* handle only renames it.                                                 *)
(*                                                                         *)
(* Recycle takes mMutex shared while it holds it exclusively, which is     *)
(* undefined: the thread blocks for ever or the lock throws, in a function *)
(* declared noexcept.  So Recycle never returns, bShrinking stays false,   *)
(* and Shrink, which only Recycle's coroutine calls, is not modelled.      *)
(***************************************************************************)
EXTENDS Integers, Sequences, FiniteSets

CONSTANTS
    Handles,        \* handles of packages
    Capacity,       \* elements created by Initial (64 by default)
    MaxNodes        \* bound: elements ever created

ASSUME HandlesAssumption == IsFiniteSet(Handles)
ASSUME CapacityAssumption ==
    Capacity \in Nat /\ MaxNodes \in Nat /\ Capacity <= MaxNodes

Nodes == 1 .. MaxNodes
Null == 0
RECYCLED_REFERENCE_COUNT == -10

VARIABLES
    mQueue,     \* elements to be reused, and null pointers
    writer,     \* a handle that holds mMutex for good, or none
    mUsage,     \* number of elements in use
    pool,       \* "live", "drained", "retracted", "gone"
    mRecycler,  \* whether the control block still leads to the pool
    ctrlCount,  \* mRefCount of the control block
    ctrlFreed,  \* the control block has been deleted
    created,    \* number of elements created
    mRefCount,  \* of each element
    freed,      \* the elements destroyed
    pc, node,   \* each handle's position and element
    fresh,      \* what AcquireNode is about to put into mQueue
    crashed     \* the process has ended by a null pointer, a dead pool, or
                \* an exception out of Release

queueVars == <<mQueue, writer>>
control == <<mRecycler, ctrlCount, ctrlFreed>>
elements == <<created, mRefCount, freed>>
handles == <<pc, node, fresh>>
vars == <<queueVars, mUsage, pool, control, elements, handles, crashed>>

Queued == {mQueue[i] : i \in 1 .. Len(mQueue)} \ {Null}
Of(n, labels) == {h \in Handles : node[h] = n /\ pc[h] \in labels}

Init ==
    /\ mQueue = [i \in 1 .. Capacity |-> i]
    /\ writer = {}
    /\ mUsage = 0
    /\ pool = "live"
    /\ mRecycler = TRUE /\ ctrlCount = Capacity + 1 /\ ctrlFreed = FALSE
    /\ created = Capacity
    /\ mRefCount = [n \in Nodes |-> RECYCLED_REFERENCE_COUNT]
    /\ freed = {}
    /\ pc = [h \in Handles |-> "empty"]
    /\ node = [h \in Handles |-> Null]
    /\ fresh = [h \in Handles |-> <<>>]
    /\ crashed = FALSE

Goto(h, label) == pc' = [pc EXCEPT ![h] = label]
Hold(h, n) == Goto(h, "held") /\ node' = [node EXCEPT ![h] = n]
Drop(h) == Goto(h, "empty") /\ node' = [node EXCEPT ![h] = Null]

----------------------------------------------------------------------------
\* Mutants: the destructor of an element lets go of the control block once
\* more, a copy is not counted, a fresh element is not counted as used, the
\* destructor of the pool does not take it out of the control block.
DestroyTwice(h) ==
    /\ pc[h] = "destroy"
    /\ freed' = freed \cup {node[h]}
    /\ ctrlCount' = ctrlCount - 2
    /\ Drop(h)
    /\ UNCHANGED <<queueVars, mUsage, pool, mRecycler, ctrlFreed, created,
                   mRefCount, fresh, crashed>>

CopyUncounted(h, g) ==
    /\ pc[h] = "held" /\ pc[g] = "empty"
    /\ Hold(g, node[h])
    /\ UNCHANGED <<queueVars, mUsage, pool, control, elements, fresh, crashed>>

CountForgotten(h) ==
    /\ pc[h] = "count"
    /\ mRefCount' = [mRefCount EXCEPT ![node[h]] = 1]
    /\ Goto(h, "held")
    /\ UNCHANGED <<queueVars, mUsage, pool, control, created, freed, node,
                   fresh, crashed>>

RetractNothing ==
    /\ pool = "drained"
    /\ pool' = "retracted"
    /\ UNCHANGED <<queueVars, mUsage, control, elements, handles, crashed>>

----------------------------------------------------------------------------
\* Acquire.  The pool's agent is alive as long as it is called.  It throws
\* while mUsage is negative.

\* AcquireNode under mMutex, with something in the queue.
AcquireQueued(h) ==
    /\ pc[h] = "empty" /\ pool = "live" /\ mUsage >= 0
    /\ writer = {} /\ mQueue # <<>>
    /\ mQueue' = Tail(mQueue)
    /\ mUsage' = mUsage + 1
    /\ LET n == Head(mQueue) IN
       IF n = Null
       THEN crashed' = TRUE /\ UNCHANGED <<mRefCount, pc, node>>
       ELSE /\ mRefCount' = [mRefCount EXCEPT ![n] = 1]
            /\ Hold(h, n)
            /\ UNCHANGED crashed
    /\ UNCHANGED <<writer, pool, control, created, freed, fresh>>

AcquireMiss(h) ==
    /\ pc[h] = "empty" /\ pool = "live" /\ mUsage >= 0
    /\ writer = {} /\ mQueue = <<>>
    /\ Goto(h, "expand")
    /\ UNCHANGED <<queueVars, mUsage, pool, control, elements, node, fresh,
                   crashed>>

\* With num elements in use, none is created if num is 0; else num are.  The
\* last but one is kept for the caller, so that with one there is none, and
\* the call throws.  The vector for the others is built with num - 1 null
\* pointers, and the elements are appended to them.
Expand(h) ==
    /\ pc[h] = "expand"
    /\ created + mUsage <= MaxNodes
    /\ LET num == mUsage IN
       /\ created' = created + num
       /\ ctrlCount' = ctrlCount + num
       /\ IF num < 2
          THEN Drop(h) /\ UNCHANGED fresh
          ELSE /\ Goto(h, "emplace")
               /\ node' = [node EXCEPT ![h] = created + num - 1]
               /\ fresh' = [fresh EXCEPT ![h] =
                    [i \in 1 .. 2 * (num - 1) |->
                        IF i < num THEN Null
                        ELSE IF i = 2 * (num - 1) THEN created + num
                        ELSE created + i - num + 1]]
    /\ UNCHANGED <<queueVars, mUsage, pool, mRecycler, ctrlFreed, mRefCount,
                   freed, crashed>>

Emplace(h) ==
    /\ pc[h] = "emplace" /\ writer = {}
    /\ mQueue' = mQueue \o fresh[h]
    /\ fresh' = [fresh EXCEPT ![h] = <<>>]
    /\ Goto(h, "count")
    /\ UNCHANGED <<writer, mUsage, pool, control, elements, node, crashed>>

CountFresh(h) ==
    /\ pc[h] = "count"
    /\ mUsage' = mUsage + 1
    /\ mRefCount' = [mRefCount EXCEPT ![node[h]] = 1]
    /\ Goto(h, "held")
    /\ UNCHANGED <<queueVars, pool, control, created, freed, node, fresh,
                   crashed>>

----------------------------------------------------------------------------
\* FRecycleHandle.

\* The copy constructor.
Copy(h, g) ==
    /\ pc[h] = "held" /\ pc[g] = "empty"
    /\ mRefCount' = [mRefCount EXCEPT ![node[h]] = @ + 1]
    /\ Hold(g, node[h])
    /\ UNCHANGED <<queueVars, mUsage, pool, control, created, freed, fresh,
                   crashed>>

\* Release, DecRefCount.
Release(h) ==
    /\ pc[h] = "held"
    /\ mRefCount' = [mRefCount EXCEPT ![node[h]] = @ - 1]
    /\ IF mRefCount[node[h]] = 1
       THEN Goto(h, "last") /\ UNCHANGED node
       ELSE Drop(h)
    /\ UNCHANGED <<queueVars, mUsage, pool, control, created, freed, fresh,
                   crashed>>

\* Release, GetRecycler: from here on nothing keeps the pool alive.
GetRecycler(h) ==
    /\ pc[h] = "last"
    /\ Goto(h, IF mRecycler THEN "recycle" ELSE "destroy")
    /\ UNCHANGED <<queueVars, mUsage, pool, control, elements, node, fresh,
                   crashed>>

\* Release, the pool is gone: the element is destroyed, and its destructor
\* lets go of the control block.
Destroy(h) ==
    /\ pc[h] = "destroy"
    /\ freed' = freed \cup {node[h]}
    /\ ctrlCount' = ctrlCount - 1
    /\ IF ctrlCount = 1
       THEN Goto(h, "lastCtrl") /\ node' = [node EXCEPT ![h] = Null]
       ELSE Drop(h)
    /\ UNCHANGED <<queueVars, mUsage, pool, mRecycler, ctrlFreed, created,
                   mRefCount, fresh, crashed>>

\* FControlBlock::DecRefCount, after the count has come to zero.
DeleteControl(h) ==
    /\ pc[h] = "lastCtrl"
    /\ ctrlFreed' = ~mRecycler
    /\ Goto(h, "empty")
    /\ UNCHANGED <<queueVars, mUsage, pool, mRecycler, ctrlCount, elements,
                   node, fresh, crashed>>

----------------------------------------------------------------------------
\* Recycle.

RecycleBegin(h) ==
    /\ pc[h] = "recycle"
    /\ IF pool = "gone" \/ mUsage < 0
       THEN crashed' = TRUE /\ UNCHANGED <<mUsage, mRefCount, pc>>
       ELSE /\ mRefCount' = [mRefCount EXCEPT ![node[h]]
                                                = RECYCLED_REFERENCE_COUNT]
            /\ mUsage' = mUsage - 1
            /\ Goto(h, "lock")
            /\ UNCHANGED crashed
    /\ UNCHANGED <<queueVars, pool, control, created, freed, node, fresh>>

\* The queue is used under mMutex, but not by the destructor of the pool.
RecycleLocked(h) ==
    /\ pc[h] = "lock"
    /\ IF pool # "live"
       THEN crashed' = TRUE /\ UNCHANGED <<queueVars, pc, node>>
       ELSE /\ writer = {}
            /\ writer' = {h}
            /\ mQueue' = Append(mQueue, node[h])
            /\ Goto(h, "relock") /\ node' = [node EXCEPT ![h] = Null]
            /\ UNCHANGED crashed
    /\ UNCHANGED <<mUsage, pool, control, elements, fresh>>

\* mMutex again, by the thread that holds it: it blocks or throws.
Relock(h) ==
    /\ pc[h] = "relock"
    /\ \/ Goto(h, "blocked") /\ UNCHANGED crashed
       \/ crashed' = TRUE /\ UNCHANGED pc
    /\ UNCHANGED <<queueVars, mUsage, pool, control, elements, node, fresh>>

----------------------------------------------------------------------------
\* The destructor of the pool, when no call of Acquire is under way: without
\* mMutex it destroys what is in the queue, which must not be null.
Drain ==
    /\ pool = "live"
    /\ \A h \in Handles : pc[h] \notin {"expand", "emplace", "count"}
    /\ IF \E i \in 1 .. Len(mQueue) : mQueue[i] = Null
       THEN crashed' = TRUE /\ UNCHANGED <<mQueue, pool, ctrlCount, freed>>
       ELSE /\ pool' = "drained"
            /\ freed' = freed \cup Queued
            /\ ctrlCount' = ctrlCount - Cardinality(Queued)
            /\ mQueue' = <<>>
            /\ UNCHANGED crashed
    /\ UNCHANGED <<writer, mUsage, mRecycler, ctrlFreed, created, mRefCount,
                   handles>>

\* mControl->Release().
Retract ==
    /\ pool = "drained"
    /\ pool' = "retracted"
    /\ mRecycler' = FALSE
    /\ UNCHANGED <<queueVars, mUsage, ctrlCount, ctrlFreed, elements, handles,
                   crashed>>

\* mControl->DecRefCount().
LeaveControl ==
    /\ pool = "retracted"
    /\ pool' = "gone"
    /\ ctrlCount' = ctrlCount - 1
    /\ ctrlFreed' = (ctrlCount = 1 /\ ~mRecycler)
    /\ UNCHANGED <<queueVars, mUsage, mRecycler, elements, handles, crashed>>

----------------------------------------------------------------------------
Acquire(h) ==
    AcquireQueued(h) \/ AcquireMiss(h) \/ Expand(h) \/ Emplace(h) \/ CountFresh(h)

LetGo(h) == Release(h) \/ GetRecycler(h) \/ Destroy(h) \/ DeleteControl(h)

Recycle(h) == RecycleBegin(h) \/ RecycleLocked(h) \/ Relock(h)

Next ==
    /\ ~crashed
    /\ \/ \E h \in Handles : Acquire(h) \/ LetGo(h) \/ Recycle(h)
       \/ \E h, g \in Handles : Copy(h, g)
       \/ Drain \/ Retract \/ LeaveControl

Spec == Init /\ [][Next]_vars

----------------------------------------------------------------------------
TypeOK ==
    /\ mQueue \in Seq(0 .. created)
    /\ writer \subseteq Handles
    /\ mUsage \in Int
    /\ pool \in {"live", "drained", "retracted", "gone"}
    /\ mRecycler \in BOOLEAN /\ ctrlCount \in Nat /\ ctrlFreed \in BOOLEAN
    /\ created \in 0 .. MaxNodes
    /\ mRefCount \in [Nodes -> Nat \cup {RECYCLED_REFERENCE_COUNT}]
    /\ freed \subseteq 1 .. created
    /\ pc \in [Handles -> {"empty", "expand", "emplace", "count", "held",
                           "last", "recycle", "destroy", "lastCtrl", "lock",
                           "relock", "blocked"}]
    /\ node \in [Handles -> 0 .. created]
    /\ fresh \in [Handles -> Seq(0 .. created)]
    /\ crashed \in BOOLEAN

\* An element is where its reference count says: held by that many handles and
\* then neither queued nor destroyed; or in the hands of the one handle that
\* gives it back or has created it; or queued, once.  So no element is served
\* to two callers, recycled twice or destroyed under a handle, in whatever
\* threads its handles are copied and released.
ElementsFollowHandles ==
    /\ \A h \in Handles :
        LET n == node[h] IN
        n # Null =>
            /\ n \notin freed \cup Queued
            /\ IF pc[h] = "held"
               THEN /\ mRefCount[n] = Cardinality(Of(n, {"held"}))
                    /\ Of(n, {"held"}) = {g \in Handles : node[g] = n}
               ELSE {g \in Handles : node[g] = n} = {h}
    /\ Queued \cap freed = {}
    /\ \A i, j \in 1 .. Len(mQueue) :
        mQueue[i] = mQueue[j] /\ mQueue[i] # Null => i = j

\* The control block is deleted by the last of the pool and its elements, and
\* by no other, although packages outlive the pool and are released meanwhile
\* in other threads.
ControlGoesLast ==
    /\ ctrlFreed => /\ pool = "gone" /\ freed = 1 .. created
                    /\ \A h \in Handles : pc[h] # "lastCtrl"
    /\ pool = "gone" /\ freed = 1 .. created =>
        ctrlFreed \/ \E h \in Handles : pc[h] = "lastCtrl"

InUse == {node[h] : h \in
            {g \in Handles : pc[g] \in {"held", "last", "recycle"}}}

\* mUsage, from which AcquireNode takes how many elements to create, is the
\* number of elements handed out and not given back.
UsageIsExact == pool = "live" /\ ~crashed => mUsage = Cardinality(InUse)

\* The reference counts, the queue and the control block amount to a pool whose
\* operations are single steps: a handle has an element from the step that
\* counts it to the Release that no longer does.
Packages == INSTANCE PackagePool WITH
    Elements <- Nodes,
    None <- Null,
    holds <- [h \in Handles |-> IF pc[h] = "held" THEN node[h] ELSE Null],
    made <- 1 .. created,
    destroyed <- freed,
    open <- pool = "live",
    ended <- ctrlFreed

ImplementsPackages == Packages!Spec
=============================================================================
