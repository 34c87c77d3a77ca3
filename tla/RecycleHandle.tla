----------------------------- MODULE RecycleHandle -----------------------------
(***************************************************************************)
(* FRecycleHandle, the element nodes it leads to and their pool            *)
(* (src/base/Recycler.h, Recycler.cpp) in one thread: every constructor,   *)
(* assignment, cast and reset of handles of several types, the creation of *)
(* nodes and what is undone when it fails, Acquire from the queue, Shrink  *)
(* and the destructor of the pool.  Recycler has the threads and the       *)
(* expansion; there a copied or moved handle is a rename.                  *)
(*                                                                         *)
(* Each operation maps a state of the pool and its handles to the next.    *)
(* The element of a node stands for the node.  Recycle locks mMutex twice, *)
(* so that a state in which it was called has no next.                     *)
(***************************************************************************)
EXTENDS Integers, SequencesExt

CONSTANTS
    Handles,        \* variables and temporaries
    Type,           \* of each handle
    Supers,         \* the types that an element can be cast to
    Nodes,
    Separate,       \* whether nodes allocate their elements (FElementNodeSeparate)
    Null,           \* not one of them
    ShrinkCount, Minimum,   \* mShrinkCount, RECYCLER_MINIMUM_CAPACITY
    Threshold, Rate,        \* mShrinkThreshold, mShrinkRate, in percent
    Width                   \* bits of size_t

RECYCLED_REFERENCE_COUNT == -10

\* IRecyclerBase before Initial, with its control block, and empty handles.
NoNodes ==
    [mNode |-> [h \in Handles |-> Null], mElement |-> [h \in Handles |-> Null],
     mRefCount |-> [n \in Nodes |-> RECYCLED_REFERENCE_COUNT],
     mQueue |-> <<>>, mUsage |-> -1, pool |-> TRUE,
     control |-> 1, controlFreed |-> FALSE,
     memory |-> {}, elements |-> {},
     lost |-> {},           \* nodes whose handle could not be constructed
     relocked |-> FALSE]    \* Recycle was called

----------------------------------------------------------------------------
\* FControlBlock and the nodes.

IncControl(s) == [s EXCEPT !.control = @ + 1]

DecControl(s) ==
    [s EXCEPT !.control = @ - 1, !.controlFreed = @ \/ (s.control = 1 /\ ~s.pool)]

Allocate(s, what, n) == [s EXCEPT !.memory = @ \cup {<<what, n>>}]
Deallocate(s, what, n) == [s EXCEPT !.memory = @ \ {<<what, n>>}]

\* The node's destructor and its memory.
Destroy(s, n) == Deallocate(DecControl(s), "node", n)

DestroyElement(s, n) ==
    Deallocate([s EXCEPT !.elements = @ \ {n}], "element", n)

\* CreateElementNode, where nothing or one step may throw.
CreateElementNode(s, n, throws) ==
    LET base == IncControl(Allocate(s, "node", n))
        room == IF Separate THEN Allocate(base, "element", n) ELSE base IN
    CASE throws = "nothing" -> [room EXCEPT !.elements = @ \cup {n}]
      [] throws = "allocate" -> Destroy(base, n)
      [] throws = "construct" -> Destroy(Deallocate(room, "element", n), n)

\* Initial creates an element for each of ns, unless the last one throws.
Initial(s, ns, throws) ==
    IF s.mUsage >= 0 THEN s
    ELSE LET Add(t, n) == [CreateElementNode(t, n, "nothing")
                               EXCEPT !.mQueue = Append(@, n)] IN
         IF throws = "nothing" THEN [FoldLeft(Add, s, ns) EXCEPT !.mUsage = 0]
         ELSE CreateElementNode(FoldLeft(Add, s, Front(ns)), Last(ns), throws)

----------------------------------------------------------------------------
\* FRecycleHandle.

IsValid(s, h) == s.mNode[h] # Null /\ s.mElement[h] # Null

Equal(s, h, g) == s.mElement[h] = s.mElement[g]

Points(s, h, n) == [s EXCEPT !.mNode[h] = n, !.mElement[h] = n]

\* The constructor with a node just acquired: the cast may throw.
Construct(s, h, n) ==
    IF Type[h] \in Supers THEN Points(s, h, n)
    ELSE [s EXCEPT !.lost = @ \cup {n}]

IncRefCount(s, n) == [s EXCEPT !.mRefCount[n] = @ + 1]

Counted(s, n) == IF n = Null THEN s ELSE IncRefCount(s, n)

\* The copy constructors, of an h that is not there yet.
Copy(s, h, g) == Points(Counted(s, s.mNode[g]), h, s.mNode[g])

Move(s, h, g) == Points(Points(s, h, s.mNode[g]), g, Null)

Swap(s, h, g) ==
    [s EXCEPT !.mNode = [@ EXCEPT ![h] = s.mNode[g], ![g] = s.mNode[h]],
              !.mElement = [@ EXCEPT ![h] = s.mElement[g], ![g] = s.mElement[h]]]

\* IRecyclerBase::Recycle, up to the second lock.
Recycle(s, n) ==
    [s EXCEPT !.mRefCount[n] = RECYCLED_REFERENCE_COUNT, !.mUsage = @ - 1,
              !.mQueue = Append(@, n), !.relocked = TRUE]

\* The destructor: mElement stays.
Release(s, h) ==
    LET n == s.mNode[h]
        t == [s EXCEPT !.mNode[h] = Null] IN
    IF n = Null THEN t
    ELSE LET u == [t EXCEPT !.mRefCount[n] = @ - 1] IN
         IF u.mRefCount[n] > 0 THEN u
         ELSE IF s.pool THEN Recycle(u, n)
         ELSE Destroy(DestroyElement(u, n), n)

\* A temporary of h's type is constructed, swapped with h and destroyed.
CopyAssign(s, h, g, temp) ==
    IF h = g THEN s ELSE Release(Swap(Copy(s, temp, g), temp, h), temp)

MoveAssign(s, h, g, temp) ==
    IF h = g THEN s ELSE Release(Swap(Move(s, temp, g), temp, h), temp)

Reset(s, h, temp) == Release(Swap(Points(s, temp, Null), temp, h), temp)

\* h becomes the result, of its own type, or is empty.
CastTo(s, h, g) ==
    IF s.mElement[g] # Null /\ Type[h] \in Supers THEN Copy(s, h, g)
    ELSE Points(s, h, Null)

----------------------------------------------------------------------------
\* IRecyclerBase.

GetUsage(s) == IF s.mUsage < 0 THEN 0 ELSE s.mUsage
GetIdle(s) == IF s.mUsage < 0 THEN 0 ELSE Len(s.mQueue)
GetCapacity(s) == IF s.mUsage < 0 THEN 0 ELSE Len(s.mQueue) + s.mUsage

\* Acquire<Type> with an element in the queue.
Acquire(s, h) ==
    LET n == Head(s.mQueue) IN
    Construct([s EXCEPT !.mQueue = Tail(@), !.mUsage = @ + 1, !.mRefCount[n] = 1],
              h, n)

\* Percentages of a capacity, rounded up and down.
Ceil(total, percent) == (total * percent + 99) \div 100
Floor(total, percent) == (total * percent) \div 100

\* How many elements Shrink means to destroy, as a size_t.
Surplus(usage, total) ==
    LET num == Floor(total, Rate) IN
    IF total < ShrinkCount \/ usage >= Ceil(total, Threshold) \/ total = num THEN 0
    ELSE IF total - num < Minimum THEN (total - Minimum) % 2^Width
    ELSE num

\* Nodes of the queue go, with their elements, while the pool is there.
DestroyNodes(s, nodes) ==
    [s EXCEPT !.elements = @ \ nodes,
              !.memory = @ \ ({"node", "element"} \X nodes),
              !.control = @ - Cardinality(nodes)]

\* It destroys as many, or all that are queued.
Shrink(s) ==
    LET num == Surplus(s.mUsage, GetCapacity(s))
        count == IF num < Len(s.mQueue) THEN num ELSE Len(s.mQueue) IN
    IF s.mUsage < 0 THEN s
    ELSE [DestroyNodes(s, Range(SubSeq(s.mQueue, 1, count)))
             EXCEPT !.mQueue = SubSeq(@, count + 1, Len(@))]

\* The destructor of the pool.
DestroyPool(s) ==
    DecControl([DestroyNodes(s, Range(s.mQueue)) EXCEPT !.mQueue = <<>>, !.pool = FALSE])

----------------------------------------------------------------------------
\* What any of them may lead to, temp being nobody's; h can be made from g
\* where g's type is the same or derived (a conversion up).
Operations(s, temp, Up) ==
    LET Named == Handles \ {temp}
        Pairs == {x \in Named \X Named : <<Type[x[2]], Type[x[1]]>> \in Up}
        Free(h) == s.mNode[h] = Null IN
    IF s.relocked THEN {}
    ELSE {Copy(s, x[1], x[2]) : x \in {y \in Pairs : Free(y[1])}}
         \cup {Move(s, x[1], x[2]) : x \in {y \in Pairs : Free(y[1]) /\ y[1] # y[2]}}
         \cup {CopyAssign(s, x[1], x[2], temp) : x \in Pairs}
         \cup {MoveAssign(s, x[1], x[2], temp) : x \in Pairs}
         \cup {Swap(s, x[1], x[2]) : x \in
                 {y \in Pairs : Type[y[1]] = Type[y[2]]}}
         \cup {CastTo(s, x[1], x[2]) : x \in {y \in Named \X Named : Free(y[1])}}
         \cup {Reset(s, h, temp) : h \in Named}
         \cup (IF s.pool THEN {DestroyPool(s)} ELSE {})
         \cup (IF s.pool THEN {Shrink(s)} ELSE {})
         \cup {Acquire(s, h) : h \in
                 {g \in Named : s.pool /\ s.mUsage >= 0 /\ s.mQueue # <<>> /\ Free(g)}}

\* A node is counted by the handles that lead to it, is queued, or lost to a
\* bad cast, and is there with its element just as long; the control block is
\* counted by the nodes and the pool, and goes with the last of them.
CountsItsHandles(s, temp) ==
    LET Holders(n) == {h \in Handles \ {temp} : s.mNode[h] = n}
        Alive == {n \in Nodes : Holders(n) # {}} \cup s.lost \cup Range(s.mQueue) IN
    /\ \A h \in Handles \ {temp} : s.mElement[h] = s.mNode[h]
    /\ s.mNode[temp] = Null
    /\ \A n \in Nodes :
        /\ Holders(n) # {} => /\ s.mRefCount[n] = Cardinality(Holders(n))
                              /\ n \notin s.lost \cup Range(s.mQueue)
        /\ n \in Range(s.mQueue) => s.mRefCount[n] = RECYCLED_REFERENCE_COUNT
    /\ s.elements = Alive
    /\ s.memory = {"node"} \X Alive \cup (IF Separate THEN {"element"} \X Alive ELSE {})
    /\ s.mUsage >= 0 /\ s.pool =>
        s.mUsage = Cardinality(Alive \ Range(s.mQueue))
    /\ s.control = Cardinality(Alive) + (IF s.pool THEN 1 ELSE 0)
    /\ s.controlFreed <=> s.control = 0

\* Shrink leaves Minimum elements or all, if it is not asked to go below it.
ShrinkKeepsMinimum(capacity) ==
    ShrinkCount >= Minimum =>
        \A total \in 0 .. capacity : \A usage \in 0 .. total :
            LET num == Surplus(usage, total) IN
            num = 0 \/ total - num >= Minimum
=============================================================================
