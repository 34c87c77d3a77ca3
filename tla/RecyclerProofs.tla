---------------------------- MODULE RecyclerProofs ----------------------------
(***************************************************************************)
(* Proofs about Recycler, for any number of handles, any capacity and any  *)
(* number of expansions: type correctness, that elements are where their   *)
(* reference counts say, that the control block is deleted by the last of  *)
(* the pool and its elements, that mUsage is exact, and that the queue,    *)
(* the counts and the flags implement the abstract pool of packages.       *)
(*                                                                         *)
(* RecycleHandle, for any handles of any types and any nodes: that every   *)
(* operation keeps the counts of nodes, elements and the control block     *)
(* exact, that a creation that throws leaves nothing behind, and that a    *)
(* pool is not shrunk below its minimum.                                   *)
(***************************************************************************)
EXTENDS Recycler, TLAPS, FiniteSetTheorems, SequenceTheorems

----------------------------------------------------------------------------
\* RecycleHandle by itself: any handles of any types, any nodes.
CONSTANTS Type, Supers, Separate, ShrinkCount, Minimum, Threshold, Rate, Width
H == INSTANCE RecycleHandle

HandleRecords ==
    [mNode : [Handles -> Nodes \cup {Null}], mElement : [Handles -> Nodes \cup {Null}],
     mRefCount : [Nodes -> Int], mQueue : Seq(Nodes), mUsage : Int, pool : BOOLEAN,
     control : Int, controlFreed : BOOLEAN,
     memory : SUBSET ({"node", "element"} \X Nodes), elements : SUBSET Nodes,
     lost : SUBSET Nodes, relocked : BOOLEAN]

InQueue(s) == {s.mQueue[i] : i \in 1 .. Len(s.mQueue)}
Leading(s, n) == {h \in Handles : s.mNode[h] = n}
Living(s) == {n \in Nodes : Leading(s, n) # {}} \cup s.lost \cup InQueue(s)

\* Temporaries count as all handles do, and no node is queued twice.
RefsExact(s) ==
    /\ \A n \in Nodes : Leading(s, n) # {} =>
          s.mRefCount[n] = Cardinality(Leading(s, n)) /\ n \notin s.lost \cup InQueue(s)
    /\ \A n \in InQueue(s) : s.mRefCount[n] = RECYCLED_REFERENCE_COUNT
    /\ \A i, j \in 1 .. Len(s.mQueue) : s.mQueue[i] = s.mQueue[j] => i = j
    /\ s.lost \cap InQueue(s) = {}

\* What is allocated and counted is what lives.
Housed(s) ==
    /\ ~s.pool => s.mQueue = <<>>
    /\ s.elements = Living(s)
    /\ s.memory = {"node"} \X Living(s) \cup (IF Separate THEN {"element"} \X Living(s) ELSE {})
    /\ s.mUsage >= 0 /\ s.pool => s.mUsage = Cardinality(Living(s) \ InQueue(s))
    /\ s.control = Cardinality(Living(s)) + (IF s.pool THEN 1 ELSE 0)
    /\ s.controlFreed <=> s.control = 0

PoolInv(s) == s \in HandleRecords /\ RefsExact(s) /\ Housed(s)

\* A temporary that has been destroyed keeps its element.
Agree(s, those) == \A h \in those : s.mElement[h] = s.mNode[h]

LEMMA PoolFinite ==
    ASSUME NEW s, s \in HandleRecords
    PROVE  /\ InQueue(s) \subseteq Nodes /\ Living(s) \subseteq Nodes
           /\ IsFiniteSet(Living(s)) /\ IsFiniteSet(InQueue(s))
           /\ Cardinality(Living(s)) \in Nat
           /\ \A n : /\ IsFiniteSet(Leading(s, n)) /\ Cardinality(Leading(s, n)) \in Nat
                     /\ Cardinality(Leading(s, n)) = 0 <=> Leading(s, n) = {}
           /\ Null \notin Nodes
<1>1. IsFiniteSet(Nodes) /\ Null \notin Nodes
  BY CapacityAssumption, FS_Interval DEF Nodes, Null
<1>2. InQueue(s) \subseteq Nodes /\ Living(s) \subseteq Nodes
  BY DEF HandleRecords, InQueue, Living
<1>3. ASSUME NEW n PROVE IsFiniteSet(Leading(s, n))
  <2>1. Leading(s, n) \subseteq Handles
    BY DEF Leading
  <2> QED BY <2>1, HandlesAssumption, FS_Subset
<1> QED BY <1>1, <1>2, <1>3, FS_Subset, FS_CardinalityType, FS_EmptySet

\* Operations that pass nodes from handle to handle.
LEMMA PassedOn ==
    ASSUME NEW s, PoolInv(s), NEW t \in HandleRecords,
           \A n \in Nodes : Cardinality(Leading(t, n)) = Cardinality(Leading(s, n)),
           t.mRefCount = s.mRefCount, t.mQueue = s.mQueue, t.mUsage = s.mUsage,
           t.pool = s.pool, t.control = s.control, t.controlFreed = s.controlFreed,
           t.memory = s.memory, t.elements = s.elements, t.lost = s.lost
    PROVE  PoolInv(t)
<1>0. s \in HandleRecords
  BY DEF PoolInv
<1>1. \A n \in Nodes : Leading(t, n) # {} <=> Leading(s, n) # {}
  BY <1>0, PoolFinite
<1>2. InQueue(t) = InQueue(s) /\ Living(t) = Living(s)
  BY <1>1 DEF InQueue, Living
<1>3. RefsExact(t)
  BY <1>1, <1>2 DEF RefsExact, PoolInv
<1>4. Housed(t)
  BY <1>2 DEF Housed, PoolInv
<1> QED BY <1>3, <1>4 DEF PoolInv

\* One handle more leads to a node that is held.
LEMMA CopyKeepsCount ==
    ASSUME NEW s, PoolInv(s), NEW h \in Handles, s.mNode[h] = Null, NEW g \in Handles,
           NEW t, t = H!Copy(s, h, g)
    PROVE  /\ PoolInv(t) /\ t.mNode = [s.mNode EXCEPT ![h] = s.mNode[g]]
           /\ t.mElement = [s.mElement EXCEPT ![h] = s.mNode[g]]
           /\ t.relocked = s.relocked /\ t.pool = s.pool
<1>0. /\ s \in HandleRecords /\ s.mNode[g] \in Nodes \cup {Null} /\ Null \notin Nodes
      /\ s.mNode \in [Handles -> Nodes \cup {Null}] /\ s.mRefCount \in [Nodes -> Int]
  BY PoolFinite DEF PoolInv, HandleRecords
<1>1. PICK a, e : /\ a = [s.mNode EXCEPT ![h] = s.mNode[g]]
                  /\ e = [s.mElement EXCEPT ![h] = s.mNode[g]]
  OBVIOUS
<1>2. a \in [Handles -> Nodes \cup {Null}] /\ e \in [Handles -> Nodes \cup {Null}]
  BY <1>0, <1>1 DEF HandleRecords
<1>3. CASE s.mNode[g] = Null
  <2>1. t = [s EXCEPT !.mRefCount = s.mRefCount, !.mNode = a, !.mElement = e]
    BY <1>0, <1>1, <1>3 DEF H!Copy, H!Counted, H!Points, HandleRecords
  <2>2. /\ t \in HandleRecords /\ t.mNode = a /\ t.mElement = e
        /\ t.mRefCount = s.mRefCount
        /\ t.relocked = s.relocked /\ t.mQueue = s.mQueue /\ t.mUsage = s.mUsage
        /\ t.pool = s.pool /\ t.control = s.control /\ t.controlFreed = s.controlFreed
        /\ t.memory = s.memory /\ t.elements = s.elements /\ t.lost = s.lost
    BY <1>0, <1>2, <2>1 DEF HandleRecords
  <2>3. \A n \in Nodes : Leading(t, n) = Leading(s, n)
    BY <1>0, <1>1, <1>3, <2>2 DEF Leading
  <2> QED BY <1>1, <2>2, <2>3, PassedOn
<1>4. ASSUME NEW n \in Nodes, s.mNode[g] = n
      PROVE  PoolInv(t) /\ t.mNode = a /\ t.mElement = e
             /\ t.relocked = s.relocked /\ t.pool = s.pool
  <2>1. PICK r : r = [s.mRefCount EXCEPT ![n] = @ + 1]
    OBVIOUS
  <2>2. t = [s EXCEPT !.mRefCount = r, !.mNode = a, !.mElement = e]
    BY <1>0, <1>1, <1>4, <2>1 DEF H!Copy, H!Counted, H!IncRefCount, H!Points, HandleRecords
  <2>3. /\ t \in HandleRecords /\ t.mNode = a /\ t.mElement = e /\ t.mRefCount = r
        /\ t.relocked = s.relocked /\ t.mQueue = s.mQueue /\ t.mUsage = s.mUsage
        /\ t.pool = s.pool /\ t.control = s.control /\ t.controlFreed = s.controlFreed
        /\ t.memory = s.memory /\ t.elements = s.elements /\ t.lost = s.lost
    <3>1. r \in [Nodes -> Int]
      BY <1>0, <2>1
    <3> QED BY <1>0, <1>2, <2>2, <3>1 DEF HandleRecords
  <2>4. /\ g \in Leading(s, n) /\ h \notin Leading(s, n)
        /\ Leading(t, n) = Leading(s, n) \cup {h}
        /\ \A m \in Nodes \ {n} : Leading(t, m) = Leading(s, m)
    BY <1>0, <1>1, <1>4, <2>3 DEF Leading
  <2>5. Cardinality(Leading(t, n)) = Cardinality(Leading(s, n)) + 1
    <3>1. IsFiniteSet(Leading(s, n))
      BY <1>0, PoolFinite
    <3> QED BY <2>4, <3>1, FS_AddElement
  <2>6. InQueue(t) = InQueue(s) /\ Living(t) = Living(s)
    BY <2>3, <2>4 DEF InQueue, Living
  <2>7. /\ t.mRefCount[n] = s.mRefCount[n] + 1
        /\ \A m \in Nodes \ {n} : t.mRefCount[m] = s.mRefCount[m]
    BY <1>0, <2>1, <2>3
  <2>8. n \notin s.lost \cup InQueue(s) /\ s.mRefCount[n] = Cardinality(Leading(s, n))
    BY <2>4 DEF PoolInv, RefsExact
  <2>9. RefsExact(t)
    <3>1. \A m \in Nodes : Leading(t, m) # {} =>
            t.mRefCount[m] = Cardinality(Leading(t, m)) /\ m \notin t.lost \cup InQueue(t)
      BY <2>3, <2>4, <2>5, <2>6, <2>7, <2>8 DEF PoolInv, RefsExact
    <3>2. \A m \in InQueue(t) : t.mRefCount[m] = RECYCLED_REFERENCE_COUNT
      BY <1>0, <2>6, <2>7, <2>8, PoolFinite DEF PoolInv, RefsExact
    <3> QED BY <2>3, <2>6, <3>1, <3>2 DEF PoolInv, RefsExact
  <2>10. Housed(t)
    BY <2>3, <2>6 DEF Housed, PoolInv
  <2> QED BY <2>3, <2>9, <2>10 DEF PoolInv
<1> QED BY <1>0, <1>1, <1>3, <1>4

\* What a queue holds when a node goes to its end.
LEMMA QueueAppend ==
    ASSUME NEW s \in HandleRecords, NEW n \in Nodes, NEW t, t.mQueue = Append(s.mQueue, n)
    PROVE  /\ InQueue(t) = InQueue(s) \cup {n}
           /\ Len(t.mQueue) = Len(s.mQueue) + 1 /\ Len(s.mQueue) \in Nat
           /\ \A i \in 1 .. Len(s.mQueue) : t.mQueue[i] = s.mQueue[i]
           /\ t.mQueue[Len(s.mQueue) + 1] = n
<1>1. s.mQueue \in Seq(Nodes)
  BY DEF HandleRecords
<1>2. /\ Len(t.mQueue) = Len(s.mQueue) + 1 /\ Len(s.mQueue) \in Nat
      /\ \A i \in 1 .. Len(s.mQueue) : t.mQueue[i] = s.mQueue[i]
      /\ t.mQueue[Len(s.mQueue) + 1] = n
  BY <1>1
<1>3. \A x : x \in InQueue(t) <=> x \in InQueue(s) \cup {n}
  <2>1. \A i : i \in 1 .. Len(t.mQueue) <=> i \in 1 .. Len(s.mQueue) \/ i = Len(s.mQueue) + 1
    BY <1>2
  <2> QED BY <1>2, <2>1 DEF InQueue
<1> QED BY <1>2, <1>3

\* A handle lets go: its node is still held, goes to the pool, or goes with
\* its element once the pool is gone.
LEMMA ReleaseKeepsCount ==
    ASSUME NEW s, PoolInv(s), NEW h \in Handles, NEW t, t = H!Release(s, h)
    PROVE  /\ PoolInv(t) /\ t.mNode = [s.mNode EXCEPT ![h] = Null]
           /\ t.mElement = s.mElement /\ t.pool = s.pool
<1>0. /\ s \in HandleRecords /\ s.mNode[h] \in Nodes \cup {Null} /\ Null \notin Nodes
      /\ s.mNode \in [Handles -> Nodes \cup {Null}] /\ s.mRefCount \in [Nodes -> Int]
  BY PoolFinite DEF PoolInv, HandleRecords
<1>1. PICK a : a = [s.mNode EXCEPT ![h] = Null]
  OBVIOUS
<1>2. a \in [Handles -> Nodes \cup {Null}]
  BY <1>0, <1>1
<1>3. CASE s.mNode[h] = Null
  <2>1. t = s /\ a = s.mNode
    BY <1>0, <1>1, <1>3 DEF H!Release, HandleRecords
  <2> QED BY <1>1, <2>1
<1>4. ASSUME NEW n \in Nodes, s.mNode[h] = n
      PROVE  PoolInv(t) /\ t.mNode = a /\ t.mElement = s.mElement /\ t.pool = s.pool
  <2>1. PICK r : r = [s.mRefCount EXCEPT ![n] = @ - 1]
    OBVIOUS
  <2>2. PICK u : u = [s EXCEPT !.mNode = a, !.mRefCount = r]
    OBVIOUS
  <2>3. t = IF u.mRefCount[n] > 0 THEN u
            ELSE IF s.pool THEN H!Recycle(u, n) ELSE H!Destroy(H!DestroyElement(u, n), n)
    BY <1>0, <1>1, <1>4, <2>1, <2>2 DEF H!Release, HandleRecords
  <2>4. /\ u \in HandleRecords /\ u.mNode = a /\ u.mElement = s.mElement /\ u.mRefCount = r
        /\ u.relocked = s.relocked /\ u.mQueue = s.mQueue /\ u.mUsage = s.mUsage
        /\ u.pool = s.pool /\ u.control = s.control /\ u.controlFreed = s.controlFreed
        /\ u.memory = s.memory /\ u.elements = s.elements /\ u.lost = s.lost
    <3>1. r \in [Nodes -> Int]
      BY <1>0, <2>1
    <3> QED BY <1>0, <1>2, <2>2, <3>1 DEF HandleRecords
  <2>5. /\ h \in Leading(s, n) /\ Leading(u, n) = Leading(s, n) \ {h}
        /\ \A m \in Nodes \ {n} : Leading(u, m) = Leading(s, m)
    BY <1>0, <1>1, <1>4, <2>4 DEF Leading
  <2>6. /\ n \notin s.lost \cup InQueue(s) /\ s.mRefCount[n] = Cardinality(Leading(s, n))
        /\ n \in Living(s)
    BY <2>5 DEF PoolInv, RefsExact, Living
  <2>7. /\ u.mRefCount[n] = Cardinality(Leading(u, n)) /\ u.mRefCount[n] \in Nat
        /\ Leading(u, n) = {} <=> u.mRefCount[n] = 0
        /\ \A m \in Nodes \ {n} : u.mRefCount[m] = s.mRefCount[m]
    <3>1. IsFiniteSet(Leading(s, n))
      BY <1>0, PoolFinite
    <3>2. Cardinality(Leading(u, n)) = Cardinality(Leading(s, n)) - 1
      BY <2>5, <3>1, FS_RemoveElement
    <3>3. /\ Cardinality(Leading(u, n)) \in Nat
          /\ Cardinality(Leading(u, n)) = 0 <=> Leading(u, n) = {}
      BY <2>4, PoolFinite
    <3>4. u.mRefCount[n] = s.mRefCount[n] - 1 /\ \A m \in Nodes \ {n} : u.mRefCount[m] = s.mRefCount[m]
      BY <1>0, <2>1, <2>4
    <3> QED BY <2>6, <3>2, <3>3, <3>4
  <2>8. InQueue(u) = InQueue(s)
    BY <2>4 DEF InQueue
  <2>q. /\ \A i, j \in 1 .. Len(s.mQueue) : s.mQueue[i] = s.mQueue[j] => i = j
        /\ s.lost \cap InQueue(s) = {} /\ InQueue(s) \subseteq Nodes
        /\ \A m \in InQueue(s) : s.mRefCount[m] = RECYCLED_REFERENCE_COUNT
    BY <1>0, PoolFinite DEF PoolInv, RefsExact
  <2>9. CASE u.mRefCount[n] > 0
    <3>1. t = u /\ Leading(u, n) # {}
      BY <2>3, <2>7, <2>9
    <3>2. Living(u) = Living(s)
      BY <2>4, <2>5, <2>8, <3>1 DEF Living
    <3>3. \A m \in Nodes : Leading(u, m) # {} =>
            u.mRefCount[m] = Cardinality(Leading(u, m)) /\ m \notin u.lost \cup InQueue(u)
      BY <2>4, <2>5, <2>6, <2>7, <2>8 DEF PoolInv, RefsExact
    <3>4. \A m \in InQueue(u) : u.mRefCount[m] = RECYCLED_REFERENCE_COUNT
      BY <2>6, <2>7, <2>8, <2>q
    <3>5. RefsExact(u)
      BY <2>4, <2>8, <2>q, <3>3, <3>4 DEF RefsExact
    <3>6. Housed(u)
      BY <2>4, <2>8, <3>2 DEF Housed, PoolInv
    <3> QED BY <2>4, <3>1, <3>5, <3>6 DEF PoolInv
  <2>10. CASE u.mRefCount[n] = 0 /\ s.pool
    <3>1. t = H!Recycle(u, n) /\ Leading(u, n) = {}
      BY <2>3, <2>7, <2>10
    <3>2. PICK c, q : c = [r EXCEPT ![n] = RECYCLED_REFERENCE_COUNT] /\ q = Append(s.mQueue, n)
      OBVIOUS
    <3>3. t = [u EXCEPT !.mRefCount = c, !.mUsage = s.mUsage - 1, !.mQueue = q, !.relocked = TRUE]
      BY <2>4, <3>1, <3>2 DEF H!Recycle, H!RECYCLED_REFERENCE_COUNT, RECYCLED_REFERENCE_COUNT,
                              HandleRecords
    <3>4. c \in [Nodes -> Int] /\ q \in Seq(Nodes) /\ s.mUsage - 1 \in Int
      BY <1>0, <2>1, <3>2 DEF HandleRecords, RECYCLED_REFERENCE_COUNT
    <3>5. /\ t \in HandleRecords /\ t.mNode = a /\ t.mElement = s.mElement /\ t.mRefCount = c
          /\ t.mQueue = q /\ t.mUsage = s.mUsage - 1
          /\ t.pool = s.pool /\ t.control = s.control /\ t.controlFreed = s.controlFreed
          /\ t.memory = s.memory /\ t.elements = s.elements /\ t.lost = s.lost
      <4>1. PICK used : used = s.mUsage - 1
        OBVIOUS
      <4> QED BY <2>4, <3>3, <3>4, <4>1 DEF HandleRecords
    <3>6. /\ InQueue(t) = InQueue(s) \cup {n}
          /\ Len(q) = Len(s.mQueue) + 1 /\ Len(s.mQueue) \in Nat
          /\ \A i \in 1 .. Len(s.mQueue) : q[i] = s.mQueue[i]
          /\ q[Len(s.mQueue) + 1] = n
      BY <1>0, <3>2, <3>5, QueueAppend, SMTT(30)
    <3>7. \A m \in Nodes : Leading(t, m) = Leading(u, m)
      BY <2>4, <3>5 DEF Leading
    <3>8. Living(t) = Living(s)
      BY <2>5, <2>6, <3>1, <3>5, <3>6, <3>7 DEF Living
    <3>9. c[n] = RECYCLED_REFERENCE_COUNT /\ \A m \in Nodes \ {n} : c[m] = s.mRefCount[m]
      BY <1>0, <2>1, <3>2
    <3>10. \A m \in Nodes : Leading(t, m) # {} =>
             t.mRefCount[m] = Cardinality(Leading(t, m)) /\ m \notin t.lost \cup InQueue(t)
      BY <2>5, <3>1, <3>5, <3>6, <3>7, <3>9 DEF PoolInv, RefsExact
    <3>11. \A m \in InQueue(t) : t.mRefCount[m] = RECYCLED_REFERENCE_COUNT
      BY <2>q, <3>5, <3>6, <3>9
    <3>12. \A i, j \in 1 .. Len(q) : q[i] = q[j] => i = j
      <4>1. \A i \in 1 .. Len(s.mQueue) : q[i] # n
        BY <2>6, <3>6 DEF InQueue
      <4> QED BY <2>q, <3>6, <4>1
    <3>13. RefsExact(t)
      BY <2>6, <2>q, <3>5, <3>6, <3>10, <3>11, <3>12 DEF RefsExact
    <3>14. Housed(t)
      <4>1. Living(s) \ InQueue(t) = (Living(s) \ InQueue(s)) \ {n} /\ n \in Living(s) \ InQueue(s)
        BY <2>6, <3>6
      <4>2. IsFiniteSet(Living(s) \ InQueue(s))
        BY <1>0, PoolFinite, FS_Difference
      <4>3. Cardinality(Living(s) \ InQueue(t)) = Cardinality(Living(s) \ InQueue(s)) - 1
        BY <4>1, <4>2, FS_RemoveElement
      <4>4. s.mUsage \in Int
        BY <1>0 DEF HandleRecords
      <4>5. t.mUsage >= 0 /\ t.pool => t.mUsage = Cardinality(Living(t) \ InQueue(t))
        BY <3>5, <3>8, <4>3, <4>4 DEF PoolInv, Housed
      <4> QED BY <2>10, <3>5, <3>8, <4>5 DEF PoolInv, Housed
    <3> QED BY <3>5, <3>13, <3>14 DEF PoolInv
  <2>11. CASE u.mRefCount[n] = 0 /\ ~s.pool
    <3>1. t = H!Destroy(H!DestroyElement(u, n), n) /\ Leading(u, n) = {}
      BY <2>3, <2>7, <2>11
    <3>2. s.mQueue = <<>> /\ InQueue(s) = {}
      BY <2>11 DEF PoolInv, Housed, InQueue
    <3>3. PICK k, m1, m2 : /\ k = s.elements \ {n}
                           /\ m1 = s.memory \ {<<"element", n>>}
                           /\ m2 = m1 \ {<<"node", n>>}
      OBVIOUS
    <3>c. PICK f \in BOOLEAN : f <=> s.controlFreed \/ s.control = 1
      OBVIOUS
    <3>4. t = [u EXCEPT !.elements = k, !.memory = m2, !.control = s.control - 1,
                        !.controlFreed = f]
      <4>1. /\ k \in SUBSET Nodes /\ m1 \in SUBSET ({"node", "element"} \X Nodes)
            /\ m2 \in SUBSET ({"node", "element"} \X Nodes) /\ s.control \in Int
            /\ s.controlFreed \in BOOLEAN
        BY <1>0, <3>3 DEF HandleRecords
      <4>2. PICK v : v = H!DestroyElement(u, n)
        OBVIOUS
      <4>3. v = [u EXCEPT !.elements = k, !.memory = m1]
        BY <2>4, <3>3, <4>2 DEF H!DestroyElement, H!Deallocate, HandleRecords
      <4>4. /\ v \in HandleRecords /\ v.memory = m1 /\ v.control = s.control
            /\ v.controlFreed = s.controlFreed /\ v.pool = s.pool
        BY <2>4, <4>1, <4>3 DEF HandleRecords
      <4>5. PICK x : x = H!DecControl(v)
        OBVIOUS
      <4>6. x = [v EXCEPT !.control = s.control - 1,
                          !.controlFreed = s.controlFreed \/ (s.control = 1 /\ ~s.pool)]
        BY <4>4, <4>5 DEF H!DecControl, HandleRecords
      <4>7. (s.controlFreed \/ (s.control = 1 /\ ~s.pool)) = f
        BY <2>11, <3>c, <4>1
      <4>8. x = [v EXCEPT !.control = s.control - 1, !.controlFreed = f]
        BY <4>6, <4>7
      <4>9. x.memory = m1
        BY <4>4, <4>8 DEF HandleRecords
      <4>10. t = [x EXCEPT !.memory = m2]
        BY <3>1, <3>3, <4>2, <4>5, <4>9 DEF H!Destroy, H!Deallocate
      <4> QED BY <2>4, <4>1, <4>3, <4>8, <4>10 DEF HandleRecords
    <3>5. /\ k \in SUBSET Nodes /\ m2 \in SUBSET ({"node", "element"} \X Nodes)
          /\ s.control - 1 \in Int
      BY <1>0, <3>3 DEF HandleRecords
    <3>6. /\ t \in HandleRecords /\ t.mNode = a /\ t.mElement = s.mElement /\ t.mRefCount = r
          /\ t.mQueue = s.mQueue /\ t.mUsage = s.mUsage
          /\ t.pool = s.pool /\ t.control = s.control - 1 /\ t.controlFreed = f
          /\ t.memory = m2 /\ t.elements = k /\ t.lost = s.lost
      BY <2>4, <3>4, <3>5, ZenonT(60) DEF HandleRecords
    <3>7. /\ InQueue(t) = {} /\ \A m \in Nodes : Leading(t, m) = Leading(u, m)
      BY <2>4, <3>2, <3>6 DEF Leading, InQueue
    <3>8. Living(t) = Living(s) \ {n}
      BY <2>5, <2>6, <3>1, <3>2, <3>6, <3>7 DEF Living
    <3>9. \A m \in Nodes : Leading(t, m) # {} =>
             t.mRefCount[m] = Cardinality(Leading(t, m)) /\ m \notin t.lost \cup InQueue(t)
      BY <2>4, <2>5, <2>7, <3>1, <3>6, <3>7 DEF PoolInv, RefsExact
    <3>10. RefsExact(t)
      BY <3>2, <3>6, <3>7, <3>9 DEF RefsExact
    <3>11. Cardinality(Living(t)) = Cardinality(Living(s)) - 1
           /\ Cardinality(Living(s)) \in Nat /\ Cardinality(Living(t)) \in Nat
      <4>1. IsFiniteSet(Living(s)) /\ Cardinality(Living(s)) \in Nat /\ Cardinality(Living(t)) \in Nat
        BY <1>0, <3>6, PoolFinite
      <4> QED BY <2>6, <3>8, <4>1, FS_RemoveElement
    <3>12. t.memory = {"node"} \X Living(t) \cup (IF Separate THEN {"element"} \X Living(t) ELSE {})
      BY <3>3, <3>6, <3>8 DEF PoolInv, Housed
    <3>13. t.elements = Living(t) /\ t.control = Cardinality(Living(t))
           /\ s.control = Cardinality(Living(s))
      BY <2>11, <3>3, <3>6, <3>8, <3>11 DEF PoolInv, Housed
    <3>14. t.controlFreed <=> t.control = 0
      <4>1. s.controlFreed <=> s.control = 0
        BY DEF PoolInv, Housed
      <4>2. Cardinality(Living(s)) # 0
        BY <3>11
      <4> QED BY <3>6, <3>11, <3>13, <3>c, <4>1, <4>2
    <3>15. Housed(t)
      <4>1. ~t.pool
        BY <2>11, <3>6
      <4>2. t.control = Cardinality(Living(t)) + (IF t.pool THEN 1 ELSE 0)
        BY <3>11, <3>13, <4>1
      <4>3. t.mQueue = <<>>
        BY <3>2, <3>6
      <4> QED BY <3>12, <3>13, <3>14, <4>1, <4>2, <4>3 DEF Housed
    <3> QED BY <3>6, <3>10, <3>15 DEF PoolInv
  <2> QED BY <2>7, <2>9, <2>10, <2>11
<1> QED BY <1>0, <1>1, <1>3, <1>4

\* A handle that is set to a node and its element.
Pointed(s, t, h, n) ==
    /\ t.mNode = [s.mNode EXCEPT ![h] = n]
    /\ t.mElement = [s.mElement EXCEPT ![h] = n]
    /\ t.relocked = s.relocked /\ t.mRefCount = s.mRefCount
    /\ t.mQueue = s.mQueue /\ t.mUsage = s.mUsage /\ t.pool = s.pool
    /\ t.control = s.control /\ t.controlFreed = s.controlFreed
    /\ t.memory = s.memory /\ t.elements = s.elements /\ t.lost = s.lost

LEMMA PointsSet ==
    ASSUME NEW s \in HandleRecords, NEW h \in Handles, NEW n \in Nodes \cup {Null},
           NEW t, t = H!Points(s, h, n)
    PROVE  t \in HandleRecords /\ Pointed(s, t, h, n)
<1>1. PICK a, e : /\ a = [s.mNode EXCEPT ![h] = n]
                  /\ e = [s.mElement EXCEPT ![h] = n]
  OBVIOUS
<1>2. a \in [Handles -> Nodes \cup {Null}] /\ e \in [Handles -> Nodes \cup {Null}]
  BY <1>1 DEF HandleRecords
<1>3. t = [s EXCEPT !.mNode = a, !.mElement = e]
  BY <1>1 DEF H!Points, HandleRecords
<1> QED BY <1>1, <1>2, <1>3 DEF HandleRecords, Pointed

\* Two handles that exchange their nodes.
LEMMA ExchangeKeepsCount ==
    ASSUME NEW s, PoolInv(s), NEW h \in Handles, NEW g \in Handles,
           NEW t \in HandleRecords,
           t.mNode = [s.mNode EXCEPT ![h] = s.mNode[g], ![g] = s.mNode[h]],
           t.mRefCount = s.mRefCount, t.mQueue = s.mQueue, t.mUsage = s.mUsage,
           t.pool = s.pool, t.control = s.control, t.controlFreed = s.controlFreed,
           t.memory = s.memory, t.elements = s.elements, t.lost = s.lost
    PROVE  PoolInv(t)
<1>0. s \in HandleRecords /\ s.mNode \in [Handles -> Nodes \cup {Null}]
  BY DEF PoolInv, HandleRecords
<1>1. /\ t.mNode[h] = s.mNode[g] /\ t.mNode[g] = s.mNode[h]
      /\ \A k \in Handles \ {g, h} : t.mNode[k] = s.mNode[k]
  BY <1>0
<1>2. ASSUME NEW n \in Nodes
      PROVE  Cardinality(Leading(t, n)) = Cardinality(Leading(s, n))
  <2>1. IsFiniteSet(Leading(s, n)) /\ Cardinality(Leading(s, n)) \in Nat
    BY <1>0, PoolFinite
  <2>2. CASE s.mNode[h] = n <=> s.mNode[g] = n
    <3>1. Leading(t, n) = Leading(s, n)
      BY <1>1, <2>2 DEF Leading
    <3> QED BY <3>1
  <2>3. ASSUME NEW x \in {g, h}, NEW y \in {g, h}, s.mNode[x] = n, s.mNode[y] # n
        PROVE  Cardinality(Leading(t, n)) = Cardinality(Leading(s, n))
    <3>1. /\ x \in Leading(s, n) /\ y \notin Leading(s, n)
          /\ Leading(t, n) = (Leading(s, n) \ {x}) \cup {y}
      BY <1>1, <2>3 DEF Leading
    <3>2. /\ IsFiniteSet(Leading(s, n) \ {x}) /\ y \notin Leading(s, n) \ {x}
          /\ Cardinality(Leading(s, n) \ {x}) = Cardinality(Leading(s, n)) - 1
      BY <2>1, <3>1, FS_RemoveElement
    <3>3. PICK rest : rest = Leading(s, n) \ {x}
      OBVIOUS
    <3>4. Cardinality(rest \cup {y}) = Cardinality(rest) + 1
      BY <3>2, <3>3, FS_AddElement
    <3> QED BY <2>1, <3>1, <3>2, <3>3, <3>4
  <2>4. CASE s.mNode[h] = n /\ s.mNode[g] # n
    BY <2>3, <2>4
  <2>5. CASE s.mNode[g] = n /\ s.mNode[h] # n
    BY <2>3, <2>5
  <2> QED BY <2>2, <2>4, <2>5
<1> QED BY <1>2, PassedOn

Exchanged(s, t, h, g) ==
    /\ t.mNode = [s.mNode EXCEPT ![h] = s.mNode[g], ![g] = s.mNode[h]]
    /\ t.mElement = [s.mElement EXCEPT ![h] = s.mElement[g], ![g] = s.mElement[h]]
    /\ t.relocked = s.relocked /\ t.pool = s.pool

LEMMA SwapKeepsCount ==
    ASSUME NEW s, PoolInv(s), NEW h \in Handles, NEW g \in Handles,
           NEW t, t = H!Swap(s, h, g)
    PROVE  PoolInv(t) /\ Exchanged(s, t, h, g)
<1>0. s \in HandleRecords
  BY DEF PoolInv
<1>1. PICK a, e :
        /\ a = [s.mNode EXCEPT ![h] = s.mNode[g], ![g] = s.mNode[h]]
        /\ e = [s.mElement EXCEPT ![h] = s.mElement[g], ![g] = s.mElement[h]]
  OBVIOUS
<1>2. a \in [Handles -> Nodes \cup {Null}] /\ e \in [Handles -> Nodes \cup {Null}]
  BY <1>0, <1>1 DEF HandleRecords
<1>3. t = [s EXCEPT !.mNode = a, !.mElement = e]
  BY <1>0, <1>1 DEF H!Swap, HandleRecords
<1>4. /\ t \in HandleRecords /\ t.mNode = a /\ t.mElement = e
      /\ t.relocked = s.relocked /\ t.mRefCount = s.mRefCount
      /\ t.mQueue = s.mQueue /\ t.mUsage = s.mUsage /\ t.pool = s.pool
      /\ t.control = s.control /\ t.controlFreed = s.controlFreed
      /\ t.memory = s.memory /\ t.elements = s.elements /\ t.lost = s.lost
  BY <1>0, <1>2, <1>3 DEF HandleRecords
<1>5. PoolInv(t)
  BY <1>1, <1>4, ExchangeKeepsCount
<1> QED BY <1>1, <1>4, <1>5 DEF Exchanged

\* An empty handle takes over what another leads to.
LEMMA MoveKeepsCount ==
    ASSUME NEW s, PoolInv(s), NEW h \in Handles, NEW g \in Handles, h # g,
           s.mNode[h] = Null, NEW t, t = H!Move(s, h, g)
    PROVE  /\ PoolInv(t)
           /\ t.mNode = [s.mNode EXCEPT ![h] = s.mNode[g], ![g] = s.mNode[h]]
           /\ t.mElement = [s.mElement EXCEPT ![h] = s.mNode[g], ![g] = Null]
           /\ t.relocked = s.relocked /\ t.pool = s.pool
<1>0. s \in HandleRecords /\ s.mNode[g] \in Nodes \cup {Null}
  BY DEF PoolInv, HandleRecords
<1>1. PICK u : u = H!Points(s, h, s.mNode[g])
  OBVIOUS
<1>2. t = H!Points(u, g, Null)
  BY <1>1 DEF H!Move
<1>3. /\ u \in HandleRecords /\ u.mNode = [s.mNode EXCEPT ![h] = s.mNode[g]]
      /\ u.mElement = [s.mElement EXCEPT ![h] = s.mNode[g]]
      /\ u.relocked = s.relocked /\ u.mRefCount = s.mRefCount
      /\ u.mQueue = s.mQueue /\ u.mUsage = s.mUsage /\ u.pool = s.pool
      /\ u.control = s.control /\ u.controlFreed = s.controlFreed
      /\ u.memory = s.memory /\ u.elements = s.elements /\ u.lost = s.lost
  <2>1. u \in HandleRecords /\ Pointed(s, u, h, s.mNode[g])
    BY <1>0, <1>1, PointsSet
  <2> QED BY <2>1 DEF Pointed
<1>4. /\ t \in HandleRecords /\ t.mNode = [u.mNode EXCEPT ![g] = Null]
      /\ t.mElement = [u.mElement EXCEPT ![g] = Null]
      /\ t.relocked = u.relocked /\ t.mRefCount = u.mRefCount
      /\ t.mQueue = u.mQueue /\ t.mUsage = u.mUsage /\ t.pool = u.pool
      /\ t.control = u.control /\ t.controlFreed = u.controlFreed
      /\ t.memory = u.memory /\ t.elements = u.elements /\ t.lost = u.lost
  <2>1. t \in HandleRecords /\ Pointed(u, t, g, Null)
    BY <1>2, <1>3, PointsSet
  <2> QED BY <2>1 DEF Pointed
<1>5. /\ t.mNode = [s.mNode EXCEPT ![h] = s.mNode[g], ![g] = s.mNode[h]]
      /\ t.mElement = [s.mElement EXCEPT ![h] = s.mNode[g], ![g] = Null]
  BY <1>0, <1>3, <1>4 DEF HandleRecords
<1>6. PoolInv(t)
  BY <1>3, <1>4, <1>5, ExchangeKeepsCount
<1> QED BY <1>3, <1>4, <1>5, <1>6

----------------------------------------------------------------------------
\* Between operations only the temporary may have an element without a node.
Steady(s, temp) ==
    /\ PoolInv(s) /\ s.mNode[temp] = Null
    /\ \A h \in Handles \ {temp} : s.mElement[h] = s.mNode[h]

\* A temporary that has been given a node, swapped with h and destroyed.
LEMMA ThroughTemporary ==
    ASSUME NEW s, PoolInv(s), NEW temp \in Handles, NEW h \in Handles \ {temp},
           \A k \in Handles \ {temp} : s.mElement[k] = s.mNode[k],
           s.mElement[temp] = s.mNode[temp],
           NEW t, t = H!Release(H!Swap(s, temp, h), temp)
    PROVE  Steady(t, temp)
<1>1. PICK u : u = H!Swap(s, temp, h)
  OBVIOUS
<1>2. /\ PoolInv(u)
      /\ u.mNode = [s.mNode EXCEPT ![temp] = s.mNode[h], ![h] = s.mNode[temp]]
      /\ u.mElement = [s.mElement EXCEPT ![temp] = s.mElement[h], ![h] = s.mElement[temp]]
  <2>1. h \in Handles
    OBVIOUS
  <2>2. PoolInv(u) /\ Exchanged(s, u, temp, h)
    BY <1>1, <2>1, SwapKeepsCount
  <2> QED BY <2>2 DEF Exchanged
<1>3. /\ PoolInv(t) /\ t.mNode = [u.mNode EXCEPT ![temp] = Null]
      /\ t.mElement = u.mElement
  <2>1. PoolInv(u) /\ t = H!Release(u, temp)
    BY <1>1, <1>2
  <2> QED BY <2>1, ReleaseKeepsCount
<1>4. \A k \in Handles \ {temp} : u.mElement[k] = u.mNode[k]
  BY <1>2 DEF PoolInv, HandleRecords
<1>5. t.mNode[temp] = Null /\ \A k \in Handles \ {temp} : t.mElement[k] = t.mNode[k]
  BY <1>2, <1>3, <1>4 DEF PoolInv, HandleRecords
<1> QED BY <1>3, <1>5 DEF Steady

\* Two handles that are not the temporary exchange what they have.
LEMMA SwapStaysSteady ==
    ASSUME NEW temp \in Handles, NEW s, Steady(s, temp),
           NEW h \in Handles \ {temp}, NEW g \in Handles \ {temp}
    PROVE  Steady(H!Swap(s, h, g), temp)
<1>1. PICK t : t = H!Swap(s, h, g)
  OBVIOUS
<1>2. PoolInv(s) /\ h \in Handles /\ g \in Handles
  BY DEF Steady
<1>3. PoolInv(t) /\ Exchanged(s, t, h, g)
  BY <1>1, <1>2, SwapKeepsCount
<1>4. /\ s.mNode \in [Handles -> Nodes \cup {Null}]
      /\ s.mElement \in [Handles -> Nodes \cup {Null}]
  BY <1>2 DEF PoolInv, HandleRecords
<1> QED BY <1>1, <1>3, <1>4 DEF Steady, Exchanged

\* The constructors and assignments, and a handle that is reset.
LEMMA HandlesStaySteady ==
    ASSUME NEW temp \in Handles, NEW s, Steady(s, temp),
           NEW h \in Handles \ {temp}, NEW g \in Handles \ {temp}
    PROVE  /\ s.mNode[h] = Null => Steady(H!Copy(s, h, g), temp)
           /\ s.mNode[h] = Null /\ h # g => Steady(H!Move(s, h, g), temp)
           /\ s.mNode[h] = Null => Steady(H!CastTo(s, h, g), temp)
           /\ Steady(H!Swap(s, h, g), temp)
           /\ Steady(H!CopyAssign(s, h, g, temp), temp)
           /\ Steady(H!MoveAssign(s, h, g, temp), temp)
           /\ Steady(H!Reset(s, h, temp), temp)
<1>0. /\ PoolInv(s) /\ s \in HandleRecords /\ s.mNode[temp] = Null
      /\ s.mNode \in [Handles -> Nodes \cup {Null}]
      /\ s.mElement \in [Handles -> Nodes \cup {Null}]
      /\ \A k \in Handles \ {temp} : s.mElement[k] = s.mNode[k]
  BY DEF Steady, PoolInv, HandleRecords
<1>1. ASSUME s.mNode[h] = Null PROVE Steady(H!Copy(s, h, g), temp)
  <2>1. PICK t : t = H!Copy(s, h, g)
    OBVIOUS
  <2>2. /\ PoolInv(t) /\ t.mNode = [s.mNode EXCEPT ![h] = s.mNode[g]]
        /\ t.mElement = [s.mElement EXCEPT ![h] = s.mNode[g]]
    BY <1>0, <1>1, <2>1, CopyKeepsCount
  <2> QED BY <1>0, <2>1, <2>2 DEF Steady
<1>2. ASSUME s.mNode[h] = Null, h # g PROVE Steady(H!Move(s, h, g), temp)
  <2>1. PICK t : t = H!Move(s, h, g)
    OBVIOUS
  <2>2. /\ PoolInv(t)
        /\ t.mNode = [s.mNode EXCEPT ![h] = s.mNode[g], ![g] = s.mNode[h]]
        /\ t.mElement = [s.mElement EXCEPT ![h] = s.mNode[g], ![g] = Null]
    BY <1>0, <1>2, <2>1, MoveKeepsCount
  <2> QED BY <1>0, <1>2, <2>1, <2>2 DEF Steady
<1>3. ASSUME s.mNode[h] = Null PROVE Steady(H!CastTo(s, h, g), temp)
  <2>1. CASE s.mElement[g] # Null /\ Type[h] \in Supers
    BY <1>1, <1>3, <2>1 DEF H!CastTo
  <2>2. CASE ~(s.mElement[g] # Null /\ Type[h] \in Supers)
    <3>1. PICK t : t = H!Points(s, h, Null)
      OBVIOUS
    <3>2. /\ t \in HandleRecords /\ t.mNode = [s.mNode EXCEPT ![h] = Null]
          /\ t.mElement = [s.mElement EXCEPT ![h] = Null]
          /\ t.relocked = s.relocked /\ t.mRefCount = s.mRefCount
          /\ t.mQueue = s.mQueue /\ t.mUsage = s.mUsage /\ t.pool = s.pool
          /\ t.control = s.control /\ t.controlFreed = s.controlFreed
          /\ t.memory = s.memory /\ t.elements = s.elements /\ t.lost = s.lost
      <4>1. PICK none \in Nodes \cup {Null} : none = Null
        OBVIOUS
      <4>2. s \in HandleRecords /\ h \in Handles /\ t = H!Points(s, h, none)
        BY <1>0, <3>1, <4>1
      <4>3. /\ t \in HandleRecords /\ t.mNode = [s.mNode EXCEPT ![h] = none]
            /\ t.mElement = [s.mElement EXCEPT ![h] = none]
            /\ t.relocked = s.relocked /\ t.mRefCount = s.mRefCount
            /\ t.mQueue = s.mQueue /\ t.mUsage = s.mUsage /\ t.pool = s.pool
            /\ t.control = s.control /\ t.controlFreed = s.controlFreed
            /\ t.memory = s.memory /\ t.elements = s.elements /\ t.lost = s.lost
        <5>1. t \in HandleRecords /\ Pointed(s, t, h, none)
          BY <4>2, PointsSet
        <5> QED BY <5>1 DEF Pointed
      <4> QED BY <4>1, <4>3
    <3>3. \A n \in Nodes : Leading(t, n) = Leading(s, n)
      BY <1>0, <1>3, <3>2 DEF Leading
    <3>4. PoolInv(t)
      BY <1>0, <3>2, <3>3, PassedOn
    <3> QED BY <1>0, <2>2, <3>1, <3>2, <3>4 DEF Steady, H!CastTo
  <2> QED BY <2>1, <2>2
<1>4. Steady(H!Swap(s, h, g), temp)
  BY SwapStaysSteady
<1>5. Steady(H!CopyAssign(s, h, g, temp), temp)
  <2>1. CASE h = g
    BY <2>1 DEF H!CopyAssign
  <2>2. CASE h # g
    <3>1. PICK u : u = H!Copy(s, temp, g)
      OBVIOUS
    <3>2. /\ PoolInv(u) /\ u.mNode = [s.mNode EXCEPT ![temp] = s.mNode[g]]
          /\ u.mElement = [s.mElement EXCEPT ![temp] = s.mNode[g]]
      BY <1>0, <3>1, CopyKeepsCount
    <3>3. /\ u.mElement[temp] = u.mNode[temp]
          /\ \A k \in Handles \ {temp} : u.mElement[k] = u.mNode[k]
      BY <1>0, <3>2
    <3> QED BY <2>2, <3>1, <3>2, <3>3, ThroughTemporary DEF H!CopyAssign
  <2> QED BY <2>1, <2>2
<1>6. Steady(H!MoveAssign(s, h, g, temp), temp)
  <2>1. CASE h = g
    BY <2>1 DEF H!MoveAssign
  <2>2. CASE h # g
    <3>1. PICK u : u = H!Move(s, temp, g)
      OBVIOUS
    <3>2. /\ PoolInv(u)
          /\ u.mNode = [s.mNode EXCEPT ![temp] = s.mNode[g], ![g] = s.mNode[temp]]
          /\ u.mElement = [s.mElement EXCEPT ![temp] = s.mNode[g], ![g] = Null]
      BY <1>0, <3>1, MoveKeepsCount
    <3>3. /\ u.mElement[temp] = u.mNode[temp]
          /\ \A k \in Handles \ {temp} : u.mElement[k] = u.mNode[k]
      BY <1>0, <3>2
    <3> QED BY <2>2, <3>1, <3>2, <3>3, ThroughTemporary DEF H!MoveAssign
  <2> QED BY <2>1, <2>2
<1>7. Steady(H!Reset(s, h, temp), temp)
  <2>1. PICK u : u = H!Points(s, temp, Null)
    OBVIOUS
  <2>2. /\ u \in HandleRecords /\ u.mNode = [s.mNode EXCEPT ![temp] = Null]
        /\ u.mElement = [s.mElement EXCEPT ![temp] = Null]
        /\ u.relocked = s.relocked /\ u.mRefCount = s.mRefCount
        /\ u.mQueue = s.mQueue /\ u.mUsage = s.mUsage /\ u.pool = s.pool
        /\ u.control = s.control /\ u.controlFreed = s.controlFreed
        /\ u.memory = s.memory /\ u.elements = s.elements /\ u.lost = s.lost
    <3>1. PICK none \in Nodes \cup {Null} : none = Null
      OBVIOUS
    <3>2. u \in HandleRecords /\ Pointed(s, u, temp, none)
      BY <1>0, <2>1, <3>1, PointsSet
    <3> QED BY <3>1, <3>2 DEF Pointed
  <2>3. \A n \in Nodes : Leading(u, n) = Leading(s, n)
    BY <1>0, <2>2 DEF Leading
  <2>4. PoolInv(u)
    BY <1>0, <2>2, <2>3, PassedOn
  <2>5. /\ u.mElement[temp] = u.mNode[temp]
        /\ \A k \in Handles \ {temp} : u.mElement[k] = u.mNode[k]
    BY <1>0, <2>2
  <2> QED BY <2>1, <2>4, <2>5, ThroughTemporary DEF H!Reset
<1> QED BY <1>1, <1>2, <1>3, <1>4, <1>5, <1>6, <1>7

\* Acquire hands out the head of the queue; if the constructor of the handle
\* throws, the node is lost.
LEMMA AcquireStaysSteady ==
    ASSUME NEW temp \in Handles, NEW s, Steady(s, temp),
           NEW h \in Handles \ {temp}, s.mNode[h] = Null,
           s.pool, s.mUsage >= 0, s.mQueue # <<>>
    PROVE  Steady(H!Acquire(s, h), temp)
<1>0. /\ PoolInv(s) /\ s \in HandleRecords /\ s.mNode[temp] = Null /\ h \in Handles
      /\ s.mNode \in [Handles -> Nodes \cup {Null}] /\ Null \notin Nodes
      /\ s.mElement \in [Handles -> Nodes \cup {Null}]
      /\ s.mRefCount \in [Nodes -> Int] /\ s.mQueue \in Seq(Nodes) /\ s.mUsage \in Int
      /\ \A k \in Handles \ {temp} : s.mElement[k] = s.mNode[k]
  BY PoolFinite DEF Steady, PoolInv, HandleRecords
<1>1. PICK n, q, c : /\ n = Head(s.mQueue) /\ q = Tail(s.mQueue)
                     /\ c = [s.mRefCount EXCEPT ![n] = 1]
  OBVIOUS
<1>2. /\ n \in Nodes /\ q \in Seq(Nodes) /\ c \in [Nodes -> Int]
      /\ n = s.mQueue[1] /\ Len(s.mQueue) \in Nat /\ Len(s.mQueue) >= 1
      /\ Len(q) = Len(s.mQueue) - 1
      /\ \A i \in 1 .. Len(q) : q[i] = s.mQueue[i + 1]
  <2>1. n \in Nodes /\ q \in Seq(Nodes)
    BY <1>0, <1>1
  <2>2. /\ n = s.mQueue[1] /\ Len(s.mQueue) \in Nat /\ Len(s.mQueue) >= 1
        /\ Len(q) = Len(s.mQueue) - 1
        /\ \A i \in 1 .. Len(q) : q[i] = s.mQueue[i + 1]
    BY <1>0, <1>1
  <2> QED BY <1>0, <1>1, <2>1, <2>2
<1>3. PICK u : u = [s EXCEPT !.mQueue = q, !.mUsage = s.mUsage + 1, !.mRefCount = c]
  OBVIOUS
<1>4. PICK t : t = H!Acquire(s, h)
  OBVIOUS
<1>5. t = H!Construct(u, h, n)
  BY <1>0, <1>1, <1>3, <1>4 DEF H!Acquire, HandleRecords
<1>6. /\ u \in HandleRecords /\ u.mNode = s.mNode /\ u.mElement = s.mElement
      /\ u.relocked = s.relocked /\ u.mRefCount = c /\ u.mQueue = q
      /\ u.mUsage = s.mUsage + 1 /\ u.pool = s.pool
      /\ u.control = s.control /\ u.controlFreed = s.controlFreed
      /\ u.memory = s.memory /\ u.elements = s.elements /\ u.lost = s.lost
  <2>1. s.mUsage + 1 \in Int
    BY <1>0
  <2> QED BY <1>0, <1>2, <1>3, <2>1 DEF HandleRecords
<1>7. /\ n \in InQueue(s) /\ InQueue(u) = InQueue(s) \ {n}
      /\ \A i, j \in 1 .. Len(q) : q[i] = q[j] => i = j
  <2>1. \A i, j \in 1 .. Len(s.mQueue) : s.mQueue[i] = s.mQueue[j] => i = j
    BY <1>0 DEF PoolInv, RefsExact
  <2>2. \A i \in 1 .. Len(q) : i + 1 \in 1 .. Len(s.mQueue) /\ i + 1 # 1
    BY <1>2
  <2>3. \A i, j \in 1 .. Len(q) : q[i] = q[j] => i = j
    <3> SUFFICES ASSUME NEW i \in 1 .. Len(q), NEW j \in 1 .. Len(q), q[i] = q[j]
                 PROVE  i = j
      OBVIOUS
    <3>1. s.mQueue[i + 1] = s.mQueue[j + 1]
      BY <1>2
    <3>2. i + 1 = j + 1
      BY <2>1, <2>2, <3>1
    <3> QED BY <3>2, <1>2
  <2>4. 1 \in 1 .. Len(s.mQueue)
    BY <1>2
  <2>5. n \in InQueue(s)
    BY <1>2, <2>4 DEF InQueue
  <2>6. \A x : x \in InQueue(u) <=> x \in InQueue(s) /\ x # n
    <3>1. ASSUME NEW x, x \in InQueue(u) PROVE x \in InQueue(s) /\ x # n
      <4>1. PICK i \in 1 .. Len(q) : x = q[i]
        BY <1>6, <3>1 DEF InQueue
      <4>2. x = s.mQueue[i + 1] /\ i + 1 \in 1 .. Len(s.mQueue) /\ i + 1 # 1
        BY <1>2, <2>2, <4>1
      <4>3. n = s.mQueue[1]
        BY <1>2
      <4> QED BY <2>1, <2>4, <4>2, <4>3 DEF InQueue
    <3>2. ASSUME NEW x, x \in InQueue(s), x # n PROVE x \in InQueue(u)
      <4>1. PICK i \in 1 .. Len(s.mQueue) : x = s.mQueue[i]
        BY <3>2 DEF InQueue
      <4>2. i - 1 \in 1 .. Len(q) /\ q[i - 1] = x
        BY <1>2, <3>2, <4>1
      <4> QED BY <1>6, <4>2 DEF InQueue
    <3> QED BY <3>1, <3>2
  <2> QED BY <2>3, <2>5, <2>6
<1>8. /\ n \notin s.lost /\ Leading(s, n) = {} /\ c[n] = 1
      /\ \A m \in Nodes \ {n} : c[m] = s.mRefCount[m]
  <2>1. c[n] = 1 /\ \A m \in Nodes \ {n} : c[m] = s.mRefCount[m]
    BY <1>0, <1>1, <1>2
  <2> QED BY <1>0, <1>2, <1>7, <2>1 DEF PoolInv, RefsExact
\* Whether a handle or nobody has the node, it lives and is in use.
<1>9. ASSUME t \in HandleRecords,
             t.mRefCount = c, t.mQueue = q, t.mUsage = s.mUsage + 1, t.pool = s.pool,
             t.control = s.control, t.controlFreed = s.controlFreed,
             t.memory = s.memory, t.elements = s.elements,
             \A m \in Nodes \ {n} : Leading(t, m) = Leading(s, m),
             \/ Leading(t, n) = {h} /\ t.lost = s.lost
             \/ Leading(t, n) = {} /\ t.lost = s.lost \cup {n}
      PROVE  PoolInv(t)
  <2>1. InQueue(t) = InQueue(u)
    BY <1>6, <1>9 DEF InQueue
  <2>2. Living(t) = Living(s)
    <3>1. n \in Living(s) /\ n \in Living(t)
      BY <1>2, <1>7, <1>9 DEF Living
    <3>2. ASSUME NEW m \in Nodes \ {n} PROVE m \in Living(t) <=> m \in Living(s)
      <4>1. m \in t.lost <=> m \in s.lost
        BY <1>9
      <4>2. m \in InQueue(t) <=> m \in InQueue(s)
        BY <1>7, <2>1
      <4> QED BY <1>9, <4>1, <4>2 DEF Living
    <3>3. Living(s) \subseteq Nodes /\ Living(t) \subseteq Nodes
      BY <1>0, <1>9, PoolFinite
    <3>4. \A m : m \in Living(t) <=> m \in Living(s)
      <4> SUFFICES ASSUME NEW m PROVE m \in Living(t) <=> m \in Living(s)
        OBVIOUS
      <4>1. CASE m = n
        BY <3>1, <4>1
      <4>2. CASE m \in Nodes \ {n}
        BY <3>2, <4>2
      <4>3. CASE m \notin Nodes
        BY <3>3, <4>3
      <4> QED BY <4>1, <4>2, <4>3
    <3> QED BY <3>4
  <2>3. Cardinality(Living(t) \ InQueue(t)) = Cardinality(Living(s) \ InQueue(s)) + 1
    <3>1. PICK used : used = Living(s) \ InQueue(s)
      OBVIOUS
    <3>2. n \in Living(s)
      BY <1>7 DEF Living
    <3>3. n \notin used /\ Living(t) \ InQueue(t) = used \cup {n}
      BY <1>7, <2>1, <2>2, <3>1, <3>2
    <3>4. IsFiniteSet(used)
      BY <1>0, <3>1, PoolFinite, FS_Difference
    <3> QED BY <3>1, <3>3, <3>4, FS_AddElement
  <2>4. ASSUME NEW m \in Nodes, Leading(t, m) # {}
        PROVE  t.mRefCount[m] = Cardinality(Leading(t, m)) /\ m \notin t.lost \cup InQueue(t)
    <3>1. CASE m = n
      <4>1. Leading(t, n) = {h} /\ t.lost = s.lost
        BY <1>9, <2>4, <3>1
      <4>2. Cardinality({h}) = 1
        BY FS_Singleton
      <4>3. n \notin t.lost \cup InQueue(t)
        BY <1>7, <1>8, <1>6, <2>1, <4>1
      <4>4. t.mRefCount[n] = 1
        BY <1>8, <1>9
      <4> QED BY <3>1, <4>1, <4>2, <4>3, <4>4
    <3>2. CASE m # n
      <4>1. Leading(s, m) # {} /\ Leading(t, m) = Leading(s, m)
        BY <1>9, <2>4, <3>2
      <4>2. s.mRefCount[m] = Cardinality(Leading(s, m)) /\ m \notin s.lost \cup InQueue(s)
        BY <1>0, <4>1 DEF PoolInv, RefsExact
      <4> QED BY <1>7, <1>8, <1>9, <2>1, <3>2, <4>1, <4>2
    <3> QED BY <3>1, <3>2
  <2>5. \A m \in InQueue(t) : t.mRefCount[m] = RECYCLED_REFERENCE_COUNT
    <3>1. \A m \in InQueue(s) : m \in Nodes /\ s.mRefCount[m] = RECYCLED_REFERENCE_COUNT
      BY <1>0, PoolFinite DEF PoolInv, RefsExact
    <3> QED BY <1>7, <1>8, <1>9, <2>1, <3>1
  <2>6. t.lost \cap InQueue(t) = {}
    BY <1>0, <1>7, <1>9, <2>1 DEF PoolInv, RefsExact
  <2>7. RefsExact(t)
    BY <1>7, <1>9, <2>4, <2>5, <2>6 DEF RefsExact
  <2>8. t.mUsage >= 0 /\ t.pool => t.mUsage = Cardinality(Living(t) \ InQueue(t))
    BY <1>0, <1>9, <2>3 DEF PoolInv, Housed
  <2>9. /\ ~t.pool => t.mQueue = <<>>
        /\ t.control = Cardinality(Living(t)) + (IF t.pool THEN 1 ELSE 0)
        /\ t.controlFreed <=> t.control = 0
        /\ t.elements = Living(t)
        /\ t.memory = {"node"} \X Living(t)
                        \cup (IF Separate THEN {"element"} \X Living(t) ELSE {})
    BY <1>0, <1>9, <2>2 DEF PoolInv, Housed
  <2> QED BY <1>9, <2>7, <2>8, <2>9 DEF PoolInv, Housed
<1>10. CASE Type[h] \in Supers
  <2>1. t = H!Points(u, h, n)
    BY <1>5, <1>10 DEF H!Construct
  <2>2. /\ t \in HandleRecords /\ t.mNode = [s.mNode EXCEPT ![h] = n]
        /\ t.mElement = [s.mElement EXCEPT ![h] = n]
        /\ t.relocked = s.relocked /\ t.mRefCount = c /\ t.mQueue = q
        /\ t.mUsage = s.mUsage + 1 /\ t.pool = s.pool
        /\ t.control = s.control /\ t.controlFreed = s.controlFreed
        /\ t.memory = s.memory /\ t.elements = s.elements /\ t.lost = s.lost
    <3>1. n \in Nodes \cup {Null}
      BY <1>2
    <3>2. u \in HandleRecords /\ h \in Handles
      BY <1>0, <1>6
    <3>3. /\ t \in HandleRecords /\ t.mNode = [u.mNode EXCEPT ![h] = n]
          /\ t.mElement = [u.mElement EXCEPT ![h] = n]
          /\ t.relocked = u.relocked /\ t.mRefCount = u.mRefCount
          /\ t.mQueue = u.mQueue /\ t.mUsage = u.mUsage /\ t.pool = u.pool
          /\ t.control = u.control /\ t.controlFreed = u.controlFreed
          /\ t.memory = u.memory /\ t.elements = u.elements /\ t.lost = u.lost
      <4>1. t \in HandleRecords /\ Pointed(u, t, h, n)
        BY <2>1, <3>1, <3>2, PointsSet
      <4> QED BY <4>1 DEF Pointed
    <3> QED BY <1>6, <3>3
  <2>3. /\ Leading(t, n) = {h}
        /\ \A m \in Nodes \ {n} : Leading(t, m) = Leading(s, m)
    BY <1>0, <1>8, <2>2 DEF Leading
  <2>4. PoolInv(t)
    BY <1>9, <2>2, <2>3
  <2>5. t.mNode[temp] = Null /\ \A k \in Handles \ {temp} : t.mElement[k] = t.mNode[k]
    BY <1>0, <2>2
  <2> QED BY <1>4, <2>4, <2>5 DEF Steady
<1>11. CASE Type[h] \notin Supers
  <2>1. PICK l : l = s.lost \cup {n}
    OBVIOUS
  <2>2. t = [u EXCEPT !.lost = l]
    BY <1>5, <1>6, <1>11, <2>1 DEF H!Construct
  <2>3. l \in SUBSET Nodes
    BY <1>0, <1>2, <2>1 DEF HandleRecords
  <2>4. /\ t \in HandleRecords /\ t.mNode = s.mNode /\ t.mElement = s.mElement
        /\ t.relocked = s.relocked /\ t.mRefCount = c /\ t.mQueue = q
        /\ t.mUsage = s.mUsage + 1 /\ t.pool = s.pool
        /\ t.control = s.control /\ t.controlFreed = s.controlFreed
        /\ t.memory = s.memory /\ t.elements = s.elements /\ t.lost = l
    BY <1>6, <2>2, <2>3 DEF HandleRecords
  <2>5. \A m \in Nodes : Leading(t, m) = Leading(s, m)
    BY <2>4 DEF Leading
  <2>6. PoolInv(t)
    BY <1>2, <1>8, <1>9, <2>1, <2>4, <2>5
  <2> QED BY <1>0, <1>4, <2>4, <2>6 DEF Steady
<1> QED BY <1>10, <1>11

\* What Deallocate leaves for both parts of the nodes in d.
MemoryLeft(s, d) == s.memory \ ({"node", "element"} \X d)

\* Nodes of the queue that go while the pool is there, with their elements.
LEMMA NodesGo ==
    ASSUME NEW s, PoolInv(s), s.pool, NEW d \in SUBSET InQueue(s),
           NEW t \in HandleRecords, t.mNode = s.mNode, t.lost = s.lost,
           t.mRefCount = s.mRefCount, InQueue(t) = InQueue(s) \ d,
           \A i, j \in 1 .. Len(t.mQueue) : t.mQueue[i] = t.mQueue[j] => i = j,
           t.elements = s.elements \ d,
           t.memory = MemoryLeft(s, d)
    PROVE  /\ RefsExact(t) /\ t.elements = Living(t)
           /\ t.memory = {"node"} \X Living(t)
                           \cup (IF Separate THEN {"element"} \X Living(t) ELSE {})
           /\ Living(t) \ InQueue(t) = Living(s) \ InQueue(s)
           /\ Cardinality(d) \in Nat
           /\ s.control - Cardinality(d) = Cardinality(Living(t)) + 1
           /\ Cardinality(Living(t)) \in Nat /\ ~s.controlFreed
<1>0. s \in HandleRecords
  BY DEF PoolInv
<1>1. \A n \in Nodes : Leading(t, n) = Leading(s, n)
  BY DEF Leading
<1>2. \A n \in InQueue(s) : Leading(s, n) = {} /\ n \notin s.lost /\ n \in Nodes
  BY <1>0, PoolFinite DEF PoolInv, RefsExact
<1>3. Living(t) = Living(s) \ d /\ d \subseteq Living(s)
  <2>1. \A n : n \in Living(t) <=> n \in Living(s) \ d
    BY <1>1, <1>2 DEF Living
  <2>2. d \subseteq Living(s)
    BY DEF Living
  <2> QED BY <2>1, <2>2
<1>4. RefsExact(t)
  <2>1. \A n \in Nodes : Leading(t, n) # {} =>
          t.mRefCount[n] = Cardinality(Leading(t, n)) /\ n \notin t.lost \cup InQueue(t)
    BY <1>1 DEF PoolInv, RefsExact
  <2>2. \A n \in InQueue(t) : t.mRefCount[n] = RECYCLED_REFERENCE_COUNT
    BY DEF PoolInv, RefsExact
  <2>3. t.lost \cap InQueue(t) = {}
    BY DEF PoolInv, RefsExact
  <2> QED BY <2>1, <2>2, <2>3 DEF RefsExact
<1>5. /\ s.elements = Living(s) /\ s.control = Cardinality(Living(s)) + 1
      /\ s.memory = {"node"} \X Living(s)
                      \cup (IF Separate THEN {"element"} \X Living(s) ELSE {})
      /\ s.controlFreed <=> s.control = 0
  BY DEF PoolInv, Housed
<1>6. t.memory = {"node"} \X Living(t)
                   \cup (IF Separate THEN {"element"} \X Living(t) ELSE {})
  <2>1. CASE Separate
    BY <1>3, <1>5, <2>1 DEF MemoryLeft
  <2>2. CASE ~Separate
    BY <1>3, <1>5, <2>2 DEF MemoryLeft
  <2> QED BY <2>1, <2>2
<1>7. /\ IsFiniteSet(Living(s)) /\ Cardinality(Living(s)) \in Nat
      /\ Cardinality(Living(t)) \in Nat
  BY <1>0, PoolFinite
<1>8. /\ IsFiniteSet(d) /\ Cardinality(d) \in Nat
      /\ IsFiniteSet(Living(t))
  <2>1. IsFiniteSet(d)
    BY <1>3, <1>7, FS_Subset
  <2>2. IsFiniteSet(Living(t))
    BY <1>3, <1>7, FS_Subset
  <2> QED BY <2>1, <2>2, FS_CardinalityType
<1>9. Cardinality(Living(s)) = Cardinality(Living(t)) + Cardinality(d)
  <2>1. Living(t) \cup d = Living(s) /\ Living(t) \cap d = {}
    BY <1>3
  <2>2. Cardinality(Living(t) \cup d)
          = Cardinality(Living(t)) + Cardinality(d) - Cardinality(Living(t) \cap d)
    BY <1>8, FS_Union
  <2>3. Cardinality(Living(t) \cap d) = 0
    BY <2>1, FS_EmptySet
  <2>4. Cardinality(Living(t) \cup d) = Cardinality(Living(s))
    BY <2>1
  <2> QED BY <1>7, <1>8, <2>2, <2>3, <2>4
<1>10. Living(t) \ InQueue(t) = Living(s) \ InQueue(s)
  BY <1>3
<1> QED BY <1>3, <1>4, <1>5, <1>6, <1>7, <1>8, <1>9, <1>10

LEMMA RangesAgree ==
    \A f : H!Range(f) = {f[x] : x \in DOMAIN f}
  BY DEF H!Range

LEMMA CardinalitiesAgree == \A S : H!Cardinality(S) = Cardinality(S)
  BY DEF H!Cardinality, Cardinality

\* v is s without the nodes in d and their elements.
WithoutNodes(s, d, v) ==
    /\ v \in HandleRecords /\ v.mNode = s.mNode /\ v.mElement = s.mElement
    /\ v.relocked = s.relocked /\ v.mRefCount = s.mRefCount
    /\ v.mQueue = s.mQueue /\ v.mUsage = s.mUsage /\ v.pool = s.pool
    /\ v.control = s.control - Cardinality(d)
    /\ v.controlFreed = s.controlFreed
    /\ v.memory = MemoryLeft(s, d)
    /\ v.elements = s.elements \ d /\ v.lost = s.lost

LEMMA NodesDestroyed ==
    ASSUME NEW s \in HandleRecords, NEW d, d \subseteq Nodes
    PROVE  WithoutNodes(s, d, H!DestroyNodes(s, d))
<1>1. PICK k, m, c : /\ k = s.elements \ d /\ m = MemoryLeft(s, d)
                     /\ c = s.control - Cardinality(d)
  OBVIOUS
<1>2. PICK v : v = H!DestroyNodes(s, d)
  OBVIOUS
<1>3. v = [s EXCEPT !.elements = k, !.memory = m, !.control = c]
  BY <1>1, <1>2, CardinalitiesAgree DEF H!DestroyNodes, HandleRecords, MemoryLeft
<1>4. IsFiniteSet(Nodes)
  BY CapacityAssumption, FS_Interval DEF Nodes
<1>5. Cardinality(d) \in Nat
  BY <1>4, FS_Subset, FS_CardinalityType
<1>6. k \in SUBSET Nodes /\ m \in SUBSET ({"node", "element"} \X Nodes) /\ c \in Int
  BY <1>1, <1>5 DEF HandleRecords, MemoryLeft
<1>7. WithoutNodes(s, d, v)
  BY <1>1, <1>3, <1>6 DEF HandleRecords, WithoutNodes
<1> QED BY <1>2, <1>7

\* The destructor of the pool takes the queue with it, and the control block if
\* nobody has a node.
LEMMA DestroyPoolStaysSteady ==
    ASSUME NEW temp \in Handles, NEW s, Steady(s, temp), s.pool
    PROVE  Steady(H!DestroyPool(s), temp)
<1>0. /\ PoolInv(s) /\ s \in HandleRecords /\ s.mNode[temp] = Null
      /\ s.mQueue \in Seq(Nodes) /\ InQueue(s) \subseteq Nodes
      /\ \A k \in Handles \ {temp} : s.mElement[k] = s.mNode[k]
  BY PoolFinite DEF Steady, PoolInv, HandleRecords
<1>1. H!Range(s.mQueue) = InQueue(s)
  BY <1>0, RangesAgree DEF InQueue
<1>2. PICK v : v = H!DestroyNodes(s, InQueue(s))
  OBVIOUS
<1>3. WithoutNodes(s, InQueue(s), v)
  BY <1>0, <1>2, NodesDestroyed
<1>4. PICK t : t = H!DestroyPool(s)
  OBVIOUS
<1>5. PICK u : u = [v EXCEPT !.mQueue = <<>>, !.pool = FALSE]
  OBVIOUS
<1>6. t = H!DecControl(u)
  BY <1>1, <1>2, <1>4, <1>5 DEF H!DestroyPool
<1>7. /\ u \in HandleRecords /\ u.mNode = s.mNode /\ u.mElement = s.mElement
      /\ u.mRefCount = s.mRefCount /\ u.mQueue = <<>> /\ u.pool = FALSE
      /\ u.control = s.control - Cardinality(InQueue(s))
      /\ u.controlFreed = s.controlFreed
      /\ u.memory = MemoryLeft(s, InQueue(s))
      /\ u.elements = s.elements \ InQueue(s) /\ u.lost = s.lost
  <2>1. <<>> \in Seq(Nodes) /\ FALSE \in BOOLEAN
    OBVIOUS
  <2> QED BY <1>3, <1>5, <2>1 DEF HandleRecords, WithoutNodes
<1>8. InQueue(u) = {} /\ Len(u.mQueue) = 0
  BY <1>7 DEF InQueue
<1>9. /\ RefsExact(u) /\ u.elements = Living(u)
      /\ u.memory = {"node"} \X Living(u)
                      \cup (IF Separate THEN {"element"} \X Living(u) ELSE {})
      /\ u.control = Cardinality(Living(u)) + 1
      /\ Cardinality(Living(u)) \in Nat /\ ~u.controlFreed
  <2>1. InQueue(u) = InQueue(s) \ InQueue(s)
    BY <1>8
  <2>2. \A i, j \in 1 .. Len(u.mQueue) : u.mQueue[i] = u.mQueue[j] => i = j
    BY <1>8
  <2>3. /\ RefsExact(u) /\ u.elements = Living(u)
        /\ u.memory = {"node"} \X Living(u)
                        \cup (IF Separate THEN {"element"} \X Living(u) ELSE {})
        /\ s.control - Cardinality(InQueue(s)) = Cardinality(Living(u)) + 1
        /\ Cardinality(Living(u)) \in Nat /\ ~s.controlFreed
    <3>1. PICK d \in SUBSET InQueue(s) : d = InQueue(s)
      OBVIOUS
    <3> QED BY <1>0, <1>7, <2>1, <2>2, <3>1, NodesGo
  <2> QED BY <1>7, <2>3
<1>10. PICK f \in BOOLEAN : f <=> Living(u) = {}
  OBVIOUS
<1>11. Living(u) = {} <=> Cardinality(Living(u)) = 0
  BY <1>7, PoolFinite, FS_EmptySet
<1>12. t = [u EXCEPT !.control = u.control - 1, !.controlFreed = f]
  <2>1. t = [u EXCEPT !.control = u.control - 1,
                      !.controlFreed = u.controlFreed \/ (u.control = 1 /\ ~u.pool)]
    BY <1>6 DEF H!DecControl
  <2>2. (u.controlFreed \/ (u.control = 1 /\ ~u.pool)) = f
    BY <1>7, <1>9, <1>10, <1>11
  <2> QED BY <2>1, <2>2
<1>13. /\ t \in HandleRecords /\ t.mNode = s.mNode /\ t.mElement = s.mElement
       /\ t.mRefCount = u.mRefCount /\ t.mQueue = <<>> /\ t.pool = FALSE
       /\ t.control = u.control - 1 /\ t.controlFreed = f
       /\ t.memory = u.memory /\ t.elements = u.elements /\ t.lost = u.lost
  <2>1. u.control - 1 \in Int
    BY <1>7 DEF HandleRecords
  <2> QED BY <1>7, <1>12, <2>1 DEF HandleRecords
<1>14. InQueue(t) = InQueue(u) /\ Living(t) = Living(u)
       /\ \A n \in Nodes : Leading(t, n) = Leading(u, n)
  BY <1>7, <1>13 DEF InQueue, Living, Leading
<1>15. RefsExact(t)
  BY <1>7, <1>9, <1>13, <1>14 DEF RefsExact
<1>16. Housed(t)
  <2>1. t.control = Cardinality(Living(t)) + (IF t.pool THEN 1 ELSE 0)
    BY <1>9, <1>13, <1>14
  <2>2. t.controlFreed <=> t.control = 0
    BY <1>9, <1>10, <1>11, <1>13
  <2> QED BY <1>9, <1>13, <1>14, <2>1, <2>2 DEF Housed
<1> QED BY <1>0, <1>4, <1>13, <1>15, <1>16 DEF Steady, PoolInv

\* Percentages and capacities are natural numbers; that a power of two is one,
\* and not zero, is a fact the provers do not have.
SizesAssumption ==
    /\ ShrinkCount \in Nat /\ Minimum \in Nat /\ Threshold \in Nat /\ Rate \in Nat
    /\ 2 ^ Width \in Nat \ {0}

LEMMA SurplusIsNatural ==
    ASSUME SizesAssumption, NEW usage \in Nat, NEW total \in Nat
    PROVE  H!Surplus(usage, total) \in Nat
<1>1. H!Floor(total, Rate) \in Nat
  BY DEF H!Floor, SizesAssumption
<1>2. ASSUME total - H!Floor(total, Rate) < Minimum, total >= ShrinkCount
      PROVE  (total - Minimum) % (2 ^ Width) \in Nat
  <2>1. PICK m \in Nat \ {0} : m = 2 ^ Width
    BY DEF SizesAssumption
  <2>2. total - Minimum \in Int
    BY DEF SizesAssumption
  <2>3. (total - Minimum) % m \in 0 .. m - 1
    BY <2>1, <2>2
  <2> QED BY <2>1, <2>3
<1>3. CASE total < ShrinkCount \/ usage >= H!Ceil(total, Threshold)
             \/ total = H!Floor(total, Rate)
  BY <1>3 DEF H!Surplus
<1>4. CASE ~(total < ShrinkCount \/ usage >= H!Ceil(total, Threshold)
               \/ total = H!Floor(total, Rate))
  <2>1. total >= ShrinkCount
    BY <1>4 DEF SizesAssumption
  <2>2. H!Surplus(usage, total) = IF total - H!Floor(total, Rate) < Minimum
                                  THEN (total - Minimum) % (2 ^ Width)
                                  ELSE H!Floor(total, Rate)
    BY <1>4 DEF H!Surplus
  <2> QED BY <1>1, <1>2, <2>1, <2>2
<1> QED BY <1>3, <1>4

\* Shrink destroys a part of the queue.
LEMMA ShrinkStaysSteady ==
    ASSUME SizesAssumption, NEW temp \in Handles, NEW s, Steady(s, temp), s.pool
    PROVE  Steady(H!Shrink(s), temp)
<1>0. /\ PoolInv(s) /\ s \in HandleRecords /\ s.mNode[temp] = Null /\ s.mUsage \in Int
      /\ s.mQueue \in Seq(Nodes) /\ Len(s.mQueue) \in Nat /\ InQueue(s) \subseteq Nodes
      /\ \A k \in Handles \ {temp} : s.mElement[k] = s.mNode[k]
  <2>1. s.mQueue \in Seq(Nodes) /\ s.mUsage \in Int
    BY DEF Steady, PoolInv, HandleRecords
  <2> QED BY <2>1, PoolFinite DEF Steady, PoolInv
<1>1. CASE s.mUsage < 0
  BY <1>1 DEF H!Shrink
<1>2. CASE s.mUsage >= 0
  <2>1. PICK num : num = H!Surplus(s.mUsage, H!GetCapacity(s))
    OBVIOUS
  <2>2. num \in Nat
    <3>1. H!GetCapacity(s) = Len(s.mQueue) + s.mUsage
      BY <1>0, <1>2 DEF H!GetCapacity
    <3>2. PICK usage \in Nat, total \in Nat : usage = s.mUsage /\ total = H!GetCapacity(s)
      BY <1>0, <1>2, <3>1
    <3> QED BY <2>1, <3>2, SurplusIsNatural
  <2>3. PICK count : count = IF num < Len(s.mQueue) THEN num ELSE Len(s.mQueue)
    OBVIOUS
  <2>4. count \in Nat /\ count <= Len(s.mQueue)
    BY <1>0, <2>2, <2>3
  <2>5. PICK p, q : /\ p = SubSeq(s.mQueue, 1, count)
                    /\ q = SubSeq(s.mQueue, count + 1, Len(s.mQueue))
    OBVIOUS
  <2>6. /\ p \in Seq(Nodes) /\ Len(p) = count
        /\ \A i \in 1 .. count : p[i] = s.mQueue[i]
    BY <1>0, <2>4, <2>5
  <2>7. /\ q \in Seq(Nodes) /\ Len(q) = Len(s.mQueue) - count
        /\ \A i \in 1 .. Len(q) : q[i] = s.mQueue[i + count]
    BY <1>0, <2>4, <2>5
  <2>8. PICK d : d = {s.mQueue[i] : i \in 1 .. count}
    OBVIOUS
  <2>9. H!Range(p) = d
    <3>1. DOMAIN p = 1 .. count
      BY <2>6
    <3> QED BY <2>6, <2>8, <3>1, RangesAgree
  <2>10. d \in SUBSET InQueue(s)
    BY <1>0, <2>4, <2>8 DEF InQueue
  <2>11. PICK v : v = H!DestroyNodes(s, d)
    OBVIOUS
  <2>12. WithoutNodes(s, d, v)
    <3>1. d \subseteq Nodes
      BY <1>0, <2>10
    <3> QED BY <1>0, <2>11, <3>1, NodesDestroyed
  <2>13. PICK t : t = H!Shrink(s)
    OBVIOUS
  <2>14. t = [v EXCEPT !.mQueue = q]
    <3>1. t = [H!DestroyNodes(s, H!Range(SubSeq(s.mQueue, 1, count)))
                 EXCEPT !.mQueue = SubSeq(@, count + 1, Len(@))]
      BY <1>0, <1>2, <2>1, <2>3, <2>13 DEF H!Shrink
    <3>2. t = [v EXCEPT !.mQueue = SubSeq(@, count + 1, Len(@))]
      BY <2>5, <2>9, <2>11, <3>1
    <3> QED BY <2>5, <2>12, <3>2 DEF WithoutNodes
  <2>15. /\ t \in HandleRecords /\ t.mNode = s.mNode /\ t.mElement = s.mElement
         /\ t.mRefCount = s.mRefCount /\ t.mQueue = q /\ t.mUsage = s.mUsage
         /\ t.pool = s.pool /\ t.control = s.control - Cardinality(d)
         /\ t.controlFreed = s.controlFreed
         /\ t.memory = MemoryLeft(s, d)
         /\ t.elements = s.elements \ d /\ t.lost = s.lost
    BY <2>7, <2>12, <2>14 DEF HandleRecords, WithoutNodes
  <2>16. \A i, j \in 1 .. Len(s.mQueue) : s.mQueue[i] = s.mQueue[j] => i = j
    BY <1>0 DEF PoolInv, RefsExact
  <2>17. \A i, j \in 1 .. Len(q) : q[i] = q[j] => i = j
    <3> SUFFICES ASSUME NEW i \in 1 .. Len(q), NEW j \in 1 .. Len(q), q[i] = q[j]
                 PROVE  i = j
      OBVIOUS
    <3>1. /\ i + count \in 1 .. Len(s.mQueue) /\ j + count \in 1 .. Len(s.mQueue)
          /\ s.mQueue[i + count] = s.mQueue[j + count]
      BY <1>0, <2>4, <2>7
    <3>2. i + count = j + count
      BY <2>16, <3>1
    <3> QED BY <2>4, <3>2
  <2>18. InQueue(t) = InQueue(s) \ d
    <3>1. ASSUME NEW x, x \in InQueue(t) PROVE x \in InQueue(s) \ d
      <4>1. PICK i \in 1 .. Len(q) : x = s.mQueue[i + count]
        BY <2>7, <2>15, <3>1 DEF InQueue
      <4>2. i + count \in 1 .. Len(s.mQueue) /\ i + count > count
        BY <1>0, <2>4, <2>7
      <4>3. ASSUME NEW j \in 1 .. count PROVE s.mQueue[j] # x
        <5>1. j \in 1 .. Len(s.mQueue) /\ j # i + count
          BY <1>0, <2>4, <4>2
        <5> QED BY <2>16, <4>1, <4>2, <5>1
      <4> QED BY <2>8, <4>1, <4>2, <4>3 DEF InQueue
    <3>2. ASSUME NEW x, x \in InQueue(s), x \notin d PROVE x \in InQueue(t)
      <4>1. PICK i \in 1 .. Len(s.mQueue) : x = s.mQueue[i]
        BY <3>2 DEF InQueue
      <4>2. i \notin 1 .. count
        BY <2>8, <3>2, <4>1
      <4>3. i - count \in 1 .. Len(q) /\ (i - count) + count = i
        BY <1>0, <2>4, <2>7, <4>2
      <4>4. q[i - count] = x
        BY <2>7, <4>1, <4>3
      <4> QED BY <2>15, <4>3, <4>4 DEF InQueue
    <3> QED BY <3>1, <3>2
  <2>19. /\ RefsExact(t) /\ t.elements = Living(t)
         /\ t.memory = {"node"} \X Living(t)
                         \cup (IF Separate THEN {"element"} \X Living(t) ELSE {})
         /\ Living(t) \ InQueue(t) = Living(s) \ InQueue(s)
         /\ s.control - Cardinality(d) = Cardinality(Living(t)) + 1
         /\ Cardinality(Living(t)) \in Nat /\ ~s.controlFreed
    <3>1. \A i, j \in 1 .. Len(t.mQueue) : t.mQueue[i] = t.mQueue[j] => i = j
      BY <2>15, <2>17
    <3> QED BY <1>0, <2>10, <2>15, <2>18, <3>1, NodesGo
  <2>20. Housed(t)
    <3>1. t.mUsage >= 0 /\ t.pool => t.mUsage = Cardinality(Living(t) \ InQueue(t))
      BY <1>0, <2>15, <2>19 DEF PoolInv, Housed
    <3>2. t.control = Cardinality(Living(t)) + (IF t.pool THEN 1 ELSE 0)
      BY <2>15, <2>19
    <3>3. t.controlFreed <=> t.control = 0
      BY <2>15, <2>19
    <3> QED BY <2>15, <2>19, <3>1, <3>2, <3>3 DEF Housed
  <2> QED BY <1>0, <2>13, <2>15, <2>19, <2>20 DEF Steady, PoolInv
<1> QED BY <1>0, <1>1, <1>2

----------------------------------------------------------------------------
\* What the created node takes.
Allocated(n) == {<<"node", n>>} \cup (IF Separate THEN {<<"element", n>>} ELSE {})

LEMMA ProductGrows ==
    ASSUME NEW S, NEW n, NEW c
    PROVE  {c} \X (S \cup {n}) = ({c} \X S) \cup {<<c, n>>}
  OBVIOUS

\* What Initial does for every node.
Added(s, n) == [H!CreateElementNode(s, n, "nothing") EXCEPT !.mQueue = Append(@, n)]

\* A node that is created and queued by Initial.
LEMMA CreationStaysSteady ==
    ASSUME NEW temp \in Handles, NEW s, Steady(s, temp), s.pool, s.mUsage < 0,
           NEW n \in Nodes, n \notin Living(s), s.mRefCount[n] = RECYCLED_REFERENCE_COUNT,
           NEW t, t = Added(s, n)
    PROVE  /\ Steady(t, temp) /\ t.pool /\ t.mUsage = s.mUsage
           /\ t.mRefCount = s.mRefCount /\ Living(t) = Living(s) \cup {n}
           /\ Living(s) = InQueue(s) => Living(t) = InQueue(t)
<1>0. /\ PoolInv(s) /\ s \in HandleRecords /\ s.mNode[temp] = Null /\ s.control \in Int
      /\ \A k \in Handles \ {temp} : s.mElement[k] = s.mNode[k]
      /\ s.mQueue \in Seq(Nodes) /\ IsFiniteSet(Living(s)) /\ Cardinality(Living(s)) \in Nat
      /\ s.mUsage \in Int
  <2>1. s \in HandleRecords
    BY DEF Steady, PoolInv
  <2> QED BY <2>1, PoolFinite DEF Steady, PoolInv, HandleRecords
<1>1. PICK m, k, q : /\ m = s.memory \cup Allocated(n) /\ k = s.elements \cup {n}
                     /\ q = Append(s.mQueue, n)
  OBVIOUS
<1>2. PICK u : u = H!CreateElementNode(s, n, "nothing")
  OBVIOUS
<1>3. u = [s EXCEPT !.memory = m, !.control = s.control + 1, !.elements = k]
  <2>1. CASE Separate
    BY <1>0, <1>1, <1>2, <2>1
    DEF H!CreateElementNode, H!IncControl, H!Allocate, HandleRecords, Allocated
  <2>2. CASE ~Separate
    BY <1>0, <1>1, <1>2, <2>2
    DEF H!CreateElementNode, H!IncControl, H!Allocate, HandleRecords, Allocated
  <2> QED BY <2>1, <2>2
<1>4. /\ m \in SUBSET ({"node", "element"} \X Nodes) /\ k \in SUBSET Nodes
      /\ q \in Seq(Nodes) /\ s.control + 1 \in Int
  BY <1>0, <1>1 DEF HandleRecords, Allocated
<1>5. t = [s EXCEPT !.memory = m, !.control = s.control + 1, !.elements = k, !.mQueue = q]
  <2>1. t = [u EXCEPT !.mQueue = Append(u.mQueue, n)]
    BY <1>2 DEF Added
  <2>2. u.mQueue = s.mQueue
    BY <1>0, <1>3, <1>4 DEF HandleRecords
  <2> QED BY <1>0, <1>1, <1>3, <1>4, <2>1, <2>2 DEF HandleRecords
<1>6. /\ t \in HandleRecords /\ t.mNode = s.mNode /\ t.mElement = s.mElement
      /\ t.mRefCount = s.mRefCount /\ t.mQueue = q /\ t.mUsage = s.mUsage
      /\ t.pool = s.pool /\ t.control = s.control + 1
      /\ t.controlFreed = s.controlFreed /\ t.memory = m /\ t.elements = k
      /\ t.lost = s.lost
  BY <1>0, <1>4, <1>5 DEF HandleRecords
<1>7. /\ InQueue(t) = InQueue(s) \cup {n}
      /\ Len(q) = Len(s.mQueue) + 1 /\ Len(s.mQueue) \in Nat
      /\ \A i \in 1 .. Len(s.mQueue) : q[i] = s.mQueue[i]
      /\ q[Len(s.mQueue) + 1] = n
  <2>1. s \in HandleRecords /\ n \in Nodes /\ t.mQueue = Append(s.mQueue, n)
    BY <1>0, <1>1, <1>6
  <2>2. /\ InQueue(t) = InQueue(s) \cup {n}
        /\ Len(t.mQueue) = Len(s.mQueue) + 1 /\ Len(s.mQueue) \in Nat
        /\ \A i \in 1 .. Len(s.mQueue) : t.mQueue[i] = s.mQueue[i]
        /\ t.mQueue[Len(s.mQueue) + 1] = n
    BY <2>1, QueueAppend
  <2> QED BY <1>6, <2>2
<1>8. /\ \A x \in Nodes : Leading(t, x) = Leading(s, x)
      /\ Leading(s, n) = {} /\ n \notin InQueue(s) /\ n \notin s.lost
  BY <1>6 DEF Leading, Living
<1>9. Living(t) = Living(s) \cup {n}
  BY <1>6, <1>7, <1>8 DEF Living
<1>10. RefsExact(t)
  <2>0. /\ \A x \in Nodes : Leading(s, x) # {} =>
              s.mRefCount[x] = Cardinality(Leading(s, x)) /\ x \notin s.lost \cup InQueue(s)
        /\ \A x \in InQueue(s) : s.mRefCount[x] = RECYCLED_REFERENCE_COUNT
        /\ s.lost \cap InQueue(s) = {}
        /\ \A i, j \in 1 .. Len(s.mQueue) : s.mQueue[i] = s.mQueue[j] => i = j
    BY <1>0 DEF PoolInv, RefsExact
  <2>1. ASSUME NEW x \in Nodes, Leading(t, x) # {}
        PROVE  t.mRefCount[x] = Cardinality(Leading(t, x)) /\ x \notin t.lost \cup InQueue(t)
    <3>1. Leading(t, x) = Leading(s, x) /\ x # n
      BY <1>8, <2>1
    <3>2. s.mRefCount[x] = Cardinality(Leading(s, x)) /\ x \notin s.lost \cup InQueue(s)
      BY <2>0, <2>1, <3>1
    <3> QED BY <1>6, <1>7, <3>1, <3>2
  <2>2. \A x \in InQueue(t) : t.mRefCount[x] = RECYCLED_REFERENCE_COUNT
    <3>1. t.mRefCount = s.mRefCount /\ InQueue(t) = InQueue(s) \cup {n}
      BY <1>6, <1>7
    <3> QED BY <2>0, <3>1
  <2>3. \A i, j \in 1 .. Len(q) : q[i] = q[j] => i = j
    <3>1. \A i \in 1 .. Len(s.mQueue) : q[i] # n
      BY <1>7, <1>8 DEF InQueue
    <3> QED BY <1>7, <2>0, <3>1
  <2>4. t.lost \cap InQueue(t) = {}
    BY <1>6, <1>7, <1>8, <2>0
  <2>5. \A i, j \in 1 .. Len(t.mQueue) : t.mQueue[i] = t.mQueue[j] => i = j
    BY <1>6, <2>3
  <2> QED BY <2>1, <2>2, <2>4, <2>5 DEF RefsExact
<1>11. Housed(t)
  <2>1. /\ s.elements = Living(s) /\ s.control = Cardinality(Living(s)) + 1
        /\ s.controlFreed <=> s.control = 0
        /\ s.memory = {"node"} \X Living(s)
                        \cup (IF Separate THEN {"element"} \X Living(s) ELSE {})
    BY <1>0 DEF PoolInv, Housed
  <2>2. t.memory = {"node"} \X Living(t)
                     \cup (IF Separate THEN {"element"} \X Living(t) ELSE {})
    <3>1. t.memory = s.memory \cup Allocated(n)
      BY <1>1, <1>6
    <3>2. CASE Separate
      <4>1. /\ s.memory = {"node"} \X Living(s) \cup {"element"} \X Living(s)
            /\ Allocated(n) = {<<"node", n>>, <<"element", n>>}
        BY <2>1, <3>2 DEF Allocated
      <4>2. t.memory = {"node"} \X Living(t) \cup {"element"} \X Living(t)
        <5>1. {"node"} \X Living(t) = {"node"} \X Living(s) \cup {<<"node", n>>}
          BY <1>9, ProductGrows
        <5>2. {"element"} \X Living(t) = {"element"} \X Living(s) \cup {<<"element", n>>}
          BY <1>9, ProductGrows
        <5> QED BY <3>1, <4>1, <5>1, <5>2
      <4> QED BY <3>2, <4>2
    <3>3. CASE ~Separate
      <4>1. s.memory = {"node"} \X Living(s) /\ Allocated(n) = {<<"node", n>>}
        BY <2>1, <3>3 DEF Allocated
      <4>2. t.memory = {"node"} \X Living(t)
        BY <1>9, <3>1, <4>1
      <4> QED BY <3>3, <4>2
    <3> QED BY <3>2, <3>3
  <2>3. Cardinality(Living(t)) = Cardinality(Living(s)) + 1
    BY <1>0, <1>9, FS_AddElement
  <2>4. t.control = Cardinality(Living(t)) + (IF t.pool THEN 1 ELSE 0)
    BY <1>0, <1>6, <2>1, <2>3
  <2>5. t.controlFreed <=> t.control = 0
    BY <1>0, <1>6, <2>1
  <2>6. ~(t.mUsage >= 0) /\ t.pool /\ t.elements = Living(t)
    BY <1>0, <1>1, <1>6, <1>9, <2>1
  <2> QED BY <2>2, <2>4, <2>5, <2>6 DEF Housed
<1> QED BY <1>0, <1>6, <1>7, <1>9, <1>10, <1>11 DEF Steady, PoolInv

\* A creation that throws leaves nothing behind.
LEMMA FailedCreationsLeaveNothing ==
    ASSUME NEW s, PoolInv(s), s.pool, NEW n \in Nodes, n \notin Living(s),
           NEW throws \in {"allocate", "construct"}
    PROVE  H!CreateElementNode(s, n, throws) = s
<1>0. /\ s \in HandleRecords /\ s.memory \in SUBSET ({"node", "element"} \X Nodes)
      /\ s.control \in Int /\ s.controlFreed \in BOOLEAN
  BY DEF PoolInv, HandleRecords
<1>1. s.memory = {"node"} \X Living(s)
                   \cup (IF Separate THEN {"element"} \X Living(s) ELSE {})
  BY DEF PoolInv, Housed
<1>2. <<"node", n>> \notin s.memory /\ <<"element", n>> \notin s.memory
  BY <1>1
<1>3. PICK m1, m2 : /\ m1 = s.memory \cup {<<"node", n>>}
                    /\ m2 = IF Separate THEN m1 \cup {<<"element", n>>} ELSE m1
  OBVIOUS
<1>4. /\ m1 \in SUBSET ({"node", "element"} \X Nodes)
      /\ m2 \in SUBSET ({"node", "element"} \X Nodes) /\ s.control + 1 \in Int
  BY <1>0, <1>3
<1>5. /\ m1 \ {<<"node", n>>} = s.memory
      /\ m2 \ {<<"element", n>>} = m1
  <2>1. m1 \ {<<"node", n>>} = s.memory
    BY <1>2, <1>3
  <2>2. <<"element", n>> \notin m1
    BY <1>2, <1>3
  <2> QED BY <1>3, <2>1, <2>2
<1>6. PICK base : base = [s EXCEPT !.memory = m1, !.control = s.control + 1]
  OBVIOUS
<1>7. base = H!IncControl(H!Allocate(s, "node", n))
  BY <1>0, <1>3, <1>6 DEF H!IncControl, H!Allocate, HandleRecords
<1>8. /\ base \in HandleRecords /\ base.memory = m1 /\ base.control = s.control + 1
      /\ base.controlFreed = s.controlFreed /\ base.pool = s.pool
  BY <1>0, <1>4, <1>6 DEF HandleRecords
<1>9. PICK room : room = IF Separate THEN H!Allocate(base, "element", n) ELSE base
  OBVIOUS
<1>10. room = [base EXCEPT !.memory = m2]
  <2>1. CASE Separate
    BY <1>3, <1>8, <1>9, <2>1 DEF H!Allocate
  <2>2. CASE ~Separate
    BY <1>3, <1>8, <1>9, <2>2 DEF HandleRecords
  <2> QED BY <2>1, <2>2
<1>11. room.memory = m2
  BY <1>4, <1>8, <1>10 DEF HandleRecords
<1>12. H!Deallocate(room, "element", n) = base
  <2>1. H!Deallocate(room, "element", n) = [room EXCEPT !.memory = m1]
    BY <1>5, <1>11 DEF H!Deallocate
  <2> QED BY <1>4, <1>8, <1>10, <2>1 DEF HandleRecords
<1>13. H!Destroy(base, n) = s
  <2>1. PICK x : x = H!DecControl(base)
    OBVIOUS
  <2>2. (base.controlFreed \/ (base.control = 1 /\ ~base.pool)) = s.controlFreed
    BY <1>0, <1>8
  <2>3. base.control - 1 = s.control
    BY <1>0, <1>8
  <2>4. x = [base EXCEPT !.control = s.control, !.controlFreed = s.controlFreed]
    BY <2>1, <2>2, <2>3 DEF H!DecControl
  <2>5. x.memory = m1
    BY <1>8, <2>4 DEF HandleRecords
  <2>6. H!Destroy(base, n) = [x EXCEPT !.memory = s.memory]
    BY <1>5, <2>1, <2>5 DEF H!Destroy, H!Deallocate
  <2> QED BY <1>0, <1>6, <2>4, <2>6 DEF HandleRecords
<1>14. CASE throws = "allocate"
  <2>1. H!CreateElementNode(s, n, throws) = H!Destroy(base, n)
    BY <1>7, <1>14 DEF H!CreateElementNode
  <2> QED BY <1>13, <2>1
<1>15. CASE throws = "construct"
  <2>1. H!CreateElementNode(s, n, throws) = H!Destroy(H!Deallocate(room, "element", n), n)
    BY <1>7, <1>9, <1>15 DEF H!CreateElementNode
  <2> QED BY <1>12, <1>13, <2>1
<1> QED BY <1>14, <1>15

\* Handles can be copied, moved, assigned, swapped, cast and reset in any order,
\* with nodes acquired in between and the pool shrunk or destroyed at any point:
\* every node keeps exactly the count of the handles that lead to it (or is
\* queued, or lost to a bad cast), is there with its element just as long, and
\* the control block counts the nodes and the pool and goes with the last of
\* them.  Until Initial there are none, and each operation preserves it.
THEOREM HandlesAreCounted ==
    ASSUME SizesAssumption, NEW temp \in Handles, NEW Up
    PROVE  /\ Steady(H!NoNodes, temp)
           /\ \A s : Steady(s, temp) =>
                /\ H!CountsItsHandles(s, temp)
                /\ \A t \in H!Operations(s, temp, Up) : Steady(t, temp)
<1>1. Steady(H!NoNodes, temp)
  <2>1. PICK s : s = H!NoNodes
    OBVIOUS
  <2>2. /\ s.mNode = [h \in Handles |-> Null] /\ s.mElement = [h \in Handles |-> Null]
        /\ s.mQueue = <<>> /\ s.mUsage = -1 /\ s.pool = TRUE
        /\ s.control = 1 /\ s.controlFreed = FALSE
        /\ s.memory = {} /\ s.elements = {} /\ s.lost = {}
    BY <2>1 DEF H!NoNodes
  <2>3. s \in HandleRecords
    BY <2>1 DEF H!NoNodes, HandleRecords, H!RECYCLED_REFERENCE_COUNT
  <2>4. InQueue(s) = {} /\ Len(s.mQueue) = 0
    BY <2>2 DEF InQueue
  <2>5. Null \notin Nodes
    BY <2>3, PoolFinite
  <2>6. \A n \in Nodes : Leading(s, n) = {}
    BY <2>2, <2>5 DEF Leading
  <2>7. Living(s) = {} /\ Cardinality(Living(s)) = 0
    <3>1. Living(s) = {}
      BY <2>2, <2>4, <2>6 DEF Living
    <3> QED BY <3>1, FS_EmptySet
  <2>8. RefsExact(s)
    BY <2>2, <2>4, <2>6 DEF RefsExact
  <2>9. Housed(s)
    <3>1. {"node"} \X Living(s) = {} /\ {"element"} \X Living(s) = {}
      BY <2>7
    <3>2. ~(s.mUsage >= 0)
      BY <2>2
    <3> QED BY <2>2, <2>7, <3>1, <3>2 DEF Housed
  <2>10. s.mNode[temp] = Null /\ \A h \in Handles \ {temp} : s.mElement[h] = s.mNode[h]
    BY <2>2
  <2> QED BY <2>1, <2>3, <2>8, <2>9, <2>10 DEF Steady, PoolInv
<1>2. ASSUME NEW s, Steady(s, temp) PROVE H!CountsItsHandles(s, temp)
  <2> DEFINE Holders(n) == {h \in Handles \ {temp} : s.mNode[h] = n}
             Alive == {n \in Nodes : Holders(n) # {}} \cup s.lost \cup H!Range(s.mQueue)
  <2>1. /\ PoolInv(s) /\ s \in HandleRecords /\ s.mNode[temp] = Null /\ Null \notin Nodes
        /\ s.mQueue \in Seq(Nodes)
        /\ \A h \in Handles \ {temp} : s.mElement[h] = s.mNode[h]
    <3>1. s \in HandleRecords
      BY <1>2 DEF Steady, PoolInv
    <3> QED BY <1>2, <3>1, PoolFinite DEF Steady, HandleRecords
  <2>2. \A n \in Nodes : Holders(n) = Leading(s, n)
    BY <2>1 DEF Leading
  <2>3. H!Range(s.mQueue) = InQueue(s)
    BY <2>1, RangesAgree DEF InQueue
  <2>4. Alive = Living(s)
    BY <2>2, <2>3 DEF Living
  <2>5. \A S : H!Cardinality(S) = Cardinality(S)
    BY CardinalitiesAgree
  <2>6. ASSUME NEW n \in Nodes
        PROVE  /\ Holders(n) # {} => /\ s.mRefCount[n] = H!Cardinality(Holders(n))
                                     /\ n \notin s.lost \cup H!Range(s.mQueue)
               /\ n \in H!Range(s.mQueue) => s.mRefCount[n] = H!RECYCLED_REFERENCE_COUNT
    <3>1. Holders(n) = Leading(s, n)
      BY <2>2
    <3>2. /\ Leading(s, n) # {} => /\ s.mRefCount[n] = Cardinality(Leading(s, n))
                                   /\ n \notin s.lost \cup InQueue(s)
          /\ n \in InQueue(s) => s.mRefCount[n] = RECYCLED_REFERENCE_COUNT
      BY <2>1 DEF PoolInv, RefsExact
    <3>3. H!RECYCLED_REFERENCE_COUNT = RECYCLED_REFERENCE_COUNT
      BY DEF H!RECYCLED_REFERENCE_COUNT, RECYCLED_REFERENCE_COUNT
    <3> HIDE DEF Holders
    <3> QED BY <2>3, <2>5, <3>1, <3>2, <3>3
  <2>7. /\ s.elements = Alive
        /\ s.memory = {"node"} \X Alive \cup (IF Separate THEN {"element"} \X Alive ELSE {})
        /\ s.mUsage >= 0 /\ s.pool => s.mUsage = H!Cardinality(Alive \ H!Range(s.mQueue))
        /\ s.control = H!Cardinality(Alive) + (IF s.pool THEN 1 ELSE 0)
        /\ s.controlFreed <=> s.control = 0
    <3> HIDE DEF Alive
    <3> QED BY <2>1, <2>3, <2>4, <2>5 DEF PoolInv, Housed
  <2> QED BY <2>1, <2>6, <2>7 DEF H!CountsItsHandles
<1>3. ASSUME NEW s, Steady(s, temp), NEW t \in H!Operations(s, temp, Up)
      PROVE  Steady(t, temp)
  <2> DEFINE Named == Handles \ {temp}
  <2>1. CASE \E h, g \in Named :
               \/ s.mNode[h] = Null /\ t = H!Copy(s, h, g)
               \/ s.mNode[h] = Null /\ h # g /\ t = H!Move(s, h, g)
               \/ t = H!CopyAssign(s, h, g, temp)
               \/ t = H!MoveAssign(s, h, g, temp)
               \/ t = H!Swap(s, h, g)
               \/ s.mNode[h] = Null /\ t = H!CastTo(s, h, g)
               \/ t = H!Reset(s, h, temp)
    BY <1>3, <2>1, HandlesStaySteady
  <2>2. CASE s.pool /\ t = H!DestroyPool(s)
    BY <1>3, <2>2, DestroyPoolStaysSteady
  <2>3. CASE s.pool /\ t = H!Shrink(s)
    BY <1>3, <2>3, ShrinkStaysSteady
  <2>4. CASE \E h \in Named : /\ s.mNode[h] = Null /\ s.pool /\ s.mUsage >= 0
                              /\ s.mQueue # <<>> /\ t = H!Acquire(s, h)
    BY <1>3, <2>4, AcquireStaysSteady
  <2> QED BY <1>3, <2>1, <2>2, <2>3, <2>4 DEF H!Operations
<1> QED BY <1>1, <1>2, <1>3

\* What Initial adds to the queue, one node after another, is counted with its
\* memory; a creation that throws, with the memory of the element or in its
\* constructor, leaves neither memory nor a count behind; and once the pool is
\* in use nothing is.
THEOREM CreationsAreWhole ==
    ASSUME NEW temp \in Handles, NEW s, Steady(s, temp), s.pool, s.mUsage < 0
    PROVE  /\ \A n \in Nodes : n \notin Living(s) =>
                /\ \A throws \in {"allocate", "construct"} :
                     H!CreateElementNode(s, n, throws) = s
                /\ s.mRefCount[n] = RECYCLED_REFERENCE_COUNT =>
                     /\ Steady(Added(s, n), temp) /\ Added(s, n).pool
                     /\ Added(s, n).mUsage = s.mUsage
                     /\ Added(s, n).mRefCount = s.mRefCount
                     /\ Living(Added(s, n)) = Living(s) \cup {n}
                     /\ Living(s) = InQueue(s) =>
                          Living(Added(s, n)) = InQueue(Added(s, n))
           /\ Living(s) = InQueue(s) => Steady([s EXCEPT !.mUsage = 0], temp)
<1>0. PoolInv(s) /\ s \in HandleRecords
  BY DEF Steady, PoolInv
<1>1. ASSUME NEW n \in Nodes, n \notin Living(s), NEW throws \in {"allocate", "construct"}
      PROVE  H!CreateElementNode(s, n, throws) = s
  BY <1>0, <1>1, FailedCreationsLeaveNothing
<1>2. ASSUME NEW n \in Nodes, n \notin Living(s), s.mRefCount[n] = RECYCLED_REFERENCE_COUNT
      PROVE  /\ Steady(Added(s, n), temp) /\ Added(s, n).pool
             /\ Added(s, n).mUsage = s.mUsage
             /\ Added(s, n).mRefCount = s.mRefCount
             /\ Living(Added(s, n)) = Living(s) \cup {n}
             /\ Living(s) = InQueue(s) =>
                  Living(Added(s, n)) = InQueue(Added(s, n))
  BY <1>2, CreationStaysSteady
<1>3. ASSUME Living(s) = InQueue(s) PROVE Steady([s EXCEPT !.mUsage = 0], temp)
  <2>1. PICK t : t = [s EXCEPT !.mUsage = 0]
    OBVIOUS
  <2>2. /\ t \in HandleRecords /\ t.mNode = s.mNode /\ t.mElement = s.mElement
        /\ t.mRefCount = s.mRefCount /\ t.mQueue = s.mQueue /\ t.mUsage = 0
        /\ t.pool = s.pool /\ t.control = s.control /\ t.controlFreed = s.controlFreed
        /\ t.memory = s.memory /\ t.elements = s.elements /\ t.lost = s.lost
    <3>1. PICK zero \in Int : zero = 0
      OBVIOUS
    <3>2. t = [s EXCEPT !.mUsage = zero]
      BY <2>1, <3>1
    <3>3. /\ t \in HandleRecords /\ t.mNode = s.mNode /\ t.mElement = s.mElement
          /\ t.mRefCount = s.mRefCount /\ t.mQueue = s.mQueue /\ t.mUsage = zero
          /\ t.pool = s.pool /\ t.control = s.control /\ t.controlFreed = s.controlFreed
          /\ t.memory = s.memory /\ t.elements = s.elements /\ t.lost = s.lost
      BY <1>0, <3>2 DEF HandleRecords
    <3> QED BY <3>1, <3>3
  <2>3. /\ InQueue(t) = InQueue(s) /\ Living(t) = Living(s)
        /\ \A n \in Nodes : Leading(t, n) = Leading(s, n)
    BY <2>2 DEF InQueue, Living, Leading
  <2>4. RefsExact(t)
    BY <1>0, <2>2, <2>3 DEF RefsExact, PoolInv
  <2>5. t.mUsage = Cardinality(Living(t) \ InQueue(t))
    <3>1. Living(t) \ InQueue(t) = {}
      BY <1>3, <2>3
    <3> QED BY <2>2, <3>1, FS_EmptySet
  <2>6. Housed(t)
    BY <1>0, <2>2, <2>3, <2>5 DEF Housed, PoolInv
  <2> QED BY <2>1, <2>2, <2>4, <2>6 DEF Steady, PoolInv
<1> QED BY <1>1, <1>2, <1>3

\* Shrink leaves the minimum or everything, whatever is in use, as long as it
\* is not asked to start below the minimum: the difference that is taken for a
\* size_t does not wrap then.
THEOREM ShrinksKeepTheMinimum ==
    ASSUME SizesAssumption, NEW capacity \in Nat
    PROVE  H!ShrinkKeepsMinimum(capacity)
<1> SUFFICES ASSUME ShrinkCount >= Minimum, NEW total \in 0 .. capacity,
                    NEW usage \in 0 .. total, H!Surplus(usage, total) # 0
             PROVE  total - H!Surplus(usage, total) >= Minimum
  BY DEF H!ShrinkKeepsMinimum
<1>1. H!Floor(total, Rate) \in Nat
  BY DEF H!Floor, SizesAssumption
<1>2. total >= ShrinkCount
  BY DEF H!Surplus, SizesAssumption
<1>3. H!Surplus(usage, total) = IF total - H!Floor(total, Rate) < Minimum
                                THEN (total - Minimum) % (2 ^ Width)
                                ELSE H!Floor(total, Rate)
  BY DEF H!Surplus
<1>4. CASE total - H!Floor(total, Rate) < Minimum
  <2>1. PICK m \in Nat \ {0} : m = 2 ^ Width
    BY DEF SizesAssumption
  <2>2. PICK d \in Nat : d = total - Minimum
    BY <1>2 DEF SizesAssumption
  <2>3. d % m <= d /\ d % m \in Nat
    BY <2>1, <2>2
  <2>4. H!Surplus(usage, total) = d % m
    BY <1>3, <1>4, <2>1, <2>2
  <2> QED BY <2>2, <2>3, <2>4 DEF SizesAssumption
<1>5. CASE ~(total - H!Floor(total, Rate) < Minimum)
  BY <1>1, <1>3, <1>5 DEF SizesAssumption
<1> QED BY <1>4, <1>5

----------------------------------------------------------------------------
\* Recycler, the threads that use one pool.
Elems(s) == {s[i] : i \in 1 .. Len(s)} \ {Null}
Once(s) == \A i, j \in 1 .. Len(s) : s[i] = s[j] /\ s[i] # Null => i = j
Users(n) == {h \in Handles : node[h] = n}
Counts == [Nodes -> Nat \cup {RECYCLED_REFERENCE_COUNT}]
Labels == {"empty", "expand", "emplace", "count", "held",
                           "last", "recycle", "destroy", "lastCtrl", "lock",
                           "relock", "blocked"}

\* A handle has an element in some of its positions, and elements to emplace
\* in one.
Shape ==
    \A h \in Handles :
        /\ node[h] # Null <=> pc[h] \in {"emplace", "count", "held", "last",
                                         "recycle", "destroy", "lock"}
        /\ pc[h] # "emplace" => fresh[h] = <<>>

\* The control block leads to the pool until its destructor says otherwise;
\* Acquire is called while the pool is alive.
Stages ==
    /\ mRecycler <=> pool \in {"live", "drained"}
    /\ pool # "live" => mQueue = <<>>
    /\ \A h \in Handles :
        /\ pc[h] \in {"expand", "emplace", "count"} => pool = "live"
        /\ pc[h] = "destroy" => ~mRecycler

\* ElementsFollowHandles, in terms of the users of an element.
Placed(h) ==
    node[h] # Null =>
        /\ node[h] \notin freed /\ node[h] \notin Queued
        /\ IF pc[h] = "held"
           THEN /\ mRefCount[node[h]] = Cardinality(Users(node[h]))
                /\ \A g \in Users(node[h]) : pc[g] = "held"
           ELSE Users(node[h]) = {h}

Follow ==
    /\ \A h \in Handles : Placed(h)
    /\ Queued \cap freed = {}
    /\ Once(mQueue)

\* Elements about to be emplaced are nowhere else.
FreshApart ==
    \A h \in Handles :
        /\ Once(fresh[h])
        /\ Elems(fresh[h]) \cap (freed \cup Queued) = {}
        /\ \A g \in Handles :
            /\ node[g] \notin Elems(fresh[h])
            /\ g # h => Elems(fresh[g]) \cap Elems(fresh[h]) = {}

\* The control block is counted by the pool and by every element; when the
\* count is zero, it has been deleted or one handle is about to.
CtrlExact ==
    /\ ctrlCount = Cardinality((1 .. created) \ freed)
                   + (IF pool = "gone" THEN 0 ELSE 1)
    /\ ctrlFreed => ctrlCount = 0
    /\ ctrlCount = 0 => ctrlFreed \/ \E h \in Handles : pc[h] = "lastCtrl"
    /\ \A h \in Handles : pc[h] = "lastCtrl" =>
        /\ ctrlCount = 0 /\ ~ctrlFreed /\ ~mRecycler
        /\ \A g \in Handles : pc[g] = "lastCtrl" => g = h

IInv ==
    /\ TypeOK
    /\ Shape
    /\ Stages
    /\ Follow
    /\ FreshApart
    /\ CtrlExact
    /\ UsageIsExact

USE HandlesAssumption, CapacityAssumption
    DEF Null, RECYCLED_REFERENCE_COUNT, Nodes,
        queueVars, control, elements, handles

----------------------------------------------------------------------------
\* What the operations on sequences do to their elements.

\* Taking the first element out.
LEMMA TailElems ==
    ASSUME NEW S, NEW s \in Seq(S), s # <<>>, Once(s)
    PROVE  /\ Head(s) \in S /\ Tail(s) \in Seq(S)
           /\ Elems(Tail(s)) = Elems(s) \ {Head(s)}
           /\ Once(Tail(s))
           /\ Head(s) # Null => Head(s) \in Elems(s)
<1>1. /\ Head(s) \in S /\ Tail(s) \in Seq(S)
      /\ Len(Tail(s)) = Len(s) - 1
      /\ \A i \in 1 .. Len(Tail(s)) : Tail(s)[i] = s[i + 1]
      /\ Head(s) = s[1] /\ Len(s) \in Nat \ {0}
  BY HeadTailProperties, EmptySeq, LenProperties
<1>2. \A i \in 2 .. Len(s) : i - 1 \in 1 .. Len(Tail(s)) /\ Tail(s)[i - 1] = s[i]
  BY <1>1
<1>3. Once(Tail(s))
  BY <1>1 DEF Once
<1>4. Elems(Tail(s)) \subseteq Elems(s) \ {Head(s)}
  BY <1>1 DEF Elems, Once
<1>5. Elems(s) \ {Head(s)} \subseteq Elems(Tail(s))
  <2> SUFFICES ASSUME NEW i \in 1 .. Len(s), s[i] # Null, s[i] # Head(s)
               PROVE  s[i] \in Elems(Tail(s))
    BY DEF Elems
  <2>1. i \in 2 .. Len(s)
    BY <1>1
  <2> QED BY <2>1, <1>2 DEF Elems
<1>6. Head(s) # Null => Head(s) \in Elems(s)
  BY <1>1 DEF Elems
<1> QED BY <1>1, <1>3, <1>4, <1>5, <1>6

\* Putting an element at the end.
LEMMA AppendElems ==
    ASSUME NEW S, NEW s \in Seq(S), NEW n \in S, n # Null, n \notin Elems(s),
           Once(s)
    PROVE  /\ Append(s, n) \in Seq(S)
           /\ Elems(Append(s, n)) = Elems(s) \cup {n}
           /\ Once(Append(s, n))
<1>1. /\ Append(s, n) \in Seq(S) /\ Len(s) \in Nat
      /\ Len(Append(s, n)) = Len(s) + 1
      /\ \A i \in 1 .. Len(s) : Append(s, n)[i] = s[i]
      /\ Append(s, n)[Len(s) + 1] = n
  BY AppendProperties, LenProperties
<1>2. \A i \in 1 .. Len(s) + 1 : i \in 1 .. Len(s) \/ i = Len(s) + 1
  BY <1>1
<1>3. Elems(Append(s, n)) = Elems(s) \cup {n}
  <2>1. Elems(Append(s, n)) \subseteq Elems(s) \cup {n}
    BY <1>1, <1>2 DEF Elems
  <2>2. Elems(s) \subseteq Elems(Append(s, n))
    BY <1>1 DEF Elems
  <2>3. n \in Elems(Append(s, n))
    BY <1>1 DEF Elems
  <2> QED BY <2>1, <2>2, <2>3
<1>4. Once(Append(s, n))
  BY <1>1, <1>2 DEF Once, Elems
<1> QED BY <1>1, <1>3, <1>4

\* Putting a sequence of other elements at the end.
LEMMA ConcatElems ==
    ASSUME NEW S, NEW s \in Seq(S), NEW t \in Seq(S), Once(s), Once(t),
           Elems(s) \cap Elems(t) = {}
    PROVE  /\ s \o t \in Seq(S)
           /\ Elems(s \o t) = Elems(s) \cup Elems(t)
           /\ Once(s \o t)
<1>1. /\ s \o t \in Seq(S) /\ Len(s) \in Nat /\ Len(t) \in Nat
      /\ Len(s \o t) = Len(s) + Len(t)
      /\ \A i \in 1 .. Len(s) + Len(t) : (s \o t)[i] =
            IF i <= Len(s) THEN s[i] ELSE t[i - Len(s)]
  BY ConcatProperties, LenProperties
<1>2. Elems(s \o t) \subseteq Elems(s) \cup Elems(t)
  BY <1>1 DEF Elems
<1>3. Elems(s) \subseteq Elems(s \o t)
  BY <1>1 DEF Elems
<1>4. Elems(t) \subseteq Elems(s \o t)
  <2> SUFFICES ASSUME NEW i \in 1 .. Len(t), t[i] # Null
               PROVE  t[i] \in Elems(s \o t)
    BY DEF Elems
  <2>1. Len(s) + i \in 1 .. Len(s) + Len(t) /\ (s \o t)[Len(s) + i] = t[i]
    BY <1>1
  <2> QED BY <2>1, <1>1 DEF Elems
<1>5. Once(s \o t)
  <2> SUFFICES ASSUME NEW i \in 1 .. Len(s \o t), NEW j \in 1 .. Len(s \o t),
                      (s \o t)[i] = (s \o t)[j], (s \o t)[i] # Null
               PROVE  i = j
    BY DEF Once
  <2>1. CASE i <= Len(s) /\ j <= Len(s)
    BY <1>1, <2>1 DEF Once
  <2>2. CASE i > Len(s) /\ j > Len(s)
    <3>1. /\ i - Len(s) \in 1 .. Len(t) /\ j - Len(s) \in 1 .. Len(t)
          /\ t[i - Len(s)] = t[j - Len(s)] /\ t[i - Len(s)] # Null
      BY <1>1, <2>2
    <3>2. i - Len(s) = j - Len(s)
      BY <3>1 DEF Once
    <3> QED BY <3>2, <1>1
  <2>3. CASE i <= Len(s) /\ j > Len(s)
    <3>1. (s \o t)[i] \in Elems(s)
      BY <1>1, <2>3 DEF Elems
    <3>2. j - Len(s) \in 1 .. Len(t) /\ (s \o t)[j] = t[j - Len(s)]
      BY <1>1, <2>3
    <3>3. (s \o t)[j] \in Elems(t)
      BY <3>2 DEF Elems
    <3> QED BY <3>1, <3>3
  <2>4. CASE i > Len(s) /\ j <= Len(s)
    <3>1. (s \o t)[j] \in Elems(s)
      BY <1>1, <2>4 DEF Elems
    <3>2. i - Len(s) \in 1 .. Len(t) /\ (s \o t)[i] = t[i - Len(s)]
      BY <1>1, <2>4
    <3>3. (s \o t)[i] \in Elems(t)
      BY <3>2 DEF Elems
    <3> QED BY <3>1, <3>3
  <2> QED BY <1>1, <2>1, <2>2, <2>3, <2>4
<1> QED BY <1>1, <1>2, <1>3, <1>4, <1>5

\* What Expand puts together: new elements, but for the caller's, once each.
Batch(k, num) ==
    [i \in 1 .. 2 * (num - 1) |->
        IF i < num THEN Null
        ELSE IF i = 2 * (num - 1) THEN k + num
        ELSE k + i - num + 1]

LEMMA BatchElems ==
    ASSUME NEW k \in Nat, NEW num \in Nat, num >= 2
    PROVE  /\ Batch(k, num) \in Seq(0 .. k + num)
           /\ Elems(Batch(k, num)) \subseteq (k + 1 .. k + num) \ {k + num - 1}
           /\ Once(Batch(k, num))
<1>1. /\ 2 * (num - 1) \in Nat
      /\ \A i \in 1 .. 2 * (num - 1) : Batch(k, num)[i] \in 0 .. k + num
  BY DEF Batch
<1>2. Batch(k, num) \in Seq(0 .. k + num) /\ Len(Batch(k, num)) = 2 * (num - 1)
  <2>1. Batch(k, num) \in [1 .. 2 * (num - 1) -> 0 .. k + num]
    BY <1>1 DEF Batch
  <2> QED BY <2>1, <1>1
<1>3. Elems(Batch(k, num)) \subseteq (k + 1 .. k + num) \ {k + num - 1}
  <2> SUFFICES ASSUME NEW i \in 1 .. 2 * (num - 1), Batch(k, num)[i] # Null
               PROVE  Batch(k, num)[i] \in (k + 1 .. k + num) \ {k + num - 1}
    BY <1>2 DEF Elems
  <2>1. CASE i = 2 * (num - 1)
    BY <2>1 DEF Batch
  <2>2. CASE i # 2 * (num - 1)
    BY <2>2 DEF Batch
  <2> QED BY <2>1, <2>2
<1>4. Once(Batch(k, num))
  BY <1>2 DEF Once, Batch
<1> QED BY <1>2, <1>3, <1>4

\* Sets of handles and of elements are finite.
LEMMA Finite ==
    ASSUME TypeOK
    PROVE  /\ \A n : IsFiniteSet(Users(n))
           /\ IsFiniteSet((1 .. created) \ freed)
           /\ IsFiniteSet(InUse)
           /\ Cardinality((1 .. created) \ freed) \in Nat
           /\ InUse = {n \in 0 .. created : \E h \in Handles :
                          node[h] = n /\ pc[h] \in {"held", "last", "recycle"}}
<1>1. \A n : IsFiniteSet(Users(n))
  <2> TAKE n
  <2>1. Users(n) \subseteq Handles
    BY DEF Users
  <2> QED BY <2>1, FS_Subset
<1>2. IsFiniteSet((1 .. created) \ freed)
  <2>1. created \in Int
    BY DEF TypeOK
  <2>2. IsFiniteSet(1 .. created)
    BY <2>1, FS_Interval
  <2> QED BY <2>2, FS_Difference
<1>3. InUse = {n \in 0 .. created : \E h \in Handles :
                  node[h] = n /\ pc[h] \in {"held", "last", "recycle"}}
  BY DEF InUse, TypeOK
<1>4. IsFiniteSet(InUse)
  <2>1. IsFiniteSet(0 .. created)
    BY FS_Interval DEF TypeOK
  <2> QED BY <1>3, <2>1, FS_Subset
<1> QED BY <1>1, <1>2, <1>3, <1>4, FS_CardinalityType

----------------------------------------------------------------------------
\* An element that some handle has exists and has not been destroyed.
LEMMA Owned ==
    ASSUME TypeOK, Follow, NEW h \in Handles, node[h] # Null
    PROVE  /\ node[h] \in 1 .. created
           /\ node[h] \in Nodes
           /\ node[h] \in (1 .. created) \ freed
           /\ node[h] \notin Queued
BY DEF TypeOK, Follow, Placed

\* A held element is counted at least once.
LEMMA Counted ==
    ASSUME TypeOK, Follow, NEW h \in Handles, node[h] # Null, pc[h] = "held"
    PROVE  /\ mRefCount[node[h]] \in Nat \ {0}
           /\ mRefCount[node[h]] = 1 <=> Users(node[h]) = {h}
<1>1. /\ mRefCount[node[h]] = Cardinality(Users(node[h]))
      /\ IsFiniteSet(Users(node[h]))
      /\ h \in Users(node[h])
  BY Finite, ZenonT(60) DEF Follow, Placed, Users
<1>2. /\ Cardinality(Users(node[h])) \in Nat
      /\ Cardinality(Users(node[h])) # 0
  BY <1>1, FS_CardinalityType, FS_EmptySet
<1>3. Cardinality(Users(node[h])) = 1 <=> Users(node[h]) = {h}
  BY <1>1, FS_Singleton
<1> QED BY <1>1, <1>2, <1>3

\* The control block is counted while an element or the pool is left.
LEMMA ControlCounted ==
    ASSUME TypeOK, CtrlExact
    PROVE  /\ (1 .. created) \ freed # {} => ctrlCount >= 1
           /\ pool # "gone" => ctrlCount >= 1
<1>1. /\ IsFiniteSet((1 .. created) \ freed)
      /\ Cardinality((1 .. created) \ freed) \in Nat
  BY Finite
<1>2. (1 .. created) \ freed # {} => Cardinality((1 .. created) \ freed) # 0
  BY <1>1, FS_EmptySet
<1> QED BY <1>1, <1>2 DEF CtrlExact

LEMMA SeqWider ==
    ASSUME NEW a \in Int, NEW b \in Int, a <= b
    PROVE  Seq(0 .. a) \subseteq Seq(0 .. b)
<1> SUFFICES ASSUME NEW s \in Seq(0 .. a) PROVE s \in Seq(0 .. b)
  OBVIOUS
<1>1. Len(s) \in Nat /\ s \in [1 .. Len(s) -> 0 .. a]
  BY LenProperties
<1>2. s \in [1 .. Len(s) -> 0 .. b]
  BY <1>1
<1> QED BY <1>1, <1>2, SeqDef

----------------------------------------------------------------------------
\* What an expansion does to the rest of the state.
LEMMA Expanded ==
    ASSUME IInv, NEW h \in Handles, Expand(h), ~crashed
    PROVE  /\ mUsage \in Nat /\ created \in Nat /\ created + mUsage <= MaxNodes
           /\ created' = created + mUsage
           /\ node[h] = Null /\ pool = "live" /\ fresh[h] = <<>>
           /\ \/ /\ mUsage < 2
                 /\ Drop(h) /\ UNCHANGED fresh
              \/ /\ mUsage >= 2
                 /\ Goto(h, "emplace")
                 /\ node' = [node EXCEPT ![h] = created + mUsage - 1]
                 /\ fresh' = [fresh EXCEPT ![h] = Batch(created, mUsage)]
<1>1. pc[h] = "expand" /\ pool = "live" /\ node[h] = Null /\ fresh[h] = <<>>
  BY DEF IInv, Expand, Stages, Shape
<1>2. mUsage \in Nat /\ created \in Nat
  BY <1>1, Finite, FS_CardinalityType DEF IInv, TypeOK, UsageIsExact
<1> QED BY <1>1, <1>2 DEF Expand, Batch

\* Draining takes elements that have not been destroyed.
LEMMA QueuedLeft ==
    ASSUME TypeOK, Follow
    PROVE  /\ Queued = Elems(mQueue)
           /\ Queued \subseteq (1 .. created) \ freed
           /\ IsFiniteSet(Queued)
           /\ Cardinality(Queued) \in Nat
           /\ Cardinality(((1 .. created) \ freed) \ Queued)
                = Cardinality((1 .. created) \ freed) - Cardinality(Queued)
<1>1. Queued = Elems(mQueue)
  BY DEF Queued, Elems
<1>2. \A i \in 1 .. Len(mQueue) : mQueue[i] \in 0 .. created
  BY ElementOfSeq DEF TypeOK
<1>3. Queued \subseteq (1 .. created) \ freed
  BY <1>2 DEF TypeOK, Follow, Placed, Queued
<1>4. IsFiniteSet((1 .. created) \ freed) /\ IsFiniteSet(Queued)
  BY <1>3, Finite, FS_Subset
<1>5. ((1 .. created) \ freed) \cap Queued = Queued
  BY <1>3
<1>6. Cardinality(((1 .. created) \ freed) \ Queued)
        = Cardinality((1 .. created) \ freed) - Cardinality(Queued)
  BY <1>4, <1>5, FS_Difference
<1> QED BY <1>1, <1>3, <1>4, <1>6, FS_CardinalityType

LEMMA TypeStep == IInv /\ [Next]_vars => TypeOK'
<1> SUFFICES ASSUME IInv, [Next]_vars PROVE TypeOK'
  OBVIOUS
<1>0. TypeOK /\ Shape /\ Stages /\ Follow /\ CtrlExact
  BY DEF IInv
<1>a. /\ mRefCount \in Counts /\ pc \in [Handles -> Labels]
      /\ node \in [Handles -> 0 .. created]
      /\ mUsage \in Int /\ created \in 0 .. MaxNodes
      /\ ctrlCount \in Nat /\ freed \subseteq 1 .. created
  BY <1>0 DEF TypeOK, Counts, Labels
<1>1. ASSUME NEW h \in Handles, AcquireQueued(h) PROVE TypeOK'
  <2>1. Head(mQueue) \in 0 .. created /\ Tail(mQueue) \in Seq(0 .. created)
    BY <1>0, <1>1, TailElems, QueuedLeft DEF AcquireQueued, TypeOK, Follow, Placed
  <2>2. CASE Head(mQueue) = Null
    BY <1>0, <1>1, <2>1, <2>2 DEF AcquireQueued, TypeOK
  <2>3. CASE Head(mQueue) # Null
    <3>1. mRefCount' \in Counts
      BY <1>a, <1>1, <2>1, <2>3 DEF AcquireQueued, Counts
    <3>2. pc' \in [Handles -> Labels] /\ node' \in [Handles -> 0 .. created]
      BY <1>a, <1>1, <2>1, <2>3 DEF AcquireQueued, Hold, Goto, Labels
    <3>3. mUsage' \in Int
      BY <1>0, <1>1 DEF AcquireQueued, TypeOK
    <3> QED BY <1>0, <1>1, <2>1, <2>3, <3>1, <3>2, <3>3
            DEF AcquireQueued, TypeOK, Counts, Labels
  <2> QED BY <2>2, <2>3
<1>2. ASSUME NEW h \in Handles, AcquireMiss(h) \/ GetRecycler(h) PROVE TypeOK'
  BY <1>0, <1>2 DEF AcquireMiss, GetRecycler, TypeOK, Goto
<1>3. ASSUME NEW h \in Handles, Expand(h), ~crashed PROVE TypeOK'
  <2>1. mUsage \in Nat /\ created \in Nat /\ created' = created + mUsage
        /\ created' \in 0 .. MaxNodes
    BY <1>3, Expanded
  <2>2. Seq(0 .. created) \subseteq Seq(0 .. created')
    BY <2>1, SeqWider
  <2>3. /\ UNCHANGED <<queueVars, mUsage, pool, mRecycler, ctrlFreed,
                       mRefCount, freed, crashed>>
        /\ ctrlCount' = ctrlCount + mUsage
    BY <1>3 DEF Expand
  <2>4. CASE Drop(h) /\ UNCHANGED fresh
    <3>1. node' \in [Handles -> 0 .. created'] /\ fresh' \in [Handles -> Seq(0 .. created')]
      BY <1>0, <2>1, <2>2, <2>4 DEF TypeOK, Drop
    <3> QED BY <1>0, <2>1, <2>2, <2>3, <2>4, <3>1
            DEF TypeOK, Drop, Goto
  <2>5. CASE /\ mUsage >= 2
             /\ Goto(h, "emplace")
             /\ node' = [node EXCEPT ![h] = created + mUsage - 1]
             /\ fresh' = [fresh EXCEPT ![h] = Batch(created, mUsage)]
    <3>1. Batch(created, mUsage) \in Seq(0 .. created')
      BY <2>1, <2>5, BatchElems
    <3>2. node' \in [Handles -> 0 .. created'] /\ fresh' \in [Handles -> Seq(0 .. created')]
      BY <1>0, <2>1, <2>2, <2>5, <3>1 DEF TypeOK
    <3> QED BY <1>0, <2>1, <2>2, <2>3, <2>5, <3>2 DEF TypeOK, Goto
  <2> QED BY <1>3, <2>4, <2>5, Expanded
<1>4. ASSUME NEW h \in Handles, Emplace(h) PROVE TypeOK'
  <2>1. mQueue \o fresh[h] \in Seq(0 .. created)
    BY <1>0, ConcatProperties DEF TypeOK
  <2>2. <<>> \in Seq(0 .. created)
    BY EmptySeq
  <2> QED BY <1>0, <1>4, <2>1, <2>2 DEF TypeOK, Emplace, Goto
<1>5. ASSUME NEW h \in Handles, CountFresh(h) PROVE TypeOK'
  <2>1. mRefCount' \in Counts
    BY <1>a, <1>5 DEF CountFresh, Counts
  <2>2. pc' \in [Handles -> Labels] /\ mUsage' \in Int
    BY <1>a, <1>5 DEF CountFresh, Goto, Labels
  <2> QED BY <1>0, <1>5, <2>1, <2>2 DEF TypeOK, CountFresh, Counts, Labels
<1>6. ASSUME NEW h \in Handles, NEW g \in Handles, Copy(h, g) PROVE TypeOK'
  <2>1. node[h] # Null /\ mRefCount[node[h]] \in Nat /\ node[h] \in Nodes
    BY <1>0, <1>6, Counted, Owned DEF Copy, Shape
  <2>2. mRefCount' \in Counts
    BY <1>a, <1>6, <2>1 DEF Copy, Counts
  <2>3. pc' \in [Handles -> Labels] /\ node' \in [Handles -> 0 .. created]
    BY <1>a, <1>6 DEF Copy, Hold, Goto, Labels
  <2> QED BY <1>0, <1>6, <2>2, <2>3 DEF TypeOK, Copy, Counts, Labels
<1>7. ASSUME NEW h \in Handles, Release(h) PROVE TypeOK'
  <2>1. node[h] # Null /\ mRefCount[node[h]] \in Nat \ {0} /\ node[h] \in Nodes
    BY <1>0, <1>7, Counted, Owned DEF Release, Shape
  <2>2. mRefCount' \in Counts
    BY <1>a, <1>7, <2>1 DEF Release, Counts
  <2>3. pc' \in [Handles -> Labels] /\ node' \in [Handles -> 0 .. created]
    BY <1>a, <1>7 DEF Release, Drop, Goto, Labels
  <2> QED BY <1>0, <1>7, <2>2, <2>3 DEF TypeOK, Release, Counts, Labels
<1>8. ASSUME NEW h \in Handles, Destroy(h) PROVE TypeOK'
  <2>1. node[h] \in 1 .. created /\ ctrlCount >= 1
    BY <1>0, <1>8, Owned, ControlCounted DEF Destroy, Shape
  <2>2. pc' \in [Handles -> Labels] /\ node' \in [Handles -> 0 .. created]
    BY <1>a, <1>8 DEF Destroy, Drop, Goto, Labels
  <2>3. freed' = freed \cup {node[h]} /\ ctrlCount' = ctrlCount - 1
    BY <1>8 DEF Destroy
  <2>4. freed' \subseteq 1 .. created
    BY <1>a, <2>1, <2>3
  <2>5. ctrlCount' \in Nat
    BY <1>a, <2>1, <2>3
  <2> QED BY <1>0, <1>8, <2>2, <2>4, <2>5 DEF TypeOK, Destroy, Labels
<1>9. ASSUME NEW h \in Handles, DeleteControl(h) PROVE TypeOK'
  BY <1>0, <1>9 DEF TypeOK, DeleteControl, Goto
<1>10. ASSUME NEW h \in Handles, RecycleBegin(h) PROVE TypeOK'
  <2>1. mRefCount' \in Counts
    BY <1>a, <1>10 DEF RecycleBegin, Counts
  <2>2. pc' \in [Handles -> Labels] /\ mUsage' \in Int
    BY <1>a, <1>10 DEF RecycleBegin, Goto, Labels
  <2>3. /\ UNCHANGED <<queueVars, pool, control, created, freed, node, fresh>>
        /\ crashed' \in {TRUE, crashed}
    BY <1>10 DEF RecycleBegin
  <2> QED BY <1>0, <2>1, <2>2, <2>3 DEF TypeOK, Counts, Labels
<1>11. ASSUME NEW h \in Handles, RecycleLocked(h) PROVE TypeOK'
  <2>1. Append(mQueue, node[h]) \in Seq(0 .. created)
    BY <1>0, AppendProperties DEF TypeOK
  <2>2. /\ pc' \in [Handles -> Labels] /\ node' \in [Handles -> 0 .. created]
    BY <1>a, <1>11, SMTT(30) DEF RecycleLocked, Goto, Labels
  <2>3. writer' \subseteq Handles
    BY <1>0, <1>11 DEF RecycleLocked, TypeOK
  <2> QED BY <1>0, <1>11, <2>1, <2>2, <2>3 DEF TypeOK, RecycleLocked, Labels
<1>12. ASSUME NEW h \in Handles, Relock(h) PROVE TypeOK'
  BY <1>0, <1>12 DEF TypeOK, Relock, Goto
<1>13. CASE Drain
  <2>1. /\ Queued \subseteq 1 .. created
        /\ ctrlCount - Cardinality(Queued) \in Nat
    <3>1. /\ Cardinality((1 .. created) \ freed) - Cardinality(Queued) \in Nat
          /\ Queued \subseteq 1 .. created
          /\ Cardinality(Queued) \in Nat
      BY <1>0, QueuedLeft, FS_Subset, Finite, FS_CardinalityType
    <3>2. ctrlCount >= Cardinality((1 .. created) \ freed)
          /\ Cardinality((1 .. created) \ freed) \in Nat
      BY <1>0, Finite DEF CtrlExact
    <3> QED BY <1>0, <3>1, <3>2 DEF TypeOK
  <2>2. <<>> \in Seq(0 .. created)
    BY EmptySeq
  <2> QED BY <1>0, <1>13, <2>1, <2>2 DEF TypeOK, Drain
<1>14. CASE Retract
  BY <1>0, <1>14 DEF TypeOK, Retract
<1>15. CASE LeaveControl
  <2>1. ctrlCount >= 1
    BY <1>0, <1>15, ControlCounted DEF LeaveControl
  <2> QED BY <1>0, <1>15, <2>1 DEF TypeOK, LeaveControl
<1>16. CASE UNCHANGED vars
  BY <1>0, <1>16 DEF TypeOK, vars
<1> QED
  BY <1>1, <1>2, <1>3, <1>4, <1>5, <1>6, <1>7, <1>8, <1>9, <1>10, <1>11, <1>12,
     <1>13, <1>14, <1>15, <1>16 DEF Next, Acquire, LetGo, Recycle

----------------------------------------------------------------------------
LEMMA ShapeStep == IInv /\ [Next]_vars => Shape'
<1> SUFFICES ASSUME IInv, [Next]_vars PROVE Shape'
  OBVIOUS
<1>0. /\ node \in [Handles -> 0 .. created] /\ pc \in [Handles -> Labels]
      /\ fresh \in [Handles -> Seq(0 .. created)] /\ created \in 0 .. MaxNodes
  BY DEF IInv, TypeOK, Labels
<1>a. Shape
  BY DEF IInv
<1>1. ASSUME NEW h \in Handles, AcquireQueued(h) PROVE Shape'
  BY <1>0, <1>a, <1>1 DEF Shape, AcquireQueued, Hold, Goto
<1>2. ASSUME NEW h \in Handles, AcquireMiss(h) \/ GetRecycler(h) PROVE Shape'
  BY <1>0, <1>a, <1>2 DEF Shape, AcquireMiss, GetRecycler, Goto
<1>3. ASSUME NEW h \in Handles, Expand(h), ~crashed PROVE Shape'
  BY <1>0, <1>a, <1>3, Expanded DEF Shape, Drop, Goto
<1>4. ASSUME NEW h \in Handles, Emplace(h) PROVE Shape'
  BY <1>0, <1>a, <1>4 DEF Shape, Emplace, Goto
<1>5. ASSUME NEW h \in Handles, CountFresh(h) PROVE Shape'
  BY <1>0, <1>a, <1>5 DEF Shape, CountFresh, Goto
<1>6. ASSUME NEW h \in Handles, NEW g \in Handles, Copy(h, g) PROVE Shape'
  BY <1>0, <1>a, <1>6 DEF Shape, Copy, Hold, Goto
<1>7. ASSUME NEW h \in Handles, Release(h) PROVE Shape'
  BY <1>0, <1>a, <1>7 DEF Shape, Release, Drop, Goto
<1>8. ASSUME NEW h \in Handles, Destroy(h) PROVE Shape'
  BY <1>0, <1>a, <1>8 DEF Shape, Destroy, Drop, Goto
<1>9. ASSUME NEW h \in Handles, DeleteControl(h) PROVE Shape'
  BY <1>0, <1>a, <1>9 DEF Shape, DeleteControl, Goto
<1>10. ASSUME NEW h \in Handles, RecycleBegin(h) PROVE Shape'
  BY <1>0, <1>a, <1>10 DEF Shape, RecycleBegin, Goto
<1>11. ASSUME NEW h \in Handles, RecycleLocked(h) PROVE Shape'
  BY <1>0, <1>a, <1>11 DEF Shape, RecycleLocked, Goto
<1>12. ASSUME NEW h \in Handles, Relock(h) PROVE Shape'
  BY <1>0, <1>a, <1>12 DEF Shape, Relock, Goto
<1>13. CASE Drain \/ Retract \/ LeaveControl \/ UNCHANGED vars
  BY <1>a, <1>13 DEF Shape, Drain, Retract, LeaveControl, vars
<1> QED
  BY <1>1, <1>2, <1>3, <1>4, <1>5, <1>6, <1>7, <1>8, <1>9, <1>10, <1>11, <1>12,
     <1>13 DEF Next, Acquire, LetGo, Recycle

LEMMA StagesStep == IInv /\ [Next]_vars => Stages'
<1> SUFFICES ASSUME IInv, [Next]_vars PROVE Stages'
  OBVIOUS
<1>0. /\ pc \in [Handles -> Labels] /\ mRecycler \in BOOLEAN
      /\ pool \in {"live", "drained", "retracted", "gone"}
  BY DEF IInv, TypeOK, Labels
<1>a. Stages
  BY DEF IInv
<1>1. ASSUME NEW h \in Handles, AcquireQueued(h) PROVE Stages'
  BY <1>0, <1>a, <1>1 DEF Stages, AcquireQueued, Hold, Goto
<1>2. ASSUME NEW h \in Handles, AcquireMiss(h) \/ GetRecycler(h) PROVE Stages'
  BY <1>0, <1>a, <1>2 DEF Stages, AcquireMiss, GetRecycler, Goto
<1>3. ASSUME NEW h \in Handles, Expand(h), ~crashed PROVE Stages'
  <2>1. UNCHANGED <<queueVars, pool, mRecycler>>
    BY <1>3 DEF Expand
  <2> QED BY <1>0, <1>a, <1>3, <2>1, Expanded DEF Stages, Drop, Goto
<1>4. ASSUME NEW h \in Handles, Emplace(h) PROVE Stages'
  BY <1>0, <1>a, <1>4 DEF Stages, Emplace, Goto
<1>5. ASSUME NEW h \in Handles, CountFresh(h) PROVE Stages'
  BY <1>0, <1>a, <1>5 DEF Stages, CountFresh, Goto
<1>6. ASSUME NEW h \in Handles, NEW g \in Handles, Copy(h, g) PROVE Stages'
  BY <1>0, <1>a, <1>6 DEF Stages, Copy, Hold, Goto
<1>7. ASSUME NEW h \in Handles, Release(h) PROVE Stages'
  BY <1>0, <1>a, <1>7 DEF Stages, Release, Drop, Goto
<1>8. ASSUME NEW h \in Handles, Destroy(h) PROVE Stages'
  BY <1>0, <1>a, <1>8 DEF Stages, Destroy, Drop, Goto
<1>9. ASSUME NEW h \in Handles, DeleteControl(h) PROVE Stages'
  BY <1>0, <1>a, <1>9 DEF Stages, DeleteControl, Goto
<1>10. ASSUME NEW h \in Handles, RecycleBegin(h) PROVE Stages'
  BY <1>0, <1>a, <1>10 DEF Stages, RecycleBegin, Goto
<1>11. ASSUME NEW h \in Handles, RecycleLocked(h) PROVE Stages'
  BY <1>0, <1>a, <1>11 DEF Stages, RecycleLocked, Goto
<1>12. ASSUME NEW h \in Handles, Relock(h) PROVE Stages'
  BY <1>0, <1>a, <1>12 DEF Stages, Relock, Goto
<1>13. CASE Drain
  BY <1>0, <1>a, <1>13 DEF Stages, Drain
<1>14. CASE Retract \/ LeaveControl \/ UNCHANGED vars
  BY <1>0, <1>a, <1>14 DEF Stages, Retract, LeaveControl, vars
<1> QED
  BY <1>1, <1>2, <1>3, <1>4, <1>5, <1>6, <1>7, <1>8, <1>9, <1>10, <1>11, <1>12,
     <1>13, <1>14 DEF Next, Acquire, LetGo, Recycle

----------------------------------------------------------------------------
LEMMA CtrlStep == IInv /\ [Next]_vars => CtrlExact'
<1> SUFFICES ASSUME IInv, [Next]_vars PROVE CtrlExact'
  OBVIOUS
<1> DEFINE Left == (1 .. created) \ freed
<1>0. TypeOK /\ Shape /\ Stages /\ Follow /\ CtrlExact
  BY DEF IInv
<1>a. /\ pc \in [Handles -> Labels] /\ mRecycler \in BOOLEAN
      /\ pool \in {"live", "drained", "retracted", "gone"}
      /\ ctrlCount \in Nat /\ created \in Nat /\ freed \subseteq 1 .. created
  BY <1>0 DEF TypeOK, Labels
<1>b. IsFiniteSet(Left) /\ Cardinality(Left) \in Nat
  BY <1>0, Finite
<1>c. pool # "gone" => ctrlCount >= 1
  BY <1>0, ControlCounted
<1>e. ctrlCount >= 1 => ~ctrlFreed /\ \A g \in Handles : pc[g] # "lastCtrl"
  BY <1>0 DEF CtrlExact
\* Steps that leave the control block, the elements and the pool alone.
<1>d. ASSUME UNCHANGED <<control, created, freed>>, pool' = pool,
             \A h \in Handles : pc'[h] = "lastCtrl" <=> pc[h] = "lastCtrl"
      PROVE  CtrlExact'
  BY <1>0, <1>d DEF CtrlExact
<1>1. ASSUME NEW h \in Handles, AcquireQueued(h) PROVE CtrlExact'
  BY <1>a, <1>1, <1>d DEF AcquireQueued, Hold, Goto
<1>2. ASSUME NEW h \in Handles, AcquireMiss(h) PROVE CtrlExact'
  BY <1>a, <1>2, <1>d DEF AcquireMiss, Goto
<1>3. ASSUME NEW h \in Handles, GetRecycler(h) PROVE CtrlExact'
  BY <1>a, <1>3, <1>d DEF GetRecycler, Goto
<1>4. ASSUME NEW h \in Handles, Expand(h), ~crashed PROVE CtrlExact'
  <2>1. /\ mUsage \in Nat /\ created' = created + mUsage /\ pool = "live"
        /\ ctrlCount' = ctrlCount + mUsage
        /\ UNCHANGED <<pool, mRecycler, ctrlFreed, freed>>
        /\ pc[h] = "expand"
    BY <1>4, Expanded DEF Expand
  <2>2. \A g \in Handles : pc'[g] = "lastCtrl" <=> pc[g] = "lastCtrl"
    BY <1>a, <1>4, <2>1, Expanded DEF Drop, Goto
  <2>3. Cardinality(Left') = Cardinality(Left) + mUsage
    <3>1. /\ Left' = Left \cup (created + 1 .. created + mUsage)
          /\ Left \cap (created + 1 .. created + mUsage) = {}
      BY <1>a, <2>1
    <3>2. /\ IsFiniteSet(created + 1 .. created + mUsage)
          /\ Cardinality(created + 1 .. created + mUsage) = mUsage
      BY <1>a, <2>1, FS_Interval
    <3> DEFINE New == created + 1 .. created + mUsage
    <3>3. Cardinality(Left \cup New)
            = Cardinality(Left) + Cardinality(New) - Cardinality(Left \cap New)
      BY <1>b, <3>2, FS_Union
    <3>4. Cardinality(Left \cap New) = 0
      BY <3>1, FS_EmptySet
    <3>5. Cardinality(Left \cup New) = Cardinality(Left) + mUsage
      BY <1>b, <2>1, <3>2, <3>3, <3>4
    <3> QED BY <3>1, <3>5
  <2>4. ctrlCount >= 1
    BY <1>c, <2>1
  <2> QED BY <1>0, <1>a, <1>b, <2>1, <2>2, <2>3, <2>4 DEF CtrlExact
<1>5. ASSUME NEW h \in Handles, Emplace(h) PROVE CtrlExact'
  BY <1>a, <1>5, <1>d DEF Emplace, Goto
<1>6. ASSUME NEW h \in Handles, CountFresh(h) PROVE CtrlExact'
  BY <1>a, <1>6, <1>d DEF CountFresh, Goto
<1>7. ASSUME NEW h \in Handles, NEW g \in Handles, Copy(h, g) PROVE CtrlExact'
  BY <1>a, <1>7, <1>d DEF Copy, Hold, Goto
<1>8. ASSUME NEW h \in Handles, Release(h) PROVE CtrlExact'
  BY <1>a, <1>8, <1>d DEF Release, Drop, Goto
<1>9. ASSUME NEW h \in Handles, Destroy(h) PROVE CtrlExact'
  <2>1. node[h] \in Left /\ ctrlCount >= 1 /\ ~mRecycler
    BY <1>0, <1>9, Owned, ControlCounted DEF Destroy, Shape, Stages
  <2>2. /\ ctrlCount' = ctrlCount - 1 /\ freed' = freed \cup {node[h]}
        /\ UNCHANGED <<created, pool, mRecycler, ctrlFreed>>
        /\ pc' = [pc EXCEPT ![h] = IF ctrlCount = 1 THEN "lastCtrl" ELSE "empty"]
    BY <1>9 DEF Destroy, Drop, Goto
  <2>3. Cardinality(Left') = Cardinality(Left) - 1
    <3>1. Left' = Left \ {node[h]}
      BY <2>2
    <3>2. Cardinality(Left \ {node[h]}) = Cardinality(Left) - 1
      BY <1>b, <2>1, FS_RemoveElement
    <3> QED BY <3>1, <3>2
  <2>4. ~ctrlFreed /\ \A g \in Handles : pc[g] # "lastCtrl"
    <3>1. ctrlCount # 0
      BY <2>1
    <3>2. /\ ctrlFreed => ctrlCount = 0
          /\ \A g \in Handles : pc[g] = "lastCtrl" => ctrlCount = 0
      BY <1>0 DEF CtrlExact
    <3> QED BY <3>1, <3>2
  <2>5. \A g \in Handles : pc'[g] = "lastCtrl" <=> g = h /\ ctrlCount = 1
    BY <1>a, <2>2, <2>4
  <2>6. ctrlCount' = Cardinality(Left') + (IF pool' = "gone" THEN 0 ELSE 1)
    BY <1>0, <1>a, <1>b, <2>2, <2>3 DEF CtrlExact
  <2> QED BY <1>a, <2>1, <2>2, <2>4, <2>5, <2>6 DEF CtrlExact
<1>10. ASSUME NEW h \in Handles, DeleteControl(h) PROVE CtrlExact'
  <2>1. /\ pc[h] = "lastCtrl" /\ ctrlFreed' = TRUE /\ ctrlCount = 0
        /\ UNCHANGED <<created, freed, pool, mRecycler, ctrlCount>>
        /\ pc' = [pc EXCEPT ![h] = "empty"]
    BY <1>0, <1>10 DEF DeleteControl, Goto, CtrlExact
  <2>2. \A g \in Handles : pc'[g] # "lastCtrl"
    BY <1>0, <1>a, <2>1 DEF CtrlExact
  <2> QED BY <1>0, <2>1, <2>2 DEF CtrlExact
<1>11. ASSUME NEW h \in Handles, RecycleBegin(h) PROVE CtrlExact'
  BY <1>a, <1>11, <1>d DEF RecycleBegin, Goto
<1>12. ASSUME NEW h \in Handles, RecycleLocked(h) PROVE CtrlExact'
  BY <1>a, <1>12, <1>d DEF RecycleLocked, Goto
<1>13. ASSUME NEW h \in Handles, Relock(h) PROVE CtrlExact'
  BY <1>a, <1>13, <1>d DEF Relock, Goto
<1>14. CASE Drain
  <2>1. CASE UNCHANGED <<ctrlCount, freed, pool>>
    BY <1>14, <2>1, <1>d DEF Drain
  <2>2. CASE /\ pool' = "drained" /\ freed' = freed \cup Queued
             /\ ctrlCount' = ctrlCount - Cardinality(Queued)
    <3>1. Left' = Left \ Queued /\ UNCHANGED <<created, pc, mRecycler, ctrlFreed>>
          /\ pool = "live"
      BY <1>14, <2>2 DEF Drain
    <3>2. /\ Cardinality(Left') = Cardinality(Left) - Cardinality(Queued)
          /\ Cardinality(Queued) \in Nat
      BY <1>0, <3>1, QueuedLeft
    <3>3. /\ IsFiniteSet(Left') /\ Cardinality(Left') \in Nat
      BY <1>b, <3>1, FS_Difference, FS_CardinalityType
    <3>4. ctrlCount = Cardinality(Left) + 1 /\ ctrlCount >= 1
      BY <1>0, <1>c, <3>1 DEF CtrlExact
    <3>5. ctrlCount' = Cardinality(Left') + 1 /\ ctrlCount' # 0
      BY <1>a, <1>b, <2>2, <3>2, <3>3, <3>4
    <3>6. ~ctrlFreed /\ \A g \in Handles : pc[g] # "lastCtrl"
      BY <1>e, <3>4
    <3> QED BY <2>2, <3>1, <3>5, <3>6 DEF CtrlExact
  <2> QED BY <1>14, <2>1, <2>2 DEF Drain
<1>15. CASE Retract
  <2>1. ctrlCount >= 1 /\ pool = "drained"
    BY <1>c, <1>15 DEF Retract
  <2> QED BY <1>0, <1>15, <2>1 DEF Retract, CtrlExact
<1>16. CASE LeaveControl
  <2>1. /\ ctrlCount = Cardinality(Left) + 1 /\ ctrlCount >= 1
        /\ \A g \in Handles : pc[g] # "lastCtrl"
        /\ ~mRecycler
    <3>1. pool = "retracted" /\ ctrlCount >= 1 /\ ~mRecycler
      BY <1>0, <1>c, <1>16 DEF LeaveControl, Stages
    <3>2. ctrlCount = Cardinality(Left) + 1
      BY <1>0, <3>1 DEF CtrlExact
    <3> QED BY <1>e, <3>1, <3>2
  <2>2. /\ pool' = "gone" /\ ctrlCount' = ctrlCount - 1
        /\ ctrlFreed' = (ctrlCount = 1)
        /\ UNCHANGED <<mRecycler, created, freed, pc>>
    BY <1>16, <2>1 DEF LeaveControl
  <2>3. ctrlCount' = Cardinality(Left') + (IF pool' = "gone" THEN 0 ELSE 1)
    BY <1>b, <2>1, <2>2
  <2>4. ctrlFreed' <=> ctrlCount' = 0
    <3>1. ctrlCount = 1 <=> ctrlCount' = 0
      BY <1>a, <2>2
    <3> QED BY <2>2, <3>1
  <2> QED BY <2>1, <2>2, <2>3, <2>4 DEF CtrlExact
<1>17. CASE UNCHANGED vars
  BY <1>17, <1>d DEF vars
<1> QED
  BY <1>1, <1>2, <1>3, <1>4, <1>5, <1>6, <1>7, <1>8, <1>9, <1>10, <1>11, <1>12,
     <1>13, <1>14, <1>15, <1>16, <1>17 DEF Next, Acquire, LetGo, Recycle

----------------------------------------------------------------------------
LEMMA UsageStep == IInv /\ [Next]_vars => UsageIsExact'
<1> SUFFICES ASSUME IInv, [Next]_vars PROVE UsageIsExact'
  OBVIOUS
<1> DEFINE Serving == {"held", "last", "recycle"}
<1>0. TypeOK /\ Shape /\ Stages /\ Follow /\ UsageIsExact
  BY DEF IInv
<1>a. node \in [Handles -> 0 .. created] /\ pc \in [Handles -> Labels]
  BY <1>0 DEF TypeOK, Labels
<1>b. IsFiniteSet(InUse) /\ Cardinality(InUse) \in Nat
  BY <1>0, Finite, FS_CardinalityType
\* Steps that leave the elements in use alone.
<1>d. ASSUME InUse' = InUse, mUsage' = mUsage,
             pool' = "live" => pool = "live", ~crashed' => ~crashed
      PROVE  UsageIsExact'
  BY <1>0, <1>d DEF UsageIsExact
<1>1. ASSUME NEW h \in Handles, AcquireQueued(h), ~crashed PROVE UsageIsExact'
  <2>1. CASE Head(mQueue) = Null
    BY <1>1, <2>1 DEF AcquireQueued, UsageIsExact
  <2>2. CASE Head(mQueue) # Null
    <3>1. /\ pc[h] = "empty" /\ pool = "live" /\ mUsage' = mUsage + 1
          /\ pc' = [pc EXCEPT ![h] = "held"]
          /\ node' = [node EXCEPT ![h] = Head(mQueue)]
      BY <1>1, <2>2 DEF AcquireQueued, Hold, Goto
    <3>2. Head(mQueue) \in Queued
      <4>1. mQueue \in Seq(0 .. created) /\ mQueue # <<>> /\ Once(mQueue)
        BY <1>0, <1>1 DEF AcquireQueued, TypeOK, Follow, Placed
      <4>2. Head(mQueue) \in Elems(mQueue)
        BY <4>1, <2>2, TailElems
      <4> QED BY <1>0, <4>2, QueuedLeft
    <3>3. Head(mQueue) \notin InUse
      BY <1>0, <2>2, <3>2 DEF InUse, Follow, Placed
    <3>4. InUse' = InUse \cup {Head(mQueue)}
      BY <1>a, <3>1 DEF InUse
    <3>5. Cardinality(InUse \cup {Head(mQueue)}) = Cardinality(InUse) + 1
      BY <1>b, <3>3, FS_AddElement
    <3>6. mUsage = Cardinality(InUse)
      BY <1>0, <1>1, <3>1 DEF UsageIsExact
    <3> QED BY <3>1, <3>4, <3>5, <3>6 DEF UsageIsExact
  <2> QED BY <2>1, <2>2
<1>2. ASSUME NEW h \in Handles, AcquireMiss(h) PROVE UsageIsExact'
  <2>1. InUse' = InUse
    BY <1>a, <1>2 DEF AcquireMiss, Goto, InUse
  <2> QED BY <1>2, <2>1, <1>d DEF AcquireMiss
<1>3. ASSUME NEW h \in Handles, Expand(h), ~crashed PROVE UsageIsExact'
  <2>1. InUse' = InUse
    <3>1. pc[h] = "expand" /\ pc'[h] \notin Serving
          /\ \A g \in Handles \ {h} : pc'[g] = pc[g] /\ node'[g] = node[g]
      BY <1>a, <1>3, Expanded DEF Expand, Drop, Goto
    <3> QED BY <3>1 DEF InUse
  <2> QED BY <1>3, <2>1, <1>d DEF Expand
<1>4. ASSUME NEW h \in Handles, Emplace(h) PROVE UsageIsExact'
  <2>1. InUse' = InUse
    BY <1>a, <1>4 DEF Emplace, Goto, InUse
  <2> QED BY <1>4, <2>1, <1>d DEF Emplace
<1>5. ASSUME NEW h \in Handles, CountFresh(h), ~crashed PROVE UsageIsExact'
  <2>1. /\ pc[h] = "count" /\ mUsage' = mUsage + 1
        /\ pc' = [pc EXCEPT ![h] = "held"] /\ node' = node /\ pool = "live"
    BY <1>0, <1>5 DEF CountFresh, Goto, Stages
  <2>2. node[h] \notin InUse
    BY <1>0, <2>1 DEF InUse, Follow, Placed, Shape, Users
  <2>3. InUse' = InUse \cup {node[h]}
    BY <1>a, <2>1 DEF InUse
  <2>4. Cardinality(InUse \cup {node[h]}) = Cardinality(InUse) + 1
    BY <1>b, <2>2, FS_AddElement
  <2>5. mUsage = Cardinality(InUse)
    BY <1>0, <1>5, <2>1 DEF UsageIsExact
  <2> QED BY <2>1, <2>3, <2>4, <2>5 DEF UsageIsExact
<1>6. ASSUME NEW h \in Handles, NEW g \in Handles, Copy(h, g) PROVE UsageIsExact'
  <2>1. InUse' = InUse
    BY <1>a, <1>6 DEF Copy, Hold, Goto, InUse
  <2> QED BY <1>6, <2>1, <1>d DEF Copy
<1>7. ASSUME NEW h \in Handles, Release(h) PROVE UsageIsExact'
  <2>1. CASE mRefCount[node[h]] = 1
    <3>1. InUse' = InUse
      BY <1>a, <1>7, <2>1 DEF Release, Goto, InUse
    <3> QED BY <1>7, <3>1, <1>d DEF Release
  <2>2. CASE mRefCount[node[h]] # 1
    <3>1. PICK g \in Handles \ {h} : node[g] = node[h] /\ pc[g] = "held"
      <4>1. node[h] # Null /\ pc[h] = "held"
        BY <1>0, <1>7 DEF Release, Shape
      <4>2. Users(node[h]) # {h} /\ h \in Users(node[h])
        BY <1>0, <2>2, <4>1, Counted DEF Users
      <4>3. \A g \in Users(node[h]) : pc[g] = "held"
        BY <1>0, <4>1 DEF Follow, Placed
      <4> QED BY <4>2, <4>3 DEF Users
    <3>2. pc'[g] = "held" /\ node'[g] = node[h] /\ pc'[h] = "empty"
          /\ \A k \in Handles \ {h} : pc'[k] = pc[k] /\ node'[k] = node[k]
      BY <1>a, <1>7, <2>2, <3>1 DEF Release, Drop, Goto
    <3>3. InUse' \subseteq InUse
      BY <3>2 DEF InUse
    <3>4. InUse \subseteq InUse'
      BY <3>1, <3>2 DEF InUse
    <3> QED BY <1>7, <3>3, <3>4, <1>d DEF Release
  <2> QED BY <2>1, <2>2
<1>8. ASSUME NEW h \in Handles, GetRecycler(h) PROVE UsageIsExact'
  <2>1. CASE mRecycler
    <3>1. InUse' = InUse
      BY <1>a, <1>8, <2>1 DEF GetRecycler, Goto, InUse
    <3> QED BY <1>8, <3>1, <1>d DEF GetRecycler
  <2>2. CASE ~mRecycler
    BY <1>0, <1>8, <2>2 DEF GetRecycler, Stages, UsageIsExact
  <2> QED BY <2>1, <2>2
<1>9. ASSUME NEW h \in Handles, Destroy(h) PROVE UsageIsExact'
  BY <1>0, <1>9 DEF Destroy, Stages, UsageIsExact
<1>10. ASSUME NEW h \in Handles, DeleteControl(h) PROVE UsageIsExact'
  <2>1. InUse' = InUse
    BY <1>a, <1>10 DEF DeleteControl, Goto, InUse
  <2> QED BY <1>10, <2>1, <1>d DEF DeleteControl
<1>11. ASSUME NEW h \in Handles, RecycleBegin(h), ~crashed PROVE UsageIsExact'
  <2>1. CASE pool = "live"
    <3>1. /\ pc[h] = "recycle" /\ mUsage' = mUsage - 1 /\ node' = node
          /\ pc' = [pc EXCEPT ![h] = "lock"]
      <4>1. mUsage \in Nat
        BY <1>0, <1>b, <1>11, <2>1 DEF UsageIsExact
      <4>2. ~(mUsage < 0)
        BY <4>1
      <4> QED BY <1>11, <2>1, <4>2 DEF RecycleBegin, Goto
    <3>2. InUse' = InUse \ {node[h]} /\ node[h] \in InUse
      <4>1. \A g \in Handles \ {h} : node[g] # node[h]
        BY <1>0, <3>1 DEF Follow, Placed, Shape, Users
      <4>2. \A g \in Handles \ {h} : pc'[g] = pc[g] /\ node'[g] = node[g]
        BY <1>a, <3>1
      <4>3. pc'[h] = "lock"
        BY <1>a, <3>1
      <4> QED BY <3>1, <4>1, <4>2, <4>3 DEF InUse
    <3>3. Cardinality(InUse \ {node[h]}) = Cardinality(InUse) - 1
      BY <1>b, <3>2, FS_RemoveElement
    <3>4. mUsage = Cardinality(InUse)
      BY <1>0, <1>11, <2>1 DEF UsageIsExact
    <3> QED BY <3>1, <3>2, <3>3, <3>4 DEF UsageIsExact
  <2>2. CASE pool # "live"
    BY <1>11, <2>2 DEF RecycleBegin, UsageIsExact
  <2> QED BY <2>1, <2>2
<1>12. ASSUME NEW h \in Handles, RecycleLocked(h) PROVE UsageIsExact'
  <2>1. CASE pool = "live"
    <3>1. InUse' = InUse
      BY <1>a, <1>12, <2>1 DEF RecycleLocked, Goto, InUse
    <3> QED BY <1>12, <2>1, <3>1, <1>d DEF RecycleLocked
  <2>2. CASE pool # "live"
    BY <1>12, <2>2 DEF RecycleLocked, UsageIsExact
  <2> QED BY <2>1, <2>2
<1>13. ASSUME NEW h \in Handles, Relock(h), ~crashed PROVE UsageIsExact'
  <2>1. InUse' = InUse
    BY <1>a, <1>13 DEF Relock, Goto, InUse
  <2> QED BY <1>13, <2>1, <1>d DEF Relock
<1>14. CASE (Drain \/ Retract \/ LeaveControl) /\ ~crashed
  <2>1. UNCHANGED <<pc, node, mUsage>> /\ (pool' = "live" => pool = "live")
    BY <1>14 DEF Drain, Retract, LeaveControl
  <2> QED BY <1>14, <2>1, <1>d DEF InUse
<1>15. CASE UNCHANGED vars
  BY <1>15, <1>d DEF vars, InUse
<1> QED
  BY <1>1, <1>2, <1>3, <1>4, <1>5, <1>6, <1>7, <1>8, <1>9, <1>10, <1>11, <1>12,
     <1>13, <1>14, <1>15 DEF Next, Acquire, LetGo, Recycle

----------------------------------------------------------------------------
\* A handle stays placed when another one moves between other elements.
LEMMA PlacedOther ==
    ASSUME NEW h \in Handles, NEW g \in Handles \ {h}, Placed(g),
           \A k \in Handles \ {h} : pc'[k] = pc[k] /\ node'[k] = node[k],
           node[g] # Null =>
                /\ node[h] # node[g] /\ node'[h] # node[g]
                /\ mRefCount'[node[g]] = mRefCount[node[g]]
                /\ node[g] \notin freed' /\ node[g] \notin Queued'
    PROVE  Placed(g)'
<1>1. node'[g] = node[g] /\ pc'[g] = pc[g]
  OBVIOUS
<1>2. CASE node[g] = Null
  BY <1>1, <1>2 DEF Placed
<1>3. CASE node[g] # Null
  <2>1. Users(node[g])' = Users(node[g]) /\ h \notin Users(node[g])
    BY <1>1, <1>3 DEF Users
  <2>2. \A k \in Users(node[g]) : pc'[k] = pc[k]
    BY <2>1 DEF Users
  <2> QED BY <1>1, <1>3, <2>1, <2>2 DEF Placed
<1> QED BY <1>2, <1>3

\* Steps that move no element.
LEMMA FollowQuiet ==
    ASSUME Follow, UNCHANGED <<node, mQueue, freed>>,
           \A g \in Handles : node[g] # Null =>
                /\ pc'[g] = "held" <=> pc[g] = "held"
                /\ pc[g] = "held" => mRefCount'[node[g]] = mRefCount[node[g]]
    PROVE  Follow'
<1>1. Queued' = Queued /\ \A n : Users(n)' = Users(n)
  BY DEF Queued, Users
<1>2. ASSUME NEW g \in Handles PROVE Placed(g)'
  BY <1>1, <1>2 DEF Follow, Placed, Users
<1>3. (Queued \cap freed = {})' /\ Once(mQueue)'
  BY <1>1 DEF Follow, Once
<1> QED BY <1>2, <1>3 DEF Follow

LEMMA FollowStep == IInv /\ [Next]_vars => Follow'
<1> SUFFICES ASSUME IInv, [Next]_vars PROVE Follow'
  OBVIOUS
<1>0. TypeOK /\ Shape /\ Stages /\ Follow /\ FreshApart
  BY DEF IInv
<1>a. /\ node \in [Handles -> 0 .. created] /\ pc \in [Handles -> Labels]
      /\ DOMAIN node = Handles /\ DOMAIN mRefCount = Nodes
      /\ created \in 0 .. MaxNodes
  BY <1>0 DEF TypeOK, Labels
<1>b. \A h \in Handles : node[h] # Null => node[h] \in Nodes
  BY <1>a
<1>c. Queued = Elems(mQueue) /\ Queued' = Elems(mQueue')
  BY DEF Queued, Elems
<1>f. /\ \A g \in Handles : Placed(g)
      /\ Queued \cap freed = {} /\ Once(mQueue)
  BY <1>0 DEF Follow
<1>g. \A g \in Handles : node[g] # Null => node[g] \notin freed \cup Queued
  BY <1>f DEF Placed
<1>1. ASSUME NEW h \in Handles, AcquireQueued(h) PROVE Follow'
  <2> DEFINE n == Head(mQueue)
  <2>1. /\ mQueue' = Tail(mQueue) /\ pc[h] = "empty" /\ node[h] = Null
        /\ freed' = freed
    BY <1>0, <1>1 DEF AcquireQueued, Shape
  <2>2. mQueue \in Seq(0 .. created) /\ mQueue # <<>>
    BY <1>0, <1>1 DEF AcquireQueued, TypeOK
  <2>3. /\ n \in 0 .. created /\ Queued' = Queued \ {n} /\ Once(mQueue')
        /\ n # Null => n \in Queued
    BY <1>c, <1>f, <2>1, <2>2, TailElems
  <2>4. CASE n = Null
    <3>1. UNCHANGED <<mRefCount, pc, node>>
      BY <1>1, <2>4 DEF AcquireQueued
    <3>2. \A m : Users(m)' = Users(m)
      BY <3>1 DEF Users
    <3>3. \A g \in Handles : Placed(g)'
      BY <1>f, <2>1, <2>3, <3>1, <3>2 DEF Placed
    <3> QED BY <1>f, <2>1, <2>3, <3>3 DEF Follow
  <2>5. CASE n # Null
    <3>1. /\ mRefCount' = [mRefCount EXCEPT ![n] = 1]
          /\ pc' = [pc EXCEPT ![h] = "held"]
          /\ node' = [node EXCEPT ![h] = n]
      BY <1>1, <2>5 DEF AcquireQueued, Hold, Goto
    <3>2. Users(n) = {}
      BY <1>g, <2>3, <2>5 DEF Users
    <3>3. Placed(h)'
      <4>2. node'[h] = n /\ pc'[h] = "held"
        BY <1>a, <3>1
      <4>1. Users(node[h])' = {h}
        BY <1>a, <3>1, <3>2, <4>2 DEF Users
      <4>3. mRefCount'[n] = 1
        BY <1>a, <2>3, <2>5, <3>1
      <4>4. Cardinality({h}) = 1
        BY FS_Singleton
      <4>5. n \notin freed' /\ n \notin Queued'
        BY <1>f, <2>1, <2>3, <2>5
      <4> QED BY <4>1, <4>2, <4>3, <4>4, <4>5 DEF Placed
    <3>4. ASSUME NEW g \in Handles \ {h} PROVE Placed(g)'
      <4>1. \A k \in Handles \ {h} : pc'[k] = pc[k] /\ node'[k] = node[k]
        BY <1>a, <3>1
      <4>2. ASSUME node[g] # Null
            PROVE  /\ node[h] # node[g] /\ node'[h] # node[g]
                   /\ mRefCount'[node[g]] = mRefCount[node[g]]
                   /\ node[g] \notin freed' /\ node[g] \notin Queued'
        <5>1. node[g] # n /\ node'[h] = n
          BY <1>a, <2>3, <2>5, <1>g, <3>1, <4>2
        <5>2. mRefCount'[node[g]] = mRefCount[node[g]]
          BY <1>a, <1>b, <3>1, <4>2, <5>1
        <5> QED BY <1>g, <2>1, <2>3, <4>2, <5>1, <5>2
      <4> QED BY <1>f, <4>1, <4>2, PlacedOther
    <3> QED BY <1>f, <2>1, <2>3, <3>3, <3>4 DEF Follow
  <2> QED BY <2>4, <2>5
<1>2. ASSUME NEW h \in Handles, AcquireMiss(h) \/ GetRecycler(h) PROVE Follow'
  BY <1>0, <1>a, <1>2, FollowQuiet DEF AcquireMiss, GetRecycler, Goto
<1>3. ASSUME NEW h \in Handles, Expand(h), ~crashed PROVE Follow'
  <2>1. /\ UNCHANGED <<mRefCount, freed, mQueue>> /\ node[h] = Null
        /\ pc[h] = "expand" /\ mUsage \in Nat
    BY <1>3, Expanded DEF Expand
  <2>2. Queued' = Queued
    BY <2>1 DEF Queued
  <2>3. CASE Drop(h)
    BY <1>0, <1>a, <2>1, <2>3, FollowQuiet DEF Drop, Goto
  <2>4. CASE /\ mUsage >= 2
             /\ Goto(h, "emplace")
             /\ node' = [node EXCEPT ![h] = created + mUsage - 1]
    <3> DEFINE n == created + mUsage - 1
    <3>1. n \in Nat /\ n > created /\ n # Null
      BY <1>a, <2>1, <2>4
    <3>2. n \notin freed /\ n \notin Queued /\ \A g \in Handles : node[g] # n
      <4>1. freed \subseteq 1 .. created /\ Queued \subseteq 1 .. created
        BY <1>0, QueuedLeft DEF TypeOK
      <4>2. \A k \in 0 .. created : k # n
        BY <1>a, <3>1
      <4>3. \A g \in Handles : node[g] \in 0 .. created
        BY <1>a
      <4> HIDE DEF n
      <4> QED BY <3>1, <4>1, <4>2, <4>3
    <3>3. /\ node'[h] = n /\ pc'[h] = "emplace"
          /\ \A k \in Handles \ {h} : pc'[k] = pc[k] /\ node'[k] = node[k]
      BY <1>a, <2>4 DEF Goto
    <3>4. Placed(h)'
      <4>1. Users(node[h])' = {h}
        BY <3>2, <3>3 DEF Users
      <4> QED BY <2>1, <2>2, <3>2, <3>3, <4>1 DEF Placed
    <3>5. ASSUME NEW g \in Handles \ {h} PROVE Placed(g)'
      <4>1. node[g] # Null =>
                /\ node[h] # node[g] /\ node'[h] # node[g]
                /\ mRefCount'[node[g]] = mRefCount[node[g]]
                /\ node[g] \notin freed' /\ node[g] \notin Queued'
        BY <1>g, <2>1, <2>2, <3>2, <3>3
      <4> QED BY <1>f, <3>3, <4>1, PlacedOther
    <3> QED BY <1>f, <2>1, <2>2, <3>4, <3>5 DEF Follow
  <2> QED BY <1>3, <2>3, <2>4, Expanded
<1>4. ASSUME NEW h \in Handles, Emplace(h) PROVE Follow'
  <2>1. /\ mQueue' = mQueue \o fresh[h] /\ UNCHANGED <<node, mRefCount, freed>>
        /\ pc[h] = "emplace" /\ pc' = [pc EXCEPT ![h] = "count"]
    BY <1>4 DEF Emplace, Goto
  <2>2. /\ mQueue \in Seq(0 .. created) /\ fresh[h] \in Seq(0 .. created)
        /\ Once(mQueue) /\ Once(fresh[h])
        /\ Elems(mQueue) \cap Elems(fresh[h]) = {}
    BY <1>0, <1>c, <1>f DEF TypeOK, FreshApart
  <2>3. Queued' = Queued \cup Elems(fresh[h]) /\ Once(mQueue')
    BY <1>c, <2>1, <2>2, ConcatElems
  <2>4. /\ Elems(fresh[h]) \cap freed = {}
        /\ \A g \in Handles : node[g] \notin Elems(fresh[h])
    BY <1>0 DEF FreshApart
  <2>5. ASSUME NEW g \in Handles PROVE Placed(g)'
    <3>1. \A n : Users(n)' = Users(n)
      BY <2>1 DEF Users
    <3>2. \A k \in Handles : pc'[k] = "held" <=> pc[k] = "held"
      BY <1>a, <2>1
    <3>3. Users(node[g])' = Users(node[g]) /\ Users(node[g]) \subseteq Handles
      BY <2>1 DEF Users
    <3> QED BY <1>f, <2>1, <2>3, <2>4, <3>2, <3>3 DEF Placed
  <2> QED BY <1>f, <2>1, <2>3, <2>4, <2>5 DEF Follow
<1>5. ASSUME NEW h \in Handles, CountFresh(h) PROVE Follow'
  <2>1. /\ UNCHANGED <<mQueue, freed, node>> /\ pc[h] = "count"
        /\ pc' = [pc EXCEPT ![h] = "held"] /\ node[h] # Null
        /\ mRefCount' = [mRefCount EXCEPT ![node[h]] = 1]
    BY <1>0, <1>5 DEF CountFresh, Goto, Shape
  <2>2. Queued' = Queued
    BY <2>1 DEF Queued
  <2>3. Users(node[h]) = {h}
    BY <1>f, <2>1 DEF Placed
  <2>4. Placed(h)'
    <3>1. Users(node[h])' = {h}
      BY <2>1, <2>3 DEF Users
    <3>2. mRefCount'[node[h]] = 1 /\ pc'[h] = "held"
      BY <1>a, <1>b, <2>1
    <3>3. Cardinality({h}) = 1
      BY FS_Singleton
    <3> QED BY <1>g, <2>1, <2>2, <3>1, <3>2, <3>3 DEF Placed
  <2>5. ASSUME NEW g \in Handles \ {h} PROVE Placed(g)'
    <3>1. \A k \in Handles \ {h} : pc'[k] = pc[k] /\ node'[k] = node[k]
      BY <1>a, <2>1
    <3>2. node[g] # node[h]
      BY <2>3 DEF Users
    <3>3. node[g] # Null => mRefCount'[node[g]] = mRefCount[node[g]]
      BY <1>a, <1>b, <2>1, <3>2
    <3> QED BY <1>f, <1>g, <2>1, <2>2, <3>1, <3>2, <3>3, PlacedOther
  <2> QED BY <1>f, <2>1, <2>2, <2>4, <2>5 DEF Follow
<1>6. ASSUME NEW h \in Handles, NEW g \in Handles, Copy(h, g) PROVE Follow'
  <2> DEFINE n == node[h]
  <2>1. /\ UNCHANGED <<mQueue, freed>> /\ pc[h] = "held" /\ pc[g] = "empty"
        /\ n # Null /\ node[g] = Null
        /\ mRefCount' = [mRefCount EXCEPT ![n] = @ + 1]
        /\ pc' = [pc EXCEPT ![g] = "held"] /\ node' = [node EXCEPT ![g] = n]
    BY <1>0, <1>6 DEF Copy, Hold, Goto, Shape
  <2>2. Queued' = Queued
    BY <2>1 DEF Queued
  <2>3. /\ mRefCount[n] = Cardinality(Users(n))
        /\ \A k \in Users(n) : pc[k] = "held"
        /\ g \notin Users(n)
    BY <1>f, <2>1 DEF Placed, Users
  <2>4. \A k \in Handles \ {g} : pc'[k] = pc[k] /\ node'[k] = node[k]
    BY <1>a, <2>1
  <2>5. node'[g] = n /\ pc'[g] = "held"
    BY <1>a, <2>1
  <2>6. mRefCount'[n] = Cardinality(Users(n) \cup {g})
    <3>1. IsFiniteSet(Users(n))
      BY <1>0, Finite
    <3>2. Cardinality(Users(n) \cup {g}) = Cardinality(Users(n)) + 1
      BY <2>3, <3>1, FS_AddElement
    <3> QED BY <1>a, <1>b, <2>1, <2>3, <3>2
  <2>7. ASSUME NEW k \in Handles, node'[k] = n PROVE Placed(k)'
    <3>1. Users(node[k])' = Users(n) \cup {g}
      BY <2>4, <2>5, <2>7 DEF Users
    <3>2. pc'[k] = "held" /\ \A m \in Users(n) \cup {g} : pc'[m] = "held"
      BY <2>3, <2>4, <2>5, <2>7 DEF Users
    <3> QED BY <1>g, <2>1, <2>2, <2>6, <2>7, <3>1, <3>2 DEF Placed
  <2>8. ASSUME NEW k \in Handles, node'[k] # n PROVE Placed(k)'
    <3>1. k \in Handles \ {g} /\ node[k] # n
      BY <2>4, <2>5, <2>8
    <3>2. node[k] # Null => mRefCount'[node[k]] = mRefCount[node[k]]
      BY <1>a, <1>b, <2>1, <3>1
    <3> QED BY <1>f, <1>g, <2>1, <2>2, <2>4, <2>5, <3>1, <3>2, PlacedOther
  <2> QED BY <1>f, <2>1, <2>2, <2>7, <2>8 DEF Follow
<1>7. ASSUME NEW h \in Handles, Release(h) PROVE Follow'
  <2> DEFINE n == node[h]
  <2>1. /\ UNCHANGED <<mQueue, freed>> /\ pc[h] = "held" /\ n # Null
        /\ mRefCount' = [mRefCount EXCEPT ![n] = @ - 1]
    BY <1>0, <1>7 DEF Release, Shape
  <2>2. Queued' = Queued
    BY <2>1 DEF Queued
  <2>3. /\ mRefCount[n] = Cardinality(Users(n))
        /\ \A k \in Users(n) : pc[k] = "held"
        /\ h \in Users(n)
        /\ mRefCount[n] = 1 <=> Users(n) = {h}
    BY <1>0, <1>f, <2>1, Counted DEF Placed, Users
  <2>4. \A k \in Handles \ {h} : pc'[k] = pc[k] /\ node'[k] = node[k]
    BY <1>a, <1>7 DEF Release, Drop, Goto
  <2>5. ASSUME NEW k \in Handles \ {h}, node[k] # n PROVE Placed(k)'
    <3>1. node[k] # Null => mRefCount'[node[k]] = mRefCount[node[k]]
      BY <1>a, <1>b, <2>1, <2>5
    <3>2. node'[h] = n \/ node'[h] = Null
      BY <1>a, <1>7 DEF Release, Drop
    <3> QED BY <1>f, <1>g, <2>1, <2>2, <2>4, <2>5, <3>1, <3>2, PlacedOther
  <2>6. CASE mRefCount[n] = 1
    <3>1. node' = node /\ pc'[h] = "last"
      BY <1>a, <1>7, <2>6 DEF Release, Goto
    <3>2. Users(node[h])' = {h}
      BY <2>3, <2>6, <3>1 DEF Users
    <3>3. Placed(h)'
      BY <1>g, <2>1, <2>2, <3>1, <3>2 DEF Placed
    <3>4. ASSUME NEW k \in Handles \ {h} PROVE Placed(k)'
      BY <2>3, <2>5, <2>6 DEF Users
    <3> QED BY <1>f, <2>1, <2>2, <3>3, <3>4 DEF Follow
  <2>7. CASE mRefCount[n] # 1
    <3>1. node'[h] = Null /\ pc'[h] = "empty"
      BY <1>a, <1>7, <2>7 DEF Release, Drop, Goto
    <3>2. mRefCount'[n] = Cardinality(Users(n) \ {h})
      <4>1. IsFiniteSet(Users(n))
        BY <1>0, Finite
      <4>2. Cardinality(Users(n) \ {h}) = Cardinality(Users(n)) - 1
        BY <2>3, <4>1, FS_RemoveElement
      <4> QED BY <1>a, <1>b, <2>1, <2>3, <4>2
    <3>3. ASSUME NEW k \in Handles \ {h}, node[k] = n PROVE Placed(k)'
      <4>1. Users(node[k])' = Users(n) \ {h}
        BY <2>1, <2>4, <3>1, <3>3 DEF Users
      <4>2. pc'[k] = "held" /\ \A m \in Users(n) \ {h} : pc'[m] = "held"
        BY <2>3, <2>4, <3>3 DEF Users
      <4>3. node'[k] = n
        BY <2>4, <3>3
      <4> QED BY <1>g, <2>1, <2>2, <3>2, <4>1, <4>2, <4>3 DEF Placed
    <3>4. Placed(h)'
      BY <3>1 DEF Placed
    <3> QED BY <1>f, <2>1, <2>2, <2>5, <3>3, <3>4 DEF Follow
  <2> QED BY <2>6, <2>7
<1>8. ASSUME NEW h \in Handles, Destroy(h) PROVE Follow'
  <2>1. /\ UNCHANGED <<mQueue, mRefCount>> /\ freed' = freed \cup {node[h]}
        /\ pc[h] = "destroy" /\ node[h] # Null
        /\ node'[h] = Null
        /\ \A k \in Handles \ {h} : pc'[k] = pc[k] /\ node'[k] = node[k]
    BY <1>0, <1>a, <1>8 DEF Destroy, Drop, Goto, Shape
  <2>2. Queued' = Queued
    BY <2>1 DEF Queued
  <2>3. Users(node[h]) = {h} /\ node[h] \notin Queued
    BY <1>f, <2>1 DEF Placed
  <2>4. Placed(h)'
    BY <2>1 DEF Placed
  <2>5. ASSUME NEW g \in Handles \ {h} PROVE Placed(g)'
    <3>1. node[g] # node[h]
      BY <2>3 DEF Users
    <3> QED BY <1>f, <1>g, <2>1, <2>2, <3>1, PlacedOther
  <2> QED BY <1>f, <2>1, <2>2, <2>3, <2>4, <2>5 DEF Follow
<1>9. ASSUME NEW h \in Handles, DeleteControl(h) PROVE Follow'
  BY <1>0, <1>a, <1>9, FollowQuiet DEF DeleteControl, Goto
<1>10. ASSUME NEW h \in Handles, RecycleBegin(h) PROVE Follow'
  <2>1. /\ UNCHANGED <<node, mQueue, freed>> /\ pc[h] = "recycle"
        /\ node[h] # Null
    BY <1>0, <1>10 DEF RecycleBegin, Shape
  <2>2. Users(node[h]) = {h}
    BY <1>f, <2>1 DEF Placed
  <2>3. ASSUME NEW g \in Handles, node[g] # Null
        PROVE  /\ pc'[g] = "held" <=> pc[g] = "held"
               /\ pc[g] = "held" => mRefCount'[node[g]] = mRefCount[node[g]]
    <3>1. pc'[g] = "held" <=> pc[g] = "held"
      BY <1>a, <1>10, <2>1 DEF RecycleBegin, Goto
    <3>2. pc[g] = "held" => node[g] # node[h]
      BY <2>1, <2>2 DEF Users
    <3>3. node[g] # node[h] => mRefCount'[node[g]] = mRefCount[node[g]]
      BY <1>a, <1>b, <1>10, <2>3 DEF RecycleBegin
    <3> QED BY <3>1, <3>2, <3>3
  <2> QED BY <1>0, <2>1, <2>3, FollowQuiet
<1>11. ASSUME NEW h \in Handles, RecycleLocked(h) PROVE Follow'
  <2>1. CASE pool # "live"
    BY <1>0, <1>11, <2>1, FollowQuiet DEF RecycleLocked
  <2>2. CASE pool = "live"
    <3>1. /\ mQueue' = Append(mQueue, node[h]) /\ UNCHANGED <<freed, mRefCount>>
          /\ pc[h] = "lock" /\ node[h] # Null
          /\ node'[h] = Null
          /\ \A k \in Handles \ {h} : pc'[k] = pc[k] /\ node'[k] = node[k]
      BY <1>0, <1>a, <1>11, <2>2 DEF RecycleLocked, Goto, Shape
    <3>2. Users(node[h]) = {h} /\ node[h] \notin Queued /\ node[h] \notin freed
      BY <1>f, <3>1 DEF Placed
    <3>3. Queued' = Queued \cup {node[h]} /\ Once(mQueue')
      <4>1. mQueue \in Seq(0 .. created) /\ node[h] \in 0 .. created
        BY <1>0 DEF TypeOK
      <4>2. node[h] \notin Elems(mQueue) /\ Once(mQueue) /\ node[h] # Null
        BY <1>c, <1>f, <3>1, <3>2
      <4>3. /\ Elems(Append(mQueue, node[h])) = Elems(mQueue) \cup {node[h]}
            /\ Once(Append(mQueue, node[h]))
        BY <4>1, <4>2, AppendElems, ZenonT(60)
      <4> QED BY <1>c, <3>1, <4>3
    <3>4. Placed(h)'
      BY <3>1 DEF Placed
    <3>5. ASSUME NEW g \in Handles \ {h} PROVE Placed(g)'
      <4>1. node[g] # node[h]
        BY <3>2 DEF Users
      <4> QED BY <1>f, <1>g, <3>1, <3>3, <4>1, PlacedOther
    <3> QED BY <1>f, <3>1, <3>2, <3>3, <3>4, <3>5 DEF Follow
  <2> QED BY <2>1, <2>2
<1>12. ASSUME NEW h \in Handles, Relock(h) PROVE Follow'
  BY <1>0, <1>a, <1>12, FollowQuiet DEF Relock, Goto
<1>13. CASE Drain
  <2>1. CASE UNCHANGED <<mQueue, freed>>
    BY <1>0, <1>13, <2>1, FollowQuiet DEF Drain
  <2>2. CASE freed' = freed \cup Queued /\ mQueue' = <<>>
    <3>1. UNCHANGED <<pc, node, mRefCount>>
      BY <1>13 DEF Drain
    <3>2. Queued' = {} /\ Once(mQueue')
      BY <2>2 DEF Queued, Once
    <3>3. ASSUME NEW g \in Handles PROVE Placed(g)'
      <4>1. Users(node[g])' = Users(node[g])
        BY <3>1 DEF Users
      <4>2. node[g] # Null => node'[g] \notin freed' /\ node'[g] \notin Queued'
        BY <1>g, <2>2, <3>1, <3>2
      <4> QED BY <1>f, <3>1, <4>1, <4>2 DEF Placed
    <3> QED BY <3>2, <3>3 DEF Follow
  <2> QED BY <1>13, <2>1, <2>2 DEF Drain
<1>14. CASE Retract \/ LeaveControl \/ UNCHANGED vars
  BY <1>0, <1>14, FollowQuiet DEF Retract, LeaveControl, vars
<1> QED
  BY <1>1, <1>2, <1>3, <1>4, <1>5, <1>6, <1>7, <1>8, <1>9, <1>10, <1>11, <1>12,
     <1>13, <1>14 DEF Next, Acquire, LetGo, Recycle

LEMMA FreshStep == IInv /\ [Next]_vars => FreshApart'
<1> SUFFICES ASSUME IInv, [Next]_vars PROVE FreshApart'
  OBVIOUS
<1>0. TypeOK /\ Shape /\ Follow /\ FreshApart
  BY DEF IInv
<1>a. /\ node \in [Handles -> 0 .. created] /\ DOMAIN fresh = Handles
      /\ DOMAIN node = Handles /\ created \in 0 .. MaxNodes
  BY <1>0 DEF TypeOK
<1>c. Queued = Elems(mQueue) /\ Queued' = Elems(mQueue')
  BY DEF Queued, Elems
\* Steps after which nothing fresh is queued, destroyed or held.
<1>d. ASSUME fresh' = fresh,
             freed' \cup Queued' \subseteq
                freed \cup Queued \cup {node[k] : k \in Handles},
             \A g \in Handles : node'[g] \in {node[g], Null} \cup Queued
                                  \cup {node[k] : k \in Handles}
      PROVE  FreshApart'
  <2>1. \A h \in Handles : Null \notin Elems(fresh[h])
    BY DEF Elems
  <2> QED BY <1>0, <1>d, <2>1 DEF FreshApart
<1>1. ASSUME NEW h \in Handles, AcquireQueued(h) PROVE FreshApart'
  <2>1. mQueue \in Seq(0 .. created) /\ mQueue # <<>> /\ Once(mQueue)
    BY <1>0, <1>1 DEF AcquireQueued, TypeOK, Follow
  <2>2. /\ Queued' \subseteq Queued
        /\ Head(mQueue) # Null => Head(mQueue) \in Queued
    BY <1>c, <1>1, <2>1, TailElems DEF AcquireQueued
  <2>3. \A g \in Handles : node'[g] \in {node[g], Null} \cup Queued
    BY <1>a, <1>1, <2>2 DEF AcquireQueued, Hold
  <2> QED BY <1>1, <2>2, <2>3, <1>d DEF AcquireQueued
<1>2. ASSUME NEW h \in Handles, AcquireMiss(h) \/ GetRecycler(h) PROVE FreshApart'
  BY <1>2, <1>d DEF AcquireMiss, GetRecycler, Queued
<1>3. ASSUME NEW h \in Handles, Expand(h), ~crashed PROVE FreshApart'
  <2>1. UNCHANGED <<mQueue, freed>> /\ mUsage \in Nat /\ node[h] = Null
    BY <1>3, Expanded DEF Expand
  <2>2. Queued' = Queued
    BY <2>1 DEF Queued
  <2>3. CASE Drop(h) /\ UNCHANGED fresh
    BY <1>a, <2>1, <2>2, <2>3, <1>d DEF Drop
  <2>4. CASE /\ mUsage >= 2
             /\ node' = [node EXCEPT ![h] = created + mUsage - 1]
             /\ fresh' = [fresh EXCEPT ![h] = Batch(created, mUsage)]
    <3> DEFINE n == created + mUsage - 1
               batch == Batch(created, mUsage)
    <3>1. n \in Nat /\ n > created /\ n # Null
      BY <1>a, <2>1, <2>4
    <3>2. /\ Once(batch)
          /\ Elems(batch) \subseteq (created + 1 .. created + mUsage) \ {n}
      BY <1>a, <2>1, <2>4, BatchElems
    <3>3. ASSUME NEW m \in 0 .. created PROVE m \notin Elems(batch) /\ m # n
      BY <1>a, <3>1, <3>2
    <3>4. freed \subseteq 0 .. created /\ Queued \subseteq 0 .. created
      BY <1>0, <1>a, QueuedLeft DEF TypeOK
    <3>5. \A g \in Handles : Elems(fresh[g]) \subseteq 0 .. created
      <4> SUFFICES ASSUME NEW g \in Handles
                   PROVE  Elems(fresh[g]) \subseteq 0 .. created
        OBVIOUS
      <4>1. fresh[g] \in Seq(0 .. created)
        BY <1>0 DEF TypeOK
      <4>2. \A i \in 1 .. Len(fresh[g]) : fresh[g][i] \in 0 .. created
        BY <4>1, ElementOfSeq
      <4> QED BY <4>2 DEF Elems
    <3>6. /\ fresh'[h] = batch /\ node'[h] = n
          /\ \A g \in Handles \ {h} : fresh'[g] = fresh[g] /\ node'[g] = node[g]
      BY <1>a, <2>4
    <3>7. n \notin Elems(batch) /\ \A g \in Handles : n \notin Elems(fresh[g])
      BY <3>2, <3>3, <3>5
    <3> HIDE DEF n, batch
    <3>8. ASSUME NEW g \in Handles
          PROVE  /\ Once(fresh'[g])
                 /\ Elems(fresh'[g]) \cap (freed \cup Queued) = {}
      <4>1. CASE g = h
        BY <3>2, <3>3, <3>4, <3>6, <4>1
      <4>2. CASE g # h
        BY <1>0, <3>6, <4>2 DEF FreshApart
      <4> QED BY <4>1, <4>2
    <3>9. ASSUME NEW g \in Handles, NEW k \in Handles
          PROVE  node'[k] \notin Elems(fresh'[g])
      <4>1. CASE k = h
        BY <3>6, <3>7, <4>1
      <4>2. CASE k # h /\ g = h
        BY <1>a, <3>3, <3>6, <4>2
      <4>3. CASE k # h /\ g # h
        BY <1>0, <3>6, <4>3 DEF FreshApart
      <4> QED BY <4>1, <4>2, <4>3
    <3>10. ASSUME NEW g \in Handles, NEW k \in Handles, k # g
           PROVE  Elems(fresh'[k]) \cap Elems(fresh'[g]) = {}
      <4>1. CASE k = h
        BY <3>3, <3>5, <3>6, <3>10, <4>1
      <4>2. CASE g = h
        BY <3>3, <3>5, <3>6, <3>10, <4>2
      <4>3. CASE k # h /\ g # h
        BY <1>0, <3>6, <3>10, <4>3 DEF FreshApart
      <4> QED BY <4>1, <4>2, <4>3
    <3> QED BY <2>1, <2>2, <3>8, <3>9, <3>10 DEF FreshApart
  <2> QED BY <1>3, <2>3, <2>4, Expanded
<1>4. ASSUME NEW h \in Handles, Emplace(h) PROVE FreshApart'
  <2>1. /\ mQueue' = mQueue \o fresh[h] /\ UNCHANGED <<node, freed>>
        /\ fresh' = [fresh EXCEPT ![h] = <<>>]
    BY <1>4 DEF Emplace
  <2>2. /\ mQueue \in Seq(0 .. created) /\ fresh[h] \in Seq(0 .. created)
        /\ Once(mQueue) /\ Once(fresh[h])
        /\ Elems(mQueue) \cap Elems(fresh[h]) = {}
    BY <1>0, <1>c DEF TypeOK, FreshApart, Follow
  <2>3. Queued' = Queued \cup Elems(fresh[h])
    BY <1>c, <2>1, <2>2, ConcatElems
  <2>4. /\ fresh'[h] = <<>> /\ Elems(<<>>) = {} /\ Once(<<>>)
        /\ \A g \in Handles \ {h} : fresh'[g] = fresh[g]
    BY <1>a, <2>1 DEF Elems, Once
  <2>5. ASSUME NEW g \in Handles, g # h
        PROVE  Elems(fresh[g]) \cap (freed \cup Queued') = {}
    BY <1>0, <2>3, <2>5 DEF FreshApart
  <2> QED BY <1>0, <2>1, <2>4, <2>5 DEF FreshApart
<1>5. ASSUME NEW h \in Handles, CountFresh(h) PROVE FreshApart'
  BY <1>5, <1>d DEF CountFresh, Queued
<1>6. ASSUME NEW h \in Handles, NEW g \in Handles, Copy(h, g) PROVE FreshApart'
  BY <1>a, <1>6, <1>d DEF Copy, Hold, Queued
<1>7. ASSUME NEW h \in Handles, Release(h) PROVE FreshApart'
  BY <1>a, <1>7, <1>d DEF Release, Drop, Queued
<1>8. ASSUME NEW h \in Handles, Destroy(h) PROVE FreshApart'
  <2>1. /\ freed' = freed \cup {node[h]} /\ UNCHANGED <<fresh, mQueue>>
        /\ \A g \in Handles : node'[g] \in {node[g], Null}
    BY <1>a, <1>8 DEF Destroy, Drop
  <2>2. Queued' = Queued
    BY <2>1 DEF Queued
  <2> QED BY <2>1, <2>2, <1>d
<1>9. ASSUME NEW h \in Handles, DeleteControl(h) PROVE FreshApart'
  BY <1>9, <1>d DEF DeleteControl, Queued
<1>10. ASSUME NEW h \in Handles, RecycleBegin(h) PROVE FreshApart'
  BY <1>10, <1>d DEF RecycleBegin, Queued
<1>11. ASSUME NEW h \in Handles, RecycleLocked(h) PROVE FreshApart'
  <2>1. CASE pool # "live"
    BY <1>11, <2>1, <1>d DEF RecycleLocked, Queued
  <2>2. CASE pool = "live"
    <3>1. /\ mQueue' = Append(mQueue, node[h]) /\ UNCHANGED <<freed, fresh>>
          /\ pc[h] = "lock" /\ node[h] # Null
          /\ \A g \in Handles : node'[g] \in {node[g], Null}
      BY <1>0, <1>a, <1>11, <2>2 DEF RecycleLocked, Shape
    <3>2. Queued' = Queued \cup {node[h]}
      <4>1. mQueue \in Seq(0 .. created) /\ node[h] \in 0 .. created
        BY <1>0 DEF TypeOK
      <4>2. node[h] \notin Elems(mQueue) /\ Once(mQueue) /\ node[h] # Null
        BY <1>0, <1>c, <3>1 DEF Follow, Placed
      <4>3. Elems(Append(mQueue, node[h])) = Elems(mQueue) \cup {node[h]}
        BY <4>1, <4>2, AppendElems, ZenonT(60)
      <4> QED BY <1>c, <3>1, <4>3
    <3> QED BY <3>1, <3>2, <1>d
  <2> QED BY <2>1, <2>2
<1>12. ASSUME NEW h \in Handles, Relock(h) PROVE FreshApart'
  BY <1>12, <1>d DEF Relock, Queued
<1>13. CASE Drain
  <2>1. UNCHANGED <<node, fresh>>
    BY <1>13 DEF Drain
  <2>2. CASE UNCHANGED <<mQueue, freed>>
    BY <2>1, <2>2, <1>d DEF Queued
  <2>3. CASE freed' = freed \cup Queued /\ mQueue' = <<>>
    BY <2>1, <2>3, <1>d DEF Queued
  <2> QED BY <1>13, <2>2, <2>3 DEF Drain
<1>14. CASE Retract \/ LeaveControl \/ UNCHANGED vars
  BY <1>14, <1>d DEF Retract, LeaveControl, vars, Queued
<1> QED
  BY <1>1, <1>2, <1>3, <1>4, <1>5, <1>6, <1>7, <1>8, <1>9, <1>10, <1>11, <1>12,
     <1>13, <1>14 DEF Next, Acquire, LetGo, Recycle

----------------------------------------------------------------------------
LEMMA IInvInit == Init => IInv
<1> SUFFICES ASSUME Init PROVE IInv
  OBVIOUS
<1>1. /\ mQueue \in [1 .. Capacity -> 0 .. Capacity]
      /\ mQueue \in Seq(0 .. Capacity) /\ Len(mQueue) = Capacity
      /\ <<>> \in Seq(0 .. Capacity)
  BY DEF Init
<1>2. /\ Queued = 1 .. Capacity /\ Once(mQueue)
      /\ \A h \in Handles : Elems(fresh[h]) = {} /\ Once(fresh[h])
  BY <1>1 DEF Init, Queued, Once, Elems
<1>3. InUse = {}
  BY DEF Init, InUse
<1>4. TypeOK
  <2>1. mRefCount \in [Nodes -> Nat \cup {RECYCLED_REFERENCE_COUNT}]
    BY DEF Init
  <2>2. /\ pc \in [Handles -> {"empty", "expand", "emplace", "count", "held",
                               "last", "recycle", "destroy", "lastCtrl", "lock",
                               "relock", "blocked"}]
        /\ node \in [Handles -> 0 .. created]
        /\ fresh \in [Handles -> Seq(0 .. created)]
    BY <1>1 DEF Init
  <2>3. /\ created = Capacity /\ created \in 0 .. MaxNodes
        /\ ctrlCount \in Nat /\ freed \subseteq 1 .. created
    BY DEF Init
  <2>4. /\ mUsage \in Int /\ mQueue \in Seq(0 .. created)
        /\ writer \subseteq Handles
    BY <1>1 DEF Init
  <2>5. /\ pool \in {"live", "drained", "retracted", "gone"}
        /\ mRecycler \in BOOLEAN /\ ctrlFreed \in BOOLEAN /\ crashed \in BOOLEAN
    BY DEF Init
  <2> QED BY <2>1, <2>2, <2>3, <2>4, <2>5 DEF TypeOK
<1>5. Shape /\ Stages
  BY DEF Init, Shape, Stages
<1>6. Follow /\ FreshApart
  BY <1>2 DEF Init, Follow, Placed, FreshApart
<1>7. CtrlExact
  <2>1. (1 .. created) \ freed = 1 .. Capacity /\ Cardinality(1 .. Capacity) = Capacity
    BY FS_Interval DEF Init
  <2> QED BY <2>1 DEF Init, CtrlExact
<1>8. UsageIsExact
  BY <1>3, FS_EmptySet DEF Init, UsageIsExact
<1> QED BY <1>4, <1>5, <1>6, <1>7, <1>8 DEF IInv

LEMMA IInvStep == IInv /\ [Next]_vars => IInv'
BY TypeStep, ShapeStep, StagesStep, FollowStep, FreshStep, CtrlStep, UsageStep
   DEF IInv

THEOREM Invariance == Spec => []IInv
BY IInvInit, IInvStep, PTL DEF Spec

----------------------------------------------------------------------------
\* The state of the pool, its elements and handles is well typed in every
\* behaviour.
THEOREM TypeCorrect == Spec => []TypeOK
<1>1. IInv => TypeOK
  BY DEF IInv
<1> QED BY <1>1, Invariance, PTL

\* AcquireNode, the copies of FRecycleHandle, Release and Recycle never serve
\* an element twice, queue one that is held, or destroy one under a handle.
THEOREM ElementsAreWhereCounted == Spec => []ElementsFollowHandles
<1>1. IInv => ElementsFollowHandles
  <2> SUFFICES ASSUME IInv PROVE ElementsFollowHandles
    OBVIOUS
  <2>1. Follow
    BY DEF IInv
  <2>2. ASSUME NEW h \in Handles, node[h] # Null
        PROVE  /\ node[h] \notin freed \cup Queued
               /\ IF pc[h] = "held"
                  THEN /\ mRefCount[node[h]] = Cardinality(Of(node[h], {"held"}))
                       /\ Of(node[h], {"held"}) = {g \in Handles : node[g] = node[h]}
                  ELSE {g \in Handles : node[g] = node[h]} = {h}
    <3>1. Placed(h) /\ Users(node[h]) = {g \in Handles : node[g] = node[h]}
      BY <2>1 DEF Follow, Users
    <3>2. CASE pc[h] = "held"
      <4>1. Of(node[h], {"held"}) = Users(node[h])
        BY <2>2, <3>1, <3>2 DEF Placed, Of, Users
      <4> QED BY <2>2, <3>1, <3>2, <4>1 DEF Placed
    <3>3. CASE pc[h] # "held"
      BY <2>2, <3>1, <3>3 DEF Placed
    <3> QED BY <3>2, <3>3
  <2> QED BY <2>1, <2>2 DEF ElementsFollowHandles, Follow, Once
<1> QED BY <1>1, Invariance, PTL

\* FControlBlock is deleted after ~IRecyclerBase and the last element, by
\* whichever of them is the last to let go of it, and only by that one.
THEOREM ControlIsLast == Spec => []ControlGoesLast
<1>1. IInv => ControlGoesLast
  <2> SUFFICES ASSUME IInv PROVE ControlGoesLast
    OBVIOUS
  <2> DEFINE Left == (1 .. created) \ freed
  <2>1. TypeOK /\ CtrlExact
    BY DEF IInv
  <2>2. /\ IsFiniteSet(Left) /\ Cardinality(Left) \in Nat
        /\ Cardinality(Left) = 0 <=> Left = {}
    BY <2>1, Finite, FS_EmptySet
  <2>3. freed = 1 .. created <=> Left = {}
    BY <2>1 DEF TypeOK
  <2>4. ctrlCount = Cardinality(Left) + (IF pool = "gone" THEN 0 ELSE 1)
    BY <2>1 DEF CtrlExact
  <2>5. ctrlCount = 0 <=> pool = "gone" /\ Left = {}
    BY <2>2, <2>4
  <2> QED BY <2>1, <2>3, <2>5 DEF CtrlExact, ControlGoesLast
<1> QED BY <1>1, Invariance, PTL

\* mUsage, which AcquireNode and Recycle change in different threads, is the
\* number of elements in use while the pool is alive.
THEOREM UsageCounted == Spec => []UsageIsExact
<1>1. IInv => UsageIsExact
  BY DEF IInv
<1> QED BY <1>1, Invariance, PTL
----------------------------------------------------------------------------
\* The pool implements PackagePool.
Held == [h \in Handles |-> IF pc[h] = "held" THEN node[h] ELSE Null]

\* An element nobody has, that is not destroyed, is idle.
LEMMA NobodysIsIdle ==
    ASSUME NEW e \in 1 .. created, e \notin freed,
           \A g \in Handles : pc[g] = "held" => node[g] # e
    PROVE  e \in Packages!Idle
BY DEF Packages!Idle

\* What is queued, or in the hands of one that does not hold it yet or any
\* more, is idle.
LEMMA UnheldIsIdle ==
    ASSUME IInv
    PROVE  /\ Queued \subseteq Packages!Idle
           /\ \A h \in Handles : node[h] # Null /\ pc[h] # "held" =>
                node[h] \in Packages!Idle
<1>0. TypeOK /\ Follow
  BY DEF IInv
<1>1. ASSUME NEW e \in Queued PROVE e \in Packages!Idle
  <2>1. e \in 1 .. created
    BY <1>0, <1>1 DEF TypeOK, Queued
  <2>2. e \notin freed /\ e # Null
    BY <1>0, <1>1 DEF Follow, Queued
  <2>3. \A g \in Handles : node[g] # e
    BY <1>0, <1>1, <2>2 DEF Follow, Placed
  <2> QED BY <2>1, <2>2, <2>3, NobodysIsIdle
<1>2. ASSUME NEW h \in Handles, node[h] # Null, pc[h] # "held"
      PROVE  node[h] \in Packages!Idle
  <2>1. node[h] \in 1 .. created /\ node[h] \notin freed
    BY <1>0, <1>2, Owned
  <2>2. Users(node[h]) = {h}
    BY <1>0, <1>2 DEF Follow, Placed
  <2>3. ASSUME NEW g \in Handles, pc[g] = "held", node[g] = node[h] PROVE FALSE
    <3>1. g \in Users(node[h])
      BY <2>3 DEF Users
    <3> QED BY <1>2, <2>2, <2>3, <3>1
  <2> QED BY <2>1, <2>3, NobodysIsIdle
<1> QED BY <1>1, <1>2

LEMMA PackagesInit == Init => Packages!Init
<1> SUFFICES ASSUME Init PROVE Packages!Init
  OBVIOUS
<1>1. created \in Int /\ created <= MaxNodes
  BY DEF Init
<1>2. 1 .. created \subseteq Nodes
  BY <1>1
<1>3. /\ Held = [h \in Handles |-> Null]
      /\ freed = {} /\ pool = "live" /\ ctrlFreed = FALSE
  BY DEF Init, Held
<1> QED BY <1>2, <1>3 DEF Packages!Init, Held

\* A step that keeps what handles hold, and the pool, is no step of the
\* abstract one.
LEMMA PackagesQuiet ==
    ASSUME UNCHANGED <<created, freed, ctrlFreed>>, pool' = "live" <=> pool = "live",
           Held' = Held
    PROVE  UNCHANGED Packages!vars
<1>1. (pool = "live")' = (pool = "live") /\ (1 .. created)' = 1 .. created
  OBVIOUS
<1> QED BY <1>1 DEF Packages!vars, Held

\* One handle is on its way: it holds nothing before or after.
LEMMA HeldElsewhere ==
    ASSUME NEW h \in Handles,
           \A g \in Handles \ {h} : pc'[g] = pc[g] /\ node'[g] = node[g],
           pc[h] # "held", pc'[h] # "held"
    PROVE  Held' = Held
<1>1. ASSUME NEW g \in Handles
      PROVE  (IF pc'[g] = "held" THEN node'[g] ELSE Null)
             = IF pc[g] = "held" THEN node[g] ELSE Null
  <2>1. CASE g = h
    BY <2>1
  <2>2. CASE g # h
    BY <2>2
  <2> QED BY <2>1, <2>2
<1> QED BY <1>1 DEF Held

\* One handle holds something else than before.
LEMMA HeldChanges ==
    ASSUME NEW h \in Handles, NEW e,
           \A g \in Handles \ {h} : pc'[g] = pc[g] /\ node'[g] = node[g],
           IF pc'[h] = "held" THEN e = node'[h] ELSE e = Null
    PROVE  Held' = [Held EXCEPT ![h] = e]
<1>1. ASSUME NEW g \in Handles \ {h}
      PROVE  (IF pc'[g] = "held" THEN node'[g] ELSE Null)
             = IF pc[g] = "held" THEN node[g] ELSE Null
  OBVIOUS
<1> QED BY <1>1 DEF Held

LEMMA PackagesStep == IInv /\ [Next]_vars => [Packages!Next]_Packages!vars
<1> SUFFICES ASSUME IInv, [Next]_vars
             PROVE  Packages!Next \/ UNCHANGED Packages!vars
  OBVIOUS
<1>0. TypeOK /\ Shape /\ Stages /\ Follow /\ CtrlExact
  BY DEF IInv
<1>a. /\ node \in [Handles -> 0 .. created] /\ pc \in [Handles -> Labels]
      /\ created \in 0 .. MaxNodes
      /\ Held \in [Handles -> 0 .. created]
      /\ \A h \in Handles : Held[h] = IF pc[h] = "held" THEN node[h] ELSE Null
  BY <1>0 DEF TypeOK, Labels, Held
<1>b. \A h \in Handles : \A l, n :
        /\ pc' = [pc EXCEPT ![h] = l] => /\ pc'[h] = l
                                         /\ \A g \in Handles \ {h} : pc'[g] = pc[g]
        /\ node' = [node EXCEPT ![h] = n] => /\ node'[h] = n
                                             /\ \A g \in Handles \ {h} : node'[g] = node[g]
  BY <1>a
<1>1. ASSUME NEW h \in Handles, NEW e \in Packages!Idle, Held[h] = Null, pool = "live",
             Held' = [Held EXCEPT ![h] = e],
             UNCHANGED <<pool, created, freed, ctrlFreed>>
      PROVE  Packages!Next
  <2>1. Packages!Acquire(h)
    BY <1>1 DEF Packages!Acquire, Held
  <2> QED BY <2>1 DEF Packages!Next
<1>2. ASSUME NEW h \in Handles, AcquireQueued(h)
      PROVE  Packages!Next \/ UNCHANGED Packages!vars
  <2>1. /\ UNCHANGED <<pool, created, freed, ctrlFreed>> /\ pool = "live"
        /\ pc[h] = "empty" /\ mQueue # <<>>
    BY <1>2 DEF AcquireQueued
  <2>2. CASE Head(mQueue) = Null
    <3>1. UNCHANGED <<pc, node>>
      BY <1>2, <2>2 DEF AcquireQueued
    <3> QED BY <2>1, <3>1, PackagesQuiet DEF Held
  <2>3. CASE Head(mQueue) # Null
    <3>1. /\ pc' = [pc EXCEPT ![h] = "held"]
          /\ node' = [node EXCEPT ![h] = Head(mQueue)]
      BY <1>2, <2>3 DEF AcquireQueued, Hold, Goto
    <3>2. Head(mQueue) \in Queued
      BY <1>0, <2>1, <2>3 DEF TypeOK, Queued
    <3>5. /\ pc'[h] = "held" /\ node'[h] = Head(mQueue)
          /\ \A g \in Handles \ {h} : pc'[g] = pc[g] /\ node'[g] = node[g]
      BY <1>b, <3>1
    <3>3. Held' = [Held EXCEPT ![h] = Head(mQueue)]
      BY <3>5, HeldChanges
    <3>4. Head(mQueue) \in Packages!Idle /\ Held[h] = Null
      BY <1>a, <2>1, <3>2, UnheldIsIdle
    <3> QED BY <1>1, <2>1, <3>3, <3>4
  <2> QED BY <2>2, <2>3
<1>3. ASSUME NEW h \in Handles, AcquireMiss(h) PROVE UNCHANGED Packages!vars
  <2>1. Held' = Held
    BY <1>b, <1>3, HeldElsewhere DEF AcquireMiss, Goto
  <2> QED BY <1>3, <2>1, PackagesQuiet DEF AcquireMiss
<1>4. ASSUME ~crashed, NEW h \in Handles, Expand(h) PROVE Packages!Next
  <2>1. /\ mUsage \in Nat /\ created + mUsage <= MaxNodes
        /\ created' = created + mUsage
        /\ pool = "live" /\ UNCHANGED <<pool, freed, ctrlFreed>>
        /\ pc[h] = "expand"
        /\ \/ Drop(h)
           \/ /\ Goto(h, "emplace")
              /\ node' = [node EXCEPT ![h] = created + mUsage - 1]
    <3>1. UNCHANGED <<pool, freed, ctrlFreed>> /\ pc[h] = "expand"
      BY <1>4 DEF Expand
    <3> QED BY <1>4, <3>1, Expanded
  <2>5. pc'[h] # "held" /\ \A g \in Handles \ {h} : pc'[g] = pc[g] /\ node'[g] = node[g]
    BY <1>b, <2>1 DEF Drop, Goto
  <2>2. Held' = Held
    BY <2>1, <2>5, HeldElsewhere
  <2> DEFINE E == (created + 1) .. (created + mUsage)
  <2>3. /\ (1 .. created)' = (1 .. created) \cup E
        /\ E \in SUBSET (Nodes \ (1 .. created))
    BY <1>a, <2>1
  <2>4. Packages!Make
    BY <2>1, <2>2, <2>3 DEF Packages!Make, Held
  <2> QED BY <2>4 DEF Packages!Next
<1>5. ASSUME NEW h \in Handles, Emplace(h) PROVE UNCHANGED Packages!vars
  <2>1. Held' = Held
    BY <1>b, <1>5, HeldElsewhere DEF Emplace, Goto
  <2> QED BY <1>5, <2>1, PackagesQuiet DEF Emplace
<1>6. ASSUME NEW h \in Handles, CountFresh(h) PROVE Packages!Next
  <2>1. /\ pc[h] = "count" /\ pc' = [pc EXCEPT ![h] = "held"]
        /\ UNCHANGED <<node, pool, created, freed, ctrlFreed>>
    BY <1>6 DEF CountFresh, Goto
  <2>2. pool = "live" /\ node[h] # Null
    BY <1>0, <2>1 DEF Stages, Shape
  <2>3. node[h] \in Packages!Idle /\ Held[h] = Null
    BY <1>a, <2>1, <2>2, UnheldIsIdle
  <2>5. /\ pc'[h] = "held" /\ node'[h] = node[h]
        /\ \A g \in Handles \ {h} : pc'[g] = pc[g] /\ node'[g] = node[g]
    BY <1>b, <2>1
  <2>4. Held' = [Held EXCEPT ![h] = node[h]]
    BY <2>5, HeldChanges
  <2> QED BY <1>1, <2>1, <2>2, <2>3, <2>4
<1>7. ASSUME NEW h \in Handles, NEW g \in Handles, Copy(h, g) PROVE Packages!Next
  <2>1. /\ pc[h] = "held" /\ pc[g] = "empty"
        /\ pc' = [pc EXCEPT ![g] = "held"] /\ node' = [node EXCEPT ![g] = node[h]]
        /\ UNCHANGED <<pool, created, freed, ctrlFreed>>
    BY <1>7 DEF Copy, Hold, Goto
  <2>2. node[h] # Null /\ Held[h] = node[h] /\ Held[g] = Null
    BY <1>0, <1>a, <2>1 DEF Shape
  <2>5. /\ pc'[g] = "held" /\ node'[g] = node[h]
        /\ \A k \in Handles \ {g} : pc'[k] = pc[k] /\ node'[k] = node[k]
    BY <1>b, <2>1
  <2>3. Held' = [Held EXCEPT ![g] = node[h]]
    BY <2>5, HeldChanges
  <2>4. Packages!Copy(h, g)
    BY <2>1, <2>2, <2>3 DEF Packages!Copy, Held
  <2> QED BY <2>4 DEF Packages!Next
<1>8. ASSUME NEW h \in Handles, Release(h) PROVE Packages!Next
  <2>1. /\ pc[h] = "held" /\ UNCHANGED <<pool, created, freed, ctrlFreed>>
        /\ \/ pc' = [pc EXCEPT ![h] = "last"] /\ UNCHANGED node
           \/ pc' = [pc EXCEPT ![h] = "empty"] /\ node' = [node EXCEPT ![h] = Null]
    BY <1>8 DEF Release, Goto, Drop
  <2>2. Held[h] # Null
    BY <1>0, <1>a, <2>1 DEF Shape
  <2>5. /\ pc'[h] # "held"
        /\ \A g \in Handles \ {h} : pc'[g] = pc[g] /\ node'[g] = node[g]
    BY <1>b, <2>1
  <2>3. Held' = [Held EXCEPT ![h] = Null]
    BY <2>5, HeldChanges
  <2>4. Packages!Release(h)
    BY <2>1, <2>2, <2>3 DEF Packages!Release, Held
  <2> QED BY <2>4 DEF Packages!Next
<1>9. ASSUME NEW h \in Handles, GetRecycler(h) PROVE UNCHANGED Packages!vars
  <2>1. Held' = Held
    BY <1>b, <1>9, HeldElsewhere DEF GetRecycler, Goto
  <2> QED BY <1>9, <2>1, PackagesQuiet DEF GetRecycler
<1>10. ASSUME NEW h \in Handles, Destroy(h) PROVE Packages!Next
  <2>1. /\ pc[h] = "destroy" /\ freed' = freed \cup {node[h]}
        /\ UNCHANGED <<pool, created, ctrlFreed>>
        /\ node' = [node EXCEPT ![h] = Null]
        /\ \/ pc' = [pc EXCEPT ![h] = "lastCtrl"]
           \/ pc' = [pc EXCEPT ![h] = "empty"]
    BY <1>10 DEF Destroy, Goto, Drop
  <2>2. pool # "live" /\ node[h] # Null
    BY <1>0, <2>1 DEF Stages, Shape
  <2>3. node[h] \in Packages!Idle
    BY <2>1, <2>2, UnheldIsIdle
  <2>4. Held' = Held
    BY <1>b, <2>1, HeldElsewhere
  <2>5. Packages!Destroy
    BY <2>1, <2>2, <2>3, <2>4 DEF Packages!Destroy, Held
  <2> QED BY <2>5 DEF Packages!Next
<1>c. ctrlCount = 0 => pool = "gone" /\ freed = 1 .. created
  <2>1. /\ Cardinality((1 .. created) \ freed) \in Nat
        /\ (1 .. created) \ freed # {} => ctrlCount >= 1
        /\ pool # "gone" => ctrlCount >= 1
    BY <1>0, Finite, ControlCounted
  <2>2. freed \subseteq 1 .. created
    BY <1>0 DEF TypeOK
  <2>3. ctrlCount = 0 => pool = "gone" /\ (1 .. created) \ freed = {}
    BY <2>1
  <2>4. (1 .. created) \ freed = {} => freed = 1 .. created
    BY <2>2, ZenonT(60)
  <2> QED BY <2>3, <2>4
<1>11. ASSUME NEW h \in Handles, DeleteControl(h) PROVE Packages!Next
  <2>1. /\ pc[h] = "lastCtrl" /\ ctrlFreed' = ~mRecycler
        /\ pc' = [pc EXCEPT ![h] = "empty"]
        /\ UNCHANGED <<node, pool, created, freed>>
    BY <1>11 DEF DeleteControl, Goto
  <2>2. ctrlCount = 0 /\ ~ctrlFreed /\ ~mRecycler
    BY <1>0, <2>1 DEF CtrlExact
  <2>3. Held' = Held
    BY <1>b, <2>1, HeldElsewhere
  <2>4. Packages!End
    BY <1>c, <2>1, <2>2, <2>3 DEF Packages!End, Held
  <2> QED BY <2>4 DEF Packages!Next
<1>12. ASSUME NEW h \in Handles, RecycleBegin(h) PROVE UNCHANGED Packages!vars
  <2>1. /\ pc[h] = "recycle" /\ UNCHANGED <<node, pool, created, freed, ctrlFreed>>
        /\ UNCHANGED pc \/ pc' = [pc EXCEPT ![h] = "lock"]
    BY <1>12 DEF RecycleBegin, Goto
  <2>2. Held' = Held
    BY <1>b, <2>1, HeldElsewhere
  <2> QED BY <2>1, <2>2, PackagesQuiet
<1>13. ASSUME NEW h \in Handles, RecycleLocked(h) PROVE UNCHANGED Packages!vars
  <2>1. /\ pc[h] = "lock" /\ UNCHANGED <<pool, created, freed, ctrlFreed>>
        /\ \/ UNCHANGED <<pc, node>>
           \/ pc' = [pc EXCEPT ![h] = "relock"] /\ node' = [node EXCEPT ![h] = Null]
    BY <1>13 DEF RecycleLocked, Goto
  <2>2. Held' = Held
    BY <1>b, <2>1, HeldElsewhere
  <2> QED BY <2>1, <2>2, PackagesQuiet
<1>14. ASSUME NEW h \in Handles, Relock(h) PROVE UNCHANGED Packages!vars
  <2>1. /\ pc[h] = "relock" /\ UNCHANGED <<node, pool, created, freed, ctrlFreed>>
        /\ UNCHANGED pc \/ pc' = [pc EXCEPT ![h] = "blocked"]
    BY <1>14 DEF Relock, Goto
  <2>2. Held' = Held
    BY <1>b, <2>1, HeldElsewhere
  <2> QED BY <2>1, <2>2, PackagesQuiet
<1>15. ASSUME Drain PROVE Packages!Next \/ UNCHANGED Packages!vars
  <2>1. /\ pool = "live" /\ UNCHANGED <<pc, node, created, ctrlFreed>>
        /\ \/ UNCHANGED <<pool, freed>>
           \/ pool' = "drained" /\ freed' = freed \cup Queued
    BY <1>15 DEF Drain
  <2>2. Held' = Held
    BY <2>1 DEF Held
  <2>3. CASE UNCHANGED <<pool, freed>>
    BY <2>1, <2>2, <2>3, PackagesQuiet
  <2>4. CASE pool' = "drained" /\ freed' = freed \cup Queued
    <3>1. Queued \in SUBSET Packages!Idle
      BY UnheldIsIdle
    <3>2. Packages!Close
      BY <2>1, <2>2, <2>4, <3>1 DEF Packages!Close, Held
    <3> QED BY <3>2 DEF Packages!Next
  <2> QED BY <2>1, <2>3, <2>4
<1>16. ASSUME Retract PROVE UNCHANGED Packages!vars
  BY <1>16, PackagesQuiet DEF Retract, Held
<1>17. ASSUME LeaveControl PROVE Packages!Next \/ UNCHANGED Packages!vars
  <2>1. /\ pool = "retracted" /\ pool' = "gone"
        /\ ctrlFreed' = (ctrlCount = 1 /\ ~mRecycler)
        /\ UNCHANGED <<pc, node, created, freed>>
    BY <1>17 DEF LeaveControl
  <2>2. Held' = Held
    BY <2>1 DEF Held
  <2>3. /\ ~mRecycler
        /\ ctrlCount = Cardinality((1 .. created) \ freed) + 1
        /\ Cardinality((1 .. created) \ freed) \in Nat
    BY <1>0, <2>1, Finite DEF Stages, CtrlExact
  <2>4. ~ctrlFreed
    BY <1>0, <2>3 DEF CtrlExact
  <2>5. CASE ctrlCount = 1
    <3>1. (1 .. created) \ freed = {}
      BY <1>0, <2>3, <2>5, Finite, FS_EmptySet
    <3>2. freed = 1 .. created
      BY <1>0, <3>1 DEF TypeOK
    <3>3. Packages!End
      BY <2>1, <2>2, <2>3, <2>4, <2>5, <3>2 DEF Packages!End, Held
    <3> QED BY <3>3 DEF Packages!Next
  <2>6. CASE ctrlCount # 1
    <3>1. UNCHANGED <<created, freed, ctrlFreed>> /\ (pool' = "live" <=> pool = "live")
      BY <1>0, <2>1, <2>4, <2>6 DEF TypeOK
    <3> QED BY <2>2, <3>1, PackagesQuiet
  <2> QED BY <2>5, <2>6
<1>18. ASSUME UNCHANGED vars PROVE UNCHANGED Packages!vars
  BY <1>18, PackagesQuiet DEF vars, Held
<1> QED BY <1>2, <1>3, <1>4, <1>5, <1>6, <1>7, <1>8, <1>9, <1>10, <1>11, <1>12,
           <1>13, <1>14, <1>15, <1>16, <1>17, <1>18
        DEF Next, Acquire, LetGo, Recycle

\* Acquire, the copies, Release, Recycle and the destructors of the pool and
\* its elements, in whatever threads they run, amount to the single steps of
\* PackagePool: who is handed an element has it to itself, a copy keeps it, and
\* it is destroyed, like the control block, when nobody has it any more.
THEOREM PackagePoolImplemented == Spec => ImplementsPackages
<1>1. Init => Packages!Init
  BY PackagesInit
<1>2. IInv /\ [Next]_vars => [Packages!Next]_Packages!vars
  BY PackagesStep
<1> QED BY <1>1, <1>2, Invariance, PTL DEF Spec, ImplementsPackages, Packages!Spec
=============================================================================
