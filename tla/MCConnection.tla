---------------------------- MODULE MCConnection ----------------------------
(***************************************************************************)
(* A small instance of Connection, and the byte array's casts over short   *)
(* objects and lists.                                                      *)
(***************************************************************************)
EXTENDS Connection

CONSTANT byte

Bytes(n) == [i \in 1 .. n |-> byte]

Sent(p, id) == SetTarget(SetPackageID(p, id), CLIENT_TARGET_ID)

\* A package that announces data (new, or left from an earlier use), one with
\* too much of it, one that was filled with more than it announces, and a
\* farewell, which is a header alone.
SomePackages ==
    {Sent(UsedPackage(Bytes(1)), 2000),
     Sent(SetData(FreshPackage, Bytes(MaxLength + 1)), 2000),
     Sent(RawRef(UsedPackage(Bytes(1)), Bytes(2)), 2000),
     Sent(FreshPackage, LOGIN_FAILED_PACKAGE_ID)}

PooledPackages == {FreshPackage, UsedPackage(Bytes(1)), FilledPackage(Bytes(1))}

\* Frames with no payload, with one, and with one too long.
SomeFrames ==
    {[magic |-> PACKET_MAGIC, id |-> 1002, source |-> 0, target |-> 0,
      length |-> n, bytes |-> Bytes(n)] : n \in 0 .. MaxLength + 1}

----------------------------------------------------------------------------
Objects(size) == {[i \in 1 .. size |-> b] : b \in {Zero, byte}}
Lists(size) == UNION {[1 .. n -> Objects(size)] : n \in 0 .. 3}
Sizes == 1 .. 3

Flat(list) == [i \in 1 .. Len(list) * Len(list[1]) |->
                 list[((i - 1) \div Len(list[1])) + 1][((i - 1) % Len(list[1])) + 1]]

\* A package that comes back from a pool announces the length of its last
\* data, though it counts as unused; so it would if the pool cleared it, and
\* only Reset, which nothing calls, forgets the length.
ASSUME LengthOutlivesData ==
    \A n \in Sizes :
        LET p == UsedPackage(Bytes(n)) IN
        /\ IsUnused(p) /\ IsAvailable(p) /\ p.length = n
        /\ ClearPacket(p).length = n /\ ~IsAvailable(ClearPacket(p))
        /\ CopyFrom(FreshPackage, p).length = n
        /\ ResetPacket(p).length = 0

\* A payload gets through from elements into as many elements; SetData and
\* Reserve make none.
ASSUME PayloadsCross ==
    \A m \in 1 .. MaxLength : \A object \in Objects(m) :
        LET frame == FrameOf(FilledPackage(object)) IN
        /\ Encoded(FilledPackage(object)) /\ frame.bytes = object
        /\ ~Encoded(UsedPackage(object))
        /\ ~Decoded(FreshPackage, frame) /\ ~Decoded(UsedPackage(object), frame)
        /\ \A n \in Sizes :
            LET p == FilledPackage(Bytes(n)) IN
            /\ Decoded(p, frame) <=> m <= n
            /\ m = n => ToString(Decode(p, frame).payload) = object

\* What is cast into a new array is not among its elements, so that nothing of
\* it can be cast back.
ASSUME NothingComesBack ==
    \A size \in Sizes : \A object \in Objects(size) :
        /\ CastToThrows(From(object), size)
        /\ ByteArrayToDataThrows(DataToByteArray(object), size)

\* Into an array of the right size, it is.
ASSUME SizedComesBack ==
    \A size \in Sizes : \A object \in Objects(size) :
        LET array == CastFrom(Resize(Empty, size), object)
        IN  ~CastToThrows(array, size) /\ CastTo(array, size) = object

\* A list is cast as a whole, and nothing else with it, only if it has as many
\* objects as one of them has bytes; a shorter one overruns.
ASSUME ListsOfTheirSize ==
    \A size \in Sizes : \A list \in Lists(size) :
        /\ CastFromVectorOverruns(Empty, size, list) <=> Len(list) < size
        /\ list # <<>> =>
            (CastFromVector(Empty, size, list).cells = Flat(list) <=> Len(list) <= size)
        /\ VectorToByteArray(size, list) = <<>>

\* A list cast back into a new vector leaves it empty.
ASSUME ListsDoNotComeBack ==
    \A size \in Sizes : \A object \in Objects(size) :
        ToString(ByteArrayToVector(object, size, Empty)) = <<>>
=============================================================================
