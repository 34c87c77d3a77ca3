------------------------------ MODULE ByteArray ------------------------------
(***************************************************************************)
(* FByteArray (src/base/ByteArray.cpp, ByteArray.h), a wrapper of          *)
(* std::vector<uint8_t>: cells are the bytes of its storage, whose number  *)
(* is the capacity, and size says how many of them are elements.  Reserve  *)
(* makes storage and no elements; memcpy into data() writes cells and does *)
(* not move size.                                                          *)
(*                                                                         *)
(* An object of a trivial type is the sequence of its bytes.  Writing past *)
(* the capacity is undefined: Memcpy keeps what fits, and the operators    *)
(* with "Overruns" in their name say when something does not.              *)
(***************************************************************************)
EXTENDS Naturals, Sequences

CONSTANTS Zero, Junk    \* the byte 0, and a byte nobody wrote

Array(cells, size) == [cells |-> cells, size |-> size]

Empty == Array(<<>>, 0)
OfSize(size) == Array([i \in 1 .. size |-> Zero], size)
OfBytes(bytes) == Array(bytes, Len(bytes))

\* The elements: the conversion to std::vector, and ToString.
ToString(array) == SubSeq(array.cells, 1, array.size)

Reset(array) == Empty
Clear(array) == [array EXCEPT !.size = 0]

Reserve(array, capacity) ==
    LET cells == [i \in 1 .. capacity |->
                    IF i <= array.size THEN array.cells[i] ELSE Junk]
    IN  IF capacity <= Len(array.cells) THEN array ELSE Array(cells, array.size)

Resize(array, size) ==
    LET cells == Reserve(array, size).cells
    IN  Array([i \in 1 .. Len(cells) |->
                IF array.size < i /\ i <= size THEN Zero ELSE cells[i]], size)

\* memcpy of source to data().
Memcpy(array, source) ==
    [array EXCEPT !.cells = [i \in 1 .. Len(@) |->
        IF i <= Len(source) THEN source[i] ELSE @[i]]]

FromString(array, bytes) == Memcpy(Reserve(array, Len(bytes)), bytes)

----------------------------------------------------------------------------
\* The casts.  size is that of the type, a list is one of objects of it.

CastFrom(array, object) == Memcpy(Reserve(array, Len(object)), object)
From(object) == CastFrom(Empty, object)

\* size * size bytes are copied, or for a list of pointers size objects,
\* whatever the length of the list; behind its end there is anything.
Copied(size, list) ==
    [i \in 1 .. size * size |->
        LET k == ((i - 1) \div size) + 1
        IN  IF k <= Len(list) THEN list[k][((i - 1) % size) + 1] ELSE Junk]

CastFromVector(array, size, list) ==
    Memcpy(Reserve(array, size * Len(list)), Copied(size, list))

CastFromVectorOverruns(array, size, list) ==
    size * size > Len(Reserve(array, size * Len(list)).cells)

CastToThrows(array, size) == size > array.size
CastTo(array, size) == SubSeq(array.cells, 1, size)

\* dist is a vector of objects, by their bytes.
CastToVector(array, size, dist) ==
    LET length == size * (array.size \div size)
    IN  IF length = 0 THEN dist
        ELSE Memcpy(Reserve(dist, length), SubSeq(array.cells, 1, length))

\* The same as functions on vectors.
DataToByteArray(object) == ToString(CastFrom(Empty, object))
ByteArrayToDataThrows(bytes, size) == size > Len(bytes)
ByteArrayToData(bytes, size) == SubSeq(bytes, 1, size)
VectorToByteArray(size, list) == ToString(CastFromVector(Empty, size, list))
ByteArrayToVector(bytes, size, dist) == CastToVector(OfBytes(bytes), size, dist)
=============================================================================
