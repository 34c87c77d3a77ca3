----------------------------- MODULE PacketCodec -----------------------------
(***************************************************************************)
(* FPacket (src/internal/Packet.cpp) and its codec UPacketCodec            *)
(* (src/internal/PacketCodec.cpp): a header with the announced length of   *)
(* the payload, and the payload, a byte array with a size of its own.  A   *)
(* frame is what a package is on the wire.  The header crosses it in big-  *)
(* endian order, converted by both sides, so that a frame is given by the  *)
(* values of its fields.                                                   *)
(***************************************************************************)
EXTENDS Integers, ByteArray

CONSTANT MaxLength      \* 4096 * 1024 bytes
ASSUME MaxLengthAssumption == MaxLength \in Nat

PACKET_MAGIC == 20250514
MINIMUM_PACKAGE_ID == 1001
MAXIMUM_PACKAGE_ID == 999999
LOGIN_FAILED_PACKAGE_ID == 1004
LOGIN_REPEATED_PACKAGE_ID == 1005
CLIENT_TARGET_ID == -2

----------------------------------------------------------------------------
\* FPacket.

NewPacket ==
    [magic |-> 0, id |-> 0, source |-> 0, target |-> 0, length |-> 0,
     payload |-> Empty]

OnCreate(p) == [p EXCEPT !.magic = PACKET_MAGIC]

\* What a pool does when it hands a package out.
Initial(p) ==
    [p EXCEPT !.id = MINIMUM_PACKAGE_ID - 1, !.source = -1, !.target = -1]

\* What it should do when it takes one back; IRecyclerBase never calls it.
ClearPacket(p) == [p EXCEPT !.id = 0, !.payload = Clear(@)]

ResetPacket(p) == [NewPacket EXCEPT !.payload = Reset(p.payload)]
CopyFrom(p, other) == other

IsUnused(p) == p.id = MINIMUM_PACKAGE_ID - 1
IsAvailable(p) == IsUnused(p) \/ p.id \in MINIMUM_PACKAGE_ID .. MAXIMUM_PACKAGE_ID

SetData(p, bytes) ==
    [p EXCEPT !.length = Len(bytes), !.payload = FromString(@, bytes)]
\* What a caller of RawRef() can make of the byte array, beside the header.
RawRef(p, bytes) == [p EXCEPT !.payload = OfBytes(bytes)]
SetPackageID(p, id) == [p EXCEPT !.id = id]
SetTarget(p, target) == [p EXCEPT !.target = target]

\* A package as BuildPackage gets it from a pool: made for the purpose, or
\* used before with some data, of which its length and storage remain, the
\* elements too if it was filled.
FreshPackage == Initial(OnCreate(NewPacket))
UsedPackage(bytes) == Initial(SetData(FreshPackage, bytes))
FilledPackage(bytes) == Initial(RawRef(SetData(FreshPackage, bytes), bytes))

----------------------------------------------------------------------------
\* EncodeT on a stream that works: whether it writes at all, what, and whether
\* it returns true.
Encodes(p) == p.length <= MaxLength

FrameOf(p) ==
    [magic |-> p.magic, id |-> p.id, source |-> p.source, target |-> p.target,
     length |-> p.length,
     bytes |-> IF p.length = 0 THEN <<>> ELSE ToString(p.payload)]

Encoded(p) == Encodes(p) /\ (p.length > 0 => FrameOf(p).bytes # <<>>)

\* DecodeT of a frame into p: as many bytes are read as the payload has
\* elements, and these have to be as many as the header announces; if there are
\* more, the read goes on into the frames that follow.
Decode(p, frame) ==
    LET payload == Reserve(p.payload, frame.length)
        header == [p EXCEPT !.magic = frame.magic, !.id = frame.id,
                            !.source = frame.source, !.target = frame.target,
                            !.length = frame.length]
    IN  IF frame.length \in 1 .. MaxLength
        THEN [header EXCEPT !.payload =
                Memcpy(payload, SubSeq(frame.bytes, 1, payload.size))]
        ELSE header

Decoded(p, frame) ==
    \/ frame.length = 0
    \/ frame.length <= MaxLength
       /\ Reserve(p.payload, frame.length).size >= frame.length
=============================================================================
