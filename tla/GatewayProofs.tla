---------------------------- MODULE GatewayProofs ----------------------------
(***************************************************************************)
(* Proofs about the gateway's two sides.                                   *)
(*                                                                         *)
(* PlayerLogin, for any connections, keys and player ids: type             *)
(* correctness, that a login concerns the connection that asked for it     *)
(* although keys repeat, that an agent is in one map under one id, and     *)
(* that no agent ever gets a player.                                       *)
(*                                                                         *)
(* Connection, for any packages, frames and channel capacity: type         *)
(* correctness, that a connection ends closed on all sides, that nothing   *)
(* follows the last frame.                                                 *)
(*                                                                         *)
(* PlayerCache, for any maps and any settings: that CleanUp settles its    *)
(* agent and spares the others, and that a collection trims the cache to   *)
(* its limits.                                                             *)
(*                                                                         *)
(* ByteArray and PacketCodec, for any array and any package: what a cast   *)
(* writes and what it reads, and which payloads cross.                     *)
(***************************************************************************)
EXTENDS PlayerLogin, Connection, FiniteSetTheorems, TLAPS

NoPlayers == \A a \in Agents : mPlayer[a] = None

\* An agent in mAgentMap is there under its key, and has been accepted.
AgentMapAccepted ==
    \A k \in Keys : mAgentMap[k] # None =>
        KeyOf[mAgentMap[k]] = k /\ pc[mAgentMap[k]] # "none"

\* An agent in mPlayerMap is about to throw in SetUpPlayer, or has done so.
PlayerMapIsDone ==
    \A p \in Pids : mPlayerMap[p] # None =>
        pc[mPlayerMap[p]] \in {"setUp", "closed"}

LoginHasRequest == \A a \in Agents : pc[a] = "login" => request[a] # None

\* The inductive invariant.
IInv ==
    /\ TypeOK
    /\ NoPlayers
    /\ AgentMapAccepted
    /\ PlayerMapIsDone
    /\ LoginHasRequest
    /\ LoginMovesTheCaller
    /\ OneHome

USE KeyOfAssumption, NoneAssumption

LEMMA IInvInit == Init => IInv
  BY DEF Init, IInv, TypeOK, NoPlayers, AgentMapAccepted, PlayerMapIsDone,
         LoginHasRequest, LoginMovesTheCaller, OneHome, Asking, Known,
         gateway, maps

\* A step that leaves the maps and the players alone, moves at most the one
\* agent a, and moves it neither among those that ask nor out of those that are
\* done, preserves the invariant.
LEMMA QuietStep ==
    ASSUME IInv, TypeOK', UNCHANGED <<maps, mPlayer>>, NEW a \in Agents, NEW l,
           pc' = [pc EXCEPT ![a] = l], l # "none",
           l \in {"reading", "parse", "login"} => a \in Asking,
           pc[a] \in {"setUp", "closed"} => l = "closed",
           \A b \in Agents : b # a => request'[b] = request[b],
           l = "login" => request'[a] # None
    PROVE  IInv'
<1>1. NoPlayers' /\ LoginHasRequest'
  BY DEF IInv, TypeOK, NoPlayers, LoginHasRequest
<1>2. AgentMapAccepted' /\ PlayerMapIsDone'
  BY DEF IInv, TypeOK, AgentMapAccepted, PlayerMapIsDone, maps
<1>3. LoginMovesTheCaller'
  BY DEF IInv, TypeOK, LoginMovesTheCaller, Asking, Known, maps
<1>4. OneHome'
  BY DEF IInv, OneHome, Known, maps
<1> QED BY <1>1, <1>2, <1>3, <1>4 DEF IInv

\* One step per action.  Accept and LoginNew are the two that change a map.
LEMMA IInvStep == IInv /\ [Next]_vars => IInv'
<1> SUFFICES ASSUME IInv, [Next]_vars PROVE IInv'
  OBVIOUS
<1> USE DEF gateway, maps
<1>1. ASSUME NEW a \in Agents, Accept(a) \/ AcceptThrowsLate(a) PROVE IInv'
  <2>1. CASE Accept(a) /\ Known(a) # None
    <3>1. TypeOK'
      BY <2>1 DEF IInv, TypeOK, Accept, Goto
    <3> QED BY <2>1, <3>1, QuietStep DEF IInv, TypeOK, Accept, Goto
  <2>2. CASE Known(a) = None
    <3>0. PICK l \in {"reading", "closed"} : pc' = [pc EXCEPT ![a] = l]
      BY <1>1, <2>2 DEF Accept, AcceptThrowsLate, Goto
    <3>1. /\ mAgentMap' = [mAgentMap EXCEPT ![KeyOf[a]] = a]
          /\ pc[a] = "none" /\ accepting' \in BOOLEAN
          /\ UNCHANGED <<mState, mPlayerMap, mPlayer, mRecentLoginMap,
                         request, crashed>>
      BY <1>1, <2>2 DEF Accept, AcceptThrowsLate, IInv, TypeOK
    <3>2. TypeOK' /\ NoPlayers' /\ LoginHasRequest'
      BY <3>0, <3>1 DEF IInv, TypeOK, NoPlayers, LoginHasRequest
    <3>3. AgentMapAccepted'
      BY <3>0, <3>1 DEF IInv, TypeOK, AgentMapAccepted
    <3>4. PlayerMapIsDone'
      BY <3>0, <3>1 DEF IInv, TypeOK, PlayerMapIsDone
    <3>5. LoginMovesTheCaller'
      BY <3>0, <3>1, <2>2 DEF IInv, TypeOK, LoginMovesTheCaller, Asking, Known
    <3>6. \A p \in Pids : mPlayerMap[p] # a
      BY <3>1 DEF IInv, TypeOK, PlayerMapIsDone
    <3>7. OneHome'
      BY <3>1, <3>6 DEF IInv, TypeOK, OneHome, Known
    <3> QED BY <3>2, <3>3, <3>4, <3>5, <3>7 DEF IInv
  <2> QED BY <1>1, <2>1, <2>2 DEF AcceptThrowsLate
<1>2. ASSUME NEW a \in Agents, AcceptThrows(a) \/ Disconnect(a) PROVE IInv'
  <2>1. TypeOK'
    BY <1>2 DEF IInv, TypeOK, AcceptThrows, Disconnect, Goto
  <2> QED BY <1>2, <2>1, QuietStep DEF AcceptThrows, Disconnect, Goto
<1>3. ASSUME NEW a \in Agents, Request(a) PROVE IInv'
  <2>1. TypeOK' /\ (\A b \in Agents : b # a => request'[b] = request[b])
    BY <1>3 DEF IInv, TypeOK, Request, Goto
  <2> QED BY <1>3, <2>1, QuietStep DEF Request, Goto, Asking
<1>4. ASSUME NEW a \in Agents,
             ParseFails(a) \/ ParseSucceeds(a) \/ LoginStopped(a)
      PROVE  IInv'
  <2>1. TypeOK'
    BY <1>4 DEF IInv, TypeOK, ParseFails, ParseSucceeds, LoginStopped, Goto, Throw
  <2>2. CASE ParseFails(a)
    BY <2>1, <2>2, QuietStep DEF ParseFails, Goto, Throw, Asking
  <2>3. CASE ParseSucceeds(a)
    BY <2>1, <2>3, QuietStep DEF ParseSucceeds, Goto, Asking
  <2>4. CASE LoginStopped(a)
    BY <2>1, <2>4, QuietStep DEF LoginStopped, Goto, Asking
  <2> QED BY <1>4, <2>2, <2>3, <2>4
<1>5. ASSUME NEW a \in Agents, LoginNew(a) PROVE IInv'
  <2>1. /\ pc[a] = "login" /\ request[a] \in Pids
        /\ Known(a) = a
        /\ mPlayerMap[request[a]] = None
    BY <1>5 DEF IInv, TypeOK, LoginNew, LoginHasRequest, LoginMovesTheCaller, Asking
  <2>2. /\ mAgentMap' = [mAgentMap EXCEPT ![KeyOf[a]] = None]
        /\ mPlayerMap' = [mPlayerMap EXCEPT ![request[a]] = a]
        /\ pc' = [pc EXCEPT ![a] = "setUp"]
        /\ UNCHANGED <<gateway, mPlayer, mRecentLoginMap, request, crashed>>
    BY <1>5, <2>1 DEF LoginNew, Enter, Goto
  <2>3. TypeOK' /\ NoPlayers' /\ LoginHasRequest'
    BY <2>1, <2>2 DEF IInv, TypeOK, NoPlayers, LoginHasRequest
  <2>4. AgentMapAccepted' /\ PlayerMapIsDone'
    BY <2>1, <2>2 DEF IInv, TypeOK, AgentMapAccepted, PlayerMapIsDone
  <2>5. LoginMovesTheCaller'
    BY <2>1, <2>2 DEF IInv, TypeOK, LoginMovesTheCaller, Asking, Known
  <2>6. \A p \in Pids : mPlayerMap[p] # a
    BY <2>1 DEF IInv, TypeOK, PlayerMapIsDone
  <2>7. OneHome'
    BY <2>1, <2>2, <2>6 DEF IInv, TypeOK, OneHome, Known
  <2> QED BY <2>3, <2>4, <2>5, <2>7 DEF IInv
<1>6. ASSUME NEW a \in Agents, LoginRepeated(a) PROVE IInv'
  <2> DEFINE existed == mPlayerMap[request[a]]
  <2>1. existed \in Agents /\ mPlayer[existed] = None
    BY <1>6 DEF IInv, TypeOK, LoginRepeated, NoPlayers, LoginHasRequest
  <2>2. CASE KeyOf[existed] = KeyOf[a]
    <3>1. TypeOK'
      BY <1>6, <2>2 DEF IInv, TypeOK, LoginRepeated, Goto
    <3> QED BY <1>6, <2>2, <3>1, QuietStep DEF LoginRepeated, Goto, Asking
  <2>3. CASE KeyOf[existed] # KeyOf[a]
    <3>1. /\ crashed' = TRUE
          /\ UNCHANGED <<gateway, maps, mPlayer, mRecentLoginMap, pc, request>>
      BY <1>6, <2>1, <2>3 DEF LoginRepeated
    <3> QED
      BY <3>1 DEF IInv, TypeOK, NoPlayers, AgentMapAccepted, PlayerMapIsDone,
                  LoginHasRequest, LoginMovesTheCaller, OneHome, Asking, Known
  <2> QED BY <2>2, <2>3
<1>7. ASSUME NEW a \in Agents, SetUpPlayer(a) PROVE IInv'
  <2>1. mPlayer[a] = None
    BY DEF IInv, NoPlayers
  <2>2. TypeOK'
    BY <1>7, <2>1 DEF IInv, TypeOK, SetUpPlayer, Goto, Throw
  <2> QED BY <1>7, <2>1, <2>2, QuietStep DEF SetUpPlayer, Goto, Throw
<1>8. CASE SecondPasses \/ Stop \/ UNCHANGED vars
  <2>1. /\ UNCHANGED <<maps, mPlayer, pc, request>>
        /\ TypeOK'
    BY <1>8 DEF SecondPasses, Stop, vars, IInv, TypeOK
  <2> QED
    BY <2>1 DEF IInv, NoPlayers, AgentMapAccepted, PlayerMapIsDone,
                LoginHasRequest, LoginMovesTheCaller, OneHome, Asking, Known
<1> QED
  BY <1>1, <1>2, <1>3, <1>4, <1>5, <1>6, <1>7, <1>8 DEF Next, OnLogin

THEOREM Invariance == Spec => []IInv
  BY IInvInit, IInvStep, PTL DEF Spec

----------------------------------------------------------------------------
\* The state of the gateway and its agents is well typed in every behaviour.
THEOREM TypeCorrect == Spec => []TypeOK
<1>1. IInv => TypeOK
  BY DEF IInv
<1> QED BY <1>1, Invariance, PTL

\* OnLoginRequest and OnPlayerLogin look an agent up by a key that two
\* connections may have; they always find the connection that asked.
THEOREM LoginsMoveTheCaller == Spec => []LoginMovesTheCaller
<1>1. IInv => LoginMovesTheCaller
  BY DEF IInv
<1> QED BY <1>1, Invariance, PTL

\* OnPlayerLogin moves an agent from mAgentMap to mPlayerMap: it is never in
\* both, nor in mPlayerMap under two ids.
THEOREM AgentsHaveOneHome == Spec => []OneHome
<1>1. IInv => OneHome
  BY DEF IInv
<1> QED BY <1>1, Invariance, PTL

\* SetUpPlayer throws unless the agent has a player: no agent ever gets one.
THEOREM NobodyGetsAPlayer == Spec => [](\A a \in Agents : mPlayer[a] = None)
<1>1. IInv => \A a \in Agents : mPlayer[a] = None
  BY DEF IInv, NoPlayers
<1> QED BY <1>1, Invariance, PTL
----------------------------------------------------------------------------
\* ByteArray: what the casts leave in the storage of an array.

\* An array of bytes in Byte; a vector's size is within its capacity.
Arrays(Byte) ==
    {a \in [cells : Seq(Byte), size : Nat] : a.size <= Len(a.cells)}

LEMMA ArrayFields ==
    ASSUME NEW Byte, NEW a \in Arrays(Byte)
    PROVE  /\ a.cells \in Seq(Byte) /\ a.size \in Nat
           /\ Len(a.cells) \in Nat /\ a.size <= Len(a.cells)
BY DEF Arrays

LEMMA EmptyArray ==
    ASSUME NEW Byte
    PROVE  /\ Empty \in Arrays(Byte) /\ Empty.size = 0
           /\ Empty.cells = <<>> /\ Len(Empty.cells) = 0
BY DEF Arrays, Empty, Array

\* Reserve makes of a an array b that has room for n bytes, and as many
\* elements as before.
Roomy(a, b, n, Byte) ==
    /\ b \in Arrays(Byte) /\ b.size = a.size
    /\ n <= Len(b.cells)
    /\ Len(a.cells) = 0 => Len(b.cells) = n /\ \A i \in 1 .. n : b.cells[i] = Junk

LEMMA ReserveMakesRoom ==
    ASSUME NEW Byte, Junk \in Byte, NEW a \in Arrays(Byte), NEW n \in Nat
    PROVE  Roomy(a, Reserve(a, n), n, Byte)
<1>0. a.cells \in Seq(Byte) /\ a.size \in Nat /\ Len(a.cells) \in Nat /\ a.size <= Len(a.cells)
  BY ArrayFields
<1>1. CASE n <= Len(a.cells)
  <2>1. Reserve(a, n) = a
    BY <1>1 DEF Reserve
  <2>2. Len(a.cells) = 0 => n = 0
    BY <1>0, <1>1
  <2> QED BY <1>0, <1>1, <2>1, <2>2 DEF Roomy
<1>2. CASE ~(n <= Len(a.cells))
  <2> DEFINE f == [i \in 1 .. n |-> IF i <= a.size THEN a.cells[i] ELSE Junk]
  <2>1. Reserve(a, n) = [cells |-> f, size |-> a.size]
    BY <1>2 DEF Reserve, Array
  <2>2. f \in [1 .. n -> Byte]
    BY <1>0
  <2>3. Len(a.cells) = 0 => \A i \in 1 .. n : f[i] = Junk
    BY <1>0
  <2>4. f \in Seq(Byte) /\ Len(f) = n
    BY <2>2
  <2> HIDE DEF f
  <2>5. Reserve(a, n) \in Arrays(Byte)
    BY <1>0, <1>2, <2>1, <2>4 DEF Arrays
  <2> QED BY <2>1, <2>3, <2>4, <2>5 DEF Roomy
<1> QED BY <1>1, <1>2

\* Memcpy makes of a an array b with the source, as far as it fits, in front.
Overwritten(a, b, source, Byte) ==
    /\ b \in Arrays(Byte) /\ b.size = a.size
    /\ Len(b.cells) = Len(a.cells)
    /\ \A i \in 1 .. Len(a.cells) :
        b.cells[i] = IF i <= Len(source) THEN source[i] ELSE a.cells[i]

LEMMA MemcpyOverwrites ==
    ASSUME NEW Byte, NEW a \in Arrays(Byte), NEW source \in Seq(Byte)
    PROVE  Overwritten(a, Memcpy(a, source), source, Byte)
<1> DEFINE f == [i \in 1 .. Len(a.cells) |->
                    IF i <= Len(source) THEN source[i] ELSE a.cells[i]]
<1>0. a.cells \in Seq(Byte) /\ a.size \in Nat /\ Len(a.cells) \in Nat /\ a.size <= Len(a.cells)
  BY ArrayFields
<1>1. f \in [1 .. Len(a.cells) -> Byte]
  BY <1>0
<1>2. f \in Seq(Byte) /\ Len(f) = Len(a.cells)
  BY <1>0, <1>1
<1>3. \A i \in 1 .. Len(a.cells) :
        f[i] = IF i <= Len(source) THEN source[i] ELSE a.cells[i]
  OBVIOUS
<1>4. Memcpy(a, source) = [a EXCEPT !.cells = f]
  BY DEF Memcpy
<1> HIDE DEF f
<1>5. a \in [cells : Seq(Byte), size : Nat]
  BY DEF Arrays
<1>6. /\ Memcpy(a, source).cells = f /\ Memcpy(a, source).size = a.size
      /\ Memcpy(a, source) \in [cells : Seq(Byte), size : Nat]
  BY <1>2, <1>4, <1>5
<1> QED BY <1>0, <1>2, <1>3, <1>6 DEF Overwritten, Arrays

\* A cast writes the object and makes no elements.
LEMMA CastWrites ==
    ASSUME NEW Byte, Junk \in Byte, NEW a \in Arrays(Byte), NEW object \in Seq(Byte)
    PROVE  /\ CastFrom(a, object) \in Arrays(Byte)
           /\ CastFrom(a, object).size = a.size
           /\ CastTo(CastFrom(a, object), Len(object)) = object
<1> DEFINE r == Reserve(a, Len(object))
           c == CastFrom(a, object)
<1>1. Len(object) \in Nat
  OBVIOUS
<1>2. r \in Arrays(Byte) /\ r.size = a.size /\ Len(object) <= Len(r.cells)
  BY <1>1, ReserveMakesRoom DEF Roomy
<1>3. /\ c \in Arrays(Byte) /\ c.size = r.size
      /\ Len(c.cells) = Len(r.cells)
      /\ \A i \in 1 .. Len(r.cells) :
            c.cells[i] = IF i <= Len(object) THEN object[i] ELSE r.cells[i]
  BY <1>2, MemcpyOverwrites DEF Overwritten, CastFrom
<1> HIDE DEF r, c
<1>4. c.cells \in Seq(Byte) /\ Len(r.cells) \in Nat
  BY <1>2, <1>3, ArrayFields
<1>5. \A i \in 1 .. Len(object) : c.cells[i] = object[i]
  BY <1>1, <1>2, <1>3, <1>4
<1>6. SubSeq(c.cells, 1, Len(object)) = object
  <2>1. SubSeq(c.cells, 1, Len(object)) = [i \in 1 .. Len(object) |-> c.cells[i]]
    BY <1>1, <1>2, <1>3, <1>4
  <2>2. object = [i \in 1 .. Len(object) |-> object[i]]
    OBVIOUS
  <2> QED BY <1>5, <2>1, <2>2
<1> QED BY <1>2, <1>3, <1>6 DEF c, CastTo

\* What is cast into an array can be cast back if the array had as many
\* elements before, and only then: CastFromType calls reserve(), not resize().
\* Nothing comes back from a new array; an object comes back from one that was
\* resized for it; a list cast back into a new vector leaves it without
\* elements.
THEOREM CastsNeedElements ==
    ASSUME NEW Byte, Zero \in Byte, Junk \in Byte,
           NEW array \in Arrays(Byte), NEW object \in Seq(Byte), object # <<>>
    PROVE  /\ CastTo(CastFrom(array, object), Len(object)) = object
           /\ CastToThrows(CastFrom(array, object), Len(object))
                <=> array.size < Len(object)
           /\ CastToThrows(From(object), Len(object))
           /\ ByteArrayToDataThrows(DataToByteArray(object), Len(object))
           /\ ~CastToThrows(CastFrom(Resize(Empty, Len(object)), object), Len(object))
           /\ \A size \in Nat \ {0} :
                ToString(ByteArrayToVector(object, size, Empty)) = <<>>
<1>1. Len(object) \in Nat /\ Len(object) > 0 /\ array.size \in Nat
  BY ArrayFields
<1>2. Empty \in Arrays(Byte) /\ Empty.size = 0 /\ Len(Empty.cells) = 0
  BY EmptyArray
<1>3. /\ CastFrom(array, object).size = array.size
      /\ CastTo(CastFrom(array, object), Len(object)) = object
  BY CastWrites
<1>4. From(object).size = 0
  BY <1>2, CastWrites DEF From
<1>5. DataToByteArray(object) = <<>>
  BY <1>4 DEF DataToByteArray, From, ToString
<1>6. CastFrom(Resize(Empty, Len(object)), object).size = Len(object)
  <2> DEFINE c == Reserve(Empty, Len(object)).cells
             d == [i \in 1 .. Len(c) |->
                IF Empty.size < i /\ i <= Len(object) THEN Zero ELSE c[i]]
             r == Resize(Empty, Len(object))
  <2>1. c \in Seq(Byte) /\ Len(c) = Len(object)
    BY <1>1, <1>2, ReserveMakesRoom, ArrayFields DEF Roomy
  <2> HIDE DEF c
  <2>2. d \in [1 .. Len(object) -> Byte]
    BY <1>1, <2>1
  <2>3. d \in Seq(Byte) /\ Len(d) = Len(object)
    BY <1>1, <2>2
  <2>4. r = [cells |-> d, size |-> Len(object)]
    BY DEF Resize, Array, c
  <2> HIDE DEF d, r
  <2>5. r \in Arrays(Byte) /\ r.size = Len(object)
    BY <1>1, <2>3, <2>4 DEF Arrays
  <2> QED BY <2>5, CastWrites DEF r
<1>7. ASSUME NEW size \in Nat \ {0}
      PROVE  ToString(ByteArrayToVector(object, size, Empty)) = <<>>
  <2> DEFINE n == size * (Len(object) \div size)
             part == SubSeq(object, 1, n)
             copy == Memcpy(Reserve(Empty, n), part)
  <2>1. n \in Nat /\ n <= Len(object)
    BY <1>1
  <2>2. ByteArrayToVector(object, size, Empty) = IF n = 0 THEN Empty ELSE copy
    BY DEF ByteArrayToVector, CastToVector, OfBytes, Array
  <2> HIDE DEF n
  <2>3. part \in Seq(Byte)
    BY <2>1
  <2> HIDE DEF part
  <2>4. Reserve(Empty, n) \in Arrays(Byte) /\ Reserve(Empty, n).size = 0
    BY <1>2, <2>1, ReserveMakesRoom DEF Roomy
  <2>5. copy.size = 0
    BY <2>3, <2>4, MemcpyOverwrites DEF Overwritten
  <2> HIDE DEF copy
  <2> QED BY <1>2, <2>2, <2>5 DEF ToString
<1> QED BY <1>1, <1>3, <1>4, <1>5, <1>6, <1>7 DEF CastToThrows, ByteArrayToDataThrows

LEMMA Quotients ==
    ASSUME NEW size \in Nat \ {0}, NEW j \in Nat
    PROVE  j \div size \in Nat /\ j % size \in 0 .. size - 1
<1>1. j \div size \in Nat
  OBVIOUS
<1>2. j % size \in 0 .. size - 1
  OBVIOUS
<1> QED BY <1>1, <1>2

LEMMA BelowProduct ==
    ASSUME NEW size \in Nat \ {0}, NEW n \in Nat, NEW j \in 0 .. size * n - 1
    PROVE  j \div size < n
<1> DEFINE q == j \div size
<1>1. q \in Nat /\ size * q <= j
  OBVIOUS
<1> HIDE DEF q
<1>2. q >= n => size * q >= size * n
  BY <1>1
<1>3. size * n \in Nat /\ size * q \in Nat
  BY <1>1
<1>4. q < n
  BY <1>1, <1>2, <1>3
<1> QED BY <1>4 DEF q

\* A list cast into a new array: the storage is as long as the list and holds
\* its objects, one after the other, as long as there are no more of them than
\* one has bytes; of a longer list the rest is left out, and with a shorter one
\* the copy runs past the end of the list and of the storage, because
\* size * size bytes are copied.
THEOREM ListsNeedTheirSize ==
    ASSUME NEW Byte, Junk \in Byte,
           NEW size \in Nat \ {0}, NEW list \in Seq([1 .. size -> Byte])
    PROVE  /\ Len(CastFromVector(Empty, size, list).cells) = size * Len(list)
           /\ \A i \in 1 .. size * Len(list) :
                CastFromVector(Empty, size, list).cells[i] =
                    IF i <= size * size
                    THEN list[((i - 1) \div size) + 1][((i - 1) % size) + 1]
                    ELSE Junk
           /\ CastFromVectorOverruns(Empty, size, list) <=> Len(list) < size
           /\ ToString(CastFromVector(Empty, size, list)) = <<>>
<1> DEFINE n == size * Len(list)
           m == size * size
           Byteof(i) == LET k == ((i - 1) \div size) + 1
                        IN  IF k <= Len(list) THEN list[k][((i - 1) % size) + 1]
                                              ELSE Junk
           r == Reserve(Empty, n)
           copied == Copied(size, list)
           copy == CastFromVector(Empty, size, list)
<1>1. /\ Len(list) \in Nat /\ n \in Nat /\ m \in Nat
      /\ m > n <=> Len(list) < size
  <2> DEFINE l == Len(list)
  <2>1. l \in Nat
    OBVIOUS
  <2> HIDE DEF l
  <2>2. l < size => size * l < size * size
    BY <2>1
  <2>3. l >= size => size * l >= size * size
    BY <2>1
  <2>4. size * l \in Nat /\ size * size \in Nat
    BY <2>1
  <2> QED BY <2>1, <2>2, <2>3, <2>4 DEF l
<1>2. Empty \in Arrays(Byte) /\ Empty.size = 0 /\ Len(Empty.cells) = 0
  BY EmptyArray
<1>3. ASSUME NEW i \in 1 .. m
      PROVE  /\ Byteof(i) \in Byte
             /\ i <= n => Byteof(i) =
                    list[((i - 1) \div size) + 1][((i - 1) % size) + 1]
  <2> DEFINE q == (i - 1) \div size
             o == (i - 1) % size
  <2> HIDE DEF n, m
  <2>1. i \in Nat /\ i - 1 \in Nat
    BY <1>1
  <2>2. q \in Nat /\ o \in 0 .. size - 1
    BY <2>1, Quotients
  <2>3. i <= n => q < Len(list)
    <3>1. i <= n => i - 1 \in 0 .. size * Len(list) - 1
      BY <1>1, <2>1 DEF n
    <3> QED BY <1>1, <3>1, BelowProduct
  <2>4. Byteof(i) = IF q + 1 <= Len(list) THEN list[q + 1][o + 1] ELSE Junk
    OBVIOUS
  <2> HIDE DEF q, o, Byteof
  <2>5. q + 1 <= Len(list) => list[q + 1][o + 1] \in Byte
    <3>1. q + 1 <= Len(list) => list[q + 1] \in [1 .. size -> Byte]
      BY <1>1, <2>2
    <3>2. o + 1 \in 1 .. size
      BY <2>2
    <3> QED BY <3>1, <3>2
  <2>6. i <= n => q + 1 <= Len(list)
    BY <1>1, <2>2, <2>3
  <2> QED BY <2>4, <2>5, <2>6 DEF q, o
<1>4. copied = [i \in 1 .. m |-> Byteof(i)]
  BY DEF Copied
<1> HIDE DEF Byteof, copied
<1>5. copied \in Seq(Byte) /\ Len(copied) = m
  <2> HIDE DEF m
  <2>1. copied \in [1 .. m -> Byte]
    BY <1>3, <1>4
  <2> QED BY <1>1, <2>1
<1>6. /\ r \in Arrays(Byte) /\ r.size = 0 /\ Len(r.cells) = n
      /\ \A i \in 1 .. n : r.cells[i] = Junk
  <2> HIDE DEF n
  <2> QED BY <1>1, <1>2, ReserveMakesRoom DEF Roomy
<1>7. /\ copy.size = 0
      /\ Len(copy.cells) = n
      /\ \A i \in 1 .. n : copy.cells[i] = IF i <= m THEN copied[i] ELSE r.cells[i]
  <2>1. copy = Memcpy(r, copied)
    BY DEF CastFromVector, copied
  <2> HIDE DEF n, m, r, copy
  <2>2. Overwritten(r, copy, copied, Byte)
    BY <1>5, <1>6, <2>1, MemcpyOverwrites
  <2> QED BY <1>5, <1>6, <2>2 DEF Overwritten
<1>8. ToString(copy) = <<>>
  BY <1>7 DEF ToString
<1>9. CastFromVectorOverruns(Empty, size, list) <=> m > Len(r.cells)
  BY DEF CastFromVectorOverruns
<1>10. ASSUME NEW i \in 1 .. n
       PROVE  copy.cells[i] = IF i <= m
                        THEN list[((i - 1) \div size) + 1][((i - 1) % size) + 1]
                        ELSE Junk
  <2> HIDE DEF n, m, r, copy
  <2>1. CASE i <= m
    <3>1. i \in 1 .. m /\ i <= n
      BY <1>1, <2>1
    <3> QED BY <1>3, <1>4, <1>7, <2>1, <3>1
  <2>2. CASE ~(i <= m)
    BY <1>6, <1>7, <2>2
  <2> QED BY <2>1, <2>2
<1> HIDE DEF r, copy
<1> QED BY <1>1, <1>6, <1>7, <1>8, <1>9, <1>10 DEF copy

----------------------------------------------------------------------------
\* PacketCodec: when a payload crosses.

PacketsOf(Byte) ==
    [magic : Int, id : Int, source : Int, target : Int, length : Nat,
     payload : Arrays(Byte)]

\* EncodeT and DecodeT go by the number of elements of the byte array, which
\* SetData leaves as it is.  A package with as many elements as it announces is
\* written with them, and what is read is what was written if the reader's
\* package has as many; with fewer it is refused.
THEOREM PayloadsNeedElements ==
    ASSUME NEW Byte, Junk \in Byte, NEW p \in PacketsOf(Byte), NEW q \in PacketsOf(Byte)
    PROVE  /\ \A data \in Seq(Byte) : SetData(p, data).payload.size = p.payload.size
           /\ p.length > 0 /\ p.payload.size = 0 => ~Encoded(p)
           /\ p.length \in 1 .. MaxLength /\ p.payload.size = p.length =>
                /\ Encoded(p)
                /\ Decoded(q, FrameOf(p)) <=> p.length <= q.payload.size
                /\ q.payload.size = p.length =>
                    /\ ToString(Decode(q, FrameOf(p)).payload) = ToString(p.payload)
                    /\ FrameOf(Decode(q, FrameOf(p))) = FrameOf(p)
<1>1. /\ p.payload \in Arrays(Byte) /\ q.payload \in Arrays(Byte) /\ p.length \in Nat
      /\ p.payload.size \in Nat /\ q.payload.size \in Nat
  BY ArrayFields DEF PacketsOf
<1>2. ASSUME NEW data \in Seq(Byte)
      PROVE  SetData(p, data).payload.size = p.payload.size
  <2>1. Len(data) \in Nat /\ Roomy(p.payload, Reserve(p.payload, Len(data)), Len(data), Byte)
    BY <1>1, ReserveMakesRoom
  <2>2. FromString(p.payload, data).size = p.payload.size
    BY <2>1, MemcpyOverwrites DEF Roomy, Overwritten, FromString
  <2>3. SetData(p, data).payload = FromString(p.payload, data)
    BY DEF SetData, PacketsOf
  <2> QED BY <2>2, <2>3
<1>3. ASSUME p.length > 0, p.payload.size = 0
      PROVE  ~Encoded(p)
  <2>1. ToString(p.payload) = <<>>
    BY <1>1, <1>3, ArrayFields DEF ToString
  <2> QED BY <1>1, <1>3, <2>1 DEF Encoded, FrameOf
<1>4. ASSUME p.length \in 1 .. MaxLength, p.payload.size = p.length
      PROVE  /\ Encoded(p)
             /\ Decoded(q, FrameOf(p)) <=> p.length <= q.payload.size
             /\ q.payload.size = p.length =>
                 /\ ToString(Decode(q, FrameOf(p)).payload) = ToString(p.payload)
                 /\ FrameOf(Decode(q, FrameOf(p))) = FrameOf(p)
  <2> DEFINE n == p.length
             bytes == ToString(p.payload)
             r == Reserve(q.payload, n)
  <2>1. n \in Nat /\ 1 <= n /\ n <= MaxLength
    BY <1>4, MaxLengthAssumption
  <2>2. bytes \in Seq(Byte) /\ Len(bytes) = n /\ bytes # <<>>
    <3>1. p.payload.cells \in Seq(Byte) /\ n <= Len(p.payload.cells)
      BY <1>1, <1>4, ArrayFields
    <3> HIDE DEF n
    <3> QED BY <1>4, <2>1, <3>1 DEF ToString, n
  <2>3. /\ FrameOf(p).bytes = bytes /\ FrameOf(p).length = n
        /\ FrameOf(p).magic = p.magic /\ FrameOf(p).id = p.id
        /\ FrameOf(p).source = p.source /\ FrameOf(p).target = p.target
    BY <2>1 DEF FrameOf
  <2>4. Roomy(q.payload, r, n, Byte)
    BY <1>1, <2>1, ReserveMakesRoom
  <2> HIDE DEF bytes, r
  <2>5. Encoded(p)
    BY <2>1, <2>2, <2>3 DEF Encoded, Encodes
  <2>6. Decoded(q, FrameOf(p)) <=> n <= q.payload.size
    <3>1. Reserve(q.payload, FrameOf(p).length) = r
      BY <2>3 DEF r
    <3> QED BY <1>1, <2>1, <2>3, <2>4, <3>1 DEF Decoded, Roomy
  <2>7. ASSUME q.payload.size = n
        PROVE  /\ ToString(Decode(q, FrameOf(p)).payload) = bytes
               /\ FrameOf(Decode(q, FrameOf(p))) = FrameOf(p)
    <3> DEFINE c == Memcpy(r, bytes)
               d == Decode(q, FrameOf(p))
    <3>1. r \in Arrays(Byte) /\ r.size = n /\ n <= Len(r.cells)
      BY <2>4, <2>7 DEF Roomy
    <3>2. SubSeq(bytes, 1, n) = bytes
      BY <2>1, <2>2
    <3>3. /\ d.payload = c /\ d.length = n /\ d.magic = p.magic /\ d.id = p.id
          /\ d.source = p.source /\ d.target = p.target
      <4>1. Reserve(q.payload, FrameOf(p).length) = r /\ FrameOf(p).length \in 1 .. MaxLength
        BY <1>4, <2>3 DEF r
      <4>2. PICK h : h = [q EXCEPT !.magic = FrameOf(p).magic, !.id = FrameOf(p).id,
                            !.source = FrameOf(p).source, !.target = FrameOf(p).target,
                            !.length = FrameOf(p).length]
        OBVIOUS
      <4>3. /\ h.length = n /\ h.magic = p.magic /\ h.id = p.id
            /\ h.source = p.source /\ h.target = p.target
            /\ DOMAIN h = {"magic", "id", "source", "target", "length", "payload"}
        BY <2>3, <4>2 DEF PacketsOf
      <4>4. d = [h EXCEPT !.payload = Memcpy(r, SubSeq(FrameOf(p).bytes, 1, r.size))]
        BY <4>1, <4>2 DEF Decode
      <4>5. SubSeq(FrameOf(p).bytes, 1, r.size) = bytes
        BY <2>3, <3>1, <3>2
      <4>6. d = [h EXCEPT !.payload = c]
        BY <4>4, <4>5
      <4> HIDE DEF c, d, n
      <4> QED BY <4>3, <4>6
    <3>4. /\ c \in Arrays(Byte) /\ c.size = n /\ Len(c.cells) = Len(r.cells)
          /\ \A i \in 1 .. Len(r.cells) :
                c.cells[i] = IF i <= Len(bytes) THEN bytes[i] ELSE r.cells[i]
      BY <2>2, <3>1, MemcpyOverwrites DEF Overwritten
    <3> HIDE DEF c, d, n
    <3>5. c.cells \in Seq(Byte) /\ Len(r.cells) \in Nat /\ n <= Len(c.cells)
      BY <3>1, <3>4, ArrayFields
    <3>6. \A i \in 1 .. n : c.cells[i] = bytes[i]
      BY <2>1, <2>2, <3>1, <3>4, <3>5
    <3>7. SubSeq(c.cells, 1, n) = bytes
      <4>1. SubSeq(c.cells, 1, n) = [i \in 1 .. n |-> c.cells[i]]
        BY <2>1, <3>5
      <4>2. bytes = [i \in 1 .. n |-> bytes[i]]
        BY <2>2
      <4> QED BY <3>6, <4>1, <4>2
    <3>8. ToString(d.payload) = bytes
      BY <3>3, <3>4, <3>7 DEF ToString
    <3>9. FrameOf(d) = FrameOf(p)
      BY <2>1, <3>3, <3>8 DEF FrameOf, n, bytes
    <3> QED BY <3>8, <3>9 DEF d
  <2> QED BY <2>5, <2>6, <2>7 DEF bytes
<1> QED BY <1>2, <1>3, <1>4

----------------------------------------------------------------------------
\* Connection: its end.

\* The socket and the two channels are closed together, and once any of the
\* three coroutines has ended they are, but for a watchdog that returns at once.
ClosedTogether ==
    /\ mailboxOpen = socketOpen /\ outputOpen = socketOpen
    /\ "ended" \in {reader, writer} => ~socketOpen
    /\ watchdog = "ended" /\ expires => ~socketOpen
    /\ main = "ended" => ~socketOpen
    /\ main \in {"handshake", "abandoned"} => writer = "none"

\* Whoever writes something last ends with it.
LastEndsTheWriter ==
    \A i \in 1 .. Len(sent) :
        ~sent[i].whole \/ Last(sent[i].frame) => i = Len(sent) /\ writer = "ended"

\* The inductive invariant.
ConnectionInv ==
    /\ ConnectionTypeOK
    /\ sent \in Seq([frame : {FrameOf(p) : p \in Packets}, whole : BOOLEAN])
    /\ ClosedTogether
    /\ LastEndsTheWriter

LEMMA ConnectionInvInit == ConnectionInit => ConnectionInv
  BY DEF ConnectionInit, ConnectionInv, ConnectionTypeOK, Packets, ClosedTogether,
         LastEndsTheWriter

\* A step that writes nothing.
LEMMA NothingWritten ==
    ASSUME ConnectionInv, ConnectionTypeOK', ClosedTogether',
           UNCHANGED sent, writer = "ended" => writer' = "ended"
    PROVE  ConnectionInv'
  BY DEF ConnectionInv, LastEndsTheWriter, Last

\* A step that appends a frame: nothing was last before it, and if this frame
\* is the last, or has not got through, the writer ends.
LEMMA OneWritten ==
    ASSUME ConnectionInv, ConnectionTypeOK', ClosedTogether',
           writer # "ended",
           NEW p \in Packages, NEW whole \in BOOLEAN,
           sent' = Append(sent, [frame |-> FrameOf(packet[p]), whole |-> whole]),
           ~whole \/ Last(FrameOf(packet[p])) => writer' = "ended"
    PROVE  ConnectionInv'
<1> DEFINE Frames == [frame : {FrameOf(q) : q \in Packets}, whole : BOOLEAN]
           entry == [frame |-> FrameOf(packet[p]), whole |-> whole]
<1>1. packet[p] \in Packets
  BY DEF ConnectionInv, ConnectionTypeOK
<1>2. sent \in Seq(Frames) /\ entry \in Frames
  BY <1>1 DEF ConnectionInv
<1>3. entry.frame = FrameOf(packet[p]) /\ entry.whole = whole
  OBVIOUS
<1> HIDE DEF Frames, entry
<1>4. /\ sent' \in Seq(Frames) /\ Len(sent') = Len(sent) + 1
      /\ \A i \in 1 .. Len(sent) : sent'[i] = sent[i]
      /\ sent'[Len(sent')] = entry
  BY <1>2 DEF entry
<1>5. LastEndsTheWriter'
  <2> SUFFICES ASSUME NEW i \in 1 .. Len(sent'), ~sent'[i].whole \/ Last(sent'[i].frame)
               PROVE  i = Len(sent') /\ writer' = "ended"
    BY DEF LastEndsTheWriter, Last
  <2>1. CASE i \in 1 .. Len(sent)
    BY <1>4, <2>1 DEF ConnectionInv, LastEndsTheWriter
  <2>2. CASE i = Len(sent')
    BY <1>3, <1>4, <2>2
  <2> QED BY <1>2, <1>4, <2>1, <2>2
<1> QED BY <1>4, <1>5 DEF ConnectionInv, Frames, Packets

LEMMA ConnectsKeeps ==
    ASSUME ConnectionInv, ConnectToClient
    PROVE  ConnectionInv'
<1> USE DEF coroutines, sockets, output
<1>1. UNCHANGED sent /\ (writer = "ended" => writer' = "ended")
  BY DEF ConnectToClient, Handshake, HandshakeFails, HandshakeThrows, Joined,
         ConnectionInv, ClosedTogether
<1>2. ConnectionTypeOK' /\ ClosedTogether'
  <2>1. CASE Handshake
    BY <2>1 DEF Handshake, ConnectionInv, ConnectionTypeOK, ClosedTogether, Packets
  <2>2. CASE HandshakeFails
    BY <2>2 DEF HandshakeFails, Disconnects, ConnectionInv, ConnectionTypeOK,
                ClosedTogether, Packets
  <2>3. CASE HandshakeThrows
    BY <2>3 DEF HandshakeThrows, ConnectionInv, ConnectionTypeOK, ClosedTogether,
                Packets
  <2>4. CASE Joined
    BY <2>4 DEF Joined, ConnectionInv, ConnectionTypeOK, ClosedTogether, Packets
  <2> QED BY <2>1, <2>2, <2>3, <2>4 DEF ConnectToClient
<1> QED BY <1>1, <1>2, NothingWritten

LEMMA WatchdogKeeps ==
    ASSUME ConnectionInv, Watchdog
    PROVE  ConnectionInv'
<1> USE DEF coroutines, sockets, output
<1>1. UNCHANGED <<sent, writer>>
  BY DEF Watchdog, Unlimited, Timeout, TimerCancelled
<1>2. ConnectionTypeOK' /\ ClosedTogether'
  <2>1. CASE Timeout
    BY <2>1 DEF Timeout, Disconnects, ConnectionInv, ConnectionTypeOK,
                ClosedTogether, Packets
  <2>2. CASE TimerCancelled
    BY <2>2 DEF TimerCancelled, WatchdogCancelled, ConnectionInv, ConnectionTypeOK,
                ClosedTogether, Packets
  <2>3. CASE Unlimited
    BY <2>3 DEF Unlimited, ConnectionInv, ConnectionTypeOK, ClosedTogether, Packets
  <2> QED BY <2>1, <2>2, <2>3 DEF Watchdog
<1> QED BY <1>1, <1>2, NothingWritten

LEMMA ReadsKeep ==
    ASSUME ConnectionInv, ReadPackage
    PROVE  ConnectionInv'
<1> USE DEF coroutines, sockets, output
<1>1. UNCHANGED <<sent, writer>>
  BY DEF ReadPackage, LoginReturns, LoginThrows, ReadFails, PeerCloses
<1>2. ConnectionTypeOK' /\ ClosedTogether'
  <2>1. ASSUME NEW frame \in Incoming, LoginReturns(frame)
        PROVE  ConnectionTypeOK' /\ ClosedTogether'
    BY <2>1 DEF LoginReturns, Disconnects, ConnectionInv, ConnectionTypeOK,
                ClosedTogether, Packets
  <2>2. ASSUME NEW frame \in Incoming, LoginThrows(frame)
        PROVE  ConnectionTypeOK' /\ ClosedTogether'
    BY <2>2 DEF LoginThrows, Disconnects, ConnectionInv, ConnectionTypeOK,
                ClosedTogether, Packets
  <2>3. CASE ReadFails \/ PeerCloses
    BY <2>3 DEF ReadFails, PeerCloses, Disconnects, ConnectionInv,
                ConnectionTypeOK, ClosedTogether, Packets
  <2> QED BY <2>1, <2>2, <2>3 DEF ReadPackage
<1> QED BY <1>1, <1>2, NothingWritten

LEMMA WritesKeep ==
    ASSUME ConnectionInv, WritePackage
    PROVE  ConnectionInv'
<1> USE DEF coroutines, sockets, output
<1>1. CASE Received
  <2>1. UNCHANGED sent /\ writer # "ended"
    BY <1>1 DEF Received
  <2>2. Head(mOutput) \in Packages /\ mOutput' \in Seq(Packages)
    BY <1>1 DEF Received, ConnectionInv, ConnectionTypeOK
  <2>3. \/ writer' \in {"ended", "waiting"} /\ writing' = writing
        \/ writer' = "writing" /\ \E p \in Packages : writing' = {p}
    BY <1>1, <2>2 DEF Received, WriterGoesOn
  <2>4. /\ writer = "waiting" /\ UNCHANGED <<main, reader, watchdog, spawned, packet, expires>>
        /\ \/ UNCHANGED sockets /\ (writer' = "ended" => ~socketOpen \/ ~outputOpen)
           \/ Disconnects
    BY <1>1 DEF Received, WriterGoesOn
  <2>5. ConnectionTypeOK'
    BY <2>2, <2>3, <2>4 DEF Disconnects, ConnectionInv, ConnectionTypeOK, Packets
  <2>6. ClosedTogether'
    <3>1. main \notin {"handshake", "abandoned"} /\ reader' = reader /\ watchdog' = watchdog
      BY <2>4 DEF ConnectionInv, ClosedTogether
    <3>2. CASE Disconnects
      BY <2>4, <3>1, <3>2 DEF Disconnects, ClosedTogether
    <3>3. CASE UNCHANGED sockets /\ (writer' = "ended" => ~socketOpen \/ ~outputOpen)
      BY <2>4, <3>1, <3>3 DEF ConnectionInv, ClosedTogether
    <3> QED BY <2>4, <3>2, <3>3
  <2> QED BY <2>1, <2>5, <2>6, NothingWritten
<1>2. CASE ReceiveFails
  <2>1. UNCHANGED sent /\ writer # "ended"
    BY <1>2 DEF ReceiveFails
  <2>2. ConnectionTypeOK' /\ ClosedTogether'
    BY <1>2 DEF ReceiveFails, Disconnects, ConnectionInv, ConnectionTypeOK,
                ClosedTogether, Packets
  <2> QED BY <2>1, <2>2, NothingWritten
<1>3. CASE Written
  <2>1. PICK p \in writing :
          /\ sent' = Append(sent, [frame |-> FrameOf(packet[p]), whole |-> TRUE])
          /\ IF WritesMore(p) THEN WriterGoesOn ELSE writer' = "ended" /\ Disconnects
    BY <1>3 DEF Written
  <2>2. p \in Packages
    BY <1>3 DEF Written, ConnectionInv, ConnectionTypeOK
  <2>3. Last(FrameOf(packet[p])) => writer' = "ended"
    <3>1. /\ FrameOf(packet[p]).id = packet[p].id
          /\ FrameOf(packet[p]).length = packet[p].length
      BY DEF FrameOf
    <3> QED BY <2>1, <3>1 DEF WritesMore, Encoded, Last
  <2>4. /\ \/ UNCHANGED sockets /\ (writer' = "ended" => ~socketOpen \/ ~outputOpen)
           \/ Disconnects
        /\ writer' \in {"ended", "waiting"} /\ writing' = {}
        /\ UNCHANGED <<main, reader, watchdog, output, expires>>
    BY <1>3, <2>1 DEF Written, WriterGoesOn
  <2>6. ConnectionTypeOK' /\ ClosedTogether'
    <3>1. ConnectionTypeOK'
      BY <2>4 DEF Disconnects, ConnectionInv, ConnectionTypeOK, Packets
    <3>2. main \notin {"handshake", "abandoned"}
      BY <1>3 DEF Written, ConnectionInv, ClosedTogether
    <3>3. CASE Disconnects
      BY <2>4, <3>1, <3>2, <3>3 DEF Disconnects, ClosedTogether
    <3>4. CASE UNCHANGED sockets /\ (writer' = "ended" => ~socketOpen \/ ~outputOpen)
      BY <2>4, <3>1, <3>2, <3>4 DEF ConnectionInv, ClosedTogether
    <3> QED BY <2>4, <3>3, <3>4
  <2>5. UNCHANGED packet /\ writer # "ended"
    BY <1>3 DEF Written
  <2> QED BY <2>1, <2>2, <2>3, <2>5, <2>6, OneWritten
<1>4. CASE WriteFails
  <2>1. PICK p \in writing :
          \/ sent' = Append(sent, [frame |-> FrameOf(packet[p]), whole |-> FALSE])
          \/ UNCHANGED sent
    BY <1>4 DEF WriteFails
  <2>2. p \in Packages
    BY <1>4 DEF WriteFails, ConnectionInv, ConnectionTypeOK
  <2>3. ConnectionTypeOK' /\ ClosedTogether'
    BY <1>4 DEF WriteFails, Disconnects, ConnectionInv, ConnectionTypeOK,
                ClosedTogether, Packets
  <2>4. UNCHANGED packet /\ writer # "ended" /\ writer' = "ended"
    BY <1>4 DEF WriteFails
  <2>5. CASE UNCHANGED sent
    BY <2>3, <2>4, <2>5, NothingWritten
  <2>6. CASE sent' = Append(sent, [frame |-> FrameOf(packet[p]), whole |-> FALSE])
    BY <2>2, <2>3, <2>4, <2>6, OneWritten
  <2> QED BY <2>1, <2>5, <2>6
<1> QED BY <1>1, <1>2, <1>3, <1>4 DEF WritePackage

LEMMA SendsKeep ==
    ASSUME ConnectionInv, NEW p \in Packages,
           SendPackage(p) \/ OverflowSend(p) \/ Retarget(p)
    PROVE  ConnectionInv'
<1> USE DEF coroutines, sockets, output
<1>1. /\ UNCHANGED <<main, coroutines, sockets, writing, expires, sent>>
      /\ mOutput' \in Seq(Packages) /\ spawned' \subseteq Packages
  <2>1. mOutput \in Seq(Packages) /\ spawned \subseteq Packages
    BY DEF ConnectionInv, ConnectionTypeOK
  <2>2. CASE SendPackage(p)
    BY <2>1, <2>2 DEF SendPackage
  <2>3. CASE OverflowSend(p)
    BY <2>1, <2>3 DEF OverflowSend
  <2>4. CASE Retarget(p)
    BY <2>1, <2>4 DEF Retarget
  <2> QED BY <2>2, <2>3, <2>4
<1>2. packet' \in [Packages -> Packets]
  <2>1. packet \in [Packages -> Packets]
    BY DEF ConnectionInv, ConnectionTypeOK
  <2>2. CASE SendPackage(p)
    BY <2>1, <2>2 DEF SendPackage, Packets
  <2>3. CASE OverflowSend(p)
    BY <2>1, <2>3 DEF OverflowSend
  <2>4. CASE Retarget(p)
    <3>1. packet[p] # NewPacket /\ packet' = [packet EXCEPT ![p] = SetTarget(packet[p], 0)]
      BY <2>4 DEF Retarget
    <3>2. \A q : SetTarget(SetTarget(q, 0), 0) = SetTarget(q, 0)
      BY DEF SetTarget
    <3>3. SetTarget(packet[p], 0) \in Packets
      BY <2>1, <3>1, <3>2 DEF Packets
    <3> QED BY <2>1, <3>1, <3>3
  <2> QED BY <2>2, <2>3, <2>4
<1>3. ConnectionTypeOK' /\ ClosedTogether'
  BY <1>1, <1>2 DEF ConnectionInv, ConnectionTypeOK, ClosedTogether
<1> QED BY <1>1, <1>3, NothingWritten

LEMMA ConnectionInvStep ==
    ConnectionInv /\ [ConnectionNext]_connectionVars => ConnectionInv'
<1> SUFFICES ASSUME ConnectionInv, [ConnectionNext]_connectionVars
             PROVE  ConnectionInv'
  OBVIOUS
<1>1. CASE ConnectToClient
  BY <1>1, ConnectsKeeps
<1>2. CASE WritePackage
  BY <1>2, WritesKeep
<1>3. CASE ReadPackage
  BY <1>3, ReadsKeep
<1>4. CASE Watchdog
  BY <1>4, WatchdogKeeps
<1>5. ASSUME NEW p \in Packages, SendPackage(p) \/ OverflowSend(p) \/ Retarget(p)
      PROVE  ConnectionInv'
  BY <1>5, SendsKeep
<1>6. CASE UNCHANGED connectionVars
  BY <1>6 DEF connectionVars, coroutines, sockets, output, ConnectionInv,
     ConnectionTypeOK, Packets, ClosedTogether, LastEndsTheWriter, Last
<1> QED BY <1>1, <1>2, <1>3, <1>4, <1>5, <1>6 DEF ConnectionNext

THEOREM ConnectionInvariance == ConnectionSpec => []ConnectionInv
  BY ConnectionInvInit, ConnectionInvStep, PTL DEF ConnectionSpec

\* The coroutines, channels and packages of a connection are well typed, in
\* every behaviour and whatever packages are sent.
THEOREM ConnectionTypeCorrect == ConnectionSpec => []ConnectionTypeOK
<1>1. ConnectionInv => ConnectionTypeOK
  BY DEF ConnectionInv
<1> QED BY <1>1, ConnectionInvariance, PTL

\* ConnectToClient joins ReadPackage, WritePackage and Watchdog, which end in
\* any order and for any reason: behind them the socket, mChannel and mOutput
\* are closed.
THEOREM ConnectionsEndClosed == ConnectionSpec => []EndsClosed
<1>1. ConnectionInv => EndsClosed
  BY DEF ConnectionInv, ClosedTogether, EndsClosed
<1> QED BY <1>1, ConnectionInvariance, PTL

\* WritePackage writes nothing behind a farewell, a frame that announces data
\* and carries none, or a write that failed.
THEOREM NothingIsWrittenBehindTheLast == ConnectionSpec => []NothingBehindTheLast
<1>1. ConnectionInv => NothingBehindTheLast
  <2> SUFFICES ASSUME ConnectionInv, NEW i \in 1 .. Len(sent) - 1
               PROVE  sent[i].whole /\ ~Last(sent[i].frame)
    BY DEF NothingBehindTheLast
  <2>1. Len(sent) \in Nat
    BY DEF ConnectionInv
  <2>2. i \in 1 .. Len(sent) /\ i # Len(sent)
    BY <2>1
  <2> QED BY <2>2 DEF ConnectionInv, LastEndsTheWriter
<1> QED BY <1>1, ConnectionInvariance, PTL

----------------------------------------------------------------------------
\* PlayerCache by itself, with any settings of the gateway.
CONSTANTS Running, Cachable, Keep, MaxSize
PC == INSTANCE PlayerCache

CacheRecords ==
    [mAgentMap : [Keys -> Agents \cup {None}],
     mPlayerMap : [Pids -> Agents \cup {None}],
     mPlayer : [Agents -> Pids \cup {None}],
     mCachedMap : [Pids -> Int \cup {None}],
     destroyed : Seq(Pids)]

\* Ids are numbers, and None is neither an id nor a time.
CacheAssumption ==
    Running \in BOOLEAN /\ Pids \subseteq Int /\ None \notin Int

\* Whatever maps two agents with one key have led to, CleanUp empties mAgentMap
\* under the agent's key and no other, and mPlayerMap under the id of an agent
\* that is logged in, whose player it gives to the cache or to its destructor.
THEOREM CleanUpsSettle ==
    ASSUME CacheAssumption, NEW s \in CacheRecords, s.destroyed = <<>>,
           NEW a \in Agents, NEW now \in Int
    PROVE  PC!CleanUpSettles(s, a, now) /\ PC!CleanUpSparesOthers(s, a, now)
<1> DEFINE pid == s.mPlayer[a]
<1>0. /\ s.mAgentMap \in [Keys -> Agents \cup {None}]
      /\ s.mPlayerMap \in [Pids -> Agents \cup {None}]
      /\ s.mPlayer \in [Agents -> Pids \cup {None}]
      /\ s.mCachedMap \in [Pids -> Int \cup {None}]
      /\ None \notin Agents /\ None \notin Pids /\ pid \in Pids \cup {None}
      /\ KeyOf \in [Agents -> Keys]
  BY NoneAssumption, KeyOfAssumption DEF CacheRecords
<1>1. PICK u : u = CASE pid = None -> s
                     [] a \in Cachable -> PC!RecyclePlayer(s, a, now)
                     [] OTHER -> PC!ReleasePlayer(PC!RemovePlayer(s, pid), a)
  OBVIOUS
<1>2. PICK t : t = PC!CleanUp(s, a, now)
  OBVIOUS
<1>3. t = PC!RemoveAgent(u, KeyOf[a])
  BY <1>1, <1>2 DEF PC!CleanUp
<1>4. PICK r : r = PC!RemovePlayer(s, pid)
  OBVIOUS
<1>5. Running => r = [s EXCEPT !.mPlayerMap = [@ EXCEPT ![pid] = None]]
  BY <1>4 DEF PC!RemovePlayer
<1>6. ~Running => r = s
  BY <1>4 DEF PC!RemovePlayer
<1>7. /\ r.mAgentMap = s.mAgentMap /\ r.mPlayer = s.mPlayer
      /\ r.mCachedMap = s.mCachedMap /\ r.destroyed = s.destroyed
      /\ r \in CacheRecords
  <2>1. CASE Running
    BY <1>0, <1>5, <2>1 DEF CacheRecords
  <2>2. CASE ~Running
    BY <1>6, <2>2
  <2> QED BY <2>1, <2>2, CacheAssumption DEF CacheAssumption
<1>8. /\ u.mAgentMap = s.mAgentMap
      /\ Running /\ pid # None /\ pid > 0 =>
          /\ u.mPlayerMap = [s.mPlayerMap EXCEPT ![pid] = None]
          /\ u.mPlayer = [s.mPlayer EXCEPT ![a] = None]
          /\ a \in Cachable => u.mCachedMap[pid] = now
          /\ a \notin Cachable => u.mCachedMap = s.mCachedMap /\ u.destroyed = <<pid>>
  <2>1. CASE pid = None
    <3>0. PC!RecyclePlayer(s, a, now) = s
      BY <2>1 DEF PC!RecyclePlayer
    <3>1. u = s
      BY <1>1, <2>1, <3>0
    <3> QED BY <2>1, <3>1
  <2>2. CASE pid # None /\ a \in Cachable
    <3>1. u = PC!RecyclePlayer(s, a, now)
      BY <1>1, <2>2
    <3>2. CASE Running /\ pid > 0
      <4>1. PC!GetPlayerID(s, a) = pid
        BY <2>2 DEF PC!GetPlayerID
      <4>2. u = [r EXCEPT !.mPlayer[a] = None, !.mCachedMap[pid] = now,
                          !.destroyed = IF s.mCachedMap[pid] = None THEN @ ELSE Append(@, pid)]
        BY <1>4, <2>2, <3>1, <3>2, <4>1, <1>0 DEF PC!RecyclePlayer, CacheAssumption
      <4>3. PICK v : v = [r EXCEPT !.mPlayer[a] = None]
        OBVIOUS
      <4>4. /\ v \in CacheRecords /\ v.mAgentMap = s.mAgentMap
            /\ v.mPlayerMap = r.mPlayerMap /\ v.mPlayer = [s.mPlayer EXCEPT ![a] = None]
            /\ v.mCachedMap = s.mCachedMap
        BY <1>7, <4>3, <1>0 DEF CacheRecords
      <4>5. PICK w : w = [v EXCEPT !.mCachedMap[pid] = now]
        OBVIOUS
      <4>6. /\ w \in CacheRecords /\ w.mAgentMap = s.mAgentMap
            /\ w.mPlayerMap = r.mPlayerMap /\ w.mPlayer = [s.mPlayer EXCEPT ![a] = None]
            /\ w.mCachedMap = [s.mCachedMap EXCEPT ![pid] = now]
        BY <4>4, <4>5, <1>0 DEF CacheRecords
      <4>7. u = [w EXCEPT !.destroyed = IF s.mCachedMap[pid] = None THEN @ ELSE Append(@, pid)]
        BY <4>2, <4>3, <4>5, <1>7, <4>4 DEF CacheRecords
      <4>8. /\ u.mAgentMap = s.mAgentMap
            /\ u.mPlayerMap = r.mPlayerMap /\ u.mPlayer = [s.mPlayer EXCEPT ![a] = None]
            /\ u.mCachedMap = [s.mCachedMap EXCEPT ![pid] = now]
        BY <4>6, <4>7 DEF CacheRecords
      <4>9. r.mPlayerMap = [s.mPlayerMap EXCEPT ![pid] = None]
        BY <1>5, <3>2 DEF CacheRecords
      <4> QED BY <4>8, <4>9, <2>2, <1>0
    <3>3. CASE ~(Running /\ pid > 0)
      BY <1>4, <2>2, <3>1, <3>3, <1>0 DEF PC!RecyclePlayer, PC!GetPlayerID, CacheAssumption
    <3> QED BY <3>2, <3>3
  <2>3. CASE pid # None /\ a \notin Cachable
    <3>1. u = PC!ReleasePlayer(r, a)
      BY <1>1, <1>4, <2>3
    <3>2. u = [r EXCEPT !.mPlayer[a] = None, !.destroyed = Append(@, pid)]
      BY <3>1, <1>7 DEF PC!ReleasePlayer
    <3>3. /\ u.mAgentMap = s.mAgentMap /\ u.mPlayerMap = r.mPlayerMap
          /\ u.mPlayer = [s.mPlayer EXCEPT ![a] = None]
          /\ u.mCachedMap = s.mCachedMap /\ u.destroyed = Append(<<>>, pid)
      BY <1>7, <3>2 DEF CacheRecords
    <3>4. Running => r.mPlayerMap = [s.mPlayerMap EXCEPT ![pid] = None]
      BY <1>5 DEF CacheRecords
    <3>5. Append(<<>>, pid) = <<pid>>
      OBVIOUS
    <3> QED BY <3>3, <3>4, <3>5, <2>3
  <2> QED BY <2>1, <2>2, <2>3
<1>9. /\ t.mAgentMap = IF Running THEN [s.mAgentMap EXCEPT ![KeyOf[a]] = None] ELSE s.mAgentMap
      /\ t.mPlayerMap = u.mPlayerMap /\ t.mPlayer = u.mPlayer
      /\ t.mCachedMap = u.mCachedMap /\ t.destroyed = u.destroyed
  BY <1>3, <1>8 DEF PC!RemoveAgent
<1>10. PC!CleanUpSettles(s, a, now)
  <2> SUFFICES ASSUME PC!LoggedIn(s), Running, PC!GetPlayerID(s, a) > 0
               PROVE  /\ PC!LoggedIn(t) /\ t.mPlayer[a] = None
                      /\ PC!FindPlayer(t, pid) = None
                      /\ a \in Cachable => t.mCachedMap[pid] = now
                      /\ a \notin Cachable => t.mCachedMap = s.mCachedMap
                                              /\ t.destroyed = <<pid>>
    BY <1>2, <1>9 DEF PC!CleanUpSettles
  <2>1. pid # None /\ pid > 0 /\ pid \in Pids
    BY <1>0 DEF PC!GetPlayerID
  <2>2. /\ t.mPlayerMap = [s.mPlayerMap EXCEPT ![pid] = None]
        /\ t.mPlayer = [s.mPlayer EXCEPT ![a] = None]
        /\ a \in Cachable => t.mCachedMap[pid] = now
        /\ a \notin Cachable => t.mCachedMap = s.mCachedMap /\ t.destroyed = <<pid>>
    BY <1>8, <1>9, <2>1
  <2>3. PC!LoggedIn(t)
    <3> SUFFICES ASSUME NEW b \in Agents, t.mPlayer[b] # None
                 PROVE  /\ t.mPlayerMap[t.mPlayer[b]] = b
                        /\ \A c \in Agents \ {b} : t.mPlayer[c] # t.mPlayer[b]
      BY DEF PC!LoggedIn
    <3>1. b # a /\ t.mPlayer[b] = s.mPlayer[b] /\ s.mPlayer[b] # pid /\ s.mPlayer[b] \in Pids
      BY <1>0, <2>2 DEF PC!LoggedIn
    <3>2. t.mPlayerMap[s.mPlayer[b]] = s.mPlayerMap[s.mPlayer[b]]
      BY <1>0, <2>2, <3>1
    <3>3. \A c \in Agents \ {b} : t.mPlayer[c] # t.mPlayer[b]
      BY <1>0, <2>2, <3>1 DEF PC!LoggedIn
    <3> QED BY <3>1, <3>2, <3>3 DEF PC!LoggedIn
  <2>4. PC!FindPlayer(t, pid) = None
    BY <1>0, <2>1, <2>2 DEF PC!FindPlayer
  <2> QED BY <1>0, <2>2, <2>3, <2>4
<1>11. PC!CleanUpSparesOthers(s, a, now)
  BY <1>0, <1>2, <1>9 DEF PC!CleanUpSparesOthers
<1> QED BY <1>10, <1>11

LEMMA SameCardinality == \A S : PC!Cardinality(S) = Cardinality(S)
<1> SUFFICES ASSUME NEW S PROVE PC!Cardinality(S) = Cardinality(S)
  BY Zenon
<1> QED BY DEF PC!Cardinality, Cardinality

\* A finite set as a sequence has each of its elements once.
LEMMA SetToSeqEnumerates ==
    ASSUME NEW S, IsFiniteSet(S), NEW q, q = PC!SetToSeq(S)
    PROVE  /\ q \in [1 .. Cardinality(S) -> S]
           /\ {q[i] : i \in 1 .. Cardinality(S)} = S
<1> DEFINE n == Cardinality(S)
<1>1. n \in Nat /\ ExistsBijection(1 .. n, S)
  BY FS_CardinalityType
<1>2. IsFiniteSet(1 .. n) /\ Cardinality(1 .. n) = n
  BY <1>1, FS_Interval
<1>3. PICK f : f \in Bijection(1 .. n, S)
  BY <1>1 DEF ExistsBijection
<1>4. f \in [1 .. n -> S] /\ PC!IsInjective(f)
  BY <1>3 DEF Bijection, Injection, IsInjective, PC!IsInjective
<1>5. PC!SetToSeq(S) = CHOOSE g \in [1 .. n -> S] : PC!IsInjective(g)
  BY SameCardinality DEF PC!SetToSeq
<1>6. q \in [1 .. n -> S] /\ PC!IsInjective(q)
  BY <1>4, <1>5
<1>7. q \in Injection(1 .. n, S)
  BY <1>6 DEF Injection, IsInjective, PC!IsInjective
<1>8. q \in Surjection(1 .. n, S)
  BY <1>2, <1>7, FS_Injection
<1> QED BY <1>6, <1>8 DEF Surjection

\* A finite set has subsets of every size up to its own.
LEMMA SubsetsOfASize ==
    ASSUME NEW S, IsFiniteSet(S), NEW k \in 0 .. Cardinality(S)
    PROVE  \E T \in SUBSET S : Cardinality(T) = k
<1> DEFINE n == Cardinality(S)
<1>1. n \in Nat /\ ExistsBijection(1 .. n, S)
  BY FS_CardinalityType
<1>2. PICK f : f \in Bijection(1 .. n, S)
  BY <1>1 DEF ExistsBijection
<1> DEFINE T == {f[i] : i \in 1 .. k}
           g == [i \in 1 .. k |-> f[i]]
<1>3. 1 .. k \subseteq 1 .. n
  BY <1>1
<1>4. T \subseteq S
  BY <1>2, <1>3 DEF Bijection, Injection
<1>5. g \in Bijection(1 .. k, T)
  BY <1>2, <1>3 DEF Bijection, Injection, Surjection, IsInjective
<1>6. ExistsBijection(1 .. k, T)
  BY <1>5 DEF ExistsBijection
<1> HIDE DEF T
<1>7. IsFiniteSet(1 .. k) /\ Cardinality(1 .. k) = k
  BY <1>1, FS_Interval
<1>8. Cardinality(T) = k
  BY <1>6, <1>7, FS_Bijection
<1> QED BY <1>4, <1>8

\* A round of the collection comes to an end on any cache, and drops what is too
\* old and as much of the rest as max_size asks for, each with its player.
THEOREM CollectionTrims ==
    ASSUME CacheAssumption, IsFiniteSet(Pids), MaxSize \in Int, Keep \in Int,
           NEW s \in CacheRecords, s.destroyed = <<>>, NEW point \in Int
    PROVE  PC!CollectCachedPlayer(s, point) # {} /\ PC!CollectTrims(s, point)
<1> DEFINE cached == PC!Cached(s)
           rest == {pid \in cached : point - s.mCachedMap[pid] <= Keep}
           size == IF MaxSize < 0 \/ Cardinality(rest) <= MaxSize
                   THEN Cardinality(rest) ELSE MaxSize
<1>1. /\ cached \subseteq Pids /\ IsFiniteSet(cached)
      /\ \A pid \in cached : s.mCachedMap[pid] \in Int
      /\ \A pid \in Pids \ cached : s.mCachedMap[pid] = None
  BY FS_Subset DEF PC!Cached, CacheRecords
<1>2. rest \subseteq cached /\ IsFiniteSet(rest) /\ Cardinality(rest) \in Nat
  BY <1>1, FS_Subset, FS_CardinalityType
<1>3. size \in 0 .. Cardinality(rest)
  BY <1>2
<1>4. PC!CollectCachedPlayer(s, point) =
        {[s EXCEPT !.mCachedMap = [pid \in Pids |-> IF pid \in kept THEN @[pid] ELSE None],
                   !.destroyed = @ \o PC!SetToSeq(cached \ kept)] :
            kept \in {T \in SUBSET rest : Cardinality(T) = size}}
  <2>1. \A S, k : PC!kSubset(k, S) = {T \in SUBSET S : Cardinality(T) = k}
    BY SameCardinality DEF PC!kSubset
  <2> QED BY <2>1, SameCardinality DEF PC!CollectCachedPlayer
<1>5. PC!CollectCachedPlayer(s, point) # {}
  <2>1. \E T \in SUBSET rest : Cardinality(T) = size
    <3> HIDE DEF rest, size
    <3> QED BY <1>2, <1>3, SubsetsOfASize
  <2> QED BY <1>4, <2>1
<1>6. ASSUME NEW t \in PC!CollectCachedPlayer(s, point)
      PROVE  LET gone == PC!Cached(s) \ PC!Cached(t)
                 Old(pid) == point - s.mCachedMap[pid] > Keep IN
             /\ \A pid \in PC!Cached(t) : ~Old(pid) /\ t.mCachedMap[pid] = s.mCachedMap[pid]
             /\ MaxSize >= 0 => Cardinality(PC!Cached(t)) <= MaxSize
             /\ (\E pid \in gone : ~Old(pid)) => Cardinality(PC!Cached(t)) = MaxSize
             /\ PC!ToSet(t.destroyed) = gone /\ Len(t.destroyed) = Cardinality(gone)
  <2>1. PICK kept \in SUBSET rest :
          /\ Cardinality(kept) = size
          /\ t = [s EXCEPT !.mCachedMap = [pid \in Pids |-> IF pid \in kept THEN @[pid] ELSE None],
                           !.destroyed = @ \o PC!SetToSeq(cached \ kept)]
    BY <1>4, <1>6
  <2>2. PICK q : q = PC!SetToSeq(cached \ kept)
    OBVIOUS
  <2>3. /\ t.mCachedMap = [pid \in Pids |-> IF pid \in kept THEN s.mCachedMap[pid] ELSE None]
        /\ t.destroyed = <<>> \o q
    BY <2>1, <2>2 DEF CacheRecords
  <2>4. PC!Cached(t) = kept
    BY <1>1, <1>2, <2>1, <2>3 DEF PC!Cached, CacheAssumption
  <2>5. \A pid \in kept : ~(point - s.mCachedMap[pid] > Keep)
                          /\ t.mCachedMap[pid] = s.mCachedMap[pid]
    BY <1>1, <1>2, <2>1, <2>3
  <2>6. MaxSize >= 0 => Cardinality(kept) <= MaxSize
    BY <1>2, <2>1
  <2>7. ASSUME NEW pid \in cached \ kept, ~(point - s.mCachedMap[pid] > Keep)
        PROVE  Cardinality(kept) = MaxSize
    <3>1. pid \in rest
      BY <1>1, <2>7
    <3>2. Cardinality(kept) # Cardinality(rest)
      <4> HIDE DEF rest
      <4> QED BY <1>2, <2>1, <2>7, <3>1, FS_Subset
    <3> QED BY <2>1, <3>2
  <2>8. IsFiniteSet(cached \ kept) /\ Cardinality(cached \ kept) \in Nat
    BY <1>1, FS_Difference, FS_CardinalityType
  <2> HIDE DEF cached, rest, size
  <2>a. PICK n \in Nat : n = Cardinality(cached \ kept)
    BY <2>8
  <2>b. PICK gone : gone = cached \ kept
    OBVIOUS
  <2>c. IsFiniteSet(gone) /\ q = PC!SetToSeq(gone) /\ n = Cardinality(gone)
    BY <2>2, <2>8, <2>a, <2>b
  <2>d. q \in [1 .. Cardinality(gone) -> gone] /\ {q[i] : i \in 1 .. Cardinality(gone)} = gone
    BY <2>c, SetToSeqEnumerates
  <2>9. q \in [1 .. n -> cached \ kept] /\ {q[i] : i \in 1 .. n} = cached \ kept
    BY <2>b, <2>c, <2>d
  <2>10. q \in Seq(cached \ kept) /\ Len(q) = n /\ DOMAIN q = 1 .. n
    BY <2>8, <2>9
  <2>11. t.destroyed = q
    BY <2>3, <2>10
  <2>12. PC!ToSet(t.destroyed) = cached \ kept /\ Len(t.destroyed) = n
    BY <2>9, <2>10, <2>11 DEF PC!ToSet
  <2> QED BY <2>4, <2>5, <2>6, <2>7, <2>12, <2>a DEF cached
<1>7. PC!CollectTrims(s, point)
  BY <1>6, SameCardinality DEF PC!CollectTrims
<1> QED BY <1>5, <1>7
=============================================================================
