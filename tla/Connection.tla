----------------------------- MODULE Connection -----------------------------
(***************************************************************************)
(* A client's connection (src/gateway/PlayerAgent.cpp): after the          *)
(* handshake, ReadPackage, WritePackage and Watchdog run side by side on   *)
(* the one thread of the agent's context, joined by ||, which cancels the  *)
(* others when one of them ends.  Other threads send packages through the  *)
(* channel mOutput, which works as that of AgentChannel: a package that    *)
(* finds it full is left to a coroutine.                                   *)
(*                                                                         *)
(* An action is what a coroutine does from one co_await to the next.       *)
(* Packages and frames are those of PacketCodec; the socket, the timer and *)
(* the peer are asio's, and OnLoginRequest is PlayerLogin's: it returns or *)
(* throws.  No player is ever set up (PlayerLogin), so that every package  *)
(* read is a login request, and mReceiveTime stays what ConnectToClient    *)
(* made it.  Frames are what the reader finds from where the last read     *)
(* ended.  Behaviours are followed as long as the thread runs.             *)
(***************************************************************************)
EXTENDS PacketCodec

CONSTANTS
    Packages,       \* handles that are sent to the client, once each
    Outgoing,       \* what may be in them
    Incoming,       \* frames the client may send
    Pooled,         \* packages a pool may hand out to read into
    Capacity        \* size of mOutput (1024 in the code)

ASSUME CapacityAssumption == Capacity \in Nat \ {0}

VARIABLES
    main,           \* where the coroutine of ConnectToClient is
    reader, writer, watchdog,   \* where the three it joins are
    socketOpen, mailboxOpen,    \* the socket and mChannel
    mOutput,        \* packages in the channel
    outputOpen,
    spawned,        \* packages of SendPackage's coroutines
    packet,         \* what is in each package
    writing,        \* the package being written
    expires,        \* whether mExpiration is positive
    sent            \* history: frames written, with whether they got through

coroutines == <<reader, writer, watchdog>>
sockets == <<socketOpen, mailboxOpen, outputOpen>>
output == <<mOutput, spawned, packet>>
connectionVars == <<main, coroutines, sockets, output, writing, expires, sent>>

ConnectionInit ==
    /\ main = "handshake"
    /\ reader = "none" /\ writer = "none" /\ watchdog = "none"
    /\ socketOpen = TRUE /\ mailboxOpen = TRUE /\ outputOpen = TRUE
    /\ mOutput = <<>> /\ spawned = {}
    /\ packet = [p \in Packages |-> NewPacket]
    /\ writing = {}
    /\ expires \in BOOLEAN
    /\ sent = <<>>

\* Mutant: Disconnect leaves mOutput open.
DisconnectHalf ==
    /\ socketOpen' = FALSE /\ mailboxOpen' = FALSE
    /\ UNCHANGED outputOpen

Disconnects == socketOpen' = FALSE /\ mailboxOpen' = FALSE /\ outputOpen' = FALSE

\* What || has cancelled: ReadPackage || WritePackage, as one, || Watchdog.
ReaderCancelled == "ended" \in {writer, watchdog}
WriterCancelled == "ended" \in {reader, watchdog}
WatchdogCancelled == reader = "ended" /\ writer = "ended"

----------------------------------------------------------------------------
\* ConnectToClient.

Handshake ==
    /\ main = "handshake"
    /\ main' = "running"
    /\ reader' = "reading" /\ writer' = "waiting" /\ watchdog' = "waiting"
    /\ UNCHANGED <<sockets, output, writing, expires, sent>>

HandshakeFails ==
    /\ main = "handshake"
    /\ main' = "ended"
    /\ Disconnects
    /\ UNCHANGED <<coroutines, output, writing, expires, sent>>

\* The peer is gone: remote_endpoint(), for the log, throws past Disconnect.
HandshakeThrows ==
    /\ main = "handshake"
    /\ main' = "abandoned"
    /\ UNCHANGED <<coroutines, sockets, output, writing, expires, sent>>

Joined ==
    /\ main = "running"
    /\ reader = "ended" /\ writer = "ended" /\ watchdog = "ended"
    /\ main' = "ended"
    /\ UNCHANGED <<coroutines, sockets, output, writing, expires, sent>>

----------------------------------------------------------------------------
\* SendPackage, on any thread: into the channel, or to a coroutine if it is
\* full, or nowhere if it is closed.
SendPackage(p) ==
    /\ packet[p] = NewPacket
    /\ \E q \in Outgoing : packet' = [packet EXCEPT ![p] = q]
    /\ \/ /\ outputOpen /\ Len(mOutput) < Capacity
          /\ mOutput' = Append(mOutput, p)
          /\ UNCHANGED spawned
       \/ /\ outputOpen /\ Len(mOutput) >= Capacity
          /\ spawned' = spawned \cup {p}
          /\ UNCHANGED mOutput
       \/ ~outputOpen /\ UNCHANGED <<mOutput, spawned>>
    /\ UNCHANGED <<main, coroutines, sockets, writing, expires, sent>>

OverflowSend(p) ==
    /\ p \in spawned
    /\ spawned' = spawned \ {p}
    /\ mOutput' = IF outputOpen THEN Append(mOutput, p) ELSE mOutput
    /\ UNCHANGED <<main, coroutines, sockets, packet, writing, expires, sent>>

\* The sender still has the handle, and sends the package somewhere else.
Retarget(p) ==
    /\ packet[p] # NewPacket
    /\ packet[p].target = CLIENT_TARGET_ID
    /\ packet' = [packet EXCEPT ![p] = SetTarget(@, 0)]
    /\ UNCHANGED <<main, coroutines, sockets, mOutput, spawned, writing, expires, sent>>

----------------------------------------------------------------------------
\* WritePackage.

\* The end of a turn: the condition of the loop, and the next async_receive,
\* which throws if the coroutine has been cancelled.
WriterGoesOn ==
    IF ~socketOpen \/ ~outputOpen
    THEN writer' = "ended" /\ UNCHANGED sockets
    ELSE IF WriterCancelled
    THEN writer' = "ended" /\ Disconnects
    ELSE writer' = "waiting" /\ UNCHANGED sockets

\* Mutant: it goes on behind a farewell.
WritesOn(p) == Encoded(packet[p])

\* A package has been written as a whole, and is not the last one.
WritesMore(p) ==
    /\ Encoded(packet[p])
    /\ packet[p].id \notin {LOGIN_FAILED_PACKAGE_ID, LOGIN_REPEATED_PACKAGE_ID}

Received ==
    /\ writer = "waiting"
    /\ mOutput # <<>>
    /\ mOutput' = Tail(mOutput)
    /\ LET p == Head(mOutput) IN
       \/ /\ packet[p].target # CLIENT_TARGET_ID
          /\ WriterGoesOn
          /\ UNCHANGED writing
       \/ /\ packet[p].target = CLIENT_TARGET_ID
          /\ IF WriterCancelled \/ ~Encodes(packet[p])
             THEN writer' = "ended" /\ Disconnects /\ UNCHANGED writing
             ELSE writer' = "writing" /\ writing' = {p} /\ UNCHANGED sockets
    /\ UNCHANGED <<main, reader, watchdog, spawned, packet, expires, sent>>

ReceiveFails ==
    /\ writer = "waiting"
    /\ mOutput = <<>>
    /\ ~outputOpen \/ WriterCancelled
    /\ writer' = "ended"
    /\ Disconnects
    /\ UNCHANGED <<main, reader, watchdog, output, writing, expires, sent>>

\* async_write completes.
Written ==
    /\ writer = "writing"
    /\ \E p \in writing :
        /\ sent' = Append(sent, [frame |-> FrameOf(packet[p]), whole |-> TRUE])
        /\ IF WritesMore(p) THEN WriterGoesOn ELSE writer' = "ended" /\ Disconnects
    /\ writing' = {}
    /\ UNCHANGED <<main, reader, watchdog, output, expires>>

\* async_write fails, after a part of the frame or none of it.
WriteFails ==
    /\ writer = "writing"
    /\ \E p \in writing :
        \/ sent' = Append(sent, [frame |-> FrameOf(packet[p]), whole |-> FALSE])
        \/ UNCHANGED sent
    /\ writer' = "ended" /\ writing' = {}
    /\ Disconnects
    /\ UNCHANGED <<main, reader, watchdog, output, expires>>

----------------------------------------------------------------------------
\* ReadPackage.

\* A frame has come in whole, and is a package: OnLoginRequest returns.
LoginReturns(frame) ==
    /\ reader = "reading"
    /\ \E p \in Pooled : Decoded(p, frame)
    /\ IF ~socketOpen
       THEN reader' = "ended" /\ UNCHANGED sockets
       ELSE IF ReaderCancelled
       THEN reader' = "ended" /\ Disconnects
       ELSE UNCHANGED <<reader, sockets>>
    /\ UNCHANGED <<main, writer, watchdog, output, writing, expires, sent>>

\* It throws.
LoginThrows(frame) ==
    /\ reader = "reading"
    /\ \E p \in Pooled : Decoded(p, frame)
    /\ reader' = "ended"
    /\ Disconnects
    /\ UNCHANGED <<main, writer, watchdog, output, writing, expires, sent>>

\* The frame is not decoded, or reading fails: the peer or the socket has
\* closed, or the coroutine is cancelled.
ReadFails ==
    /\ reader = "reading"
    /\ \/ ~socketOpen \/ ReaderCancelled
       \/ \E frame \in Incoming, p \in Pooled : ~Decoded(p, frame)
    /\ reader' = "ended"
    /\ Disconnects
    /\ UNCHANGED <<main, writer, watchdog, output, writing, expires, sent>>

PeerCloses ==
    /\ reader = "reading"
    /\ reader' = "ended"
    /\ Disconnects
    /\ UNCHANGED <<main, writer, watchdog, output, writing, expires, sent>>

----------------------------------------------------------------------------
\* Watchdog.

\* Mutant: it goes on waiting.
TimeoutLoops ==
    /\ watchdog = "waiting"
    /\ UNCHANGED connectionVars

\* With an mExpiration of zero it returns at once, and || cancels the others.
Unlimited ==
    /\ watchdog = "waiting" /\ ~expires
    /\ watchdog' = "ended"
    /\ UNCHANGED <<main, reader, writer, sockets, output, writing, expires, sent>>

\* mReceiveTime + mExpiration has come, and nothing has moved it.
Timeout ==
    /\ watchdog = "waiting" /\ expires
    /\ watchdog' = "ended"
    /\ IF socketOpen THEN Disconnects ELSE UNCHANGED sockets
    /\ UNCHANGED <<main, reader, writer, output, writing, expires, sent>>

\* The wait ends with an error: Disconnect cancels it, or || does.
TimerCancelled ==
    /\ watchdog = "waiting" /\ expires
    /\ ~socketOpen \/ WatchdogCancelled
    /\ watchdog' = "ended"
    /\ UNCHANGED <<main, reader, writer, sockets, output, writing, expires, sent>>

----------------------------------------------------------------------------
WritePackage == Received \/ ReceiveFails \/ Written \/ WriteFails

\* What ReadPackage comes to without the peer.
ReadEnds == (~socketOpen \/ ReaderCancelled) /\ ReadFails

ReadPackage ==
    \/ \E frame \in Incoming : LoginReturns(frame) \/ LoginThrows(frame)
    \/ ReadFails \/ PeerCloses

Watchdog == Unlimited \/ Timeout \/ TimerCancelled

ConnectToClient == Handshake \/ HandshakeFails \/ HandshakeThrows \/ Joined

ConnectionNext ==
    \/ ConnectToClient \/ WritePackage \/ ReadPackage \/ Watchdog
    \/ \E p \in Packages : SendPackage(p) \/ OverflowSend(p) \/ Retarget(p)

\* The thread resumes what can go on, writing ends, the timer expires.  The
\* peer need not do anything, the handshake included.
Fairness ==
    /\ WF_connectionVars(WritePackage) /\ WF_connectionVars(ReadEnds) /\ WF_connectionVars(Watchdog)
    /\ WF_connectionVars(Joined)
    /\ \A p \in Packages : WF_connectionVars(OverflowSend(p))

ConnectionSpec == ConnectionInit /\ [][ConnectionNext]_connectionVars /\ Fairness
----------------------------------------------------------------------------
Packets == Outgoing \cup {SetTarget(q, 0) : q \in Outgoing} \cup {NewPacket}

ConnectionTypeOK ==
    /\ main \in {"handshake", "running", "ended", "abandoned"}
    /\ reader \in {"none", "reading", "ended"}
    /\ writer \in {"none", "waiting", "writing", "ended"}
    /\ watchdog \in {"none", "waiting", "ended"}
    /\ socketOpen \in BOOLEAN /\ mailboxOpen \in BOOLEAN /\ outputOpen \in BOOLEAN
    /\ mOutput \in Seq(Packages) /\ spawned \subseteq Packages
    /\ packet \in [Packages -> Packets] /\ expires \in BOOLEAN
    /\ IF writer = "writing" THEN \E p \in Packages : writing = {p} ELSE writing = {}

\* Behind a farewell, a frame that announces data and carries none or a write
\* that failed nothing more is written: a client that reads frame by frame
\* never takes the middle of one for its start.  (A payload that somebody has
\* put in through RawRef() is written whatever the header announces.)
Last(frame) ==
    \/ frame.id \in {LOGIN_FAILED_PACKAGE_ID, LOGIN_REPEATED_PACKAGE_ID}
    \/ frame.length > 0 /\ frame.bytes = <<>>

NothingBehindTheLast ==
    \A i \in 1 .. Len(sent) - 1 : sent[i].whole /\ ~Last(sent[i].frame)

\* No half-closed connection: whichever of the three coroutines ended first
\* and however, behind them the socket and both channels are closed.
EndsClosed == main = "ended" => ~socketOpen /\ ~mailboxOpen /\ ~outputOpen

\* Every connection that gets through the handshake ends with all of its
\* coroutines, whatever the peer does: a client has mExpiration seconds, which
\* no login request prolongs.  (Without a handshake it lasts.)
ConnectionsEnd == main = "running" ~> main = "ended"
=============================================================================
