----------------------------- MODULE SocketSend -----------------------------
(***************************************************************************)
(* The sending side of one connection (src/frame_socket.cpp): the net      *)
(* thread takes packets off its send queues and gives them to CSocket::Send*)
(* of the socket, from when its connection is asked for until it is closed.*)
(* What the kernel does not take stays in m_stSendBuffer and is sent when  *)
(* epoll reports EPOLLOUT (WriteEvent, SendRestData).  All of it runs in   *)
(* the one net thread, so a handler is a step; the kernel and the peer act *)
(* between the handlers.                                                   *)
(*                                                                         *)
(* enmRecvBufferSize, the size of the local buffer a flush reads into, is  *)
(* the SIZE of the send buffer, and enmMaxMessageSize bounds a packet by   *)
(* it.  A packet has a head, so no packet is empty.                        *)
(***************************************************************************)
EXTENDS CycleBuffer

CONSTANTS
    Lengths,        \* lengths of packets
    ROOM,           \* bytes the kernel holds for a peer that does not read
    MaxPackets      \* bound of a model-checking run on the packets given

ASSUME SendAssumption ==
    /\ Lengths \subseteq 1 .. SIZE
    /\ ROOM \in Nat \ {0} /\ MaxPackets \in Nat

VARIABLES
    m_nSocketStatus,    \* "closed", "connecting" or "available"
    established,        \* the kernel has completed the connection
    m_stSendBuffer,
    writeEvent,         \* EPOLLOUT is among m_nIOEvents
    room,               \* bytes the kernel takes before EAGAIN
    wire,               \* history: bytes the kernel took on this connection
    given, taken,       \* history: packets passed to Send on this connection without closing it,
                        \* and those of them that it wrote or kept
    packets             \* packets so far

vars == <<m_nSocketStatus, established, m_stSendBuffer, writeEvent, room, wire, given, taken, packets>>

Packets == [no : 1 .. MaxPackets, len : Lengths]
BytesOf(p) == [k \in 1 .. p.len |-> <<p, k>>]     \* the k-th byte of packet p
Stream(ps) ==
    LET before[i \in 0 .. Len(ps)] == IF i = 0 THEN << >> ELSE before[i - 1] \o BytesOf(ps[i])
    IN  before[Len(ps)]

Init ==
    /\ m_nSocketStatus = "closed" /\ established = FALSE
    /\ m_stSendBuffer = EmptyBuffer /\ writeEvent = FALSE
    /\ room = ROOM /\ wire = << >> /\ given = << >> /\ taken = << >>
    /\ packets = 0

-----------------------------------------------------------------------------
(* Opening and closing.                                                    *)

\* CloseSocket: the buffer is cleared with the rest of the object.
CloseSocket ==
    /\ m_nSocketStatus' = "closed" /\ established' = FALSE
    /\ m_stSendBuffer' = EmptyBuffer /\ writeEvent' = FALSE
    /\ room' = ROOM /\ wire' = << >> /\ given' = << >> /\ taken' = << >>

\* ConnectPeerNode, Connect: the socket is registered for EPOLLOUT and can be
\* found by SendMessagesToServer before the connection is there.
ConnectPeerNode ==
    /\ m_nSocketStatus = "closed"
    /\ \/ m_nSocketStatus' = "connecting" /\ writeEvent' = TRUE
       \/ m_nSocketStatus' = "available" /\ writeEvent' = FALSE     \* connected at once
    /\ established' = (m_nSocketStatus' = "available")
    /\ UNCHANGED <<m_stSendBuffer, room, wire, given, taken, packets>>

\* OnConnected with nothing to send: ChangeWriteEvent removes EPOLLOUT.
Connected ==
    /\ m_nSocketStatus' = "available" /\ writeEvent' = FALSE
    /\ UNCHANGED <<established, m_stSendBuffer, room, wire, taken>>

\* An error, or the peer closed: ErrorEvent, OnRead, OnWrite.
ConnectionLost ==
    /\ m_nSocketStatus # "closed"
    /\ CloseSocket /\ UNCHANGED packets

-----------------------------------------------------------------------------
(* Writing.                                                                *)

\* nWrite of k bytes: all that the kernel takes; another error than EAGAIN may
\* stop it after any of them.
nWrite(k, space) ==
    LET most == IF k < space THEN k ELSE space
    IN  {[n |-> most, errno |-> "EAGAIN"]}
        \cup {[n |-> j, errno |-> "ECONNRESET"] : j \in {i \in 0 .. most : i < k}}

\* (mutant) the bytes that were sent are kept too
WriteBytes_Resends(b, s, space) ==
    {[buf |-> IF o.n < Len(s) THEN WriteToHead(b, s) ELSE b,
      sent |-> SubSeq(s, 1, o.n),
      failed |-> o.n < Len(s) /\ o.errno # "EAGAIN"] : o \in nWrite(Len(s), space)}

\* nWrite of s, and the rest of it put in front of the buffer b.
WriteBytes(b, s, space) ==
    {[buf |-> IF o.n < Len(s) THEN WriteToHead(b, SubSeq(s, o.n + 1, Len(s))) ELSE b,
      sent |-> SubSeq(s, 1, o.n),
      failed |-> o.n < Len(s) /\ o.errno # "EAGAIN"] : o \in nWrite(Len(s), space)}

\* The bytes kept are read out, written, and what is left of them kept again.
Flush == WriteBytes(AfterRead(m_stSendBuffer, SIZE), ReadBytes(m_stSendBuffer, SIZE), room)

\* (mutant) EPOLLOUT is not asked for when the kernel stops taking bytes
Sent_Unarmed(b, bytes) ==
    /\ m_stSendBuffer' = b /\ writeEvent' = (writeEvent /\ b.n > 0)
    /\ wire' = wire \o bytes /\ room' = room - Len(bytes)
    /\ UNCHANGED <<m_nSocketStatus, established>>

\* The kernel took `bytes` and b is kept; ChangeWriteEvent.
Sent(b, bytes) ==
    /\ m_stSendBuffer' = b /\ writeEvent' = (b.n > 0)
    /\ wire' = wire \o bytes /\ room' = room - Len(bytes)
    /\ UNCHANGED <<m_nSocketStatus, established>>

\* Send on a connection: flush; if bytes are still kept, keep the packet behind
\* them, else write it.
Send(p) ==
    \/ \E f \in Flush : f.failed /\ CloseSocket
    \/ \E f \in Flush :
          /\ ~f.failed /\ f.buf.n > 0
          /\ IF HasRoom(f.buf, BytesOf(p))
             THEN /\ Sent(Write(f.buf, BytesOf(p)), f.sent)
                  /\ given' = Append(given, p) /\ taken' = Append(taken, p)
             ELSE CloseSocket
    \/ \E f \in Flush :
          /\ ~f.failed /\ f.buf.n = 0
          /\ \E d \in WriteBytes(f.buf, BytesOf(p), room - Len(f.sent)) :
                IF d.failed THEN CloseSocket
                ELSE /\ Sent(d.buf, f.sent \o d.sent)
                     /\ given' = Append(given, p) /\ taken' = Append(taken, p)

\* Send on a socket whose connection is not there, or is there and not yet
\* known to be: then Send finds out and returns S_OK with nSendBytes 0, and the
\* caller closes the socket unless an older call left EAGAIN in errno.
SendUnconnected(p) ==
    \/ ~established /\ CloseSocket
    \/ established /\ CloseSocket
    \/ established /\ Connected /\ given' = Append(given, p)

\* SendMessagesToServer, SendMessagesToClient
SendMessages ==
    /\ packets < MaxPackets /\ m_nSocketStatus # "closed"
    /\ packets' = packets + 1
    /\ \E len \in Lengths :
          LET p == [no |-> packets + 1, len |-> len]
          IN  IF m_nSocketStatus = "available" THEN Send(p) ELSE SendUnconnected(p)

\* (mutant) SendRestData stops listening for EPOLLOUT after one attempt
WriteEvent_Disarms ==
    /\ writeEvent /\ room > 0
    /\ \/ /\ m_nSocketStatus = "connecting" /\ established
          /\ Connected /\ UNCHANGED given
       \/ /\ m_nSocketStatus = "available"
          /\ \E f \in Flush :
                IF f.failed THEN CloseSocket
                ELSE /\ m_stSendBuffer' = f.buf /\ writeEvent' = FALSE
                     /\ wire' = wire \o f.sent /\ room' = room - Len(f.sent)
                     /\ UNCHANGED <<m_nSocketStatus, established, given, taken>>
    /\ UNCHANGED packets

\* WriteEvent: the connection is there, or the kernel takes bytes again.
WriteEvent ==
    /\ writeEvent /\ room > 0
    /\ \/ /\ m_nSocketStatus = "connecting" /\ established
          /\ Connected /\ UNCHANGED given
       \/ /\ m_nSocketStatus = "available"
          /\ \E f \in Flush :
                IF f.failed THEN CloseSocket
                ELSE Sent(f.buf, f.sent) /\ UNCHANGED <<given, taken>>
    /\ UNCHANGED packets

-----------------------------------------------------------------------------
(* The kernel and the peer.                                                *)

Establish ==
    /\ m_nSocketStatus = "connecting" /\ ~established
    /\ established' = TRUE
    /\ UNCHANGED <<m_nSocketStatus, m_stSendBuffer, writeEvent, room, wire, given, taken, packets>>

PeerReads ==
    /\ m_nSocketStatus = "available" /\ room < ROOM
    /\ room' \in room + 1 .. ROOM
    /\ UNCHANGED <<m_nSocketStatus, established, m_stSendBuffer, writeEvent, wire, given, taken, packets>>

Next ==
    \/ ConnectPeerNode \/ ConnectionLost \/ SendMessages \/ WriteEvent
    \/ Establish \/ PeerReads

Spec == Init /\ [][Next]_vars

\* The epoll loop serves what it is told of, and the peer goes on reading.
FairSpec == Spec /\ WF_vars(WriteEvent) /\ WF_vars(PeerReads)
-----------------------------------------------------------------------------
\* However the kernel cuts the writes, what it has taken followed by what is
\* kept is the packets taken, whole and in order: a flush that puts bytes back
\* in front never repeats, loses or reorders one.
StreamIntact == wire \o Contents(m_stSendBuffer) = Stream(taken)

\* Bytes are never kept without EPOLLOUT being asked for: nothing would send
\* them until the next packet.
KeptIsArmed == m_stSendBuffer.n > 0 => writeEvent

\* The kernel has taken the last byte of packet k.
SentUpTo(k) == \E i \in 1 .. Len(wire) : wire[i] = <<taken[k], taken[k].len>>

\* Every packet taken is sent to its last byte, if the connection stays (the
\* packets taken are forgotten with it) and the peer reads.
TakenIsSent == \A k \in 1 .. MaxPackets : Len(taken) >= k ~> Len(taken) < k \/ SentUpTo(k)

\* While the socket stays open, a packet given to it is written or kept.
KeepsEveryPacket == taken = given
=============================================================================
