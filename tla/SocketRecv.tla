----------------------------- MODULE SocketRecv -----------------------------
(***************************************************************************)
(* The receiving side (src/frame_socket.cpp, frame_insidesocket.cpp,       *)
(* frame_outsidesocket.cpp) of the connection whose sending side SocketSend*)
(* describes.  When epoll reports EPOLLIN, OnRead takes what the kernel    *)
(* has, up to the size of a buffer, puts it behind what m_stRecvBuffer     *)
(* holds, and cuts packets from it: MakeMessage reads the length in front  *)
(* of a packet, then moves the packet's bytes to a block of their own as   *)
(* they come, and hands the block up when it is complete.                  *)
(*                                                                         *)
(* Write refuses bytes that do not fit, and OnRead ignores that; PeekRead  *)
(* returns nothing from a full buffer whose indices are equal, and         *)
(* MakeMessage then decodes bytes it never set.  Both end what this module *)
(* describes: `lost` says so, and the bytes that follow are only consumed. *)
(* A packet's head always decodes, for the peer runs the same code.        *)
(***************************************************************************)
EXTENDS SocketSend

CONSTANT LenSize        \* bytes of the length in front of a packet

ASSUME RecvAssumption ==
    /\ LenSize \in 1 .. SIZE
    /\ \A len \in Lengths : len > LenSize

VARIABLES
    m_stRecvBuffer,
    m_nCurPacketSize,   \* length of the packet being read, 0 when it is not known
    m_pPacket,          \* its bytes so far, m_nPacketOffset of them
    arrived,            \* history: bytes of `wire` that were received
    received,           \* history: packets handed up on this connection
    starved,            \* history: MALLOC failed on this connection
    lost                \* history: bytes were dropped, or a length read from no bytes

recvVars == <<m_stRecvBuffer, m_nCurPacketSize, m_pPacket, arrived, received, starved, lost>>
streamVars == <<vars, recvVars>>

RecvInit ==
    /\ m_stRecvBuffer = EmptyBuffer /\ m_nCurPacketSize = 0 /\ m_pPacket = << >>
    /\ arrived = 0 /\ received = << >> /\ starved = FALSE /\ lost = FALSE

\* Clear of the socket at the other end.
RecvClear ==
    /\ m_stRecvBuffer' = EmptyBuffer /\ m_nCurPacketSize' = 0 /\ m_pPacket' = << >>
    /\ arrived' = 0 /\ received' = << >> /\ starved' = FALSE /\ lost' = FALSE

-----------------------------------------------------------------------------
(* MakeMessage: a pass of its loop takes a state of the reader             *)
(*   [buf, cur, pkt, out, mem, ...] to the next.  mem is how many packets  *)
(* MALLOC has memory for.                                                  *)

\* LenSize bytes that are the first of a packet, and the length they decode to.
IsLength(s) == s # << >> /\ s = SubSeq(BytesOf(s[1][1]), 1, LenSize)
LengthOf(s) == s[1][1].len

\* (mutant) the length of the packet before stays in force
HandUp_KeepsLength(s) == [s EXCEPT !.out = Append(@, s.pkt), !.pkt = << >>]

HandUp(s) == [s EXCEPT !.out = Append(@, s.pkt), !.pkt = << >>, !.cur = 0]

\* Moves what there is of the packet, s.cur bytes long, to its block.
TakePart(s) ==
    LET want == s.cur - Len(s.pkt)
        part == [s EXCEPT !.pkt = @ \o ReadBytes(s.buf, want), !.buf = AfterRead(s.buf, want),
                          !.mem = IF s.pkt = << >> THEN @ - 1 ELSE @]
    IN  IF s.pkt = << >> /\ s.mem = 0 THEN [s EXCEPT !.starved = TRUE, !.stop = TRUE]
        ELSE IF Len(part.pkt) >= s.cur THEN HandUp(part) ELSE part

\* (mutant) the length is read before all its bytes are there
Pass_NoWait(s) ==
    LET prefix == PeekBytes(s.buf, LenSize)
    IN  IF s.buf.n = 0 \/ s.stop THEN s
        ELSE IF s.cur > 0 THEN TakePart(s)
        ELSE IF IsLength(prefix) THEN TakePart([s EXCEPT !.cur = LengthOf(prefix)])
        ELSE [s EXCEPT !.lost = TRUE, !.stop = TRUE]

Pass(s) ==
    LET prefix == PeekBytes(s.buf, LenSize)
    IN  IF s.buf.n = 0 \/ s.stop THEN s
        ELSE IF s.cur > 0 THEN TakePart(s)
        ELSE IF s.buf.n < LenSize THEN [s EXCEPT !.stop = TRUE]
        ELSE IF IsLength(prefix) THEN TakePart([s EXCEPT !.cur = LengthOf(prefix)])
        ELSE [s EXCEPT !.lost = TRUE, !.stop = TRUE]

Reader(b, grants) ==
    [buf |-> b, cur |-> m_nCurPacketSize, pkt |-> m_pPacket, out |-> << >>,
     mem |-> grants, starved |-> FALSE, lost |-> FALSE, stop |-> FALSE]

\* (mutant) one packet per event
MakeMessage_Once(b) == {Pass(Reader(b, grants)) : grants \in {0, 1, SIZE}}

\* What the loop may end with: every pass but the last takes a byte off the buffer.
MakeMessage(b) ==
    LET after[i \in 0 .. SIZE] ==
            IF i = 0 THEN {Reader(b, grants) : grants \in {0, 1, SIZE}}
            ELSE {Pass(s) : s \in after[i - 1]}
    IN  after[SIZE]

-----------------------------------------------------------------------------
InFlight == Len(wire) - arrived

\* Recv takes k bytes of those in flight, Write keeps them or none of them.
Recv ==
    \E k \in 1 .. (IF InFlight < SIZE THEN InFlight ELSE SIZE) :
       LET new == SubSeq(wire, arrived + 1, arrived + k)
           fits == HasRoom(m_stRecvBuffer, new)
       IN  /\ arrived' = arrived + k /\ room' = room + k
           /\ \/ lost /\ UNCHANGED <<m_stRecvBuffer, m_nCurPacketSize, m_pPacket, received, starved, lost>>
              \/ /\ ~lost
                 /\ \E s \in MakeMessage(IF fits THEN Write(m_stRecvBuffer, new) ELSE m_stRecvBuffer) :
                       /\ m_stRecvBuffer' = s.buf /\ m_nCurPacketSize' = s.cur /\ m_pPacket' = s.pkt
                       /\ received' = received \o s.out
                       /\ starved' = (starved \/ s.starved)
                       /\ lost' = (s.lost \/ ~fits)

\* (mutant) EPOLLOUT is no longer asked for after a read
OnRead_Disarms ==
    /\ m_nSocketStatus = "available" /\ Recv /\ writeEvent' = FALSE
    /\ UNCHANGED <<m_nSocketStatus, established, m_stSendBuffer, wire, given, taken, packets>>

\* OnRead of a connection that stays; the socket's sending half is left alone.
OnRead ==
    /\ m_nSocketStatus = "available" /\ Recv
    /\ UNCHANGED <<m_nSocketStatus, established, m_stSendBuffer, writeEvent, wire, given, taken, packets>>

\* With a step of the sender that closes (or of a receiver that found the
\* connection closed or broken: nCloseCode) the other end is cleared too.
Paired(Step) ==
    /\ Step
    /\ \/ m_nSocketStatus' # "closed" /\ UNCHANGED recvVars
       \/ m_nSocketStatus' = "closed" /\ RecvClear

StreamInit == Init /\ RecvInit
StreamNext ==
    \/ Paired(ConnectPeerNode) \/ Paired(ConnectionLost) \/ Paired(SendMessages)
    \/ Paired(WriteEvent) \/ Paired(Establish) \/ OnRead
StreamSpec == StreamInit /\ [][StreamNext]_streamVars

\* The epoll loops of both ends serve what they are told of.
FairStreamSpec ==
    /\ StreamSpec
    /\ WF_streamVars(Paired(WriteEvent)) /\ WF_streamVars(OnRead)
-----------------------------------------------------------------------------
\* The two ends together behave as the sender with a peer that reads.
ImplementsSend == Spec

\* While framing is not lost, the packets handed up, the packet being read and
\* the bytes buffered are, in this order, exactly the bytes received, and the
\* packets handed up are the first of those the sender took, whole.
FramesIntact ==
    ~lost =>
        /\ Consistent(m_stRecvBuffer)
        /\ Len(received) <= Len(taken)
        /\ \A i \in 1 .. Len(received) : received[i] = BytesOf(taken[i])
        /\ Stream(SubSeq(taken, 1, Len(received))) \o m_pPacket \o Contents(m_stRecvBuffer)
              = SubSeq(wire, 1, arrived)
        /\ ~starved => m_stRecvBuffer.n < LenSize

\* Framing is lost only by an event that delivers more than SIZE - LenSize
\* bytes at once, or after memory ran out: smaller reads always fit.
LostOnlyByBurst ==
    [][~lost /\ lost' => arrived' - arrived > SIZE - LenSize \/ starved]_streamVars

\* Every packet the sender took is handed up at the other end, if the connection
\* stays, unless framing was lost or memory ran out.
TakenArrives ==
    \A k \in 1 .. MaxPackets :
        Len(taken) >= k ~> Len(taken) < k \/ Len(received) >= k \/ lost \/ starved
=============================================================================
