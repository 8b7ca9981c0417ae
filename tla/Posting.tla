------------------------------ MODULE Posting -------------------------------
(***************************************************************************)
(* From the application to the sockets (src/lightframe.cpp: PostMessage    *)
(* and its variants; frame_netqueue.cpp, frame_commandqueue.cpp), and the  *)
(* choice of the sockets a packet goes to (CFrameNetThread::GetSocket,     *)
(* CFrameSocketMgt).  A packet is a block of memory with a head, an option *)
(* and a body packed into it; here it is the numbers of bytes.             *)
(*                                                                         *)
(* Each call is one step: a packet is in no other thread's hands before it *)
(* is pushed.  The queues with their threads are LightFrame, the memory    *)
(* with its threads MemMgt, the sockets themselves Sockets.                *)
(***************************************************************************)
EXTENDS Integers, Sequences, SequencesExt, Folds

CONSTANTS
    Block, MaxBlock,            \* bytes of the smallest and of the largest block
    MessageBuffer,              \* enmMaxMessageSize
    Router, LastServer, NoType, \* entity types; those of clients come after LastServer
    MaxConnects                 \* enmMaxConnectCount

\* sizeof and the bytes MessageEncode writes.
HeadSS == [size |-> 52, packed |-> 44]
HeadCS == [size |-> 24, packed |-> 24]
ConnInfo == 32
EncryptBlock == 8               \* ENCRYPT_BLOCK_LENGTH_IN_BYTE
InFront == 12                   \* of m_pNetPacket in a NetPacket
UInt16 == 65536

Queues == {"SendSS", "SendCS", "command"}
New == [queue |-> [q \in Queues |-> << >>], taken |-> {}, next |-> 1]
-----------------------------------------------------------------------------
\* MALLOC: a block of whole units, numbered as it is taken; NULL if there is none so big.
BlockSize(want) == ((want + Block - 1) \div Block) * Block
MALLOC(s) == [s EXCEPT !.taken = @ \cup {s.next}, !.next = @ + 1]
FREE(s, block) == [s EXCEPT !.taken = @ \ {block}]

Push(s, q, packet) == [s EXCEPT !.queue[q] = Append(@, packet)]
PushCommandQueue(s, packet) == [s EXCEPT !.queue["command"] = Append(@, packet)]

\* Of the numbers in front of the packet each keeps what fits its type.
PacketSS(block, want, body, option) ==
    LET total == HeadSS.packed + option + body
    IN  [block |-> block, room |-> BlockSize(want), reach |-> InFront + total, length |-> total,
         nTotalSize |-> total, nHeadSize |-> (HeadSS.packed + option) % UInt16]

\* What PostMessage and PushCommand have in common: a block, the head, the option, the
\* body, and the sizes over what the head had there.
PushPacked(s, q, want, body, option) ==
    IF want > MaxBlock THEN s
    ELSE IF body.packs /\ body.length <= want - HeadSS.packed - option
         THEN Push(MALLOC(s), q, PacketSS(s.next, want, body.length, option))
         ELSE FREE(MALLOC(s), s.next)

\* A body to pack has the size of its object and the length it packs into; bytes that are
\* packed already are copied.
PostMessageSS(s, body, option) == PushPacked(s, "SendSS", HeadSS.size + body.size + option, body, option)
PostBytesSS(s, n, option) == PushPacked(s, "SendSS", HeadSS.size + n + option, [length |-> n, packs |-> TRUE], option)
PushCommand(s, body, option) == PushPacked(s, "command", HeadSS.size + body.size + option, body, option)

\* What Encrypt makes of n bytes: whole blocks, zero if the buffer is too short.
EncryptedLength(n) == LET out == EncryptBlock * ((n + 15) \div EncryptBlock) IN IF out > MessageBuffer THEN 0 ELSE out

PacketCS(block, want, out) ==
    LET total == (HeadCS.packed + out) % UInt16
    IN  [block |-> block, room |-> BlockSize(want), reach |-> InFront + ConnInfo + HeadCS.packed + out,
         length |-> total + ConnInfo, nTotalSize |-> total, nHeadSize |-> HeadCS.packed]

\* To a client: its connection goes in front, and the body is encrypted where it lies.
PushEncrypted(s, known, want, body) ==
    LET out == IF body.length > 0 THEN EncryptedLength(body.length) ELSE 0
    IN  IF want > MaxBlock THEN s
        ELSE IF /\ known /\ body.packs /\ body.length <= want - ConnInfo - HeadCS.packed
                /\ body.length > 0 => out > 0
             THEN Push(MALLOC(s), "SendCS", PacketCS(s.next, want, out))
             ELSE FREE(MALLOC(s), s.next)

PostMessageCS(s, known, body) == PushEncrypted(s, known, HeadCS.size + ConnInfo + body.size + EncryptBlock, body)
PostBytesCS(s, known, n) ==
    PushEncrypted(s, known, HeadCS.size + ConnInfo + n + EncryptBlock, [length |-> n, packs |-> TRUE])

\* SendMessageNotify: how it is to be sent, and to which server of the type.
SendMessageNotify(trans, id) ==
    [trans |-> IF trans = "ByKey" THEN "Ramdom" ELSE trans, id |-> IF trans = "Broadcast" THEN 0 ELSE id]

\* The net thread takes a packet off and frees it when it is sent.
PopSend(s, q) ==
    IF s.queue[q] = << >> THEN s ELSE FREE([s EXCEPT !.queue[q] = Tail(@)], Head(s.queue[q]).block)

\* An application thread takes a command and handles it.
Pop(s) == IF s.queue["command"] = << >> THEN s ELSE [s EXCEPT !.queue["command"] = Tail(@)]
ProcessTestMessage(s) == Pop(s)
-----------------------------------------------------------------------------
(* CFrameSocketMgt.  t is the table of sockets: type -> the sequence of    *)
(* the sockets of that type, in the order of their numbers.                *)

GetSocketOfServer(t, type, id) == SelectSeq(t[type], LAMBDA e : e.id = id)

\* As many as the array takes.
GetSocketsOfType(t, type) == SubSeq(t[type], 1, IF Len(t[type]) < MaxConnects THEN Len(t[type]) ELSE MaxConnects)

\* A full array ends the loop over one type, and the next type goes on behind it.
GetAllInsideSocket(t) ==
    FoldLeft(LAMBDA found, type :
                 LET room == IF MaxConnects - Len(found) < 1 THEN 1 ELSE MaxConnects - Len(found)
                 IN  found \o SubSeq(t[type], 1, IF Len(t[type]) < room THEN Len(t[type]) ELSE room),
             << >>, SetToSortSeq({type \in DOMAIN t : type <= LastServer}, LAMBDA a, b : a < b))

OneOf(found) == {<<found[k]>> : k \in DOMAIN found}

\* What a packet of a kind, for a type and a number, may be sent to: those it names, and
\* one of the routers if there are none.
GetSocket(t, trans, type, id) ==
    LET found == CASE trans \in {"P2P", "Regist"} -> {GetSocketOfServer(t, type, id)}
                   [] trans = "Broadcast" -> IF type = NoType THEN {GetAllInsideSocket(t)} ELSE {GetSocketsOfType(t, type)}
                   [] trans \in {"ByKey", "Ramdom"} -> OneOf(GetSocketsOfType(t, type))
                   [] OTHER -> {}
        routers == OneOf(GetSocketsOfType(t, Router))
    IN  IF found \ {<< >>} # {} THEN found ELSE IF routers # {} THEN routers ELSE {<< >>}
-----------------------------------------------------------------------------
(* The handlers for sockets.  h has the free objects of each port and of   *)
(* each type, the sockets that listen, and the objects deleted.            *)

NoHandlers(ports, types) == [port |-> [p \in ports |-> << >>], type |-> [y \in types |-> << >>],
                             listen |-> << >>, deleted |-> {}]

RegistSocketPort(h, socket, port) == [h EXCEPT !.port[port] = Append(@, socket)]
RegistSocketType(h, socket, type) == [h EXCEPT !.type[type] = Append(@, socket)]

AddListenSocket(h, socket, port) == [h EXCEPT !.listen = Append(@, [socket |-> socket, port |-> port])]
GetListenSocket(h, port) ==
    LET mine == SelectSeq(h.listen, LAMBDA l : l.port = port) IN IF mine = << >> THEN 0 ELSE mine[1].socket
DelListenSocket(h, socket) ==
    LET at == {k \in DOMAIN h.listen : h.listen[k].socket = socket}
    IN  IF at = {} THEN h ELSE [h EXCEPT !.listen = RemoveAt(@, CHOOSE k \in at : \A j \in at : k <= j)]

\* The listener takes an object of its port; a socket that is closed goes back to them.
Listen(h, port) == AddListenSocket([h EXCEPT !.port[port] = Tail(@)], Head(h.port[port]), port)
ListenerCloses(h, socket, port) == [h EXCEPT !.port[port] = Append(@, socket)]

\* The listener is closed, and with it all that are free are deleted.
UnregistSocketPort(h, port) ==
    LET socket == GetListenSocket(h, port)
        quiet == IF socket = 0 THEN h ELSE DelListenSocket(ListenerCloses(h, socket, port), socket)
    IN  [quiet EXCEPT !.deleted = @ \cup Range(quiet.port[port]), !.port[port] = << >>]
UnregistSocketType(h, type) == [h EXCEPT !.deleted = @ \cup Range(h.type[type]), !.type[type] = << >>]
=============================================================================
