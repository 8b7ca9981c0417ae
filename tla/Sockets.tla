------------------------------ MODULE Sockets ------------------------------
(***************************************************************************)
(* The sockets of a server (src/frame_socket_mgt.cpp, frame_netthread.cpp, *)
(* frame_epoll.cpp, frame_insidesocket.cpp, frame_outsidesocket.cpp,       *)
(* frame_sockettimer.cpp) and the client connections the application       *)
(* threads keep (frame_connection_mgt.cpp, frame_mainthread.cpp).          *)
(*                                                                         *)
(* Socket objects are made once.  They wait in free lists, one for each    *)
(* listening port and one for each type of configured server, and are      *)
(* found by whom they lead to: m_stServerMap has an entry <<type, id>> for *)
(* a server and <<0, descriptor>> for a client.  A server that connects to *)
(* the inside port has no entry until its registration arrives.  Only the  *)
(* net thread uses sockets; the kernel, the peers and the application      *)
(* threads act between its handlers.                                       *)
(*                                                                         *)
(* A link is a TCP connection, numbered as they are made; the kernel gives *)
(* it the smallest free descriptor.  Messages are whole here: the bytes of *)
(* one link are modelled in SocketSend and SocketRecv.                     *)
(***************************************************************************)
EXTENDS Integers, Sequences, FiniteSets, SequencesExt

CONSTANTS
    Configs,        \* [inside, outside: sockets per port, peers: sequence of configured
                    \*  servers, callers: servers that connect to the inside port, threads,
                    \*  and the bounds: links: connections made by others, msgs: messages of
                    \*  clients and to servers, failures: refusals, ends, failed allocations]
    MaxFd           \* descriptors the process may have

Client == 0         \* enmEntityType_Client
Nobody == <<0, -1>> \* the peer of an object that never had one
ServerKeys == (Nat \ {Client}) \X Nat      \* type and id

ASSUME SocketsAssumption ==
    /\ MaxFd \in Nat
    /\ \A c \in Configs :
          /\ c.inside \in Nat /\ c.outside \in Nat /\ c.threads \in Nat
          /\ c.links \in Nat /\ c.msgs \in Nat /\ c.failures \in Nat
          /\ c.peers \in Seq(ServerKeys) /\ c.callers \subseteq ServerKeys

VARIABLES
    config,         \* read at start
    net,            \* what the net thread works on, and the descriptors:
                    \*   sock: [fd, status, peer, timer, buf] of each object,
                    \*   ports, types: m_stSocketPortMap and m_stSocketTypeMap,
                    \*   servers: m_stServerMap, timers: m_stFrameSocketTimerList,
                    \*   link: [who, state, rd, got, said], desc: link of a descriptor,
                    \*   ptr: data.ptr of epoll, recvCS, sendSS, sendCS: the queues,
                    \*   due: it is time to connect; listening: the ports that listen;
                    \*   history: lost, replaced, stranger, silent, starved
    pc, batch,      \* the net thread: "connect", "send", "events"; events not yet dispatched
    edge, backlog,  \* per listening port: it has an edge to report; links to be accepted
    conn,           \* m_stConnectionList: descriptor to the link it was created for
    app,            \* per application thread: the packet it works on, and whether it has
                    \* found no connection for it
    links, msgs, failures       \* counted, for the bounds

vars == <<config, net, pc, batch, edge, backlog, conn, app, links, msgs, failures>>

Objects == 1 .. (config.inside + config.outside + Len(config.peers))
BelongPort(s) == IF s <= config.inside THEN "inside"
                 ELSE IF s <= config.inside + config.outside THEN "outside" ELSE "none"

\* RegistSocketHandler: the objects of a port wait in its list, those of a type of
\* server in another, one for each configured, in an order that does not matter: they
\* are alike.  The one that listens on a port is not counted.
InitialPorts(c) == [p \in {"inside", "outside"} |->
    IF p = "inside" THEN [i \in 1 .. c.inside |-> i] ELSE [i \in 1 .. c.outside |-> c.inside + i]]
InitialTypes(c) == [type \in {c.peers[i][1] : i \in DOMAIN c.peers} |->
    SetToSeq({c.inside + c.outside + i : i \in {j \in DOMAIN c.peers : c.peers[j][1] = type}})]

NoPacket == [fd |-> 0, link |-> 0, close |-> FALSE]
NoWork == [packet |-> NoPacket, missing |-> FALSE]
Unused(peer) == [fd |-> 0, status |-> "Closed", peer |-> peer, timer |-> FALSE, buf |-> << >>]

\* OpenSocketAsServer: socket, setsockopt, bind and listen; when one of them fails the
\* descriptor is closed.
OpenSocketAsServer(port, fails) == IF fails THEN {} ELSE {port}

\* Initialize of the net thread does not look whether that worked: the server starts
\* all the same, and nobody can reach the port.
Ports(c) == {p \in {"inside", "outside"} : (p = "inside" /\ c.inside > 0) \/ (p = "outside" /\ c.outside > 0)}
Initialize(c, deaf) == UNION {OpenSocketAsServer(port, port \in deaf) : port \in Ports(c)}

Init ==
    /\ config \in Configs
    /\ \E deaf \in SUBSET Ports(config) :
       /\ failures = Cardinality(deaf) /\ failures <= config.failures
       /\ net = [sock |-> [s \in Objects |-> Unused(Nobody)],
              ports |-> InitialPorts(config), types |-> InitialTypes(config),
              servers |-> << >>, timers |-> << >>, link |-> << >>,
              desc |-> [f \in 1 .. MaxFd |-> 0], ptr |-> [f \in 1 .. MaxFd |-> 0],
              recvCS |-> << >>, sendSS |-> << >>, sendCS |-> << >>, due |-> TRUE,
              lost |-> {}, replaced |-> FALSE, stranger |-> FALSE, silent |-> {}, starved |-> {},
              listening |-> Initialize(config, deaf)]
    /\ pc = "connect" /\ batch = << >>
    /\ edge = {} /\ backlog = [inside |-> << >>, outside |-> << >>]
    /\ conn = << >> /\ app = [t \in 1 .. config.threads |-> NoWork]
    /\ links = 0 /\ msgs = 0

Drop(map, key) == [k \in DOMAIN map \ {key} |-> map[k]]
Set(map, key, value) == [k \in DOMAIN map \cup {key} |-> IF k = key THEN value ELSE map[k]]
LinkOf(n, s) == n.desc[n.sock[s].fd]
StateOf(n, s) == n.link[LinkOf(n, s)].state
FreeFds(n) == {f \in 1 .. MaxFd : n.desc[f] = 0}
NextFd(n) == CHOOSE f \in FreeFds(n) : \A g \in FreeFds(n) : f <= g
Failing(b) == failures' = failures + (IF b THEN 1 ELSE 0) /\ failures' <= config.failures

-----------------------------------------------------------------------------
(* The queues.                                                             *)

PushSendSSQueue(n, packet) == [n EXCEPT !.sendSS = Append(@, packet)]
PopSendSSQueue(n) == [n EXCEPT !.sendSS = Tail(@)]
PushSendCSQueue(n, packet) == [n EXCEPT !.sendCS = Append(@, packet)]
PopSendCSQueue(n) == [n EXCEPT !.sendCS = Tail(@)]
PushRecvCSQueue(n, packet) == [n EXCEPT !.recvCS = Append(@, packet)]
PopRecvCSQueue(n) == [n EXCEPT !.recvCS = Tail(@)]

-----------------------------------------------------------------------------
(* The socket table: from the state n of the net thread to its next state. *)

\* CreateSocket: the first free object of a port, or of a type of server.
CreateSocket(n, port) == [n EXCEPT !.ports[port] = Tail(@)]
CreateSocketOfType(n, type) == [n EXCEPT !.types[type] = Tail(@)]

\* (mutant) only an accepted socket is given back
DestroySocketObject_Accepted(n, s) ==
    IF BelongPort(s) \in DOMAIN n.ports THEN [n EXCEPT !.ports[BelongPort(s)] = Append(@, s)] ELSE n

DestroySocketObject(n, s) ==
    IF BelongPort(s) \in DOMAIN n.ports
    THEN [n EXCEPT !.ports[BelongPort(s)] = Append(@, s)]
    ELSE IF n.sock[s].peer[1] \in DOMAIN n.types
    THEN [n EXCEPT !.types[n.sock[s].peer[1]] = Append(@, s)] ELSE n

HasSocket(n, key) == key \in DOMAIN n.servers
GetSocket(n, key) == n.servers[key]

\* DelSocket: whoever has the entry.
DelSocket(n, key) == [n EXCEPT !.servers = Drop(@, key)]

\* AddSocket: the object that had the entry goes to its free list, but is not closed.
AddSocket(n, key, s) ==
    LET old == IF HasSocket(n, key) THEN GetSocket(n, key) ELSE s
        m == IF old = s THEN n ELSE [DestroySocketObject(n, old) EXCEPT !.replaced = TRUE]
    IN  [m EXCEPT !.servers = Set(@, key, s)]

\* Socket timers: a list in the order of creation.
CreateSocketTimer(n, s) == [n EXCEPT !.timers = Append(@, s), !.sock[s].timer = TRUE]
DestroySocketTimer(n, s) ==
    IF ~n.sock[s].timer THEN n
    ELSE [n EXCEPT !.timers = RemoveFirst(@, s), !.sock[s].timer = FALSE]

\* epoll_ctl: the object is the event's data.
RegistEvent(n, fd, s) == [n EXCEPT !.ptr[fd] = s]
DeleteEvent(n, fd) == [n EXCEPT !.ptr[fd] = 0]

-----------------------------------------------------------------------------
(* Handlers of a socket, from state to state.                              *)

FromClient(n, s, close) == [fd |-> n.sock[s].fd, link |-> LinkOf(n, s), close |-> close]

\* A registration gives an inside socket its server.
ProcessRegistMessage(n, s, who) ==
    [AddSocket(n, who, s) EXCEPT !.sock[s].peer = who, !.sock[s].status = "Available"]

\* MakeMessage hands up the first k messages: an outside socket those of the client,
\* one by one; an inside socket's are the registration, once or repeated.
MakeMessage(n, s, k) ==
    LET buf == n.sock[s].buf
        c == IF k < Len(buf) THEN k ELSE Len(buf)
        m == [n EXCEPT !.sock[s].buf = SubSeq(buf, c + 1, Len(buf))]
    IN  CASE c = 0 -> n
          [] c # 0 /\ BelongPort(s) = "outside" ->
                [m EXCEPT !.recvCS = @ \o [i \in 1 .. c |-> FromClient(n, s, FALSE)]]
          [] OTHER -> ProcessRegistMessage(m, s, n.link[LinkOf(n, s)].who)

MakeConnCloseEvent(n, s) == PushRecvCSQueue(n, FromClient(n, s, TRUE))

\* That of an inside socket drops the entry of its peer, which may be the peer of the
\* object's former life.
OnDisconnectInside(n, s) ==
    LET unregistered == BelongPort(s) = "inside" /\ n.sock[s].status = "Connected"
        m == [DeleteEvent(n, n.sock[s].fd) EXCEPT !.stranger = @ \/ (unregistered /\ HasSocket(n, n.sock[s].peer))]
    IN  DestroySocketObject(DelSocket(m, n.sock[s].peer), s)

\* That of an outside socket tells the application, if it has a connection for the
\* descriptor.
OnDisconnectOutside(n, s) ==
    LET fd == n.sock[s].fd
        m == IF fd \in DOMAIN conn THEN MakeConnCloseEvent(MakeMessage(DeleteEvent(n, fd), s, config.msgs), s)
             ELSE [DeleteEvent(n, fd) EXCEPT !.silent = @ \cup {LinkOf(n, s)}]
    IN  DestroySocketObject(DelSocket(m, <<Client, fd>>), s)

\* (mutant) the entry of the server stays
OnDisconnect_StaysRouted(n, s) == DestroySocketObject(n, s)

\* (mutant) the close event goes up before the messages that are left
OnDisconnect_CloseFirst(n, s) ==
    LET fd == n.sock[s].fd
        m == IF fd \in DOMAIN conn THEN MakeMessage(MakeConnCloseEvent(n, s), s, config.msgs)
             ELSE [n EXCEPT !.silent = @ \cup {LinkOf(n, s)}]
    IN  IF BelongPort(s) = "outside" THEN DestroySocketObject(DelSocket(m, <<Client, fd>>), s)
        ELSE OnDisconnectInside(n, s)

OnDisconnect(n, s) == IF BelongPort(s) = "outside" THEN OnDisconnectOutside(n, s) ELSE OnDisconnectInside(n, s)

Disconnected(n, s) == OnDisconnect(DestroySocketTimer(n, s), s)

\* (mutant) the timer of the attempt is left
CloseSocket_KeepsTimer(n, s) ==
    IF n.sock[s].fd = 0 THEN n
    ELSE LET m == IF n.sock[s].status = "Closed" THEN n ELSE OnDisconnect(n, s)
         IN  [m EXCEPT !.desc[n.sock[s].fd] = 0, !.ptr[n.sock[s].fd] = 0, !.sock[s] = Unused(@.peer)]

\* CloseSocket: the descriptor is free at once, and with it what epoll knew of it.
CloseSocket(n, s) ==
    IF n.sock[s].fd = 0 THEN n
    ELSE LET m == IF n.sock[s].status = "Closed" THEN n ELSE Disconnected(n, s)
         IN  [m EXCEPT !.desc[n.sock[s].fd] = 0, !.ptr[n.sock[s].fd] = 0, !.sock[s] = Unused(@.peer)]

\* ConnectTimeout leaves a socket alone unless it is closed, and then it has no timer.
ConnectTimeout(n, s) ==
    LET m == DestroySocketTimer(n, s)
    IN  IF m.sock[s].status # "Closed" THEN m ELSE DeleteEvent(m, n.sock[s].fd)

\* SendRegisteNotify: our registration goes behind what waits in the queue.
SendRegisteNotify(n, s) == PushSendSSQueue(n, [to |-> n.sock[s].peer, kind |-> "regist"])

\* It fails when there is no memory for it.
OnConnected(n, s, ok) ==
    IF ok THEN [SendRegisteNotify(RegistEvent(n, n.sock[s].fd, s), s) EXCEPT !.sock[s].status = "Available"]
    ELSE CloseSocket(n, s)

Connected(n, s, ok) == OnConnected([DestroySocketTimer(n, s) EXCEPT !.sock[s].status = "Connected"], s, ok)

\* OnRead: what the kernel has, as many messages as there is memory for, and the
\* end of the connection, which a read that finds nothing is taken for.
OnRead(n, s, k, ok) ==
    IF n.sock[s].fd = 0 THEN n
    ELSE IF n.sock[s].status = "Connecting"
    THEN IF StateOf(n, s) = "up" THEN Connected(n, s, ok) ELSE CloseSocket(n, s)
    ELSE LET l == LinkOf(n, s)
             ends == n.link[l].state # "up" \/ n.link[l].rd = << >>
             m == MakeMessage([n EXCEPT !.sock[s].buf = @ \o n.link[l].rd, !.link[l].rd = << >>], s, k)
         IN  IF ends THEN CloseSocket(m, s) ELSE m

-----------------------------------------------------------------------------
(* The net thread's loop: connect, send, wait for events and handle them.  *)

Fails == {"noTimer", "refused", "noMemory"}
NewLink(who, state) == [who |-> who, state |-> state, rd |-> << >>, got |-> {}, said |-> FALSE]
Holds(n, s, fd, l) == [n EXCEPT !.desc[fd] = l, !.sock[s].fd = fd]

\* OpenSocketAsClient: a descriptor, for a link that is to be.
OpenSocketAsClient(n, s, link) ==
    [Holds([n EXCEPT !.link = Append(@, link)], s, NextFd(n), Len(n.link) + 1) EXCEPT !.sock[s].status = "Opened"]

\* Connect, with the outcome o: the timer, connect(2), the entry in the map.
Connect(n, s, o) ==
    LET timed == CreateSocketTimer(n, s)
        routed == AddSocket(timed, n.sock[s].peer, s)
    IN  CASE o = "noTimer" -> CloseSocket(n, s)
          [] o = "refused" -> CloseSocket(timed, s)
          [] o = "syn" -> [routed EXCEPT !.sock[s].status = "Connecting"]
          [] OTHER -> Connected(routed, s, o = "up")

\* ConnectPeerNode: without a descriptor the object is neither free nor open, and
\* nothing finds it again.
ConnectPeerNode(n, s, peer, o) ==
    IF FreeFds(n) = {} THEN [n EXCEPT !.lost = @ \cup {s}]
    ELSE LET opened == OpenSocketAsClient(n, s, NewLink(peer, IF o = "up" THEN "up" ELSE "syn"))
         IN  Connect(RegistEvent([opened EXCEPT !.sock[s].peer = peer], NextFd(n), s), s, o)

\* A configured server without an entry gets a free object of its type.
ConnectPeer(n, peer, o) ==
    IF HasSocket(n, peer)
    THEN IF n.sock[GetSocket(n, peer)].status # "Closed" THEN n
         ELSE ConnectPeerNode(n, GetSocket(n, peer), peer, o)
    ELSE IF n.types[peer[1]] = << >> THEN n
         ELSE ConnectPeerNode(CreateSocketOfType(n, peer[1]), Head(n.types[peer[1]]), peer, o)

\* The configured servers, one after the other.
ConnectPeers(n, o) ==
    LET after[i \in 0 .. Len(config.peers)] ==
            IF i = 0 THEN n ELSE ConnectPeer(after[i - 1], config.peers[i], o)
    IN  after[Len(config.peers)]

ConnectAllPeer ==
    /\ pc = "connect" /\ pc' = "send"
    /\ IF ~net.due THEN UNCHANGED <<net, failures>>
       ELSE \E o \in {"syn", "up"} \cup Fails :
              /\ Failing(o \in Fails)
              /\ net' = ConnectPeers([net EXCEPT !.due = FALSE], o)

\* Send on a socket: on one that is still Connecting the packet is lost either way,
\* and the attempt with it, if the kernel has not completed it.
\* A connection that has ended may or may not be noticed.
Sends(n, s, take, noticed, ok) ==
    CASE n.sock[s].fd = 0 -> [n EXCEPT !.due = TRUE]
      [] n.sock[s].status = "Connecting" ->
            IF StateOf(n, s) = "up" THEN Connected(n, s, ok) ELSE [CloseSocket(n, s) EXCEPT !.due = TRUE]
      [] OTHER -> IF noticed /\ StateOf(n, s) # "up" THEN [CloseSocket(n, s) EXCEPT !.due = TRUE]
                  ELSE [n EXCEPT !.link[LinkOf(n, s)].got = @ \cup take]

SendMessagesToServer(n, noticed, ok) ==
    IF n.sendSS = << >> THEN n
    ELSE LET packet == Head(n.sendSS)
             m == PopSendSSQueue(n)
         IN  IF HasSocket(m, packet.to)
             THEN Sends(m, GetSocket(m, packet.to), {packet.kind}, noticed, ok) ELSE m

\* (mutant) whichever client is found first
SendMessagesToClient_AnyClient(n, noticed) ==
    IF n.sendCS = << >> THEN n
    ELSE LET packet == Head(n.sendCS)
             m == PopSendCSQueue(n)
             keys == {key \in DOMAIN n.servers : key[1] = Client}
         IN  IF keys = {} THEN m
             ELSE LET s == n.servers[CHOOSE key \in keys : TRUE]
                  IN  IF packet.close THEN CloseSocket(m, s) ELSE Sends(m, s, {packet.link}, noticed, TRUE)

\* SendMessagesToClient: to the socket that has the descriptor now, or close it.
SendMessagesToClient(n, noticed) ==
    IF n.sendCS = << >> THEN n
    ELSE LET packet == Head(n.sendCS)
             m == PopSendCSQueue(n)
             key == <<Client, packet.fd>>
         IN  IF ~HasSocket(m, key) THEN m
             ELSE IF packet.close THEN CloseSocket(m, GetSocket(m, key))
             ELSE Sends(m, GetSocket(m, key), {packet.link}, noticed, TRUE)

Ready(n, f) ==
    /\ n.ptr[f] # 0
    /\ LET l == n.link[n.desc[f]]
       IN  \/ l.state \in {"refused", "ended"} \/ l.rd # << >>
           \/ l.state = "up" /\ n.sock[n.ptr[f]].status = "Connecting"

\* epoll_wait, when the net thread has sent: the events there are, in any order.
Wait ==
    \E order \in SetToSeqs({[port |-> "none", s |-> net'.ptr[f], fd |-> f] : f \in {f \in 1 .. MaxFd : Ready(net', f)}}
                          \cup {[port |-> p, s |-> 0, fd |-> 0] : p \in edge}) :
        batch' = order /\ edge' = {}

SendMessages ==
    /\ pc = "send" /\ pc' = "events"
    /\ \E noticed, ok \in BOOLEAN :
          /\ Failing(~ok /\ net.sendSS # << >>)
          /\ net' = SendMessagesToClient(SendMessagesToServer(net, noticed, ok), noticed)
          /\ Wait

\* OnAccept: the first free object of the port gets the descriptor.  It may still be
\* open, if it was replaced.
Accepted(n, s, fd, l) ==
    RegistEvent([Holds([n EXCEPT !.sock[s] = Unused(@.peer)], s, fd, l) EXCEPT !.sock[s].status = "Connected"], fd, s)

OnAcceptInside(n, s, fd, l) == Accepted(CreateSocket(n, "inside"), s, fd, l)

OnAcceptOutside(n, s, fd, l) ==
    LET key == <<Client, fd>>
    IN  AddSocket([Accepted(CreateSocket(n, "outside"), s, fd, l) EXCEPT !.sock[s].peer = key], key, s)

OnAccept(n, port, fd, l) ==
    IF n.ports[port] = << >> THEN n
    ELSE IF port = "inside" THEN OnAcceptInside(n, Head(n.ports[port]), fd, l)
    ELSE OnAcceptOutside(n, Head(n.ports[port]), fd, l)

\* accept fails: there is nobody left, or no descriptor.
AcceptEnds(port) ==
    /\ backlog[port] = << >> \/ FreeFds(net) = {}
    /\ batch' = Tail(batch) /\ UNCHANGED backlog
    /\ net' = [net EXCEPT !.starved = IF backlog[port] = << >> THEN @ \ {port} ELSE @ \cup {port}]

AcceptNext(port) ==
    /\ backlog[port] # << >> /\ FreeFds(net) # {}
    /\ backlog' = [backlog EXCEPT ![port] = Tail(@)]
    /\ net' = OnAccept(net, port, NextFd(net), Head(backlog[port]))

\* (mutant) one connection per event
Accept_One(port) == AcceptEnds(port) \/ (AcceptNext(port) /\ batch' = Tail(batch))

\* ReadEvent of a listening socket accepts until accept fails.
Accept(port) == AcceptEnds(port) \/ (AcceptNext(port) /\ UNCHANGED batch)

\* HandleMessage of epoll: the next event.
HandleMessage ==
    /\ pc = "events" /\ batch # << >> /\ UNCHANGED pc
    /\ \/ /\ Head(batch).port = "none" /\ batch' = Tail(batch) /\ UNCHANGED backlog
          /\ \E k \in {0, config.msgs + 1}, ok \in BOOLEAN :
                /\ Failing(k = 0 \/ ~ok)
                /\ net' = OnRead(net, Head(batch).s, k, ok)
       \/ Head(batch).port # "none" /\ Accept(Head(batch).port) /\ UNCHANGED failures

\* The first k timers are due; ConnectTimeout takes each off the list.
HandleTimeOuts(n, k) ==
    LET after[i \in 0 .. k] ==
            IF i = 0 THEN n ELSE ConnectTimeout(after[i - 1], Head(after[i - 1].timers))
    IN  after[k]

HandleTimeOutEvent ==
    /\ pc = "events" /\ batch = << >> /\ pc' = "connect"
    /\ \E k \in 0 .. Len(net.timers) : net' = HandleTimeOuts(net, k)

NetThread ==
    \/ ConnectAllPeer /\ UNCHANGED <<batch, edge, backlog>>
    \/ SendMessages /\ UNCHANGED backlog
    \/ HandleMessage /\ UNCHANGED edge
    \/ HandleTimeOutEvent /\ UNCHANGED <<batch, edge, backlog, failures>>

NetStep == NetThread /\ UNCHANGED <<config, conn, app, links, msgs>>

-----------------------------------------------------------------------------
(* Application threads and the connections of clients.                     *)

\* PopRecvCSQueue, and GetConnection for a message.
GetPacket(t) ==
    /\ app[t] = NoWork /\ net.recvCS # << >>
    /\ net' = PopRecvCSQueue(net)
    /\ LET packet == Head(net.recvCS)
       IN  app' = [app EXCEPT ![t] = [packet |-> packet,
                        missing |-> ~packet.close /\ packet.fd \notin DOMAIN conn]]
    /\ UNCHANGED conn

\* ProcessCSMessage of a close event: DestroyConnection of whatever has the descriptor.
DestroyConnection(t) ==
    /\ app[t].packet.close
    /\ conn' = Drop(conn, app[t].packet.fd)
    /\ app' = [app EXCEPT ![t] = NoWork] /\ UNCHANGED net

\* Without a connection one is created, or the message is lost, if another thread
\* was quicker.  The handler may answer, or end the connection.
ProcessCSMessage(t) ==
    LET packet == app[t].packet
        answer == [fd |-> packet.fd, link |-> packet.link, close |-> FALSE]
    IN  /\ packet # NoPacket /\ ~packet.close
        /\ app' = [app EXCEPT ![t] = NoWork]
        /\ IF app[t].missing /\ packet.fd \in DOMAIN conn THEN UNCHANGED <<conn, net>>
           ELSE /\ conn' = IF app[t].missing THEN Set(conn, packet.fd, packet.link) ELSE conn
                /\ \/ \E close \in BOOLEAN : net' = PushSendCSQueue(net, [answer EXCEPT !.close = close])
                   \/ UNCHANGED net

AppStep ==
    /\ \E t \in DOMAIN app : GetPacket(t) \/ DestroyConnection(t) \/ ProcessCSMessage(t)
    /\ UNCHANGED <<config, pc, batch, edge, backlog, links, msgs, failures>>

-----------------------------------------------------------------------------
(* Kernel, peers and clock.                                                *)

\* Somebody connects to a listening port: a client, or a server that may register.
Arrives(port, who) ==
    /\ port \in net.listening
    /\ links < config.links /\ links' = links + 1
    /\ net' = [net EXCEPT !.link = Append(@, NewLink(who, "up"))]
    /\ backlog' = [backlog EXCEPT ![port] = Append(@, Len(net.link) + 1)]
    /\ edge' = edge \cup {port} /\ UNCHANGED <<msgs, failures>>

\* The other side sends: a client a message, a server its registration, once.
Says(l) ==
    /\ net.link[l].state = "up" /\ net.link[l].who \notin {config.peers[i] : i \in DOMAIN config.peers}
    /\ IF net.link[l].who = <<Client, 0>> THEN msgs < config.msgs /\ msgs' = msgs + 1
       ELSE ~net.link[l].said /\ UNCHANGED msgs
    /\ net' = [net EXCEPT !.link[l].rd = Append(@, "message"), !.link[l].said = TRUE]
    /\ UNCHANGED <<edge, backlog, links, failures>>

\* The other side ends the connection, or refuses it.
Ends(l) ==
    /\ net.link[l].state \in {"syn", "up"} /\ Failing(TRUE)
    /\ net' = [net EXCEPT !.link[l].state = IF @ = "syn" THEN "refused" ELSE "ended"]
    /\ UNCHANGED <<edge, backlog, links, msgs>>

\* connect(2) completes.
Establish(l) ==
    /\ net.link[l].state = "syn"
    /\ net' = [net EXCEPT !.link[l].state = "up"]
    /\ UNCHANGED <<edge, backlog, links, msgs, failures>>

\* The reconnect time is over.
TimePasses ==
    /\ ~net.due /\ net' = [net EXCEPT !.due = TRUE]
    /\ UNCHANGED <<edge, backlog, links, msgs, failures>>

\* The application posts to a configured server.
PostMessage(x) ==
    /\ msgs < config.msgs /\ msgs' = msgs + 1
    /\ net' = PushSendSSQueue(net, [to |-> x, kind |-> "data"])
    /\ UNCHANGED <<edge, backlog, links, failures>>

Live(l) == \/ \E f \in 1 .. MaxFd : net.desc[f] = l
           \/ \E p \in DOMAIN backlog : \E i \in DOMAIN backlog[p] : backlog[p][i] = l

World ==
    /\ \/ config.outside > 0 /\ Arrives("outside", <<Client, 0>>)
       \/ \E x \in config.callers : Arrives("inside", x)
       \/ \E l \in {l \in DOMAIN net.link : Live(l)} : Says(l) \/ Ends(l) \/ Establish(l)
       \/ TimePasses
       \/ \E i \in DOMAIN config.peers : PostMessage(config.peers[i])
    /\ UNCHANGED <<config, pc, batch, conn, app>>

Next == NetStep \/ AppStep \/ World

Spec == Init /\ [][Next]_vars

\* The operating system schedules the threads, the clock goes on, and the kernel
\* ends every attempt to connect.
FairSpec ==
    /\ Spec /\ WF_vars(NetStep) /\ WF_vars(AppStep)
    /\ WF_vars(World /\ TimePasses)
    /\ WF_vars(World /\ \E l \in {l \in DOMAIN net.link : Live(l)} : Establish(l))
-----------------------------------------------------------------------------
Listed(s) == \/ \E p \in DOMAIN net.ports : \E i \in DOMAIN net.ports[p] : net.ports[p][i] = s
             \/ \E p \in DOMAIN net.types : \E i \in DOMAIN net.types[p] : net.types[p][i] = s

\* As long as no registration replaced an open socket, every object is free, open,
\* or lost to a failed socket(2), one of these and listed once; every descriptor
\* leads to its object, also from an event not yet handled; socket timers belong
\* to attempts to connect.
SocketsAccountedFor == ~net.replaced =>
    /\ \A s \in DOMAIN net.sock :
          Cardinality({where \in {<<"listed", Listed(s)>>, <<"open", net.sock[s].fd # 0>>,
                                  <<"lost", s \in net.lost>>} : where[2]}) = 1
    /\ \A p \in DOMAIN net.ports : IsInjective(net.ports[p])
    /\ \A p \in DOMAIN net.types : IsInjective(net.types[p])
    /\ \A f \in 1 .. MaxFd : net.desc[f] # 0 => net.ptr[f] # 0 /\ net.sock[net.ptr[f]].fd = f
    /\ \A i \in DOMAIN batch : batch[i].s # 0 => net.sock[batch[i].s].fd = batch[i].fd
    /\ \A i \in DOMAIN net.timers : net.sock[net.timers[i]].status = "Connecting"

\* As long as, besides, no connection that never registered ended in an object whose
\* former peer is connected, the map leads exactly to the sockets that are in use,
\* and a server connected to has been sent our registration, or it waits in the queue.
RoutesAreTrue == ~net.replaced /\ ~net.stranger =>
    /\ \A key \in DOMAIN net.servers : LET s == net.servers[key] IN net.sock[s].fd # 0 /\ net.sock[s].peer = key
    /\ \A s \in DOMAIN net.sock :
          net.sock[s].status \in {"Available", "Connecting"} \/ (net.sock[s].fd # 0 /\ BelongPort(s) = "outside")
            => net.sock[s].peer \in DOMAIN net.servers /\ net.servers[net.sock[s].peer] = s
    /\ \A s \in DOMAIN net.sock :
          BelongPort(s) = "none" /\ net.sock[s].status = "Available" =>
              \/ "regist" \in net.link[LinkOf(net, s)].got
              \/ \E i \in DOMAIN net.sendSS : net.sendSS[i] = [to |-> net.sock[s].peer, kind |-> "regist"]

\* A reply goes to another client than it answers only when that one is gone, and
\* its descriptor has been given to the other.
RepliesReachTheirClient ==
    \A l \in DOMAIN net.link : \A answered \in net.link[l].got :
        net.link[l].who = <<Client, 0>> => answered = l \/ ~Live(answered)

\* With one application thread, a connection whose client is gone is taken down by
\* a close event, unless the client went before the connection was made: then
\* nobody is told.
ConnectionsEnd == config.threads = 1 =>
    \A fd \in DOMAIN conn :
        \/ net.desc[fd] = conn[fd] \/ conn[fd] \in net.silent
        \/ \E i \in DOMAIN net.recvCS : net.recvCS[i] = [fd |-> fd, link |-> conn[fd], close |-> TRUE]
        \/ \E t \in DOMAIN app : app[t].packet = [fd |-> fd, link |-> conn[fd], close |-> TRUE]

\* Who waits to be accepted has an event coming, unless descriptors ran out.
BacklogIsNoticed ==
    \A p \in DOMAIN backlog : backlog[p] # << >> =>
        p \in edge \/ p \in net.starved \/ \E i \in DOMAIN batch : batch[i].port = p

\* A configured server is connected to in the end, and again after every failure,
\* unless a failed socket(2) lost its object.
PeersAreConnected ==
    <>[] \/ net.lost # {}
         \/ \A i \in DOMAIN config.peers :
               /\ config.peers[i] \in DOMAIN net.servers
               /\ net.sock[net.servers[config.peers[i]]].status = "Available"
=============================================================================
