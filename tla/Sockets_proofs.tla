--------------------------- MODULE Sockets_proofs ---------------------------
(***************************************************************************)
(* The sockets of a server, for every number of objects, descriptors,      *)
(* threads and peers: what the runs of Sockets check, proved.              *)
(*                                                                         *)
(* A handler goes from state to state of the net thread, so the invariant  *)
(* is about such a state n.  Its parts are kept by every elementary change *)
(* (a descriptor opened, an entry added, a socket closed ...), and a       *)
(* handler is a chain of these.  In between an object may be "Opened":     *)
(* only at the end of a handler no object is.                              *)
(***************************************************************************)
EXTENDS Sockets, SequenceTheorems, FiniteSetTheorems, WellFoundedInduction, TLAPS

-----------------------------------------------------------------------------
(* What the state is made of.                                              *)

Fds == 1 .. MaxFd
PortNames == {"inside", "outside"}
Configured == {config.peers[i] : i \in DOMAIN config.peers}
TypeNames == {config.peers[i][1] : i \in DOMAIN config.peers}
Keys == ServerKeys \cup ({Client} \X Fds)
Maps(K, V) == UNION {[D -> V] : D \in SUBSET K}

SocketSet == [fd : Fds \cup {0}, status : {"Closed", "Opened", "Connecting", "Connected", "Available"},
              peer : Keys \cup {Nobody}, timer : BOOLEAN, buf : Seq({"message"})]
LinkSet == [who : ServerKeys \cup {<<Client, 0>>}, state : {"syn", "up", "refused", "ended"},
            rd : Seq({"message"}), got : SUBSET (Nat \cup {"regist", "data"}), said : BOOLEAN]
PacketSet == [fd : Fds, link : Nat \ {0}, close : BOOLEAN]
OrderSet == [to : ServerKeys, kind : {"regist", "data"}]
EventSet == [port : PortNames \cup {"none"}, s : Objects \cup {0}, fd : Fds \cup {0}]
WorkSet == [packet : PacketSet \cup {NoPacket}, missing : BOOLEAN]

\* The fields of net, each in a set of its own name.
SocketMaps == [Objects -> SocketSet]
PortLists == [PortNames -> Seq(Objects)]
TypeLists == [TypeNames -> Seq(Objects)]
ServerMaps == Maps(Keys, Objects)
TimerLists == Seq(Objects)
LinkLists == Seq(LinkSet)
DescMaps == [Fds -> Nat]
PtrMaps == [Fds -> Objects \cup {0}]
PacketQueues == Seq(PacketSet)
OrderQueues == Seq(OrderSet)
ObjectSets == SUBSET Objects
NumberSets == SUBSET Nat
PortSets == SUBSET PortNames

Nets == [sock : SocketMaps, ports : PortLists, types : TypeLists, servers : ServerMaps, timers : TimerLists,
         link : LinkLists, desc : DescMaps, ptr : PtrMaps, recvCS : PacketQueues, sendSS : OrderQueues,
         sendCS : PacketQueues, due : BOOLEAN, lost : ObjectSets, replaced : BOOLEAN, stranger : BOOLEAN,
         silent : NumberSets, starved : PortSets, listening : PortSets]
Fields == {"sock", "ports", "types", "servers", "timers", "link", "desc", "ptr", "recvCS", "sendSS", "sendCS",
           "due", "lost", "replaced", "stranger", "silent", "starved", "listening"}

\* From n to m no field changes but those of F.
Same(n, m, F) == \A field \in Fields \ F : m[field] = n[field]

\* The map g is the map f, but for x.
Differs(f, g, x, value) == \A y \in DOMAIN f : g[y] = IF y = x THEN value ELSE f[y]

\* No object changes but s; of that, no field but those of F.
SocketFields == {"fd", "status", "peer", "timer", "buf"}
Of(n, m, s, F) == \A field \in SocketFields \ F : m.sock[s][field] = n.sock[s][field]
Others(n, m, s) == \A r \in Objects : r # s => m.sock[r] = n.sock[r]

Backlogs == [PortNames -> Seq(Nat)]

-----------------------------------------------------------------------------
(* The inductive invariant, part by part: n is a state of the net thread,  *)
(* b the links to be accepted, c the connections, a what the application   *)
(* threads work on.                                                        *)

\* A socket without a descriptor is closed; no two have the same one, no two descriptors
\* the same link; an outside socket has a client's link, the others a server's.
Holding(n) ==
    /\ \A s \in Objects : n.sock[s].status = "Closed" <=> n.sock[s].fd = 0
    /\ \A s \in Objects : n.sock[s].fd # 0 =>
          /\ n.desc[n.sock[s].fd] # 0
          /\ BelongPort(s) = "outside" <=> n.link[n.desc[n.sock[s].fd]].who = <<Client, 0>>
          /\ BelongPort(s) = "none" => n.link[n.desc[n.sock[s].fd]].who \in Configured
    /\ \A r, s \in Objects : n.sock[r].fd # 0 /\ n.sock[r].fd = n.sock[s].fd => r = s
    /\ \A f \in Fds : n.desc[f] <= Len(n.link)
    /\ \A f, g \in Fds : n.desc[f] # 0 /\ n.desc[f] = n.desc[g] => f = g

\* A link waits in one place, has no descriptor yet, and came to the port for its kind.
Waiting(n, b) ==
    /\ \A p \in PortNames : \A l \in ToSet(b[p]) :
          /\ l \in 1 .. Len(n.link)
          /\ p = "outside" <=> n.link[l].who = <<Client, 0>>
          /\ \A f \in Fds : n.desc[f] # l
    /\ \A p \in PortNames : IsInjective(b[p])

\* A server that is connected to says nothing.
Quiet(n) ==
    /\ \A l \in 1 .. Len(n.link) : n.link[l].who \in Configured => n.link[l].rd = << >>
    /\ \A s \in Objects : BelongPort(s) = "none" => n.sock[s].buf = << >>

\* A client's entry leads to its outside socket and every open outside socket has one;
\* a server's entry leads elsewhere.  The free outside sockets are closed.
Clients(n) ==
    /\ \A key \in DOMAIN n.servers : key[1] = Client =>
          BelongPort(n.servers[key]) = "outside" /\ n.sock[n.servers[key]].fd = key[2]
    /\ \A key \in DOMAIN n.servers : key[1] # Client => BelongPort(n.servers[key]) # "outside"
    /\ \A s \in Objects : BelongPort(s) = "outside" /\ n.sock[s].fd # 0 =>
          /\ n.sock[s].status = "Connected" /\ n.sock[s].peer = <<Client, n.sock[s].fd>>
          /\ <<Client, n.sock[s].fd>> \in DOMAIN n.servers /\ n.servers[<<Client, n.sock[s].fd>>] = s
    /\ \A s \in Objects : BelongPort(s) # "outside" =>
          /\ n.sock[s].peer \in ServerKeys \cup {Nobody}
          /\ n.sock[s].status \in {"Opened", "Connecting"} => n.sock[s].peer \in ServerKeys
    /\ \A p \in PortNames : \A s \in ToSet(n.ports[p]) : BelongPort(s) = p
    /\ \A s \in ToSet(n.ports["outside"]) : n.sock[s].fd = 0
    /\ IsInjective(n.ports["outside"])
    /\ \A type \in TypeNames : \A s \in ToSet(n.types[type]) : BelongPort(s) = "none"

\* The type of server an object is for, and the list an object waits in.
TypeOf(s) == config.peers[s - (config.inside + config.outside)][1]
HomeList(n, s) == IF BelongPort(s) = "none" THEN n.types[TypeOf(s)] ELSE n.ports[BelongPort(s)]

\* As long as no open socket was replaced: an object is in its list, once, or open, or lost.
Free(n) ==
    /\ \A p \in PortNames : IsInjective(n.ports[p])
    /\ \A type \in TypeNames : IsInjective(n.types[type])
    /\ \A type \in TypeNames : \A s \in ToSet(n.types[type]) : TypeOf(s) = type
    /\ \A s \in Objects : s \in ToSet(HomeList(n, s)) => n.sock[s].fd = 0 /\ s \notin n.lost
    /\ \A s \in Objects : n.sock[s].fd # 0 \/ s \in n.lost \/ s \in ToSet(HomeList(n, s))
    /\ \A s \in n.lost : n.sock[s].fd = 0

\* ... descriptors and epoll lead to their objects,
Pointed(n) == \A f \in Fds :
    /\ n.desc[f] # 0 => n.ptr[f] # 0 /\ n.sock[n.ptr[f]].fd = f
    /\ n.ptr[f] # 0 => n.desc[f] # 0

\* ... timers belong to attempts to connect, which objects for a type of server make, each to one of its type,
Timed(n) ==
    /\ IsInjective(n.timers)
    /\ \A s \in Objects : n.sock[s].timer <=> s \in ToSet(n.timers)
    /\ \A s \in Objects : n.sock[s].timer => n.sock[s].status \in {"Opened", "Connecting"}
    /\ \A s \in Objects : n.sock[s].status \in {"Opened", "Connecting"} => BelongPort(s) = "none"
    /\ \A s \in Objects : BelongPort(s) = "none" /\ n.sock[s].fd # 0 =>
          n.sock[s].peer[1] = TypeOf(s) /\ n.link[LinkOf(n, s)].who = n.sock[s].peer

\* ... and every entry leads to an open socket with that peer, an inside one after its registration.
Entered(n) == \A key \in DOMAIN n.servers : LET s == n.servers[key] IN
    /\ n.sock[s].fd # 0 /\ n.sock[s].peer = key
    /\ BelongPort(s) = "inside" => n.sock[s].status = "Available" /\ n.link[LinkOf(n, s)].who = key

Accounted(n) == ~n.replaced => Free(n) /\ Pointed(n) /\ Timed(n) /\ Entered(n)

\* As long as, besides, no stranger took an entry away.  An object that is not connecting yet
\* leaves the entry of its peer to nobody else.
Routed(n) == ~n.replaced /\ ~n.stranger =>
    /\ \A s \in Objects : n.sock[s].status \in {"Available", "Connecting"} =>
          n.sock[s].peer \in DOMAIN n.servers /\ n.servers[n.sock[s].peer] = s
    /\ \A s \in Objects : BelongPort(s) = "none" /\ n.sock[s].fd # 0 /\ n.sock[s].peer \in DOMAIN n.servers =>
          n.servers[n.sock[s].peer] = s
    /\ \A s \in Objects : BelongPort(s) = "none" /\ n.sock[s].status = "Available" =>
          \/ "regist" \in n.link[LinkOf(n, s)].got
          \/ [to |-> n.sock[s].peer, kind |-> "regist"] \in ToSet(n.sendSS)

\* A packet's link is a client's, was accepted, and never had another descriptor.
PacketOK(n, b, packet) ==
    /\ packet.fd \in Fds /\ packet.link \in 1 .. Len(n.link) /\ n.link[packet.link].who = <<Client, 0>>
    /\ \A f \in Fds : n.desc[f] = packet.link => f = packet.fd
    /\ \A p \in PortNames : packet.link \notin ToSet(b[p])
Packets(n, b, a) ==
    /\ \A packet \in ToSet(n.recvCS) : PacketOK(n, b, packet)
    /\ \A packet \in ToSet(n.sendCS) : PacketOK(n, b, packet)
    /\ \A t \in DOMAIN a : a[t].packet # NoPacket => PacketOK(n, b, a[t].packet)

\* RepliesReachTheirClient, of links that have been made.
Alive(n, b, l) == (\E f \in Fds : n.desc[f] = l) \/ (\E p \in PortNames : l \in ToSet(b[p]))
Replies(n, b) == \A l \in 1 .. Len(n.link) : n.link[l].who = <<Client, 0>> =>
    \A answered \in n.link[l].got : answered \in 1 .. Len(n.link) /\ (answered = l \/ ~Alive(n, b, answered))

\* With one application thread: of a message's link, and of a connection's, the end is still
\* to come, was silent, or is announced by a close event behind it.
CloseOf(fd, l) == [fd |-> fd, link |-> l, close |-> TRUE]
Ending(n, fd, l, i) == \/ n.desc[fd] = l \/ l \in n.silent
                       \/ \E j \in 1 .. Len(n.recvCS) : j > i /\ n.recvCS[j] = CloseOf(fd, l)
Ended(n, c, a) ==
    /\ \A i \in 1 .. Len(n.recvCS) : LET packet == n.recvCS[i] IN packet.close \/ Ending(n, packet.fd, packet.link, i)
    /\ \A t \in DOMAIN a : LET packet == a[t].packet
                           IN  packet = NoPacket \/ packet.close \/ Ending(n, packet.fd, packet.link, 0)
    /\ \A fd \in DOMAIN c : /\ fd \in Fds /\ c[fd] \in 1 .. Len(n.link) /\ n.link[c[fd]].who = <<Client, 0>>
                            /\ Ending(n, fd, c[fd], 0) \/ \E t \in DOMAIN a : a[t].packet = CloseOf(fd, c[fd])

\* What every elementary change of the net thread keeps ...
Safe(n, b) ==
    /\ n \in Nets /\ Holding(n) /\ Waiting(n, b) /\ Quiet(n) /\ Clients(n)
    /\ Accounted(n) /\ Routed(n) /\ Packets(n, b, app) /\ Replies(n, b)
    /\ config.threads = 1 => Ended(n, conn, app)

\* ... and every handler: an object that is to connect does, or waits for the answer.
Calm(n, s) == n.sock[s].status # "Opened" /\ (BelongPort(s) = "none" => n.sock[s].status # "Connected")
Settled(n) == \A s \in Objects : Calm(n, s)

\* The events the net thread still has to handle: of sockets each with its descriptor.
Events(n, q) ==
    /\ q \in Seq(EventSet)
    /\ \A i \in 1 .. Len(q) : q[i].port = "none" => q[i].s \in Objects /\ q[i].fd \in Fds
    /\ \A i \in 1 .. Len(q) : q[i].port # "none" => q[i].s = 0
    /\ \A i, j \in 1 .. Len(q) : q[i].port = "none" /\ q[j].port = "none" /\ q[i].fd = q[j].fd => i = j
    /\ ~n.replaced => \A i \in 1 .. Len(q) : q[i].port = "none" => n.sock[q[i].s].fd = q[i].fd

Noticed == \A p \in PortNames : ToSet(backlog[p]) # {} =>
    p \in edge \/ p \in net.starved \/ \E i \in 1 .. Len(batch) : batch[i].port = p

IInv ==
    /\ config \in Configs
    /\ pc \in {"connect", "send", "events"} /\ (pc # "events" => batch = << >>)
    /\ edge \in SUBSET PortNames /\ backlog \in Backlogs
    /\ conn \in Maps(Fds, Nat) /\ app \in [1 .. config.threads -> WorkSet]
    /\ Safe(net, backlog) /\ Settled(net) /\ Events(net, batch) /\ Noticed

-----------------------------------------------------------------------------
(* Lists, and the sets of their elements.                                  *)

\* A non-empty set of numbers has a smallest one.
LEMMA SmallestExists ==
    ASSUME NEW I, I \subseteq Nat, I # {}
    PROVE  \E x \in I : \A y \in I : x <= y
<1> DEFINE R == OpToRel(<, Nat)
<1>1. IsWellFoundedOn(R, Nat)
    BY NatLessThanWellFounded, Zenon
<1>2. \A a, b \in Nat : a < b => <<a, b>> \in R
    BY DEF OpToRel
<1> HIDE DEF R
<1>3. PICK x \in I : \A y \in I : ~ (<<y, x>> \in R)
    BY <1>1, WFMin
<1>4. ASSUME NEW y \in I PROVE x <= y
    <2>1. x \in Nat /\ y \in Nat /\ ~ (y < x)
        BY <1>2, <1>3
    <2> QED
        BY <2>1
<1> QED
    BY <1>3, <1>4

\* RemoveFirst takes one place out of a list and moves up what follows it.
LEMMA RemoveFirstElements ==
    ASSUME NEW S, NEW q \in Seq(S), NEW e, e \in ToSet(q)
    PROVE  \E k \in 1 .. Len(q) :
              /\ q[k] = e
              /\ RemoveFirst(q, e) \in Seq(S) /\ Len(RemoveFirst(q, e)) = Len(q) - 1
              /\ \A i \in 1 .. Len(q) - 1 :
                    RemoveFirst(q, e)[i] = IF i < k THEN q[i] ELSE q[i + 1]
<1> DEFINE I == {i \in 1 .. Len(q) : q[i] = e}
           k == SelectInSeq(q, LAMBDA v : v = e)
           a == SubSeq(q, 1, k - 1)
           b == SubSeq(q, k + 1, Len(q))
<1>1. I # {} /\ I \subseteq 1 .. Len(q) /\ I \subseteq Nat /\ Len(q) \in Nat
    BY DEF ToSet
<1>2. \E x \in I : \A y \in I : x <= y
    BY <1>1, SmallestExists
<1>3. k = Min(I)
    BY <1>1 DEF SelectInSeq
<1>4. k \in 1 .. Len(q) /\ q[k] = e
    <2>1. k \in I
        BY <1>1, <1>2, <1>3, Zenon DEF Min
    <2> QED
        BY <2>1
<1>5. RemoveFirst(q, e) = a \o b
    BY <1>1 DEF RemoveFirst, RemoveAt
<1> HIDE DEF k
<1>6. /\ a \in Seq(S) /\ Len(a) = k - 1 /\ b \in Seq(S) /\ Len(b) = Len(q) - k
      /\ \A i \in 1 .. k - 1 : a[i] = q[i]
      /\ \A i \in 1 .. Len(q) - k : b[i] = q[k + i]
    BY <1>4
<1> HIDE DEF a, b
<1>7. a \o b \in Seq(S) /\ Len(a \o b) = Len(q) - 1
    <2>1. a \o b \in Seq(S) /\ Len(a \o b) = Len(a) + Len(b)
        BY <1>6, SMTT(30)
    <2> QED
        BY <1>1, <1>4, <1>6, <2>1
<1>8. ASSUME NEW i \in 1 .. Len(q) - 1
      PROVE  (a \o b)[i] = IF i < k THEN q[i] ELSE q[i + 1]
    <2>1. CASE i < k
        BY <1>1, <1>4, <1>6, <2>1
    <2>2. CASE ~ (i < k)
        <3>1. i - (k - 1) \in 1 .. Len(q) - k /\ k + (i - (k - 1)) = i + 1
            BY <1>1, <1>4, <2>2
        <3>2. (a \o b)[i] = b[i - (k - 1)]
            BY <1>1, <1>4, <1>6, <2>2
        <3> QED
            BY <1>6, <2>2, <3>1, <3>2
    <2> QED
        BY <2>1, <2>2
<1> QED
    BY <1>4, <1>5, <1>7, <1>8

LEMMA RemoveFirstOfAbsent ==
    ASSUME NEW q, NEW e, e \notin ToSet(q)
    PROVE  RemoveFirst(q, e) = q
BY DEF RemoveFirst, ToSet

\* ... and of a list that holds none twice, it is the one.
LEMMA RemoveFirstTakes ==
    ASSUME NEW S, NEW q \in Seq(S), NEW e, IsInjective(q)
    PROVE  IsInjective(RemoveFirst(q, e)) /\ ToSet(RemoveFirst(q, e)) = ToSet(q) \ {e}
<1>1. CASE e \in ToSet(q)
    <2> DEFINE r == RemoveFirst(q, e)
    <2>1. PICK k \in 1 .. Len(q) : /\ q[k] = e /\ r \in Seq(S) /\ Len(r) = Len(q) - 1
                                   /\ \A i \in 1 .. Len(q) - 1 : r[i] = IF i < k THEN q[i] ELSE q[i + 1]
        BY <1>1, RemoveFirstElements
    <2> HIDE DEF r
    <2>2. \A i, j \in 1 .. Len(q) : q[i] = q[j] => i = j
        BY DEF IsInjective
    <2>3. Len(q) \in Nat /\ DOMAIN r = 1 .. Len(q) - 1
        BY <2>1
    <2>4. IsInjective(r)
        <3> SUFFICES ASSUME NEW i \in 1 .. Len(q) - 1, NEW j \in 1 .. Len(q) - 1, r[i] = r[j]
                     PROVE  i = j
            BY <2>3 DEF IsInjective
        <3> DEFINE p(n) == IF n < k THEN n ELSE n + 1
        <3>1. p(i) \in 1 .. Len(q) /\ p(j) \in 1 .. Len(q) /\ (p(i) = p(j) => i = j)
            BY <2>1, <2>3
        <3>2. r[i] = q[p(i)] /\ r[j] = q[p(j)]
            BY <2>1
        <3> QED
            BY <2>2, <3>1, <3>2
    <2>5. ASSUME NEW x \in ToSet(r) PROVE x \in ToSet(q) \ {e}
        <3>1. PICK i \in 1 .. Len(q) - 1 : x = r[i]
            BY <2>3 DEF ToSet
        <3>2. PICK n \in 1 .. Len(q) : n # k /\ x = q[n]
            BY <2>1, <2>3, <3>1
        <3> QED
            BY <2>1, <2>2, <3>2 DEF ToSet
    <2>6. ASSUME NEW x \in ToSet(q) \ {e} PROVE x \in ToSet(r)
        <3>1. PICK n \in 1 .. Len(q) : x = q[n] /\ n # k
            BY <2>1 DEF ToSet
        <3> DEFINE i == IF n < k THEN n ELSE n - 1
        <3>2. i \in 1 .. Len(q) - 1 /\ r[i] = q[n]
            BY <2>1, <2>3, <3>1
        <3> QED
            BY <2>3, <3>1, <3>2 DEF ToSet
    <2> QED
        BY <2>4, <2>5, <2>6 DEF r
<1>2. CASE e \notin ToSet(q)
    BY <1>2, RemoveFirstOfAbsent
<1> QED
    BY <1>1, <1>2

LEMMA RemoveFirstType ==
    ASSUME NEW S, NEW q \in Seq(S), NEW e
    PROVE  RemoveFirst(q, e) \in Seq(S) /\ Len(q) - 1 <= Len(RemoveFirst(q, e))
<1>1. CASE e \in ToSet(q)
    <2>1. RemoveFirst(q, e) \in Seq(S) /\ Len(RemoveFirst(q, e)) = Len(q) - 1 /\ Len(q) \in Nat
        BY <1>1, RemoveFirstElements
    <2> QED
        BY <2>1
<1>2. CASE e \notin ToSet(q)
    BY <1>2, RemoveFirstOfAbsent
<1> QED
    BY <1>1, <1>2

LEMMA ElementsTyped ==
    ASSUME NEW S, NEW q \in Seq(S)
    PROVE  ToSet(q) \subseteq S /\ (q = << >> <=> ToSet(q) = {})
BY DEF ToSet

LEMMA ElementAt ==
    ASSUME NEW S, NEW q \in Seq(S), NEW i \in 1 .. Len(q)
    PROVE  q[i] \in ToSet(q)
BY DEF ToSet

LEMMA AppendElements ==
    ASSUME NEW S, NEW q \in Seq(S), NEW e \in S
    PROVE  /\ Append(q, e) \in Seq(S)
           /\ ToSet(Append(q, e)) = ToSet(q) \cup {e}
           /\ IsInjective(q) /\ e \notin ToSet(q) => IsInjective(Append(q, e))
<1> DEFINE r == Append(q, e)
<1>1. /\ r \in Seq(S) /\ Len(r) = Len(q) + 1 /\ r[Len(q) + 1] = e /\ Len(q) \in Nat
      /\ \A i \in 1 .. Len(q) : r[i] = q[i]
    OBVIOUS
<1> HIDE DEF r
<1>2. DOMAIN r = 1 .. Len(q) + 1 /\ DOMAIN q = 1 .. Len(q)
    BY <1>1
<1>3. ToSet(r) = ToSet(q) \cup {e}
    <2>1. ASSUME NEW x \in ToSet(r) PROVE x \in ToSet(q) \cup {e}
        <3>1. PICK i \in 1 .. Len(q) + 1 : x = r[i]
            BY <1>2 DEF ToSet
        <3> QED
            BY <1>1, <1>2, <3>1 DEF ToSet
    <2>2. ASSUME NEW x \in ToSet(q) \cup {e} PROVE x \in ToSet(r)
        BY <1>1, <1>2 DEF ToSet
    <2> QED
        BY <2>1, <2>2
<1>4. ASSUME IsInjective(q), e \notin ToSet(q) PROVE IsInjective(r)
    BY <1>1, <1>2, <1>4 DEF IsInjective, ToSet
<1> QED
    BY <1>1, <1>3, <1>4 DEF r

LEMMA TailElements ==
    ASSUME NEW S, NEW q \in Seq(S), q # << >>
    PROVE  /\ Head(q) \in ToSet(q) /\ Head(q) \in S /\ Tail(q) \in Seq(S)
           /\ ToSet(q) = ToSet(Tail(q)) \cup {Head(q)}
           /\ IsInjective(q) => IsInjective(Tail(q)) /\ Head(q) \notin ToSet(Tail(q))
<1> DEFINE r == Tail(q)
<1>1. /\ Len(q) \in Nat /\ Len(q) > 0 /\ r \in Seq(S) /\ Len(r) = Len(q) - 1 /\ Head(q) = q[1] /\ Head(q) \in S
      /\ \A i \in 1 .. Len(q) - 1 : r[i] = q[i + 1]
    OBVIOUS
<1> HIDE DEF r
<1>2. DOMAIN r = 1 .. Len(q) - 1 /\ DOMAIN q = 1 .. Len(q)
    BY <1>1
<1>3. Head(q) \in ToSet(q)
    BY <1>1, <1>2 DEF ToSet
<1>4. ToSet(q) = ToSet(r) \cup {Head(q)}
    <2>1. ASSUME NEW x \in ToSet(q) PROVE x \in ToSet(r) \cup {Head(q)}
        <3>1. PICK i \in 1 .. Len(q) : x = q[i]
            BY <1>2 DEF ToSet
        <3>2. i = 1 \/ (i - 1 \in 1 .. Len(q) - 1 /\ i = (i - 1) + 1)
            BY <1>1
        <3> QED
            BY <1>1, <1>2, <3>1, <3>2 DEF ToSet
    <2>2. ASSUME NEW x \in ToSet(r) PROVE x \in ToSet(q)
        <3>1. PICK i \in 1 .. Len(q) - 1 : x = r[i]
            BY <1>2 DEF ToSet
        <3>2. i + 1 \in 1 .. Len(q) /\ q[i + 1] = x
            BY <1>1, <3>1
        <3> QED
            BY <1>2, <3>2 DEF ToSet
    <2> QED
        BY <1>3, <2>1, <2>2
<1>5. ASSUME IsInjective(q) PROVE IsInjective(r) /\ Head(q) \notin ToSet(r)
    <2>1. \A i, j \in 1 .. Len(q) - 1 : i + 1 \in 1 .. Len(q) /\ 1 \in 1 .. Len(q) /\ 1 # i + 1 /\ (i + 1 = j + 1 => i = j)
        BY <1>1
    <2>2. \A i, j \in 1 .. Len(q) : q[i] = q[j] => i = j
        BY <1>2, <1>5 DEF IsInjective
    <2>3. \A i, j \in 1 .. Len(q) - 1 : r[i] = r[j] => i = j
        BY <1>1, <2>1, <2>2
    <2>4. \A i \in 1 .. Len(q) - 1 : r[i] # Head(q)
        BY <1>1, <2>1, <2>2
    <2> QED
        BY <1>2, <2>3, <2>4 DEF IsInjective, ToSet
<1> QED
    BY <1>1, <1>3, <1>4, <1>5 DEF r

-----------------------------------------------------------------------------
(* The configuration, the objects and the descriptors.                     *)

LEMMA ConfigFacts ==
    ASSUME config \in Configs
    PROVE  /\ config.inside \in Nat /\ config.outside \in Nat /\ config.msgs \in Nat /\ MaxFd \in Nat
           /\ config.peers \in Seq(ServerKeys) /\ config.callers \subseteq ServerKeys
           /\ Objects \subseteq Nat /\ 0 \notin Objects
           /\ Configured \subseteq ServerKeys /\ \A peer \in Configured : peer[1] \in TypeNames
           /\ \A s \in Objects : BelongPort(s) = "none" => TypeOf(s) \in TypeNames
           /\ \A s \in Objects : BelongPort(s) \in PortNames \cup {"none"}
<1>1. /\ config.inside \in Nat /\ config.outside \in Nat /\ config.msgs \in Nat /\ MaxFd \in Nat
      /\ config.peers \in Seq(ServerKeys) /\ config.callers \subseteq ServerKeys
    BY SocketsAssumption
<1> DEFINE base == config.inside + config.outside
<1>2. base \in Nat /\ Len(config.peers) \in Nat /\ DOMAIN config.peers = 1 .. Len(config.peers)
    BY <1>1
<1>3. Objects = 1 .. base + Len(config.peers)
    BY DEF Objects
<1>4. \A s \in Objects : BelongPort(s) = "none" => s - base \in 1 .. Len(config.peers)
    BY <1>1, <1>2, <1>3 DEF BelongPort
<1>5. \A i \in 1 .. Len(config.peers) : config.peers[i] \in ServerKeys
    BY <1>1
<1> HIDE DEF base
<1>6. \A s \in Objects : BelongPort(s) = "none" => TypeOf(s) = config.peers[s - base][1]
    BY DEF TypeOf, base
<1>7. Configured \subseteq ServerKeys /\ \A peer \in Configured : peer[1] \in TypeNames
    BY <1>2, <1>5 DEF Configured, TypeNames
<1>8. \A s \in Objects : BelongPort(s) = "none" => TypeOf(s) \in TypeNames
    BY <1>2, <1>4, <1>6 DEF TypeNames
<1>9. \A s \in Objects : BelongPort(s) \in PortNames \cup {"none"}
    BY DEF BelongPort, PortNames
<1> QED
    BY <1>1, <1>2, <1>3, <1>7, <1>8, <1>9

\* A descriptor that is free is found.
LEMMA NextFdIsFree ==
    ASSUME config \in Configs, NEW n, FreeFds(n) # {}
    PROVE  NextFd(n) \in Fds /\ n.desc[NextFd(n)] = 0
<1>1. FreeFds(n) \subseteq Nat
    BY ConfigFacts DEF FreeFds
<1>2. \E f \in FreeFds(n) : \A g \in FreeFds(n) : f <= g
    BY <1>1, SmallestExists
<1>3. NextFd(n) \in FreeFds(n)
    BY <1>2 DEF NextFd
<1> QED
    BY <1>3 DEF FreeFds, Fds

-----------------------------------------------------------------------------
(* What the operators of the model change.                                 *)

LEMMA SameTransitive ==
    ASSUME NEW n, NEW m, NEW k, NEW F, NEW G, Same(n, m, F), Same(m, k, G)
    PROVE  Same(n, k, F \cup G)
BY DEF Same

LEMMA PushSSEffect ==
    ASSUME NEW n \in Nets, NEW order \in OrderSet
    PROVE  LET m == PushSendSSQueue(n, order)
           IN  m \in Nets /\ m.sendSS = Append(n.sendSS, order) /\ Same(n, m, {"sendSS"})
<1>1. Append(n.sendSS, order) \in OrderQueues
    BY DEF Nets, OrderQueues
<1> QED
    BY <1>1 DEF PushSendSSQueue, Nets, Same, Fields

LEMMA PopSSEffect ==
    ASSUME NEW n \in Nets, n.sendSS # << >>
    PROVE  LET m == PopSendSSQueue(n)
           IN  m \in Nets /\ m.sendSS = Tail(n.sendSS) /\ Same(n, m, {"sendSS"})
<1>1. Tail(n.sendSS) \in OrderQueues
    BY TailElements DEF Nets, OrderQueues
<1> QED
    BY <1>1 DEF PopSendSSQueue, Nets, Same, Fields

LEMMA PushCSEffect ==
    ASSUME NEW n \in Nets, NEW packet \in PacketSet
    PROVE  LET m == PushSendCSQueue(n, packet)
           IN  m \in Nets /\ m.sendCS = Append(n.sendCS, packet) /\ Same(n, m, {"sendCS"})
<1>1. Append(n.sendCS, packet) \in PacketQueues
    BY DEF Nets, PacketQueues
<1> QED
    BY <1>1 DEF PushSendCSQueue, Nets, Same, Fields

LEMMA PopCSEffect ==
    ASSUME NEW n \in Nets, n.sendCS # << >>
    PROVE  LET m == PopSendCSQueue(n)
           IN  m \in Nets /\ m.sendCS = Tail(n.sendCS) /\ Same(n, m, {"sendCS"})
<1>1. Tail(n.sendCS) \in PacketQueues
    BY TailElements DEF Nets, PacketQueues
<1> QED
    BY <1>1 DEF PopSendCSQueue, Nets, Same, Fields

LEMMA PopRecvEffect ==
    ASSUME NEW n \in Nets, n.recvCS # << >>
    PROVE  LET m == PopRecvCSQueue(n)
           IN  m \in Nets /\ m.recvCS = Tail(n.recvCS) /\ Same(n, m, {"recvCS"})
<1>1. Tail(n.recvCS) \in PacketQueues
    BY TailElements DEF Nets, PacketQueues
<1> QED
    BY <1>1 DEF PopRecvCSQueue, Nets, Same, Fields

LEMMA CreateEffect ==
    ASSUME NEW n \in Nets, NEW port \in PortNames, n.ports[port] # << >>
    PROVE  LET m == CreateSocket(n, port)
           IN  m \in Nets /\ Differs(n.ports, m.ports, port, Tail(n.ports[port])) /\ Same(n, m, {"ports"})
<1>1. n.ports \in PortLists
    BY DEF Nets
<1>2. Tail(n.ports[port]) \in Seq(Objects)
    BY <1>1, TailElements DEF PortLists
<1>3. [n.ports EXCEPT ![port] = Tail(@)] \in PortLists
    BY <1>1, <1>2 DEF PortLists
<1> QED
    BY <1>1, <1>3 DEF CreateSocket, Nets, Same, Fields, Differs, PortLists

LEMMA CreateOfTypeEffect ==
    ASSUME NEW n \in Nets, NEW type \in TypeNames, n.types[type] # << >>
    PROVE  LET m == CreateSocketOfType(n, type)
           IN  m \in Nets /\ Differs(n.types, m.types, type, Tail(n.types[type])) /\ Same(n, m, {"types"})
<1>1. n.types \in TypeLists
    BY DEF Nets
<1>2. Tail(n.types[type]) \in Seq(Objects)
    BY <1>1, TailElements DEF TypeLists
<1>3. [n.types EXCEPT ![type] = Tail(@)] \in TypeLists
    BY <1>1, <1>2 DEF TypeLists
<1> QED
    BY <1>1, <1>3 DEF CreateSocketOfType, Nets, Same, Fields, Differs, TypeLists

LEMMA DestroyEffect ==
    ASSUME NEW n \in Nets, NEW s \in Objects
    PROVE  LET m == DestroySocketObject(n, s)
               type == n.sock[s].peer[1]
           IN  /\ m \in Nets /\ Same(n, m, {"ports", "types"})
               /\ IF BelongPort(s) = "none" THEN m.ports = n.ports
                  ELSE Differs(n.ports, m.ports, BelongPort(s), Append(n.ports[BelongPort(s)], s))
               /\ IF BelongPort(s) = "none" /\ type \in TypeNames
                  THEN Differs(n.types, m.types, type, Append(n.types[type], s)) ELSE m.types = n.types
<1>1. n.ports \in PortLists /\ n.types \in TypeLists
    BY DEF Nets
<1>2. DOMAIN n.ports = PortNames /\ DOMAIN n.types = TypeNames
    BY <1>1 DEF PortLists, TypeLists
<1>3. BelongPort(s) \in PortNames <=> BelongPort(s) # "none"
    BY DEF BelongPort, PortNames
<1>4. CASE BelongPort(s) \in PortNames
    <2>1. [n.ports EXCEPT ![BelongPort(s)] = Append(@, s)] \in PortLists
        BY <1>1, <1>4 DEF PortLists
    <2>2. DestroySocketObject(n, s) = [n EXCEPT !.ports[BelongPort(s)] = Append(@, s)]
        BY <1>2, <1>4 DEF DestroySocketObject
    <2> QED
        BY <1>1, <1>3, <1>4, <2>1, <2>2, Zenon DEF Nets, Same, Fields, Differs, PortLists
<1>5. CASE BelongPort(s) \notin PortNames /\ n.sock[s].peer[1] \in TypeNames
    <2>1. [n.types EXCEPT ![n.sock[s].peer[1]] = Append(@, s)] \in TypeLists
        BY <1>1, <1>5 DEF TypeLists
    <2>2. DestroySocketObject(n, s) = [n EXCEPT !.types[n.sock[s].peer[1]] = Append(@, s)]
        BY <1>2, <1>5 DEF DestroySocketObject
    <2> QED
        BY <1>1, <1>3, <1>5, <2>1, <2>2, ZenonT(40) DEF Nets, Same, Fields, Differs, TypeLists
<1>6. CASE BelongPort(s) \notin PortNames /\ n.sock[s].peer[1] \notin TypeNames
    <2>1. DestroySocketObject(n, s) = n
        BY <1>2, <1>6 DEF DestroySocketObject
    <2> QED
        BY <1>3, <1>6, <2>1 DEF Same
<1> QED
    BY <1>4, <1>5, <1>6

\* A finite map without a key, and with one more.
LEMMA DropEffect ==
    ASSUME NEW K, NEW V, NEW map \in Maps(K, V), NEW key
    PROVE  /\ Drop(map, key) \in Maps(K, V) /\ DOMAIN Drop(map, key) = DOMAIN map \ {key}
           /\ \A k \in DOMAIN map \ {key} : Drop(map, key)[k] = map[k]
<1>1. PICK D \in SUBSET K : map \in [D -> V]
    BY DEF Maps
<1>2. DOMAIN map = D /\ \A k \in D : map[k] \in V
    BY <1>1
<1>3. Drop(map, key) \in [D \ {key} -> V]
    BY <1>2 DEF Drop
<1>4. D \ {key} \in SUBSET K
    OBVIOUS
<1> QED
    BY <1>2, <1>3, <1>4 DEF Drop, Maps

LEMMA SetEffect ==
    ASSUME NEW K, NEW V, NEW map \in Maps(K, V), NEW key \in K, NEW value \in V
    PROVE  /\ Set(map, key, value) \in Maps(K, V) /\ DOMAIN Set(map, key, value) = DOMAIN map \cup {key}
           /\ Set(map, key, value)[key] = value
           /\ \A k \in DOMAIN map : k # key => Set(map, key, value)[k] = map[k]
<1>1. PICK D \in SUBSET K : map \in [D -> V]
    BY DEF Maps
<1>2. DOMAIN map = D /\ \A k \in D : map[k] \in V
    BY <1>1
<1>3. Set(map, key, value) \in [D \cup {key} -> V]
    BY <1>2 DEF Set
<1>4. D \cup {key} \in SUBSET K
    OBVIOUS
<1> QED
    BY <1>2, <1>3, <1>4 DEF Set, Maps

LEMMA MapElement ==
    ASSUME NEW K, NEW V, NEW map \in Maps(K, V), NEW k \in DOMAIN map
    PROVE  k \in K /\ map[k] \in V
BY DEF Maps

LEMMA DelEffect ==
    ASSUME NEW n \in Nets, NEW key
    PROVE  LET m == DelSocket(n, key)
           IN  m \in Nets /\ m.servers = Drop(n.servers, key) /\ Same(n, m, {"servers"})
<1>1. n.servers \in ServerMaps
    BY DEF Nets
<1>2. Drop(n.servers, key) \in ServerMaps
    BY <1>1, DropEffect DEF ServerMaps
<1> QED
    BY <1>2 DEF DelSocket, Nets, Same, Fields

\* AddSocket: with nobody else's entry, or with the old object in its list.
LEMMA AddEffect ==
    ASSUME NEW n \in Nets, NEW key \in Keys, NEW s \in Objects
    PROVE  LET m == AddSocket(n, key, s)
               old == n.servers[key]
               plain == key \in DOMAIN n.servers => old = s
           IN  /\ m \in Nets /\ m.servers = Set(n.servers, key, s)
               /\ Same(n, m, {"servers", "ports", "types", "replaced"})
               /\ plain => Same(n, m, {"servers"})
               /\ ~plain =>
                     /\ m.replaced /\ old \in Objects
                     /\ m.ports = DestroySocketObject(n, old).ports /\ m.types = DestroySocketObject(n, old).types
<1>1. n.servers \in ServerMaps
    BY DEF Nets
<1>2. Set(n.servers, key, s) \in ServerMaps
    BY <1>1, SetEffect DEF ServerMaps
<1>3. CASE key \in DOMAIN n.servers => n.servers[key] = s
    <2>1. AddSocket(n, key, s) = [n EXCEPT !.servers = Set(@, key, s)]
        BY <1>3 DEF AddSocket, HasSocket, GetSocket
    <2> QED
        BY <1>2, <1>3, <2>1 DEF Nets, Same, Fields
<1>4. CASE key \in DOMAIN n.servers /\ n.servers[key] # s
    <2> DEFINE d == DestroySocketObject(n, n.servers[key])
    <2>1. n.servers[key] \in Objects
        BY <1>1, <1>4, MapElement DEF ServerMaps
    <2>2. d \in Nets /\ Same(n, d, {"ports", "types"})
        BY <2>1, DestroyEffect
    <2>3. AddSocket(n, key, s) = [[d EXCEPT !.replaced = TRUE] EXCEPT !.servers = Set(@, key, s)]
        BY <1>4 DEF AddSocket, HasSocket, GetSocket
    <2> HIDE DEF d
    <2>4. d.servers = n.servers
        BY <2>2 DEF Same, Fields
    <2>5. AddSocket(n, key, s) = [d EXCEPT !.replaced = TRUE, !.servers = Set(n.servers, key, s)]
        BY <2>2, <2>3, <2>4 DEF Nets
    <2>6. AddSocket(n, key, s) \in Nets
        BY <1>2, <2>2, <2>5 DEF Nets
    <2>7. Same(d, AddSocket(n, key, s), {"servers", "replaced"})
        BY <2>2, <2>5 DEF Nets, Same, Fields
    <2>8. Same(n, AddSocket(n, key, s), {"servers", "ports", "types", "replaced"})
        BY <2>2, <2>7 DEF Same
    <2>9. AddSocket(n, key, s).servers = Set(n.servers, key, s) /\ AddSocket(n, key, s).replaced
        BY <2>2, <2>5 DEF Nets
    <2>10. AddSocket(n, key, s).ports = d.ports /\ AddSocket(n, key, s).types = d.types
        BY <2>7 DEF Same, Fields
    <2> QED
        BY <1>4, <2>1, <2>6, <2>8, <2>9, <2>10 DEF d
<1> QED
    BY <1>3, <1>4

LEMMA CreateTimerEffect ==
    ASSUME NEW n \in Nets, NEW s \in Objects
    PROVE  LET m == CreateSocketTimer(n, s)
           IN  /\ m \in Nets /\ Same(n, m, {"timers", "sock"})
               /\ m.timers = Append(n.timers, s)
               /\ m.sock[s].timer = TRUE /\ Of(n, m, s, {"timer"}) /\ Others(n, m, s)
<1>1. Append(n.timers, s) \in TimerLists
    BY DEF Nets, TimerLists
<1>2. [n.sock EXCEPT ![s].timer = TRUE] \in SocketMaps
    BY ZenonT(40) DEF Nets, SocketMaps, SocketSet
<1> QED
    BY <1>1, <1>2, ZenonT(40) DEF CreateSocketTimer, Nets, Same, Fields, SocketMaps, SocketSet, Of, Others, SocketFields

LEMMA DestroyTimerEffect ==
    ASSUME NEW n \in Nets, NEW s \in Objects
    PROVE  LET m == DestroySocketTimer(n, s)
           IN  /\ m \in Nets /\ Same(n, m, {"timers", "sock"})
               /\ m.timers = IF n.sock[s].timer THEN RemoveFirst(n.timers, s) ELSE n.timers
               /\ m.sock[s].timer = FALSE /\ Of(n, m, s, {"timer"}) /\ Others(n, m, s)
<1>1. n.timers \in TimerLists /\ n.sock \in SocketMaps
    BY DEF Nets
<1>2. RemoveFirst(n.timers, s) \in TimerLists
    BY <1>1, RemoveFirstType DEF TimerLists
<1>3. [n.sock EXCEPT ![s].timer = FALSE] \in SocketMaps
    BY <1>1 DEF SocketMaps, SocketSet
<1>4. CASE n.sock[s].timer
    BY <1>1, <1>2, <1>3, <1>4, ZenonT(40) DEF DestroySocketTimer, Nets, Same, Fields, SocketMaps, SocketSet, Of, Others, SocketFields
<1>5. CASE ~n.sock[s].timer
    <2>1. n.sock[s].timer = FALSE
        BY <1>1, <1>5 DEF SocketMaps, SocketSet
    <2> QED
        BY <1>5, <2>1 DEF DestroySocketTimer, Same, Of, Others
<1> QED
    BY <1>4, <1>5

LEMMA RegistEffect ==
    ASSUME NEW n \in Nets, NEW s \in Objects, NEW fd \in Fds
    PROVE  LET m == RegistEvent(n, fd, s)
           IN  m \in Nets /\ Differs(n.ptr, m.ptr, fd, s) /\ Same(n, m, {"ptr"})
<1>1. [n.ptr EXCEPT ![fd] = s] \in PtrMaps
    BY DEF Nets, PtrMaps
<1> QED
    BY <1>1 DEF RegistEvent, Nets, Same, Fields, Differs, PtrMaps

LEMMA DeleteEffect ==
    ASSUME NEW n \in Nets, NEW fd
    PROVE  LET m == DeleteEvent(n, fd)
           IN  m \in Nets /\ Differs(n.ptr, m.ptr, fd, 0) /\ Same(n, m, {"ptr"})
<1>1. [n.ptr EXCEPT ![fd] = 0] \in PtrMaps
    BY DEF Nets, PtrMaps
<1> QED
    BY <1>1 DEF DeleteEvent, Nets, Same, Fields, Differs, PtrMaps

LEMMA PushRecvEffect ==
    ASSUME NEW n \in Nets, NEW packet \in PacketSet
    PROVE  LET m == PushRecvCSQueue(n, packet)
           IN  m \in Nets /\ m.recvCS = Append(n.recvCS, packet) /\ Same(n, m, {"recvCS"})
<1>1. Append(n.recvCS, packet) \in PacketQueues
    BY DEF Nets, PacketQueues
<1> QED
    BY <1>1 DEF PushRecvCSQueue, Nets, Same, Fields

LEMMA SocketEffect ==
    ASSUME NEW n \in Nets, NEW s \in Objects, NEW record \in SocketSet
    PROVE  LET m == [n EXCEPT !.sock[s] = record]
           IN  m \in Nets /\ m.sock[s] = record /\ Others(n, m, s) /\ Same(n, m, {"sock"})
<1>1. [n.sock EXCEPT ![s] = record] \in SocketMaps
    BY DEF Nets, SocketMaps
<1> QED
    BY <1>1 DEF Nets, Same, Fields, Others, SocketMaps

LEMMA SocketTyped ==
    ASSUME NEW n \in Nets, NEW s \in Objects
    PROVE  /\ n.sock[s] \in SocketSet /\ DOMAIN n.sock = Objects
           /\ n.sock[s].fd # 0 => n.sock[s].fd \in Fds
BY DEF Nets, SocketMaps, SocketSet

\* Messages of a client are handed up behind what waits.
LEMMA HandUpEffect ==
    ASSUME config \in Configs, NEW n \in Nets, NEW s \in Objects, BelongPort(s) = "outside",
           n.sock[s].fd # 0, n.desc[n.sock[s].fd] # 0, NEW k \in Nat
    PROVE  LET m == MakeMessage(n, s, k)
           IN  /\ m \in Nets /\ Same(n, m, {"sock", "recvCS"})
               /\ Others(n, m, s) /\ Of(n, m, s, {"buf"})
               /\ Len(n.recvCS) <= Len(m.recvCS)
               /\ \A i \in 1 .. Len(n.recvCS) : m.recvCS[i] = n.recvCS[i]
               /\ \A i \in Len(n.recvCS) + 1 .. Len(m.recvCS) : m.recvCS[i] = FromClient(n, s, FALSE)
<1> DEFINE buf == n.sock[s].buf
           c == IF k < Len(buf) THEN k ELSE Len(buf)
           rest == SubSeq(buf, c + 1, Len(buf))
           packet == FromClient(n, s, FALSE)
           more == [i \in 1 .. c |-> packet]
           m == MakeMessage(n, s, k)
<1>1. buf \in Seq({"message"}) /\ n.sock \in SocketMaps /\ n.sock[s] \in SocketSet
    BY DEF Nets, SocketMaps, SocketSet
<1>2. c \in Nat /\ Len(buf) \in Nat
    BY <1>1
<1>3. packet \in PacketSet
    BY SocketTyped DEF FromClient, LinkOf, PacketSet, Nets, DescMaps
<1>4. n.recvCS \in Seq(PacketSet)
    BY DEF Nets, PacketQueues
<1>5. CASE c = 0
    <2>1. m = n
        BY <1>5 DEF MakeMessage
    <2>2. Len(n.recvCS) \in Nat
        BY <1>4
    <2>3. \A i \in Len(n.recvCS) + 1 .. Len(n.recvCS) : n.recvCS[i] = packet
        BY <2>2
    <2>4. Same(n, n, {"sock", "recvCS"}) /\ Others(n, n, s) /\ Of(n, n, s, {"buf"})
        BY DEF Same, Others, Of
    <2> HIDE DEF m, packet
    <2>5. /\ m \in Nets /\ Same(n, m, {"sock", "recvCS"}) /\ Others(n, m, s) /\ Of(n, m, s, {"buf"})
          /\ Len(n.recvCS) <= Len(m.recvCS)
          /\ \A i \in 1 .. Len(n.recvCS) : m.recvCS[i] = n.recvCS[i]
          /\ \A i \in Len(n.recvCS) + 1 .. Len(m.recvCS) : m.recvCS[i] = packet
        BY <2>1, <2>2, <2>3, <2>4
    <2> QED
        BY <2>5 DEF m, packet
<1>6. CASE c # 0
    <2>1. m = [n EXCEPT !.sock[s].buf = rest, !.recvCS = @ \o more]
        BY <1>6, Zenon DEF MakeMessage
    <2>2. rest \in Seq({"message"})
        BY <1>1, <1>2
    <2> HIDE DEF m, packet, rest, buf, c
    <2>3. more \in Seq(PacketSet) /\ Len(more) = c /\ \A i \in 1 .. c : more[i] = packet
        BY <1>2, <1>3
    <2> HIDE DEF more
    <2>4. /\ n.recvCS \o more \in Seq(PacketSet) /\ Len(n.recvCS \o more) = Len(n.recvCS) + c
          /\ \A i \in 1 .. Len(n.recvCS) + c :
                (n.recvCS \o more)[i] = IF i <= Len(n.recvCS) THEN n.recvCS[i] ELSE more[i - Len(n.recvCS)]
        BY <1>4, <2>3, ConcatProperties
    <2>5. [n.sock EXCEPT ![s].buf = rest] \in SocketMaps
        BY <1>1, <2>2 DEF SocketMaps, SocketSet
    <2>6. n.recvCS \o more \in PacketQueues
        BY <2>4 DEF PacketQueues
    <2>7. m \in Nets /\ Same(n, m, {"sock", "recvCS"})
          /\ m.sock = [n.sock EXCEPT ![s].buf = rest] /\ m.recvCS = n.recvCS \o more
        BY <2>1, <2>5, <2>6 DEF Nets, Same, Fields
    <2>8. Len(n.recvCS) \in Nat
        BY <1>4
    <2>9. \A i \in Len(n.recvCS) + 1 .. Len(n.recvCS) + c :
             i \in 1 .. Len(n.recvCS) + c /\ ~(i <= Len(n.recvCS)) /\ i - Len(n.recvCS) \in 1 .. c
        BY <1>2, <2>8
    <2>10. \A i \in 1 .. Len(n.recvCS) : i \in 1 .. Len(n.recvCS) + c /\ i <= Len(n.recvCS)
        BY <1>2, <2>8
    <2>11. \A i \in Len(n.recvCS) + 1 .. Len(m.recvCS) : m.recvCS[i] = packet
        BY <2>3, <2>4, <2>7, <2>9
    <2>12. \A i \in 1 .. Len(n.recvCS) : m.recvCS[i] = n.recvCS[i]
        BY <2>4, <2>7, <2>10
    <2>13. Len(n.recvCS) <= Len(m.recvCS)
        BY <1>2, <2>4, <2>7, <2>8
    <2>14. Others(n, m, s) /\ Of(n, m, s, {"buf"})
        BY <1>1, <2>7 DEF Others, Of, SocketMaps, SocketSet, SocketFields
    <2> QED
        BY <2>7, <2>11, <2>12, <2>13, <2>14 DEF m, packet
<1> QED
    BY <1>5, <1>6

-----------------------------------------------------------------------------
(* CloseSocket.                                                            *)

\* What is left of the descriptor and the object.
Release(n, s, fd) == [n EXCEPT !.desc[fd] = 0, !.ptr[fd] = 0, !.sock[s] = Unused(@.peer)]

LEMMA ReleaseEffect ==
    ASSUME NEW n \in Nets, NEW s \in Objects, NEW fd
    PROVE  LET m == Release(n, s, fd)
           IN  /\ m \in Nets /\ Same(n, m, {"desc", "ptr", "sock"}) /\ Others(n, m, s)
               /\ Differs(n.desc, m.desc, fd, 0) /\ Differs(n.ptr, m.ptr, fd, 0)
               /\ m.sock[s] = Unused(n.sock[s].peer)
<1>1. [n.desc EXCEPT ![fd] = 0] \in DescMaps /\ [n.ptr EXCEPT ![fd] = 0] \in PtrMaps
    BY DEF Nets, DescMaps, PtrMaps
<1>2. Unused(n.sock[s].peer) \in SocketSet
    BY SocketTyped DEF Unused, SocketSet
<1>3. [n.sock EXCEPT ![s] = Unused(n.sock[s].peer)] \in SocketMaps
    BY <1>2 DEF Nets, SocketMaps
<1> QED
    BY <1>1, <1>2, <1>3 DEF Release, Nets, Same, Fields, Others, SocketMaps, Differs, DescMaps, PtrMaps

\* A socket that leads to a server.
LEMMA CloseInsideEffect ==
    ASSUME config \in Configs, NEW n \in Nets, NEW s \in Objects, BelongPort(s) # "outside",
           n.sock[s].fd # 0, n.sock[s].status # "Closed"
    PROVE  LET m == CloseSocket(n, s)
               fd == n.sock[s].fd
               peer == n.sock[s].peer
           IN  /\ m \in Nets
               /\ Same(n, m, {"sock", "desc", "ptr", "timers", "servers", "ports", "types", "stranger"})
               /\ m.sock[s] = Unused(peer) /\ Others(n, m, s)
               /\ Differs(n.desc, m.desc, fd, 0) /\ Differs(n.ptr, m.ptr, fd, 0)
               /\ m.timers = IF n.sock[s].timer THEN RemoveFirst(n.timers, s) ELSE n.timers
               /\ m.servers = Drop(n.servers, peer)
               /\ IF BelongPort(s) = "none" THEN m.ports = n.ports
                  ELSE Differs(n.ports, m.ports, BelongPort(s), Append(n.ports[BelongPort(s)], s))
               /\ IF BelongPort(s) = "none" /\ peer[1] \in TypeNames
                  THEN Differs(n.types, m.types, peer[1], Append(n.types[peer[1]], s)) ELSE m.types = n.types
               /\ m.stranger <=> n.stranger \/ (/\ BelongPort(s) = "inside" /\ n.sock[s].status = "Connected"
                                                /\ peer \in DOMAIN n.servers)
<1> DEFINE fd == n.sock[s].fd
           peer == n.sock[s].peer
           t == DestroySocketTimer(n, s)
           d == DeleteEvent(t, fd)
           odd == BelongPort(s) = "inside" /\ n.sock[s].status = "Connected" /\ peer \in DOMAIN n.servers
           g == [d EXCEPT !.stranger = @ \/ odd]
           u == DelSocket(g, peer)
           v == DestroySocketObject(u, s)
           m == CloseSocket(n, s)
<1>1. /\ t \in Nets /\ Same(n, t, {"timers", "sock"})
      /\ t.timers = IF n.sock[s].timer THEN RemoveFirst(n.timers, s) ELSE n.timers
      /\ Of(n, t, s, {"timer"}) /\ Others(n, t, s)
    BY DestroyTimerEffect
<1>2. /\ t.sock[s].fd = fd /\ t.sock[s].peer = peer /\ t.sock[s].status = n.sock[s].status
      /\ t.servers = n.servers
    BY <1>1 DEF Same, Fields, Of, SocketFields
<1> HIDE DEF m
<1>3. m = Release(v, s, fd)
    <2> HIDE DEF t
    <2>1. OnDisconnectInside(t, s) = v
        BY <1>2 DEF OnDisconnectInside, HasSocket
    <2> HIDE DEF v
    <2>2. Disconnected(n, s) = v
        BY <2>1 DEF Disconnected, OnDisconnect, t
    <2> QED
        BY <2>2 DEF CloseSocket, Release, m
<1> HIDE DEF t, fd, peer
<1>4. d \in Nets /\ Differs(t.ptr, d.ptr, fd, 0) /\ Same(t, d, {"ptr"})
    BY <1>1, DeleteEffect
<1> HIDE DEF d
<1>5. g \in Nets /\ (g.stranger <=> d.stranger \/ odd) /\ Same(d, g, {"stranger"})
    <2>1. (d.stranger \/ odd) \in BOOLEAN
        OBVIOUS
    <2> HIDE DEF odd
    <2> QED
        BY <1>4, <2>1 DEF Nets, Same, Fields
<1> HIDE DEF g
<1>6. u \in Nets /\ u.servers = Drop(g.servers, peer) /\ Same(g, u, {"servers"})
    BY <1>5, DelEffect
<1> HIDE DEF u
<1>7. /\ v \in Nets /\ Same(u, v, {"ports", "types"})
      /\ IF BelongPort(s) = "none" THEN v.ports = u.ports
         ELSE Differs(u.ports, v.ports, BelongPort(s), Append(u.ports[BelongPort(s)], s))
      /\ IF BelongPort(s) = "none" /\ u.sock[s].peer[1] \in TypeNames
         THEN Differs(u.types, v.types, u.sock[s].peer[1], Append(u.types[u.sock[s].peer[1]], s))
         ELSE v.types = u.types
    BY <1>6, DestroyEffect
<1> HIDE DEF v
<1>8. /\ m \in Nets /\ Same(v, m, {"desc", "ptr", "sock"})
      /\ Differs(v.desc, m.desc, fd, 0) /\ Differs(v.ptr, m.ptr, fd, 0)
      /\ m.sock[s] = Unused(v.sock[s].peer) /\ Others(v, m, s)
    BY <1>3, <1>7, ReleaseEffect
<1>9. Same(n, m, {"sock", "desc", "ptr", "timers", "servers", "ports", "types", "stranger"})
    BY <1>1, <1>4, <1>5, <1>6, <1>7, <1>8 DEF Same
<1>10. /\ v.sock = t.sock /\ u.sock = t.sock /\ v.desc = n.desc /\ v.ptr = d.ptr /\ t.ptr = n.ptr
       /\ m.timers = t.timers /\ m.servers = u.servers /\ g.servers = n.servers
       /\ m.ports = v.ports /\ m.types = v.types /\ u.ports = n.ports /\ u.types = n.types
       /\ m.stranger = g.stranger /\ d.stranger = n.stranger
    BY <1>1, <1>4, <1>5, <1>6, <1>7, <1>8 DEF Same, Fields
<1>11. m.sock[s] = Unused(peer) /\ Others(n, m, s)
    BY <1>1, <1>2, <1>8, <1>10 DEF Others
<1>12. Differs(n.ptr, m.ptr, fd, 0)
    BY <1>1, <1>4, <1>8, <1>10 DEF Differs, Nets, PtrMaps
<1> QED
    BY <1>1, <1>2, <1>5, <1>6, <1>7, <1>8, <1>9, <1>10, <1>11, <1>12 DEF m, fd, peer

\* A socket that leads to a client: with a connection for the descriptor, the messages that
\* are left and the close event go up; without one, the end is silent.
LEMMA CloseOutsideEffect ==
    ASSUME config \in Configs, NEW n \in Nets, NEW s \in Objects, BelongPort(s) = "outside",
           n.sock[s].fd # 0, n.sock[s].status # "Closed", n.desc[n.sock[s].fd] # 0
    PROVE  LET m == CloseSocket(n, s)
               fd == n.sock[s].fd
               link == n.desc[fd]
           IN  /\ m \in Nets
               /\ Same(n, m, {"sock", "desc", "ptr", "timers", "servers", "ports", "recvCS", "silent"})
               /\ m.sock[s] = Unused(n.sock[s].peer) /\ Others(n, m, s)
               /\ Differs(n.desc, m.desc, fd, 0) /\ Differs(n.ptr, m.ptr, fd, 0)
               /\ m.timers = IF n.sock[s].timer THEN RemoveFirst(n.timers, s) ELSE n.timers
               /\ m.servers = Drop(n.servers, <<Client, fd>>)
               /\ Differs(n.ports, m.ports, "outside", Append(n.ports["outside"], s))
               /\ fd \notin DOMAIN conn => m.recvCS = n.recvCS /\ m.silent = n.silent \cup {link}
               /\ fd \in DOMAIN conn =>
                     /\ m.silent = n.silent /\ Len(n.recvCS) < Len(m.recvCS)
                     /\ \A i \in 1 .. Len(n.recvCS) : m.recvCS[i] = n.recvCS[i]
                     /\ \A i \in Len(n.recvCS) + 1 .. Len(m.recvCS) - 1 :
                           m.recvCS[i] = [fd |-> fd, link |-> link, close |-> FALSE]
                     /\ m.recvCS[Len(m.recvCS)] = CloseOf(fd, link)
<1> DEFINE fd == n.sock[s].fd
           link == n.desc[fd]
           t == DestroySocketTimer(n, s)
           d == DeleteEvent(t, fd)
           h == MakeMessage(d, s, config.msgs)
           e == MakeConnCloseEvent(h, s)
           g == IF fd \in DOMAIN conn THEN e ELSE [d EXCEPT !.silent = @ \cup {link}]
           u == DelSocket(g, <<Client, fd>>)
           v == DestroySocketObject(u, s)
           m == CloseSocket(n, s)
<1>1. /\ t \in Nets /\ Same(n, t, {"timers", "sock"})
      /\ t.timers = IF n.sock[s].timer THEN RemoveFirst(n.timers, s) ELSE n.timers
      /\ Of(n, t, s, {"timer"}) /\ Others(n, t, s)
    BY DestroyTimerEffect
<1>2. /\ t.sock[s].fd = fd /\ t.sock[s].peer = n.sock[s].peer /\ t.desc = n.desc
    BY <1>1 DEF Same, Fields, Of, SocketFields
<1>3. d \in Nets /\ Differs(t.ptr, d.ptr, fd, 0) /\ Same(t, d, {"ptr"})
    <2> HIDE DEF t, fd
    <2> QED
        BY <1>1, DeleteEffect
<1>4. d.sock = t.sock /\ d.desc = n.desc
    BY <1>2, <1>3 DEF Same, Fields
<1> HIDE DEF m
<1>5. m = Release(v, s, fd)
    <2> HIDE DEF t
    <2>1. LinkOf(t, s) = link
        BY <1>2 DEF LinkOf
    <2>2. OnDisconnectOutside(t, s) = v
        BY <1>2, <2>1 DEF OnDisconnectOutside
    <2> HIDE DEF v
    <2>3. Disconnected(n, s) = v
        BY <2>2 DEF Disconnected, OnDisconnect, t
    <2> QED
        BY <2>3 DEF CloseSocket, Release, m
<1> HIDE DEF t, d
<1>6. link \in Nat \ {0} /\ fd \in Fds
    BY SocketTyped DEF Nets, DescMaps
<1> HIDE DEF fd, link
<1>7. /\ h \in Nets /\ Same(d, h, {"sock", "recvCS"}) /\ Others(d, h, s) /\ Of(d, h, s, {"buf"})
      /\ Len(d.recvCS) <= Len(h.recvCS)
      /\ \A i \in 1 .. Len(d.recvCS) : h.recvCS[i] = d.recvCS[i]
      /\ \A i \in Len(d.recvCS) + 1 .. Len(h.recvCS) : h.recvCS[i] = FromClient(d, s, FALSE)
    <2>1. config.msgs \in Nat
        BY ConfigFacts
    <2>2. d.sock[s].fd # 0 /\ d.desc[d.sock[s].fd] # 0
        BY <1>2, <1>4 DEF fd, link
    <2> QED
        BY <1>3, <2>1, <2>2, HandUpEffect
<1> HIDE DEF h
<1>8. h.sock[s].fd = fd /\ h.sock[s].peer = n.sock[s].peer /\ h.desc = n.desc
    BY <1>2, <1>4, <1>7 DEF Of, SocketFields, Same, Fields
<1>9. FromClient(d, s, FALSE) = [fd |-> fd, link |-> link, close |-> FALSE]
    BY <1>2, <1>4 DEF FromClient, LinkOf, link
<1>10. FromClient(h, s, TRUE) = CloseOf(fd, link) /\ CloseOf(fd, link) \in PacketSet
    BY <1>6, <1>8 DEF FromClient, LinkOf, CloseOf, PacketSet, link
<1>11. e \in Nets /\ e.recvCS = Append(h.recvCS, CloseOf(fd, link)) /\ Same(h, e, {"recvCS"})
    BY <1>7, <1>10, PushRecvEffect DEF MakeConnCloseEvent
<1> HIDE DEF e
<1>12. /\ g \in Nets /\ Same(d, g, {"sock", "recvCS", "silent"}) /\ Others(d, g, s)
       /\ g.sock[s].peer = n.sock[s].peer
       /\ fd \notin DOMAIN conn => g.recvCS = d.recvCS /\ g.silent = d.silent \cup {link}
       /\ fd \in DOMAIN conn => g.silent = d.silent /\ g.recvCS = Append(h.recvCS, CloseOf(fd, link))
    <2>1. CASE fd \in DOMAIN conn
        <3>1. g = e
            BY <2>1
        <3>2. Same(d, e, {"sock", "recvCS", "silent"}) /\ e.silent = d.silent /\ e.sock = h.sock
            BY <1>7, <1>11 DEF Same, Fields
        <3> HIDE DEF g
        <3> QED
            BY <1>7, <1>8, <1>11, <2>1, <3>1, <3>2 DEF Others
    <2>2. CASE fd \notin DOMAIN conn
        <3>1. g = [d EXCEPT !.silent = @ \cup {link}]
            BY <2>2
        <3>2. d.silent \cup {link} \in NumberSets
            BY <1>3, <1>6 DEF Nets, NumberSets
        <3> HIDE DEF g
        <3>3. g \in Nets /\ Same(d, g, {"silent"}) /\ g.silent = d.silent \cup {link}
            BY <1>3, <3>1, <3>2 DEF Nets, Same, Fields
        <3>4. g.sock = d.sock /\ g.recvCS = d.recvCS /\ Same(d, g, {"sock", "recvCS", "silent"})
            BY <3>3 DEF Same, Fields
        <3> QED
            BY <1>2, <1>4, <2>2, <3>3, <3>4 DEF Others
    <2> QED
        BY <2>1, <2>2
<1> HIDE DEF g
<1>13. u \in Nets /\ u.servers = Drop(g.servers, <<Client, fd>>) /\ Same(g, u, {"servers"})
    BY <1>12, DelEffect
<1> HIDE DEF u
<1>14. /\ v \in Nets /\ Same(u, v, {"ports"})
       /\ Differs(u.ports, v.ports, "outside", Append(u.ports["outside"], s))
    <2>1. /\ v \in Nets /\ Same(u, v, {"ports", "types"})
          /\ Differs(u.ports, v.ports, "outside", Append(u.ports["outside"], s)) /\ v.types = u.types
        BY <1>13, DestroyEffect
    <2> QED
        BY <2>1 DEF Same, Fields
<1> HIDE DEF v
<1>15. /\ m \in Nets /\ Same(v, m, {"desc", "ptr", "sock"})
       /\ Differs(v.desc, m.desc, fd, 0) /\ Differs(v.ptr, m.ptr, fd, 0)
       /\ m.sock[s] = Unused(v.sock[s].peer) /\ Others(v, m, s)
    BY <1>5, <1>14, ReleaseEffect
<1>16. Same(n, m, {"sock", "desc", "ptr", "timers", "servers", "ports", "recvCS", "silent"})
    BY <1>1, <1>3, <1>12, <1>13, <1>14, <1>15 DEF Same
<1>17. /\ v.sock = g.sock /\ v.desc = n.desc /\ v.ptr = d.ptr /\ t.ptr = n.ptr
       /\ m.timers = t.timers /\ m.servers = u.servers /\ g.servers = n.servers
       /\ m.ports = v.ports /\ u.ports = n.ports /\ m.recvCS = g.recvCS /\ m.silent = g.silent
       /\ d.recvCS = n.recvCS /\ d.silent = n.silent
    BY <1>1, <1>3, <1>12, <1>13, <1>14, <1>15 DEF Same, Fields
<1>18. m.sock[s] = Unused(n.sock[s].peer) /\ Others(n, m, s)
    BY <1>1, <1>4, <1>12, <1>15, <1>17 DEF Others
<1>19. Differs(n.ptr, m.ptr, fd, 0)
    BY <1>1, <1>3, <1>15, <1>17 DEF Differs, Nets, PtrMaps
<1>20. ASSUME fd \in DOMAIN conn
       PROVE  /\ m.silent = n.silent /\ Len(n.recvCS) < Len(m.recvCS)
              /\ \A i \in 1 .. Len(n.recvCS) : m.recvCS[i] = n.recvCS[i]
              /\ \A i \in Len(n.recvCS) + 1 .. Len(m.recvCS) - 1 :
                    m.recvCS[i] = [fd |-> fd, link |-> link, close |-> FALSE]
              /\ m.recvCS[Len(m.recvCS)] = CloseOf(fd, link)
    <2> DEFINE packet == CloseOf(fd, link)
               message == [fd |-> fd, link |-> link, close |-> FALSE]
    <2>1. m.recvCS = Append(h.recvCS, packet) /\ m.silent = n.silent
        BY <1>12, <1>17, <1>20
    <2>2. h.recvCS \in Seq(PacketSet) /\ packet \in PacketSet /\ n.recvCS \in Seq(PacketSet)
        BY <1>7, <1>10 DEF Nets, PacketQueues
    <2>3. /\ Len(n.recvCS) <= Len(h.recvCS)
          /\ \A i \in 1 .. Len(n.recvCS) : h.recvCS[i] = n.recvCS[i]
          /\ \A i \in Len(n.recvCS) + 1 .. Len(h.recvCS) : h.recvCS[i] = message
        BY <1>7, <1>9, <1>17
    <2> HIDE DEF packet, message
    <2>4. /\ Len(m.recvCS) = Len(h.recvCS) + 1 /\ m.recvCS[Len(h.recvCS) + 1] = packet
          /\ \A i \in 1 .. Len(h.recvCS) : m.recvCS[i] = h.recvCS[i]
          /\ Len(h.recvCS) \in Nat /\ Len(n.recvCS) \in Nat
        BY <2>1, <2>2
    <2>5. \A i \in Len(n.recvCS) + 1 .. Len(h.recvCS) : m.recvCS[i] = message
        BY <2>3, <2>4
    <2>6. \A i \in 1 .. Len(n.recvCS) : m.recvCS[i] = n.recvCS[i]
        BY <2>3, <2>4
    <2>7. Len(m.recvCS) - 1 = Len(h.recvCS) /\ Len(n.recvCS) < Len(m.recvCS)
        BY <2>3, <2>4
    <2> QED
        BY <2>1, <2>4, <2>5, <2>6, <2>7 DEF packet, message
<1> QED
    BY <1>1, <1>12, <1>13, <1>14, <1>15, <1>16, <1>17, <1>18, <1>19, <1>20 DEF m, fd, link

-----------------------------------------------------------------------------
(* What an elementary change of the net thread keeps.                      *)

\* What is said of links, as long as they stay in their places.
LEMMA LinksKept ==
    ASSUME NEW n, NEW m, NEW b, NEW c, NEW a, m.desc = n.desc, Len(m.link) = Len(n.link),
           \A l \in 1 .. Len(n.link) : m.link[l].who = n.link[l].who
    PROVE  /\ Waiting(n, b) => Waiting(m, b)
           /\ m.recvCS = n.recvCS /\ m.sendCS = n.sendCS /\ Packets(n, b, a) => Packets(m, b, a)
           /\ m.recvCS = n.recvCS /\ m.silent = n.silent /\ Ended(n, c, a) => Ended(m, c, a)
           /\ (\A l \in 1 .. Len(n.link) : m.link[l].got = n.link[l].got) /\ Replies(n, b) => Replies(m, b)
<1>1. Waiting(n, b) => Waiting(m, b)
    BY DEF Waiting
<1>2. ASSUME m.recvCS = n.recvCS, m.sendCS = n.sendCS, Packets(n, b, a) PROVE Packets(m, b, a)
    BY <1>2 DEF Packets, PacketOK
<1>3. ASSUME m.recvCS = n.recvCS, m.silent = n.silent, Ended(n, c, a) PROVE Ended(m, c, a)
    BY <1>3 DEF Ended, Ending
<1>4. ASSUME \A l \in 1 .. Len(n.link) : m.link[l].got = n.link[l].got, Replies(n, b) PROVE Replies(m, b)
    BY <1>4, SMTT(30), Zenon DEF Replies, Alive
<1> QED
    BY <1>1, <1>2, <1>3, <1>4

\* Which type a net has.
LEMMA NetTyped ==
    ASSUME NEW n \in Nets
    PROVE  /\ n.sock \in [Objects -> SocketSet] /\ n.ports \in [PortNames -> Seq(Objects)]
           /\ n.types \in [TypeNames -> Seq(Objects)] /\ n.servers \in Maps(Keys, Objects)
           /\ n.timers \in Seq(Objects) /\ n.link \in Seq(LinkSet) /\ n.desc \in [Fds -> Nat]
           /\ n.ptr \in [Fds -> Objects \cup {0}] /\ n.recvCS \in Seq(PacketSet) /\ n.sendCS \in Seq(PacketSet)
           /\ n.sendSS \in Seq(OrderSet) /\ n.lost \subseteq Objects /\ n.silent \subseteq Nat
BY DEF Nets, SocketMaps, PortLists, TypeLists, ServerMaps, TimerLists, LinkLists, DescMaps, PtrMaps,
       PacketQueues, OrderQueues, ObjectSets, NumberSets

\* What is said of sockets, as long as the fields it is about stay.
LEMMA HoldingKept ==
    ASSUME NEW n \in Nets, NEW m \in Nets, m.desc = n.desc, Len(m.link) = Len(n.link),
           \A l \in 1 .. Len(n.link) : m.link[l].who = n.link[l].who,
           \A s \in Objects : m.sock[s].fd = n.sock[s].fd /\ (m.sock[s].status = "Closed" <=> n.sock[s].status = "Closed"),
           Holding(n)
    PROVE  Holding(m)
<1>1. n.sock \in [Objects -> SocketSet] /\ n.desc \in [Fds -> Nat] /\ n.link \in Seq(LinkSet)
    BY NetTyped
<1>2. \A s \in Objects : m.sock[s].status = "Closed" <=> m.sock[s].fd = 0
    BY DEF Holding
<1>3. ASSUME NEW s \in Objects, m.sock[s].fd # 0
      PROVE  /\ m.desc[m.sock[s].fd] # 0
             /\ BelongPort(s) = "outside" <=> m.link[m.desc[m.sock[s].fd]].who = <<Client, 0>>
             /\ BelongPort(s) = "none" => m.link[m.desc[m.sock[s].fd]].who \in Configured
    <2> DEFINE l == n.desc[n.sock[s].fd]
    <2>1. n.sock[s].fd # 0 /\ n.sock[s].fd \in Fds
        BY <1>3, SocketTyped
    <2>2. l # 0 /\ l \in Nat /\ l <= Len(n.link)
        BY <1>1, <2>1 DEF Holding
    <2>3. l \in 1 .. Len(n.link)
        BY <1>1, <2>2
    <2>4. m.link[l].who = n.link[l].who /\ m.desc[m.sock[s].fd] = l
        BY <2>3, SMTT(30), Zenon
    <2>5. /\ BelongPort(s) = "outside" <=> n.link[l].who = <<Client, 0>>
          /\ BelongPort(s) = "none" => n.link[l].who \in Configured
        BY <2>1 DEF Holding
    <2> HIDE DEF l
    <2> QED
        BY <2>2, <2>4, <2>5, SMTT(30), Zenon
<1>4. \A r, s \in Objects : m.sock[r].fd # 0 /\ m.sock[r].fd = m.sock[s].fd => r = s
    BY DEF Holding
<1>5. \A f \in Fds : m.desc[f] <= Len(m.link)
    BY DEF Holding
<1>6. \A f, g \in Fds : m.desc[f] # 0 /\ m.desc[f] = m.desc[g] => f = g
    BY DEF Holding
<1> QED
    BY <1>2, <1>3, <1>4, <1>5, <1>6, Zenon DEF Holding

LEMMA QuietKept ==
    ASSUME NEW n \in Nets, NEW m \in Nets, Len(m.link) = Len(n.link),
           \A l \in 1 .. Len(n.link) : m.link[l].who = n.link[l].who /\ m.link[l].rd = n.link[l].rd,
           \A s \in Objects : m.sock[s].buf = n.sock[s].buf, Quiet(n)
    PROVE  Quiet(m)
BY DEF Quiet

LEMMA ClientsKept ==
    ASSUME NEW n \in Nets, NEW m \in Nets, m.servers = n.servers, m.ports = n.ports, m.types = n.types,
           \A s \in Objects : /\ m.sock[s].fd = n.sock[s].fd /\ m.sock[s].peer = n.sock[s].peer
                              /\ m.sock[s].status = n.sock[s].status,
           Clients(n)
    PROVE  Clients(m)
<1>1. \A p \in PortNames : \A r \in ToSet(m.ports[p]) : r \in Objects
    BY NetTyped, ElementsTyped
<1>2. \A key \in DOMAIN m.servers : m.servers[key] \in Objects
    BY NetTyped, MapElement
<1> QED
    BY <1>1, <1>2 DEF Clients, PortNames

LEMMA FreeKept ==
    ASSUME NEW n \in Nets, NEW m \in Nets, m.ports = n.ports, m.types = n.types, m.lost = n.lost,
           \A s \in Objects : m.sock[s].fd = n.sock[s].fd, Free(n)
    PROVE  Free(m)
<1>1. \A s \in Objects : HomeList(m, s) = HomeList(n, s)
    BY DEF HomeList
<1>2. m.lost \subseteq Objects
    BY NetTyped
<1> QED
    BY <1>1, <1>2 DEF Free

LEMMA PointedKept ==
    ASSUME NEW n \in Nets, NEW m \in Nets, m.desc = n.desc, m.ptr = n.ptr,
           \A s \in Objects : m.sock[s].fd = n.sock[s].fd, Pointed(n)
    PROVE  Pointed(m)
BY NetTyped DEF Pointed

LEMMA TimedKept ==
    ASSUME NEW n \in Nets, NEW m \in Nets, m.desc = n.desc, m.timers = n.timers, Len(m.link) = Len(n.link),
           \A l \in 1 .. Len(n.link) : m.link[l].who = n.link[l].who,
           \A s \in Objects : /\ m.sock[s].fd = n.sock[s].fd /\ m.sock[s].peer = n.sock[s].peer
                              /\ m.sock[s].status = n.sock[s].status /\ m.sock[s].timer = n.sock[s].timer,
           Holding(n), Timed(n)
    PROVE  Timed(m)
<1>1. ASSUME NEW s \in Objects, BelongPort(s) = "none", m.sock[s].fd # 0
      PROVE  m.sock[s].peer[1] = TypeOf(s) /\ m.link[LinkOf(m, s)].who = m.sock[s].peer
    <2>1. LinkOf(n, s) \in 1 .. Len(n.link) /\ LinkOf(m, s) = LinkOf(n, s)
        BY <1>1, NetTyped, SocketTyped DEF Holding, LinkOf
    <2>2. n.sock[s].peer[1] = TypeOf(s) /\ n.link[LinkOf(n, s)].who = n.sock[s].peer
        BY <1>1 DEF Timed
    <2> QED
        BY <2>1, <2>2, SMTT(30), Zenon
<1> QED
    BY <1>1 DEF Timed

LEMMA EnteredKept ==
    ASSUME NEW n \in Nets, NEW m \in Nets, m.desc = n.desc, m.servers = n.servers, Len(m.link) = Len(n.link),
           \A l \in 1 .. Len(n.link) : m.link[l].who = n.link[l].who,
           \A s \in Objects : /\ m.sock[s].fd = n.sock[s].fd /\ m.sock[s].peer = n.sock[s].peer
                              /\ m.sock[s].status = n.sock[s].status,
           Holding(n), Entered(n)
    PROVE  Entered(m)
<1> SUFFICES ASSUME NEW key \in DOMAIN n.servers
             PROVE  LET s == n.servers[key] IN
                    /\ m.sock[s].fd # 0 /\ m.sock[s].peer = key
                    /\ BelongPort(s) = "inside" => m.sock[s].status = "Available" /\ m.link[LinkOf(m, s)].who = key
    BY ZenonT(40) DEF Entered
<1> DEFINE s == n.servers[key]
<1>1. s \in Objects
    BY NetTyped, MapElement
<1>2. /\ n.sock[s].fd # 0 /\ n.sock[s].peer = key
      /\ BelongPort(s) = "inside" => n.sock[s].status = "Available" /\ n.link[LinkOf(n, s)].who = key
    BY Zenon DEF Entered
<1> HIDE DEF s
<1>3. LinkOf(n, s) \in 1 .. Len(n.link) /\ LinkOf(m, s) = LinkOf(n, s)
    BY <1>1, <1>2, NetTyped, SocketTyped DEF Holding, LinkOf
<1> QED
    BY <1>1, <1>2, <1>3 DEF s

LEMMA RoutedKept ==
    ASSUME NEW n \in Nets, NEW m \in Nets, m.desc = n.desc, m.servers = n.servers, m.sendSS = n.sendSS,
           Len(m.link) = Len(n.link), \A l \in 1 .. Len(n.link) : n.link[l].got \subseteq m.link[l].got,
           \A s \in Objects : /\ m.sock[s].fd = n.sock[s].fd /\ m.sock[s].peer = n.sock[s].peer
                              /\ m.sock[s].status = n.sock[s].status,
           ~m.replaced => ~n.replaced, ~m.stranger => ~n.stranger, Holding(n), Routed(n)
    PROVE  Routed(m)
<1>1. ASSUME NEW s \in Objects, n.sock[s].status = "Available"
      PROVE  n.link[LinkOf(n, s)].got \subseteq m.link[LinkOf(m, s)].got
    <2>1. LinkOf(n, s) \in 1 .. Len(n.link) /\ LinkOf(m, s) = LinkOf(n, s)
        BY <1>1, NetTyped, SocketTyped DEF Holding, LinkOf
    <2> QED
        BY <2>1
<1> QED
    BY <1>1 DEF Routed

\* All of it, as long as only queues and flags change.
LEMMA SocketsKept ==
    ASSUME NEW n \in Nets, NEW m \in Nets, Same(n, m, {"recvCS", "sendCS", "due", "silent", "starved", "listening"}),
           Holding(n), Quiet(n), Clients(n), Accounted(n), Routed(n)
    PROVE  Holding(m) /\ Quiet(m) /\ Clients(m) /\ Accounted(m) /\ Routed(m)
<1>1. /\ m.sock = n.sock /\ m.ports = n.ports /\ m.types = n.types /\ m.servers = n.servers /\ m.timers = n.timers
      /\ m.link = n.link /\ m.desc = n.desc /\ m.ptr = n.ptr /\ m.sendSS = n.sendSS /\ m.lost = n.lost
      /\ m.replaced = n.replaced /\ m.stranger = n.stranger
    BY DEF Same, Fields
<1>2. Holding(m)
    BY <1>1, HoldingKept
<1>3. Quiet(m)
    BY <1>1, QuietKept
<1>4. Clients(m)
    BY <1>1, ClientsKept
<1>5. Accounted(m)
    <2>1. Free(n) => Free(m)
        BY <1>1, FreeKept
    <2>2. Pointed(n) => Pointed(m)
        BY <1>1, PointedKept
    <2>3. Timed(n) => Timed(m)
        BY <1>1, TimedKept
    <2>4. Entered(n) => Entered(m)
        BY <1>1, EnteredKept
    <2> QED
        BY <1>1, <2>1, <2>2, <2>3, <2>4 DEF Accounted
<1>6. Routed(m)
    BY <1>1, RoutedKept
<1> QED
    BY <1>2, <1>3, <1>4, <1>5, <1>6

LEMMA StartTimerKeeps ==
    ASSUME config \in Configs, NEW n, NEW b, Safe(n, b), NEW s \in Objects, n.sock[s].status = "Opened",
           ~n.replaced => ~n.sock[s].timer
    PROVE  LET m == CreateSocketTimer(n, s) IN Safe(m, b) /\ m.sock[s].status = "Opened"
<1> DEFINE m == CreateSocketTimer(n, s)
<1>1. n \in Nets
    BY DEF Safe
<1>2. /\ m \in Nets /\ Same(n, m, {"timers", "sock"}) /\ m.timers = Append(n.timers, s)
      /\ m.sock[s].timer = TRUE /\ Of(n, m, s, {"timer"}) /\ Others(n, m, s)
    BY <1>1, CreateTimerEffect
<1> HIDE DEF m
<1>3. /\ m.ports = n.ports /\ m.types = n.types /\ m.servers = n.servers /\ m.link = n.link /\ m.desc = n.desc
      /\ m.ptr = n.ptr /\ m.recvCS = n.recvCS /\ m.sendSS = n.sendSS /\ m.sendCS = n.sendCS /\ m.lost = n.lost
      /\ m.replaced = n.replaced /\ m.stranger = n.stranger /\ m.silent = n.silent
    BY <1>2 DEF Same, Fields
<1>4. \A r \in Objects : /\ m.sock[r].fd = n.sock[r].fd /\ m.sock[r].status = n.sock[r].status
                         /\ m.sock[r].peer = n.sock[r].peer /\ m.sock[r].buf = n.sock[r].buf
    BY <1>2 DEF Of, Others, SocketFields
<1>5. Holding(m) /\ Quiet(m) /\ Clients(m)
    BY <1>1, <1>2, <1>3, <1>4, HoldingKept, QuietKept, ClientsKept DEF Safe
<1>6. Waiting(m, b) /\ Packets(m, b, app) /\ Replies(m, b) /\ (config.threads = 1 => Ended(m, conn, app))
    BY <1>3, LinksKept DEF Safe
<1>7. Accounted(m)
    <2> SUFFICES ASSUME ~n.replaced PROVE Free(m) /\ Pointed(m) /\ Timed(m) /\ Entered(m)
        BY <1>3 DEF Accounted
    <2>1. Holding(n) /\ Free(n) /\ Pointed(n) /\ Timed(n) /\ Entered(n)
        BY DEF Safe, Accounted
    <2>2. Free(m) /\ Pointed(m) /\ Entered(m)
        BY <1>1, <1>2, <1>3, <1>4, <2>1, FreeKept, PointedKept, EnteredKept
    <2>3. Timed(m)
        <3>1. ~n.sock[s].timer /\ n.timers \in Seq(Objects)
            BY <1>1, NetTyped
        <3>2. s \notin ToSet(n.timers)
            BY <2>1, <3>1 DEF Timed
        <3>3. IsInjective(m.timers) /\ ToSet(m.timers) = ToSet(n.timers) \cup {s}
            BY <1>2, <2>1, <3>1, <3>2, AppendElements DEF Timed
        <3>4. \A r \in Objects : m.sock[r].timer <=> r \in ToSet(m.timers)
            BY <1>2, <2>1, <3>3 DEF Timed, Others
        <3>5. \A r \in Objects : m.sock[r].timer => m.sock[r].status \in {"Opened", "Connecting"}
            BY <1>2, <1>4, <2>1 DEF Timed, Others
        <3> QED
            BY <1>3, <1>4, <2>1, <3>3, <3>4, <3>5 DEF Timed, LinkOf
    <2> QED
        BY <2>2, <2>3
<1>8. Routed(m)
    BY <1>1, <1>2, <1>3, <1>4, RoutedKept DEF Safe
<1> QED
    BY <1>2, <1>4, <1>5, <1>6, <1>7, <1>8 DEF Safe, m

LEMMA StopTimerKeeps ==
    ASSUME config \in Configs, NEW n, NEW b, Safe(n, b), NEW s \in Objects
    PROVE  LET m == DestroySocketTimer(n, s)
           IN  /\ Safe(m, b) /\ ~m.sock[s].timer /\ Of(n, m, s, {"timer"}) /\ Others(n, m, s)
               /\ Same(n, m, {"timers", "sock"})
<1> DEFINE m == DestroySocketTimer(n, s)
<1>1. n \in Nets
    BY DEF Safe
<1>2. /\ m \in Nets /\ Same(n, m, {"timers", "sock"})
      /\ m.timers = IF n.sock[s].timer THEN RemoveFirst(n.timers, s) ELSE n.timers
      /\ m.sock[s].timer = FALSE /\ Of(n, m, s, {"timer"}) /\ Others(n, m, s)
    BY <1>1, DestroyTimerEffect
<1> HIDE DEF m
<1>3. /\ m.ports = n.ports /\ m.types = n.types /\ m.servers = n.servers /\ m.link = n.link /\ m.desc = n.desc
      /\ m.ptr = n.ptr /\ m.recvCS = n.recvCS /\ m.sendSS = n.sendSS /\ m.sendCS = n.sendCS /\ m.lost = n.lost
      /\ m.replaced = n.replaced /\ m.stranger = n.stranger /\ m.silent = n.silent
    BY <1>2 DEF Same, Fields
<1>4. \A r \in Objects : /\ m.sock[r].fd = n.sock[r].fd /\ m.sock[r].status = n.sock[r].status
                         /\ m.sock[r].peer = n.sock[r].peer /\ m.sock[r].buf = n.sock[r].buf
    BY <1>2 DEF Of, Others, SocketFields
<1>5. Holding(m) /\ Quiet(m) /\ Clients(m)
    BY <1>1, <1>2, <1>3, <1>4, HoldingKept, QuietKept, ClientsKept DEF Safe
<1>6. Waiting(m, b) /\ Packets(m, b, app) /\ Replies(m, b) /\ (config.threads = 1 => Ended(m, conn, app))
    BY <1>3, LinksKept DEF Safe
<1>7. Accounted(m)
    <2> SUFFICES ASSUME ~n.replaced PROVE Free(m) /\ Pointed(m) /\ Timed(m) /\ Entered(m)
        BY <1>3 DEF Accounted
    <2>1. Holding(n) /\ Free(n) /\ Pointed(n) /\ Timed(n) /\ Entered(n)
        BY DEF Safe, Accounted
    <2>2. Free(m) /\ Pointed(m) /\ Entered(m)
        BY <1>1, <1>2, <1>3, <1>4, <2>1, FreeKept, PointedKept, EnteredKept
    <2>3. Timed(m)
        <3>1. n.timers \in Seq(Objects) /\ IsInjective(n.timers)
            BY <1>1, <2>1, NetTyped DEF Timed
        <3>2. IsInjective(m.timers) /\ ToSet(m.timers) = ToSet(n.timers) \ {s}
            BY <1>2, <2>1, <3>1, RemoveFirstTakes DEF Timed
        <3>3. \A r \in Objects : m.sock[r].timer <=> r \in ToSet(m.timers)
            BY <1>2, <2>1, <3>2 DEF Timed, Others
        <3>4. \A r \in Objects : m.sock[r].timer => m.sock[r].status \in {"Opened", "Connecting"}
            BY <1>2, <1>4, <2>1 DEF Timed, Others
        <3> QED
            BY <1>3, <1>4, <2>1, <3>2, <3>3, <3>4 DEF Timed, LinkOf
    <2> QED
        BY <2>2, <2>3
<1>8. Routed(m)
    BY <1>1, <1>2, <1>3, <1>4, RoutedKept DEF Safe
<1> QED
    BY <1>2, <1>4, <1>5, <1>6, <1>7, <1>8 DEF Safe, m

WithStatus(n, s, status) == [n EXCEPT !.sock[s].status = status]

LEMMA StatusEffect ==
    ASSUME NEW n \in Nets, NEW s \in Objects,
           NEW status \in {"Closed", "Opened", "Connecting", "Connected", "Available"}
    PROVE  LET m == WithStatus(n, s, status)
           IN  /\ m \in Nets /\ Same(n, m, {"sock"})
               /\ m.sock[s].status = status /\ Of(n, m, s, {"status"}) /\ Others(n, m, s)
<1>1. [n.sock EXCEPT ![s].status = status] \in SocketMaps
    BY ZenonT(40) DEF Nets, SocketMaps, SocketSet
<1> QED
    BY <1>1, ZenonT(40) DEF WithStatus, Nets, Same, Fields, SocketMaps, SocketSet, Of, Others, SocketFields

\* A socket that is open begins to connect, or is connected: it has no timer then.
LEMMA StatusKeeps ==
    ASSUME config \in Configs, NEW n, NEW b, Safe(n, b), NEW s \in Objects, BelongPort(s) # "outside",
           NEW status \in {"Connecting", "Connected"}, n.sock[s].status \in {"Opened", "Connecting"},
           ~n.replaced /\ status = "Connected" => ~n.sock[s].timer,
           ~n.replaced /\ ~n.stranger =>
               n.sock[s].peer \in DOMAIN n.servers /\ n.servers[n.sock[s].peer] = s
    PROVE  LET m == WithStatus(n, s, status)
           IN  /\ Safe(m, b) /\ m.sock[s].status = status /\ Of(n, m, s, {"status"}) /\ Others(n, m, s)
               /\ Same(n, m, {"sock"})
<1> DEFINE m == WithStatus(n, s, status)
<1>1. n \in Nets
    BY DEF Safe
<1>2. /\ m \in Nets /\ Same(n, m, {"sock"})
      /\ m.sock[s].status = status /\ Of(n, m, s, {"status"}) /\ Others(n, m, s)
    <2>1. status \in {"Closed", "Opened", "Connecting", "Connected", "Available"}
        OBVIOUS
    <2> QED
        BY <1>1, <2>1, StatusEffect
<1> HIDE DEF m
<1>3. /\ m.ports = n.ports /\ m.types = n.types /\ m.servers = n.servers /\ m.link = n.link /\ m.desc = n.desc
      /\ m.ptr = n.ptr /\ m.recvCS = n.recvCS /\ m.sendSS = n.sendSS /\ m.sendCS = n.sendCS /\ m.lost = n.lost
      /\ m.replaced = n.replaced /\ m.stranger = n.stranger /\ m.silent = n.silent /\ m.timers = n.timers
    BY <1>2 DEF Same, Fields
<1>4. \A r \in Objects : /\ m.sock[r].fd = n.sock[r].fd /\ m.sock[r].timer = n.sock[r].timer
                         /\ m.sock[r].peer = n.sock[r].peer /\ m.sock[r].buf = n.sock[r].buf
    BY <1>2 DEF Of, Others, SocketFields
<1>5. \A r \in Objects : r # s => m.sock[r].status = n.sock[r].status
    BY <1>2 DEF Others
<1>6. n.sock[s].peer \in ServerKeys
    BY DEF Safe, Clients
<1>7. Holding(n) /\ Clients(n) /\ Routed(n)
    BY DEF Safe
<1>8. Holding(m) /\ Quiet(m)
    BY <1>1, <1>2, <1>3, <1>4, <1>5, HoldingKept, QuietKept DEF Safe
<1>9. Clients(m)
    <2>1. \A p \in PortNames : \A r \in ToSet(m.ports[p]) : r \in Objects
        BY <1>2, NetTyped, ElementsTyped
    <2>2. \A key \in DOMAIN m.servers : m.servers[key] \in Objects
        BY <1>2, NetTyped, MapElement
    <2>3. \A r \in Objects : BelongPort(r) = "outside" => m.sock[r].status = n.sock[r].status
        BY <1>5
    <2>4. \A r \in Objects : BelongPort(r) # "outside" =>
              /\ m.sock[r].peer \in ServerKeys \cup {Nobody}
              /\ m.sock[r].status \in {"Opened", "Connecting"} => m.sock[r].peer \in ServerKeys
        BY <1>4, <1>5, <1>6, <1>7 DEF Clients
    <2> QED
        BY <1>3, <1>4, <1>7, <2>1, <2>2, <2>3, <2>4 DEF Clients, PortNames
<1>10. Waiting(m, b) /\ Packets(m, b, app) /\ Replies(m, b) /\ (config.threads = 1 => Ended(m, conn, app))
    BY <1>3, LinksKept DEF Safe
<1>11. Accounted(m)
    <2> SUFFICES ASSUME ~n.replaced PROVE Free(m) /\ Pointed(m) /\ Timed(m) /\ Entered(m)
        BY <1>3 DEF Accounted
    <2>1. Holding(n) /\ Free(n) /\ Pointed(n) /\ Timed(n) /\ Entered(n)
        BY DEF Safe, Accounted
    <2>2. Free(m) /\ Pointed(m)
        BY <1>1, <1>2, <1>3, <1>4, <2>1, FreeKept, PointedKept
    <2>3. BelongPort(s) = "none"
        BY <2>1 DEF Timed
    <2>4. Timed(m)
        BY <1>2, <1>3, <1>4, <1>5, <2>1, <2>3 DEF Timed, LinkOf
    <2>5. Entered(m)
        <3> SUFFICES ASSUME NEW key \in DOMAIN n.servers
                     PROVE  LET r == n.servers[key] IN
                            /\ m.sock[r].fd # 0 /\ m.sock[r].peer = key
                            /\ BelongPort(r) = "inside" =>
                                  m.sock[r].status = "Available" /\ m.link[LinkOf(m, r)].who = key
            <4>1. m.servers = n.servers
                BY <1>3
            <4> QED
                BY <4>1, ZenonT(40) DEF Entered
        <3> DEFINE r == n.servers[key]
        <3>1. r \in Objects
            BY <1>1, NetTyped, MapElement
        <3>2. /\ n.sock[r].fd # 0 /\ n.sock[r].peer = key
              /\ BelongPort(r) = "inside" => n.sock[r].status = "Available" /\ n.link[LinkOf(n, r)].who = key
            BY <2>1, Zenon DEF Entered
        <3> HIDE DEF r
        <3>3. LinkOf(m, r) = LinkOf(n, r)
            BY <1>3, <1>4, <3>1 DEF LinkOf
        <3> QED
            BY <1>3, <1>4, <1>5, <2>3, <3>1, <3>2, <3>3 DEF r
    <2> QED
        BY <2>2, <2>4, <2>5
<1>12. Routed(m)
    BY <1>2, <1>3, <1>4, <1>5, <1>7 DEF Routed, LinkOf
<1> QED
    BY <1>2, <1>8, <1>9, <1>10, <1>11, <1>12 DEF Safe, m

\* OnConnected, when there is memory for our registration.
Announced(n, s) == [SendRegisteNotify(RegistEvent(n, n.sock[s].fd, s), s) EXCEPT !.sock[s].status = "Available"]

LEMMA AnnouncedEffect ==
    ASSUME NEW n \in Nets, NEW s \in Objects, n.sock[s].peer \in ServerKeys, n.sock[s].fd # 0
    PROVE  LET m == Announced(n, s)
           IN  /\ m \in Nets /\ Same(n, m, {"ptr", "sendSS", "sock"})
               /\ Differs(n.ptr, m.ptr, n.sock[s].fd, s)
               /\ m.sendSS = Append(n.sendSS, [to |-> n.sock[s].peer, kind |-> "regist"])
               /\ m.sock[s].status = "Available" /\ Of(n, m, s, {"status"}) /\ Others(n, m, s)
<1> DEFINE fd == n.sock[s].fd
           order == [to |-> n.sock[s].peer, kind |-> "regist"]
           r == RegistEvent(n, fd, s)
           p == PushSendSSQueue(r, order)
           m == Announced(n, s)
<1>1. fd \in Fds
    BY SocketTyped
<1>2. r \in Nets /\ Differs(n.ptr, r.ptr, fd, s) /\ Same(n, r, {"ptr"})
    BY <1>1, RegistEffect
<1>3. r.sock = n.sock /\ r.sendSS = n.sendSS
    BY <1>2 DEF Same, Fields
<1>4. order \in OrderSet
    BY DEF OrderSet
<1>5. m = WithStatus(p, s, "Available")
    BY <1>3 DEF Announced, SendRegisteNotify, WithStatus
<1> HIDE DEF r, order, fd
<1>6. p \in Nets /\ p.sendSS = Append(r.sendSS, order) /\ Same(r, p, {"sendSS"})
    BY <1>2, <1>4, PushSSEffect
<1> HIDE DEF p
<1>7. /\ m \in Nets /\ Same(p, m, {"sock"})
      /\ m.sock[s].status = "Available" /\ Of(p, m, s, {"status"}) /\ Others(p, m, s)
    <2>1. "Available" \in {"Closed", "Opened", "Connecting", "Connected", "Available"}
        OBVIOUS
    <2> DEFINE k == WithStatus(p, s, "Available")
    <2>2. /\ k \in Nets /\ Same(p, k, {"sock"})
          /\ k.sock[s].status = "Available" /\ Of(p, k, s, {"status"}) /\ Others(p, k, s)
        BY <1>6, <2>1, StatusEffect
    <2> QED
        BY <1>5, <2>2, Zenon
<1> HIDE DEF m
<1>8. p.sock = n.sock
    BY <1>3, <1>6 DEF Same, Fields
<1>9. Of(n, m, s, {"status"}) /\ Others(n, m, s)
    BY <1>7, <1>8 DEF Of, Others
<1>10. m.ptr = r.ptr /\ m.sendSS = Append(n.sendSS, order)
    BY <1>3, <1>6, <1>7 DEF Same, Fields
<1>11. Same(n, m, {"ptr", "sendSS", "sock"})
    BY <1>2, <1>6, <1>7 DEF Same, Fields
<1> QED
    BY <1>2, <1>7, <1>9, <1>10, <1>11 DEF m, fd, order

LEMMA AnnouncedKeeps ==
    ASSUME config \in Configs, NEW n, NEW b, Safe(n, b), NEW s \in Objects, BelongPort(s) # "outside",
           n.sock[s].status = "Connected", n.sock[s].peer \in ServerKeys,
           ~n.replaced => BelongPort(s) = "none" /\ ~n.sock[s].timer,
           ~n.replaced /\ ~n.stranger =>
               n.sock[s].peer \in DOMAIN n.servers /\ n.servers[n.sock[s].peer] = s
    PROVE  LET m == Announced(n, s)
           IN  Safe(m, b) /\ m.sock[s].status = "Available" /\ Others(n, m, s) /\ Same(n, m, {"ptr", "sendSS", "sock"})
<1> DEFINE m == Announced(n, s)
           fd == n.sock[s].fd
           order == [to |-> n.sock[s].peer, kind |-> "regist"]
<1>1. n \in Nets /\ Holding(n) /\ Clients(n) /\ Routed(n)
    BY DEF Safe
<1>2. fd # 0 /\ fd \in Fds
    BY <1>1, SocketTyped DEF Holding
<1>3. /\ m \in Nets /\ Same(n, m, {"ptr", "sendSS", "sock"})
      /\ Differs(n.ptr, m.ptr, fd, s) /\ m.sendSS = Append(n.sendSS, order)
      /\ m.sock[s].status = "Available" /\ Of(n, m, s, {"status"}) /\ Others(n, m, s)
    BY <1>1, <1>2, AnnouncedEffect
<1>4. order \in OrderSet
    BY DEF OrderSet
<1> HIDE DEF m, fd, order
<1>5. /\ m.ports = n.ports /\ m.types = n.types /\ m.servers = n.servers /\ m.link = n.link /\ m.desc = n.desc
      /\ m.recvCS = n.recvCS /\ m.sendCS = n.sendCS /\ m.lost = n.lost
      /\ m.replaced = n.replaced /\ m.stranger = n.stranger /\ m.silent = n.silent /\ m.timers = n.timers
    BY <1>3 DEF Same, Fields
<1>6. \A r \in Objects : /\ m.sock[r].fd = n.sock[r].fd /\ m.sock[r].timer = n.sock[r].timer
                         /\ m.sock[r].peer = n.sock[r].peer /\ m.sock[r].buf = n.sock[r].buf
    BY <1>3 DEF Of, Others, SocketFields
<1>7. \A r \in Objects : r # s => m.sock[r].status = n.sock[r].status
    BY <1>3 DEF Others
<1>8. Holding(m) /\ Quiet(m)
    BY <1>1, <1>3, <1>5, <1>6, <1>7, HoldingKept, QuietKept DEF Safe
<1>9. Clients(m)
    <2>1. \A p \in PortNames : \A r \in ToSet(m.ports[p]) : r \in Objects
        BY <1>3, NetTyped, ElementsTyped
    <2>2. \A key \in DOMAIN m.servers : m.servers[key] \in Objects
        BY <1>3, NetTyped, MapElement
    <2>3. \A r \in Objects : BelongPort(r) = "outside" => m.sock[r].status = n.sock[r].status
        BY <1>7
    <2>4. \A r \in Objects : BelongPort(r) # "outside" =>
              /\ m.sock[r].peer \in ServerKeys \cup {Nobody}
              /\ m.sock[r].status \in {"Opened", "Connecting"} => m.sock[r].peer \in ServerKeys
        BY <1>3, <1>6, <1>7, <1>1 DEF Clients
    <2> QED
        BY <1>1, <1>5, <1>6, <2>1, <2>2, <2>3, <2>4 DEF Clients, PortNames
<1>10. Waiting(m, b) /\ Packets(m, b, app) /\ Replies(m, b) /\ (config.threads = 1 => Ended(m, conn, app))
    BY <1>5, LinksKept DEF Safe
<1>11. Accounted(m)
    <2> SUFFICES ASSUME ~n.replaced PROVE Free(m) /\ Pointed(m) /\ Timed(m) /\ Entered(m)
        BY <1>5 DEF Accounted
    <2>1. Holding(n) /\ Free(n) /\ Pointed(n) /\ Timed(n) /\ Entered(n)
        BY DEF Safe, Accounted
    <2>2. Free(m)
        BY <1>1, <1>3, <1>5, <1>6, <2>1, FreeKept
    <2>3. BelongPort(s) = "none" /\ ~n.sock[s].timer
        OBVIOUS
    <2>4. Pointed(m)
        <3>1. \A f \in Fds : m.ptr[f] = IF f = fd THEN s ELSE n.ptr[f]
            BY <1>1, <1>3, NetTyped DEF Differs
        <3>2. n.desc[fd] # 0 /\ m.sock[s].fd = fd /\ s # 0
            BY <1>1, <1>2, <1>6, ConfigFacts DEF Holding, fd
        <3>3. \A f \in Fds : n.ptr[f] # 0 => n.ptr[f] \in Objects
            BY <1>1, NetTyped
        <3> QED
            BY <1>5, <1>6, <2>1, <3>1, <3>2, <3>3 DEF Pointed
    <2>5. Timed(m)
        BY <1>3, <1>5, <1>6, <1>7, <2>1, <2>3 DEF Timed, LinkOf
    <2>6. Entered(m)
        <3> SUFFICES ASSUME NEW key \in DOMAIN n.servers
                     PROVE  LET r == n.servers[key] IN
                            /\ m.sock[r].fd # 0 /\ m.sock[r].peer = key
                            /\ BelongPort(r) = "inside" =>
                                  m.sock[r].status = "Available" /\ m.link[LinkOf(m, r)].who = key
            <4>1. m.servers = n.servers
                BY <1>5
            <4> QED
                BY <4>1, ZenonT(40) DEF Entered
        <3> DEFINE r == n.servers[key]
        <3>1. r \in Objects
            BY <1>1, NetTyped, MapElement
        <3>2. /\ n.sock[r].fd # 0 /\ n.sock[r].peer = key
              /\ BelongPort(r) = "inside" => n.sock[r].status = "Available" /\ n.link[LinkOf(n, r)].who = key
            BY <2>1, Zenon DEF Entered
        <3> HIDE DEF r
        <3>3. LinkOf(m, r) = LinkOf(n, r)
            BY <1>5, <1>6, <3>1 DEF LinkOf
        <3> QED
            BY <1>5, <1>6, <1>7, <2>3, <3>1, <3>2, <3>3 DEF r
    <2> QED
        BY <2>2, <2>4, <2>5, <2>6
<1>12. Routed(m)
    <2> SUFFICES ASSUME ~n.replaced, ~n.stranger PROVE Routed(m)
        BY <1>5 DEF Routed
    <2>1. ToSet(m.sendSS) = ToSet(n.sendSS) \cup {order}
        BY <1>1, <1>3, <1>4, NetTyped, AppendElements
    <2>2. \A r \in Objects : LinkOf(m, r) = LinkOf(n, r)
        BY <1>5, <1>6 DEF LinkOf
    <2>3. \A r \in Objects : m.sock[r].status \in {"Available", "Connecting"} =>
              m.sock[r].peer \in DOMAIN m.servers /\ m.servers[m.sock[r].peer] = r
        BY <1>1, <1>5, <1>6, <1>7 DEF Routed
    <2>4. \A r \in Objects : BelongPort(r) = "none" /\ m.sock[r].fd # 0 /\ m.sock[r].peer \in DOMAIN m.servers =>
              m.servers[m.sock[r].peer] = r
        BY <1>1, <1>5, <1>6 DEF Routed
    <2>5. ASSUME NEW r \in Objects, BelongPort(r) = "none", m.sock[r].status = "Available"
          PROVE  \/ "regist" \in m.link[LinkOf(m, r)].got
                 \/ [to |-> m.sock[r].peer, kind |-> "regist"] \in ToSet(m.sendSS)
        <3>1. CASE r = s
            BY <1>6, <2>1, <3>1 DEF order
        <3>2. CASE r # s
            BY <1>1, <1>5, <1>6, <1>7, <2>1, <2>2, <2>5, <3>2 DEF Routed
        <3> QED
            BY <3>1, <3>2
    <2> QED
        BY <2>3, <2>4, <2>5 DEF Routed
<1> QED
    BY <1>3, <1>8, <1>9, <1>10, <1>11, <1>12 DEF Safe, m

\* A socket that is closed: its descriptor is free, and nothing leads to it any more.
LEMMA ReleasedKeeps ==
    ASSUME config \in Configs, NEW n \in Nets, NEW m \in Nets, NEW b, NEW s \in Objects, NEW fd,
           fd = n.sock[s].fd, fd # 0, Holding(n),
           m.link = n.link, m.sock[s] = Unused(n.sock[s].peer), Others(n, m, s), Differs(n.desc, m.desc, fd, 0)
    PROVE  /\ Holding(m)
           /\ Waiting(n, b) => Waiting(m, b)
           /\ Quiet(n) => Quiet(m)
           /\ Replies(n, b) => Replies(m, b)
           /\ Differs(n.ptr, m.ptr, fd, 0) /\ Pointed(n) => Pointed(m)
           /\ m.timers = (IF n.sock[s].timer THEN RemoveFirst(n.timers, s) ELSE n.timers) /\ Timed(n) => Timed(m)
<1>1. /\ m.sock[s].fd = 0 /\ m.sock[s].status = "Closed" /\ m.sock[s].peer = n.sock[s].peer
      /\ m.sock[s].timer = FALSE /\ m.sock[s].buf = << >>
    BY DEF Unused
<1>2. \A r \in Objects : r # s => m.sock[r] = n.sock[r]
    BY DEF Others
<1>3. fd \in Fds /\ \A f \in Fds : m.desc[f] = IF f = fd THEN 0 ELSE n.desc[f]
    BY NetTyped, SocketTyped DEF Differs
<1>4. \A r \in Objects : r # s => m.sock[r].fd # fd
    BY <1>2 DEF Holding
<1>5. \A r \in Objects : m.sock[r].fd # 0 => r # s /\ m.sock[r].fd \in Fds /\ m.desc[m.sock[r].fd] = n.desc[n.sock[r].fd]
    BY <1>1, <1>2, <1>3, <1>4, SocketTyped, SMTT(30), Zenon
<1>6. Holding(m)
    <2>1. \A r \in Objects : m.sock[r].status = "Closed" <=> m.sock[r].fd = 0
        BY <1>1, <1>2, SMTT(30), Zenon DEF Holding
    <2>2. ASSUME NEW r \in Objects, m.sock[r].fd # 0
          PROVE  /\ m.desc[m.sock[r].fd] # 0
                 /\ BelongPort(r) = "outside" <=> m.link[m.desc[m.sock[r].fd]].who = <<Client, 0>>
                 /\ BelongPort(r) = "none" => m.link[m.desc[m.sock[r].fd]].who \in Configured
        <3>1. r # s /\ m.sock[r].fd \in Fds /\ m.desc[m.sock[r].fd] = n.desc[n.sock[r].fd]
            BY <1>5, <2>2
        <3>2. n.sock[r].fd # 0
            BY <1>2, <2>2, <3>1, SMTT(30), Zenon
        <3>3. /\ n.desc[n.sock[r].fd] # 0
              /\ BelongPort(r) = "outside" <=> n.link[n.desc[n.sock[r].fd]].who = <<Client, 0>>
              /\ BelongPort(r) = "none" => n.link[n.desc[n.sock[r].fd]].who \in Configured
            BY <3>2 DEF Holding
        <3> QED
            BY <3>1, <3>3, Zenon
    <2>3. \A q, r \in Objects : m.sock[q].fd # 0 /\ m.sock[q].fd = m.sock[r].fd => q = r
        BY <1>1, <1>2 DEF Holding
    <2>4. \A f \in Fds : m.desc[f] <= Len(m.link)
        BY <1>3, NetTyped DEF Holding
    <2>5. \A f, g \in Fds : m.desc[f] # 0 /\ m.desc[f] = m.desc[g] => f = g
        BY <1>3 DEF Holding
    <2> QED
        BY <2>1, <2>2, <2>3, <2>4, <2>5, Zenon DEF Holding
<1>7. ASSUME Waiting(n, b) PROVE Waiting(m, b)
    <2>1. \A l : l \in 1 .. Len(n.link) /\ (\A f \in Fds : n.desc[f] # l) => \A f \in Fds : m.desc[f] # l
        BY <1>3
    <2> QED
        BY <1>7, <2>1 DEF Waiting
<1>8. ASSUME Quiet(n) PROVE Quiet(m)
    BY <1>1, <1>2, <1>8 DEF Quiet
<1>9. ASSUME Replies(n, b) PROVE Replies(m, b)
    <2>1. \A l : l \in 1 .. Len(n.link) /\ Alive(m, b, l) => Alive(n, b, l)
        BY <1>3 DEF Alive
    <2> QED
        BY <1>9, <2>1 DEF Replies
<1>10. ASSUME Differs(n.ptr, m.ptr, fd, 0), Pointed(n) PROVE Pointed(m)
    <2>1. \A f \in Fds : m.ptr[f] = IF f = fd THEN 0 ELSE n.ptr[f]
        BY <1>10, NetTyped DEF Differs
    <2>2. \A f \in Fds : n.ptr[f] # 0 => n.ptr[f] \in Objects
        BY NetTyped
    <2>3. \A f \in Fds : f # fd /\ n.ptr[f] # 0 /\ n.sock[n.ptr[f]].fd = f => n.ptr[f] # s
        OBVIOUS
    <2> QED
        BY <1>2, <1>3, <1>10, <2>1, <2>2, <2>3 DEF Pointed
<1>11. ASSUME m.timers = (IF n.sock[s].timer THEN RemoveFirst(n.timers, s) ELSE n.timers), Timed(n) PROVE Timed(m)
    <2>1. n.timers \in Seq(Objects) /\ IsInjective(n.timers)
        BY <1>11, NetTyped DEF Timed
    <2>2. IsInjective(m.timers) /\ ToSet(m.timers) = ToSet(n.timers) \ {s}
        BY <1>11, <2>1, RemoveFirstTakes DEF Timed
    <2>3. \A r \in Objects : m.sock[r].timer <=> r \in ToSet(m.timers)
        BY <1>1, <1>2, <1>11, <2>2 DEF Timed
    <2>4. \A r \in Objects : m.sock[r].timer => m.sock[r].status \in {"Opened", "Connecting"}
        BY <1>1, <1>2, <1>11 DEF Timed
    <2>5. \A r \in Objects : m.sock[r].status \in {"Opened", "Connecting"} => BelongPort(r) = "none"
        BY <1>1, <1>2, <1>11 DEF Timed
    <2>6. ASSUME NEW r \in Objects, BelongPort(r) = "none", m.sock[r].fd # 0
          PROVE  m.sock[r].peer[1] = TypeOf(r) /\ m.link[LinkOf(m, r)].who = m.sock[r].peer
        <3>1. r # s /\ m.desc[m.sock[r].fd] = n.desc[n.sock[r].fd]
            BY <1>5, <2>6
        <3>2. n.sock[r].fd # 0
            BY <1>2, <2>6, <3>1
        <3>3. n.sock[r].peer[1] = TypeOf(r) /\ n.link[LinkOf(n, r)].who = n.sock[r].peer
            BY <1>11, <2>6, <3>2 DEF Timed
        <3> QED
            BY <1>2, <3>1, <3>3 DEF LinkOf
    <2> QED
        BY <2>2, <2>3, <2>4, <2>5, <2>6 DEF Timed
<1> QED
    BY <1>6, <1>7, <1>8, <1>9, <1>10, <1>11

\* An object is given back: it goes to the end of its port's list or of a type's.
Back(n, m, s, type) ==
    /\ IF BelongPort(s) = "none" THEN m.ports = n.ports
       ELSE Differs(n.ports, m.ports, BelongPort(s), Append(n.ports[BelongPort(s)], s))
    /\ IF BelongPort(s) = "none" /\ type \in TypeNames
       THEN Differs(n.types, m.types, type, Append(n.types[type], s)) ELSE m.types = n.types

LEMMA BackLists ==
    ASSUME config \in Configs, NEW n \in Nets, NEW m \in Nets, NEW s \in Objects, NEW type, Back(n, m, s, type)
    PROVE  /\ \A p \in PortNames :
                 /\ ToSet(m.ports[p]) = ToSet(n.ports[p]) \cup (IF p = BelongPort(s) THEN {s} ELSE {})
                 /\ IsInjective(n.ports[p]) /\ (p = BelongPort(s) => s \notin ToSet(n.ports[p])) => IsInjective(m.ports[p])
           /\ \A t \in TypeNames :
                 /\ ToSet(m.types[t]) = ToSet(n.types[t]) \cup (IF BelongPort(s) = "none" /\ t = type THEN {s} ELSE {})
                 /\ IsInjective(n.types[t]) /\ (BelongPort(s) = "none" /\ t = type => s \notin ToSet(n.types[t]))
                       => IsInjective(m.types[t])
<1>1. n.ports \in [PortNames -> Seq(Objects)] /\ n.types \in [TypeNames -> Seq(Objects)]
    BY NetTyped
<1>2. "none" \notin PortNames /\ BelongPort(s) \in PortNames \cup {"none"}
    BY ConfigFacts DEF PortNames
<1>3. ASSUME NEW p \in PortNames
      PROVE  /\ ToSet(m.ports[p]) = ToSet(n.ports[p]) \cup (IF p = BelongPort(s) THEN {s} ELSE {})
             /\ IsInjective(n.ports[p]) /\ (p = BelongPort(s) => s \notin ToSet(n.ports[p])) => IsInjective(m.ports[p])
    <2>1. CASE p = BelongPort(s)
        <3>1. m.ports[p] = Append(n.ports[p], s) /\ n.ports[p] \in Seq(Objects)
            BY <1>1, <1>2, <2>1 DEF Back, Differs
        <3> QED
            BY <2>1, <3>1, AppendElements
    <2>2. CASE p # BelongPort(s)
        <3>1. m.ports[p] = n.ports[p]
            BY <1>1, <1>2, <2>2 DEF Back, Differs
        <3> QED
            BY <2>2, <3>1
    <2> QED
        BY <2>1, <2>2
<1>4. ASSUME NEW t \in TypeNames
      PROVE  /\ ToSet(m.types[t]) = ToSet(n.types[t]) \cup (IF BelongPort(s) = "none" /\ t = type THEN {s} ELSE {})
             /\ IsInjective(n.types[t]) /\ (BelongPort(s) = "none" /\ t = type => s \notin ToSet(n.types[t]))
                       => IsInjective(m.types[t])
    <2>1. CASE BelongPort(s) = "none" /\ t = type
        <3>1. m.types[t] = Append(n.types[t], s) /\ n.types[t] \in Seq(Objects)
            BY <1>1, <2>1 DEF Back, Differs
        <3> QED
            BY <2>1, <3>1, AppendElements
    <2>2. CASE ~(BelongPort(s) = "none" /\ t = type)
        <3>1. m.types[t] = n.types[t]
            BY <1>1, <2>2 DEF Back, Differs
        <3> QED
            BY <2>2, <3>1
    <2> QED
        BY <2>1, <2>2
<1> QED
    BY <1>3, <1>4

LEMMA BackKeepsFree ==
    ASSUME config \in Configs, NEW n \in Nets, NEW m \in Nets, NEW s \in Objects, NEW type, Back(n, m, s, type),
           m.lost = n.lost, Free(n), n.sock[s].fd # 0, m.sock[s].fd = 0, Others(n, m, s),
           BelongPort(s) = "none" => type = TypeOf(s)
    PROVE  Free(m)
<1>1. \A r \in Objects : BelongPort(r) \in PortNames \cup {"none"} /\ (BelongPort(r) = "none" => TypeOf(r) \in TypeNames)
    BY ConfigFacts
<1>2. \A p \in PortNames :
          /\ ToSet(m.ports[p]) = ToSet(n.ports[p]) \cup (IF p = BelongPort(s) THEN {s} ELSE {})
          /\ IsInjective(n.ports[p]) /\ (p = BelongPort(s) => s \notin ToSet(n.ports[p])) => IsInjective(m.ports[p])
    BY BackLists
<1>3. \A t \in TypeNames :
          /\ ToSet(m.types[t]) = ToSet(n.types[t]) \cup (IF BelongPort(s) = "none" /\ t = type THEN {s} ELSE {})
          /\ IsInjective(n.types[t]) /\ (BelongPort(s) = "none" /\ t = type => s \notin ToSet(n.types[t]))
                => IsInjective(m.types[t])
    BY BackLists
<1>4. \A r \in Objects : ToSet(HomeList(m, r)) \ {s} = ToSet(HomeList(n, r)) \ {s}
    BY <1>1, <1>2, <1>3 DEF HomeList
<1>5. s \in ToSet(HomeList(m, s)) /\ s \notin ToSet(HomeList(n, s)) /\ s \notin n.lost
    BY <1>1, <1>2, <1>3 DEF HomeList, Free
<1>6. \A p \in PortNames : IsInjective(m.ports[p])
    BY <1>1, <1>2, <1>5 DEF HomeList, Free, PortNames
<1>7. \A t \in TypeNames : IsInjective(m.types[t])
    BY <1>3, <1>5 DEF HomeList, Free
<1>8. \A t \in TypeNames : \A r \in ToSet(m.types[t]) : TypeOf(r) = t
    BY <1>3 DEF Free
<1>9. \A r \in Objects : r # s => m.sock[r].fd = n.sock[r].fd
    BY DEF Others
<1>10. \A r \in Objects : r \in ToSet(HomeList(m, r)) => m.sock[r].fd = 0 /\ r \notin m.lost
    BY <1>4, <1>5, <1>9 DEF Free
<1>11. \A r \in Objects : m.sock[r].fd # 0 \/ r \in m.lost \/ r \in ToSet(HomeList(m, r))
    BY <1>4, <1>5, <1>9 DEF Free
<1>12. \A r \in m.lost : m.sock[r].fd = 0
    BY <1>9, NetTyped DEF Free
<1> QED
    BY <1>6, <1>7, <1>8, <1>10, <1>11, <1>12 DEF Free

\* A socket that is closed takes the entry with it that it has: its own, or its peer's.
KeyOf(n, s) == IF BelongPort(s) = "outside" THEN <<Client, n.sock[s].fd>> ELSE n.sock[s].peer

LEMMA KeysDiffer ==
    ASSUME config \in Configs
    PROVE  /\ \A key \in ServerKeys : key[1] # Client
           /\ \A fd \in Fds : <<Client, fd>> \notin ServerKeys \cup {Nobody} /\ <<Client, fd>> \in Keys
           /\ Nobody \notin Keys /\ ServerKeys \subseteq Keys
           /\ \A key \in Keys : key[1] = Client => key = <<Client, key[2]>> /\ key[2] \in Fds
           /\ \A key \in Keys : key[1] # Client => key \in ServerKeys
<1>1. \A key \in ServerKeys : key[1] # Client
    BY DEF ServerKeys
<1>2. \A fd \in Fds : <<Client, fd>>[1] = Client /\ <<Client, fd>>[2] = fd
    OBVIOUS
<1>3. Nobody[2] = -1 /\ -1 \notin Fds
    BY ConfigFacts DEF Nobody, Fds
<1>4. \A fd \in Fds : <<Client, fd>> # Nobody
    BY <1>2, <1>3
<1>5. \A fd \in Fds : <<Client, fd>> \notin ServerKeys
    BY <1>1, <1>2
<1>6. Nobody \notin ServerKeys
    BY <1>1 DEF Nobody, Client
<1>7. Nobody \notin {Client} \X Fds
    BY <1>3 DEF Nobody
<1> QED
    BY <1>1, <1>4, <1>5, <1>6, <1>7 DEF Keys

LEMMA DropAt ==
    ASSUME NEW map, NEW k, NEW key \in DOMAIN map, key # k
    PROVE  Drop(map, k)[key] = map[key]
BY DEF Drop

LEMMA DropDomain ==
    ASSUME NEW map, NEW k
    PROVE  DOMAIN Drop(map, k) = DOMAIN map \ {k}
BY DEF Drop

LEMMA DropServers ==
    ASSUME NEW n \in Nets, NEW m, NEW k, m.servers = Drop(n.servers, k), NEW key \in DOMAIN m.servers
    PROVE  /\ key \in DOMAIN n.servers /\ key # k /\ m.servers[key] = n.servers[key]
           /\ key \in Keys /\ n.servers[key] \in Objects
<1>1. DOMAIN m.servers = DOMAIN n.servers \ {k}
    BY DropDomain
<1>2. key \in DOMAIN n.servers /\ key # k
    BY <1>1
<1>3. m.servers[key] = n.servers[key]
    BY <1>2, DropAt
<1>4. key \in Keys /\ n.servers[key] \in Objects
    BY <1>2, NetTyped, MapElement
<1> QED
    BY <1>2, <1>3, <1>4

LEMMA DropServersKeeps ==
    ASSUME NEW n, NEW m, NEW k, m.servers = Drop(n.servers, k), NEW key \in DOMAIN n.servers, key # k
    PROVE  key \in DOMAIN m.servers /\ m.servers[key] = n.servers[key]
<1>1. DOMAIN m.servers = DOMAIN n.servers \ {k}
    BY DropDomain
<1>2. m.servers[key] = n.servers[key]
    BY DropAt
<1> QED
    BY <1>1, <1>2

LEMMA ClosedKeepsClients ==
    ASSUME config \in Configs, NEW n \in Nets, NEW m \in Nets, NEW s \in Objects, NEW type, Back(n, m, s, type),
           n.sock[s].fd # 0, m.sock[s] = Unused(n.sock[s].peer), Others(n, m, s),
           Holding(n), Clients(n), m.servers = Drop(n.servers, KeyOf(n, s))
    PROVE  Clients(m)
<1>1. /\ m.sock[s].fd = 0 /\ m.sock[s].status = "Closed" /\ m.sock[s].peer = n.sock[s].peer
    BY DEF Unused
<1>2. \A r \in Objects : r # s => m.sock[r] = n.sock[r]
    BY DEF Others
<1>3. /\ DOMAIN m.servers = DOMAIN n.servers \ {KeyOf(n, s)} /\ \A key \in DOMAIN m.servers : m.servers[key] = n.servers[key]
      /\ \A key \in DOMAIN n.servers : key \in Keys /\ n.servers[key] \in Objects
    <2>1. DOMAIN m.servers = DOMAIN n.servers \ {KeyOf(n, s)}
        BY DropDomain
    <2>2. ASSUME NEW key \in DOMAIN m.servers PROVE m.servers[key] = n.servers[key]
        BY <2>1, DropAt
    <2>3. \A key \in DOMAIN n.servers : key \in Keys /\ n.servers[key] \in Objects
        BY NetTyped, MapElement
    <2> QED
        BY <2>1, <2>2, <2>3
<1>4. n.sock[s].fd \in Fds
    BY SocketTyped
<1>5. ASSUME NEW key \in DOMAIN m.servers, key[1] = Client
      PROVE  BelongPort(m.servers[key]) = "outside" /\ m.sock[m.servers[key]].fd = key[2]
    <2>1. BelongPort(n.servers[key]) = "outside" /\ n.sock[n.servers[key]].fd = key[2] /\ n.servers[key] \in Objects
        BY <1>3, <1>5 DEF Clients
    <2>2. key = <<Client, key[2]>> /\ key # KeyOf(n, s)
        BY <1>3, <1>5, KeysDiffer
    <2>3. n.servers[key] # s
        BY <2>1, <2>2 DEF KeyOf
    <2> QED
        BY <1>2, <1>3, <2>1, <2>3
<1>6. \A key \in DOMAIN m.servers : key[1] # Client => BelongPort(m.servers[key]) # "outside"
    BY <1>3 DEF Clients
<1>7. ASSUME NEW r \in Objects, BelongPort(r) = "outside", m.sock[r].fd # 0
      PROVE  /\ m.sock[r].status = "Connected" /\ m.sock[r].peer = <<Client, m.sock[r].fd>>
             /\ <<Client, m.sock[r].fd>> \in DOMAIN m.servers /\ m.servers[<<Client, m.sock[r].fd>>] = r
    <2>1. r # s /\ m.sock[r] = n.sock[r]
        BY <1>1, <1>2, <1>7
    <2>2. /\ n.sock[r].status = "Connected" /\ n.sock[r].peer = <<Client, n.sock[r].fd>>
          /\ <<Client, n.sock[r].fd>> \in DOMAIN n.servers /\ n.servers[<<Client, n.sock[r].fd>>] = r
        BY <1>7, <2>1, SMTT(30), Zenon DEF Clients
    <2>3. n.sock[r].fd # n.sock[s].fd /\ n.sock[r].fd \in Fds
        BY <1>7, <2>1, SocketTyped DEF Holding
    <2>4. BelongPort(s) # "outside" => n.sock[s].peer \in ServerKeys \cup {Nobody}
        BY DEF Clients
    <2>5. <<Client, n.sock[r].fd>> # KeyOf(n, s)
        <3>1. CASE BelongPort(s) = "outside"
            BY <2>3, <3>1 DEF KeyOf
        <3>2. CASE BelongPort(s) # "outside"
            BY <2>3, <2>4, <3>2, KeysDiffer DEF KeyOf
        <3> QED
            BY <3>1, <3>2
    <2> QED
        BY <1>3, <2>1, <2>2, <2>5
<1>8. \A r \in Objects : BelongPort(r) # "outside" =>
          /\ m.sock[r].peer \in ServerKeys \cup {Nobody}
          /\ m.sock[r].status \in {"Opened", "Connecting"} => m.sock[r].peer \in ServerKeys
    BY <1>1, <1>2 DEF Clients
<1>9. \A p \in PortNames :
          /\ ToSet(m.ports[p]) = ToSet(n.ports[p]) \cup (IF p = BelongPort(s) THEN {s} ELSE {})
          /\ IsInjective(n.ports[p]) /\ (p = BelongPort(s) => s \notin ToSet(n.ports[p])) => IsInjective(m.ports[p])
    BY BackLists
<1>10. \A t \in TypeNames :
          ToSet(m.types[t]) = ToSet(n.types[t]) \cup (IF BelongPort(s) = "none" /\ t = type THEN {s} ELSE {})
    BY BackLists
<1>11. \A p \in PortNames : \A r \in ToSet(m.ports[p]) : BelongPort(r) = p
    BY <1>9 DEF Clients
<1>12. "outside" \in PortNames /\ ToSet(n.ports["outside"]) \subseteq Objects
    BY NetTyped, ElementsTyped DEF PortNames
<1>13. \A r \in ToSet(m.ports["outside"]) : m.sock[r].fd = 0
    BY <1>1, <1>2, <1>9, <1>12 DEF Clients
<1>14. IsInjective(m.ports["outside"])
    BY <1>9, <1>12 DEF Clients
<1>15. \A t \in TypeNames : \A r \in ToSet(m.types[t]) : BelongPort(r) = "none"
    BY <1>10 DEF Clients
<1> QED
    BY <1>5, <1>6, <1>7, <1>8, <1>11, <1>13, <1>14, <1>15 DEF Clients

LEMMA ClosedKeepsEntered ==
    ASSUME config \in Configs, NEW n \in Nets, NEW m \in Nets, NEW s \in Objects,
           n.sock[s].fd # 0, Others(n, m, s), m.link = n.link, Differs(n.desc, m.desc, n.sock[s].fd, 0),
           Holding(n), Clients(n), Entered(n), m.servers = Drop(n.servers, KeyOf(n, s))
    PROVE  Entered(m)
<1>1. \A r \in Objects : r # s => m.sock[r] = n.sock[r]
    BY DEF Others
<1>2. /\ DOMAIN m.servers = DOMAIN n.servers \ {KeyOf(n, s)} /\ \A key \in DOMAIN m.servers : m.servers[key] = n.servers[key]
      /\ \A key \in DOMAIN n.servers : key \in Keys /\ n.servers[key] \in Objects
    <2>1. DOMAIN m.servers = DOMAIN n.servers \ {KeyOf(n, s)}
        BY DropDomain
    <2>2. ASSUME NEW key \in DOMAIN m.servers PROVE m.servers[key] = n.servers[key]
        BY <2>1, DropAt
    <2>3. \A key \in DOMAIN n.servers : key \in Keys /\ n.servers[key] \in Objects
        BY NetTyped, MapElement
    <2> QED
        BY <2>1, <2>2, <2>3
<1> SUFFICES ASSUME NEW key \in DOMAIN m.servers
             PROVE  LET r == m.servers[key] IN
                    /\ m.sock[r].fd # 0 /\ m.sock[r].peer = key
                    /\ BelongPort(r) = "inside" => m.sock[r].status = "Available" /\ m.link[LinkOf(m, r)].who = key
    BY Zenon DEF Entered
<1> DEFINE r == n.servers[key]
<1>3. key \in DOMAIN n.servers /\ key # KeyOf(n, s) /\ m.servers[key] = r /\ r \in Objects
    BY <1>2
<1>4. /\ n.sock[r].fd # 0 /\ n.sock[r].peer = key
      /\ BelongPort(r) = "inside" => n.sock[r].status = "Available" /\ n.link[LinkOf(n, r)].who = key
    BY <1>3, Zenon DEF Entered
<1>5. /\ key[1] = Client => BelongPort(r) = "outside" /\ n.sock[r].fd = key[2] /\ key = <<Client, key[2]>>
      /\ key[1] # Client => BelongPort(r) # "outside"
    BY <1>2, <1>3, KeysDiffer DEF Clients
<1> HIDE DEF r
<1>6. r # s
    <2>1. CASE BelongPort(s) = "outside"
        BY <1>3, <1>5, <2>1 DEF KeyOf
    <2>2. CASE BelongPort(s) # "outside"
        BY <1>3, <1>4, <2>2, SMTT(30), Zenon DEF KeyOf
    <2> QED
        BY <2>1, <2>2
<1>7. n.sock[r].fd # n.sock[s].fd /\ n.sock[r].fd \in Fds
    BY <1>3, <1>4, <1>6, SocketTyped DEF Holding
<1>8. LinkOf(m, r) = LinkOf(n, r)
    BY <1>1, <1>3, <1>6, <1>7, NetTyped DEF LinkOf, Differs
<1> QED
    BY <1>1, <1>3, <1>4, <1>6, <1>8

\* What is routed, but for the registration of x: that may just have been taken from the queue.
RoutedBut(n, x) == ~n.replaced /\ ~n.stranger =>
    /\ \A s \in Objects : n.sock[s].status \in {"Available", "Connecting"} =>
          n.sock[s].peer \in DOMAIN n.servers /\ n.servers[n.sock[s].peer] = s
    /\ \A s \in Objects : BelongPort(s) = "none" /\ n.sock[s].fd # 0 /\ n.sock[s].peer \in DOMAIN n.servers =>
          n.servers[n.sock[s].peer] = s
    /\ \A s \in Objects : BelongPort(s) = "none" /\ n.sock[s].status = "Available" /\ s # x =>
          \/ "regist" \in n.link[LinkOf(n, s)].got
          \/ [to |-> n.sock[s].peer, kind |-> "regist"] \in ToSet(n.sendSS)

SafeBut(n, b, x) ==
    /\ n \in Nets /\ Holding(n) /\ Waiting(n, b) /\ Quiet(n) /\ Clients(n)
    /\ Accounted(n) /\ RoutedBut(n, x) /\ Packets(n, b, app) /\ Replies(n, b)
    /\ config.threads = 1 => Ended(n, conn, app)

LEMMA SafeIsSafeBut ==
    ASSUME NEW n, NEW b, NEW x, Safe(n, b)
    PROVE  SafeBut(n, b, x)
<1>1. RoutedBut(n, x)
    BY DEF Safe, Routed, RoutedBut
<1> QED
    BY <1>1 DEF Safe, SafeBut

LEMMA ClosedKeepsRouted ==
    ASSUME config \in Configs, NEW n \in Nets, NEW m \in Nets, NEW s \in Objects,
           n.sock[s].fd # 0, m.sock[s] = Unused(n.sock[s].peer), Others(n, m, s), m.link = n.link,
           Differs(n.desc, m.desc, n.sock[s].fd, 0), m.sendSS = n.sendSS,
           Holding(n), Clients(n), Accounted(n), RoutedBut(n, s), m.servers = Drop(n.servers, KeyOf(n, s)),
           m.replaced = n.replaced,
           m.stranger <=> n.stranger \/ (/\ BelongPort(s) = "inside" /\ n.sock[s].status = "Connected"
                                         /\ n.sock[s].peer \in DOMAIN n.servers)
    PROVE  Routed(m)
<1> SUFFICES ASSUME ~n.replaced, ~m.stranger, ~n.stranger PROVE Routed(m)
    BY DEF Routed
<1>1. m.sock[s].fd = 0 /\ m.sock[s].status = "Closed"
    BY DEF Unused
<1>2. \A r \in Objects : r # s => m.sock[r] = n.sock[r]
    BY DEF Others
<1>3. /\ DOMAIN m.servers = DOMAIN n.servers \ {KeyOf(n, s)} /\ \A key \in DOMAIN m.servers : m.servers[key] = n.servers[key]
      /\ \A key \in DOMAIN n.servers : key \in Keys /\ n.servers[key] \in Objects
    <2>1. DOMAIN m.servers = DOMAIN n.servers \ {KeyOf(n, s)}
        BY DropDomain
    <2>2. ASSUME NEW key \in DOMAIN m.servers PROVE m.servers[key] = n.servers[key]
        BY <2>1, DropAt
    <2>3. \A key \in DOMAIN n.servers : key \in Keys /\ n.servers[key] \in Objects
        BY NetTyped, MapElement
    <2> QED
        BY <2>1, <2>2, <2>3
<1>4. ASSUME NEW r \in Objects, m.sock[r].fd # 0
      PROVE  r # s /\ n.sock[r].fd # 0 /\ LinkOf(m, r) = LinkOf(n, r)
    <2>1. r # s /\ n.sock[r].fd # 0 /\ m.sock[r] = n.sock[r]
        BY <1>1, <1>2, <1>4, SMTT(30), Zenon
    <2>2. n.sock[r].fd # n.sock[s].fd /\ n.sock[r].fd \in Fds
        BY <2>1, SocketTyped DEF Holding
    <2> QED
        BY <2>1, <2>2, NetTyped DEF LinkOf, Differs
<1>5. ASSUME NEW r \in Objects, r # s, BelongPort(r) # "outside", n.sock[r].peer \in DOMAIN n.servers,
             n.servers[n.sock[r].peer] = r
      PROVE  n.sock[r].peer # KeyOf(n, s)
    <2>1. CASE BelongPort(s) = "outside"
        <3>1. n.sock[r].peer \in ServerKeys \cup {Nobody} /\ n.sock[s].fd \in Fds
            BY <1>5, SocketTyped DEF Clients
        <3> QED
            BY <2>1, <3>1, KeysDiffer DEF KeyOf
    <2>2. CASE BelongPort(s) = "none"
        BY <1>5, <2>2 DEF RoutedBut, KeyOf
    <2>3. CASE BelongPort(s) = "inside"
        <3>1. n.sock[s].status \in {"Connected", "Available"}
            BY <2>3, SocketTyped DEF Holding, Accounted, Timed, SocketSet
        <3>2. CASE n.sock[s].status = "Connected"
            BY <1>5, <2>3, <3>2 DEF KeyOf
        <3>3. CASE n.sock[s].status = "Available"
            BY <1>5, <2>3, <3>3, SMTT(30), Zenon DEF RoutedBut, KeyOf
        <3> QED
            BY <3>1, <3>2, <3>3, SMTT(30), Zenon
    <2> QED
        BY <2>1, <2>2, <2>3, ConfigFacts DEF PortNames
<1>6. \A r \in Objects : n.sock[r].status \in {"Available", "Connecting"} => BelongPort(r) # "outside" /\ n.sock[r].fd # 0
    BY DEF Clients, Holding
<1>7. ASSUME NEW r \in Objects, m.sock[r].status \in {"Available", "Connecting"}
      PROVE  m.sock[r].peer \in DOMAIN m.servers /\ m.servers[m.sock[r].peer] = r
    <2>1. r # s /\ m.sock[r] = n.sock[r]
        BY <1>1, <1>2, <1>7
    <2>2. n.sock[r].peer \in DOMAIN n.servers /\ n.servers[n.sock[r].peer] = r /\ BelongPort(r) # "outside"
        BY <1>6, <1>7, <2>1 DEF RoutedBut
    <2> QED
        BY <1>3, <1>5, <2>1, <2>2
<1>8. ASSUME NEW r \in Objects, BelongPort(r) = "none", m.sock[r].fd # 0, m.sock[r].peer \in DOMAIN m.servers
      PROVE  m.servers[m.sock[r].peer] = r
    <2>1. r # s /\ m.sock[r] = n.sock[r]
        BY <1>1, <1>2, <1>8
    <2> QED
        BY <1>3, <1>8, <2>1 DEF RoutedBut
<1>9. ASSUME NEW r \in Objects, BelongPort(r) = "none", m.sock[r].status = "Available"
      PROVE  \/ "regist" \in m.link[LinkOf(m, r)].got
             \/ [to |-> m.sock[r].peer, kind |-> "regist"] \in ToSet(m.sendSS)
    <2>1. r # s /\ m.sock[r] = n.sock[r]
        BY <1>1, <1>2, <1>9
    <2>2. n.sock[r].fd # 0
        BY <1>6, <1>9, <2>1
    <2>3. LinkOf(m, r) = LinkOf(n, r)
        BY <1>4, <2>1, <2>2
    <2> QED
        BY <1>9, <2>1, <2>3 DEF RoutedBut
<1> QED
    BY <1>7, <1>8, <1>9 DEF Routed

LEMMA PacketOKKept ==
    ASSUME config \in Configs, NEW n \in Nets, NEW m \in Nets, NEW b, NEW fd, m.link = n.link,
           Differs(n.desc, m.desc, fd, 0), NEW packet, PacketOK(n, b, packet)
    PROVE  PacketOK(m, b, packet)
<1>1. \A f \in Fds : m.desc[f] = n.desc[f] \/ m.desc[f] = 0
    BY NetTyped DEF Differs
<1>2. packet.link # 0
    BY DEF PacketOK
<1> QED
    BY <1>1, <1>2 DEF PacketOK

\* CloseSocket of a socket that leads to a server.
LEMMA CloseInsideKeeps ==
    ASSUME config \in Configs, NEW n, NEW b, NEW s \in Objects, SafeBut(n, b, s), BelongPort(s) # "outside",
           n.sock[s].fd # 0
    PROVE  LET m == CloseSocket(n, s)
           IN  /\ Safe(m, b) /\ m.sock[s].status = "Closed" /\ Others(n, m, s) /\ m.replaced = n.replaced
               /\ m.starved = n.starved /\ m.listening = n.listening
<1> DEFINE m == CloseSocket(n, s)
           fd == n.sock[s].fd
           peer == n.sock[s].peer
<1>1. /\ n \in Nets /\ Holding(n) /\ Waiting(n, b) /\ Quiet(n) /\ Clients(n)
      /\ Accounted(n) /\ RoutedBut(n, s) /\ Packets(n, b, app) /\ Replies(n, b)
      /\ (config.threads = 1 => Ended(n, conn, app))
    BY DEF SafeBut
<1>2. n.sock[s].status # "Closed"
    BY <1>1 DEF Holding
<1>3. /\ m \in Nets
      /\ Same(n, m, {"sock", "desc", "ptr", "timers", "servers", "ports", "types", "stranger"})
      /\ m.sock[s] = Unused(peer) /\ Others(n, m, s)
      /\ Differs(n.desc, m.desc, fd, 0) /\ Differs(n.ptr, m.ptr, fd, 0)
      /\ m.timers = IF n.sock[s].timer THEN RemoveFirst(n.timers, s) ELSE n.timers
      /\ m.servers = Drop(n.servers, peer)
      /\ IF BelongPort(s) = "none" THEN m.ports = n.ports
         ELSE Differs(n.ports, m.ports, BelongPort(s), Append(n.ports[BelongPort(s)], s))
      /\ IF BelongPort(s) = "none" /\ peer[1] \in TypeNames
         THEN Differs(n.types, m.types, peer[1], Append(n.types[peer[1]], s)) ELSE m.types = n.types
      /\ m.stranger <=> n.stranger \/ (/\ BelongPort(s) = "inside" /\ n.sock[s].status = "Connected"
                                       /\ peer \in DOMAIN n.servers)
    BY <1>1, <1>2, CloseInsideEffect
<1> HIDE DEF m
<1>4. /\ m.link = n.link /\ m.recvCS = n.recvCS /\ m.sendSS = n.sendSS /\ m.sendCS = n.sendCS /\ m.lost = n.lost
      /\ m.replaced = n.replaced /\ m.silent = n.silent /\ m.starved = n.starved /\ m.listening = n.listening
    BY <1>3 DEF Same, Fields
<1>5. KeyOf(n, s) = peer
    BY DEF KeyOf
<1>6. Back(n, m, s, peer[1])
    BY <1>3 DEF Back
<1>7. m.sock[s].fd = 0 /\ m.sock[s].status = "Closed"
    BY <1>3 DEF Unused
<1>8. /\ Holding(m) /\ Waiting(m, b) /\ Quiet(m) /\ Replies(m, b)
      /\ (Pointed(n) => Pointed(m)) /\ (Timed(n) => Timed(m))
    BY <1>1, <1>3, <1>4, ReleasedKeeps
<1>9. Clients(m)
    BY <1>1, <1>3, <1>5, <1>6, ClosedKeepsClients
<1>10. Accounted(m)
    <2> SUFFICES ASSUME ~n.replaced PROVE Free(m) /\ Pointed(m) /\ Timed(m) /\ Entered(m)
        BY <1>4 DEF Accounted
    <2>1. Free(n) /\ Pointed(n) /\ Timed(n) /\ Entered(n)
        BY <1>1 DEF Accounted
    <2>2. BelongPort(s) = "none" => peer[1] = TypeOf(s)
        BY <2>1 DEF Timed
    <2>3. Free(m)
        BY <1>1, <1>3, <1>4, <1>6, <1>7, <2>1, <2>2, BackKeepsFree
    <2>4. Entered(m)
        BY <1>1, <1>3, <1>4, <1>5, <2>1, ClosedKeepsEntered
    <2> QED
        BY <1>8, <2>1, <2>3, <2>4
<1>11. Routed(m)
    BY <1>1, <1>3, <1>4, <1>5, ClosedKeepsRouted
<1>12. Packets(m, b, app)
    <2>1. \A packet : PacketOK(n, b, packet) => PacketOK(m, b, packet)
        BY <1>1, <1>3, <1>4, PacketOKKept
    <2> QED
        BY <1>1, <1>4, <2>1 DEF Packets
<1>13. ASSUME config.threads = 1 PROVE Ended(m, conn, app)
    <2>1. Ended(n, conn, app)
        BY <1>1, <1>13, SMTT(30), Zenon
    <2>2. fd \in Fds /\ n.link[n.desc[fd]].who # <<Client, 0>>
        BY <1>1, SocketTyped DEF Holding
    <2>3. ASSUME NEW f, NEW l \in 1 .. Len(n.link), n.link[l].who = <<Client, 0>>, NEW i, Ending(n, f, l, i),
                 f \in Fds
          PROVE  Ending(m, f, l, i)
        <3>1. CASE n.desc[f] = l
            <4>1. f # fd
                BY <2>2, <2>3, <3>1, Zenon
            <4> QED
                BY <1>1, <1>3, <2>3, <3>1, <4>1, NetTyped, SMTT(30), Zenon DEF Ending, Differs
        <3>2. CASE n.desc[f] # l
            BY <1>4, <2>3, <3>2 DEF Ending
        <3> QED
            BY <3>1, <3>2
    <2>4. \A i \in 1 .. Len(m.recvCS) : LET packet == m.recvCS[i] IN packet.close \/ Ending(m, packet.fd, packet.link, i)
        <3> SUFFICES ASSUME NEW i \in 1 .. Len(n.recvCS), ~n.recvCS[i].close
                     PROVE  Ending(m, n.recvCS[i].fd, n.recvCS[i].link, i)
            BY <1>4
        <3> DEFINE packet == n.recvCS[i]
        <3>1. packet \in PacketSet /\ packet \in ToSet(n.recvCS)
            BY <1>1, NetTyped, ElementAt, ElementsTyped
        <3>2. Ending(n, packet.fd, packet.link, i)
            BY <2>1 DEF Ended
        <3>3. packet.link \in 1 .. Len(n.link) /\ n.link[packet.link].who = <<Client, 0>>
            BY <1>1, <3>1 DEF Packets, PacketOK
        <3>4. packet.fd \in Fds
            BY <3>1 DEF PacketSet
        <3> QED
            BY <2>3, <3>2, <3>3, <3>4
    <2>5. ASSUME NEW t \in DOMAIN app, app[t].packet # NoPacket, ~app[t].packet.close
          PROVE  Ending(m, app[t].packet.fd, app[t].packet.link, 0)
        <3> DEFINE packet == app[t].packet
        <3>1. Ending(n, packet.fd, packet.link, 0)
            BY <2>1, <2>5 DEF Ended
        <3>2. packet.fd \in Fds /\ packet.link \in 1 .. Len(n.link) /\ n.link[packet.link].who = <<Client, 0>>
            BY <1>1, <2>5 DEF Packets, PacketOK
        <3> QED
            BY <2>3, <3>1, <3>2
    <2>6. ASSUME NEW f \in DOMAIN conn
          PROVE  /\ f \in Fds /\ conn[f] \in 1 .. Len(m.link) /\ m.link[conn[f]].who = <<Client, 0>>
                 /\ Ending(m, f, conn[f], 0) \/ \E t \in DOMAIN app : app[t].packet = CloseOf(f, conn[f])
        BY <1>4, <2>1, <2>3 DEF Ended
    <2> QED
        BY <2>4, <2>5, <2>6 DEF Ended
<1> QED
    BY <1>3, <1>4, <1>7, <1>8, <1>9, <1>10, <1>11, <1>12, <1>13 DEF Safe, m

\* CloseSocket of a client's socket: who has a connection for it is told, last.
LEMMA CloseOutsideKeeps ==
    ASSUME config \in Configs, NEW n, NEW b, Safe(n, b), NEW s \in Objects, BelongPort(s) = "outside",
           n.sock[s].fd # 0
    PROVE  LET m == CloseSocket(n, s)
           IN  /\ Safe(m, b) /\ m.sock[s].status = "Closed" /\ Others(n, m, s) /\ m.replaced = n.replaced
               /\ m.starved = n.starved /\ m.listening = n.listening
<1> DEFINE m == CloseSocket(n, s)
           fd == n.sock[s].fd
           link == n.desc[fd]
<1>1. /\ n \in Nets /\ Holding(n) /\ Waiting(n, b) /\ Quiet(n) /\ Clients(n)
      /\ Accounted(n) /\ Routed(n) /\ Packets(n, b, app) /\ Replies(n, b)
      /\ (config.threads = 1 => Ended(n, conn, app))
    BY DEF Safe
<1>2. n.sock[s].status # "Closed" /\ link # 0 /\ fd \in Fds
    BY <1>1, SocketTyped DEF Holding
<1>3. /\ m \in Nets
      /\ Same(n, m, {"sock", "desc", "ptr", "timers", "servers", "ports", "recvCS", "silent"})
      /\ m.sock[s] = Unused(n.sock[s].peer) /\ Others(n, m, s)
      /\ Differs(n.desc, m.desc, fd, 0) /\ Differs(n.ptr, m.ptr, fd, 0)
      /\ m.timers = IF n.sock[s].timer THEN RemoveFirst(n.timers, s) ELSE n.timers
      /\ m.servers = Drop(n.servers, <<Client, fd>>)
      /\ Differs(n.ports, m.ports, "outside", Append(n.ports["outside"], s))
      /\ fd \notin DOMAIN conn => m.recvCS = n.recvCS /\ m.silent = n.silent \cup {link}
      /\ fd \in DOMAIN conn =>
            /\ m.silent = n.silent /\ Len(n.recvCS) < Len(m.recvCS)
            /\ \A i \in 1 .. Len(n.recvCS) : m.recvCS[i] = n.recvCS[i]
            /\ \A i \in Len(n.recvCS) + 1 .. Len(m.recvCS) - 1 :
                  m.recvCS[i] = [fd |-> fd, link |-> link, close |-> FALSE]
            /\ m.recvCS[Len(m.recvCS)] = CloseOf(fd, link)
    BY <1>1, <1>2, CloseOutsideEffect
<1> HIDE DEF m
<1>4. /\ m.link = n.link /\ m.sendSS = n.sendSS /\ m.sendCS = n.sendCS /\ m.lost = n.lost /\ m.types = n.types
      /\ m.replaced = n.replaced /\ m.stranger = n.stranger /\ m.starved = n.starved /\ m.listening = n.listening
    BY <1>3 DEF Same, Fields
<1>5. KeyOf(n, s) = <<Client, fd>>
    BY DEF KeyOf
<1>6. Back(n, m, s, Client)
    BY <1>3, <1>4 DEF Back
<1>7. m.sock[s].fd = 0 /\ m.sock[s].status = "Closed"
    BY <1>3 DEF Unused
<1>8. /\ Holding(m) /\ Waiting(m, b) /\ Quiet(m) /\ Replies(m, b)
      /\ (Pointed(n) => Pointed(m)) /\ (Timed(n) => Timed(m))
    BY <1>1, <1>3, <1>4, ReleasedKeeps
<1>9. Clients(m)
    BY <1>1, <1>3, <1>5, <1>6, ClosedKeepsClients
<1>10. Accounted(m)
    <2> SUFFICES ASSUME ~n.replaced PROVE Free(m) /\ Pointed(m) /\ Timed(m) /\ Entered(m)
        BY <1>4 DEF Accounted
    <2>1. Free(n) /\ Pointed(n) /\ Timed(n) /\ Entered(n)
        BY <1>1 DEF Accounted
    <2>2. Free(m)
        BY <1>1, <1>3, <1>4, <1>6, <1>7, <2>1, BackKeepsFree
    <2>3. Entered(m)
        BY <1>1, <1>3, <1>4, <1>5, <2>1, ClosedKeepsEntered
    <2> QED
        BY <1>8, <2>1, <2>2, <2>3
<1>11. Routed(m)
    <2>1. RoutedBut(n, s)
        BY <1>1 DEF Routed, RoutedBut
    <2> QED
        BY <1>1, <1>3, <1>4, <1>5, <2>1, ClosedKeepsRouted
<1>12. /\ n.recvCS \in Seq(PacketSet) /\ m.recvCS \in Seq(PacketSet)
       /\ Len(n.recvCS) \in Nat /\ Len(m.recvCS) \in Nat
    BY <1>1, <1>3, NetTyped
<1>13. \A i \in 1 .. Len(m.recvCS) :
           \/ i \in 1 .. Len(n.recvCS) /\ m.recvCS[i] = n.recvCS[i]
           \/ fd \in DOMAIN conn /\ i > Len(n.recvCS) /\ m.recvCS[i].fd = fd /\ m.recvCS[i].link = link
    <2>1. CASE fd \notin DOMAIN conn
        BY <1>3, <2>1
    <2>2. CASE fd \in DOMAIN conn
        <3> TAKE i \in 1 .. Len(m.recvCS)
        <3>1. i \in 1 .. Len(n.recvCS) \/ i \in Len(n.recvCS) + 1 .. Len(m.recvCS) - 1 \/ i = Len(m.recvCS)
            BY <1>12
        <3>2. CASE i \in 1 .. Len(n.recvCS)
            BY <1>3, <2>2, <3>2
        <3>3. CASE i \in Len(n.recvCS) + 1 .. Len(m.recvCS) - 1
            <4>1. m.recvCS[i] = [fd |-> fd, link |-> link, close |-> FALSE]
                BY <1>3, <2>2, <3>3
            <4> QED
                BY <1>12, <2>2, <3>3, <4>1
        <3>4. CASE i = Len(m.recvCS)
            <4>1. m.recvCS[i] = CloseOf(fd, link)
                BY <1>3, <2>2, <3>4
            <4>2. i > Len(n.recvCS)
                BY <1>3, <1>12, <2>2, <3>4, SMTT(30), Zenon
            <4> QED
                BY <2>2, <4>1, <4>2 DEF CloseOf
        <3> QED
            BY <3>1, <3>2, <3>3, <3>4
    <2> QED
        BY <2>1, <2>2
<1>14. link \in 1 .. Len(n.link) /\ n.link[link].who = <<Client, 0>>
    BY <1>1, <1>2, NetTyped DEF Holding
<1>15. \A f \in Fds : m.desc[f] = IF f = fd THEN 0 ELSE n.desc[f]
    BY <1>1, <1>3, NetTyped DEF Differs
<1>16. Packets(m, b, app)
    <2>1. \A packet : PacketOK(n, b, packet) => PacketOK(m, b, packet)
        BY <1>1, <1>3, <1>4, PacketOKKept, Zenon
    <2>2. ASSUME NEW packet, packet.fd = fd, packet.link = link PROVE PacketOK(m, b, packet)
        <3>1. \A f \in Fds : m.desc[f] # link
            BY <1>1, <1>2, <1>15 DEF Holding
        <3>2. \A p \in PortNames : link \notin ToSet(b[p])
            BY <1>1, <1>2 DEF Waiting
        <3> QED
            BY <1>2, <1>4, <1>14, <2>2, <3>1, <3>2, Zenon DEF PacketOK
    <2>3. ASSUME NEW packet \in ToSet(m.recvCS) PROVE PacketOK(m, b, packet)
        <3>1. PICK i \in 1 .. Len(m.recvCS) : packet = m.recvCS[i]
            BY <1>12 DEF ToSet
        <3>2. CASE i \in 1 .. Len(n.recvCS) /\ m.recvCS[i] = n.recvCS[i]
            <4>1. packet \in ToSet(n.recvCS)
                BY <1>12, <3>1, <3>2, ElementAt
            <4> QED
                BY <1>1, <2>1, <4>1 DEF Packets
        <3>3. CASE m.recvCS[i].fd = fd /\ m.recvCS[i].link = link
            BY <2>2, <3>1, <3>3
        <3> QED
            BY <1>13, <3>2, <3>3
    <2> QED
        BY <1>1, <1>4, <2>1, <2>3 DEF Packets
<1>17. ASSUME config.threads = 1 PROVE Ended(m, conn, app)
    <2>1. Ended(n, conn, app)
        BY <1>1, <1>17
    <2>2. ASSUME NEW i \in Nat, i <= Len(n.recvCS) \/ i < Len(m.recvCS)
          PROVE  Ending(m, fd, link, i)
        <3>1. CASE fd \notin DOMAIN conn
            BY <1>3, <3>1 DEF Ending
        <3>2. CASE fd \in DOMAIN conn
            <4>1. Len(m.recvCS) \in 1 .. Len(m.recvCS) /\ Len(m.recvCS) > i
                BY <1>3, <1>12, <2>2, <3>2
            <4> QED
                BY <1>3, <3>2, <4>1 DEF Ending
        <3> QED
            BY <3>1, <3>2
    <2>3. ASSUME NEW f \in Fds, NEW l, l # 0, NEW i \in Nat, i <= Len(n.recvCS), Ending(n, f, l, i)
          PROVE  Ending(m, f, l, i)
        <3>1. CASE f = fd /\ l = link
            BY <2>2, <2>3, <3>1
        <3>2. CASE n.desc[f] = l /\ ~(f = fd /\ l = link)
            BY <1>15, <2>3, <3>2 DEF Ending
        <3>3. CASE l \in n.silent
            BY <1>3, <3>3 DEF Ending
        <3>4. CASE \E j \in 1 .. Len(n.recvCS) : j > i /\ n.recvCS[j] = CloseOf(f, l)
            <4>1. PICK j \in 1 .. Len(n.recvCS) : j > i /\ n.recvCS[j] = CloseOf(f, l)
                BY <3>4
            <4>2. m.recvCS[j] = n.recvCS[j] /\ j \in 1 .. Len(m.recvCS)
                BY <1>3, <1>12
            <4> QED
                BY <4>1, <4>2 DEF Ending
        <3> QED
            BY <2>3, <3>1, <3>2, <3>3, <3>4 DEF Ending
    <2>4. ASSUME NEW i \in 1 .. Len(m.recvCS), ~m.recvCS[i].close
          PROVE  Ending(m, m.recvCS[i].fd, m.recvCS[i].link, i)
        <3>1. CASE i \in 1 .. Len(n.recvCS) /\ m.recvCS[i] = n.recvCS[i]
            <4> DEFINE packet == n.recvCS[i]
            <4>1. packet \in PacketSet /\ packet \in ToSet(n.recvCS)
                BY <1>12, <3>1, ElementAt, ElementsTyped
            <4>2. Ending(n, packet.fd, packet.link, i)
                BY <2>1, <2>4, <3>1 DEF Ended
            <4>3. packet.fd \in Fds /\ packet.link # 0 /\ i \in Nat /\ i <= Len(n.recvCS)
                BY <1>12, <3>1, <4>1 DEF PacketSet
            <4> QED
                BY <2>3, <3>1, <4>2, <4>3
        <3>2. CASE fd \in DOMAIN conn /\ i > Len(n.recvCS) /\ m.recvCS[i].fd = fd /\ m.recvCS[i].link = link
            <4>1. i # Len(m.recvCS)
                BY <1>3, <2>4, <3>2 DEF CloseOf
            <4>2. i \in Nat /\ i < Len(m.recvCS)
                BY <1>12, <4>1
            <4> QED
                BY <2>2, <3>2, <4>2
        <3> QED
            BY <1>13, <3>1, <3>2
    <2>5. ASSUME NEW t \in DOMAIN app, app[t].packet # NoPacket, ~app[t].packet.close
          PROVE  Ending(m, app[t].packet.fd, app[t].packet.link, 0)
        <3> DEFINE packet == app[t].packet
        <3>1. Ending(n, packet.fd, packet.link, 0)
            BY <2>1, <2>5 DEF Ended
        <3>2. packet.fd \in Fds /\ packet.link # 0
            BY <1>1, <2>5 DEF Packets, PacketOK
        <3> QED
            BY <1>12, <2>3, <3>1, <3>2
    <2>6. ASSUME NEW f \in DOMAIN conn
          PROVE  /\ f \in Fds /\ conn[f] \in 1 .. Len(m.link) /\ m.link[conn[f]].who = <<Client, 0>>
                 /\ Ending(m, f, conn[f], 0) \/ \E t \in DOMAIN app : app[t].packet = CloseOf(f, conn[f])
        <3>1. /\ f \in Fds /\ conn[f] \in 1 .. Len(n.link) /\ n.link[conn[f]].who = <<Client, 0>>
              /\ Ending(n, f, conn[f], 0) \/ \E t \in DOMAIN app : app[t].packet = CloseOf(f, conn[f])
            BY <2>1 DEF Ended
        <3>2. conn[f] # 0
            BY <3>1
        <3> QED
            BY <1>4, <1>12, <2>3, <3>1, <3>2
    <2> QED
        BY <2>4, <2>5, <2>6 DEF Ended
<1> QED
    BY <1>3, <1>4, <1>7, <1>8, <1>9, <1>10, <1>11, <1>16, <1>17 DEF Safe, m

\* What every handler of one socket leaves alone.
Beside(n, m, s) == /\ Others(n, m, s) /\ (n.replaced => m.replaced)
                   /\ m.starved = n.starved /\ m.listening = n.listening

LEMMA BesideTransitive ==
    ASSUME NEW n, NEW m, NEW k, NEW s, Beside(n, m, s), Beside(m, k, s)
    PROVE  Beside(n, k, s)
BY DEF Beside, Others

LEMMA CloseKeeps ==
    ASSUME config \in Configs, NEW n, NEW b, Safe(n, b), NEW s \in Objects
    PROVE  LET m == CloseSocket(n, s) IN Safe(m, b) /\ m.sock[s].status = "Closed" /\ Beside(n, m, s)
<1>1. CASE n.sock[s].fd = 0
    <2>1. CloseSocket(n, s) = n
        BY <1>1 DEF CloseSocket
    <2>2. n.sock[s].status = "Closed"
        BY <1>1 DEF Safe, Holding
    <2> QED
        BY <2>1, <2>2 DEF Beside, Others
<1>2. CASE n.sock[s].fd # 0
    BY <1>2, SafeIsSafeBut, CloseInsideKeeps, CloseOutsideKeeps DEF Beside
<1> QED
    BY <1>1, <1>2

\* What is said of an object that connects: its entry is its own.
Own(n, s) == ~n.replaced /\ ~n.stranger => n.sock[s].peer \in DOMAIN n.servers /\ n.servers[n.sock[s].peer] = s

LEMMA ConnectedKeeps ==
    ASSUME config \in Configs, NEW n, NEW b, Safe(n, b), NEW s \in Objects, BelongPort(s) # "outside",
           n.sock[s].status \in {"Opened", "Connecting"}, Own(n, s), NEW ok \in BOOLEAN
    PROVE  LET m == Connected(n, s, ok)
           IN  Safe(m, b) /\ m.sock[s].status \in {"Closed", "Available"} /\ Beside(n, m, s)
<1> DEFINE t == DestroySocketTimer(n, s)
           c == WithStatus(t, s, "Connected")
           m == Connected(n, s, ok)
<1>1. /\ Safe(t, b) /\ ~t.sock[s].timer /\ Of(n, t, s, {"timer"}) /\ Others(n, t, s)
      /\ Same(n, t, {"timers", "sock"})
    BY StopTimerKeeps
<1>2. m = IF ok THEN Announced(c, s) ELSE CloseSocket(c, s)
    BY DEF Connected, OnConnected, Announced, WithStatus
<1> HIDE DEF t, m
<1>3. /\ t.sock[s].status = n.sock[s].status /\ t.sock[s].peer = n.sock[s].peer /\ t.servers = n.servers
      /\ t.replaced = n.replaced /\ t.stranger = n.stranger /\ t.starved = n.starved /\ t.listening = n.listening
    BY <1>1 DEF Of, SocketFields, Same, Fields
<1>4. /\ Safe(c, b) /\ c.sock[s].status = "Connected" /\ Of(t, c, s, {"status"}) /\ Others(t, c, s)
      /\ Same(t, c, {"sock"})
    <2>1. ~t.replaced /\ ~t.stranger => t.sock[s].peer \in DOMAIN t.servers /\ t.servers[t.sock[s].peer] = s
        BY <1>3 DEF Own
    <2>2. t.sock[s].status \in {"Opened", "Connecting"}
        BY <1>3
    <2>3. "Connected" \in {"Connecting", "Connected"}
        OBVIOUS
    <2> QED
        BY <1>1, <2>1, <2>2, <2>3, StatusKeeps
<1> HIDE DEF c
<1>5. /\ c.sock[s].peer = n.sock[s].peer /\ c.servers = n.servers /\ c.sock[s].timer = t.sock[s].timer
      /\ c.replaced = n.replaced /\ c.stranger = n.stranger /\ c.starved = n.starved /\ c.listening = n.listening
    BY <1>3, <1>4 DEF Of, SocketFields, Same, Fields
<1>6. Beside(n, c, s)
    BY <1>1, <1>4, <1>5 DEF Beside, Others
<1>7. CASE ok
    <2>1. n.sock[s].peer \in ServerKeys
        BY DEF Safe, Clients
    <2>2. ~n.replaced => BelongPort(s) = "none"
        BY DEF Safe, Accounted, Timed
    <2>3. ~c.replaced => BelongPort(s) = "none" /\ ~c.sock[s].timer
        BY <1>1, <1>5, <2>2
    <2>4. ~c.replaced /\ ~c.stranger => c.sock[s].peer \in DOMAIN c.servers /\ c.servers[c.sock[s].peer] = s
        BY <1>5 DEF Own
    <2>5. c.sock[s].peer \in ServerKeys
        BY <1>5, <2>1
    <2>6. /\ Safe(Announced(c, s), b) /\ Announced(c, s).sock[s].status = "Available" /\ Others(c, Announced(c, s), s)
          /\ Same(c, Announced(c, s), {"ptr", "sendSS", "sock"})
        BY <1>4, <2>3, <2>4, <2>5, AnnouncedKeeps
    <2>7. m = Announced(c, s)
        BY <1>2, <1>7
    <2>8. Beside(c, m, s)
        BY <2>6, <2>7 DEF Beside, Same, Fields
    <2> QED
        BY <1>6, <2>6, <2>7, <2>8, BesideTransitive DEF m
<1>8. CASE ~ok
    <2>1. m = CloseSocket(c, s)
        BY <1>2, <1>8
    <2>2. Safe(m, b) /\ m.sock[s].status = "Closed" /\ Beside(c, m, s)
        BY <1>4, <2>1, CloseKeeps
    <2> QED
        BY <1>6, <2>2, BesideTransitive DEF m
<1> QED
    BY <1>7, <1>8

\* A read moves what the kernel has to the object's buffer.
Take(n, s, l) == [n EXCEPT !.sock[s].buf = @ \o n.link[l].rd, !.link[l].rd = << >>]

LEMMA TakeEffect ==
    ASSUME NEW n \in Nets, NEW s \in Objects, NEW l \in 1 .. Len(n.link)
    PROVE  LET m == Take(n, s, l)
           IN  /\ m \in Nets /\ Same(n, m, {"sock", "link"})
               /\ m.sock[s].buf = n.sock[s].buf \o n.link[l].rd /\ Of(n, m, s, {"buf"}) /\ Others(n, m, s)
               /\ Len(m.link) = Len(n.link) /\ m.link[l].rd = << >>
               /\ \A k \in 1 .. Len(n.link) : /\ m.link[k].who = n.link[k].who /\ m.link[k].got = n.link[k].got
                                              /\ m.link[k].state = n.link[k].state
                                              /\ k # l => m.link[k].rd = n.link[k].rd
<1> DEFINE m == Take(n, s, l)
           link == [n.link EXCEPT ![l].rd = << >>]
           buf == n.sock[s].buf \o n.link[l].rd
           sock == [n.sock EXCEPT ![s].buf = buf]
<1>1. n.link \in Seq(LinkSet) /\ n.link[l] \in LinkSet /\ n.sock \in [Objects -> SocketSet] /\ n.sock[s] \in SocketSet
    BY NetTyped
<1>2. n.link[l].rd \in Seq({"message"}) /\ n.sock[s].buf \in Seq({"message"})
    BY <1>1 DEF LinkSet, SocketSet
<1>3. buf \in Seq({"message"})
    BY <1>2
<1> HIDE DEF buf
<1>4. /\ sock \in SocketMaps /\ sock[s].buf = buf
      /\ \A field \in SocketFields \ {"buf"} : sock[s][field] = n.sock[s][field]
      /\ \A r \in Objects : r # s => sock[r] = n.sock[r]
    BY <1>1, <1>3 DEF SocketMaps, SocketSet, SocketFields
<1>5. << >> \in Seq({"message"})
    OBVIOUS
<1>6. [n.link[l] EXCEPT !.rd = << >>] \in LinkSet
    BY <1>1, <1>5 DEF LinkSet
<1>7. /\ link \in Seq(LinkSet) /\ Len(link) = Len(n.link)
      /\ \A k \in 1 .. Len(n.link) : link[k] = IF k = l THEN [n.link[l] EXCEPT !.rd = << >>] ELSE n.link[k]
    BY <1>1, <1>6
<1>8. \A k \in 1 .. Len(n.link) : n.link[k] \in LinkSet
    BY <1>1
<1>9. /\ link[l].rd = << >>
      /\ \A k \in 1 .. Len(n.link) : /\ link[k].who = n.link[k].who /\ link[k].got = n.link[k].got
                                     /\ link[k].state = n.link[k].state
                                     /\ k # l => link[k].rd = n.link[k].rd
    BY <1>7, <1>8 DEF LinkSet
<1>10. link \in LinkLists
    BY <1>7 DEF LinkLists
<1> HIDE DEF link, sock
<1>11. m = [n EXCEPT !.sock = sock, !.link = link]
    BY DEF Take, sock, link, buf, Nets
<1>12. m \in Nets /\ m.sock = sock /\ m.link = link /\ Same(n, m, {"sock", "link"})
    BY <1>4, <1>10, <1>11 DEF Nets, Same, Fields
<1> HIDE DEF m
<1> QED
    BY <1>4, <1>7, <1>9, <1>12 DEF Of, Others, m, buf

\* What is said of sockets and links, as long as only buffers change.
LEMMA BuffersKept ==
    ASSUME NEW n \in Nets, NEW m \in Nets, NEW b, Same(n, m, {"sock", "link", "recvCS"}), Len(m.link) = Len(n.link),
           \A l \in 1 .. Len(n.link) : m.link[l].who = n.link[l].who /\ m.link[l].got = n.link[l].got,
           \A r \in Objects : /\ m.sock[r].fd = n.sock[r].fd /\ m.sock[r].status = n.sock[r].status
                              /\ m.sock[r].peer = n.sock[r].peer /\ m.sock[r].timer = n.sock[r].timer,
           Safe(n, b)
    PROVE  Holding(m) /\ Clients(m) /\ Accounted(m) /\ Routed(m) /\ Waiting(m, b) /\ Replies(m, b)
<1>1. /\ m.ports = n.ports /\ m.types = n.types /\ m.servers = n.servers /\ m.desc = n.desc
      /\ m.ptr = n.ptr /\ m.sendSS = n.sendSS /\ m.sendCS = n.sendCS /\ m.lost = n.lost /\ m.timers = n.timers
      /\ m.replaced = n.replaced /\ m.stranger = n.stranger /\ m.silent = n.silent
    BY DEF Same, Fields
<1>2. /\ Holding(n) /\ Waiting(n, b) /\ Clients(n) /\ Accounted(n) /\ Routed(n) /\ Replies(n, b)
    BY DEF Safe
<1>3. Holding(m) /\ Clients(m)
    BY <1>1, <1>2, HoldingKept, ClientsKept
<1>4. Waiting(m, b) /\ Replies(m, b)
    BY <1>1, <1>2, LinksKept
<1>5. Accounted(m)
    <2> SUFFICES ASSUME ~n.replaced PROVE Free(m) /\ Pointed(m) /\ Timed(m) /\ Entered(m)
        BY <1>1 DEF Accounted
    <2>1. Free(n) /\ Pointed(n) /\ Timed(n) /\ Entered(n)
        BY <1>2 DEF Accounted
    <2>2. Free(m) /\ Pointed(m)
        BY <1>1, <2>1, FreeKept, PointedKept
    <2>3. Timed(m)
        BY <1>1, <1>2, <2>1, TimedKept
    <2>4. Entered(m)
        BY <1>1, <1>2, <2>1, EnteredKept
    <2> QED
        BY <2>2, <2>3, <2>4
<1>6. \A l \in 1 .. Len(n.link) : n.link[l].got \subseteq m.link[l].got
    OBVIOUS
<1>7. Routed(m)
    BY <1>1, <1>2, <1>6, RoutedKept
<1> QED
    BY <1>3, <1>4, <1>5, <1>7

LEMMA TakeKeeps ==
    ASSUME config \in Configs, NEW n, NEW b, Safe(n, b), NEW s \in Objects, n.sock[s].fd # 0
    PROVE  LET m == Take(n, s, LinkOf(n, s))
           IN  /\ Safe(m, b) /\ Of(n, m, s, {"buf"}) /\ Beside(n, m, s)
               /\ LinkOf(n, s) \in 1 .. Len(n.link) /\ Same(n, m, {"sock", "link"})
               /\ Len(m.link) = Len(n.link) /\ m.link[LinkOf(n, s)].who = n.link[LinkOf(n, s)].who
<1> DEFINE l == LinkOf(n, s)
           m == Take(n, s, l)
<1>1. n \in Nets /\ Holding(n) /\ Quiet(n) /\ Packets(n, b, app) /\ (config.threads = 1 => Ended(n, conn, app))
    BY SMTT(30), Zenon DEF Safe
<1>2. l \in 1 .. Len(n.link) /\ (BelongPort(s) = "none" => n.link[l].who \in Configured)
    <2>1. n.sock[s].fd \in Fds /\ n.desc \in [Fds -> Nat] /\ n.link \in Seq(LinkSet)
        BY <1>1, NetTyped, SocketTyped
    <2>2. n.desc[n.sock[s].fd] # 0 /\ n.desc[n.sock[s].fd] <= Len(n.link)
        BY <1>1, <2>1 DEF Holding
    <2>3. l \in 1 .. Len(n.link)
        BY <2>1, <2>2 DEF LinkOf
    <2> QED
        BY <1>1, <2>3 DEF Holding, LinkOf
<1> HIDE DEF l
<1>3. /\ m \in Nets /\ Same(n, m, {"sock", "link"})
      /\ m.sock[s].buf = n.sock[s].buf \o n.link[l].rd /\ Of(n, m, s, {"buf"}) /\ Others(n, m, s)
      /\ Len(m.link) = Len(n.link) /\ m.link[l].rd = << >>
      /\ \A k \in 1 .. Len(n.link) : /\ m.link[k].who = n.link[k].who /\ m.link[k].got = n.link[k].got
                                     /\ m.link[k].state = n.link[k].state
                                     /\ k # l => m.link[k].rd = n.link[k].rd
    BY <1>1, <1>2, TakeEffect
<1> HIDE DEF m
<1>4. /\ m.recvCS = n.recvCS /\ m.sendCS = n.sendCS /\ m.silent = n.silent /\ m.desc = n.desc
      /\ m.replaced = n.replaced /\ m.starved = n.starved /\ m.listening = n.listening
    BY <1>3 DEF Same, Fields
<1>5. \A r \in Objects : /\ m.sock[r].fd = n.sock[r].fd /\ m.sock[r].status = n.sock[r].status
                         /\ m.sock[r].peer = n.sock[r].peer /\ m.sock[r].timer = n.sock[r].timer
    BY <1>3 DEF Of, Others, SocketFields
<1>6. Same(n, m, {"sock", "link", "recvCS"})
    BY <1>3 DEF Same
<1>7. Holding(m) /\ Clients(m) /\ Accounted(m) /\ Routed(m) /\ Waiting(m, b) /\ Replies(m, b)
    BY <1>1, <1>3, <1>5, <1>6, BuffersKept
<1>8. Packets(m, b, app) /\ (config.threads = 1 => Ended(m, conn, app))
    BY <1>1, <1>3, <1>4, LinksKept
<1>9. Quiet(m)
    <2>1. \A k \in 1 .. Len(m.link) : m.link[k].who \in Configured => m.link[k].rd = << >>
        BY <1>1, <1>3 DEF Quiet
    <2>2. ASSUME NEW r \in Objects, BelongPort(r) = "none" PROVE m.sock[r].buf = << >>
        <3>1. CASE r # s
            BY <1>1, <1>3, <2>2, <3>1 DEF Quiet, Others
        <3>2. CASE r = s
            <4>1. n.sock[s].buf = << >> /\ n.link[l].rd = << >>
                BY <1>1, <1>2, <2>2, <3>2 DEF Quiet
            <4> QED
                BY <1>3, <3>2, <4>1
        <3> QED
            BY <3>1, <3>2
    <2> QED
        BY <2>1, <2>2 DEF Quiet
<1>10. Safe(m, b)
    BY <1>3, <1>7, <1>8, <1>9 DEF Safe
<1>11. Beside(n, m, s)
    BY <1>3, <1>4 DEF Beside
<1> QED
    BY <1>2, <1>3, <1>10, <1>11 DEF m, l

\* The messages of a client are handed up.
LEMMA HandUpKeeps ==
    ASSUME config \in Configs, NEW n, NEW b, Safe(n, b), NEW s \in Objects, BelongPort(s) = "outside",
           n.sock[s].fd # 0, NEW k \in Nat
    PROVE  LET m == MakeMessage(n, s, k) IN Safe(m, b) /\ Of(n, m, s, {"buf"}) /\ Beside(n, m, s)
<1> DEFINE m == MakeMessage(n, s, k)
           fd == n.sock[s].fd
           link == n.desc[fd]
           packet == FromClient(n, s, FALSE)
<1>1. /\ n \in Nets /\ Holding(n) /\ Waiting(n, b) /\ Quiet(n) /\ Packets(n, b, app)
      /\ (config.threads = 1 => Ended(n, conn, app))
    BY SMTT(30), Zenon DEF Safe
<1>2. link # 0 /\ fd \in Fds /\ link \in 1 .. Len(n.link) /\ n.link[link].who = <<Client, 0>>
    BY <1>1, NetTyped, SocketTyped DEF Holding
<1>3. packet = [fd |-> fd, link |-> link, close |-> FALSE]
    BY SMTT(30), Zenon DEF FromClient, LinkOf
<1>4. /\ m \in Nets /\ Same(n, m, {"sock", "recvCS"})
      /\ Others(n, m, s) /\ Of(n, m, s, {"buf"})
      /\ Len(n.recvCS) <= Len(m.recvCS)
      /\ \A i \in 1 .. Len(n.recvCS) : m.recvCS[i] = n.recvCS[i]
      /\ \A i \in Len(n.recvCS) + 1 .. Len(m.recvCS) : m.recvCS[i] = packet
    BY <1>1, <1>2, HandUpEffect, Zenon
<1> HIDE DEF m, packet, link, fd
<1>5. /\ m.link = n.link /\ m.sendCS = n.sendCS /\ m.silent = n.silent /\ m.desc = n.desc
      /\ m.replaced = n.replaced /\ m.starved = n.starved /\ m.listening = n.listening
    BY <1>4 DEF Same, Fields
<1>6. \A r \in Objects : /\ m.sock[r].fd = n.sock[r].fd /\ m.sock[r].status = n.sock[r].status
                         /\ m.sock[r].peer = n.sock[r].peer /\ m.sock[r].timer = n.sock[r].timer
    BY <1>4 DEF Of, Others, SocketFields
<1>7. Same(n, m, {"sock", "link", "recvCS"})
    BY <1>4 DEF Same
<1>8. Holding(m) /\ Clients(m) /\ Accounted(m) /\ Routed(m) /\ Waiting(m, b) /\ Replies(m, b)
    BY <1>1, <1>4, <1>5, <1>6, <1>7, BuffersKept
<1>9. Quiet(m)
    <2>1. \A r \in Objects : BelongPort(r) = "none" => r # s
        OBVIOUS
    <2> QED
        BY <1>1, <1>4, <1>5, <2>1 DEF Quiet, Others
<1>10. /\ n.recvCS \in Seq(PacketSet) /\ m.recvCS \in Seq(PacketSet)
       /\ Len(n.recvCS) \in Nat /\ Len(m.recvCS) \in Nat
    BY <1>1, <1>4, NetTyped
<1>11. \A i \in 1 .. Len(m.recvCS) :
           (i \in 1 .. Len(n.recvCS) /\ m.recvCS[i] = n.recvCS[i]) \/ m.recvCS[i] = packet
    <2> TAKE i \in 1 .. Len(m.recvCS)
    <2>1. i \in 1 .. Len(n.recvCS) \/ i \in Len(n.recvCS) + 1 .. Len(m.recvCS)
        BY <1>10
    <2> QED
        BY <1>4, <2>1
<1>12. Packets(m, b, app)
    <2>1. \A q : PacketOK(n, b, q) => PacketOK(m, b, q)
        BY <1>5 DEF PacketOK
    <2>2. PacketOK(m, b, packet)
        <3>1. \A f \in Fds : n.desc[f] = link => f = fd
            BY <1>1, <1>2 DEF Holding, link
        <3>2. \A p \in PortNames : link \notin ToSet(b[p])
            BY <1>1, <1>2 DEF Waiting, link
        <3> QED
            BY <1>2, <1>3, <1>5, <3>1, <3>2, SMTT(30), Zenon DEF PacketOK
    <2>3. ASSUME NEW q \in ToSet(m.recvCS) PROVE PacketOK(m, b, q)
        <3>1. PICK i \in 1 .. Len(m.recvCS) : q = m.recvCS[i]
            BY <1>10 DEF ToSet
        <3>2. CASE i \in 1 .. Len(n.recvCS) /\ m.recvCS[i] = n.recvCS[i]
            <4>1. q \in ToSet(n.recvCS)
                BY <1>10, <3>1, <3>2, ElementAt
            <4> QED
                BY <1>1, <2>1, <4>1 DEF Packets
        <3>3. CASE m.recvCS[i] = packet
            BY <2>2, <3>1, <3>3
        <3> QED
            BY <1>11, <3>2, <3>3
    <2> QED
        BY <1>1, <1>5, <2>1, <2>3 DEF Packets
<1>13. ASSUME config.threads = 1 PROVE Ended(m, conn, app)
    <2>1. Ended(n, conn, app)
        BY <1>1, <1>13
    <2>2. ASSUME NEW f, NEW l, NEW i, Ending(n, f, l, i) PROVE Ending(m, f, l, i)
        <3>1. \A j \in 1 .. Len(n.recvCS) : j \in 1 .. Len(m.recvCS) /\ m.recvCS[j] = n.recvCS[j]
            BY <1>4, <1>10
        <3> QED
            BY <1>5, <2>2, <3>1 DEF Ending
    <2>3. \A i : Ending(m, fd, link, i)
        BY <1>5 DEF Ending, link
    <2>4. ASSUME NEW i \in 1 .. Len(m.recvCS), ~m.recvCS[i].close
          PROVE  Ending(m, m.recvCS[i].fd, m.recvCS[i].link, i)
        BY <1>3, <1>11, <2>1, <2>2, <2>3, <2>4 DEF Ended
    <2>5. ASSUME NEW t \in DOMAIN app, app[t].packet # NoPacket, ~app[t].packet.close
          PROVE  Ending(m, app[t].packet.fd, app[t].packet.link, 0)
        BY <2>1, <2>2, <2>5 DEF Ended
    <2>6. ASSUME NEW f \in DOMAIN conn
          PROVE  /\ f \in Fds /\ conn[f] \in 1 .. Len(m.link) /\ m.link[conn[f]].who = <<Client, 0>>
                 /\ Ending(m, f, conn[f], 0) \/ \E t \in DOMAIN app : app[t].packet = CloseOf(f, conn[f])
        BY <1>5, <2>1, <2>2 DEF Ended
    <2> QED
        BY <2>4, <2>5, <2>6 DEF Ended
<1>14. Safe(m, b)
    BY <1>4, <1>8, <1>9, <1>12, <1>13 DEF Safe
<1>15. Beside(n, m, s)
    BY <1>4, <1>5 DEF Beside
<1> QED
    BY <1>4, <1>14, <1>15 DEF m

\* An entry is added; an object that had it goes to its list.
LEMMA SetServers ==
    ASSUME NEW n \in Nets, NEW m, NEW key \in Keys, NEW s \in Objects, m.servers = Set(n.servers, key, s)
    PROVE  DOMAIN m.servers = DOMAIN n.servers \cup {key} /\ m.servers[key] = s
<1> QED
    BY NetTyped DEF Set

LEMMA SetServersKeeps ==
    ASSUME NEW n \in Nets, NEW m, NEW key \in Keys, NEW s \in Objects, m.servers = Set(n.servers, key, s),
           NEW k \in DOMAIN m.servers, k # key
    PROVE  k \in DOMAIN n.servers /\ m.servers[k] = n.servers[k] /\ k \in Keys /\ n.servers[k] \in Objects
<1>1. DOMAIN m.servers = DOMAIN n.servers \cup {key}
    BY SetServers
<1>2. k \in DOMAIN n.servers
    BY <1>1
<1>3. m.servers[k] = n.servers[k]
    BY <1>1 DEF Set
<1>4. k \in Keys /\ n.servers[k] \in Objects
    BY <1>2, NetTyped, MapElement
<1> QED
    BY <1>2, <1>3, <1>4

LEMMA BackOfDestroy ==
    ASSUME NEW n \in Nets, NEW m, NEW s \in Objects,
           m.ports = DestroySocketObject(n, s).ports, m.types = DestroySocketObject(n, s).types
    PROVE  Back(n, m, s, n.sock[s].peer[1])
BY DestroyEffect DEF Back

\* What the new entry of an object leaves of Clients, when it is the one for a server.
LEMMA AddKeepsClients ==
    ASSUME config \in Configs, NEW n \in Nets, NEW m \in Nets, NEW key \in ServerKeys, NEW s \in Objects,
           BelongPort(s) # "outside", m.servers = Set(n.servers, key, s), Clients(n),
           \/ m.ports = n.ports /\ m.types = n.types
           \/ /\ key \in DOMAIN n.servers
              /\ m.ports = DestroySocketObject(n, n.servers[key]).ports
              /\ m.types = DestroySocketObject(n, n.servers[key]).types,
           Others(n, m, s), m.sock[s].peer \in ServerKeys
    PROVE  Clients(m)
<1>1. \A r \in Objects : r # s => m.sock[r] = n.sock[r]
    BY DEF Others
<1>2. key[1] # Client /\ key \in Keys
    BY KeysDiffer
<1>3. \A k \in DOMAIN m.servers : k = key \/ (/\ k \in DOMAIN n.servers /\ m.servers[k] = n.servers[k]
                                              /\ k \in Keys /\ n.servers[k] \in Objects)
    BY <1>2, SetServersKeeps
<1>4. DOMAIN m.servers = DOMAIN n.servers \cup {key} /\ m.servers[key] = s
    BY <1>2, SetServers
<1>5. \A k \in DOMAIN m.servers : k[1] = Client =>
          BelongPort(m.servers[k]) = "outside" /\ m.sock[m.servers[k]].fd = k[2]
    <2> TAKE k \in DOMAIN m.servers
    <2> HAVE k[1] = Client
    <2>1. k \in DOMAIN n.servers /\ m.servers[k] = n.servers[k] /\ n.servers[k] \in Objects
        BY <1>2, <1>3
    <2>2. BelongPort(n.servers[k]) = "outside" /\ n.sock[n.servers[k]].fd = k[2]
        BY <2>1 DEF Clients
    <2> QED
        BY <1>1, <2>1, <2>2
<1>6. \A k \in DOMAIN m.servers : k[1] # Client => BelongPort(m.servers[k]) # "outside"
    BY <1>3, <1>4 DEF Clients
<1>7. ASSUME NEW r \in Objects, BelongPort(r) = "outside", m.sock[r].fd # 0
      PROVE  /\ m.sock[r].status = "Connected" /\ m.sock[r].peer = <<Client, m.sock[r].fd>>
             /\ <<Client, m.sock[r].fd>> \in DOMAIN m.servers /\ m.servers[<<Client, m.sock[r].fd>>] = r
    <2>1. m.sock[r] = n.sock[r]
        BY <1>1, <1>7
    <2>2. /\ n.sock[r].status = "Connected" /\ n.sock[r].peer = <<Client, n.sock[r].fd>>
          /\ <<Client, n.sock[r].fd>> \in DOMAIN n.servers /\ n.servers[<<Client, n.sock[r].fd>>] = r
        BY <1>7, <2>1 DEF Clients
    <2>3. <<Client, n.sock[r].fd>> # key
        BY <1>2
    <2> QED
        BY <1>3, <1>4, <2>1, <2>2, <2>3
<1>8. \A r \in Objects : BelongPort(r) # "outside" =>
          /\ m.sock[r].peer \in ServerKeys \cup {Nobody}
          /\ m.sock[r].status \in {"Opened", "Connecting"} => m.sock[r].peer \in ServerKeys
    BY <1>1 DEF Clients
<1>9. \A r \in Objects : BelongPort(r) = "outside" => m.sock[r] = n.sock[r]
    BY <1>1
<1>10. /\ \A p \in PortNames : \A r \in ToSet(m.ports[p]) : BelongPort(r) = p
       /\ m.ports["outside"] = n.ports["outside"]
       /\ \A t \in TypeNames : \A r \in ToSet(m.types[t]) : BelongPort(r) = "none"
    <2>1. CASE m.ports = n.ports /\ m.types = n.types
        BY <2>1 DEF Clients
    <2>2. CASE /\ key \in DOMAIN n.servers
               /\ m.ports = DestroySocketObject(n, n.servers[key]).ports
               /\ m.types = DestroySocketObject(n, n.servers[key]).types
        <3> DEFINE old == n.servers[key]
                   type == n.sock[old].peer[1]
        <3>1. old \in Objects /\ BelongPort(old) # "outside"
            BY <1>2, <2>2, NetTyped, MapElement DEF Clients
        <3>2. Back(n, m, old, type)
            BY <2>2, <3>1, BackOfDestroy
        <3> HIDE DEF old, type
        <3>3. \A p \in PortNames : ToSet(m.ports[p]) = ToSet(n.ports[p]) \cup (IF p = BelongPort(old) THEN {old} ELSE {})
            BY <3>1, <3>2, BackLists
        <3>4. \A t \in TypeNames :
                  ToSet(m.types[t]) = ToSet(n.types[t]) \cup (IF BelongPort(old) = "none" /\ t = type THEN {old} ELSE {})
            BY <3>1, <3>2, BackLists
        <3>5. m.ports["outside"] = n.ports["outside"]
            BY <3>1, <3>2, NetTyped DEF Back, Differs, PortNames
        <3> QED
            BY <3>3, <3>4, <3>5, SMTT(30), Zenon DEF Clients
    <2> QED
        BY <2>1, <2>2
<1>11. \A r \in ToSet(m.ports["outside"]) : m.sock[r].fd = 0
    <2>1. ToSet(n.ports["outside"]) \subseteq Objects /\ "outside" \in PortNames
        BY NetTyped, ElementsTyped DEF PortNames
    <2>2. \A r \in ToSet(n.ports["outside"]) : BelongPort(r) = "outside" /\ n.sock[r].fd = 0
        BY <2>1 DEF Clients
    <2> QED
        BY <1>9, <1>10, <2>1, <2>2
<1>12. IsInjective(m.ports["outside"])
    BY <1>10 DEF Clients
<1> QED
    BY <1>5, <1>6, <1>7, <1>8, <1>10, <1>11, <1>12 DEF Clients

LEMMA RegistMessageEffect ==
    ASSUME NEW n \in Nets, NEW who \in ServerKeys, NEW s \in Objects
    PROVE  LET m == ProcessRegistMessage(n, s, who)
               old == n.servers[who]
               plain == who \in DOMAIN n.servers => old = s
           IN  /\ m \in Nets /\ m.servers = Set(n.servers, who, s)
               /\ Same(n, m, {"servers", "ports", "types", "replaced", "sock"})
               /\ plain => Same(n, m, {"servers", "sock"})
               /\ ~plain =>
                     /\ m.replaced /\ old \in Objects
                     /\ m.ports = DestroySocketObject(n, old).ports /\ m.types = DestroySocketObject(n, old).types
               /\ m.sock[s].peer = who /\ m.sock[s].status = "Available"
               /\ Of(n, m, s, {"peer", "status"}) /\ Others(n, m, s)
<1> DEFINE m == ProcessRegistMessage(n, s, who)
           old == n.servers[who]
           plain == who \in DOMAIN n.servers => old = s
           a == AddSocket(n, who, s)
           record == [n.sock[s] EXCEPT !.peer = who, !.status = "Available"]
<1>1. who \in Keys
    BY DEF Keys
<1>2. /\ a \in Nets /\ a.servers = Set(n.servers, who, s)
      /\ Same(n, a, {"servers", "ports", "types", "replaced"})
      /\ plain => Same(n, a, {"servers"})
      /\ ~plain =>
            /\ a.replaced /\ old \in Objects
            /\ a.ports = DestroySocketObject(n, old).ports /\ a.types = DestroySocketObject(n, old).types
    BY <1>1, AddEffect
<1> HIDE DEF a, plain, old
<1>3. a.sock = n.sock
    BY <1>2 DEF Same, Fields
<1>4. n.sock[s] \in SocketSet /\ DOMAIN n.sock = Objects
    BY SocketTyped
<1>5. record \in SocketSet /\ record.peer = who /\ record.status = "Available"
      /\ \A field \in SocketFields \ {"peer", "status"} : record[field] = n.sock[s][field]
    BY <1>1, <1>4 DEF SocketSet, SocketFields
<1>6. m = [a EXCEPT !.sock[s] = record]
    BY <1>2, <1>3, <1>4 DEF ProcessRegistMessage, a, Nets, SocketMaps, SocketSet
<1> HIDE DEF record
<1>7. /\ [a EXCEPT !.sock[s] = record] \in Nets /\ [a EXCEPT !.sock[s] = record].sock[s] = record
      /\ Others(a, [a EXCEPT !.sock[s] = record], s) /\ Same(a, [a EXCEPT !.sock[s] = record], {"sock"})
    BY <1>2, <1>5, SocketEffect
<1> HIDE DEF m
<1>8. m \in Nets /\ m.sock[s] = record /\ Others(a, m, s) /\ Same(a, m, {"sock"})
    BY <1>6, <1>7, Zenon
<1>9. Others(n, m, s) /\ Of(n, m, s, {"peer", "status"})
    BY <1>3, <1>5, <1>8 DEF Others, Of
<1>10. /\ m.servers = a.servers /\ m.ports = a.ports /\ m.types = a.types /\ m.replaced = a.replaced
       /\ Same(n, m, {"servers", "ports", "types", "replaced", "sock"})
       /\ plain => Same(n, m, {"servers", "sock"})
    BY <1>2, <1>8 DEF Same, Fields
<1> QED
    BY <1>2, <1>5, <1>8, <1>9, <1>10 DEF m, plain, old

\* The registration of a server: as long as nobody else had its entry, all is kept.
LEMMA RegistKeeps ==
    ASSUME config \in Configs, NEW n, NEW b, Safe(n, b), NEW s \in Objects, BelongPort(s) = "inside",
           n.sock[s].fd # 0, Settled(n), NEW who \in ServerKeys, n.link[LinkOf(n, s)].who = who
    PROVE  LET m == ProcessRegistMessage(n, s, who)
           IN  Safe(m, b) /\ m.sock[s].status = "Available" /\ Beside(n, m, s)
<1> DEFINE m == ProcessRegistMessage(n, s, who)
           old == n.servers[who]
           plain == who \in DOMAIN n.servers => old = s
<1>1. /\ n \in Nets /\ Holding(n) /\ Waiting(n, b) /\ Quiet(n) /\ Clients(n)
      /\ Accounted(n) /\ Routed(n) /\ Packets(n, b, app) /\ Replies(n, b)
      /\ (config.threads = 1 => Ended(n, conn, app))
    BY DEF Safe
<1>2. /\ m \in Nets /\ m.servers = Set(n.servers, who, s)
      /\ Same(n, m, {"servers", "ports", "types", "replaced", "sock"})
      /\ plain => Same(n, m, {"servers", "sock"})
      /\ ~plain =>
            /\ m.replaced /\ old \in Objects
            /\ m.ports = DestroySocketObject(n, old).ports /\ m.types = DestroySocketObject(n, old).types
      /\ m.sock[s].peer = who /\ m.sock[s].status = "Available"
      /\ Of(n, m, s, {"peer", "status"}) /\ Others(n, m, s)
    BY <1>1, RegistMessageEffect
<1>3. plain <=> (who \in DOMAIN n.servers => n.servers[who] = s)
    OBVIOUS
<1>4. ~plain => /\ who \in DOMAIN n.servers
                /\ m.ports = DestroySocketObject(n, n.servers[who]).ports
                /\ m.types = DestroySocketObject(n, n.servers[who]).types
    BY <1>2
<1> HIDE DEF m, plain, old
<1>5. /\ m.link = n.link /\ m.desc = n.desc /\ m.ptr = n.ptr /\ m.recvCS = n.recvCS /\ m.sendSS = n.sendSS
      /\ m.sendCS = n.sendCS /\ m.lost = n.lost /\ m.timers = n.timers /\ m.stranger = n.stranger
      /\ m.silent = n.silent /\ m.starved = n.starved /\ m.listening = n.listening
    BY <1>2 DEF Same, Fields
<1>6. plain => m.ports = n.ports /\ m.types = n.types /\ m.replaced = n.replaced
    BY <1>2 DEF Same, Fields
<1>7. \A r \in Objects : /\ m.sock[r].fd = n.sock[r].fd /\ m.sock[r].buf = n.sock[r].buf
                         /\ m.sock[r].timer = n.sock[r].timer
    BY <1>2 DEF Of, Others, SocketFields
<1>8. \A r \in Objects : r # s => m.sock[r] = n.sock[r]
    BY <1>2 DEF Others
<1>9. n.sock[s].status # "Closed"
    BY <1>1 DEF Holding
<1>10. Holding(m) /\ Quiet(m)
    <2>1. \A r \in Objects : m.sock[r].status = "Closed" <=> n.sock[r].status = "Closed"
        BY <1>2, <1>8, <1>9
    <2> QED
        BY <1>1, <1>2, <1>5, <1>7, <2>1, HoldingKept, QuietKept
<1>11. Clients(m)
    <2>1. plain \/ ~plain
        OBVIOUS
    <2>2. BelongPort(s) # "outside" /\ m.sock[s].peer \in ServerKeys
        BY <1>2
    <2> QED
        BY <1>1, <1>2, <1>4, <1>6, <2>1, <2>2, AddKeepsClients
<1>12. Waiting(m, b) /\ Packets(m, b, app) /\ Replies(m, b) /\ (config.threads = 1 => Ended(m, conn, app))
    BY <1>1, <1>5, LinksKept
<1>13. CASE ~plain
    <2>1. Accounted(m) /\ Routed(m)
        BY <1>2, <1>13 DEF Accounted, Routed
    <2> QED
        BY <1>2, <1>5, <1>10, <1>11, <1>12, <1>13, <2>1 DEF Safe, Beside, m
<1>14. CASE plain
    <2>1. DOMAIN m.servers = DOMAIN n.servers \cup {who} /\ m.servers[who] = s
        <3>1. who \in Keys
            BY KeysDiffer
        <3>2. m.servers = Set(n.servers, who, s) /\ n \in Nets
            BY <1>1, <1>2
        <3> QED
            BY <3>1, <3>2, SetServers
    <2>2. \A k \in DOMAIN m.servers : k = who \/ (k \in DOMAIN n.servers /\ m.servers[k] = n.servers[k] /\ n.servers[k] \in Objects)
        BY <1>1, <1>2, KeysDiffer, SetServersKeeps
    <2>3. \A r \in Objects : LinkOf(m, r) = LinkOf(n, r)
        BY <1>5, <1>7 DEF LinkOf
    <2>4. Accounted(m)
        <3> SUFFICES ASSUME ~n.replaced PROVE Free(m) /\ Pointed(m) /\ Timed(m) /\ Entered(m)
            BY <1>6, <1>14 DEF Accounted
        <3>1. Free(n) /\ Pointed(n) /\ Timed(n) /\ Entered(n)
            BY <1>1 DEF Accounted
        <3>2. Free(m) /\ Pointed(m)
            BY <1>1, <1>2, <1>5, <1>6, <1>7, <1>14, <3>1, FreeKept, PointedKept
        <3>3. Timed(m)
            <4>1. ~n.sock[s].timer
                BY <3>1 DEF Timed
            <4>2. \A r \in Objects : BelongPort(r) = "none" => m.sock[r] = n.sock[r]
                BY <1>8
            <4>3. IsInjective(m.timers) /\ \A r \in Objects : m.sock[r].timer <=> r \in ToSet(m.timers)
                BY <1>5, <1>7, <3>1 DEF Timed
            <4>4. \A r \in Objects : m.sock[r].timer => m.sock[r].status \in {"Opened", "Connecting"}
                BY <1>7, <1>8, <3>1, <4>1 DEF Timed
            <4>5. \A r \in Objects : m.sock[r].status \in {"Opened", "Connecting"} => BelongPort(r) = "none"
                BY <1>2, <1>8, <3>1 DEF Timed
            <4>6. \A r \in Objects : BelongPort(r) = "none" /\ m.sock[r].fd # 0 =>
                      m.sock[r].peer[1] = TypeOf(r) /\ m.link[LinkOf(m, r)].who = m.sock[r].peer
                BY <1>5, <2>3, <3>1, <4>2 DEF Timed
            <4> QED
                BY <4>3, <4>4, <4>5, <4>6 DEF Timed
        <3>4. Entered(m)
            <4> SUFFICES ASSUME NEW key \in DOMAIN m.servers
                         PROVE  LET r == m.servers[key] IN
                                /\ m.sock[r].fd # 0 /\ m.sock[r].peer = key
                                /\ BelongPort(r) = "inside" =>
                                      m.sock[r].status = "Available" /\ m.link[LinkOf(m, r)].who = key
                BY Zenon DEF Entered
            <4>1. CASE key = who
                BY <1>2, <1>5, <1>7, <2>1, <2>3, <4>1
            <4>2. CASE key # who
                <5> DEFINE r == n.servers[key]
                <5>1. key \in DOMAIN n.servers /\ m.servers[key] = r /\ r \in Objects
                    BY <2>2, <4>2
                <5>2. /\ n.sock[r].fd # 0 /\ n.sock[r].peer = key
                      /\ BelongPort(r) = "inside" => n.sock[r].status = "Available" /\ n.link[LinkOf(n, r)].who = key
                    BY <3>1, <5>1, Zenon DEF Entered
                <5> HIDE DEF r
                <5>3. r # s
                    BY <4>2, <5>2
                <5> QED
                    BY <1>5, <1>8, <2>3, <5>1, <5>2, <5>3
            <4> QED
                BY <4>1, <4>2
        <3> QED
            BY <3>2, <3>3, <3>4
    <2>5. Routed(m)
        <3> SUFFICES ASSUME ~n.replaced, ~n.stranger PROVE Routed(m)
            BY <1>5, <1>6, <1>14 DEF Routed
        <3>1. ASSUME NEW r \in Objects, r # s, n.sock[r].peer \in DOMAIN n.servers, n.servers[n.sock[r].peer] = r
              PROVE  n.sock[r].peer \in DOMAIN m.servers /\ m.servers[n.sock[r].peer] = r
            <4>1. n.sock[r].peer # who
                BY <1>3, <1>14, <3>1
            <4> QED
                BY <2>1, <2>2, <3>1, <4>1
        <3>2. \A r \in Objects : m.sock[r].status \in {"Available", "Connecting"} =>
                  m.sock[r].peer \in DOMAIN m.servers /\ m.servers[m.sock[r].peer] = r
            <4> TAKE r \in Objects
            <4>1. CASE r = s
                BY <1>2, <2>1, <4>1
            <4>2. CASE r # s
                BY <1>1, <1>8, <3>1, <4>2 DEF Routed
            <4> QED
                BY <4>1, <4>2
        <3>3. \A r \in Objects : BelongPort(r) = "none" /\ m.sock[r].fd # 0 /\ m.sock[r].peer \in DOMAIN m.servers =>
                  m.servers[m.sock[r].peer] = r
            <4> TAKE r \in Objects
            <4> HAVE BelongPort(r) = "none" /\ m.sock[r].fd # 0 /\ m.sock[r].peer \in DOMAIN m.servers
            <4>1. r # s /\ m.sock[r] = n.sock[r]
                BY <1>8
            <4>2. n.sock[r].status \in {"Connecting", "Available"}
                <5>1. n.sock[r].status \in {"Closed", "Opened", "Connecting", "Connected", "Available"}
                    BY <1>1, SocketTyped, SMTT(30), Zenon DEF SocketSet
                <5>2. n.sock[r].status # "Closed"
                    BY <1>1, <4>1 DEF Holding
                <5> QED
                    BY <5>1, <5>2 DEF Settled, Calm
            <4> QED
                BY <1>1, <3>1, <4>1, <4>2 DEF Routed
        <3>4. ASSUME NEW r \in Objects, BelongPort(r) = "none", m.sock[r].status = "Available"
              PROVE  \/ "regist" \in m.link[LinkOf(m, r)].got
                     \/ [to |-> m.sock[r].peer, kind |-> "regist"] \in ToSet(m.sendSS)
            <4>1. m.sock[r] = n.sock[r]
                BY <1>8, <3>4
            <4> QED
                BY <1>1, <1>5, <2>3, <3>4, <4>1 DEF Routed
        <3> QED
            BY <3>2, <3>3, <3>4 DEF Routed
    <2> QED
        BY <1>2, <1>5, <1>6, <1>10, <1>11, <1>12, <1>14, <2>4, <2>5 DEF Safe, Beside, m
<1> QED
    BY <1>13, <1>14

\* What was handed up leaves the buffer.
Shorten(n, s, c) == [n EXCEPT !.sock[s].buf = SubSeq(n.sock[s].buf, c + 1, Len(n.sock[s].buf))]

LEMMA ShortenKeeps ==
    ASSUME config \in Configs, NEW n, NEW b, Safe(n, b), NEW s \in Objects, BelongPort(s) # "none",
           NEW c \in 0 .. Len(n.sock[s].buf)
    PROVE  LET m == Shorten(n, s, c) IN Safe(m, b) /\ Of(n, m, s, {"buf"}) /\ Beside(n, m, s) /\ Same(n, m, {"sock"})
<1> DEFINE buf == SubSeq(n.sock[s].buf, c + 1, Len(n.sock[s].buf))
           record == [n.sock[s] EXCEPT !.buf = buf]
           m == Shorten(n, s, c)
<1>1. n \in Nets /\ Quiet(n) /\ Packets(n, b, app) /\ (config.threads = 1 => Ended(n, conn, app))
    BY DEF Safe
<1>2. n.sock[s] \in SocketSet /\ DOMAIN n.sock = Objects
    BY <1>1, SocketTyped
<1>3. buf \in Seq({"message"})
    <2>1. n.sock[s].buf \in Seq({"message"})
        BY <1>2 DEF SocketSet
    <2> QED
        BY <2>1
<1> HIDE DEF buf
<1>4. record \in SocketSet /\ \A field \in SocketFields \ {"buf"} : record[field] = n.sock[s][field]
    BY <1>2, <1>3 DEF SocketSet, SocketFields
<1>5. m = [n EXCEPT !.sock[s] = record]
    BY <1>1, <1>2 DEF Shorten, buf, Nets, SocketMaps, SocketSet
<1> HIDE DEF record
<1>6. /\ [n EXCEPT !.sock[s] = record] \in Nets /\ [n EXCEPT !.sock[s] = record].sock[s] = record
      /\ Others(n, [n EXCEPT !.sock[s] = record], s) /\ Same(n, [n EXCEPT !.sock[s] = record], {"sock"})
    BY <1>1, <1>4, SocketEffect
<1> HIDE DEF m
<1>7. m \in Nets /\ m.sock[s] = record /\ Others(n, m, s) /\ Same(n, m, {"sock"})
    BY <1>5, <1>6, Zenon
<1>8. Of(n, m, s, {"buf"})
    BY <1>4, <1>7 DEF Of
<1>9. /\ m.recvCS = n.recvCS /\ m.sendCS = n.sendCS /\ m.silent = n.silent /\ m.desc = n.desc /\ m.link = n.link
      /\ m.replaced = n.replaced /\ m.starved = n.starved /\ m.listening = n.listening
    BY <1>7 DEF Same, Fields
<1>10. \A r \in Objects : /\ m.sock[r].fd = n.sock[r].fd /\ m.sock[r].status = n.sock[r].status
                          /\ m.sock[r].peer = n.sock[r].peer /\ m.sock[r].timer = n.sock[r].timer
    BY <1>7, <1>8 DEF Of, Others, SocketFields
<1>11. Same(n, m, {"sock", "link", "recvCS"})
    BY <1>7 DEF Same
<1>12. Holding(m) /\ Clients(m) /\ Accounted(m) /\ Routed(m) /\ Waiting(m, b) /\ Replies(m, b)
    BY <1>1, <1>7, <1>9, <1>10, <1>11, BuffersKept
<1>13. Packets(m, b, app) /\ (config.threads = 1 => Ended(m, conn, app))
    BY <1>1, <1>9, LinksKept
<1>14. Quiet(m)
    BY <1>1, <1>7, <1>9 DEF Quiet, Others
<1>15. Safe(m, b)
    BY <1>7, <1>12, <1>13, <1>14 DEF Safe
<1>16. Beside(n, m, s)
    BY <1>7, <1>9 DEF Beside
<1> QED
    BY <1>7, <1>8, <1>15, <1>16 DEF m

LEMMA SettledBeside ==
    ASSUME NEW n, NEW m, NEW s \in Objects, Settled(n), Others(n, m, s), Calm(m, s)
    PROVE  Settled(m)
BY DEF Settled, Calm, Others

LEMMA MakeMessageKeeps ==
    ASSUME config \in Configs, NEW n, NEW b, Safe(n, b), NEW s \in Objects, n.sock[s].fd # 0, Settled(n), NEW k \in Nat
    PROVE  LET m == MakeMessage(n, s, k) IN Safe(m, b) /\ Settled(m) /\ Beside(n, m, s)
<1> DEFINE buf == n.sock[s].buf
           c == IF k < Len(buf) THEN k ELSE Len(buf)
           x == Shorten(n, s, c)
           l == LinkOf(n, s)
           m == MakeMessage(n, s, k)
<1>1. n \in Nets /\ Holding(n) /\ Quiet(n)
    BY DEF Safe
<1>2. n.sock[s] \in SocketSet
    BY <1>1, SocketTyped
<1>3. buf \in Seq({"message"}) /\ Len(buf) \in Nat
    BY <1>2 DEF SocketSet
<1>4. c \in 0 .. Len(buf)
    BY <1>3
<1>5. Beside(n, n, s)
    BY DEF Beside, Others
<1>6. CASE BelongPort(s) = "outside"
    <2>1. Safe(m, b) /\ Of(n, m, s, {"buf"}) /\ Beside(n, m, s)
        BY <1>6, HandUpKeeps
    <2>2. m.sock[s].status = n.sock[s].status
        BY <2>1 DEF Of, SocketFields
    <2>3. Settled(m)
        BY <2>1, <2>2, SettledBeside DEF Settled, Calm, Beside
    <2> QED
        BY <2>1, <2>3
<1>7. CASE c = 0
    <2>1. m = n
        BY <1>7 DEF MakeMessage
    <2> QED
        BY <1>5, <2>1
<1>8. CASE BelongPort(s) # "outside" /\ c # 0
    <2>1. BelongPort(s) = "inside"
        <3>1. BelongPort(s) # "none"
            BY <1>1, <1>3, <1>8 DEF Quiet
        <3> QED
            BY <1>8, <3>1, ConfigFacts DEF PortNames
    <2>2. m = ProcessRegistMessage(x, s, n.link[l].who)
        BY <1>8 DEF MakeMessage, Shorten
    <2>3. l \in 1 .. Len(n.link) /\ n.link[l].who \in ServerKeys
        <3>1. l # 0 /\ l \in Nat /\ l <= Len(n.link) /\ n.link[l].who # <<Client, 0>> /\ n.link \in Seq(LinkSet)
            BY <1>1, <1>8, NetTyped, SocketTyped DEF Holding, LinkOf
        <3>2. n.link[l] \in LinkSet
            BY <3>1
        <3> QED
            BY <3>1, <3>2, SMTT(30), Zenon DEF LinkSet
    <2> DEFINE who == n.link[l].who
    <2> HIDE DEF c
    <2>4. Safe(x, b) /\ Of(n, x, s, {"buf"}) /\ Beside(n, x, s) /\ Same(n, x, {"sock"})
        BY <1>4, <2>1, ShortenKeeps
    <2> HIDE DEF x, l, m
    <2>5. x.sock[s].fd = n.sock[s].fd /\ x.sock[s].status = n.sock[s].status /\ x.desc = n.desc /\ x.link = n.link
        BY <2>4 DEF Of, SocketFields, Same, Fields
    <2>6. Settled(x)
        BY <2>4, <2>5, SettledBeside DEF Settled, Calm, Beside
    <2>7. x.link[LinkOf(x, s)].who = who
        BY <2>5 DEF LinkOf, l
    <2> HIDE DEF who
    <2>8. who \in ServerKeys /\ x.sock[s].fd # 0
        BY <2>3, <2>5 DEF who
    <2>9. m = ProcessRegistMessage(x, s, who)
        BY <2>2 DEF who
    <2>10. Safe(m, b) /\ m.sock[s].status = "Available" /\ Beside(x, m, s)
        BY <2>1, <2>4, <2>6, <2>7, <2>8, <2>9, RegistKeeps
    <2>11. Beside(n, m, s)
        BY <2>4, <2>10, BesideTransitive
    <2>12. Settled(m)
        BY <2>6, <2>10, SettledBeside DEF Calm, Beside
    <2> QED
        BY <2>10, <2>11, <2>12 DEF m
<1> QED
    BY <1>6, <1>7, <1>8

\* OnRead, all of it.
LEMMA OnReadKeeps ==
    ASSUME config \in Configs, NEW n, NEW b, Safe(n, b), NEW s \in Objects, Settled(n), NEW k \in Nat, NEW ok \in BOOLEAN
    PROVE  LET m == OnRead(n, s, k, ok) IN Safe(m, b) /\ Settled(m) /\ Beside(n, m, s)
<1> DEFINE m == OnRead(n, s, k, ok)
           l == LinkOf(n, s)
           x == Take(n, s, l)
           h == MakeMessage(x, s, k)
           ends == n.link[l].state # "up" \/ n.link[l].rd = << >>
<1>1. n \in Nets /\ Holding(n) /\ Clients(n) /\ Routed(n)
    BY DEF Safe
<1>2. CASE n.sock[s].fd = 0
    <2>1. m = n
        BY <1>2 DEF OnRead
    <2> QED
        BY <2>1 DEF Beside, Others
<1>3. CASE n.sock[s].fd # 0 /\ n.sock[s].status = "Connecting"
    <2>1. m = IF StateOf(n, s) = "up" THEN Connected(n, s, ok) ELSE CloseSocket(n, s)
        BY <1>3 DEF OnRead
    <2>2. BelongPort(s) # "outside"
        BY <1>1, <1>3 DEF Clients
    <2>3. Own(n, s)
        BY <1>1, <1>3 DEF Routed, Own
    <2>4. CASE StateOf(n, s) = "up"
        <3>1. m = Connected(n, s, ok)
            BY <2>1, <2>4
        <3> HIDE DEF m
        <3>2. Safe(m, b) /\ m.sock[s].status \in {"Closed", "Available"} /\ Beside(n, m, s)
            BY <1>3, <2>2, <2>3, <3>1, ConnectedKeeps
        <3>3. Settled(m)
            BY <3>2, SettledBeside DEF Calm, Beside
        <3> QED
            BY <3>2, <3>3 DEF m
    <2>5. CASE StateOf(n, s) # "up"
        <3>1. m = CloseSocket(n, s)
            BY <2>1, <2>5
        <3> HIDE DEF m
        <3>2. Safe(m, b) /\ m.sock[s].status = "Closed" /\ Beside(n, m, s)
            BY <3>1, CloseKeeps
        <3>3. Settled(m)
            BY <3>2, SettledBeside DEF Calm, Beside
        <3> QED
            BY <3>2, <3>3 DEF m
    <2> QED
        BY <2>4, <2>5
<1>4. CASE n.sock[s].fd # 0 /\ n.sock[s].status # "Connecting"
    <2>1. m = IF ends THEN CloseSocket(h, s) ELSE h
        BY <1>4 DEF OnRead, Take
    <2> HIDE DEF ends, m
    <2>2. /\ Safe(x, b) /\ Of(n, x, s, {"buf"}) /\ Beside(n, x, s)
        BY <1>4, TakeKeeps
    <2> HIDE DEF x
    <2>3. x.sock[s].fd = n.sock[s].fd /\ x.sock[s].status = n.sock[s].status
        BY <2>2 DEF Of, SocketFields
    <2>4. Settled(x)
        BY <2>2, <2>3, SettledBeside DEF Settled, Calm, Beside
    <2>5. Safe(h, b) /\ Settled(h) /\ Beside(x, h, s)
        BY <1>4, <2>2, <2>3, <2>4, MakeMessageKeeps
    <2>6. Beside(n, h, s)
        BY <2>2, <2>5, BesideTransitive
    <2> HIDE DEF h
    <2>7. CASE ends
        <3>1. m = CloseSocket(h, s)
            BY <2>1, <2>7
        <3>2. Safe(m, b) /\ m.sock[s].status = "Closed" /\ Beside(h, m, s)
            BY <2>5, <3>1, CloseKeeps
        <3>3. Settled(m)
            BY <2>5, <3>2, SettledBeside DEF Calm, Beside
        <3> QED
            BY <2>6, <3>2, <3>3, BesideTransitive DEF m
    <2>8. CASE ~ends
        <3>1. m = h
            BY <2>1, <2>8
        <3> QED
            BY <2>5, <2>6, <3>1 DEF m
    <2> QED
        BY <2>7, <2>8
<1> QED
    BY <1>2, <1>3, <1>4

-----------------------------------------------------------------------------
(* The handlers that send.                                                 *)

LEMMA FlagsKeep ==
    ASSUME NEW n, NEW m \in Nets, NEW b, Same(n, m, {"due", "starved", "listening"}), Safe(n, b)
    PROVE  Safe(m, b)
<1>1. /\ m.link = n.link /\ m.desc = n.desc /\ m.recvCS = n.recvCS /\ m.sendCS = n.sendCS /\ m.silent = n.silent
      /\ Same(n, m, {"recvCS", "sendCS", "due", "silent", "starved", "listening"})
    BY DEF Same, Fields
<1>2. n \in Nets /\ Holding(n) /\ Quiet(n) /\ Clients(n) /\ Accounted(n) /\ Routed(n)
    BY DEF Safe
<1>3. Holding(m) /\ Quiet(m) /\ Clients(m) /\ Accounted(m) /\ Routed(m)
    BY <1>1, <1>2, SocketsKept
<1>4. Waiting(m, b) /\ Packets(m, b, app) /\ Replies(m, b) /\ (config.threads = 1 => Ended(m, conn, app))
    BY <1>1, LinksKept DEF Safe
<1> QED
    BY <1>3, <1>4 DEF Safe

LEMMA DueKeeps ==
    ASSUME NEW n, NEW b, Safe(n, b), NEW due \in BOOLEAN
    PROVE  LET m == [n EXCEPT !.due = due]
           IN  Safe(m, b) /\ m.sock = n.sock /\ m.starved = n.starved
<1> DEFINE m == [n EXCEPT !.due = due]
<1>1. n \in Nets
    BY DEF Safe
<1>2. m \in Nets /\ Same(n, m, {"due", "starved", "listening"}) /\ m.sock = n.sock /\ m.starved = n.starved
    BY <1>1 DEF Nets, Same, Fields
<1> HIDE DEF m
<1>3. Safe(m, b)
    BY <1>2, FlagsKeep
<1> QED
    BY <1>2, <1>3 DEF m

\* What arrives at the other side.
Delivered(n, l, take) == [n EXCEPT !.link[l].got = @ \cup take]

LEMMA DeliveredEffect ==
    ASSUME NEW n \in Nets, NEW l \in 1 .. Len(n.link), NEW take \in SUBSET (Nat \cup {"regist", "data"})
    PROVE  LET m == Delivered(n, l, take)
           IN  /\ m \in Nets /\ Same(n, m, {"link"}) /\ Len(m.link) = Len(n.link)
               /\ m.link[l].got = n.link[l].got \cup take
               /\ \A k \in 1 .. Len(n.link) : /\ m.link[k].who = n.link[k].who /\ m.link[k].rd = n.link[k].rd
                                              /\ k # l => m.link[k] = n.link[k]
<1> DEFINE m == Delivered(n, l, take)
           got == n.link[l].got \cup take
           record == [n.link[l] EXCEPT !.got = got]
           link == [n.link EXCEPT ![l] = record]
<1>1. n.link \in Seq(LinkSet) /\ n.link[l] \in LinkSet
    BY NetTyped
<1>2. got \in SUBSET (Nat \cup {"regist", "data"})
    BY <1>1 DEF LinkSet
<1> HIDE DEF got
<1>3. record \in LinkSet /\ record.got = got /\ record.who = n.link[l].who /\ record.rd = n.link[l].rd
    BY <1>1, <1>2 DEF LinkSet
<1> HIDE DEF record
<1>4. /\ link \in Seq(LinkSet) /\ Len(link) = Len(n.link) /\ link[l] = record
      /\ \A k \in 1 .. Len(n.link) : k # l => link[k] = n.link[k]
    BY <1>1, <1>3
<1> HIDE DEF link
<1>5. m = [n EXCEPT !.link = link]
    BY DEF Delivered, link, record, got, Nets
<1>6. link \in LinkLists
    BY <1>4 DEF LinkLists
<1>7. m \in Nets /\ m.link = link /\ Same(n, m, {"link"})
    BY <1>5, <1>6 DEF Nets, Same, Fields
<1> HIDE DEF m
<1> QED
    BY <1>3, <1>4, <1>7 DEF m, got

LEMMA LinkExists ==
    ASSUME NEW n \in Nets, Holding(n), NEW s \in Objects, n.sock[s].fd # 0
    PROVE  LinkOf(n, s) \in 1 .. Len(n.link)
<1>1. n.sock[s].fd \in Fds /\ n.desc \in [Fds -> Nat] /\ n.link \in Seq(LinkSet)
    BY NetTyped, SocketTyped
<1>2. n.desc[n.sock[s].fd] # 0 /\ n.desc[n.sock[s].fd] <= Len(n.link)
    BY <1>1 DEF Holding
<1> QED
    BY <1>1, <1>2 DEF LinkOf

LEMMA DeliveredKeeps ==
    ASSUME config \in Configs, NEW n, NEW b, NEW s \in Objects, SafeBut(n, b, s), n.sock[s].fd # 0,
           NEW take \in SUBSET (Nat \cup {"regist", "data"}),
           \/ Routed(n)
           \/ "regist" \in take
           \/ "regist" \in n.link[LinkOf(n, s)].got
           \/ [to |-> n.sock[s].peer, kind |-> "regist"] \in ToSet(n.sendSS),
           n.link[LinkOf(n, s)].who = <<Client, 0>> =>
               \A a \in take : a \in 1 .. Len(n.link) /\ (a = LinkOf(n, s) \/ ~Alive(n, b, a))
    PROVE  LET m == Delivered(n, LinkOf(n, s), take)
           IN  Safe(m, b) /\ m.sock = n.sock /\ m.starved = n.starved
<1> DEFINE l == LinkOf(n, s)
           m == Delivered(n, l, take)
<1>1. /\ n \in Nets /\ Holding(n) /\ Waiting(n, b) /\ Quiet(n) /\ Clients(n)
      /\ Accounted(n) /\ RoutedBut(n, s) /\ Packets(n, b, app) /\ Replies(n, b)
      /\ (config.threads = 1 => Ended(n, conn, app))
    BY DEF SafeBut
<1>2. l \in 1 .. Len(n.link)
    BY <1>1, LinkExists
<1> HIDE DEF l
<1>3. /\ m \in Nets /\ Same(n, m, {"link"}) /\ Len(m.link) = Len(n.link)
      /\ m.link[l].got = n.link[l].got \cup take
      /\ \A k \in 1 .. Len(n.link) : /\ m.link[k].who = n.link[k].who /\ m.link[k].rd = n.link[k].rd
                                     /\ k # l => m.link[k] = n.link[k]
    BY <1>1, <1>2, DeliveredEffect
<1> HIDE DEF m
<1>4. /\ m.sock = n.sock /\ m.ports = n.ports /\ m.types = n.types /\ m.servers = n.servers /\ m.timers = n.timers
      /\ m.desc = n.desc /\ m.ptr = n.ptr /\ m.recvCS = n.recvCS /\ m.sendCS = n.sendCS /\ m.sendSS = n.sendSS
      /\ m.lost = n.lost /\ m.replaced = n.replaced /\ m.stranger = n.stranger /\ m.silent = n.silent
      /\ m.starved = n.starved
    BY <1>3 DEF Same, Fields
<1>5. Holding(m) /\ Quiet(m) /\ Clients(m)
    BY <1>1, <1>3, <1>4, HoldingKept, QuietKept, ClientsKept
<1>6. Waiting(m, b) /\ Packets(m, b, app) /\ (config.threads = 1 => Ended(m, conn, app))
    BY <1>1, <1>3, <1>4, LinksKept
<1>7. Accounted(m)
    <2> SUFFICES ASSUME ~n.replaced PROVE Free(m) /\ Pointed(m) /\ Timed(m) /\ Entered(m)
        BY <1>4 DEF Accounted
    <2>1. Free(n) /\ Pointed(n) /\ Timed(n) /\ Entered(n)
        BY <1>1 DEF Accounted
    <2>2. Free(m) /\ Pointed(m)
        BY <1>1, <1>3, <1>4, <2>1, FreeKept, PointedKept
    <2>3. Timed(m)
        BY <1>1, <1>3, <1>4, <2>1, TimedKept
    <2>4. Entered(m)
        BY <1>1, <1>3, <1>4, <2>1, EnteredKept
    <2> QED
        BY <2>2, <2>3, <2>4
<1>8. \A k \in 1 .. Len(n.link) : n.link[k].got \subseteq m.link[k].got
    BY <1>3
<1>9. Routed(m)
    <2>1. CASE Routed(n)
        BY <1>1, <1>3, <1>4, <1>8, <2>1, RoutedKept
    <2>2. CASE ~Routed(n)
        <3> SUFFICES ASSUME ~n.replaced, ~n.stranger PROVE Routed(m)
            BY <1>4, SMTT(30), Zenon DEF Routed
        <3>1. \A r \in Objects : LinkOf(m, r) = LinkOf(n, r)
            BY <1>4, Zenon DEF LinkOf
        <3>2. ASSUME NEW r \in Objects, BelongPort(r) = "none", m.sock[r].status = "Available"
              PROVE  \/ "regist" \in m.link[LinkOf(m, r)].got
                     \/ [to |-> m.sock[r].peer, kind |-> "regist"] \in ToSet(m.sendSS)
            <4>1. CASE r = s
                BY <1>3, <1>4, <2>2, <3>1, <4>1 DEF l
            <4>2. CASE r # s
                <5>1. \/ "regist" \in n.link[LinkOf(n, r)].got
                      \/ [to |-> n.sock[r].peer, kind |-> "regist"] \in ToSet(n.sendSS)
                    BY <1>1, <1>4, <3>2, <4>2 DEF RoutedBut
                <5>2. LinkOf(n, r) \in 1 .. Len(n.link)
                    <6>1. n.sock[r].fd # 0
                        BY <1>1, <1>4, <3>2 DEF Holding
                    <6> QED
                        BY <1>1, <6>1, LinkExists, SMTT(30), Zenon
                <5> QED
                    BY <1>4, <1>8, <3>1, <5>1, <5>2
            <4> QED
                BY <4>1, <4>2
        <3>3. /\ \A r \in Objects : m.sock[r].status \in {"Available", "Connecting"} =>
                     m.sock[r].peer \in DOMAIN m.servers /\ m.servers[m.sock[r].peer] = r
              /\ \A r \in Objects : BelongPort(r) = "none" /\ m.sock[r].fd # 0 /\ m.sock[r].peer \in DOMAIN m.servers =>
                     m.servers[m.sock[r].peer] = r
            BY <1>1, <1>4 DEF RoutedBut
        <3> QED
            BY <3>2, <3>3 DEF Routed
    <2> QED
        BY <2>1, <2>2
<1>10. Replies(m, b)
    <2> SUFFICES ASSUME NEW k \in 1 .. Len(n.link), n.link[k].who = <<Client, 0>>, NEW a \in m.link[k].got
                 PROVE  a \in 1 .. Len(n.link) /\ (a = k \/ ~Alive(n, b, a))
        BY <1>3, <1>4 DEF Replies, Alive
    <2>1. CASE a \in n.link[k].got
        BY <1>1, <2>1 DEF Replies
    <2>2. CASE a \notin n.link[k].got
        <3>1. k = l /\ a \in take
            BY <1>3, <2>2
        <3> QED
            BY <3>1 DEF l
    <2> QED
        BY <2>1, <2>2
<1> QED
    BY <1>3, <1>4, <1>5, <1>6, <1>7, <1>9, <1>10 DEF Safe, m, l

LEMMA SendsKeeps ==
    ASSUME config \in Configs, NEW n, NEW b, NEW s \in Objects, SafeBut(n, b, s), Settled(n),
           NEW take \in SUBSET (Nat \cup {"regist", "data"}), NEW noticed \in BOOLEAN, NEW ok \in BOOLEAN,
           \/ Routed(n)
           \/ n.sock[s].status = "Available" /\ BelongPort(s) = "none" /\ "regist" \in take,
           n.sock[s].fd # 0 /\ n.link[LinkOf(n, s)].who = <<Client, 0>> =>
               \A a \in take : a \in 1 .. Len(n.link) /\ (a = LinkOf(n, s) \/ ~Alive(n, b, a))
    PROVE  LET m == Sends(n, s, take, noticed, ok) IN Safe(m, b) /\ Settled(m) /\ m.starved = n.starved
<1> DEFINE m == Sends(n, s, take, noticed, ok)
           c == CloseSocket(n, s)
           l == LinkOf(n, s)
<1>1. Holding(n) /\ Clients(n) /\ n \in Nets
    BY DEF SafeBut
<1>2. Routed(n) => Safe(n, b)
    BY DEF SafeBut, Safe
<1>3. /\ Safe(c, b) /\ Settled(c) /\ c.starved = n.starved
    <2>1. CASE Routed(n)
        <3>1. Safe(c, b) /\ c.sock[s].status = "Closed" /\ Beside(n, c, s)
            BY <1>2, <2>1, CloseKeeps
        <3> QED
            BY <3>1, SettledBeside DEF Calm, Beside
    <2>2. CASE ~Routed(n)
        <3>1. n.sock[s].fd # 0 /\ BelongPort(s) # "outside"
            BY <1>1, <2>2 DEF Holding
        <3>2. Safe(c, b) /\ c.sock[s].status = "Closed" /\ Others(n, c, s) /\ c.starved = n.starved
            BY <3>1, CloseInsideKeeps
        <3> QED
            BY <3>2, SettledBeside DEF Calm
    <2> QED
        BY <2>1, <2>2
<1>4. ASSUME NEW x, Safe(x, b), Settled(x), x.starved = n.starved
      PROVE  LET d == [x EXCEPT !.due = TRUE] IN Safe(d, b) /\ Settled(d) /\ d.starved = n.starved
    <2> DEFINE d == [x EXCEPT !.due = TRUE]
    <2>1. Safe(d, b) /\ d.sock = x.sock /\ d.starved = x.starved
        BY <1>4, DueKeeps
    <2> HIDE DEF d
    <2>2. Settled(d)
        BY <1>4, <2>1 DEF Settled, Calm
    <2> QED
        BY <1>4, <2>1, <2>2 DEF d
<1> HIDE DEF c
<1>5. CASE n.sock[s].fd = 0
    <2>1. m = [n EXCEPT !.due = TRUE]
        BY <1>1, <1>5 DEF Sends, Holding
    <2>2. Safe(n, b)
        BY <1>1, <1>2, <1>5 DEF Holding
    <2> QED
        BY <1>4, <2>1, <2>2
<1>6. CASE n.sock[s].fd # 0 /\ n.sock[s].status = "Connecting"
    <2>1. m = IF StateOf(n, s) = "up" THEN Connected(n, s, ok) ELSE [c EXCEPT !.due = TRUE]
        BY <1>6 DEF Sends, c
    <2>2. Safe(n, b) /\ Routed(n)
        BY <1>2, <1>6
    <2>3. CASE StateOf(n, s) = "up"
        <3>1. m = Connected(n, s, ok)
            BY <2>1, <2>3
        <3>2. BelongPort(s) # "outside" /\ Own(n, s)
            BY <1>1, <1>6, <2>2 DEF Clients, Routed, Own
        <3> HIDE DEF m
        <3>3. Safe(m, b) /\ m.sock[s].status \in {"Closed", "Available"} /\ Beside(n, m, s)
            BY <1>6, <2>2, <3>1, <3>2, ConnectedKeeps
        <3>4. Settled(m) /\ m.starved = n.starved
            BY <3>3, SettledBeside DEF Calm, Beside
        <3> QED
            BY <3>3, <3>4 DEF m
    <2>4. CASE StateOf(n, s) # "up"
        BY <1>3, <1>4, <2>1, <2>4
    <2> QED
        BY <2>3, <2>4
<1>7. CASE n.sock[s].fd # 0 /\ n.sock[s].status # "Connecting"
    <2>1. m = IF noticed /\ StateOf(n, s) # "up" THEN [c EXCEPT !.due = TRUE] ELSE Delivered(n, l, take)
        BY <1>7 DEF Sends, c, Delivered
    <2>2. CASE noticed /\ StateOf(n, s) # "up"
        BY <1>3, <1>4, <2>1, <2>2
    <2>3. CASE ~(noticed /\ StateOf(n, s) # "up")
        <3>1. m = Delivered(n, LinkOf(n, s), take)
            BY <2>1, <2>3
        <3> HIDE DEF m
        <3>2. Safe(m, b) /\ m.sock = n.sock /\ m.starved = n.starved
            BY <1>7, <3>1, DeliveredKeeps
        <3>3. Settled(m)
            BY <3>2 DEF Settled, Calm
        <3> QED
            BY <3>2, <3>3 DEF m
    <2> QED
        BY <2>2, <2>3
<1> QED
    BY <1>5, <1>6, <1>7

\* SendMessagesToServer: the order that is taken may be the registration of the one it is for.
LEMMA ToServerKeeps ==
    ASSUME config \in Configs, NEW n, NEW b, Safe(n, b), Settled(n), NEW noticed \in BOOLEAN, NEW ok \in BOOLEAN
    PROVE  LET m == SendMessagesToServer(n, noticed, ok) IN Safe(m, b) /\ Settled(m) /\ m.starved = n.starved
<1> DEFINE m == SendMessagesToServer(n, noticed, ok)
           order == Head(n.sendSS)
           p == PopSendSSQueue(n)
           s == GetSocket(p, order.to)
<1>1. /\ n \in Nets /\ Holding(n) /\ Waiting(n, b) /\ Quiet(n) /\ Clients(n)
      /\ Accounted(n) /\ Routed(n) /\ Packets(n, b, app) /\ Replies(n, b)
      /\ (config.threads = 1 => Ended(n, conn, app))
    BY DEF Safe
<1>2. CASE n.sendSS = << >>
    <2>1. m = n
        BY <1>2 DEF SendMessagesToServer
    <2> QED
        BY <2>1
<1>3. CASE n.sendSS # << >>
    <2>1. m = IF HasSocket(p, order.to) THEN Sends(p, s, {order.kind}, noticed, ok) ELSE p
        BY <1>3 DEF SendMessagesToServer
    <2>2. p \in Nets /\ p.sendSS = Tail(n.sendSS) /\ Same(n, p, {"sendSS"})
        BY <1>1, <1>3, PopSSEffect
    <2>3. order \in OrderSet /\ ToSet(n.sendSS) = ToSet(Tail(n.sendSS)) \cup {order}
        BY <1>1, <1>3, NetTyped, TailElements
    <2> HIDE DEF p, order, m
    <2>4. order.to \in ServerKeys /\ order.kind \in {"regist", "data"} /\ order = [to |-> order.to, kind |-> order.kind]
        BY <2>3 DEF OrderSet
    <2>5. /\ p.sock = n.sock /\ p.ports = n.ports /\ p.types = n.types /\ p.servers = n.servers /\ p.timers = n.timers
          /\ p.desc = n.desc /\ p.ptr = n.ptr /\ p.recvCS = n.recvCS /\ p.sendCS = n.sendCS /\ p.link = n.link
          /\ p.lost = n.lost /\ p.replaced = n.replaced /\ p.stranger = n.stranger /\ p.silent = n.silent
          /\ p.starved = n.starved
        BY <2>2 DEF Same, Fields
    <2>6. Holding(p) /\ Quiet(p) /\ Clients(p)
        BY <1>1, <2>2, <2>5, HoldingKept, QuietKept, ClientsKept
    <2>7. Waiting(p, b) /\ Packets(p, b, app) /\ Replies(p, b) /\ (config.threads = 1 => Ended(p, conn, app))
        BY <1>1, <2>5, LinksKept
    <2>8. Accounted(p)
        <3> SUFFICES ASSUME ~n.replaced PROVE Free(p) /\ Pointed(p) /\ Timed(p) /\ Entered(p)
            BY <2>5 DEF Accounted
        <3>1. Free(n) /\ Pointed(n) /\ Timed(n) /\ Entered(n)
            BY <1>1 DEF Accounted
        <3>2. Free(p) /\ Pointed(p)
            BY <1>1, <2>2, <2>5, <3>1, FreeKept, PointedKept
        <3>3. Timed(p)
            BY <1>1, <2>2, <2>5, <3>1, TimedKept
        <3>4. Entered(p)
            BY <1>1, <2>2, <2>5, <3>1, EnteredKept
        <3> QED
            BY <3>2, <3>3, <3>4
    <2>9. \A r \in Objects : LinkOf(p, r) = LinkOf(n, r)
        BY <2>5 DEF LinkOf
    <2>10. Settled(p)
        BY <2>5 DEF Settled, Calm
    <2>11. ASSUME ~n.replaced, ~n.stranger, NEW r \in Objects, BelongPort(r) = "none", n.sock[r].status = "Available"
           PROVE  \/ "regist" \in p.link[LinkOf(p, r)].got
                  \/ [to |-> p.sock[r].peer, kind |-> "regist"] \in ToSet(p.sendSS)
                  \/ order.to \in DOMAIN n.servers /\ n.servers[order.to] = r /\ order.kind = "regist"
        <3>1. \/ "regist" \in n.link[LinkOf(n, r)].got
              \/ [to |-> n.sock[r].peer, kind |-> "regist"] \in ToSet(n.sendSS)
            BY <1>1, <2>11 DEF Routed
        <3>2. n.sock[r].peer \in DOMAIN n.servers /\ n.servers[n.sock[r].peer] = r
            BY <1>1, <2>11 DEF Routed
        <3>3. CASE [to |-> n.sock[r].peer, kind |-> "regist"] = order
            BY <3>2, <3>3
        <3>4. CASE [to |-> n.sock[r].peer, kind |-> "regist"] # order
            BY <2>2, <2>3, <2>5, <2>9, <3>1, <3>4
        <3> QED
            BY <3>3, <3>4
    <2>12. ~n.replaced /\ ~n.stranger =>
              /\ \A r \in Objects : p.sock[r].status \in {"Available", "Connecting"} =>
                     p.sock[r].peer \in DOMAIN p.servers /\ p.servers[p.sock[r].peer] = r
              /\ \A r \in Objects : BelongPort(r) = "none" /\ p.sock[r].fd # 0 /\ p.sock[r].peer \in DOMAIN p.servers =>
                     p.servers[p.sock[r].peer] = r
        BY <1>1, <2>5 DEF Routed
    <2>13. CASE order.to \notin DOMAIN n.servers
        <3>1. m = p
            BY <2>1, <2>5, <2>13 DEF HasSocket
        <3>2. Routed(p)
            BY <2>5, <2>11, <2>12, <2>13 DEF Routed
        <3>3. Safe(p, b)
            BY <2>2, <2>6, <2>7, <2>8, <3>2 DEF Safe
        <3> QED
            BY <2>5, <2>10, <3>1, <3>3 DEF m
    <2>14. CASE order.to \in DOMAIN n.servers
        <3>1. s = n.servers[order.to]
            BY <2>5 DEF GetSocket
        <3>2. m = Sends(p, s, {order.kind}, noticed, ok)
            BY <2>1, <2>5, <2>14 DEF HasSocket
        <3> HIDE DEF s
        <3>3. s \in Objects /\ BelongPort(s) # "outside"
            <4>1. s \in Objects
                BY <1>1, <2>14, <3>1, NetTyped, MapElement
            <4>2. order.to[1] # Client
                BY <2>4, KeysDiffer
            <4> QED
                BY <1>1, <2>14, <3>1, <4>1, <4>2 DEF Clients
        <3>4. RoutedBut(p, s)
            <4>1. \A r \in Objects : ~n.replaced /\ ~n.stranger /\ BelongPort(r) = "none"
                                     /\ p.sock[r].status = "Available" /\ r # s =>
                      \/ "regist" \in p.link[LinkOf(p, r)].got
                      \/ [to |-> p.sock[r].peer, kind |-> "regist"] \in ToSet(p.sendSS)
                BY <2>5, <2>11, <3>1
            <4> QED
                BY <2>5, <2>12, <4>1 DEF RoutedBut
        <3>5. SafeBut(p, b, s)
            BY <2>2, <2>6, <2>7, <2>8, <3>4 DEF SafeBut
        <3>6. Routed(p) \/ (p.sock[s].status = "Available" /\ BelongPort(s) = "none" /\ "regist" \in {order.kind})
            <4> SUFFICES ASSUME ~(p.sock[s].status = "Available" /\ BelongPort(s) = "none" /\ order.kind = "regist")
                         PROVE  Routed(p)
                OBVIOUS
            <4>1. \A r \in Objects : ~n.replaced /\ ~n.stranger /\ BelongPort(r) = "none" /\ p.sock[r].status = "Available" =>
                      \/ "regist" \in p.link[LinkOf(p, r)].got
                      \/ [to |-> p.sock[r].peer, kind |-> "regist"] \in ToSet(p.sendSS)
                BY <2>5, <2>11, <3>1, SMTT(30), Zenon
            <4> QED
                BY <2>5, <2>12, <4>1 DEF Routed
        <3>7. p.sock[s].fd # 0 => p.link[LinkOf(p, s)].who # <<Client, 0>>
            BY <2>6, <3>3 DEF Holding, LinkOf
        <3> DEFINE take == {order.kind}
        <3>8. take \in SUBSET (Nat \cup {"regist", "data"})
            BY <2>4
        <3>9. m = Sends(p, s, take, noticed, ok) /\ ("regist" \in {order.kind} <=> "regist" \in take)
            BY <3>2
        <3> HIDE DEF take
        <3>10. Safe(m, b) /\ Settled(m) /\ m.starved = p.starved
            BY <2>10, <3>3, <3>5, <3>6, <3>7, <3>8, <3>9, SendsKeeps
        <3> QED
            BY <2>5, <3>10 DEF m
    <2> QED
        BY <2>13, <2>14
<1> QED
    BY <1>2, <1>3

LEMMA PopCSKeeps ==
    ASSUME NEW n, NEW b, Safe(n, b), n.sendCS # << >>
    PROVE  LET p == PopSendCSQueue(n)
               packet == Head(n.sendCS)
           IN  /\ Safe(p, b) /\ p.sock = n.sock /\ p.starved = n.starved /\ p.servers = n.servers
               /\ packet \in PacketSet /\ PacketOK(p, b, packet)
<1> DEFINE p == PopSendCSQueue(n)
           packet == Head(n.sendCS)
<1>1. /\ n \in Nets /\ Holding(n) /\ Waiting(n, b) /\ Quiet(n) /\ Clients(n)
      /\ Accounted(n) /\ Routed(n) /\ Packets(n, b, app) /\ Replies(n, b)
      /\ (config.threads = 1 => Ended(n, conn, app))
    BY DEF Safe
<1>2. p \in Nets /\ p.sendCS = Tail(n.sendCS) /\ Same(n, p, {"sendCS"})
    BY <1>1, PopCSEffect
<1>3. packet \in PacketSet /\ packet \in ToSet(n.sendCS) /\ ToSet(n.sendCS) = ToSet(Tail(n.sendCS)) \cup {packet}
    BY <1>1, NetTyped, TailElements
<1> HIDE DEF p, packet
<1>4. /\ p.link = n.link /\ p.desc = n.desc /\ p.recvCS = n.recvCS /\ p.silent = n.silent /\ p.sock = n.sock
      /\ p.servers = n.servers /\ p.starved = n.starved
      /\ Same(n, p, {"recvCS", "sendCS", "due", "silent", "starved", "listening"})
    BY <1>2 DEF Same, Fields
<1>5. Holding(p) /\ Quiet(p) /\ Clients(p) /\ Accounted(p) /\ Routed(p)
    BY <1>1, <1>2, <1>4, SocketsKept
<1>6. Waiting(p, b) /\ Replies(p, b) /\ (config.threads = 1 => Ended(p, conn, app))
    BY <1>1, <1>4, LinksKept
<1>7. \A q : PacketOK(n, b, q) => PacketOK(p, b, q)
    BY <1>4 DEF PacketOK
<1>8. Packets(p, b, app) /\ PacketOK(p, b, packet)
    BY <1>1, <1>2, <1>3, <1>4, <1>7 DEF Packets
<1> QED
    BY <1>2, <1>3, <1>4, <1>5, <1>6, <1>8 DEF Safe, p, packet

\* SendMessagesToClient: an answer goes to the link it answers, or that link is gone.
LEMMA ToClientKeeps ==
    ASSUME config \in Configs, NEW n, NEW b, Safe(n, b), Settled(n), NEW noticed \in BOOLEAN
    PROVE  LET m == SendMessagesToClient(n, noticed) IN Safe(m, b) /\ Settled(m) /\ m.starved = n.starved
<1> DEFINE m == SendMessagesToClient(n, noticed)
           packet == Head(n.sendCS)
           p == PopSendCSQueue(n)
           key == <<Client, packet.fd>>
           s == GetSocket(p, key)
<1>1. CASE n.sendCS = << >>
    <2>1. m = n
        BY <1>1 DEF SendMessagesToClient
    <2> QED
        BY <2>1
<1>2. CASE n.sendCS # << >>
    <2>1. m = IF ~HasSocket(p, key) THEN p
              ELSE IF packet.close THEN CloseSocket(p, s)
              ELSE Sends(p, s, {packet.link}, noticed, TRUE)
        BY <1>2 DEF SendMessagesToClient
    <2>2. /\ Safe(p, b) /\ p.sock = n.sock /\ p.starved = n.starved /\ p.servers = n.servers
          /\ packet \in PacketSet /\ PacketOK(p, b, packet)
        BY <1>2, PopCSKeeps
    <2> HIDE DEF p, packet, m
    <2>3. Settled(p)
        BY <2>2 DEF Settled, Calm
    <2>4. CASE ~HasSocket(p, key)
        <3>1. m = p
            BY <2>1, <2>4
        <3> QED
            BY <2>2, <2>3, <3>1 DEF m
    <2>5. CASE HasSocket(p, key)
        <3>1. p \in Nets /\ Holding(p) /\ Clients(p) /\ Routed(p)
            BY <2>2 DEF Safe
        <3>2. s \in Objects /\ BelongPort(s) = "outside" /\ p.sock[s].fd = packet.fd
            <4>1. key \in DOMAIN p.servers /\ s = p.servers[key] /\ key[1] = Client /\ key[2] = packet.fd
                BY <2>5 DEF HasSocket, GetSocket
            <4>2. s \in Objects
                BY <3>1, <4>1, NetTyped, MapElement
            <4> QED
                BY <3>1, <4>1, <4>2 DEF Clients
        <3> HIDE DEF s
        <3>3. CASE packet.close
            <4>1. m = CloseSocket(p, s)
                BY <2>1, <2>5, <3>3
            <4>2. Safe(m, b) /\ m.sock[s].status = "Closed" /\ Beside(p, m, s)
                BY <2>2, <3>2, <4>1, CloseKeeps
            <4>3. Settled(m)
                BY <2>3, <3>2, <4>2, SettledBeside DEF Calm, Beside
            <4> QED
                BY <2>2, <4>2, <4>3 DEF Beside, m
        <3>4. CASE ~packet.close
            <4> DEFINE take == {packet.link}
            <4>1. m = Sends(p, s, take, noticed, TRUE)
                BY <2>1, <2>5, <3>4
            <4>2. take \in SUBSET (Nat \cup {"regist", "data"})
                BY <2>2 DEF PacketSet
            <4>3. \A a \in take : a \in 1 .. Len(p.link) /\ (a = LinkOf(p, s) \/ ~Alive(p, b, a))
                BY <2>2, <3>2 DEF PacketOK, Alive, LinkOf
            <4>4. SafeBut(p, b, s)
                BY <2>2, SafeIsSafeBut
            <4> HIDE DEF take
            <4>5. Safe(m, b) /\ Settled(m) /\ m.starved = p.starved
                BY <2>3, <3>1, <3>2, <4>1, <4>2, <4>3, <4>4, SendsKeeps
            <4> QED
                BY <2>2, <4>5 DEF m
        <3> QED
            BY <3>3, <3>4
    <2> QED
        BY <2>4, <2>5
<1> QED
    BY <1>1, <1>2

\* No other object that connects has the peer of s.
Alone(n, s) == \A r \in Objects :
    r # s /\ BelongPort(r) = "none" /\ n.sock[r].fd # 0 => n.sock[r].peer # n.sock[s].peer

\* The entry of a server that is to be connected to.
LEMMA AddKeeps ==
    ASSUME config \in Configs, NEW n, NEW b, Safe(n, b), NEW s \in Objects, BelongPort(s) # "outside",
           n.sock[s].status = "Opened", ~n.replaced /\ ~n.stranger => Alone(n, s), NEW key, key = n.sock[s].peer
    PROVE  LET m == AddSocket(n, key, s)
           IN  /\ Safe(m, b) /\ m.sock = n.sock /\ Own(m, s) /\ Beside(n, m, s)
               /\ Same(n, m, {"servers", "ports", "types", "replaced"})
<1> DEFINE m == AddSocket(n, key, s)
           old == n.servers[key]
           plain == key \in DOMAIN n.servers => old = s
<1>1. /\ n \in Nets /\ Holding(n) /\ Waiting(n, b) /\ Quiet(n) /\ Clients(n)
      /\ Accounted(n) /\ Routed(n) /\ Packets(n, b, app) /\ Replies(n, b)
      /\ (config.threads = 1 => Ended(n, conn, app))
    BY DEF Safe
<1>k. key \in ServerKeys /\ key \in Keys
    BY <1>1, KeysDiffer DEF Clients
<1>2. /\ m \in Nets /\ m.servers = Set(n.servers, key, s)
      /\ Same(n, m, {"servers", "ports", "types", "replaced"})
      /\ plain => Same(n, m, {"servers"})
      /\ ~plain =>
            /\ m.replaced /\ old \in Objects
            /\ m.ports = DestroySocketObject(n, old).ports /\ m.types = DestroySocketObject(n, old).types
    BY <1>1, <1>k, AddEffect
<1>3. plain <=> (key \in DOMAIN n.servers => n.servers[key] = s)
    OBVIOUS
<1>4. ~plain => /\ key \in DOMAIN n.servers
                /\ m.ports = DestroySocketObject(n, n.servers[key]).ports
                /\ m.types = DestroySocketObject(n, n.servers[key]).types
    BY <1>2
<1> HIDE DEF m, plain, old
<1>5. /\ m.link = n.link /\ m.desc = n.desc /\ m.ptr = n.ptr /\ m.recvCS = n.recvCS /\ m.sendSS = n.sendSS
      /\ m.sendCS = n.sendCS /\ m.lost = n.lost /\ m.timers = n.timers /\ m.stranger = n.stranger
      /\ m.silent = n.silent /\ m.starved = n.starved /\ m.listening = n.listening /\ m.sock = n.sock
    BY <1>2 DEF Same, Fields
<1>6. plain => m.ports = n.ports /\ m.types = n.types /\ m.replaced = n.replaced
    BY <1>2 DEF Same, Fields
<1>7. DOMAIN m.servers = DOMAIN n.servers \cup {key} /\ m.servers[key] = s
    BY <1>1, <1>2, <1>k, SetServers, SMTT(30), Zenon
<1>8. \A k \in DOMAIN m.servers : k = key \/ (k \in DOMAIN n.servers /\ m.servers[k] = n.servers[k] /\ n.servers[k] \in Objects)
    BY <1>1, <1>2, <1>k, SetServersKeeps
<1>9. Others(n, m, s) /\ m.sock[s].peer \in ServerKeys
    BY <1>5, <1>k DEF Others
<1>10. Holding(m) /\ Quiet(m)
    BY <1>1, <1>2, <1>5, HoldingKept, QuietKept
<1>11. Clients(m)
    BY <1>1, <1>2, <1>k, <1>4, <1>6, <1>9, AddKeepsClients
<1>12. Waiting(m, b) /\ Packets(m, b, app) /\ Replies(m, b) /\ (config.threads = 1 => Ended(m, conn, app))
    BY <1>1, <1>5, LinksKept
<1>13. CASE ~plain
    <2>1. Accounted(m) /\ Routed(m)
        BY <1>2, <1>13 DEF Accounted, Routed
    <2> QED
        BY <1>2, <1>5, <1>9, <1>10, <1>11, <1>12, <1>13, <2>1 DEF Safe, Beside, Own, m
<1>14. CASE plain
    <2>1. \A r \in Objects : LinkOf(m, r) = LinkOf(n, r)
        BY <1>5 DEF LinkOf
    <2>2. n.sock[s].fd # 0
        BY <1>1 DEF Holding
    <2>3. Accounted(m)
        <3> SUFFICES ASSUME ~n.replaced PROVE Free(m) /\ Pointed(m) /\ Timed(m) /\ Entered(m)
            BY <1>6, <1>14 DEF Accounted
        <3>1. Free(n) /\ Pointed(n) /\ Timed(n) /\ Entered(n)
            BY <1>1 DEF Accounted
        <3>2. Free(m) /\ Pointed(m) /\ Timed(m)
            BY <1>1, <1>2, <1>5, <1>6, <1>14, <3>1, FreeKept, PointedKept, TimedKept
        <3>3. BelongPort(s) = "none"
            BY <3>1 DEF Timed
        <3>4. Entered(m)
            <4> SUFFICES ASSUME NEW k \in DOMAIN m.servers
                         PROVE  LET r == m.servers[k] IN
                                /\ m.sock[r].fd # 0 /\ m.sock[r].peer = k
                                /\ BelongPort(r) = "inside" =>
                                      m.sock[r].status = "Available" /\ m.link[LinkOf(m, r)].who = k
                BY Zenon DEF Entered
            <4>1. CASE k = key
                BY <1>5, <1>7, <2>2, <3>3, <4>1
            <4>2. CASE k # key
                <5> DEFINE r == n.servers[k]
                <5>1. k \in DOMAIN n.servers /\ m.servers[k] = r /\ r \in Objects
                    BY <1>8, <4>2
                <5>2. /\ n.sock[r].fd # 0 /\ n.sock[r].peer = k
                      /\ BelongPort(r) = "inside" => n.sock[r].status = "Available" /\ n.link[LinkOf(n, r)].who = k
                    BY <3>1, <5>1, Zenon DEF Entered
                <5> HIDE DEF r
                <5> QED
                    BY <1>5, <2>1, <5>1, <5>2
            <4> QED
                BY <4>1, <4>2
        <3> QED
            BY <3>2, <3>4
    <2>4. Routed(m)
        <3> SUFFICES ASSUME ~n.replaced, ~n.stranger PROVE Routed(m)
            BY <1>5, <1>6, <1>14 DEF Routed
        <3>1. ASSUME NEW r \in Objects, r # s, n.sock[r].peer \in DOMAIN n.servers, n.servers[n.sock[r].peer] = r
              PROVE  n.sock[r].peer \in DOMAIN m.servers /\ m.servers[n.sock[r].peer] = r
            <4>1. n.sock[r].peer # key
                BY <1>3, <1>14, <3>1
            <4> QED
                BY <1>7, <1>8, <3>1, <4>1
        <3>2. \A r \in Objects : m.sock[r].status \in {"Available", "Connecting"} =>
                  m.sock[r].peer \in DOMAIN m.servers /\ m.servers[m.sock[r].peer] = r
            <4> TAKE r \in Objects
            <4>1. CASE r = s
                BY <1>5, <4>1
            <4>2. CASE r # s
                BY <1>1, <1>5, <3>1, <4>2 DEF Routed
            <4> QED
                BY <4>1, <4>2
        <3>3. \A r \in Objects : BelongPort(r) = "none" /\ m.sock[r].fd # 0 /\ m.sock[r].peer \in DOMAIN m.servers =>
                  m.servers[m.sock[r].peer] = r
            <4> TAKE r \in Objects
            <4> HAVE BelongPort(r) = "none" /\ m.sock[r].fd # 0 /\ m.sock[r].peer \in DOMAIN m.servers
            <4>1. CASE n.sock[r].peer = key
                <5>1. r = s
                    BY <1>5, <4>1 DEF Alone
                <5> QED
                    BY <1>5, <1>7, <4>1, <5>1
            <4>2. CASE n.sock[r].peer # key
                <5>1. n.sock[r].peer \in DOMAIN n.servers /\ m.servers[n.sock[r].peer] = n.servers[n.sock[r].peer]
                    BY <1>5, <1>8, <4>2
                <5> QED
                    BY <1>1, <1>5, <5>1 DEF Routed
            <4> QED
                BY <4>1, <4>2
        <3>4. ASSUME NEW r \in Objects, BelongPort(r) = "none", m.sock[r].status = "Available"
              PROVE  \/ "regist" \in m.link[LinkOf(m, r)].got
                     \/ [to |-> m.sock[r].peer, kind |-> "regist"] \in ToSet(m.sendSS)
            BY <1>1, <1>5, <2>1, <3>4 DEF Routed
        <3> QED
            BY <3>2, <3>3, <3>4 DEF Routed
    <2>5. Own(m, s)
        BY <1>5, <1>7 DEF Own
    <2> QED
        BY <1>2, <1>5, <1>6, <1>9, <1>10, <1>11, <1>12, <1>14, <2>3, <2>4, <2>5 DEF Safe, Beside, m
<1> QED
    BY <1>13, <1>14

\* More links, and more descriptors for them: nothing ends by that.
LEMMA EndedGrows ==
    ASSUME NEW n \in Nets, NEW m \in Nets, NEW b, NEW c, NEW a, Len(n.link) <= Len(m.link),
           \A l \in 1 .. Len(n.link) : m.link[l].who = n.link[l].who,
           \A f \in Fds : n.desc[f] # 0 => m.desc[f] = n.desc[f],
           m.recvCS = n.recvCS, m.silent = n.silent, Packets(n, b, a), Ended(n, c, a)
    PROVE  Ended(m, c, a)
<1>1. \A fd \in Fds, l \in 1 .. Len(n.link), i \in Nat : Ending(n, fd, l, i) => Ending(m, fd, l, i)
    BY DEF Ending
<1>2. Len(n.link) \in Nat /\ Len(m.link) \in Nat /\ Len(n.recvCS) \in Nat
    BY NetTyped
<1>3. ASSUME NEW i \in 1 .. Len(n.recvCS), ~n.recvCS[i].close
      PROVE  Ending(m, n.recvCS[i].fd, n.recvCS[i].link, i)
    <2>1. n.recvCS[i] \in ToSet(n.recvCS)
        BY NetTyped, ElementAt
    <2>2. n.recvCS[i].fd \in Fds /\ n.recvCS[i].link \in 1 .. Len(n.link)
        BY <2>1 DEF Packets, PacketOK
    <2>3. Ending(n, n.recvCS[i].fd, n.recvCS[i].link, i)
        BY <1>3 DEF Ended
    <2> QED
        BY <1>1, <1>2, <2>2, <2>3
<1>4. ASSUME NEW t \in DOMAIN a, a[t].packet # NoPacket, ~a[t].packet.close
      PROVE  Ending(m, a[t].packet.fd, a[t].packet.link, 0)
    <2>1. a[t].packet.fd \in Fds /\ a[t].packet.link \in 1 .. Len(n.link)
        BY <1>4 DEF Packets, PacketOK
    <2>2. Ending(n, a[t].packet.fd, a[t].packet.link, 0)
        BY <1>4 DEF Ended
    <2> QED
        BY <1>1, <2>1, <2>2
<1>5. \A fd \in DOMAIN c :
          /\ fd \in Fds /\ c[fd] \in 1 .. Len(m.link) /\ m.link[c[fd]].who = <<Client, 0>>
          /\ Ending(m, fd, c[fd], 0) \/ \E t \in DOMAIN a : a[t].packet = CloseOf(fd, c[fd])
    <2> TAKE fd \in DOMAIN c
    <2>1. /\ fd \in Fds /\ c[fd] \in 1 .. Len(n.link) /\ n.link[c[fd]].who = <<Client, 0>>
          /\ Ending(n, fd, c[fd], 0) \/ \E t \in DOMAIN a : a[t].packet = CloseOf(fd, c[fd])
        BY DEF Ended
    <2>2. Ending(n, fd, c[fd], 0) => Ending(m, fd, c[fd], 0)
        BY <1>1, <2>1
    <2> QED
        BY <1>2, <2>1, <2>2
<1>6. /\ \A i \in 1 .. Len(m.recvCS) :
             LET packet == m.recvCS[i] IN packet.close \/ Ending(m, packet.fd, packet.link, i)
      /\ \A t \in DOMAIN a : LET packet == a[t].packet
                             IN  packet = NoPacket \/ packet.close \/ Ending(m, packet.fd, packet.link, 0)
    BY <1>3, <1>4
<1> QED
    BY <1>5, <1>6 DEF Ended

\* A descriptor for a link that is to be, an object for both.
Opening(n, s, peer, link) ==
    RegistEvent([OpenSocketAsClient(n, s, link) EXCEPT !.sock[s].peer = peer], NextFd(n), s)

LEMMA OpeningEffect ==
    ASSUME config \in Configs, NEW n \in Nets, NEW s \in Objects, FreeFds(n) # {}, NEW peer \in ServerKeys,
           NEW link \in LinkSet
    PROVE  LET m == Opening(n, s, peer, link)
               fd == NextFd(n)
           IN  /\ m \in Nets /\ Same(n, m, {"link", "desc", "sock", "ptr"})
               /\ m.link = Append(n.link, link)
               /\ Differs(n.desc, m.desc, fd, Len(n.link) + 1) /\ Differs(n.ptr, m.ptr, fd, s)
               /\ m.sock[s].fd = fd /\ m.sock[s].status = "Opened" /\ m.sock[s].peer = peer
               /\ Of(n, m, s, {"fd", "status", "peer"}) /\ Others(n, m, s)
<1> DEFINE fd == NextFd(n)
           record == [n.sock[s] EXCEPT !.fd = fd, !.status = "Opened", !.peer = peer]
           a == [n EXCEPT !.link = Append(@, link)]
           d == [a EXCEPT !.desc[fd] = Len(n.link) + 1]
           e == [d EXCEPT !.sock[s] = record]
           m == RegistEvent(e, fd, s)
<1>1. fd \in Fds /\ peer \in Keys
    BY NextFdIsFree, KeysDiffer
<1>2. n.sock[s] \in SocketSet /\ DOMAIN n.sock = Objects
    BY SocketTyped
<1> HIDE DEF fd
<1>3. record \in SocketSet /\ record.fd = fd /\ record.status = "Opened" /\ record.peer = peer
      /\ \A field \in SocketFields \ {"fd", "status", "peer"} : record[field] = n.sock[s][field]
    BY <1>1, <1>2 DEF SocketSet, SocketFields
<1>4. a \in Nets /\ a.link = Append(n.link, link) /\ Same(n, a, {"link"})
    <2>1. Append(n.link, link) \in LinkLists
        BY NetTyped, AppendElements DEF LinkLists
    <2> QED
        BY <2>1 DEF Nets, Same, Fields
<1>5. d \in Nets /\ Differs(n.desc, d.desc, fd, Len(n.link) + 1) /\ Same(a, d, {"desc"})
    <2>1. a.desc = n.desc /\ a.desc \in [Fds -> Nat] /\ Len(n.link) + 1 \in Nat
        BY <1>4, NetTyped DEF Same, Fields
    <2>2. [a.desc EXCEPT ![fd] = Len(n.link) + 1] \in DescMaps
        BY <1>1, <2>1 DEF DescMaps
    <2> QED
        BY <1>1, <1>4, <2>1, <2>2 DEF Nets, Same, Fields, Differs
<1> HIDE DEF a
<1>6. d.sock = n.sock
    BY <1>4, <1>5 DEF Same, Fields
<1> HIDE DEF d, record
<1>7. e \in Nets /\ e.sock[s] = record /\ Others(d, e, s) /\ Same(d, e, {"sock"})
    BY <1>3, <1>5, SocketEffect
<1> HIDE DEF e
<1>8. m \in Nets /\ Differs(e.ptr, m.ptr, fd, s) /\ Same(e, m, {"ptr"})
    BY <1>1, <1>7, RegistEffect
<1>9. m = Opening(n, s, peer, link)
    <2>h. Holds(a, s, fd, Len(n.link) + 1) = [d EXCEPT !.sock[s].fd = fd]
        BY DEF Holds, d
    <2>d. d \in Nets
        BY <1>5
    <2>e. [[d EXCEPT !.sock[s].fd = fd] EXCEPT !.sock[s].status = "Opened", !.sock[s].peer = peer] = [d EXCEPT !.sock[s] = record]
        BY <1>2, <1>6, <2>d, ZenonT(40) DEF record, Nets, SocketMaps, SocketSet
    <2>1. [Holds(a, s, fd, Len(n.link) + 1) EXCEPT !.sock[s].status = "Opened", !.sock[s].peer = peer] = e
        BY <2>h, <2>e DEF e
    <2>2. OpenSocketAsClient(n, s, link) = [Holds(a, s, fd, Len(n.link) + 1) EXCEPT !.sock[s].status = "Opened"]
        BY DEF OpenSocketAsClient, a, fd
    <2>3. [OpenSocketAsClient(n, s, link) EXCEPT !.sock[s].peer = peer] = e
        BY <2>1, <2>2
    <2> QED
        BY <2>3 DEF Opening, fd
<1> HIDE DEF m
<1>10. Same(n, m, {"link", "desc", "sock", "ptr"}) /\ m.link = Append(n.link, link)
       /\ m.desc = d.desc /\ m.sock = e.sock /\ e.ptr = n.ptr
    BY <1>4, <1>5, <1>7, <1>8 DEF Same, Fields
<1>11. Others(n, m, s) /\ Of(n, m, s, {"fd", "status", "peer"})
    BY <1>3, <1>6, <1>7, <1>10 DEF Others, Of
<1> QED
    BY <1>3, <1>5, <1>7, <1>8, <1>9, <1>10, <1>11 DEF fd

\* The object that is to connect to a server: a free one of its type, or, when an open
\* socket was replaced, the closed one that still has the entry.
Popped(n, p, s, peer) ==
    /\ p \in Nets /\ s \in Objects /\ Same(n, p, {"types"})
    /\ \/ n.replaced /\ p.types = n.types /\ BelongPort(s) # "outside"
       \/ /\ peer \notin DOMAIN n.servers /\ n.types[peer[1]] # << >> /\ s = Head(n.types[peer[1]])
          /\ Differs(n.types, p.types, peer[1], Tail(n.types[peer[1]]))

LEMMA PoppedFacts ==
    ASSUME config \in Configs, NEW n, NEW b, Safe(n, b), NEW p, NEW s, NEW peer \in Configured, Popped(n, p, s, peer)
    PROVE  /\ BelongPort(s) # "outside"
           /\ \A type \in TypeNames : ToSet(p.types[type]) \subseteq ToSet(n.types[type])
           /\ ~n.replaced =>
                 /\ BelongPort(s) = "none" /\ TypeOf(s) = peer[1] /\ peer \notin DOMAIN n.servers
                 /\ n.sock[s].fd = 0 /\ s \notin n.lost /\ ~n.sock[s].timer
                 /\ \A type \in TypeNames : /\ IsInjective(p.types[type])
                                            /\ ToSet(p.types[type]) = ToSet(n.types[type]) \ {s}
<1>1. n \in Nets /\ Clients(n) /\ Holding(n) /\ (~n.replaced => Free(n) /\ Timed(n))
    BY DEF Safe, Accounted
<1>2. peer[1] \in TypeNames
    BY ConfigFacts
<1>3. n.types \in [TypeNames -> Seq(Objects)]
    BY <1>1, NetTyped
<1>4. CASE n.replaced /\ p.types = n.types /\ BelongPort(s) # "outside"
    BY <1>4
<1>5. CASE /\ peer \notin DOMAIN n.servers /\ n.types[peer[1]] # << >> /\ s = Head(n.types[peer[1]])
           /\ Differs(n.types, p.types, peer[1], Tail(n.types[peer[1]]))
    <2> DEFINE q == n.types[peer[1]]
    <2>1. q \in Seq(Objects) /\ q # << >>
        BY <1>2, <1>3, <1>5
    <2>2. p.types[peer[1]] = Tail(q) /\ \A type \in TypeNames : type # peer[1] => p.types[type] = n.types[type]
        BY <1>2, <1>3, <1>5 DEF Differs
    <2>3. s \in ToSet(q)
        BY <1>5, <2>1, TailElements
    <2>4. ToSet(Tail(q)) \subseteq ToSet(q)
        BY <2>1, TailElements
    <2>5. BelongPort(s) = "none"
        BY <1>1, <1>2, <2>3 DEF Clients
    <2>6. ASSUME ~n.replaced
          PROVE  /\ TypeOf(s) = peer[1] /\ n.sock[s].fd = 0 /\ s \notin n.lost /\ ~n.sock[s].timer
                 /\ \A type \in TypeNames : /\ IsInjective(p.types[type])
                                            /\ ToSet(p.types[type]) = ToSet(n.types[type]) \ {s}
        <3>1. Free(n) /\ Timed(n) /\ s \in Objects
            BY <1>1, <2>6 DEF Popped
        <3>2. TypeOf(s) = peer[1]
            BY <1>2, <2>3, <3>1 DEF Free
        <3>4. s \in ToSet(HomeList(n, s))
            BY <2>3, <2>5, <3>2 DEF HomeList
        <3>5. n.sock[s].fd = 0 /\ s \notin n.lost
            BY <3>1, <3>4 DEF Free
        <3>6. ~n.sock[s].timer
            BY <1>1, <3>1, <3>5 DEF Timed, Holding
        <3>7. IsInjective(q)
            BY <1>2, <3>1 DEF Free
        <3>8. IsInjective(Tail(q)) /\ ToSet(Tail(q)) = ToSet(q) \ {s}
            BY <1>5, <2>1, <3>7, TailElements
        <3>9. ASSUME NEW type \in TypeNames, type # peer[1]
              PROVE  s \notin ToSet(n.types[type])
            BY <3>1, <3>2, <3>9 DEF Free
        <3>10. \A type \in TypeNames : IsInjective(n.types[type])
            BY <3>1 DEF Free
        <3> QED
            BY <2>2, <3>2, <3>5, <3>6, <3>8, <3>9, <3>10
    <2> QED
        BY <1>5, <2>2, <2>4, <2>5, <2>6
<1> QED
    BY <1>4, <1>5 DEF Popped

\* socket(2) fails: nothing leads to the object any more.
Lose(p, s) == [p EXCEPT !.lost = @ \cup {s}]

LEMMA LoseKeeps ==
    ASSUME config \in Configs, NEW n, NEW b, Safe(n, b), NEW p, NEW s, NEW peer \in Configured, Popped(n, p, s, peer)
    PROVE  LET m == Lose(p, s) IN Safe(m, b) /\ Beside(n, m, s) /\ m.sock = n.sock
<1> DEFINE m == Lose(p, s)
<1>1. /\ n \in Nets /\ Holding(n) /\ Waiting(n, b) /\ Quiet(n) /\ Clients(n)
      /\ Accounted(n) /\ Routed(n) /\ Packets(n, b, app) /\ Replies(n, b)
      /\ (config.threads = 1 => Ended(n, conn, app))
    BY DEF Safe
<1>2. p \in Nets /\ s \in Objects /\ Same(n, p, {"types"})
    BY DEF Popped
<1>3. m \in Nets /\ m.lost = p.lost \cup {s} /\ Same(p, m, {"lost"})
    <2>1. p.lost \cup {s} \in ObjectSets
        BY <1>2, NetTyped DEF ObjectSets
    <2> QED
        BY <1>2, <2>1 DEF Lose, Nets, Same, Fields
<1> HIDE DEF m
<1>4. /\ m.link = n.link /\ m.desc = n.desc /\ m.ptr = n.ptr /\ m.recvCS = n.recvCS /\ m.sendSS = n.sendSS
      /\ m.sendCS = n.sendCS /\ m.timers = n.timers /\ m.stranger = n.stranger /\ m.replaced = n.replaced
      /\ m.silent = n.silent /\ m.starved = n.starved /\ m.listening = n.listening /\ m.sock = n.sock
      /\ m.ports = n.ports /\ m.servers = n.servers /\ m.types = p.types /\ p.lost = n.lost
    BY <1>2, <1>3 DEF Same, Fields
<1>5. /\ BelongPort(s) # "outside"
      /\ \A type \in TypeNames : ToSet(p.types[type]) \subseteq ToSet(n.types[type])
      /\ ~n.replaced =>
            /\ BelongPort(s) = "none" /\ TypeOf(s) = peer[1] /\ peer \notin DOMAIN n.servers
            /\ n.sock[s].fd = 0 /\ s \notin n.lost /\ ~n.sock[s].timer
            /\ \A type \in TypeNames : /\ IsInjective(p.types[type])
                                       /\ ToSet(p.types[type]) = ToSet(n.types[type]) \ {s}
    BY PoppedFacts
<1>6. Holding(m) /\ Quiet(m)
    BY <1>1, <1>3, <1>4, HoldingKept, QuietKept
<1>7. Waiting(m, b) /\ Packets(m, b, app) /\ Replies(m, b) /\ (config.threads = 1 => Ended(m, conn, app))
    BY <1>1, <1>4, LinksKept
<1>8. Clients(m)
    BY <1>1, <1>4, <1>5 DEF Clients
<1>9. Accounted(m)
    <2> SUFFICES ASSUME ~n.replaced PROVE Free(m) /\ Pointed(m) /\ Timed(m) /\ Entered(m)
        BY <1>4 DEF Accounted
    <2>1. Free(n) /\ Pointed(n) /\ Timed(n) /\ Entered(n)
        BY <1>1 DEF Accounted
    <2>2. Pointed(m) /\ Timed(m) /\ Entered(m)
        BY <1>1, <1>3, <1>4, <2>1, PointedKept, TimedKept, EnteredKept
    <2>3. \A r \in Objects : r # s => (r \in ToSet(HomeList(m, r)) <=> r \in ToSet(HomeList(n, r)))
        BY <1>4, <1>5, ConfigFacts DEF HomeList
    <2>4. s \notin ToSet(HomeList(m, s))
        BY <1>2, <1>4, <1>5, ConfigFacts DEF HomeList
    <2>5. Free(m)
        BY <1>2, <1>3, <1>4, <1>5, <2>1, <2>3, <2>4 DEF Free
    <2> QED
        BY <2>2, <2>5
<1>10. Routed(m)
    BY <1>1, <1>3, <1>4, RoutedKept
<1> QED
    BY <1>1, <1>3, <1>4, <1>6, <1>7, <1>8, <1>9, <1>10 DEF Safe, Beside, Others, m

\* The object gets a descriptor, to connect with.
LEMMA OpeningKeeps ==
    ASSUME config \in Configs, NEW n, NEW b, Safe(n, b), NEW p, NEW s, NEW peer \in Configured, Popped(n, p, s, peer),
           Settled(n), FreeFds(p) # {}, NEW link \in LinkSet, link.who = peer, link.rd = << >>
    PROVE  LET m == Opening(p, s, peer, link)
           IN  /\ Safe(m, b) /\ Beside(n, m, s) /\ m.replaced = n.replaced
               /\ m.sock[s].status = "Opened" /\ m.sock[s].peer = peer /\ m.sock[s].timer = n.sock[s].timer
               /\ ~m.replaced /\ ~m.stranger => Alone(m, s)
<1> DEFINE m == Opening(p, s, peer, link)
           fd == NextFd(p)
           new == Len(n.link) + 1
<1>1. /\ n \in Nets /\ Holding(n) /\ Waiting(n, b) /\ Quiet(n) /\ Clients(n)
      /\ Accounted(n) /\ Routed(n) /\ Packets(n, b, app) /\ Replies(n, b)
      /\ (config.threads = 1 => Ended(n, conn, app))
    BY DEF Safe
<1>2. p \in Nets /\ s \in Objects /\ Same(n, p, {"types"})
    BY DEF Popped
<1>3. fd \in Fds /\ p.desc[fd] = 0
    BY NextFdIsFree
<1>4. peer \in ServerKeys /\ peer[1] # Client /\ peer # <<Client, 0>>
    BY ConfigFacts, KeysDiffer
<1>5. /\ m \in Nets /\ Same(p, m, {"link", "desc", "sock", "ptr"})
      /\ m.link = Append(p.link, link)
      /\ Differs(p.desc, m.desc, fd, Len(p.link) + 1) /\ Differs(p.ptr, m.ptr, fd, s)
      /\ m.sock[s].fd = fd /\ m.sock[s].status = "Opened" /\ m.sock[s].peer = peer
      /\ Of(p, m, s, {"fd", "status", "peer"}) /\ Others(p, m, s)
    BY <1>2, <1>4, OpeningEffect
<1> HIDE DEF m, fd
<1>6. /\ p.link = n.link /\ p.desc = n.desc /\ p.ptr = n.ptr /\ p.sock = n.sock
      /\ m.recvCS = n.recvCS /\ m.sendSS = n.sendSS
      /\ m.sendCS = n.sendCS /\ m.timers = n.timers /\ m.stranger = n.stranger /\ m.replaced = n.replaced
      /\ m.silent = n.silent /\ m.starved = n.starved /\ m.listening = n.listening
      /\ m.ports = n.ports /\ m.servers = n.servers /\ m.types = p.types /\ m.lost = n.lost
    BY <1>2, <1>5 DEF Same, Fields
<1>7. /\ BelongPort(s) # "outside"
      /\ \A type \in TypeNames : ToSet(p.types[type]) \subseteq ToSet(n.types[type])
      /\ ~n.replaced =>
            /\ BelongPort(s) = "none" /\ TypeOf(s) = peer[1] /\ peer \notin DOMAIN n.servers
            /\ n.sock[s].fd = 0 /\ s \notin n.lost /\ ~n.sock[s].timer
            /\ \A type \in TypeNames : /\ IsInjective(p.types[type])
                                       /\ ToSet(p.types[type]) = ToSet(n.types[type]) \ {s}
    <2>1. Safe(n, b) /\ Popped(n, p, s, peer) /\ config \in Configs /\ peer \in Configured
        OBVIOUS
    <2> QED
        BY ONLY <2>1, PoppedFacts
<1>8. /\ Len(n.link) \in Nat /\ Len(m.link) = new /\ m.link[new] = link
      /\ \A l \in 1 .. Len(n.link) : m.link[l] = n.link[l]
    <2>1. n.link \in Seq(LinkSet)
        BY <1>1, NetTyped
    <2> QED
        BY <1>5, <1>6, <2>1
<1> HIDE DEF new
<1>n. new = Len(n.link) + 1 /\ new \in Nat /\ new # 0
    BY <1>8 DEF new
<1>9. n.desc \in [Fds -> Nat] /\ n.ptr \in [Fds -> Objects \cup {0}]
    BY <1>1, NetTyped
<1>10. n.desc[fd] = 0 /\ m.desc[fd] = new /\ \A f \in Fds : f # fd => m.desc[f] = n.desc[f]
    BY <1>3, <1>5, <1>6, <1>9, <1>n DEF Differs
<1>11. m.ptr[fd] = s /\ \A f \in Fds : f # fd => m.ptr[f] = n.ptr[f]
    BY <1>3, <1>5, <1>6, <1>9 DEF Differs
<1>12. /\ \A r \in Objects : r # s => m.sock[r] = n.sock[r]
       /\ m.sock[s].timer = n.sock[s].timer /\ m.sock[s].buf = n.sock[s].buf
    BY <1>5, <1>6 DEF Others, Of, SocketFields
<1>13. \A r \in Objects : n.sock[r].fd # 0 => n.sock[r].fd \in Fds /\ n.desc[n.sock[r].fd] # 0 /\ n.sock[r].fd # fd
    BY <1>1, <1>10, SocketTyped DEF Holding
<1>14. \A r \in Objects : r # s /\ n.sock[r].fd # 0 => /\ LinkOf(m, r) = LinkOf(n, r) /\ LinkOf(n, r) \in 1 .. Len(n.link)
                                                       /\ m.link[LinkOf(m, r)] = n.link[LinkOf(n, r)]
    <2> TAKE r \in Objects
    <2> HAVE r # s /\ n.sock[r].fd # 0
    <2>1. LinkOf(m, r) = LinkOf(n, r)
        BY <1>10, <1>12, <1>13 DEF LinkOf
    <2>2. LinkOf(n, r) \in 1 .. Len(n.link)
        BY <1>1, LinkExists
    <2> QED
        BY <1>8, <2>1, <2>2
<1>15. LinkOf(m, s) = new
    BY <1>5, <1>10, SMTT(30), Zenon DEF LinkOf
<1>16. Holding(m)
    <2>1. \A r \in Objects : m.sock[r].status = "Closed" <=> m.sock[r].fd = 0
        <3>1. fd # 0
            BY <1>3 DEF Fds
        <3> QED
            BY <1>1, <1>5, <1>12, <3>1, SMTT(30), Zenon DEF Holding
    <2>2. ASSUME NEW r \in Objects, m.sock[r].fd # 0
          PROVE  /\ m.desc[m.sock[r].fd] # 0
                 /\ BelongPort(r) = "outside" <=> m.link[m.desc[m.sock[r].fd]].who = <<Client, 0>>
                 /\ BelongPort(r) = "none" => m.link[m.desc[m.sock[r].fd]].who \in Configured
        <3>1. CASE r = s
            BY <1>4, <1>5, <1>7, <1>8, <1>10, <1>n, <3>1, SMTT(30), Zenon
        <3>2. CASE r # s
            <4>1. m.sock[r] = n.sock[r] /\ n.sock[r].fd # 0
                BY <1>12, <2>2, <3>2
            <4>2. m.desc[m.sock[r].fd] = n.desc[n.sock[r].fd]
                BY <1>10, <1>13, <4>1
            <4>3. n.desc[n.sock[r].fd] \in 1 .. Len(n.link)
                BY <1>14, <3>2, <4>1 DEF LinkOf
            <4>4. m.link[m.desc[m.sock[r].fd]] = n.link[n.desc[n.sock[r].fd]]
                BY <1>8, <4>2, <4>3, SMTT(30), Zenon
            <4>5. /\ n.desc[n.sock[r].fd] # 0
                  /\ BelongPort(r) = "outside" <=> n.link[n.desc[n.sock[r].fd]].who = <<Client, 0>>
                  /\ BelongPort(r) = "none" => n.link[n.desc[n.sock[r].fd]].who \in Configured
                BY <1>1, <4>1, SMTT(30), Zenon DEF Holding
            <4> QED
                BY <4>2, <4>4, <4>5, Zenon
        <3> QED
            BY <3>1, <3>2, SMTT(30), Zenon
    <2>3. \A r, t \in Objects : m.sock[r].fd # 0 /\ m.sock[r].fd = m.sock[t].fd => r = t
        BY <1>1, <1>5, <1>12, <1>13 DEF Holding
    <2>4. \A f \in Fds : m.desc[f] <= Len(m.link)
        BY <1>1, <1>8, <1>9, <1>10, <1>n DEF Holding
    <2>5. \A f, g \in Fds : m.desc[f] # 0 /\ m.desc[f] = m.desc[g] => f = g
        BY <1>1, <1>8, <1>9, <1>10, <1>n DEF Holding
    <2> QED
        BY <2>1, <2>2, <2>3, <2>4, <2>5, SMTT(30), Zenon DEF Holding
<1>17. Waiting(m, b)
    <2>1. ASSUME NEW port \in PortNames, NEW l \in ToSet(b[port])
          PROVE  /\ l \in 1 .. Len(m.link)
                 /\ port = "outside" <=> m.link[l].who = <<Client, 0>>
                 /\ \A f \in Fds : m.desc[f] # l
        <3>1. /\ l \in 1 .. Len(n.link)
              /\ port = "outside" <=> n.link[l].who = <<Client, 0>>
              /\ \A f \in Fds : n.desc[f] # l
            BY <1>1, <2>1 DEF Waiting
        <3> QED
            BY <1>8, <1>10, <1>n, <3>1
    <2> QED
        BY <1>1, <2>1 DEF Waiting
<1>18. Quiet(m)
    <2>1. \A l \in 1 .. Len(m.link) : m.link[l].who \in Configured => m.link[l].rd = << >>
        BY <1>1, <1>8, <1>n DEF Quiet
    <2> QED
        BY <1>1, <1>12, <2>1 DEF Quiet
<1>19. Clients(m)
    <2>1. \A r \in Objects : BelongPort(r) = "outside" => m.sock[r] = n.sock[r]
        BY <1>7, <1>12
    <2>2. \A key \in DOMAIN n.servers : n.servers[key] \in Objects
        BY <1>1, NetTyped, MapElement
    <2>3. \A r \in ToSet(n.ports["outside"]) : r \in Objects /\ BelongPort(r) = "outside"
        <3>1. "outside" \in PortNames
            BY DEF PortNames
        <3>2. ToSet(n.ports["outside"]) \subseteq Objects
            BY <1>1, <3>1, NetTyped, ElementsTyped
        <3> QED
            BY <1>1, <3>1, <3>2 DEF Clients
    <2>4. \A r \in Objects : BelongPort(r) # "outside" =>
              /\ m.sock[r].peer \in ServerKeys \cup {Nobody}
              /\ m.sock[r].status \in {"Opened", "Connecting"} => m.sock[r].peer \in ServerKeys
        BY <1>1, <1>4, <1>5, <1>12 DEF Clients
    <2>5. \A key \in DOMAIN m.servers : key[1] = Client =>
              BelongPort(m.servers[key]) = "outside" /\ m.sock[m.servers[key]].fd = key[2]
        BY <1>1, <1>6, <2>1, <2>2 DEF Clients
    <2>6. \A r \in ToSet(m.ports["outside"]) : m.sock[r].fd = 0
        BY <1>1, <1>6, <2>1, <2>3 DEF Clients
    <2>7. /\ \A key \in DOMAIN m.servers : key[1] # Client => BelongPort(m.servers[key]) # "outside"
          /\ \A r \in Objects : BelongPort(r) = "outside" /\ m.sock[r].fd # 0 =>
                /\ m.sock[r].status = "Connected" /\ m.sock[r].peer = <<Client, m.sock[r].fd>>
                /\ <<Client, m.sock[r].fd>> \in DOMAIN m.servers /\ m.servers[<<Client, m.sock[r].fd>>] = r
          /\ \A port \in PortNames : \A r \in ToSet(m.ports[port]) : BelongPort(r) = port
          /\ IsInjective(m.ports["outside"])
        BY <1>1, <1>6, <2>1 DEF Clients
    <2>8. \A type \in TypeNames : \A r \in ToSet(m.types[type]) : BelongPort(r) = "none"
        BY <1>1, <1>6, <1>7 DEF Clients
    <2> QED
        BY <2>4, <2>5, <2>6, <2>7, <2>8 DEF Clients
<1>20. Packets(m, b, app)
    <2>1. ASSUME NEW packet, PacketOK(n, b, packet)
          PROVE  PacketOK(m, b, packet)
        BY <1>8, <1>10, <1>n, <2>1 DEF PacketOK
    <2> QED
        BY <1>1, <1>6, <2>1 DEF Packets
<1>21. Replies(m, b)
    <2>1. ASSUME NEW l \in 1 .. Len(m.link), m.link[l].who = <<Client, 0>>, NEW answered \in m.link[l].got
          PROVE  answered \in 1 .. Len(m.link) /\ (answered = l \/ ~Alive(m, b, answered))
        <3>1. l \in 1 .. Len(n.link) /\ m.link[l] = n.link[l]
            BY <1>4, <1>8, <1>n, <2>1
        <3>2. answered \in 1 .. Len(n.link) /\ (answered = l \/ ~Alive(n, b, answered))
            BY <1>1, <2>1, <3>1 DEF Replies
        <3>3. answered # new
            BY <1>8, <1>n, <3>2
        <3> QED
            BY <1>8, <1>10, <1>n, <3>2, <3>3 DEF Alive
    <2> QED
        BY <2>1 DEF Replies
<1>22. config.threads = 1 => Ended(m, conn, app)
    <2>1. Len(n.link) <= Len(m.link) /\ \A l \in 1 .. Len(n.link) : m.link[l].who = n.link[l].who
        BY <1>8, <1>n
    <2>2. \A f \in Fds : n.desc[f] # 0 => m.desc[f] = n.desc[f]
        BY <1>10
    <2> QED
        BY <1>1, <1>5, <1>6, <2>1, <2>2, EndedGrows
<1>23. Accounted(m)
    <2> SUFFICES ASSUME ~n.replaced PROVE Free(m) /\ Pointed(m) /\ Timed(m) /\ Entered(m)
        BY <1>6 DEF Accounted
    <2>1. Free(n) /\ Pointed(n) /\ Timed(n) /\ Entered(n)
        BY <1>1 DEF Accounted
    <2>2. Free(m)
        <3>1. \A r \in Objects : r # s => (r \in ToSet(HomeList(m, r)) <=> r \in ToSet(HomeList(n, r)))
            BY <1>6, <1>7, ConfigFacts DEF HomeList
        <3>2. s \notin ToSet(HomeList(m, s))
            BY <1>2, <1>6, <1>7, ConfigFacts DEF HomeList
        <3>3. m.sock[s].fd # 0
            BY <1>3, <1>5 DEF Fds
        <3>4. m.lost \subseteq Objects
            BY <1>5, NetTyped
        <3>5. \A port \in PortNames : IsInjective(m.ports[port])
            BY <1>6, <2>1 DEF Free
        <3>6. \A type \in TypeNames : /\ IsInjective(m.types[type])
                                      /\ \A r \in ToSet(m.types[type]) : TypeOf(r) = type
            BY <1>6, <1>7, <2>1 DEF Free
        <3>7. \A r \in Objects : r \in ToSet(HomeList(m, r)) => m.sock[r].fd = 0 /\ r \notin m.lost
            BY <1>6, <1>12, <2>1, <3>1, <3>2 DEF Free
        <3>8. \A r \in Objects : m.sock[r].fd # 0 \/ r \in m.lost \/ r \in ToSet(HomeList(m, r))
            BY <1>6, <1>12, <2>1, <3>1, <3>3 DEF Free
        <3>9. \A r \in m.lost : m.sock[r].fd = 0
            BY <1>6, <1>7, <1>12, <2>1, <3>4 DEF Free
        <3> QED
            BY <3>5, <3>6, <3>7, <3>8, <3>9 DEF Free
    <2>3. Pointed(m)
        <3>1. s # 0
            BY <1>2, ConfigFacts
        <3> SUFFICES ASSUME NEW f \in Fds
                     PROVE  /\ m.desc[f] # 0 => m.ptr[f] # 0 /\ m.sock[m.ptr[f]].fd = f
                            /\ m.ptr[f] # 0 => m.desc[f] # 0
            BY DEF Pointed
        <3>2. CASE f = fd
            BY <1>5, <1>10, <1>11, <1>n, <3>1, <3>2
        <3>3. CASE f # fd
            <4>1. m.desc[f] = n.desc[f] /\ m.ptr[f] = n.ptr[f]
                BY <1>10, <1>11, <3>3
            <4>2. /\ n.desc[f] # 0 => n.ptr[f] # 0 /\ n.sock[n.ptr[f]].fd = f
                  /\ n.ptr[f] # 0 => n.desc[f] # 0
                BY <2>1 DEF Pointed
            <4>3. f # 0
                BY DEF Fds
            <4> QED
                BY <1>7, <1>9, <1>12, <4>1, <4>2, <4>3
        <3> QED
            BY <3>2, <3>3
    <2>4. Timed(m)
        <3>1. \A r \in Objects : m.sock[r].timer = n.sock[r].timer
            BY <1>12
        <3>2. \A r \in Objects : BelongPort(r) = "none" /\ m.sock[r].fd # 0 =>
                  m.sock[r].peer[1] = TypeOf(r) /\ m.link[LinkOf(m, r)].who = m.sock[r].peer
            <4> TAKE r \in Objects
            <4>1. CASE r = s
                BY <1>5, <1>7, <1>8, <1>15, <4>1
            <4>2. CASE r # s
                BY <1>12, <1>14, <2>1, <4>2 DEF Timed
            <4> QED
                BY <4>1, <4>2
        <3> QED
            BY <1>5, <1>6, <1>7, <1>12, <2>1, <3>1, <3>2 DEF Timed
    <2>5. Entered(m)
        <3> SUFFICES ASSUME NEW k \in DOMAIN m.servers
                     PROVE  LET r == m.servers[k] IN
                            /\ m.sock[r].fd # 0 /\ m.sock[r].peer = k
                            /\ BelongPort(r) = "inside" =>
                                  m.sock[r].status = "Available" /\ m.link[LinkOf(m, r)].who = k
            BY Zenon DEF Entered
        <3> DEFINE r == n.servers[k]
        <3>1. k \in DOMAIN n.servers /\ m.servers[k] = r
            BY <1>6
        <3>2. r \in Objects
            BY <1>1, <3>1, NetTyped, MapElement
        <3>3. /\ n.sock[r].fd # 0 /\ n.sock[r].peer = k
              /\ BelongPort(r) = "inside" => n.sock[r].status = "Available" /\ n.link[LinkOf(n, r)].who = k
            BY <2>1, <3>1, Zenon DEF Entered
        <3> HIDE DEF r
        <3>4. r # s
            BY <1>7, <3>3
        <3> QED
            BY <1>12, <1>14, <3>1, <3>2, <3>3, <3>4
    <2> QED
        BY <2>2, <2>3, <2>4, <2>5
<1>24. Routed(m)
    <2> SUFFICES ASSUME ~n.replaced, ~n.stranger PROVE Routed(m)
        BY <1>6 DEF Routed
    <2>1. \A r \in Objects : m.sock[r].status \in {"Available", "Connecting"} =>
              m.sock[r].peer \in DOMAIN m.servers /\ m.servers[m.sock[r].peer] = r
        BY <1>1, <1>5, <1>6, <1>12 DEF Routed
    <2>2. \A r \in Objects : BelongPort(r) = "none" /\ m.sock[r].fd # 0 /\ m.sock[r].peer \in DOMAIN m.servers =>
              m.servers[m.sock[r].peer] = r
        BY <1>1, <1>5, <1>6, <1>7, <1>12 DEF Routed
    <2>3. ASSUME NEW r \in Objects, BelongPort(r) = "none", m.sock[r].status = "Available"
          PROVE  \/ "regist" \in m.link[LinkOf(m, r)].got
                 \/ [to |-> m.sock[r].peer, kind |-> "regist"] \in ToSet(m.sendSS)
        <3>1. r # s
            BY <1>5, <2>3
        <3>2. m.sock[r] = n.sock[r]
            BY <1>12, <3>1
        <3>3. n.sock[r].fd # 0
            BY <1>1, <2>3, <3>2 DEF Holding
        <3>4. m.link[LinkOf(m, r)] = n.link[LinkOf(n, r)]
            BY <1>14, <3>1, <3>3
        <3> QED
            BY <1>1, <1>6, <2>3, <3>2, <3>4 DEF Routed
    <2> QED
        BY <2>1, <2>2, <2>3 DEF Routed
<1>25. ASSUME ~m.replaced, ~m.stranger PROVE Alone(m, s)
    <2> SUFFICES ASSUME NEW r \in Objects, r # s, BelongPort(r) = "none", m.sock[r].fd # 0
                 PROVE  m.sock[r].peer # m.sock[s].peer
        BY DEF Alone
    <2>1. m.sock[r] = n.sock[r] /\ n.sock[r] \in SocketSet
        BY <1>1, <1>12, SocketTyped, SMTT(30), Zenon
    <2>2. n.sock[r].status \in {"Available", "Connecting"}
        BY <1>1, <2>1 DEF Settled, Calm, Holding, SocketSet
    <2>3. n.sock[r].peer \in DOMAIN n.servers /\ peer \notin DOMAIN n.servers
        BY <1>1, <1>6, <1>7, <1>25, <2>2 DEF Routed
    <2> QED
        BY <1>5, <2>1, <2>3
<1> QED
    BY <1>5, <1>6, <1>12, <1>16, <1>17, <1>18, <1>19, <1>20, <1>21, <1>22, <1>23, <1>24, <1>25 DEF Safe, Beside, Others, m

\* The timer, the entry, the attempt: connect(2) with any outcome.
LEMMA ConnectKeeps ==
    ASSUME config \in Configs, NEW n, NEW b, Safe(n, b), NEW s \in Objects, BelongPort(s) # "outside",
           n.sock[s].status = "Opened", ~n.replaced => ~n.sock[s].timer,
           ~n.replaced /\ ~n.stranger => Alone(n, s), NEW o \in {"syn", "up"} \cup Fails
    PROVE  LET m == Connect(n, s, o)
           IN  Safe(m, b) /\ m.sock[s].status \in {"Closed", "Connecting", "Available"} /\ Beside(n, m, s)
<1> DEFINE m == Connect(n, s, o)
           timed == CreateSocketTimer(n, s)
           routed == AddSocket(timed, n.sock[s].peer, s)
<1>1. n \in Nets
    BY DEF Safe
<1>2. Safe(timed, b) /\ timed.sock[s].status = "Opened"
    BY StartTimerKeeps
<1>3. Of(n, timed, s, {"timer"}) /\ Others(n, timed, s) /\ Same(n, timed, {"timers", "sock"})
    BY <1>1, CreateTimerEffect
<1> HIDE DEF timed
<1>4. timed.sock[s].peer = n.sock[s].peer /\ Beside(n, timed, s)
    BY <1>3 DEF Of, SocketFields, Beside, Same, Fields
<1>a. ~timed.replaced /\ ~timed.stranger => Alone(timed, s)
    <2>1. timed.replaced = n.replaced /\ timed.stranger = n.stranger
        BY <1>3 DEF Same, Fields
    <2>2. \A r \in Objects : r # s => timed.sock[r] = n.sock[r]
        BY <1>3 DEF Others
    <2> QED
        BY <1>4, <2>1, <2>2 DEF Alone
<1>5. /\ Safe(routed, b) /\ routed.sock = timed.sock /\ Own(routed, s) /\ Beside(timed, routed, s)
      /\ Same(timed, routed, {"servers", "ports", "types", "replaced"})
    BY <1>2, <1>4, <1>a, AddKeeps
<1> HIDE DEF routed
<1>6. Beside(n, routed, s) /\ routed.sock[s].status = "Opened"
    BY <1>2, <1>4, <1>5, BesideTransitive
<1>7. CASE o = "noTimer"
    <2>1. m = CloseSocket(n, s)
        BY <1>7 DEF Connect
    <2> QED
        BY <2>1, CloseKeeps
<1>8. CASE o = "refused"
    <2>1. m = CloseSocket(timed, s)
        BY <1>8 DEF Connect, timed
    <2>2. Safe(CloseSocket(timed, s), b) /\ CloseSocket(timed, s).sock[s].status = "Closed" /\ Beside(timed, CloseSocket(timed, s), s)
        BY <1>2, CloseKeeps
    <2>3. Beside(n, CloseSocket(timed, s), s)
        BY <1>4, <2>2, BesideTransitive
    <2> QED
        BY <2>1, <2>2, <2>3
<1>9. CASE o = "syn"
    <2> DEFINE k == WithStatus(routed, s, "Connecting")
    <2>1. m = k
        BY <1>9 DEF Connect, timed, routed, WithStatus
    <2>2. /\ Safe(k, b) /\ k.sock[s].status = "Connecting" /\ Of(routed, k, s, {"status"}) /\ Others(routed, k, s)
          /\ Same(routed, k, {"sock"})
        <3>1. "Connecting" \in {"Connecting", "Connected"} /\ "Connecting" # "Connected"
            OBVIOUS
        <3>2. ~routed.replaced /\ ~routed.stranger =>
                  routed.sock[s].peer \in DOMAIN routed.servers /\ routed.servers[routed.sock[s].peer] = s
            BY <1>5 DEF Own
        <3> QED
            BY <1>5, <1>6, <3>1, <3>2, StatusKeeps
    <2> HIDE DEF k
    <2>3. Beside(routed, k, s)
        BY <2>2 DEF Beside, Same, Fields
    <2> QED
        BY <1>6, <2>1, <2>2, <2>3, BesideTransitive
<1>10. CASE o \notin {"noTimer", "refused", "syn"}
    <2> DEFINE ok == (o = "up")
               k == Connected(routed, s, ok)
    <2>1. m = k
        BY <1>10 DEF Connect, timed, routed
    <2>2. Safe(k, b) /\ k.sock[s].status \in {"Closed", "Available"} /\ Beside(routed, k, s)
        <3>1. ok \in BOOLEAN
            OBVIOUS
        <3> HIDE DEF ok
        <3> QED
            BY <1>5, <1>6, <3>1, ConnectedKeeps
    <2> HIDE DEF k
    <2>3. Beside(n, k, s)
        BY <1>6, <2>2, BesideTransitive
    <2> QED
        BY <2>1, <2>2, <2>3
<1> QED
    BY <1>7, <1>8, <1>9, <1>10

LEMMA ConnectPeerNodeKeeps ==
    ASSUME config \in Configs, NEW n, NEW b, Safe(n, b), NEW p, NEW s, NEW peer \in Configured, Popped(n, p, s, peer),
           Settled(n), NEW o \in {"syn", "up"} \cup Fails
    PROVE  LET m == ConnectPeerNode(p, s, peer, o) IN Safe(m, b) /\ Settled(m) /\ Beside(n, m, s)
<1> DEFINE m == ConnectPeerNode(p, s, peer, o)
           link == NewLink(peer, IF o = "up" THEN "up" ELSE "syn")
           opened == Opening(p, s, peer, link)
<1>1. s \in Objects /\ BelongPort(s) # "outside" /\ (~n.replaced => ~n.sock[s].timer)
    <2>1. s \in Objects
        BY DEF Popped
    <2> QED
        BY <2>1, PoppedFacts
<1>2. CASE FreeFds(p) = {}
    <2>1. m = Lose(p, s)
        BY <1>2 DEF ConnectPeerNode, Lose
    <2> DEFINE k == Lose(p, s)
    <2>2. Safe(k, b) /\ Beside(n, k, s) /\ k.sock = n.sock
        BY LoseKeeps
    <2> HIDE DEF k
    <2>3. Settled(k)
        BY <2>2 DEF Settled, Calm
    <2> QED
        BY <2>1, <2>2, <2>3 DEF k
<1>3. CASE FreeFds(p) # {}
    <2>1. link \in LinkSet /\ link.who = peer /\ link.rd = << >>
        <3>1. peer \in ServerKeys
            BY ConfigFacts
        <3> QED
            BY <3>1 DEF NewLink, LinkSet
    <2>2. m = Connect(opened, s, o)
        BY <1>3 DEF ConnectPeerNode, Opening
    <2> HIDE DEF link
    <2>3. /\ Safe(opened, b) /\ Beside(n, opened, s) /\ opened.replaced = n.replaced
          /\ opened.sock[s].status = "Opened" /\ opened.sock[s].peer = peer /\ opened.sock[s].timer = n.sock[s].timer
          /\ ~opened.replaced /\ ~opened.stranger => Alone(opened, s)
        BY <1>3, <2>1, OpeningKeeps
    <2> HIDE DEF opened
    <2> DEFINE k == Connect(opened, s, o)
    <2>4. Safe(k, b) /\ k.sock[s].status \in {"Closed", "Connecting", "Available"} /\ Beside(opened, k, s)
        BY <1>1, <2>3, ConnectKeeps
    <2> HIDE DEF k
    <2>5. Beside(n, k, s)
        BY <2>3, <2>4, BesideTransitive
    <2>6. Settled(k)
        <3>1. Others(n, k, s) /\ Calm(k, s)
            BY <2>4, <2>5 DEF Beside, Calm
        <3> QED
            BY <1>1, <3>1, SettledBeside
    <2> QED
        BY <2>2, <2>4, <2>5, <2>6 DEF k
<1> QED
    BY <1>2, <1>3

LEMMA ConnectPeerKeeps ==
    ASSUME config \in Configs, NEW n, NEW b, Safe(n, b), NEW peer \in Configured, Settled(n),
           NEW o \in {"syn", "up"} \cup Fails
    PROVE  LET m == ConnectPeer(n, peer, o) IN Safe(m, b) /\ Settled(m) /\ m.starved = n.starved
<1> DEFINE m == ConnectPeer(n, peer, o)
<1>1. n \in Nets /\ Clients(n) /\ (~n.replaced => Entered(n))
    BY DEF Safe, Accounted
<1>2. peer[1] \in TypeNames /\ peer[1] # Client
    BY ConfigFacts, KeysDiffer
<1>3. CASE peer \in DOMAIN n.servers
    <2> DEFINE s == n.servers[peer]
    <2>1. s \in Objects /\ BelongPort(s) # "outside"
        BY <1>1, <1>2, <1>3, NetTyped, MapElement DEF Clients
    <2>2. CASE n.sock[s].status # "Closed"
        <3>1. m = n
            BY <1>3, <2>2 DEF ConnectPeer, HasSocket, GetSocket
        <3> QED
            BY <3>1
    <2>3. CASE n.sock[s].status = "Closed"
        <3>1. n.sock[s].fd = 0
            BY <2>1, <2>3 DEF Safe, Holding
        <3>2. n.replaced
            BY <1>1, <1>3, <3>1 DEF Entered
        <3>3. Popped(n, n, s, peer)
            BY <1>1, <2>1, <3>2 DEF Popped, Same
        <3>4. m = ConnectPeerNode(n, s, peer, o)
            BY <1>3, <2>3 DEF ConnectPeer, HasSocket, GetSocket
        <3> HIDE DEF s
        <3>5. Safe(ConnectPeerNode(n, s, peer, o), b) /\ Settled(ConnectPeerNode(n, s, peer, o))
              /\ Beside(n, ConnectPeerNode(n, s, peer, o), s)
            BY <3>3, ConnectPeerNodeKeeps
        <3> QED
            BY <3>4, <3>5 DEF Beside
    <2> QED
        BY <2>2, <2>3
<1>4. CASE peer \notin DOMAIN n.servers /\ n.types[peer[1]] = << >>
    BY <1>4 DEF ConnectPeer, HasSocket
<1>5. CASE peer \notin DOMAIN n.servers /\ n.types[peer[1]] # << >>
    <2> DEFINE s == Head(n.types[peer[1]])
               p == CreateSocketOfType(n, peer[1])
    <2>1. p \in Nets /\ Differs(n.types, p.types, peer[1], Tail(n.types[peer[1]])) /\ Same(n, p, {"types"})
        BY <1>1, <1>2, <1>5, CreateOfTypeEffect
    <2>2. s \in Objects
        BY <1>1, <1>2, <1>5, NetTyped, TailElements
    <2>3. m = ConnectPeerNode(p, s, peer, o)
        BY <1>5 DEF ConnectPeer, HasSocket
    <2> HIDE DEF p
    <2>4. Popped(n, p, s, peer)
        BY <1>5, <2>1, <2>2 DEF Popped
    <2> HIDE DEF s
    <2>5. Safe(ConnectPeerNode(p, s, peer, o), b) /\ Settled(ConnectPeerNode(p, s, peer, o))
          /\ Beside(n, ConnectPeerNode(p, s, peer, o), s)
        BY <2>4, ConnectPeerNodeKeeps
    <2> QED
        BY <2>3, <2>5 DEF Beside
<1> QED
    BY <1>3, <1>4, <1>5

\* Steps one after the other: they have results, and what each step's result is in.
IsChain(f, N, x, F) == f = [i \in 0 .. N |-> IF i = 0 THEN x ELSE F[i][f[i - 1]]]
Leads(N, D, F) == \A i \in 1 .. N : \A y \in D[i - 1] : F[i][y] \in D[i]

LEMMA ChainExists ==
    ASSUME NEW N \in Nat, NEW D, NEW F, NEW x, x \in D[0],
           Leads(N, D, F)
    PROVE  \E f : IsChain(f, N, x, F)
<1> DEFINE Is(f, k) == f = [i \in 0 .. k |-> IF i = 0 THEN x ELSE F[i][f[i - 1]]]
           bad == {k \in 0 .. N : ~ \E f : Is(f, k)}
<1>1. SUFFICES bad = {}
    <2>1. \E f : Is(f, N)
        BY <1>1
    <2> QED
        BY <2>1 DEF IsChain
<1>2. ASSUME bad # {} PROVE FALSE
    <2>0. bad \subseteq Nat
        OBVIOUS
    <2>1. PICK k \in bad : \A j \in bad : k <= j
        <3> HIDE DEF bad
        <3> QED
            BY <1>2, <2>0, SmallestExists
    <2>2. CASE k = 0
        <3> DEFINE f == [i \in 0 .. 0 |-> x]
        <3>1. Is(f, 0)
            OBVIOUS
        <3> QED
            BY <2>1, <2>2, <3>1
    <2>3. CASE k # 0
        <3>1. k - 1 \in 0 .. N /\ k - 1 \notin bad
            BY <2>1, <2>3
        <3>2. PICK g : Is(g, k - 1)
            BY <3>1
        <3> DEFINE f == [i \in 0 .. k |-> IF i < k THEN g[i] ELSE F[k][g[k - 1]]]
        <3>3. \A i \in 0 .. k - 1 : g[i] = IF i = 0 THEN x ELSE F[i][g[i - 1]]
            BY <3>2
        <3>4. \A i \in 0 .. k : f[i] = IF i = 0 THEN x ELSE F[i][f[i - 1]]
            BY <2>1, <2>3, <3>3
        <3>5. Is(f, k)
            BY <3>4
        <3> QED
            BY <2>1, <3>5
    <2> QED
        BY <2>2, <2>3
<1> QED
    BY <1>2

LEMMA ChainValues ==
    ASSUME NEW N \in Nat, NEW D, NEW F, NEW x, x \in D[0],
           Leads(N, D, F), NEW f, IsChain(f, N, x, F)
    PROVE  \A i \in 0 .. N : f[i] \in D[i]
<1> DEFINE bad == {k \in 0 .. N : f[k] \notin D[k]}
<1>1. ASSUME bad # {} PROVE FALSE
    <2>0. bad \subseteq Nat
        OBVIOUS
    <2>1. PICK k \in bad : \A j \in bad : k <= j
        <3> HIDE DEF bad
        <3> QED
            BY <1>1, <2>0, SmallestExists
    <2>2. k # 0
        BY <2>1 DEF IsChain
    <2>3. k - 1 \in 0 .. N /\ k - 1 \notin bad
        BY <2>1, <2>2
    <2>4. f[k - 1] \in D[k - 1] /\ k \in 1 .. N
        BY <2>1, <2>2, <2>3
    <2>5. f[k] = F[k][f[k - 1]]
        BY <2>1, <2>2 DEF IsChain
    <2> QED
        BY <2>1, <2>4, <2>5 DEF Leads
<1> QED
    BY <1>1

\* The configured servers, one after the other.
LEMMA ConnectPeersKeep ==
    ASSUME config \in Configs, NEW n, NEW b, Safe(n, b), Settled(n), NEW o \in {"syn", "up"} \cup Fails
    PROVE  LET m == ConnectPeers(n, o) IN Safe(m, b) /\ Settled(m) /\ m.starved = n.starved
<1> DEFINE N == Len(config.peers)
           good == {y \in Nets : Safe(y, b) /\ Settled(y) /\ y.starved = n.starved}
           D == [i \in 0 .. N |-> good]
           F == [i \in 1 .. N |-> [y \in good |-> ConnectPeer(y, config.peers[i], o)]]
           after == CHOOSE f : f = [i \in 0 .. N |-> IF i = 0 THEN n ELSE ConnectPeer(f[i - 1], config.peers[i], o)]
<1>1. ConnectPeers(n, o) = after[N]
    BY DEF ConnectPeers
<1>2. N \in Nat /\ \A i \in 1 .. N : config.peers[i] \in Configured
    BY ConfigFacts DEF Configured
<1>3. n \in good
    BY DEF Safe
<1>4. ASSUME NEW i \in 1 .. N, NEW y \in good
      PROVE  ConnectPeer(y, config.peers[i], o) \in good
    <2> DEFINE m == ConnectPeer(y, config.peers[i], o)
    <2>1. Safe(m, b) /\ Settled(m) /\ m.starved = y.starved
        BY <1>2, ConnectPeerKeeps
    <2> HIDE DEF m
    <2> QED
        BY <2>1 DEF Safe, m
<1> HIDE DEF N, good
<1>5. /\ n \in D[0]
      /\ Leads(N, D, F)
    BY <1>2, <1>3, <1>4 DEF Leads
<1>6. \E f : IsChain(f, N, n, F)
    <2> HIDE DEF D, F
    <2> QED
        BY <1>2, <1>5, ChainExists
<1>7. \E f : f = [i \in 0 .. N |-> IF i = 0 THEN n ELSE ConnectPeer(f[i - 1], config.peers[i], o)]
    <2>0. PICK f : IsChain(f, N, n, F)
        BY <1>6
    <2>1. f = [i \in 0 .. N |-> IF i = 0 THEN n ELSE F[i][f[i - 1]]]
        BY <2>0 DEF IsChain
    <2>2. \A i \in 0 .. N : f[i] \in D[i]
        <3> HIDE DEF D, F
        <3> QED
            BY <1>2, <1>5, <2>0, ChainValues
    <2>3. \A i \in 1 .. N : F[i][f[i - 1]] = ConnectPeer(f[i - 1], config.peers[i], o)
        BY <1>2, <2>2
    <2> HIDE DEF F, D
    <2>4. f = [i \in 0 .. N |-> IF i = 0 THEN n ELSE ConnectPeer(f[i - 1], config.peers[i], o)]
        BY <1>2, <2>1, <2>3
    <2> QED
        BY <2>4
<1>8. after = [i \in 0 .. N |-> IF i = 0 THEN n ELSE ConnectPeer(after[i - 1], config.peers[i], o)]
    BY <1>7
<1>9. after[N] \in good
    <2> HIDE DEF after
    <2> DEFINE bad == {k \in 0 .. N : after[k] \notin good}
    <2>1. ASSUME bad # {} PROVE FALSE
        <3>0. bad \subseteq Nat
            BY <1>2
        <3>1. PICK k \in bad : \A j \in bad : k <= j
            <4> HIDE DEF bad
            <4> QED
                BY <2>1, <3>0, SmallestExists
        <3>2. after[k] = IF k = 0 THEN n ELSE ConnectPeer(after[k - 1], config.peers[k], o)
            BY <1>8, <3>1
        <3>3. k # 0
            BY <1>3, <3>1, <3>2
        <3>4. k - 1 \in 0 .. N /\ k - 1 \notin bad /\ k \in 1 .. N
            BY <1>2, <3>1, <3>3
        <3>5. after[k - 1] \in good
            BY <3>4
        <3>6. after[k] = ConnectPeer(after[k - 1], config.peers[k], o)
            BY <3>2, <3>3
        <3> HIDE DEF bad
        <3> QED
            BY <1>4, <3>1, <3>4, <3>5, <3>6 DEF bad
    <2> QED
        BY <1>2, <2>1
<1> QED
    BY <1>1, <1>9 DEF good

\* ConnectTimeout: the timer, and nothing else, for a closed socket has no descriptor.
LEMMA ConnectTimeoutKeeps ==
    ASSUME config \in Configs, NEW n, NEW b, Safe(n, b), NEW s \in Objects, Settled(n)
    PROVE  LET m == ConnectTimeout(n, s)
           IN  Safe(m, b) /\ Settled(m) /\ m.starved = n.starved /\ Len(n.timers) - 1 <= Len(m.timers)
<1> DEFINE m == ConnectTimeout(n, s)
           p == DestroySocketTimer(n, s)
           d == DeleteEvent(p, n.sock[s].fd)
<1>1. n \in Nets
    BY DEF Safe
<1>2. /\ Safe(p, b) /\ Of(n, p, s, {"timer"}) /\ Others(n, p, s) /\ Same(n, p, {"timers", "sock"})
    BY StopTimerKeeps
<1>3. p.timers = IF n.sock[s].timer THEN RemoveFirst(n.timers, s) ELSE n.timers
    BY <1>1, DestroyTimerEffect
<1>4. Len(n.timers) - 1 <= Len(p.timers)
    <2>1. n.timers \in Seq(Objects)
        BY <1>1, NetTyped
    <2>2. Len(n.timers) \in Nat /\ Len(n.timers) - 1 <= Len(RemoveFirst(n.timers, s))
        BY <2>1, RemoveFirstType
    <2> QED
        BY <1>3, <2>2
<1>5. m = IF p.sock[s].status # "Closed" THEN p ELSE d
    BY DEF ConnectTimeout
<1> HIDE DEF p, m
<1>6. /\ p.starved = n.starved /\ p \in Nets
      /\ \A r \in Objects : p.sock[r].status = n.sock[r].status /\ p.sock[r].fd = n.sock[r].fd
    BY <1>2 DEF Same, Fields, Of, Others, SocketFields, Safe
<1>7. Settled(p)
    BY <1>6 DEF Settled, Calm
<1>8. CASE p.sock[s].status # "Closed"
    BY <1>2, <1>4, <1>5, <1>6, <1>7, <1>8 DEF m
<1>9. CASE p.sock[s].status = "Closed"
    <2>1. n.sock[s].fd = 0
        BY <1>6, <1>9 DEF Safe, Holding
    <2>2. d \in Nets /\ Differs(p.ptr, d.ptr, 0, 0) /\ Same(p, d, {"ptr"})
        BY <1>6, <2>1, DeleteEffect
    <2> HIDE DEF d
    <2>3. d.ptr = p.ptr
        <3>1. p.ptr \in [Fds -> Objects \cup {0}] /\ d.ptr \in [Fds -> Objects \cup {0}]
            BY <1>6, <2>2, NetTyped
        <3>n. \A f \in Fds : f # 0
            BY DEF Fds
        <3>2. \A f \in Fds : d.ptr[f] = p.ptr[f]
            BY <2>2, <3>1, <3>n DEF Differs
        <3> QED
            BY <3>1, <3>2
    <2>4. Same(p, d, {"due", "starved", "listening"}) /\ d.sock = p.sock /\ d.starved = p.starved /\ d.timers = p.timers
        BY <2>2, <2>3 DEF Same, Fields
    <2>5. Safe(d, b)
        BY <1>2, <2>2, <2>4, FlagsKeep
    <2>6. Settled(d)
        BY <1>7, <2>4 DEF Settled, Calm
    <2>7. m = d
        BY <1>5, <1>9
    <2> QED
        BY <1>4, <1>6, <2>4, <2>5, <2>6, <2>7 DEF m
<1> QED
    BY <1>8, <1>9

\* The timers that are due: the list holds as many.
LEMMA HandleTimeOutsKeep ==
    ASSUME config \in Configs, NEW n, NEW b, Safe(n, b), Settled(n), NEW N \in 0 .. Len(n.timers)
    PROVE  LET m == HandleTimeOuts(n, N) IN Safe(m, b) /\ Settled(m) /\ m.starved = n.starved
<1> DEFINE L == Len(n.timers)
           Good(y, i) == Safe(y, b) /\ Settled(y) /\ y.starved = n.starved /\ L - i <= Len(y.timers)
           D == [i \in 0 .. N |-> {y \in Nets : Good(y, i)}]
           F == [i \in 1 .. N |-> [y \in Nets |-> ConnectTimeout(y, Head(y.timers))]]
           Is(f) == f = [i \in 0 .. N |-> IF i = 0 THEN n ELSE ConnectTimeout(f[i - 1], Head(f[i - 1].timers))]
           after == CHOOSE f : Is(f)
<1>1. HandleTimeOuts(n, N) = after[N]
    BY DEF HandleTimeOuts
<1>2. L \in Nat /\ N \in Nat /\ N <= L /\ n \in Nets
    BY NetTyped DEF Safe
<1> HIDE DEF L
<1>3. Good(n, 0)
    BY <1>2 DEF L
<1>4. ASSUME NEW i \in 1 .. N, NEW y \in Nets, Good(y, i - 1)
      PROVE  ConnectTimeout(y, Head(y.timers)) \in Nets /\ Good(ConnectTimeout(y, Head(y.timers)), i)
    <2> DEFINE s == Head(y.timers)
               m == ConnectTimeout(y, s)
    <2>1. y.timers \in Seq(Objects) /\ Len(y.timers) \in Nat
        BY NetTyped
    <2>2. y.timers # << >>
        BY <1>2, <1>4, <2>1
    <2>3. s \in Objects
        BY <2>1, <2>2, TailElements
    <2> HIDE DEF s
    <2>4. Safe(m, b) /\ Settled(m) /\ m.starved = y.starved /\ Len(y.timers) - 1 <= Len(m.timers)
        BY <1>4, <2>3, ConnectTimeoutKeeps
    <2> HIDE DEF m
    <2>5. m \in Nets /\ Len(m.timers) \in Nat
        BY <2>4, NetTyped DEF Safe
    <2>6. L - i <= Len(m.timers)
        BY <1>2, <1>4, <2>1, <2>4, <2>5
    <2> QED
        BY <1>4, <2>4, <2>5, <2>6 DEF m, s
<1> HIDE DEF Good
<1>5. /\ n \in D[0]
      /\ Leads(N, D, F)
    BY <1>2, <1>3, <1>4 DEF Leads
<1>6. \E f : IsChain(f, N, n, F)
    <2> HIDE DEF D, F
    <2> QED
        BY <1>2, <1>5, ChainExists
<1>7. \E f : Is(f)
    <2>0. PICK f : IsChain(f, N, n, F)
        BY <1>6
    <2>1. f = [i \in 0 .. N |-> IF i = 0 THEN n ELSE F[i][f[i - 1]]]
        BY <2>0 DEF IsChain
    <2>2. \A i \in 0 .. N : f[i] \in D[i]
        <3> HIDE DEF D, F
        <3> QED
            BY <1>2, <1>5, <2>0, ChainValues
    <2>3. \A i \in 1 .. N : F[i][f[i - 1]] = ConnectTimeout(f[i - 1], Head(f[i - 1].timers))
        BY <1>2, <2>2
    <2> HIDE DEF F, D
    <2>4. f = [i \in 0 .. N |-> IF i = 0 THEN n ELSE ConnectTimeout(f[i - 1], Head(f[i - 1].timers))]
        BY <1>2, <2>1, <2>3, SMTT(30), Zenon
    <2> QED
        BY <2>4
<1>8. Is(after)
    BY <1>7, Zenon
<1> HIDE DEF after
<1>9. \A i \in 0 .. N : after[i] \in Nets /\ Good(after[i], i)
    <2> DEFINE bad == {k \in 0 .. N : ~(after[k] \in Nets /\ Good(after[k], k))}
    <2>1. ASSUME bad # {} PROVE FALSE
        <3>0. bad \subseteq Nat
            BY <1>2
        <3>1. PICK k \in bad : \A j \in bad : k <= j
            <4> HIDE DEF bad
            <4> QED
                BY <2>1, <3>0, SmallestExists
        <3>2. after[k] = IF k = 0 THEN n ELSE ConnectTimeout(after[k - 1], Head(after[k - 1].timers))
            BY <1>8, <3>1
        <3>3. k # 0
            BY <1>2, <1>3, <3>1, <3>2
        <3>4. k - 1 \in 0 .. N /\ k - 1 \notin bad /\ k \in 1 .. N
            BY <1>2, <3>1, <3>3
        <3>5. after[k - 1] \in Nets /\ Good(after[k - 1], k - 1)
            BY <3>4
        <3>6. after[k] = ConnectTimeout(after[k - 1], Head(after[k - 1].timers))
            BY <3>2, <3>3
        <3>7. after[k] \in Nets /\ Good(after[k], k)
            BY <1>4, <3>4, <3>5, <3>6
        <3> QED
            BY <3>1, <3>7
    <2> QED
        BY <2>1
<1>10. Good(after[N], N)
    BY <1>2, <1>9
<1> QED
    BY <1>1, <1>10 DEF Good

\* A free object gets the descriptor of a link that waited.
LEMMA AcceptedEffect ==
    ASSUME NEW n \in Nets, NEW s \in Objects, NEW fd \in Fds, NEW l \in Nat
    PROVE  LET m == Accepted(n, s, fd, l)
           IN  /\ m \in Nets /\ Same(n, m, {"desc", "sock", "ptr"})
               /\ Differs(n.desc, m.desc, fd, l) /\ Differs(n.ptr, m.ptr, fd, s)
               /\ m.sock[s] = [fd |-> fd, status |-> "Connected", peer |-> n.sock[s].peer, timer |-> FALSE, buf |-> << >>]
               /\ Others(n, m, s)
<1> DEFINE record == [fd |-> fd, status |-> "Connected", peer |-> n.sock[s].peer, timer |-> FALSE, buf |-> << >>]
           d == [n EXCEPT !.desc[fd] = l]
           e == [d EXCEPT !.sock[s] = record]
           m == RegistEvent(e, fd, s)
<1>1. n.sock[s] \in SocketSet /\ DOMAIN n.sock = Objects
    BY SocketTyped
<1>2. record \in SocketSet
    BY <1>1 DEF SocketSet
<1>3. d \in Nets /\ Differs(n.desc, d.desc, fd, l) /\ Same(n, d, {"desc"})
    <2>1. n.desc \in [Fds -> Nat]
        BY NetTyped
    <2>2. [n.desc EXCEPT ![fd] = l] \in DescMaps
        BY <2>1 DEF DescMaps
    <2> QED
        BY <2>1, <2>2 DEF Nets, Same, Fields, Differs
<1>4. d.sock = n.sock
    BY <1>3 DEF Same, Fields
<1>5. Accepted(n, s, fd, l) = m
    <2> DEFINE u == [n EXCEPT !.sock[s] = Unused(n.sock[s].peer)]
    <2>u. u = [n EXCEPT !.sock[s] = Unused(@.peer)]
        BY <1>1 DEF Nets
    <2>1. Holds(u, s, fd, l) = [u EXCEPT !.desc[fd] = l, !.sock[s].fd = fd]
        BY DEF Holds
    <2>v. [u EXCEPT !.desc[fd] = l] = [d EXCEPT !.sock[s] = Unused(n.sock[s].peer)]
        BY DEF Nets
    <2>w. [[u EXCEPT !.desc[fd] = l, !.sock[s].fd = fd] EXCEPT !.sock[s].status = "Connected"]
              = [[[u EXCEPT !.desc[fd] = l] EXCEPT !.sock[s].fd = fd] EXCEPT !.sock[s].status = "Connected"]
        OBVIOUS
    <2>r. record = [Unused(n.sock[s].peer) EXCEPT !.fd = fd, !.status = "Connected"]
        <3> DEFINE v == [Unused(n.sock[s].peer) EXCEPT !.fd = fd, !.status = "Connected"]
        <3>1. v \in SocketSet /\ v.fd = fd /\ v.status = "Connected" /\ v.peer = n.sock[s].peer
              /\ v.timer = FALSE /\ v.buf = << >>
            <4> DEFINE x == Unused(n.sock[s].peer)
            <4>1. x \in SocketSet /\ x.peer = n.sock[s].peer /\ x.timer = FALSE /\ x.buf = << >>
                BY <1>1 DEF Unused, SocketSet
            <4> HIDE DEF x
            <4>2. [x EXCEPT !.fd = fd, !.status = "Connected"].fd = fd
                  /\ [x EXCEPT !.fd = fd, !.status = "Connected"].status = "Connected"
                  /\ [x EXCEPT !.fd = fd, !.status = "Connected"].peer = x.peer
                  /\ [x EXCEPT !.fd = fd, !.status = "Connected"].timer = x.timer
                  /\ [x EXCEPT !.fd = fd, !.status = "Connected"].buf = x.buf
                  /\ [x EXCEPT !.fd = fd, !.status = "Connected"] \in SocketSet
                BY <4>1 DEF SocketSet
            <4> QED
                BY <4>1, <4>2 DEF x
        <3>2. \A x, y \in SocketSet : x.fd = y.fd /\ x.status = y.status /\ x.peer = y.peer
                  /\ x.timer = y.timer /\ x.buf = y.buf => x = y
            BY DEF SocketSet
        <3>3. /\ record.fd = fd /\ record.status = "Connected" /\ record.peer = n.sock[s].peer
              /\ record.timer = FALSE /\ record.buf = << >>
            OBVIOUS
        <3> HIDE DEF v, record
        <3>4. record = v
            BY <1>2, <3>1, <3>2, <3>3
        <3> QED
            BY <3>4 DEF v
    <2>x. d.sock \in [Objects -> SocketSet] /\ d = [field \in Fields |-> d[field]]
        BY <1>3, NetTyped DEF Nets, Fields
    <2>y. [[[d EXCEPT !.sock[s] = Unused(n.sock[s].peer)] EXCEPT !.sock[s].fd = fd] EXCEPT !.sock[s].status = "Connected"]
              = [d EXCEPT !.sock[s] = [Unused(n.sock[s].peer) EXCEPT !.fd = fd, !.status = "Connected"]]
        <3> HIDE DEF d
        <3> QED
            BY <2>x DEF Fields, Unused
    <2>2. [[u EXCEPT !.desc[fd] = l, !.sock[s].fd = fd] EXCEPT !.sock[s].status = "Connected"] = e
        <3> HIDE DEF d, u, record
        <3> QED
            BY <2>v, <2>w, <2>r, <2>y
    <2> HIDE DEF u, e
    <2> QED
        BY <2>u, <2>1, <2>2 DEF Accepted
<1> HIDE DEF d, record
<1>6. e \in Nets /\ e.sock[s] = record /\ Others(d, e, s) /\ Same(d, e, {"sock"})
    BY <1>2, <1>3, SocketEffect
<1> HIDE DEF e
<1>7. m \in Nets /\ Differs(e.ptr, m.ptr, fd, s) /\ Same(e, m, {"ptr"})
    BY <1>6, RegistEffect
<1> HIDE DEF m
<1>8. Same(n, m, {"desc", "sock", "ptr"}) /\ m.desc = d.desc /\ m.sock = e.sock /\ e.ptr = n.ptr
    BY <1>3, <1>6, <1>7 DEF Same, Fields
<1>9. Others(n, m, s)
    BY <1>4, <1>6, <1>8 DEF Others
<1> QED
    BY <1>3, <1>5, <1>6, <1>7, <1>8, <1>9 DEF record

WithPeer(n, s, peer) == [n EXCEPT !.sock[s].peer = peer]

LEMMA PeerEffect ==
    ASSUME NEW n \in Nets, NEW s \in Objects, NEW peer \in Keys
    PROVE  LET m == WithPeer(n, s, peer)
           IN  /\ m \in Nets /\ Same(n, m, {"sock"})
               /\ m.sock[s].peer = peer /\ Of(n, m, s, {"peer"}) /\ Others(n, m, s)
<1>1. [n.sock EXCEPT ![s].peer = peer] \in SocketMaps
    BY ZenonT(40) DEF Nets, SocketMaps, SocketSet
<1> QED
    BY <1>1 DEF WithPeer, Nets, Same, Fields, SocketMaps, SocketSet, Others, Of, SocketFields

\* OnAccept of a port that has a free object.
LEMMA OnAcceptEffect ==
    ASSUME config \in Configs, NEW n \in Nets, NEW port \in PortNames, n.ports[port] # << >>, NEW fd \in Fds, NEW l \in Nat,
           <<Client, fd>> \notin DOMAIN n.servers
    PROVE  LET m == OnAccept(n, port, fd, l)
               s == Head(n.ports[port])
           IN  /\ m \in Nets /\ Same(n, m, {"ports", "desc", "sock", "ptr", "servers"}) /\ s \in Objects
               /\ Differs(n.ports, m.ports, port, Tail(n.ports[port]))
               /\ Differs(n.desc, m.desc, fd, l) /\ Differs(n.ptr, m.ptr, fd, s)
               /\ m.sock[s] = [fd |-> fd, status |-> "Connected", timer |-> FALSE, buf |-> << >>,
                               peer |-> IF port = "outside" THEN <<Client, fd>> ELSE n.sock[s].peer]
               /\ Others(n, m, s)
               /\ m.servers = IF port = "outside" THEN Set(n.servers, <<Client, fd>>, s) ELSE n.servers
<1> DEFINE m == OnAccept(n, port, fd, l)
           s == Head(n.ports[port])
           p == CreateSocket(n, port)
           a == Accepted(p, s, fd, l)
           key == <<Client, fd>>
<1>1. s \in Objects
    BY NetTyped, TailElements
<1>2. p \in Nets /\ Differs(n.ports, p.ports, port, Tail(n.ports[port])) /\ Same(n, p, {"ports"})
    BY CreateEffect
<1> HIDE DEF p, s
<1>3. /\ a \in Nets /\ Same(p, a, {"desc", "sock", "ptr"})
      /\ Differs(p.desc, a.desc, fd, l) /\ Differs(p.ptr, a.ptr, fd, s)
      /\ a.sock[s] = [fd |-> fd, status |-> "Connected", peer |-> p.sock[s].peer, timer |-> FALSE, buf |-> << >>]
      /\ Others(p, a, s)
    BY <1>1, <1>2, AcceptedEffect
<1> HIDE DEF a
<1>4. /\ p.desc = n.desc /\ p.ptr = n.ptr /\ p.sock = n.sock /\ a.ports = p.ports /\ a.servers = n.servers
      /\ Same(n, a, {"ports", "desc", "sock", "ptr"})
    BY <1>2, <1>3 DEF Same, Fields
<1>5. CASE port = "inside"
    <2>1. m = a
        BY <1>5 DEF OnAccept, OnAcceptInside, a, p, s
    <2>2. Same(n, a, {"ports", "desc", "sock", "ptr", "servers"}) /\ Others(n, a, s)
        BY <1>3, <1>4 DEF Same, Others
    <2> QED
        BY <1>1, <1>2, <1>3, <1>4, <1>5, <2>1, <2>2 DEF s
<1>6. CASE port = "outside"
    <2> DEFINE w == WithPeer(a, s, key)
               k == AddSocket(w, key, s)
    <2>1. m = k
        BY <1>6 DEF OnAccept, OnAcceptOutside, a, p, s, WithPeer
    <2>2. key \in Keys
        BY DEF Keys
    <2>3. w \in Nets /\ Same(a, w, {"sock"}) /\ w.sock[s].peer = key /\ Of(a, w, s, {"peer"}) /\ Others(a, w, s)
        BY <1>1, <1>3, <2>2, PeerEffect
    <2> HIDE DEF w
    <2>4. w.servers = n.servers
        BY <1>4, <2>3 DEF Same, Fields
    <2> HIDE DEF key
    <2>5. key \notin DOMAIN w.servers
        BY <2>4 DEF key
    <2>6. k \in Nets /\ k.servers = Set(w.servers, key, s) /\ Same(w, k, {"servers"})
        <3>1. key \in DOMAIN w.servers => w.servers[key] = s
            BY <2>5
        <3> QED
            BY <1>1, <2>2, <2>3, <3>1, AddEffect
    <2> HIDE DEF k
    <2>7. /\ k.ports = a.ports /\ k.desc = a.desc /\ k.ptr = a.ptr /\ k.sock = w.sock
          /\ Same(n, k, {"ports", "desc", "sock", "ptr", "servers"})
        BY <1>4, <2>3, <2>6 DEF Same, Fields
    <2>8. Others(n, k, s)
        BY <1>3, <1>4, <2>3, <2>7 DEF Others
    <2>9. k.sock[s] = [fd |-> fd, status |-> "Connected", timer |-> FALSE, buf |-> << >>, peer |-> key]
        <3>1. w.sock[s] \in SocketSet
            BY <1>1, <2>3, SocketTyped
        <3>2. w.sock[s].fd = fd /\ w.sock[s].status = "Connected" /\ w.sock[s].timer = FALSE /\ w.sock[s].buf = << >>
            BY <1>3, <2>3 DEF Of, SocketFields
        <3>3. \A v \in SocketSet :
                  v = [fd |-> v.fd, status |-> v.status, timer |-> v.timer, buf |-> v.buf, peer |-> v.peer]
            BY DEF SocketSet
        <3>4. w.sock[s] = [fd |-> w.sock[s].fd, status |-> w.sock[s].status, timer |-> w.sock[s].timer,
                           buf |-> w.sock[s].buf, peer |-> w.sock[s].peer]
            BY <3>1, <3>3
        <3>5. w.sock[s].peer = key
            BY <2>3
        <3> QED
            BY <2>7, <3>2, <3>4, <3>5
    <2>10. k.servers = Set(n.servers, key, s)
        BY <2>4, <2>6
    <2> QED
        BY <1>1, <1>2, <1>3, <1>4, <1>6, <2>1, <2>6, <2>7, <2>8, <2>9, <2>10 DEF s, key
<1> QED
    BY <1>5, <1>6 DEF PortNames

\* Links leave the backlog.
LEMMA ShorterBacklogKeeps ==
    ASSUME NEW n, NEW b, Safe(n, b), NEW c,
           \A p \in PortNames : ToSet(c[p]) \subseteq ToSet(b[p]) /\ IsInjective(c[p])
    PROVE  Safe(n, c)
<1>1. Waiting(n, c)
    BY DEF Safe, Waiting
<1>2. Packets(n, c, app)
    BY DEF Safe, Packets, PacketOK
<1>3. Replies(n, c)
    BY DEF Safe, Replies, Alive
<1> QED
    BY <1>1, <1>2, <1>3 DEF Safe

\* OnAccept: the link gets a descriptor, and a free object of its port.
LEMMA OnAcceptKeeps ==
    ASSUME config \in Configs, NEW n, NEW b, Safe(n, b), NEW port \in PortNames, n.ports[port] # << >>,
           NEW fd \in Fds, n.desc[fd] = 0, NEW l \in ToSet(b[port]), NEW c,
           \A p \in PortNames : ToSet(c[p]) \subseteq ToSet(b[p]) \ {l} /\ IsInjective(c[p])
    PROVE  LET m == OnAccept(n, port, fd, l)
               s == Head(n.ports[port])
           IN  /\ Safe(m, c) /\ s \in Objects /\ BelongPort(s) = port /\ Others(n, m, s)
               /\ m.sock[s].status = "Connected" /\ m.replaced = n.replaced /\ m.starved = n.starved
               /\ ~n.replaced => n.sock[s].fd = 0
<1> DEFINE m == OnAccept(n, port, fd, l)
           s == Head(n.ports[port])
           key == <<Client, fd>>
<1>1. /\ n \in Nets /\ Holding(n) /\ Waiting(n, b) /\ Quiet(n) /\ Clients(n)
      /\ Accounted(n) /\ Routed(n) /\ Packets(n, b, app) /\ Replies(n, b)
      /\ (config.threads = 1 => Ended(n, conn, app))
    BY DEF Safe
<1>2. /\ l \in 1 .. Len(n.link)
      /\ port = "outside" <=> n.link[l].who = <<Client, 0>>
      /\ \A f \in Fds : n.desc[f] # l
    <2>1. /\ l \in 1 .. Len(n.link)
          /\ port = "outside" <=> n.link[l].who = <<Client, 0>>
          /\ \A f \in Fds : n.desc[f] # l
        BY <1>1 DEF Waiting
    <2> QED
        BY <2>1
<1>3. Len(n.link) \in Nat /\ l \in Nat /\ l # 0 /\ fd # 0
    <2>1. Len(n.link) \in Nat
        BY <1>1, NetTyped
    <2>2. fd # 0
        BY DEF Fds
    <2> QED
        BY <1>2, <2>1, <2>2
<1>4. n.desc \in [Fds -> Nat] /\ n.ptr \in [Fds -> Objects \cup {0}] /\ n.ports \in [PortNames -> Seq(Objects)]
    BY <1>1, NetTyped
<1>5. \A r \in Objects : n.sock[r].fd # 0 => n.sock[r].fd \in Fds /\ n.desc[n.sock[r].fd] # 0 /\ n.sock[r].fd # fd
    BY <1>1, SocketTyped DEF Holding
<1>6. key \notin DOMAIN n.servers /\ key \in Keys /\ key \notin ServerKeys /\ key # Nobody /\ key[1] = Client /\ key[2] = fd
    <2>1. key \in Keys /\ key \notin ServerKeys /\ key # Nobody
        BY KeysDiffer
    <2>2. ASSUME key \in DOMAIN n.servers PROVE FALSE
        <3>1. n.servers[key] \in Objects
            BY <1>1, <2>2, NetTyped, MapElement
        <3>2. n.sock[n.servers[key]].fd = fd
            BY <1>1, <2>2 DEF Clients
        <3> QED
            BY <1>3, <1>5, <3>1, <3>2
    <2> QED
        BY <2>1, <2>2
<1>7. /\ m \in Nets /\ Same(n, m, {"ports", "desc", "sock", "ptr", "servers"}) /\ s \in Objects
      /\ Differs(n.ports, m.ports, port, Tail(n.ports[port]))
      /\ Differs(n.desc, m.desc, fd, l) /\ Differs(n.ptr, m.ptr, fd, s)
      /\ m.sock[s] = [fd |-> fd, status |-> "Connected", timer |-> FALSE, buf |-> << >>,
                      peer |-> IF port = "outside" THEN key ELSE n.sock[s].peer]
      /\ Others(n, m, s)
      /\ m.servers = IF port = "outside" THEN Set(n.servers, key, s) ELSE n.servers
    BY <1>1, <1>3, <1>6, OnAcceptEffect
<1> HIDE DEF m
<1>8. /\ s \in ToSet(n.ports[port])
      /\ ToSet(Tail(n.ports[port])) \subseteq ToSet(n.ports[port])
      /\ IsInjective(n.ports[port]) => IsInjective(Tail(n.ports[port])) /\ s \notin ToSet(Tail(n.ports[port]))
      /\ ToSet(n.ports[port]) = ToSet(Tail(n.ports[port])) \cup {s}
    BY <1>4, TailElements
<1> HIDE DEF s, key
<1>9. BelongPort(s) = port
    BY <1>1, <1>8 DEF Clients
<1>10. /\ m.types = n.types /\ m.link = n.link /\ m.recvCS = n.recvCS /\ m.sendSS = n.sendSS
       /\ m.sendCS = n.sendCS /\ m.timers = n.timers /\ m.stranger = n.stranger /\ m.replaced = n.replaced
       /\ m.silent = n.silent /\ m.starved = n.starved /\ m.listening = n.listening /\ m.lost = n.lost
    BY <1>7 DEF Same, Fields
<1>11. m.desc[fd] = l /\ \A f \in Fds : f # fd => m.desc[f] = n.desc[f]
    BY <1>4, <1>7 DEF Differs
<1>12. m.ptr[fd] = s /\ \A f \in Fds : f # fd => m.ptr[f] = n.ptr[f]
    BY <1>4, <1>7 DEF Differs
<1>13. m.ports[port] = Tail(n.ports[port]) /\ \A p \in PortNames : p # port => m.ports[p] = n.ports[p]
    BY <1>4, <1>7 DEF Differs
<1>14. \A r \in Objects : r # s => m.sock[r] = n.sock[r]
    BY <1>7 DEF Others
<1>15. /\ m.sock[s].fd = fd /\ m.sock[s].status = "Connected" /\ m.sock[s].timer = FALSE /\ m.sock[s].buf = << >>
       /\ m.sock[s].peer = IF port = "outside" THEN key ELSE n.sock[s].peer
    BY <1>7
<1>16. \A r \in Objects : r # s /\ n.sock[r].fd # 0 => LinkOf(m, r) = LinkOf(n, r) /\ LinkOf(n, r) \in 1 .. Len(n.link)
    BY <1>1, <1>5, <1>11, <1>14, LinkExists DEF LinkOf
<1>17. /\ \A p \in PortNames : ToSet(m.ports[p]) \subseteq ToSet(n.ports[p])
       /\ \A p \in PortNames : IsInjective(n.ports[p]) =>
              IsInjective(m.ports[p]) /\ (p = port => s \notin ToSet(m.ports[p]))
       /\ ToSet(m.ports[port]) \cup {s} = ToSet(n.ports[port])
    BY <1>8, <1>13
<1>18. port = "outside" => n.sock[s].fd = 0
    BY <1>1, <1>8 DEF Clients
<1>19. n.servers \in Maps(Keys, Objects) /\ \A k \in DOMAIN n.servers : k \in Keys /\ n.servers[k] \in Objects
    BY <1>1, NetTyped, MapElement
<1>20. /\ DOMAIN n.servers \subseteq DOMAIN m.servers /\ \A k \in DOMAIN n.servers : m.servers[k] = n.servers[k]
       /\ \A k \in DOMAIN m.servers : k \in DOMAIN n.servers \/ (port = "outside" /\ k = key)
       /\ port = "outside" => key \in DOMAIN m.servers /\ m.servers[key] = s
    <2>1. CASE port = "outside"
        <3>1. m.servers = Set(n.servers, key, s)
            BY <1>7, <2>1
        <3>2. DOMAIN m.servers = DOMAIN n.servers \cup {key} /\ m.servers[key] = s
            BY <1>1, <1>6, <1>7, <3>1, SetServers
        <3>3. \A k \in DOMAIN n.servers : m.servers[k] = n.servers[k]
            BY <1>1, <1>6, <1>7, <3>1, <3>2, SetServersKeeps, SMTT(30), Zenon
        <3> QED
            BY <2>1, <3>2, <3>3
    <2>2. CASE port # "outside"
        BY <1>7, <2>2
    <2> QED
        BY <2>1, <2>2
<1>21. port \in {"inside", "outside"} /\ BelongPort(s) # "none"
    BY <1>9 DEF PortNames
<1>22. Holding(m)
    <2>1. \A r \in Objects : m.sock[r].status = "Closed" <=> m.sock[r].fd = 0
        BY <1>1, <1>3, <1>14, <1>15, SMTT(30), Zenon DEF Holding
    <2>2. ASSUME NEW r \in Objects, m.sock[r].fd # 0
          PROVE  /\ m.desc[m.sock[r].fd] # 0
                 /\ BelongPort(r) = "outside" <=> m.link[m.desc[m.sock[r].fd]].who = <<Client, 0>>
                 /\ BelongPort(r) = "none" => m.link[m.desc[m.sock[r].fd]].who \in Configured
        <3>1. CASE r = s
            <4>1. m.desc[m.sock[r].fd] = l
                BY <1>11, <1>15, <3>1
            <4>2. m.link[l] = n.link[l]
                BY <1>10
            <4>3. BelongPort(r) = port /\ BelongPort(r) # "none"
                BY <1>9, <1>21, <3>1, SMTT(30), Zenon
            <4> QED
                BY <1>2, <1>3, <4>1, <4>2, <4>3
        <3>2. CASE r # s
            <4>1. m.sock[r] = n.sock[r] /\ m.desc[m.sock[r].fd] = n.desc[n.sock[r].fd] /\ n.sock[r].fd # 0
                BY <1>5, <1>11, <1>14, <2>2, <3>2, SMTT(30), Zenon
            <4>2. /\ n.desc[n.sock[r].fd] # 0
                  /\ BelongPort(r) = "outside" <=> n.link[n.desc[n.sock[r].fd]].who = <<Client, 0>>
                  /\ BelongPort(r) = "none" => n.link[n.desc[n.sock[r].fd]].who \in Configured
                BY <1>1, <4>1, Zenon DEF Holding
            <4> QED
                BY <1>10, <4>1, <4>2, Zenon
        <3> QED
            BY <3>1, <3>2, Zenon
    <2>3. \A r, t \in Objects : m.sock[r].fd # 0 /\ m.sock[r].fd = m.sock[t].fd => r = t
        BY <1>1, <1>5, <1>14, <1>15 DEF Holding
    <2>4. \A f \in Fds : m.desc[f] <= Len(m.link)
        <3>1. \A f \in Fds : n.desc[f] <= Len(n.link)
            BY <1>1 DEF Holding
        <3>2. l <= Len(n.link) /\ m.link = n.link
            BY <1>2, <1>3, <1>10
        <3> TAKE f \in Fds
        <3>3. CASE f = fd
            BY <1>11, <3>2, <3>3
        <3>4. CASE f # fd
            BY <1>11, <3>1, <3>2, <3>4
        <3> QED
            BY <3>3, <3>4
    <2>5. \A f, g \in Fds : m.desc[f] # 0 /\ m.desc[f] = m.desc[g] => f = g
        BY <1>1, <1>2, <1>11 DEF Holding
    <2> QED
        BY <2>1, <2>2, <2>3, <2>4, <2>5, SMTT(30), Zenon DEF Holding
<1>23. Waiting(m, c)
    <2>1. ASSUME NEW p \in PortNames, NEW k \in ToSet(c[p])
          PROVE  /\ k \in 1 .. Len(m.link)
                 /\ p = "outside" <=> m.link[k].who = <<Client, 0>>
                 /\ \A f \in Fds : m.desc[f] # k
        <3>1. k \in ToSet(b[p]) /\ k # l
            BY <2>1
        <3>2. /\ k \in 1 .. Len(n.link)
              /\ p = "outside" <=> n.link[k].who = <<Client, 0>>
              /\ \A f \in Fds : n.desc[f] # k
            BY <1>1, <3>1 DEF Waiting
        <3> QED
            BY <1>10, <1>11, <3>1, <3>2
    <2> QED
        BY <2>1 DEF Waiting
<1>24. Quiet(m)
    BY <1>1, <1>10, <1>14, <1>15 DEF Quiet
<1>25. Clients(m)
    <2>1. \A k \in DOMAIN m.servers : k[1] = Client =>
              BelongPort(m.servers[k]) = "outside" /\ m.sock[m.servers[k]].fd = k[2]
        <3> TAKE k \in DOMAIN m.servers
        <3> HAVE k[1] = Client
        <3>1. CASE k \in DOMAIN n.servers
            <4>1. BelongPort(n.servers[k]) = "outside" /\ n.sock[n.servers[k]].fd = k[2] /\ n.servers[k] \in Objects
                  /\ k[2] \in Fds
                BY <1>1, <1>19, <3>1, KeysDiffer DEF Clients
            <4>2. n.servers[k] # s
                BY <1>9, <1>18, <4>1 DEF Fds
            <4> QED
                BY <1>14, <1>20, <3>1, <4>1, <4>2
        <3>2. CASE k = key /\ port = "outside"
            BY <1>6, <1>9, <1>15, <1>20, <3>2
        <3> QED
            BY <1>20, <3>1, <3>2
    <2>2. \A k \in DOMAIN m.servers : k[1] # Client => BelongPort(m.servers[k]) # "outside"
        BY <1>1, <1>6, <1>20 DEF Clients
    <2>3. ASSUME NEW r \in Objects, BelongPort(r) = "outside", m.sock[r].fd # 0
          PROVE  /\ m.sock[r].status = "Connected" /\ m.sock[r].peer = <<Client, m.sock[r].fd>>
                 /\ <<Client, m.sock[r].fd>> \in DOMAIN m.servers /\ m.servers[<<Client, m.sock[r].fd>>] = r
        <3>1. CASE r = s
            <4>1. port = "outside"
                BY <1>9, <2>3, <3>1
            <4> QED
                BY <1>15, <1>20, <3>1, <4>1 DEF key
        <3>2. CASE r # s
            <4>1. m.sock[r] = n.sock[r]
                BY <1>14, <3>2
            <4>2. /\ n.sock[r].status = "Connected" /\ n.sock[r].peer = <<Client, n.sock[r].fd>>
                  /\ <<Client, n.sock[r].fd>> \in DOMAIN n.servers /\ n.servers[<<Client, n.sock[r].fd>>] = r
                BY <1>1, <2>3, <4>1 DEF Clients
            <4> QED
                BY <1>20, <4>1, <4>2
        <3> QED
            BY <3>1, <3>2
    <2>4. \A r \in Objects : BelongPort(r) # "outside" =>
              /\ m.sock[r].peer \in ServerKeys \cup {Nobody}
              /\ m.sock[r].status \in {"Opened", "Connecting"} => m.sock[r].peer \in ServerKeys
        BY <1>1, <1>9, <1>14, <1>15 DEF Clients
    <2>5. \A p \in PortNames : \A r \in ToSet(m.ports[p]) : BelongPort(r) = p
        BY <1>1, <1>17 DEF Clients
    <2>6. \A r \in ToSet(m.ports["outside"]) : m.sock[r].fd = 0
        <3>1. "outside" \in PortNames
            BY DEF PortNames
        <3>2. ToSet(m.ports["outside"]) \subseteq Objects
            BY <1>7, <3>1, NetTyped, ElementsTyped
        <3>3. \A r \in ToSet(m.ports["outside"]) : n.sock[r].fd = 0 /\ BelongPort(r) = "outside"
            BY <1>1, <1>17, <3>1, <2>5 DEF Clients
        <3>4. s \notin ToSet(m.ports["outside"])
            BY <1>1, <1>9, <1>17, <3>1, <3>3 DEF Clients
        <3> QED
            BY <1>14, <3>2, <3>3, <3>4
    <2>7. IsInjective(m.ports["outside"])
        <3>1. "outside" \in PortNames
            BY DEF PortNames
        <3> QED
            BY <1>1, <1>17, <3>1 DEF Clients
    <2>8. \A type \in TypeNames : \A r \in ToSet(m.types[type]) : BelongPort(r) = "none"
        BY <1>1, <1>10 DEF Clients
    <2> QED
        BY <2>1, <2>2, <2>3, <2>4, <2>5, <2>6, <2>7, <2>8 DEF Clients
<1>26. Packets(m, c, app)
    <2>1. ASSUME NEW packet, PacketOK(n, b, packet)
          PROVE  PacketOK(m, c, packet)
        <3>1. packet.link # l
            BY <2>1 DEF PacketOK
        <3> QED
            BY <1>10, <1>11, <2>1, <3>1 DEF PacketOK
    <2> QED
        BY <1>1, <1>10, <2>1 DEF Packets
<1>27. Replies(m, c)
    <2>1. \A k : Alive(m, c, k) => Alive(n, b, k)
        BY <1>11 DEF Alive
    <2> QED
        BY <1>1, <1>10, <2>1 DEF Replies
<1>28. config.threads = 1 => Ended(m, conn, app)
    <2>1. \A f \in Fds : n.desc[f] # 0 => m.desc[f] = n.desc[f]
        BY <1>11, SMTT(30), Zenon
    <2> QED
        BY <1>1, <1>3, <1>7, <1>10, <2>1, EndedGrows
<1>29. ~n.replaced => n.sock[s].fd = 0 /\ n.sock[s].status = "Closed" /\ s \notin n.lost /\ ~n.sock[s].timer
    <2> SUFFICES ASSUME ~n.replaced PROVE n.sock[s].fd = 0 /\ n.sock[s].status = "Closed" /\ s \notin n.lost /\ ~n.sock[s].timer
        OBVIOUS
    <2>1. Free(n) /\ Timed(n)
        BY <1>1 DEF Accounted
    <2>2. s \in ToSet(HomeList(n, s))
        BY <1>8, <1>9, <1>21 DEF HomeList
    <2>3. n.sock[s].fd = 0 /\ s \notin n.lost
        BY <1>7, <2>1, <2>2 DEF Free
    <2> QED
        BY <1>1, <1>7, <2>1, <2>3 DEF Holding, Timed
<1>30. Accounted(m)
    <2> SUFFICES ASSUME ~n.replaced PROVE Free(m) /\ Pointed(m) /\ Timed(m) /\ Entered(m)
        BY <1>10 DEF Accounted
    <2>1. Free(n) /\ Pointed(n) /\ Timed(n) /\ Entered(n)
        BY <1>1 DEF Accounted
    <2>2. Free(m)
        <3>p. \A p \in PortNames : IsInjective(n.ports[p])
            BY <2>1 DEF Free
        <3>1. \A r \in Objects : r # s => (r \in ToSet(HomeList(m, r)) <=> r \in ToSet(HomeList(n, r)))
            <4> TAKE r \in Objects
            <4> HAVE r # s
            <4>1. BelongPort(r) \in PortNames \cup {"none"}
                BY ConfigFacts
            <4>2. \A p \in PortNames : r \in ToSet(m.ports[p]) <=> r \in ToSet(n.ports[p])
                BY <1>13, <1>17
            <4> QED
                BY <1>10, <4>1, <4>2 DEF HomeList, PortNames
        <3>2. s \notin ToSet(HomeList(m, s))
            BY <1>9, <1>17, <1>21, <3>p DEF HomeList
        <3>5. \A p \in PortNames : IsInjective(m.ports[p])
            BY <1>17, <3>p
        <3>6. \A type \in TypeNames : /\ IsInjective(m.types[type])
                                      /\ \A r \in ToSet(m.types[type]) : TypeOf(r) = type
            BY <1>10, <2>1 DEF Free
        <3>7. \A r \in Objects : r \in ToSet(HomeList(m, r)) => m.sock[r].fd = 0 /\ r \notin m.lost
            BY <1>10, <1>14, <2>1, <3>1, <3>2 DEF Free
        <3>8. \A r \in Objects : m.sock[r].fd # 0 \/ r \in m.lost \/ r \in ToSet(HomeList(m, r))
            BY <1>3, <1>10, <1>14, <1>15, <2>1, <3>1 DEF Free
        <3>9. \A r \in m.lost : m.sock[r].fd = 0
            <4>1. m.lost \subseteq Objects
                BY <1>7, NetTyped
            <4> QED
                BY <1>10, <1>14, <1>29, <2>1, <4>1 DEF Free
        <3> QED
            BY <3>5, <3>6, <3>7, <3>8, <3>9 DEF Free
    <2>3. Pointed(m)
        <3>1. s # 0
            BY <1>7, ConfigFacts
        <3> SUFFICES ASSUME NEW f \in Fds
                     PROVE  /\ m.desc[f] # 0 => m.ptr[f] # 0 /\ m.sock[m.ptr[f]].fd = f
                            /\ m.ptr[f] # 0 => m.desc[f] # 0
            BY DEF Pointed
        <3>2. CASE f = fd
            BY <1>3, <1>11, <1>12, <1>15, <3>1, <3>2
        <3>3. CASE f # fd
            <4>1. m.desc[f] = n.desc[f] /\ m.ptr[f] = n.ptr[f]
                BY <1>11, <1>12, <3>3
            <4>2. /\ n.desc[f] # 0 => n.ptr[f] # 0 /\ n.sock[n.ptr[f]].fd = f
                  /\ n.ptr[f] # 0 => n.desc[f] # 0
                BY <2>1 DEF Pointed
            <4>3. f # 0
                BY DEF Fds
            <4> QED
                BY <1>4, <1>14, <1>29, <4>1, <4>2, <4>3
        <3> QED
            BY <3>2, <3>3
    <2>4. Timed(m)
        <3>1. IsInjective(m.timers) /\ \A r \in Objects : m.sock[r].timer <=> r \in ToSet(m.timers)
            <4>1. n.sock[s].timer \in BOOLEAN
                BY <1>1, <1>7, SocketTyped DEF SocketSet
            <4>2. ~m.sock[s].timer /\ s \notin ToSet(m.timers)
                BY <1>7, <1>10, <1>15, <1>29, <2>1 DEF Timed
            <4> QED
                BY <1>10, <1>14, <2>1, <4>2 DEF Timed
        <3>2. \A r \in Objects : m.sock[r].timer => m.sock[r].status \in {"Opened", "Connecting"}
            BY <1>14, <1>15, <2>1 DEF Timed
        <3>3. \A r \in Objects : m.sock[r].status \in {"Opened", "Connecting"} => BelongPort(r) = "none"
            BY <1>14, <1>15, <2>1 DEF Timed
        <3>4. \A r \in Objects : BelongPort(r) = "none" /\ m.sock[r].fd # 0 =>
                  m.sock[r].peer[1] = TypeOf(r) /\ m.link[LinkOf(m, r)].who = m.sock[r].peer
            BY <1>10, <1>14, <1>16, <1>21, <2>1 DEF Timed
        <3> QED
            BY <3>1, <3>2, <3>3, <3>4 DEF Timed
    <2>5. Entered(m)
        <3> SUFFICES ASSUME NEW k \in DOMAIN m.servers
                     PROVE  LET r == m.servers[k] IN
                            /\ m.sock[r].fd # 0 /\ m.sock[r].peer = k
                            /\ BelongPort(r) = "inside" =>
                                  m.sock[r].status = "Available" /\ m.link[LinkOf(m, r)].who = k
            BY Zenon DEF Entered
        <3>1. CASE k \in DOMAIN n.servers
            <4> DEFINE r == n.servers[k]
            <4>1. m.servers[k] = r /\ r \in Objects
                BY <1>19, <1>20, <3>1
            <4>2. /\ n.sock[r].fd # 0 /\ n.sock[r].peer = k
                  /\ BelongPort(r) = "inside" => n.sock[r].status = "Available" /\ n.link[LinkOf(n, r)].who = k
                BY <2>1, <3>1, Zenon DEF Entered
            <4> HIDE DEF r
            <4>3. r # s
                BY <1>29, <4>2
            <4> QED
                BY <1>10, <1>14, <1>16, <4>1, <4>2, <4>3
        <3>2. CASE port = "outside" /\ k = key
            BY <1>3, <1>9, <1>15, <1>20, <3>2
        <3> QED
            BY <1>20, <3>1, <3>2
    <2> QED
        BY <2>2, <2>3, <2>4, <2>5
<1>31. Routed(m)
    <2> SUFFICES ASSUME ~n.replaced, ~n.stranger PROVE Routed(m)
        BY <1>10 DEF Routed
    <2>1. \A r \in Objects : m.sock[r].status \in {"Available", "Connecting"} =>
              m.sock[r].peer \in DOMAIN m.servers /\ m.servers[m.sock[r].peer] = r
        BY <1>1, <1>14, <1>15, <1>20 DEF Routed
    <2>2. ASSUME NEW r \in Objects, BelongPort(r) = "none", m.sock[r].fd # 0, m.sock[r].peer \in DOMAIN m.servers
          PROVE  m.servers[m.sock[r].peer] = r
        <3>1. r # s /\ m.sock[r] = n.sock[r]
            BY <1>14, <1>21, <2>2
        <3>2. n.sock[r].peer \in ServerKeys \cup {Nobody}
            BY <1>1, <2>2 DEF Clients
        <3>3. n.sock[r].peer \in DOMAIN n.servers
            BY <1>6, <1>20, <2>2, <3>1, <3>2
        <3> QED
            BY <1>1, <1>20, <2>2, <3>1, <3>3 DEF Routed
    <2>3. ASSUME NEW r \in Objects, BelongPort(r) = "none", m.sock[r].status = "Available"
          PROVE  \/ "regist" \in m.link[LinkOf(m, r)].got
                 \/ [to |-> m.sock[r].peer, kind |-> "regist"] \in ToSet(m.sendSS)
        <3>1. r # s
            BY <1>15, <2>3
        <3>2. m.sock[r] = n.sock[r]
            BY <1>14, <3>1
        <3>3. n.sock[r].fd # 0
            BY <1>1, <2>3, <3>2 DEF Holding
        <3> QED
            BY <1>1, <1>10, <1>16, <2>3, <3>1, <3>2, <3>3 DEF Routed
    <2> QED
        BY <2>1, <2>2, <2>3 DEF Routed
<1> QED
    BY <1>7, <1>9, <1>10, <1>15, <1>22, <1>23, <1>24, <1>25, <1>26, <1>27, <1>28, <1>29, <1>30, <1>31 DEF Safe, m, s

-----------------------------------------------------------------------------
(* From states of the net thread to states of the system.                  *)

\* The configuration stays: what is said of the next state is said of its parts.
LEMMA NetsCarried ==
    ASSUME config' = config
    PROVE  /\ Objects' = Objects /\ TypeNames' = TypeNames /\ Configured' = Configured
           /\ Nets' = Nets /\ EventSet' = EventSet
           /\ \A s : BelongPort(s)' = BelongPort(s) /\ TypeOf(s)' = TypeOf(s)
<1>1. Objects' = Objects /\ TypeNames' = TypeNames /\ Configured' = Configured
    BY DEF Objects, TypeNames, Configured
<1>2. Nets' = Nets /\ EventSet' = EventSet
    BY <1>1 DEF Nets, SocketMaps, PortLists, TypeLists, ServerMaps, TimerLists, LinkLists, DescMaps, PtrMaps, PacketQueues,
                OrderQueues, ObjectSets, NumberSets, PortSets, EventSet
<1>3. \A s : BelongPort(s)' = BelongPort(s) /\ TypeOf(s)' = TypeOf(s)
    BY DEF BelongPort, TypeOf
<1> QED
    BY <1>1, <1>2, <1>3

LEMMA SafeCarried ==
    ASSUME config' = config, net' \in Nets, Holding(net'), Waiting(net', backlog'), Quiet(net'), Clients(net'),
           Accounted(net'), Routed(net'), Packets(net', backlog', app'), Replies(net', backlog'),
           config.threads = 1 => Ended(net', conn', app')
    PROVE  Safe(net, backlog)'
<1>1. /\ Objects' = Objects /\ TypeNames' = TypeNames /\ Configured' = Configured
      /\ Nets' = Nets
      /\ \A s : BelongPort(s)' = BelongPort(s) /\ TypeOf(s)' = TypeOf(s)
    BY NetsCarried, SMTT(30), Zenon
<1>2. Holding(net)'
    BY <1>1 DEF Holding
<1>3. Waiting(net, backlog)'
    BY DEF Waiting
<1>4. Quiet(net)'
    BY <1>1 DEF Quiet
<1>5. Clients(net)'
    BY <1>1 DEF Clients
<1>6. Accounted(net)'
    BY <1>1 DEF Accounted, Free, Pointed, Timed, Entered, HomeList
<1>7. Routed(net)'
    BY <1>1 DEF Routed
<1>8. Packets(net, backlog, app)'
    BY DEF Packets, PacketOK
<1>9. Replies(net, backlog)'
    BY DEF Replies, Alive
<1>10. config'.threads = 1 => Ended(net, conn, app)'
    BY DEF Ended, Ending
<1> QED
    BY <1>1, <1>2, <1>3, <1>4, <1>5, <1>6, <1>7, <1>8, <1>9, <1>10 DEF Safe

LEMMA NetCarried ==
    ASSUME config' = config, conn' = conn, app' = app, Safe(net', backlog'), Settled(net'), Events(net', batch')
    PROVE  Safe(net, backlog)' /\ Settled(net)' /\ Events(net, batch)'
<1>1. Safe(net, backlog)'
    BY SafeCarried DEF Safe
<1>2. /\ Objects' = Objects /\ EventSet' = EventSet /\ \A s : BelongPort(s)' = BelongPort(s)
    BY NetsCarried
<1>3. Settled(net)'
    BY <1>2 DEF Settled, Calm
<1>4. Events(net, batch)'
    BY <1>2 DEF Events
<1> QED
    BY <1>1, <1>3, <1>4

\* What the net thread leaves alone.
LEMMA NetStepKeeps ==
    ASSUME IInv, config' = config, conn' = conn, app' = app, pc' \in {"connect", "send", "events"},
           pc' # "events" => batch' = << >>, edge' \in SUBSET PortNames, backlog' \in Backlogs,
           Safe(net', backlog'), Settled(net'), Events(net', batch'), Noticed'
    PROVE  IInv'
<1>1. Safe(net, backlog)' /\ Settled(net)' /\ Events(net, batch)'
    BY NetCarried
<1>2. config' \in Configs /\ (conn \in Maps(Fds, Nat))' /\ (app \in [1 .. config.threads -> WorkSet])'
    BY DEF IInv
<1> QED
    BY <1>1, <1>2 DEF IInv

LEMMA NoEvents ==
    ASSUME NEW n
    PROVE  Events(n, << >>)
BY DEF Events

LEMMA ConnectAllPeerKeeps ==
    ASSUME IInv, ConnectAllPeer, UNCHANGED <<batch, edge, backlog>>, UNCHANGED <<config, conn, app, links, msgs>>
    PROVE  IInv'
<1>1. /\ config \in Configs /\ pc = "connect" /\ batch = << >> /\ edge \in SUBSET PortNames /\ backlog \in Backlogs
      /\ Safe(net, backlog) /\ Settled(net) /\ Noticed
    BY DEF IInv, ConnectAllPeer
<1>2. pc' = "send" /\ batch' = << >> /\ edge' = edge /\ backlog' = backlog /\ config' = config /\ conn' = conn /\ app' = app
    BY <1>1 DEF ConnectAllPeer
<1>3. Safe(net', backlog) /\ Settled(net') /\ net'.starved = net.starved
    <2>1. CASE net' = net
        BY <1>1, <2>1
    <2>2. CASE \E o \in {"syn", "up"} \cup Fails : net' = ConnectPeers([net EXCEPT !.due = FALSE], o)
        <3> DEFINE d == [net EXCEPT !.due = FALSE]
        <3>1. PICK o \in {"syn", "up"} \cup Fails : net' = ConnectPeers(d, o)
            BY <2>2
        <3>2. Safe(d, backlog) /\ d.sock = net.sock /\ d.starved = net.starved
            <4>1. FALSE \in BOOLEAN
                OBVIOUS
            <4> QED
                BY <1>1, <4>1, DueKeeps
        <3> HIDE DEF d
        <3>3. Settled(d)
            BY <1>1, <3>2 DEF Settled, Calm
        <3> DEFINE m == ConnectPeers(d, o)
        <3>4. Safe(m, backlog) /\ Settled(m) /\ m.starved = d.starved
            BY <1>1, <3>2, <3>3, ConnectPeersKeep
        <3> HIDE DEF m
        <3> QED
            BY <3>1, <3>2, <3>4 DEF m
    <2> QED
        BY <2>1, <2>2 DEF ConnectAllPeer
<1>4. Noticed'
    BY <1>1, <1>2, <1>3 DEF Noticed
<1>5. Events(net', batch')
    BY <1>2, NoEvents
<1> QED
    BY <1>1, <1>2, <1>3, <1>4, <1>5, NetStepKeeps

LEMMA HandleTimeOutEventKeeps ==
    ASSUME IInv, HandleTimeOutEvent, UNCHANGED <<batch, edge, backlog, failures>>, UNCHANGED <<config, conn, app, links, msgs>>
    PROVE  IInv'
<1>1. /\ config \in Configs /\ batch = << >> /\ edge \in SUBSET PortNames /\ backlog \in Backlogs
      /\ Safe(net, backlog) /\ Settled(net) /\ Noticed
    BY DEF IInv, HandleTimeOutEvent
<1>2. pc' = "connect" /\ batch' = << >> /\ edge' = edge /\ backlog' = backlog /\ config' = config /\ conn' = conn /\ app' = app
    BY <1>1 DEF HandleTimeOutEvent
<1>3. PICK k \in 0 .. Len(net.timers) : net' = HandleTimeOuts(net, k)
    BY DEF HandleTimeOutEvent
<1>4. Safe(net', backlog) /\ Settled(net') /\ net'.starved = net.starved
    <2> DEFINE m == HandleTimeOuts(net, k)
    <2>1. Safe(m, backlog) /\ Settled(m) /\ m.starved = net.starved
        BY <1>1, HandleTimeOutsKeep
    <2> HIDE DEF m
    <2> QED
        BY <1>3, <2>1 DEF m
<1>5. Noticed'
    BY <1>1, <1>2, <1>4 DEF Noticed
<1>6. Events(net', batch')
    BY <1>2, NoEvents
<1> QED
    BY <1>1, <1>2, <1>4, <1>5, <1>6, NetStepKeeps

\* epoll_wait: what it finds is events, and every port that has an edge is among them.
Found(n) == {[port |-> "none", s |-> n.ptr[f], fd |-> f] : f \in {f \in 1 .. MaxFd : Ready(n, f)}}
Reported(ports) == {[port |-> p, s |-> 0, fd |-> 0] : p \in ports}

LEMMA FoundFinite ==
    ASSUME config \in Configs, NEW n, NEW e \in SUBSET PortNames
    PROVE  IsFiniteSet(Found(n) \cup Reported(e))
<1> DEFINE R == {f \in 1 .. MaxFd : Ready(n, f)}
           g == [f \in R |-> [port |-> "none", s |-> n.ptr[f], fd |-> f]]
           h == [p \in e |-> [port |-> p, s |-> 0, fd |-> 0]]
<1>1. IsFiniteSet(R)
    <2>1. IsFiniteSet(1 .. MaxFd)
        BY ConfigFacts, FS_Interval
    <2>2. R \in SUBSET (1 .. MaxFd)
        OBVIOUS
    <2> HIDE DEF R
    <2> QED
        BY <2>1, <2>2, FS_Subset
<1>2. IsFiniteSet(e)
    <2>1. IsFiniteSet({"inside", "outside"})
        <3>1. IsFiniteSet({"inside"}) /\ {"inside"} \cup {"outside"} = {"inside", "outside"}
            BY FS_Singleton
        <3> QED
            BY <3>1, FS_AddElement
    <2> QED
        BY <2>1, FS_Subset DEF PortNames
<1>3. IsFiniteSet(Found(n))
    <2>1. g \in Surjection(R, Found(n))
        BY DEF Surjection, Found
    <2> HIDE DEF g, R
    <2> QED
        BY <1>1, <2>1, FS_Surjection
<1>4. IsFiniteSet(Reported(e))
    <2>1. h \in Surjection(e, Reported(e))
        BY DEF Surjection, Reported
    <2> HIDE DEF h
    <2> QED
        BY <1>2, <2>1, FS_Surjection
<1> QED
    BY <1>3, <1>4, FS_Union

LEMMA OrderOfAll ==
    ASSUME NEW S, IsFiniteSet(S), NEW q \in SetToSeqs(S)
    PROVE  /\ q \in Seq(S) /\ \A i, j \in 1 .. Len(q) : q[i] = q[j] => i = j
           /\ \A x \in S : \E i \in 1 .. Len(q) : q[i] = x
<1> DEFINE N == Cardinality(S)
<1>1. N \in Nat
    BY FS_CardinalityType
<1>2. q \in [1 .. N -> S] /\ \A i, j \in 1 .. N : i # j => q[i] # q[j]
    BY DEF SetToSeqs
<1> HIDE DEF N
<1>3. q \in Seq(S) /\ Len(q) = N
    BY <1>1, <1>2
<1>4. q \in Injection(1 .. N, S)
    BY <1>2 DEF Injection, IsInjective
<1>5. Cardinality(1 .. N) = Cardinality(S)
    BY <1>1, FS_Interval DEF N
<1>6. q \in Surjection(1 .. N, S)
    BY <1>4, <1>5, FS_Injection
<1>7. \A x \in S : \E i \in 1 .. N : q[i] = x
    BY <1>6 DEF Surjection
<1> QED
    BY <1>2, <1>3, <1>7

LEMMA WaitFinds ==
    ASSUME config \in Configs, NEW n, NEW b, Safe(n, b), NEW e \in SUBSET PortNames,
           NEW q \in SetToSeqs(Found(n) \cup Reported(e))
    PROVE  Events(n, q) /\ \A p \in e : \E i \in 1 .. Len(q) : q[i].port = p
<1> DEFINE S == Found(n) \cup Reported(e)
<1>1. IsFiniteSet(S)
    BY FoundFinite
<1>2. n \in Nets /\ n.ptr \in [Fds -> Objects \cup {0}] /\ (~n.replaced => Pointed(n))
    BY NetTyped DEF Safe, Accounted
<1>3. \A x \in Found(n) : /\ x \in EventSet /\ x.port = "none" /\ x.s \in Objects /\ x.fd \in Fds
                          /\ x.s = n.ptr[x.fd] /\ (~n.replaced => n.sock[x.s].fd = x.fd)
    <2> TAKE x \in Found(n)
    <2>1. PICK f \in Fds : Ready(n, f) /\ x = [port |-> "none", s |-> n.ptr[f], fd |-> f]
        BY DEF Found, Fds
    <2>2. n.ptr[f] # 0
        BY <2>1 DEF Ready
    <2>3. n.ptr[f] \in Objects
        BY <1>2, <2>2
    <2>4. ~n.replaced => n.sock[n.ptr[f]].fd = f
        BY <1>2, <2>2 DEF Pointed
    <2> QED
        BY <2>1, <2>3, <2>4 DEF EventSet
<1>4. \A x \in Reported(e) : x \in EventSet /\ x.port # "none" /\ x.s = 0
    BY DEF Reported, EventSet, PortNames
<1>5. \A x, y \in Found(n) : x.fd = y.fd => x = y
    BY DEF Found
<1>6. \A p \in e : \E x \in S : x.port = p
    <2> TAKE p \in e
    <2>1. [port |-> p, s |-> 0, fd |-> 0] \in S
        BY DEF Reported
    <2> QED
        BY <2>1
<1>7. \A x \in S : x \in Found(n) \/ x \in Reported(e)
    OBVIOUS
<1> HIDE DEF S
<1>8. /\ q \in Seq(S) /\ \A i, j \in 1 .. Len(q) : q[i] = q[j] => i = j
      /\ \A x \in S : \E i \in 1 .. Len(q) : q[i] = x
    BY <1>1, OrderOfAll, SMTT(30), Zenon DEF S
<1>9. \A i \in 1 .. Len(q) : q[i] \in S
    BY <1>8
<1>10. q \in Seq(EventSet)
    <2>1. S \subseteq EventSet
        BY <1>3, <1>4, <1>7
    <2> QED
        BY <1>8, <2>1
<1>11. \A i \in 1 .. Len(q) : q[i].port = "none" => q[i] \in Found(n)
    BY <1>4, <1>7, <1>9
<1>12. \A i \in 1 .. Len(q) : q[i].port # "none" => q[i].s = 0
    BY <1>3, <1>4, <1>7, <1>9
<1>13. \A i, j \in 1 .. Len(q) : q[i].port = "none" /\ q[j].port = "none" /\ q[i].fd = q[j].fd => i = j
    BY <1>5, <1>8, <1>11
<1> QED
    BY <1>3, <1>6, <1>8, <1>10, <1>11, <1>12, <1>13, SMTT(30), Zenon DEF Events

LEMMA SendMessagesKeeps ==
    ASSUME IInv, SendMessages, UNCHANGED backlog, UNCHANGED <<config, conn, app, links, msgs>>
    PROVE  IInv'
<1>1. /\ config \in Configs /\ batch = << >> /\ edge \in SUBSET PortNames /\ backlog \in Backlogs
      /\ Safe(net, backlog) /\ Settled(net) /\ Noticed
    BY DEF IInv, SendMessages
<1>2. pc' = "events" /\ backlog' = backlog /\ config' = config /\ conn' = conn /\ app' = app
    BY DEF SendMessages
<1>3. PICK noticed \in BOOLEAN, ok \in BOOLEAN :
          net' = SendMessagesToClient(SendMessagesToServer(net, noticed, ok), noticed)
    BY DEF SendMessages
<1>4. Safe(net', backlog) /\ Settled(net') /\ net'.starved = net.starved
    <2> DEFINE p == SendMessagesToServer(net, noticed, ok)
               m == SendMessagesToClient(p, noticed)
    <2>1. Safe(p, backlog) /\ Settled(p) /\ p.starved = net.starved
        BY <1>1, ToServerKeeps
    <2> HIDE DEF p
    <2>2. Safe(m, backlog) /\ Settled(m) /\ m.starved = p.starved
        BY <1>1, <2>1, ToClientKeeps
    <2> HIDE DEF m
    <2> QED
        BY <1>3, <2>1, <2>2 DEF m, p
<1>5. edge' = {} /\ batch' \in SetToSeqs(Found(net') \cup Reported(edge))
    BY DEF SendMessages, Wait, Found, Reported
<1>6. Events(net', batch') /\ \A p \in edge : \E i \in 1 .. Len(batch') : batch'[i].port = p
    BY <1>1, <1>4, <1>5, WaitFinds, SMTT(30), Zenon
<1>7. Noticed'
    BY <1>1, <1>2, <1>4, <1>5, <1>6 DEF Noticed
<1>8. edge' \in SUBSET PortNames
    BY <1>5
<1> QED
    BY <1>1, <1>2, <1>4, <1>6, <1>7, <1>8, NetStepKeeps

\* ReadEvent of a socket: the others, and their events, are as they were.
LEMMA EventsBeside ==
    ASSUME NEW n, NEW m, NEW s \in Objects, NEW q, Events(n, q), Others(n, m, s), n.replaced => m.replaced,
           ~n.replaced => \A i \in 1 .. Len(q) : q[i].port = "none" => q[i].s # s
    PROVE  Events(m, q)
BY DEF Events, Others

LEMMA EventsTail ==
    ASSUME NEW n, NEW q, Events(n, q), q # << >>
    PROVE  /\ Events(n, Tail(q)) /\ Head(q) = q[1]
           /\ \A i \in 2 .. Len(q) : \E j \in 1 .. Len(Tail(q)) : Tail(q)[j] = q[i]
           /\ q[1].port = "none" => \A i \in 1 .. Len(Tail(q)) : Tail(q)[i].port = "none" => Tail(q)[i].fd # q[1].fd
<1>1. q \in Seq(EventSet)
    BY DEF Events
<1>2. /\ Tail(q) \in Seq(EventSet) /\ Len(Tail(q)) = Len(q) - 1 /\ Len(q) \in Nat /\ Len(q) # 0 /\ Head(q) = q[1]
      /\ \A i \in 1 .. Len(Tail(q)) : Tail(q)[i] = q[i + 1] /\ i + 1 \in 1 .. Len(q)
    BY <1>1
<1>3. \A i \in 2 .. Len(q) : i - 1 \in 1 .. Len(Tail(q)) /\ Tail(q)[i - 1] = q[i]
    BY <1>2
<1>4. \A i \in 1 .. Len(Tail(q)) : /\ Tail(q)[i].port = "none" => Tail(q)[i].s \in Objects /\ Tail(q)[i].fd \in Fds
                                   /\ Tail(q)[i].port # "none" => Tail(q)[i].s = 0
    BY <1>2 DEF Events
<1>5. \A i, j \in 1 .. Len(Tail(q)) :
          Tail(q)[i].port = "none" /\ Tail(q)[j].port = "none" /\ Tail(q)[i].fd = Tail(q)[j].fd => i = j
    <2> TAKE i, j \in 1 .. Len(Tail(q))
    <2> HAVE Tail(q)[i].port = "none" /\ Tail(q)[j].port = "none" /\ Tail(q)[i].fd = Tail(q)[j].fd
    <2>1. i + 1 = j + 1
        BY <1>2 DEF Events
    <2> QED
        BY <1>2, <2>1
<1>6. ~n.replaced => \A i \in 1 .. Len(Tail(q)) : Tail(q)[i].port = "none" => n.sock[Tail(q)[i].s].fd = Tail(q)[i].fd
    BY <1>2 DEF Events
<1>7. Events(n, Tail(q))
    BY <1>2, <1>4, <1>5, <1>6 DEF Events
<1>8. ASSUME q[1].port = "none", NEW i \in 1 .. Len(Tail(q)), Tail(q)[i].port = "none", Tail(q)[i].fd = q[1].fd
      PROVE  FALSE
    <2>1. 1 \in 1 .. Len(q) /\ i + 1 \in 1 .. Len(q) /\ q[i + 1].port = "none" /\ q[i + 1].fd = q[1].fd
        BY <1>2, <1>8
    <2>2. i + 1 = 1
        BY <1>8, <2>1 DEF Events
    <2> QED
        BY <1>2, <2>2
<1> QED
    BY <1>2, <1>3, <1>7, <1>8

LEMMA ReadEventKeeps ==
    ASSUME IInv, HandleMessage, Head(batch).port = "none", batch' = Tail(batch), UNCHANGED <<backlog, edge>>,
           NEW k \in {0, config.msgs + 1}, NEW ok \in BOOLEAN, net' = OnRead(net, Head(batch).s, k, ok),
           UNCHANGED <<config, conn, app, links, msgs>>
    PROVE  IInv'
<1> DEFINE s == Head(batch).s
           m == OnRead(net, s, k, ok)
<1>1. /\ config \in Configs /\ pc = "events" /\ batch # << >> /\ edge \in SUBSET PortNames /\ backlog \in Backlogs
      /\ Safe(net, backlog) /\ Settled(net) /\ Noticed /\ Events(net, batch)
    BY DEF IInv, HandleMessage
<1>2. /\ Events(net, Tail(batch)) /\ Head(batch) = batch[1]
      /\ \A i \in 2 .. Len(batch) : \E j \in 1 .. Len(Tail(batch)) : Tail(batch)[j] = batch[i]
      /\ batch[1].port = "none" =>
            \A i \in 1 .. Len(Tail(batch)) : Tail(batch)[i].port = "none" => Tail(batch)[i].fd # batch[1].fd
    BY <1>1, EventsTail
<1>3. batch \in Seq(EventSet) /\ 1 \in 1 .. Len(batch) /\ Len(batch) \in Nat
    BY <1>1 DEF Events
<1>4. s \in Objects /\ (~net.replaced => net.sock[s].fd = batch[1].fd)
    BY <1>1, <1>2, <1>3 DEF Events
<1> HIDE DEF s
<1>5. k \in Nat
    BY <1>1, ConfigFacts
<1>6. Safe(m, backlog) /\ Settled(m) /\ Beside(net, m, s)
    BY <1>1, <1>4, <1>5, OnReadKeeps
<1>7. net' = m
    BY DEF s
<1> HIDE DEF m
<1>8. ~net.replaced => \A i \in 1 .. Len(Tail(batch)) : Tail(batch)[i].port = "none" => Tail(batch)[i].s # s
    BY <1>2, <1>4 DEF Events
<1>9. Events(net', batch')
    BY <1>2, <1>4, <1>6, <1>7, <1>8, EventsBeside DEF Beside
<1>10. Noticed'
    <2>1. net'.starved = net.starved
        BY <1>6, <1>7 DEF Beside
    <2>2. ASSUME NEW p \in PortNames, NEW i \in 1 .. Len(batch), batch[i].port = p
          PROVE  \E j \in 1 .. Len(batch') : batch'[j].port = p
        <3>1. i # 1
            BY <1>2, <2>2 DEF PortNames
        <3>2. i \in 2 .. Len(batch)
            BY <1>3, <3>1
        <3> QED
            BY <1>2, <2>2, <3>2
    <2> QED
        BY <1>1, <2>1, <2>2 DEF Noticed
<1>11. pc' = "events"
    BY <1>1 DEF HandleMessage
<1> QED
    BY <1>1, <1>6, <1>7, <1>9, <1>10, <1>11, NetStepKeeps

LEMMA AcceptEndsKeeps ==
    ASSUME IInv, HandleMessage, Head(batch).port # "none", AcceptEnds(Head(batch).port), UNCHANGED edge,
           UNCHANGED <<config, conn, app, links, msgs>>
    PROVE  IInv'
<1> DEFINE port == Head(batch).port
           m == [net EXCEPT !.starved = IF backlog[port] = << >> THEN @ \ {port} ELSE @ \cup {port}]
<1>1. /\ config \in Configs /\ pc = "events" /\ batch # << >> /\ edge \in SUBSET PortNames /\ backlog \in Backlogs
      /\ Safe(net, backlog) /\ Settled(net) /\ Noticed /\ Events(net, batch)
    BY DEF IInv, HandleMessage
<1>2. /\ Events(net, Tail(batch)) /\ Head(batch) = batch[1]
      /\ \A i \in 2 .. Len(batch) : \E j \in 1 .. Len(Tail(batch)) : Tail(batch)[j] = batch[i]
    BY <1>1, EventsTail
<1>3. batch \in Seq(EventSet) /\ 1 \in 1 .. Len(batch) /\ Len(batch) \in Nat
    BY <1>1 DEF Events
<1>4. port \in PortNames
    <2>1. batch[1] \in EventSet
        BY <1>3
    <2> QED
        BY <1>2, <2>1 DEF EventSet
<1>5. net' = m /\ batch' = Tail(batch) /\ backlog' = backlog
    BY DEF AcceptEnds
<1>6. net \in Nets
    BY <1>1 DEF Safe
<1> HIDE DEF port
<1>7. /\ m \in Nets /\ Same(net, m, {"due", "starved", "listening"}) /\ m.sock = net.sock /\ m.replaced = net.replaced
      /\ \A p \in PortNames : p # port => (p \in m.starved <=> p \in net.starved)
      /\ backlog[port] # << >> => port \in m.starved
    <2>1. /\ net.starved \ {port} \in PortSets
          /\ net.starved \cup {port} \in PortSets
        BY <1>4, <1>6 DEF Nets, PortSets
    <2> QED
        BY <1>6, <2>1 DEF Nets, Same, Fields
<1> HIDE DEF m
<1>8. Safe(m, backlog)
    BY <1>1, <1>7, FlagsKeep
<1>9. Settled(m)
    BY <1>1, <1>7 DEF Settled, Calm
<1>10. Events(net', batch')
    BY <1>2, <1>5, <1>7 DEF Events
<1>11. Noticed'
    <2> SUFFICES ASSUME NEW p \in PortNames, ToSet(backlog[p]) # {}
                 PROVE  p \in edge' \/ p \in m.starved \/ \E i \in 1 .. Len(batch') : batch'[i].port = p
        BY <1>5 DEF Noticed
    <2>1. CASE p = port
        <3>1. backlog[port] # << >>
            BY <1>1, <1>4, <2>1, ElementsTyped DEF Backlogs
        <3> QED
            BY <1>7, <2>1, <3>1
    <2>2. CASE p # port
        <3>1. p \in edge \/ p \in net.starved \/ \E i \in 1 .. Len(batch) : batch[i].port = p
            BY <1>1 DEF Noticed
        <3>2. ASSUME NEW i \in 1 .. Len(batch), batch[i].port = p
              PROVE  \E j \in 1 .. Len(batch') : batch'[j].port = p
            <4>1. i # 1
                BY <1>2, <2>2, <3>2 DEF port
            <4>2. i \in 2 .. Len(batch)
                BY <1>3, <4>1
            <4> QED
                BY <1>2, <1>5, <3>2, <4>2
        <3> QED
            BY <1>7, <2>2, <3>1, <3>2
    <2> QED
        BY <2>1, <2>2
<1>12. pc' = "events"
    BY <1>1 DEF HandleMessage
<1> QED
    BY <1>1, <1>5, <1>8, <1>9, <1>10, <1>11, <1>12, NetStepKeeps

\* What accept takes out of the backlog was nowhere else.
Without(b, port) == [b EXCEPT ![port] = Tail(@)]

LEMMA AcceptedLeaves ==
    ASSUME NEW n, NEW b \in Backlogs, Waiting(n, b), NEW port \in PortNames, b[port] # << >>
    PROVE  LET c == Without(b, port) IN
           /\ c \in Backlogs /\ Head(b[port]) \in ToSet(b[port])
           /\ \A p \in PortNames : ToSet(c[p]) \subseteq ToSet(b[p]) \ {Head(b[port])} /\ IsInjective(c[p])
<1> DEFINE l == Head(b[port])
           c == Without(b, port)
<1>1. \A p \in PortNames : b[p] \in Seq(Nat)
    BY DEF Backlogs
<1>2. /\ l \in ToSet(b[port]) /\ Tail(b[port]) \in Seq(Nat)
      /\ ToSet(b[port]) = ToSet(Tail(b[port])) \cup {l}
      /\ IsInjective(b[port]) => IsInjective(Tail(b[port])) /\ l \notin ToSet(Tail(b[port]))
    BY <1>1, TailElements
<1>3. c \in Backlogs /\ c[port] = Tail(b[port]) /\ \A p \in PortNames : p # port => c[p] = b[p]
    BY <1>2 DEF Backlogs, Without
<1> HIDE DEF l, c
<1>4. \A p \in PortNames : p # port => l \notin ToSet(b[p])
    <2> TAKE p \in PortNames
    <2> HAVE p # port
    <2>1. p = "outside" <=> port # "outside"
        BY DEF PortNames
    <2>2. port = "outside" <=> n.link[l].who = <<Client, 0>>
        BY <1>2 DEF Waiting
    <2>3. ASSUME l \in ToSet(b[p]) PROVE p = "outside" <=> n.link[l].who = <<Client, 0>>
        BY <2>3 DEF Waiting
    <2> QED
        BY <2>1, <2>2, <2>3
<1>5. \A p \in PortNames : IsInjective(b[p])
    BY DEF Waiting
<1>6. ASSUME NEW p \in PortNames
      PROVE  ToSet(c[p]) \subseteq ToSet(b[p]) \ {l} /\ IsInjective(c[p])
    <2>1. CASE p = port
        BY <1>2, <1>3, <1>5, <2>1
    <2>2. CASE p # port
        BY <1>3, <1>4, <1>5, <2>2
    <2> QED
        BY <2>1, <2>2
<1> QED
    BY <1>2, <1>3, <1>6 DEF l, c

LEMMA AcceptNextKeeps ==
    ASSUME IInv, HandleMessage, Head(batch).port # "none", AcceptNext(Head(batch).port), UNCHANGED <<batch, edge>>,
           UNCHANGED <<config, conn, app, links, msgs>>
    PROVE  IInv'
<1> DEFINE port == Head(batch).port
           l == Head(backlog[port])
           fd == NextFd(net)
           s == Head(net.ports[port])
           m == OnAccept(net, port, fd, l)
<1>1. /\ config \in Configs /\ pc = "events" /\ batch # << >> /\ edge \in SUBSET PortNames /\ backlog \in Backlogs
      /\ Safe(net, backlog) /\ Settled(net) /\ Noticed /\ Events(net, batch)
    BY DEF IInv, HandleMessage
<1>2. batch \in Seq(EventSet) /\ 1 \in 1 .. Len(batch) /\ Head(batch) = batch[1]
    <2>1. batch \in Seq(EventSet)
        BY <1>1 DEF Events
    <2> QED
        BY <1>1, <2>1
<1>3. port \in PortNames
    <2>1. batch[1] \in EventSet
        BY <1>2
    <2> QED
        BY <1>2, <2>1 DEF EventSet
<1>4. /\ backlog[port] # << >> /\ FreeFds(net) # {} /\ backlog' = [backlog EXCEPT ![port] = Tail(@)] /\ net' = m
      /\ pc' = "events" /\ batch' = batch /\ edge' = edge
    BY <1>1 DEF AcceptNext, HandleMessage
<1>5. fd \in Fds /\ net.desc[fd] = 0
    BY <1>1, <1>4, NextFdIsFree
<1> HIDE DEF port
<1>6. /\ backlog' \in Backlogs /\ l \in ToSet(backlog[port])
      /\ \A p \in PortNames : ToSet(backlog'[p]) \subseteq ToSet(backlog[p]) \ {l} /\ IsInjective(backlog'[p])
    <2>1. Waiting(net, backlog)
        BY <1>1 DEF Safe
    <2> HIDE DEF m
    <2>2. backlog' = Without(backlog, port)
        BY <1>4 DEF Without
    <2> DEFINE c == Without(backlog, port)
    <2>3. backlog \in Backlogs /\ backlog[port] # << >>
        BY <1>1, <1>4
    <2>4. /\ c \in Backlogs /\ Head(backlog[port]) \in ToSet(backlog[port])
          /\ \A p \in PortNames : ToSet(c[p]) \subseteq ToSet(backlog[p]) \ {Head(backlog[port])} /\ IsInjective(c[p])
        BY ONLY <1>3, <2>1, <2>3, AcceptedLeaves
    <2> QED
        BY <2>2, <2>4
<1>7. Safe(net', backlog') /\ Settled(net') /\ Events(net', batch) /\ net'.starved = net.starved
    <2>1. CASE net.ports[port] = << >>
        <3>1. net' = net
            BY <1>4, <2>1 DEF OnAccept
        <3>2. Safe(net, backlog')
            <4>1. \A p \in PortNames : ToSet(backlog'[p]) \subseteq ToSet(backlog[p]) /\ IsInjective(backlog'[p])
                BY <1>6
            <4> QED
                BY ONLY <1>1, <4>1, ShorterBacklogKeeps
        <3> QED
            BY <1>1, <3>1, <3>2
    <2>2. CASE net.ports[port] # << >>
        <3> HIDE DEF l, fd
        <3>a. config \in Configs /\ Safe(net, backlog)
            BY <1>1
        <3>b. \A p \in PortNames : ToSet(backlog'[p]) \subseteq ToSet(backlog[p]) \ {l} /\ IsInjective(backlog'[p])
            BY <1>6
        <3>c. l \in ToSet(backlog[port])
            BY <1>6
        <3>1. /\ Safe(m, backlog') /\ s \in Objects /\ BelongPort(s) = port /\ Others(net, m, s)
              /\ m.sock[s].status = "Connected" /\ m.replaced = net.replaced /\ m.starved = net.starved
              /\ (~net.replaced => net.sock[s].fd = 0)
            BY ONLY <3>a, <3>b, <3>c, <1>3, <1>5, <2>2, OnAcceptKeeps, ZenonT(40)
        <3> HIDE DEF m, s
        <3>2. Calm(m, s)
            BY <1>3, <3>1 DEF Calm, PortNames
        <3>3. Settled(m)
            BY <1>1, <3>1, <3>2, SettledBeside
        <3>4. ~net.replaced => \A i \in 1 .. Len(batch) : batch[i].port = "none" => batch[i].s # s
            <4>1. 0 \notin Fds
                BY DEF Fds
            <4> QED
                BY <1>1, <3>1, <4>1 DEF Events
        <3>5. Events(m, batch)
            BY <1>1, <3>1, <3>4, EventsBeside
        <3> QED
            BY <1>4, <3>1, <3>3, <3>5
    <2> QED
        BY <2>1, <2>2
<1>8. Noticed'
    <2>1. \A p \in PortNames : ToSet(backlog'[p]) # {} => ToSet(backlog[p]) # {}
        BY <1>6
    <2> QED
        BY <1>1, <1>4, <1>7, <2>1 DEF Noticed
<1> QED
    BY <1>1, <1>4, <1>6, <1>7, <1>8, NetStepKeeps

LEMMA NetThreadKeeps ==
    ASSUME IInv, NetStep
    PROVE  IInv'
<1>1. UNCHANGED <<config, conn, app, links, msgs>>
    BY DEF NetStep
<1>2. CASE ConnectAllPeer /\ UNCHANGED <<batch, edge, backlog>>
    BY <1>1, <1>2, ConnectAllPeerKeeps
<1>3. CASE SendMessages /\ UNCHANGED backlog
    BY <1>1, <1>3, SendMessagesKeeps
<1>4. CASE HandleMessage /\ UNCHANGED edge
    <2>1. \/ /\ Head(batch).port = "none" /\ batch' = Tail(batch) /\ UNCHANGED backlog
             /\ \E k \in {0, config.msgs + 1}, ok \in BOOLEAN : net' = OnRead(net, Head(batch).s, k, ok)
          \/ Head(batch).port # "none" /\ AcceptEnds(Head(batch).port)
          \/ Head(batch).port # "none" /\ AcceptNext(Head(batch).port) /\ UNCHANGED batch
        BY <1>4 DEF HandleMessage, Accept
    <2>2. CASE /\ Head(batch).port = "none" /\ batch' = Tail(batch) /\ UNCHANGED backlog
               /\ \E k \in {0, config.msgs + 1}, ok \in BOOLEAN : net' = OnRead(net, Head(batch).s, k, ok)
        <3>1. PICK k \in {0, config.msgs + 1}, ok \in BOOLEAN : net' = OnRead(net, Head(batch).s, k, ok)
            BY <2>2
        <3> QED
            BY <1>1, <1>4, <2>2, <3>1, ReadEventKeeps
    <2>3. CASE Head(batch).port # "none" /\ AcceptEnds(Head(batch).port)
        BY <1>1, <1>4, <2>3, AcceptEndsKeeps
    <2>4. CASE Head(batch).port # "none" /\ AcceptNext(Head(batch).port) /\ UNCHANGED batch
        BY <1>1, <1>4, <2>4, AcceptNextKeeps
    <2> QED
        BY <2>1, <2>2, <2>3, <2>4
<1>5. CASE HandleTimeOutEvent /\ UNCHANGED <<batch, edge, backlog, failures>>
    BY <1>1, <1>5, HandleTimeOutEventKeeps
<1> QED
    BY <1>2, <1>3, <1>4, <1>5 DEF NetStep, NetThread

-----------------------------------------------------------------------------
(* The application threads.                                                *)

\* What leaves the sockets alone.
LEMMA OtherStepKeeps ==
    ASSUME IInv, UNCHANGED <<config, pc, batch>>, edge' \in SUBSET PortNames, backlog' \in Backlogs, Noticed',
           net' \in Nets, net'.sock = net.sock, net'.replaced = net.replaced,
           Holding(net'), Waiting(net', backlog'), Quiet(net'), Clients(net'),
           Accounted(net'), Routed(net'), Packets(net', backlog', app'), Replies(net', backlog'),
           config.threads = 1 => Ended(net', conn', app'),
           conn' \in Maps(Fds, Nat), app' \in [1 .. config.threads -> WorkSet]
    PROVE  IInv'
<1>1. /\ config \in Configs /\ pc \in {"connect", "send", "events"} /\ (pc # "events" => batch = << >>)
      /\ Settled(net) /\ Events(net, batch)
    BY DEF IInv
<1>2. config' = config /\ pc' = pc /\ batch' = batch
    OBVIOUS
<1>3. Safe(net, backlog)'
    BY <1>2, SafeCarried
<1>4. /\ Objects' = Objects /\ EventSet' = EventSet /\ \A s : BelongPort(s)' = BelongPort(s)
    BY <1>2, NetsCarried
<1>5. Settled(net)'
    BY <1>1, <1>4 DEF Settled, Calm
<1>6. Events(net, batch)'
    BY <1>1, <1>2, <1>4 DEF Events
<1>7. (app \in [1 .. config.threads -> WorkSet])' /\ (conn \in Maps(Fds, Nat))'
    BY <1>2 DEF WorkSet
<1>8. config' \in Configs /\ pc' \in {"connect", "send", "events"} /\ (pc' # "events" => batch' = << >>)
    BY <1>1, <1>2
<1> QED
    BY <1>3, <1>5, <1>6, <1>7, <1>8 DEF IInv

LEMMA AppKeepsSockets ==
    ASSUME NEW n, NEW m \in Nets, NEW b, Safe(n, b), Same(n, m, {"recvCS", "sendCS"})
    PROVE  /\ Holding(m) /\ Quiet(m) /\ Clients(m) /\ Accounted(m) /\ Routed(m) /\ Waiting(m, b) /\ Replies(m, b)
           /\ m.sock = n.sock /\ m.replaced = n.replaced /\ m.starved = n.starved
           /\ m.link = n.link /\ m.desc = n.desc /\ m.silent = n.silent
           /\ \A packet : PacketOK(n, b, packet) => PacketOK(m, b, packet)
<1>1. /\ n \in Nets /\ Holding(n) /\ Waiting(n, b) /\ Quiet(n) /\ Clients(n)
      /\ Accounted(n) /\ Routed(n) /\ Replies(n, b)
    BY DEF Safe
<1>2. /\ m.sock = n.sock /\ m.replaced = n.replaced /\ m.starved = n.starved
      /\ m.link = n.link /\ m.desc = n.desc /\ m.silent = n.silent
      /\ Same(n, m, {"recvCS", "sendCS", "due", "silent", "starved", "listening"})
    BY DEF Same, Fields
<1>3. Holding(m) /\ Quiet(m) /\ Clients(m) /\ Accounted(m) /\ Routed(m)
    BY <1>1, <1>2, SocketsKept
<1>4. Waiting(m, b) /\ Replies(m, b)
    BY <1>1, <1>2 DEF Waiting, Replies, Alive
<1>5. \A packet : PacketOK(n, b, packet) => PacketOK(m, b, packet)
    BY <1>2 DEF PacketOK
<1> QED
    BY <1>2, <1>3, <1>4, <1>5

\* The first packet of the queue goes to a thread that has none.
LEMMA TakenEnds ==
    ASSUME NEW n \in Nets, NEW m, n.recvCS # << >>, m.recvCS = Tail(n.recvCS), m.desc = n.desc, m.silent = n.silent,
           m.link = n.link, NEW c, NEW a, NEW d, DOMAIN a = {1}, DOMAIN d = {1}, a[1].packet = NoPacket,
           d[1].packet = Head(n.recvCS), Ended(n, c, a)
    PROVE  Ended(m, c, d)
<1>1. n.recvCS \in Seq(PacketSet) /\ Len(n.recvCS) \in Nat
    BY NetTyped
<1>2. /\ Head(n.recvCS) = n.recvCS[1] /\ 1 \in 1 .. Len(n.recvCS) /\ Len(m.recvCS) = Len(n.recvCS) - 1
      /\ \A i \in 1 .. Len(m.recvCS) : m.recvCS[i] = n.recvCS[i + 1] /\ i + 1 \in 1 .. Len(n.recvCS)
      /\ \A j \in 2 .. Len(n.recvCS) : j - 1 \in 1 .. Len(m.recvCS) /\ m.recvCS[j - 1] = n.recvCS[j]
    BY <1>1
<1>3. \A fd, l : \A i \in Nat : Ending(n, fd, l, i + 1) => Ending(m, fd, l, i)
    <2> TAKE fd, l
    <2> TAKE i \in Nat
    <2> SUFFICES ASSUME NEW j \in 1 .. Len(n.recvCS), j > i + 1, n.recvCS[j] = CloseOf(fd, l)
                 PROVE  \E k \in 1 .. Len(m.recvCS) : k > i /\ m.recvCS[k] = CloseOf(fd, l)
        BY DEF Ending
    <2>1. j \in 2 .. Len(n.recvCS) /\ j - 1 > i
        BY <1>1
    <2> QED
        BY <1>2, <2>1
<1>4. ASSUME NEW i \in 1 .. Len(m.recvCS)
      PROVE  LET packet == m.recvCS[i] IN packet.close \/ Ending(m, packet.fd, packet.link, i)
    <2>1. m.recvCS[i] = n.recvCS[i + 1] /\ i + 1 \in 1 .. Len(n.recvCS) /\ i \in Nat
        BY <1>2
    <2>2. n.recvCS[i + 1].close \/ Ending(n, n.recvCS[i + 1].fd, n.recvCS[i + 1].link, i + 1)
        BY <2>1 DEF Ended
    <2> QED
        BY <1>3, <2>1, <2>2
<1>5. LET packet == d[1].packet IN packet.close \/ Ending(m, packet.fd, packet.link, 0)
    <2>1. n.recvCS[1].close \/ Ending(n, n.recvCS[1].fd, n.recvCS[1].link, 0 + 1)
        BY <1>2 DEF Ended
    <2> QED
        BY <1>2, <1>3, <2>1
<1>6. ASSUME NEW fd \in DOMAIN c
      PROVE  /\ fd \in Fds /\ c[fd] \in 1 .. Len(m.link) /\ m.link[c[fd]].who = <<Client, 0>>
             /\ Ending(m, fd, c[fd], 0) \/ d[1].packet = CloseOf(fd, c[fd])
    <2>1. /\ fd \in Fds /\ c[fd] \in 1 .. Len(n.link) /\ n.link[c[fd]].who = <<Client, 0>>
          /\ Ending(n, fd, c[fd], 0) \/ a[1].packet = CloseOf(fd, c[fd])
        BY DEF Ended
    <2>2. a[1].packet # CloseOf(fd, c[fd])
        BY DEF NoPacket, CloseOf
    <2>3. ASSUME NEW j \in 1 .. Len(n.recvCS), n.recvCS[j] = CloseOf(fd, c[fd])
          PROVE  Ending(m, fd, c[fd], 0) \/ d[1].packet = CloseOf(fd, c[fd])
        <3>1. CASE j = 1
            BY <1>2, <2>3, <3>1
        <3>2. CASE j # 1
            <4>1. j \in 2 .. Len(n.recvCS) /\ j - 1 > 0
                BY <1>1, <3>2
            <4> QED
                BY <1>2, <2>3, <4>1 DEF Ending
        <3> QED
            BY <3>1, <3>2
    <2>4. Ending(m, fd, c[fd], 0) \/ d[1].packet = CloseOf(fd, c[fd])
        BY <2>1, <2>2, <2>3 DEF Ending
    <2> QED
        BY <2>1, <2>4
<1> QED
    BY <1>4, <1>5, <1>6 DEF Ended

LEMMA GetPacketKeeps ==
    ASSUME IInv, NEW t \in DOMAIN app, GetPacket(t),
           UNCHANGED <<config, pc, batch, edge, backlog, links, msgs, failures>>
    PROVE  IInv'
<1> DEFINE packet == Head(net.recvCS)
           work == [packet |-> packet, missing |-> ~packet.close /\ packet.fd \notin DOMAIN conn]
<1>1. /\ config \in Configs /\ edge \in SUBSET PortNames /\ backlog \in Backlogs
      /\ conn \in Maps(Fds, Nat) /\ app \in [1 .. config.threads -> WorkSet]
      /\ Safe(net, backlog) /\ Noticed
    BY DEF IInv
<1>2. /\ app[t] = NoWork /\ net.recvCS # << >> /\ net' = PopRecvCSQueue(net)
      /\ app' = [app EXCEPT ![t] = work] /\ conn' = conn
    BY DEF GetPacket
<1>3. net \in Nets /\ Packets(net, backlog, app) /\ (config.threads = 1 => Ended(net, conn, app))
    BY <1>1 DEF Safe
<1>4. net' \in Nets /\ net'.recvCS = Tail(net.recvCS) /\ Same(net, net', {"recvCS"})
    <2> DEFINE m == PopRecvCSQueue(net)
    <2>1. m \in Nets /\ m.recvCS = Tail(net.recvCS) /\ Same(net, m, {"recvCS"})
        BY <1>2, <1>3, PopRecvEffect
    <2> HIDE DEF m
    <2> QED
        BY <1>2, <2>1 DEF m
<1>5. /\ packet \in ToSet(net.recvCS) /\ packet \in PacketSet /\ ToSet(net'.recvCS) \subseteq ToSet(net.recvCS)
    <2>1. net.recvCS \in Seq(PacketSet)
        BY <1>3, NetTyped
    <2> QED
        BY <1>2, <1>4, <2>1, TailElements
<1>6. work \in WorkSet
    <2>1. (~packet.close /\ packet.fd \notin DOMAIN conn) \in BOOLEAN
        OBVIOUS
    <2> HIDE DEF packet
    <2> QED
        BY <1>5, <2>1 DEF WorkSet
<1>7. work.packet = packet
    OBVIOUS
<1> HIDE DEF work, packet
<1>8. app' \in [1 .. config.threads -> WorkSet]
    BY <1>1, <1>2, <1>6
<1>9. DOMAIN app' = DOMAIN app /\ app'[t] = work /\ \A u \in DOMAIN app : u # t => app'[u] = app[u]
    BY <1>1, <1>2
<1>10. Same(net, net', {"recvCS", "sendCS"}) /\ net'.sendCS = net.sendCS
    BY <1>4 DEF Same, Fields
<1>11. /\ Holding(net') /\ Quiet(net') /\ Clients(net') /\ Accounted(net') /\ Routed(net')
       /\ Waiting(net', backlog) /\ Replies(net', backlog)
       /\ net'.sock = net.sock /\ net'.replaced = net.replaced /\ net'.starved = net.starved
       /\ net'.link = net.link /\ net'.desc = net.desc /\ net'.silent = net.silent
       /\ \A q : PacketOK(net, backlog, q) => PacketOK(net', backlog, q)
    BY <1>1, <1>4, <1>10, AppKeepsSockets
<1>12. Packets(net', backlog, app')
    BY <1>3, <1>5, <1>7, <1>9, <1>10, <1>11 DEF Packets
<1>13. config.threads = 1 => Ended(net', conn, app')
    <2> SUFFICES ASSUME config.threads = 1 PROVE Ended(net', conn, app')
        OBVIOUS
    <2>1. DOMAIN app = {1} /\ t = 1
        <3>1. 1 .. 1 = {1}
            OBVIOUS
        <3> QED
            BY <1>1, <3>1
    <2>2. app[1].packet = NoPacket /\ app'[1].packet = Head(net.recvCS)
        BY <1>2, <1>7, <1>9, <2>1 DEF NoWork, packet
    <2> QED
        BY <1>2, <1>3, <1>4, <1>9, <1>11, <2>1, <2>2, TakenEnds
<1>14. Noticed'
    BY <1>1, <1>11 DEF Noticed
<1> QED
    BY <1>1, <1>2, <1>4, <1>8, <1>11, <1>12, <1>13, <1>14, OtherStepKeeps

\* The connections.
LEMMA ConnDropped ==
    ASSUME NEW c \in Maps(Fds, Nat), NEW fd, NEW d, d = Drop(c, fd)
    PROVE  d \in Maps(Fds, Nat) /\ \A f \in DOMAIN d : f \in DOMAIN c /\ f # fd /\ d[f] = c[f]
<1>1. d \in Maps(Fds, Nat)
    BY DropEffect
<1>2. DOMAIN d = DOMAIN c \ {fd}
    BY DropDomain
<1>3. \A f \in DOMAIN c : f # fd => d[f] = c[f]
    BY DropAt
<1> QED
    BY <1>1, <1>2, <1>3

LEMMA ConnCreated ==
    ASSUME NEW c \in Maps(Fds, Nat), NEW fd \in Fds, NEW l \in Nat, NEW d, d = Set(c, fd, l)
    PROVE  /\ d \in Maps(Fds, Nat)
           /\ \A f \in DOMAIN d : (f \in DOMAIN c /\ d[f] = c[f]) \/ (f = fd /\ d[f] = l)
<1>1. d \in Maps(Fds, Nat)
    BY SetEffect
<1>2. \A f \in DOMAIN d : (f \in DOMAIN c /\ d[f] = c[f]) \/ (f = fd /\ d[f] = l)
    BY DEF Set
<1> QED
    BY <1>1, <1>2

\* A close event takes down the connection of its descriptor, with one thread that of its link.
LEMMA DestroyConnectionKeeps ==
    ASSUME IInv, NEW t \in DOMAIN app, DestroyConnection(t),
           UNCHANGED <<config, pc, batch, edge, backlog, links, msgs, failures>>
    PROVE  IInv'
<1> DEFINE fd == app[t].packet.fd
<1>1. /\ config \in Configs /\ edge \in SUBSET PortNames /\ backlog \in Backlogs
      /\ conn \in Maps(Fds, Nat) /\ app \in [1 .. config.threads -> WorkSet]
      /\ Safe(net, backlog) /\ Noticed
    BY DEF IInv
<1>2. /\ app[t].packet.close /\ conn' = Drop(conn, fd) /\ app' = [app EXCEPT ![t] = NoWork]
      /\ net' = net /\ backlog' = backlog /\ edge' = edge /\ batch' = batch
    BY DEF DestroyConnection
<1>3. /\ net \in Nets /\ Holding(net) /\ Waiting(net, backlog) /\ Quiet(net) /\ Clients(net)
      /\ Accounted(net) /\ Routed(net) /\ Packets(net, backlog, app) /\ Replies(net, backlog)
      /\ (config.threads = 1 => Ended(net, conn, app))
    BY <1>1 DEF Safe
<1>4. NoWork \in WorkSet /\ NoWork.packet = NoPacket
    BY DEF NoWork, WorkSet
<1>5. /\ app' \in [1 .. config.threads -> WorkSet]
      /\ DOMAIN app' = DOMAIN app /\ app'[t] = NoWork /\ \A u \in DOMAIN app : u # t => app'[u] = app[u]
    BY <1>1, <1>2, <1>4
<1> HIDE DEF fd
<1>6. conn' \in Maps(Fds, Nat) /\ \A f \in DOMAIN conn' : f \in DOMAIN conn /\ f # fd /\ conn'[f] = conn[f]
    BY <1>1, <1>2, ConnDropped
<1>7. Packets(net', backlog, app')
    BY <1>2, <1>3, <1>4, <1>5 DEF Packets
<1>8. config.threads = 1 => Ended(net', conn', app')
    <2> SUFFICES ASSUME config.threads = 1 PROVE Ended(net, conn', app')
        BY <1>2
    <2>1. DOMAIN app = {1} /\ t = 1
        <3>1. 1 .. 1 = {1}
            OBVIOUS
        <3> QED
            BY <1>1, <3>1
    <2>2. \A f \in DOMAIN conn' : f \in DOMAIN conn /\ f # fd /\ conn'[f] = conn[f]
        BY <1>6
    <2>3. ASSUME NEW f \in DOMAIN conn'
          PROVE  /\ f \in Fds /\ conn'[f] \in 1 .. Len(net.link) /\ net.link[conn'[f]].who = <<Client, 0>>
                 /\ Ending(net, f, conn'[f], 0)
        <3>1. /\ f \in Fds /\ conn[f] \in 1 .. Len(net.link) /\ net.link[conn[f]].who = <<Client, 0>>
              /\ Ending(net, f, conn[f], 0) \/ app[1].packet = CloseOf(f, conn[f])
            BY <1>3, <2>1, <2>2 DEF Ended
        <3>2. app[1].packet # CloseOf(f, conn[f])
            BY <2>1, <2>2 DEF CloseOf, fd
        <3> QED
            BY <2>2, <3>1, <3>2
    <2>4. \A u \in DOMAIN app' : app'[u].packet = NoPacket
        BY <1>4, <1>5, <2>1
    <2> QED
        BY <1>3, <2>3, <2>4 DEF Ended
<1>9. Noticed'
    BY <1>1, <1>2 DEF Noticed
<1> QED
    BY <1>1, <1>2, <1>3, <1>5, <1>6, <1>7, <1>8, <1>9, OtherStepKeeps

\* A message makes a connection, or is answered, or neither.
LEMMA ProcessCSMessageKeeps ==
    ASSUME IInv, NEW t \in DOMAIN app, ProcessCSMessage(t),
           UNCHANGED <<config, pc, batch, edge, backlog, links, msgs, failures>>
    PROVE  IInv'
<1> DEFINE packet == app[t].packet
           answer == [fd |-> packet.fd, link |-> packet.link, close |-> FALSE]
<1>1. /\ config \in Configs /\ edge \in SUBSET PortNames /\ backlog \in Backlogs
      /\ conn \in Maps(Fds, Nat) /\ app \in [1 .. config.threads -> WorkSet]
      /\ Safe(net, backlog) /\ Noticed
    BY DEF IInv
<1>2. /\ packet # NoPacket /\ ~packet.close /\ app' = [app EXCEPT ![t] = NoWork]
      /\ conn' = conn \/ conn' = Set(conn, packet.fd, packet.link)
      /\ net' = net \/ \E close \in BOOLEAN : net' = PushSendCSQueue(net, [answer EXCEPT !.close = close])
      /\ backlog' = backlog /\ edge' = edge /\ batch' = batch
    BY DEF ProcessCSMessage
<1>3. /\ net \in Nets /\ Packets(net, backlog, app) /\ (config.threads = 1 => Ended(net, conn, app))
    BY <1>1 DEF Safe
<1>4. NoWork \in WorkSet /\ NoWork.packet = NoPacket
    BY DEF NoWork, WorkSet
<1>5. /\ app' \in [1 .. config.threads -> WorkSet]
      /\ DOMAIN app' = DOMAIN app /\ app'[t] = NoWork /\ \A u \in DOMAIN app : u # t => app'[u] = app[u]
    BY <1>1, <1>2, <1>4
<1>6. PacketOK(net, backlog, packet)
    BY <1>2, <1>3 DEF Packets
<1>7. /\ packet.fd \in Fds /\ packet.link \in 1 .. Len(net.link) /\ net.link[packet.link].who = <<Client, 0>>
      /\ packet.link \in Nat \ {0} /\ Len(net.link) \in Nat
    <2>1. /\ packet.fd \in Fds /\ packet.link \in 1 .. Len(net.link) /\ net.link[packet.link].who = <<Client, 0>>
        BY <1>6 DEF PacketOK
    <2>2. Len(net.link) \in Nat
        BY <1>3, NetTyped
    <2> QED
        BY <2>1, <2>2
<1>8. /\ net' \in Nets /\ Same(net, net', {"sendCS"}) /\ Packets(net', backlog, app')
    <2>1. CASE net' = net
        <3>1. Same(net, net', {"sendCS"})
            BY <2>1 DEF Same
        <3> QED
            BY <1>3, <1>4, <1>5, <2>1, <3>1 DEF Packets
    <2>2. CASE \E close \in BOOLEAN : net' = PushSendCSQueue(net, [answer EXCEPT !.close = close])
        <3>1. PICK close \in BOOLEAN : net' = PushSendCSQueue(net, [answer EXCEPT !.close = close])
            BY <2>2
        <3> DEFINE reply == [fd |-> packet.fd, link |-> packet.link, close |-> close]
                   m == PushSendCSQueue(net, reply)
        <3>2. net' = m /\ reply \in PacketSet /\ reply.fd = packet.fd /\ reply.link = packet.link
            BY <1>7, <3>1 DEF PacketSet
        <3> HIDE DEF reply
        <3>3. m \in Nets /\ m.sendCS = Append(net.sendCS, reply) /\ Same(net, m, {"sendCS"})
            BY <1>3, <3>2, PushCSEffect
        <3> HIDE DEF m
        <3>4. ToSet(m.sendCS) = ToSet(net.sendCS) \cup {reply}
            <4>1. net.sendCS \in Seq(PacketSet)
                BY <1>3, NetTyped
            <4> QED
                BY <3>2, <3>3, <4>1, AppendElements
        <3>5. m.recvCS = net.recvCS /\ m.link = net.link /\ m.desc = net.desc
            BY <3>3 DEF Same, Fields
        <3>6. \A q : PacketOK(net, backlog, q) => PacketOK(m, backlog, q)
            BY <3>5 DEF PacketOK
        <3>7. PacketOK(m, backlog, reply)
            BY <1>6, <3>2, <3>6 DEF PacketOK
        <3>8. Packets(m, backlog, app')
            BY <1>3, <1>4, <1>5, <3>4, <3>5, <3>6, <3>7 DEF Packets
        <3> QED
            BY <3>2, <3>3, <3>8
    <2> QED
        BY <1>2, <2>1, <2>2
<1>9. Same(net, net', {"recvCS", "sendCS"}) /\ net'.recvCS = net.recvCS
    BY <1>8 DEF Same, Fields
<1>10. /\ Holding(net') /\ Quiet(net') /\ Clients(net') /\ Accounted(net') /\ Routed(net')
       /\ Waiting(net', backlog) /\ Replies(net', backlog)
       /\ net'.sock = net.sock /\ net'.replaced = net.replaced /\ net'.starved = net.starved
       /\ net'.link = net.link /\ net'.desc = net.desc /\ net'.silent = net.silent
    BY <1>1, <1>8, <1>9, AppKeepsSockets
<1>11. /\ conn' \in Maps(Fds, Nat)
       /\ \A f \in DOMAIN conn' : \/ f \in DOMAIN conn /\ conn'[f] = conn[f]
                                  \/ f = packet.fd /\ conn'[f] = packet.link
    <2>1. CASE conn' = conn
        BY <1>1, <2>1
    <2>2. CASE conn' = Set(conn, packet.fd, packet.link)
        <3>1. packet.fd \in Fds /\ packet.link \in Nat
            BY <1>7
        <3> HIDE DEF packet
        <3> QED
            BY <1>1, <2>2, <3>1, ConnCreated
    <2> QED
        BY <1>2, <2>1, <2>2
<1> HIDE DEF packet
<1>12. config.threads = 1 => Ended(net', conn', app')
    <2> SUFFICES ASSUME config.threads = 1 PROVE Ended(net', conn', app')
        OBVIOUS
    <2>1. DOMAIN app = {1} /\ t = 1
        <3>1. 1 .. 1 = {1}
            OBVIOUS
        <3> QED
            BY <1>1, <3>1
    <2>2. Ending(net, packet.fd, packet.link, 0)
        BY <1>2, <1>3, <2>1 DEF Ended, packet
    <2>3. \A f, k, i : Ending(net, f, k, i) => Ending(net', f, k, i)
        BY <1>9, <1>10 DEF Ending
    <2>4. ASSUME NEW f \in DOMAIN conn'
          PROVE  /\ f \in Fds /\ conn'[f] \in 1 .. Len(net.link) /\ net.link[conn'[f]].who = <<Client, 0>>
                 /\ Ending(net, f, conn'[f], 0)
        <3>1. CASE f \in DOMAIN conn /\ conn'[f] = conn[f]
            <4>1. /\ f \in Fds /\ conn[f] \in 1 .. Len(net.link) /\ net.link[conn[f]].who = <<Client, 0>>
                  /\ Ending(net, f, conn[f], 0) \/ app[1].packet = CloseOf(f, conn[f])
                BY <1>3, <2>1, <3>1 DEF Ended
            <4>2. app[1].packet # CloseOf(f, conn[f])
                BY <1>2, <2>1 DEF CloseOf, packet
            <4> QED
                BY <3>1, <4>1, <4>2
        <3>2. CASE f = packet.fd /\ conn'[f] = packet.link
            BY <1>7, <2>2, <3>2
        <3> QED
            BY <1>11, <3>1, <3>2
    <2>5. \A u \in DOMAIN app' : app'[u].packet = NoPacket
        BY <1>4, <1>5, <2>1
    <2>6. \A i \in 1 .. Len(net'.recvCS) :
              LET q == net'.recvCS[i] IN q.close \/ Ending(net', q.fd, q.link, i)
        BY <1>3, <1>9, <2>3 DEF Ended
    <2> QED
        BY <1>10, <2>3, <2>4, <2>5, <2>6 DEF Ended
<1>13. Noticed'
    BY <1>1, <1>2, <1>10 DEF Noticed
<1> QED
    BY <1>1, <1>2, <1>5, <1>8, <1>10, <1>11, <1>12, <1>13, OtherStepKeeps

LEMMA AppThreadsKeep ==
    ASSUME IInv, AppStep
    PROVE  IInv'
<1>1. PICK t \in DOMAIN app : GetPacket(t) \/ DestroyConnection(t) \/ ProcessCSMessage(t)
    BY DEF AppStep
<1>2. UNCHANGED <<config, pc, batch, edge, backlog, links, msgs, failures>>
    BY DEF AppStep
<1> QED
    BY <1>1, <1>2, GetPacketKeeps, DestroyConnectionKeeps, ProcessCSMessageKeeps

-----------------------------------------------------------------------------
(* Kernel, peers and clock.                                                *)

\* Somebody connects: one more link, which waits.
LEMMA LinkAddedKeeps ==
    ASSUME NEW n, NEW b \in Backlogs, Safe(n, b), NEW port \in PortNames, NEW link \in LinkSet,
           link.rd = << >>, link.got = {}, port = "outside" <=> link.who = <<Client, 0>>,
           NEW m \in Nets, Same(n, m, {"link"}), m.link = Append(n.link, link),
           NEW c, c[port] = Append(b[port], Len(n.link) + 1), \A p \in PortNames : p # port => c[p] = b[p]
    PROVE  Safe(m, c)
<1> DEFINE L == Len(n.link)
<1>1. /\ n \in Nets /\ Holding(n) /\ Waiting(n, b) /\ Quiet(n) /\ Clients(n)
      /\ Accounted(n) /\ Routed(n) /\ Packets(n, b, app) /\ Replies(n, b)
      /\ (config.threads = 1 => Ended(n, conn, app))
    BY DEF Safe
<1>2. L \in Nat /\ n.link \in Seq(LinkSet) /\ n.desc \in [Fds -> Nat]
    BY <1>1, NetTyped
<1>3. Len(m.link) = L + 1 /\ m.link[L + 1] = link /\ \A l \in 1 .. L : m.link[l] = n.link[l]
    BY <1>2
<1> HIDE DEF L
<1>4. /\ m.sock = n.sock /\ m.ports = n.ports /\ m.types = n.types /\ m.servers = n.servers /\ m.timers = n.timers
      /\ m.desc = n.desc /\ m.ptr = n.ptr /\ m.recvCS = n.recvCS /\ m.sendCS = n.sendCS /\ m.sendSS = n.sendSS
      /\ m.lost = n.lost /\ m.replaced = n.replaced /\ m.stranger = n.stranger /\ m.silent = n.silent
    BY DEF Same, Fields
<1>5. \A s \in Objects : n.sock[s].fd # 0 => LinkOf(m, s) = LinkOf(n, s) /\ LinkOf(n, s) \in 1 .. L
    BY <1>1, <1>4, LinkExists DEF LinkOf, L
<1>6. \A f \in Fds : m.desc[f] <= L /\ m.desc[f] # L + 1
    <2>1. \A f \in Fds : n.desc[f] <= L
        BY <1>1 DEF Holding, L
    <2> QED
        BY <1>2, <1>4, <2>1, SMTT(30), Zenon
<1>7. /\ \A p \in PortNames : ToSet(c[p]) \subseteq ToSet(b[p]) \cup {L + 1}
      /\ \A p \in PortNames : p # port => ToSet(c[p]) = ToSet(b[p])
      /\ \A p \in PortNames : ToSet(b[p]) \subseteq 1 .. L
      /\ \A p \in PortNames : IsInjective(c[p])
    <2>1. \A p \in PortNames : ToSet(b[p]) \subseteq 1 .. L /\ IsInjective(b[p])
        BY <1>1 DEF Waiting, L
    <2>2. b[port] \in Seq(Nat) /\ L + 1 \in Nat /\ L + 1 \notin 1 .. L
        BY <1>2 DEF Backlogs
    <2>3. ToSet(c[port]) = ToSet(b[port]) \cup {L + 1} /\ IsInjective(c[port])
        <3>1. c[port] = Append(b[port], L + 1)
            BY DEF L
        <3>2. L + 1 \notin ToSet(b[port]) /\ IsInjective(b[port])
            BY <2>1, <2>2, SMTT(30), Zenon
        <3> QED
            BY <2>2, <3>1, <3>2, AppendElements
    <2> QED
        BY <2>1, <2>3
<1>8. Holding(m)
    <2>1. \A s \in Objects : m.sock[s].fd # 0 =>
              /\ m.desc[m.sock[s].fd] # 0
              /\ BelongPort(s) = "outside" <=> m.link[m.desc[m.sock[s].fd]].who = <<Client, 0>>
              /\ BelongPort(s) = "none" => m.link[m.desc[m.sock[s].fd]].who \in Configured
        <3> TAKE s \in Objects
        <3> HAVE m.sock[s].fd # 0
        <3>1. m.link[m.desc[m.sock[s].fd]] = n.link[n.desc[n.sock[s].fd]]
            BY <1>3, <1>4, <1>5, ZenonT(40) DEF LinkOf
        <3>2. /\ n.desc[n.sock[s].fd] # 0
              /\ BelongPort(s) = "outside" <=> n.link[n.desc[n.sock[s].fd]].who = <<Client, 0>>
              /\ BelongPort(s) = "none" => n.link[n.desc[n.sock[s].fd]].who \in Configured
            BY <1>1, <1>4, Zenon DEF Holding
        <3> QED
            BY <1>4, <3>1, <3>2, Zenon
    <2>2. \A f \in Fds : m.desc[f] <= Len(m.link)
        BY <1>2, <1>3, <1>4, <1>6
    <2>3. /\ \A s \in Objects : m.sock[s].status = "Closed" <=> m.sock[s].fd = 0
          /\ \A r, s \in Objects : m.sock[r].fd # 0 /\ m.sock[r].fd = m.sock[s].fd => r = s
          /\ \A f, g \in Fds : m.desc[f] # 0 /\ m.desc[f] = m.desc[g] => f = g
        BY <1>1, <1>4 DEF Holding
    <2> QED
        BY <2>1, <2>2, <2>3, ZenonT(40) DEF Holding
<1>9. Waiting(m, c)
    <2>1. ASSUME NEW p \in PortNames, NEW l \in ToSet(c[p])
          PROVE  /\ l \in 1 .. Len(m.link)
                 /\ p = "outside" <=> m.link[l].who = <<Client, 0>>
                 /\ \A f \in Fds : m.desc[f] # l
        <3>1. CASE l \in ToSet(b[p])
            <4>1. /\ p = "outside" <=> n.link[l].who = <<Client, 0>>
                  /\ \A f \in Fds : n.desc[f] # l
                BY <1>1, <3>1 DEF Waiting
            <4>2. l \in 1 .. L
                BY <1>7, <3>1
            <4> QED
                BY <1>2, <1>3, <1>4, <4>1, <4>2
        <3>2. CASE l \notin ToSet(b[p])
            <4>1. p = port /\ l = L + 1
                BY <1>7, <2>1, <3>2
            <4>2. m.link[l].who = link.who
                BY <1>3, <4>1
            <4>3. l \in 1 .. Len(m.link)
                BY <1>2, <1>3, <4>1
            <4> QED
                BY <1>6, <4>1, <4>2, <4>3
        <3> QED
            BY <3>1, <3>2
    <2> QED
        BY <1>7, <2>1 DEF Waiting
<1>10. Quiet(m)
    <2>1. ASSUME NEW l \in 1 .. Len(m.link), m.link[l].who \in Configured PROVE m.link[l].rd = << >>
        <3>1. CASE l = L + 1
            BY <1>3, <3>1
        <3>2. CASE l # L + 1
            <4>1. l \in 1 .. L
                BY <1>2, <1>3, <3>2
            <4> QED
                BY <1>1, <1>3, <2>1, <4>1 DEF Quiet, L
        <3> QED
            BY <3>1, <3>2
    <2> QED
        BY <1>1, <1>4, <2>1 DEF Quiet
<1>11. Clients(m)
    BY <1>1, <1>4, ClientsKept
<1>12. Accounted(m)
    <2> SUFFICES ASSUME ~n.replaced PROVE Free(m) /\ Pointed(m) /\ Timed(m) /\ Entered(m)
        BY <1>4 DEF Accounted
    <2>1. Free(n) /\ Pointed(n) /\ Timed(n) /\ Entered(n)
        BY <1>1 DEF Accounted
    <2>2. Free(m) /\ Pointed(m)
        BY <1>1, <1>4, <2>1, FreeKept, PointedKept
    <2>3. Timed(m)
        <3>1. \A s \in Objects : BelongPort(s) = "none" /\ m.sock[s].fd # 0 =>
                  m.sock[s].peer[1] = TypeOf(s) /\ m.link[LinkOf(m, s)].who = m.sock[s].peer
            <4> TAKE s \in Objects
            <4> HAVE BelongPort(s) = "none" /\ m.sock[s].fd # 0
            <4>1. m.sock[s] = n.sock[s] /\ LinkOf(m, s) = LinkOf(n, s) /\ LinkOf(n, s) \in 1 .. L
                BY <1>4, <1>5
            <4>2. n.sock[s].peer[1] = TypeOf(s) /\ n.link[LinkOf(n, s)].who = n.sock[s].peer
                BY <2>1, <4>1 DEF Timed
            <4>3. m.link[LinkOf(n, s)] = n.link[LinkOf(n, s)]
                BY <1>3, <4>1
            <4> QED
                BY <4>1, <4>2, <4>3
        <3> QED
            BY <1>4, <2>1, <3>1 DEF Timed
    <2>4. Entered(m)
        <3> SUFFICES ASSUME NEW key \in DOMAIN m.servers
                     PROVE  LET s == m.servers[key] IN
                            /\ m.sock[s].fd # 0 /\ m.sock[s].peer = key
                            /\ BelongPort(s) = "inside" =>
                                  m.sock[s].status = "Available" /\ m.link[LinkOf(m, s)].who = key
            BY Zenon DEF Entered
        <3> DEFINE s == n.servers[key]
        <3>1. key \in DOMAIN n.servers /\ m.servers[key] = s /\ m.sock = n.sock
            BY <1>4
        <3>2. s \in Objects
            BY <1>1, <3>1, NetTyped, MapElement
        <3>3. /\ n.sock[s].fd # 0 /\ n.sock[s].peer = key
              /\ BelongPort(s) = "inside" => n.sock[s].status = "Available" /\ n.link[LinkOf(n, s)].who = key
            BY <2>1, <3>1, Zenon DEF Entered
        <3> HIDE DEF s
        <3>4. m.link[LinkOf(m, s)] = n.link[LinkOf(n, s)]
            BY <1>3, <1>5, <3>2, <3>3
        <3> QED
            BY <3>1, <3>3, <3>4
    <2> QED
        BY <2>2, <2>3, <2>4
<1>13. Routed(m)
    <2> SUFFICES ASSUME ~n.replaced, ~n.stranger PROVE Routed(m)
        BY <1>4 DEF Routed
    <2>1. ASSUME NEW s \in Objects, BelongPort(s) = "none", m.sock[s].status = "Available"
          PROVE  \/ "regist" \in m.link[LinkOf(m, s)].got
                 \/ [to |-> m.sock[s].peer, kind |-> "regist"] \in ToSet(m.sendSS)
        <3>1. n.sock[s].fd # 0
            BY <1>1, <1>4, <2>1 DEF Holding
        <3>2. m.link[LinkOf(m, s)] = n.link[LinkOf(n, s)]
            BY <1>3, <1>5, <3>1
        <3>3. \/ "regist" \in n.link[LinkOf(n, s)].got
              \/ [to |-> n.sock[s].peer, kind |-> "regist"] \in ToSet(n.sendSS)
            BY <1>1, <1>4, <2>1 DEF Routed
        <3> QED
            BY <1>4, <3>2, <3>3
    <2> QED
        BY <1>1, <1>4, <2>1 DEF Routed
<1>14. Packets(m, c, app)
    <2>1. ASSUME NEW packet, PacketOK(n, b, packet)
          PROVE  PacketOK(m, c, packet)
        <3>1. packet.link \in 1 .. L /\ packet.link # L + 1
            BY <1>2, <2>1 DEF PacketOK, L
        <3>2. packet.link \in 1 .. Len(m.link) /\ m.link[packet.link].who = <<Client, 0>>
            BY <1>2, <1>3, <2>1, <3>1 DEF PacketOK
        <3> QED
            BY <1>4, <1>7, <2>1, <3>1, <3>2 DEF PacketOK
    <2> QED
        BY <1>1, <1>4, <2>1 DEF Packets
<1>15. Replies(m, c)
    <2> SUFFICES ASSUME NEW l \in 1 .. Len(m.link), m.link[l].who = <<Client, 0>>, NEW answered \in m.link[l].got
                 PROVE  answered \in 1 .. Len(m.link) /\ (answered = l \/ ~Alive(m, c, answered))
        BY DEF Replies
    <2>1. l # L + 1
        BY <1>3
    <2>2. l \in 1 .. L
        BY <1>2, <1>3, <2>1
    <2>3. answered \in 1 .. L /\ (answered = l \/ ~Alive(n, b, answered))
        BY <1>1, <1>3, <2>2 DEF Replies, L
    <2>4. answered # L + 1 /\ answered \in 1 .. Len(m.link)
        BY <1>2, <1>3, <2>3
    <2>5. Alive(m, c, answered) => Alive(n, b, answered)
        BY <1>4, <1>7, <2>4 DEF Alive
    <2> QED
        BY <2>3, <2>4, <2>5
<1>16. config.threads = 1 => Ended(m, conn, app)
    <2>1. Len(n.link) <= Len(m.link) /\ \A l \in 1 .. Len(n.link) : m.link[l].who = n.link[l].who
        BY <1>2, <1>3 DEF L
    <2> QED
        BY <1>1, <1>4, <2>1, EndedGrows
<1> QED
    BY <1>8, <1>9, <1>10, <1>11, <1>12, <1>13, <1>14, <1>15, <1>16 DEF Safe

\* What kernel, peers and clock leave alone.
LEMMA WorldStepKeeps ==
    ASSUME IInv, UNCHANGED <<config, pc, batch, conn, app>>, edge' \in SUBSET PortNames, backlog' \in Backlogs,
           Noticed', Safe(net', backlog'), net'.sock = net.sock, net'.replaced = net.replaced
    PROVE  IInv'
<1>1. /\ net' \in Nets /\ Holding(net') /\ Waiting(net', backlog') /\ Quiet(net') /\ Clients(net')
      /\ Accounted(net') /\ Routed(net') /\ Packets(net', backlog', app') /\ Replies(net', backlog')
      /\ (config.threads = 1 => Ended(net', conn', app'))
    BY DEF Safe
<1>2. conn' \in Maps(Fds, Nat) /\ app' \in [1 .. config.threads -> WorkSet]
    BY DEF IInv
<1> QED
    BY <1>1, <1>2, OtherStepKeeps

LEMMA ArrivesKeeps ==
    ASSUME IInv, NEW port \in PortNames, NEW who \in ServerKeys \cup {<<Client, 0>>},
           port = "outside" <=> who = <<Client, 0>>, Arrives(port, who), UNCHANGED <<config, pc, batch, conn, app>>
    PROVE  IInv'
<1> DEFINE link == NewLink(who, "up")
           c == [backlog EXCEPT ![port] = Append(@, Len(net.link) + 1)]
           m == [net EXCEPT !.link = Append(@, link)]
<1>1. /\ config \in Configs /\ edge \in SUBSET PortNames /\ backlog \in Backlogs /\ Safe(net, backlog) /\ Noticed
      /\ net \in Nets
    BY DEF IInv, Safe
<1>2. net' = m /\ backlog' = c /\ edge' = edge \cup {port} /\ batch' = batch
    BY DEF Arrives
<1>3. link \in LinkSet /\ link.rd = << >> /\ link.got = {} /\ link.who = who
    <2>1. << >> \in Seq({"message"}) /\ {} \in SUBSET (Nat \cup {"regist", "data"}) /\ "up" \in {"syn", "up", "refused", "ended"}
        OBVIOUS
    <2> QED
        BY <2>1 DEF NewLink, LinkSet
<1> HIDE DEF link
<1>4. net.link \in Seq(LinkSet) /\ Append(net.link, link) \in LinkLists /\ Len(net.link) + 1 \in Nat
    <2>1. net.link \in Seq(LinkSet)
        BY <1>1, NetTyped
    <2> QED
        BY <1>3, <2>1 DEF LinkLists
<1>5. /\ m \in Nets /\ Same(net, m, {"link"}) /\ m.link = Append(net.link, link)
      /\ m.sock = net.sock /\ m.replaced = net.replaced /\ m.starved = net.starved
    BY <1>1, <1>4 DEF Nets, Same, Fields
<1>6. /\ c \in Backlogs /\ c[port] = Append(backlog[port], Len(net.link) + 1)
      /\ \A p \in PortNames : p # port => c[p] = backlog[p]
    <2>1. Append(backlog[port], Len(net.link) + 1) \in Seq(Nat)
        BY <1>1, <1>4 DEF Backlogs
    <2> QED
        BY <1>1, <2>1 DEF Backlogs
<1> HIDE DEF m, c
<1>7. Safe(m, c)
    <2>1. port = "outside" <=> link.who = <<Client, 0>>
        BY <1>3
    <2>2. backlog \in Backlogs /\ Safe(net, backlog)
        BY <1>1
    <2>3. link \in LinkSet /\ link.rd = << >> /\ link.got = {}
        BY <1>3
    <2>4. m \in Nets /\ Same(net, m, {"link"}) /\ m.link = Append(net.link, link)
        BY <1>5
    <2>5. port \in PortNames
        OBVIOUS
    <2>6. c[port] = Append(backlog[port], Len(net.link) + 1) /\ \A p \in PortNames : p # port => c[p] = backlog[p]
        BY <1>6
    <2> QED
        BY ONLY <2>1, <2>2, <2>3, <2>4, <2>5, <2>6, LinkAddedKeeps
<1>8. Noticed'
    <2> SUFFICES ASSUME NEW p \in PortNames, ToSet(c[p]) # {}
                 PROVE  p \in edge' \/ p \in m.starved \/ \E i \in 1 .. Len(batch) : batch[i].port = p
        BY <1>2 DEF Noticed
    <2>1. CASE p = port
        BY <1>2, <2>1
    <2>2. CASE p # port
        BY <1>1, <1>2, <1>5, <1>6, <2>2 DEF Noticed
    <2> QED
        BY <2>1, <2>2
<1>9. edge' \in SUBSET PortNames
    BY <1>1, <1>2
<1> QED
    BY <1>2, <1>5, <1>6, <1>7, <1>8, <1>9, WorldStepKeeps

\* Something happens to a link, but it remains whose it is and what it got; a server that
\* is connected to says nothing.
LEMMA LinkChangeKeeps ==
    ASSUME NEW n, NEW b, Safe(n, b), NEW l \in 1 .. Len(n.link), NEW link \in LinkSet, link.who = n.link[l].who,
           link.got = n.link[l].got, link.who \in Configured => link.rd = n.link[l].rd,
           NEW m \in Nets, Same(n, m, {"link"}), m.link = [n.link EXCEPT ![l] = link]
    PROVE  Safe(m, b)
<1>1. n \in Nets /\ Quiet(n) /\ Packets(n, b, app) /\ (config.threads = 1 => Ended(n, conn, app))
    BY DEF Safe
<1>2. n.link \in Seq(LinkSet)
    BY <1>1, NetTyped
<1>3. /\ Len(m.link) = Len(n.link) /\ m.link[l] = link
      /\ \A k \in 1 .. Len(n.link) : k # l => m.link[k] = n.link[k]
    BY <1>2
<1>4. \A k \in 1 .. Len(n.link) : m.link[k].who = n.link[k].who /\ m.link[k].got = n.link[k].got
    BY <1>3
<1>5. m.desc = n.desc /\ m.sock = n.sock /\ m.recvCS = n.recvCS /\ m.sendCS = n.sendCS /\ m.silent = n.silent
      /\ Same(n, m, {"sock", "link", "recvCS"})
    BY DEF Same, Fields
<1>6. Holding(m) /\ Clients(m) /\ Accounted(m) /\ Routed(m) /\ Waiting(m, b) /\ Replies(m, b)
    BY <1>1, <1>3, <1>4, <1>5, BuffersKept
<1>7. Packets(m, b, app) /\ (config.threads = 1 => Ended(m, conn, app))
    BY <1>1, <1>3, <1>4, <1>5, LinksKept
<1>8. Quiet(m)
    BY <1>1, <1>3, <1>5 DEF Quiet
<1> QED
    BY <1>6, <1>7, <1>8 DEF Safe

LEMMA LinkStepKeeps ==
    ASSUME IInv, NEW l \in 1 .. Len(net.link), NEW link \in LinkSet, link.who = net.link[l].who,
           link.got = net.link[l].got, link.who \in Configured => link.rd = net.link[l].rd,
           net' = [net EXCEPT !.link = [net.link EXCEPT ![l] = link]],
           UNCHANGED <<edge, backlog>>, UNCHANGED <<config, pc, batch, conn, app>>
    PROVE  IInv'
<1> DEFINE m == [net EXCEPT !.link = [net.link EXCEPT ![l] = link]]
<1>1. edge \in SUBSET PortNames /\ backlog \in Backlogs /\ Safe(net, backlog) /\ Noticed /\ net \in Nets
    BY DEF IInv, Safe
<1>2. [net.link EXCEPT ![l] = link] \in LinkLists
    <2>1. net.link \in Seq(LinkSet)
        BY <1>1, NetTyped
    <2> QED
        BY <2>1 DEF LinkLists
<1>3. /\ m \in Nets /\ Same(net, m, {"link"}) /\ m.link = [net.link EXCEPT ![l] = link]
      /\ m.sock = net.sock /\ m.replaced = net.replaced /\ m.starved = net.starved
    BY <1>1, <1>2 DEF Nets, Same, Fields
<1>4. net' = m
    OBVIOUS
<1> HIDE DEF m
<1>5. Safe(m, backlog)
    BY <1>1, <1>3, LinkChangeKeeps
<1>6. Noticed'
    BY <1>1, <1>3, <1>4 DEF Noticed
<1> QED
    BY <1>1, <1>3, <1>4, <1>5, <1>6, WorldStepKeeps

LEMMA SaysKeeps ==
    ASSUME IInv, NEW l \in 1 .. Len(net.link), Says(l), UNCHANGED <<config, pc, batch, conn, app>>
    PROVE  IInv'
<1> DEFINE rd == Append(net.link[l].rd, "message")
           link == [net.link[l] EXCEPT !.rd = rd, !.said = TRUE]
<1>1. net \in Nets /\ net.link \in Seq(LinkSet) /\ net.link[l] \in LinkSet
    <2>1. net \in Nets
        BY DEF IInv, Safe
    <2>2. net.link \in Seq(LinkSet)
        BY <2>1, NetTyped
    <2> QED
        BY <2>1, <2>2
<1>2. rd \in Seq({"message"})
    BY <1>1 DEF LinkSet
<1>3. net' = [net EXCEPT !.link = [net.link EXCEPT ![l] = link]]
    BY <1>1 DEF Says, Nets
<1> HIDE DEF rd
<1>4. link \in LinkSet /\ link.who = net.link[l].who /\ link.got = net.link[l].got
    BY <1>1, <1>2 DEF LinkSet
<1> HIDE DEF link
<1>5. link.who \notin Configured
    BY <1>4 DEF Says, Configured
<1>6. UNCHANGED <<edge, backlog>>
    BY DEF Says
<1> QED
    BY <1>3, <1>4, <1>5, <1>6, LinkStepKeeps

LEMMA StateChangeKeeps ==
    ASSUME IInv, NEW l \in 1 .. Len(net.link), NEW state \in {"syn", "up", "refused", "ended"},
           net' = [net EXCEPT !.link[l].state = state],
           UNCHANGED <<edge, backlog>>, UNCHANGED <<config, pc, batch, conn, app>>
    PROVE  IInv'
<1> DEFINE link == [net.link[l] EXCEPT !.state = state]
<1>1. net \in Nets /\ net.link \in Seq(LinkSet) /\ net.link[l] \in LinkSet
    <2>1. net \in Nets
        BY DEF IInv, Safe
    <2>2. net.link \in Seq(LinkSet)
        BY <2>1, NetTyped
    <2> QED
        BY <2>1, <2>2
<1>2. net' = [net EXCEPT !.link = [net.link EXCEPT ![l] = link]]
    BY <1>1 DEF Nets
<1>3. link \in LinkSet /\ link.who = net.link[l].who /\ link.got = net.link[l].got /\ link.rd = net.link[l].rd
    BY <1>1 DEF LinkSet
<1> HIDE DEF link
<1> QED
    BY <1>2, <1>3, LinkStepKeeps

LEMMA EndsKeeps ==
    ASSUME IInv, NEW l \in 1 .. Len(net.link), Ends(l), UNCHANGED <<config, pc, batch, conn, app>>
    PROVE  IInv'
<1> DEFINE state == IF net.link[l].state = "syn" THEN "refused" ELSE "ended"
<1>1. net' = [net EXCEPT !.link[l].state = state] /\ UNCHANGED <<edge, backlog>>
    BY DEF Ends
<1>2. state \in {"syn", "up", "refused", "ended"}
    OBVIOUS
<1> HIDE DEF state
<1> QED
    BY <1>1, <1>2, StateChangeKeeps

LEMMA EstablishKeeps ==
    ASSUME IInv, NEW l \in 1 .. Len(net.link), Establish(l), UNCHANGED <<config, pc, batch, conn, app>>
    PROVE  IInv'
<1>1. net' = [net EXCEPT !.link[l].state = "up"] /\ UNCHANGED <<edge, backlog>>
    BY DEF Establish
<1>2. "up" \in {"syn", "up", "refused", "ended"}
    OBVIOUS
<1> QED
    BY <1>1, <1>2, StateChangeKeeps

LEMMA TimePassesKeeps ==
    ASSUME IInv, TimePasses, UNCHANGED <<config, pc, batch, conn, app>>
    PROVE  IInv'
<1> DEFINE m == [net EXCEPT !.due = TRUE]
<1>1. /\ edge \in SUBSET PortNames /\ backlog \in Backlogs /\ Safe(net, backlog) /\ Noticed /\ net \in Nets
      /\ net' = m /\ edge' = edge /\ backlog' = backlog /\ batch' = batch
    BY DEF IInv, Safe, TimePasses
<1>2. m \in Nets /\ Same(net, m, {"due", "starved", "listening"}) /\ m.sock = net.sock /\ m.replaced = net.replaced
      /\ m.starved = net.starved
    BY <1>1 DEF Nets, Same, Fields
<1> HIDE DEF m
<1>3. Safe(m, backlog)
    BY <1>1, <1>2, FlagsKeep
<1>4. Noticed'
    BY <1>1, <1>2 DEF Noticed
<1> QED
    BY <1>1, <1>2, <1>3, <1>4, WorldStepKeeps

\* One more packet for a server.
LEMMA OrderAddedKeeps ==
    ASSUME NEW n, NEW b, Safe(n, b), NEW order \in OrderSet, NEW m \in Nets, Same(n, m, {"sendSS"}),
           m.sendSS = Append(n.sendSS, order)
    PROVE  Safe(m, b)
<1>1. /\ n \in Nets /\ Holding(n) /\ Waiting(n, b) /\ Quiet(n) /\ Clients(n)
      /\ Accounted(n) /\ Routed(n) /\ Packets(n, b, app) /\ Replies(n, b)
      /\ (config.threads = 1 => Ended(n, conn, app))
    BY DEF Safe
<1>2. /\ m.sock = n.sock /\ m.ports = n.ports /\ m.types = n.types /\ m.servers = n.servers /\ m.timers = n.timers
      /\ m.desc = n.desc /\ m.ptr = n.ptr /\ m.recvCS = n.recvCS /\ m.sendCS = n.sendCS /\ m.link = n.link
      /\ m.lost = n.lost /\ m.replaced = n.replaced /\ m.stranger = n.stranger /\ m.silent = n.silent
    BY DEF Same, Fields
<1>3. ToSet(m.sendSS) = ToSet(n.sendSS) \cup {order}
    BY <1>1, NetTyped, AppendElements
<1>4. Holding(m) /\ Quiet(m) /\ Clients(m)
    BY <1>1, <1>2, HoldingKept, QuietKept, ClientsKept
<1>5. Waiting(m, b) /\ Packets(m, b, app) /\ Replies(m, b) /\ (config.threads = 1 => Ended(m, conn, app))
    BY <1>1, <1>2, LinksKept
<1>6. Accounted(m)
    <2> SUFFICES ASSUME ~n.replaced PROVE Free(m) /\ Pointed(m) /\ Timed(m) /\ Entered(m)
        BY <1>2 DEF Accounted
    <2>1. Free(n) /\ Pointed(n) /\ Timed(n) /\ Entered(n)
        BY <1>1 DEF Accounted
    <2>2. Free(m) /\ Pointed(m)
        BY <1>1, <1>2, <2>1, FreeKept, PointedKept
    <2>3. Timed(m)
        BY <1>1, <1>2, <2>1, TimedKept
    <2>4. Entered(m)
        BY <1>1, <1>2, <2>1, EnteredKept
    <2> QED
        BY <2>2, <2>3, <2>4
<1>7. \A s \in Objects : LinkOf(m, s) = LinkOf(n, s)
    BY <1>2 DEF LinkOf
<1>8. Routed(m)
    BY <1>1, <1>2, <1>3, <1>7 DEF Routed
<1> QED
    BY <1>4, <1>5, <1>6, <1>8 DEF Safe

LEMMA PostMessageKeeps ==
    ASSUME IInv, NEW x \in ServerKeys, PostMessage(x), UNCHANGED <<config, pc, batch, conn, app>>
    PROVE  IInv'
<1> DEFINE order == [to |-> x, kind |-> "data"]
           m == PushSendSSQueue(net, order)
<1>1. /\ edge \in SUBSET PortNames /\ backlog \in Backlogs /\ Safe(net, backlog) /\ Noticed /\ net \in Nets
      /\ net' = m /\ edge' = edge /\ backlog' = backlog /\ batch' = batch
    BY DEF IInv, Safe, PostMessage
<1>2. order \in OrderSet
    BY DEF OrderSet
<1> HIDE DEF order
<1>3. m \in Nets /\ m.sendSS = Append(net.sendSS, order) /\ Same(net, m, {"sendSS"})
    BY <1>1, <1>2, PushSSEffect
<1> HIDE DEF m
<1>4. m.sock = net.sock /\ m.replaced = net.replaced /\ m.starved = net.starved
    BY <1>3 DEF Same, Fields
<1>5. Safe(m, backlog)
    BY <1>1, <1>2, <1>3, OrderAddedKeeps
<1>6. Noticed'
    BY <1>1, <1>4 DEF Noticed
<1> QED
    BY <1>1, <1>4, <1>5, <1>6, WorldStepKeeps

LEMMA WorldKeeps ==
    ASSUME IInv, World
    PROVE  IInv'
<1>1. UNCHANGED <<config, pc, batch, conn, app>>
    BY DEF World
<1>2. /\ config.peers \in Seq(ServerKeys) /\ config.callers \subseteq ServerKeys
      /\ \A key \in ServerKeys : key # <<Client, 0>>
    <2>1. config \in Configs
        BY DEF IInv
    <2>2. \A key \in ServerKeys : key[1] # Client
        BY <2>1, KeysDiffer
    <2> QED
        BY <2>1, <2>2, ConfigFacts
<1>3. "outside" \in PortNames /\ "inside" \in PortNames /\ "inside" # "outside"
    BY DEF PortNames
<1>4. CASE Arrives("outside", <<Client, 0>>)
    BY <1>1, <1>3, <1>4, ArrivesKeeps
<1>5. CASE \E x \in config.callers : Arrives("inside", x)
    <2>1. PICK x \in config.callers : Arrives("inside", x)
        BY <1>5
    <2>2. x \in ServerKeys /\ x # <<Client, 0>>
        BY <1>2
    <2> QED
        BY <1>1, <1>3, <2>1, <2>2, ArrivesKeeps
<1>6. CASE \E l \in {l \in DOMAIN net.link : Live(l)} : Says(l) \/ Ends(l) \/ Establish(l)
    <2>1. PICK l \in DOMAIN net.link : Says(l) \/ Ends(l) \/ Establish(l)
        BY <1>6
    <2>2. l \in 1 .. Len(net.link)
        <3>1. net \in Nets
            BY DEF IInv, Safe
        <3>2. net.link \in Seq(LinkSet)
            BY <3>1, NetTyped
        <3> QED
            BY <3>2
    <2> QED
        BY <1>1, <2>1, <2>2, SaysKeeps, EndsKeeps, EstablishKeeps
<1>7. CASE TimePasses
    BY <1>1, <1>7, TimePassesKeeps
<1>8. CASE \E i \in DOMAIN config.peers : PostMessage(config.peers[i])
    <2>1. PICK i \in DOMAIN config.peers : PostMessage(config.peers[i])
        BY <1>8
    <2>2. config.peers[i] \in ServerKeys
        BY <1>2
    <2> QED
        BY <1>1, <2>1, <2>2, PostMessageKeeps
<1> QED
    BY <1>4, <1>5, <1>6, <1>7, <1>8 DEF World

-----------------------------------------------------------------------------
(* The start: every object waits in its list.                              *)

\* A finite set as a list, each element once.
LEMMA SetInSequence ==
    ASSUME NEW S, IsFiniteSet(S)
    PROVE  SetToSeq(S) \in Seq(S) /\ IsInjective(SetToSeq(S)) /\ ToSet(SetToSeq(S)) = S
<1> DEFINE c == Cardinality(S)
           q == SetToSeq(S)
<1>1. c \in Nat /\ \E f : f \in Bijection(1 .. c, S)
    BY FS_CardinalityType DEF ExistsBijection
<1>2. \E f \in [1 .. c -> S] : IsInjective(f)
    BY <1>1 DEF Bijection, Injection
<1>3. q \in [1 .. c -> S] /\ IsInjective(q)
    BY <1>2 DEF SetToSeq
<1> HIDE DEF q
<1>4. IsFiniteSet(1 .. c) /\ Cardinality(1 .. c) = c
    BY <1>1, FS_Interval
<1>5. q \in Injection(1 .. c, S)
    BY <1>3 DEF Injection
<1> HIDE DEF c
<1>6. Cardinality(1 .. c) = Cardinality(S)
    BY <1>4 DEF c
<1>7. q \in Surjection(1 .. c, S)
    BY <1>5, <1>6, FS_Injection
<1>8. ToSet(q) = S
    BY <1>3, <1>7 DEF Surjection, ToSet
<1>9. q \in Seq(S)
    BY <1>1, <1>3 DEF c
<1> QED
    BY <1>3, <1>8, <1>9 DEF q

LEMMA InitialLists ==
    ASSUME config \in Configs
    PROVE  /\ InitialPorts(config) \in PortLists /\ InitialTypes(config) \in TypeLists
           /\ \A p \in PortNames : /\ IsInjective(InitialPorts(config)[p])
                                   /\ \A s \in ToSet(InitialPorts(config)[p]) : BelongPort(s) = p
           /\ \A type \in TypeNames : /\ IsInjective(InitialTypes(config)[type])
                                      /\ \A s \in ToSet(InitialTypes(config)[type]) :
                                            BelongPort(s) = "none" /\ TypeOf(s) = type
           /\ \A s \in Objects : IF BelongPort(s) = "none" THEN s \in ToSet(InitialTypes(config)[TypeOf(s)])
                                 ELSE s \in ToSet(InitialPorts(config)[BelongPort(s)])
<1> DEFINE A == config.inside
           B == config.outside
           N == Len(config.peers)
           ports == InitialPorts(config)
           types == InitialTypes(config)
           of(type) == {A + B + i : i \in {j \in DOMAIN config.peers : config.peers[j][1] = type}}
<1>1. /\ A \in Nat /\ B \in Nat /\ N \in Nat /\ DOMAIN config.peers = 1 .. N
    BY ConfigFacts
<1>2. Objects = 1 .. (A + B + N) /\ PortNames = {"inside", "outside"}
    BY DEF Objects, PortNames
<1>3. /\ ports["inside"] = [i \in 1 .. A |-> i] /\ ports["outside"] = [i \in 1 .. B |-> A + i]
      /\ DOMAIN ports = PortNames
    BY DEF InitialPorts, PortNames
<1>4. \A s \in Objects : /\ s <= A => BelongPort(s) = "inside"
                         /\ s > A /\ s <= A + B => BelongPort(s) = "outside"
                         /\ s > A + B => BelongPort(s) = "none" /\ s - (A + B) \in 1 .. N
    BY <1>1, <1>2 DEF BelongPort
<1>5. types = [type \in TypeNames |-> SetToSeq(of(type))]
    BY Zenon DEF types, InitialTypes, TypeNames, A, B, of
<1>6. ASSUME NEW type
      PROVE  IsFiniteSet(of(type)) /\ of(type) \subseteq Objects
             /\ \A s \in of(type) : s > A + B /\ config.peers[s - (A + B)][1] = type
    <2>1. ASSUME NEW s \in of(type)
          PROVE  s \in Objects /\ s > A + B /\ config.peers[s - (A + B)][1] = type
        <3>1. PICK i \in 1 .. N : s = A + B + i /\ config.peers[i][1] = type
            BY <1>1, <2>1
        <3>2. s - (A + B) = i
            BY <1>1, <3>1
        <3> QED
            BY <1>1, <1>2, <3>1, <3>2, SMTT(30), Zenon
    <2>2. IsFiniteSet(Objects)
        <3>1. A + B + N \in Int /\ 1 \in Int
            BY <1>1
        <3> QED
            BY <1>2, <3>1, FS_Interval
    <2> QED
        BY <2>1, <2>2, FS_Subset
<1>7. \A i \in 1 .. N : config.peers[i][1] \in TypeNames /\ A + B + i \in of(config.peers[i][1])
    BY <1>1 DEF TypeNames
<1> HIDE DEF A, B, N, ports, types, of
<1>8. /\ ports["inside"] \in Seq(Objects) /\ IsInjective(ports["inside"])
      /\ \A s \in ToSet(ports["inside"]) : BelongPort(s) = "inside"
      /\ \A s \in Objects : s <= A => s \in ToSet(ports["inside"])
    <2>1. ports["inside"] \in Seq(Objects)
        BY <1>1, <1>2, <1>3
    <2>2. ToSet(ports["inside"]) = 1 .. A
        BY <1>3 DEF ToSet
    <2>3. IsInjective(ports["inside"])
        BY <1>3 DEF IsInjective
    <2> QED
        BY <1>1, <1>2, <1>4, <2>1, <2>2, <2>3
<1>9. /\ ports["outside"] \in Seq(Objects) /\ IsInjective(ports["outside"])
      /\ \A s \in ToSet(ports["outside"]) : BelongPort(s) = "outside"
      /\ \A s \in Objects : s > A /\ s <= A + B => s \in ToSet(ports["outside"])
    <2>1. ports["outside"] \in Seq(Objects)
        <3>1. \A i \in 1 .. B : A + i \in Objects
            BY <1>1, <1>2
        <3> QED
            BY <1>1, <1>3, <3>1
    <2>2. ToSet(ports["outside"]) = A + 1 .. A + B
        <3>1. \A i \in 1 .. B : A + i \in A + 1 .. A + B
            BY <1>1
        <3>2. \A s \in A + 1 .. A + B : s - A \in 1 .. B /\ s = A + (s - A)
            BY <1>1
        <3>3. DOMAIN ports["outside"] = 1 .. B /\ \A i \in 1 .. B : ports["outside"][i] = A + i
            BY <1>3
        <3> QED
            BY <3>1, <3>2, <3>3 DEF ToSet
    <2>3. IsInjective(ports["outside"])
        BY <1>1, <1>3 DEF IsInjective
    <2> QED
        BY <1>1, <1>2, <1>4, <2>1, <2>2, <2>3
<1>10. ASSUME NEW type \in TypeNames
       PROVE  /\ types[type] \in Seq(Objects) /\ IsInjective(types[type]) /\ ToSet(types[type]) = of(type)
              /\ \A s \in ToSet(types[type]) : BelongPort(s) = "none" /\ TypeOf(s) = type
    <2>1. types[type] = SetToSeq(of(type))
        BY <1>5
    <2>2. types[type] \in Seq(of(type)) /\ IsInjective(types[type]) /\ ToSet(types[type]) = of(type)
        BY <1>6, <2>1, SetInSequence
    <2>3. types[type] \in Seq(Objects)
        BY <1>6, <2>2
    <2>4. ASSUME NEW s \in of(type) PROVE BelongPort(s) = "none" /\ TypeOf(s) = type
        <3>1. s \in Objects /\ s > A + B /\ config.peers[s - (A + B)][1] = type
            BY <1>6, <2>4
        <3> QED
            BY <1>4, <3>1 DEF TypeOf, A, B
    <2> QED
        BY <2>2, <2>3, <2>4
<1>11. ASSUME NEW s \in Objects, s > A + B
       PROVE  s \in ToSet(types[TypeOf(s)])
    <2> DEFINE i == s - (A + B)
               type == config.peers[i][1]
    <2>1. i \in 1 .. N /\ TypeOf(s) = type /\ s = A + B + i
        BY <1>1, <1>2, <1>4, <1>11 DEF TypeOf, A, B
    <2> HIDE DEF i
    <2>2. type \in TypeNames /\ s \in of(type)
        BY <1>7, <2>1
    <2> QED
        BY <1>10, <2>1, <2>2
<1>12. ports \in PortLists
    <2>1. \A p \in PortNames : ports[p] \in Seq(Objects)
        BY <1>2, <1>8, <1>9
    <2>2. ports = [p \in PortNames |-> ports[p]]
        BY <1>3 DEF ports, InitialPorts, PortNames
    <2> QED
        BY <2>1, <2>2 DEF PortLists
<1>13. types \in TypeLists
    <2>1. \A type \in TypeNames : SetToSeq(of(type)) \in Seq(Objects)
        BY <1>5, <1>10
    <2> QED
        BY <1>5, <2>1 DEF TypeLists
<1>14. \A s \in Objects : IF BelongPort(s) = "none" THEN s \in ToSet(types[TypeOf(s)])
                          ELSE s \in ToSet(ports[BelongPort(s)])
    <2> TAKE s \in Objects
    <2>1. s <= A \/ (s > A /\ s <= A + B) \/ s > A + B
        BY <1>1, <1>2
    <2> QED
        BY <1>4, <1>8, <1>9, <1>11, <2>1
<1> QED
    BY <1>2, <1>8, <1>9, <1>10, <1>12, <1>13, <1>14 DEF ports, types

\* What the first state of the net thread is made of.
LEMMA InitialNet ==
    ASSUME Init
    PROVE  /\ net \in Nets /\ net.sock = [s \in Objects |-> Unused(Nobody)]
           /\ net.ports = InitialPorts(config) /\ net.types = InitialTypes(config)
           /\ DOMAIN net.servers = {} /\ net.timers = << >> /\ net.link = << >>
           /\ net.desc = [f \in Fds |-> 0] /\ net.ptr = [f \in Fds |-> 0]
           /\ net.recvCS = << >> /\ net.sendSS = << >> /\ net.sendCS = << >>
           /\ net.lost = {}
<1>1. config \in Configs
    BY DEF Init
<1>2. PICK deaf \in SUBSET Ports(config) :
          net = [sock |-> [s \in Objects |-> Unused(Nobody)],
                 ports |-> InitialPorts(config), types |-> InitialTypes(config),
                 servers |-> << >>, timers |-> << >>, link |-> << >>,
                 desc |-> [f \in 1 .. MaxFd |-> 0], ptr |-> [f \in 1 .. MaxFd |-> 0],
                 recvCS |-> << >>, sendSS |-> << >>, sendCS |-> << >>, due |-> TRUE,
                 lost |-> {}, replaced |-> FALSE, stranger |-> FALSE, silent |-> {}, starved |-> {},
                 listening |-> Initialize(config, deaf)]
    BY DEF Init
<1> DEFINE sock == [s \in Objects |-> Unused(Nobody)]
           ports == InitialPorts(config)
           types == InitialTypes(config)
           desc == [f \in 1 .. MaxFd |-> 0]
           listening == Initialize(config, deaf)
<1>3. sock \in SocketMaps
    <2>1. Unused(Nobody) \in SocketSet
        <3>1. << >> \in Seq({"message"}) /\ "Closed" \in {"Closed", "Opened", "Connecting", "Connected", "Available"}
              /\ 0 \in Fds \cup {0} /\ Nobody \in Keys \cup {Nobody} /\ FALSE \in BOOLEAN
            OBVIOUS
        <3> QED
            BY <3>1 DEF Unused, SocketSet
    <2> QED
        BY <2>1 DEF SocketMaps
<1>4. ports \in PortLists /\ types \in TypeLists
    BY <1>1, InitialLists
<1>5. << >> \in ServerMaps /\ DOMAIN << >> = {}
    <2>1. << >> \in [{} -> Objects] /\ DOMAIN << >> = {}
        OBVIOUS
    <2> QED
        BY <2>1 DEF ServerMaps, Maps
<1>6. << >> \in TimerLists /\ << >> \in LinkLists /\ << >> \in PacketQueues /\ << >> \in OrderQueues
    BY DEF TimerLists, LinkLists, PacketQueues, OrderQueues
<1>7. desc \in DescMaps /\ desc \in PtrMaps
    BY DEF DescMaps, PtrMaps, Fds
<1>8. {} \in ObjectSets /\ {} \in NumberSets /\ {} \in PortSets /\ listening \in PortSets
    BY DEF ObjectSets, NumberSets, PortSets, Initialize, OpenSocketAsServer, Ports, PortNames
<1>9. TRUE \in BOOLEAN /\ FALSE \in BOOLEAN
    OBVIOUS
<1>10. desc = [f \in Fds |-> 0]
    BY DEF Fds
<1> HIDE DEF sock, ports, types, desc, listening
<1>11. net = [sock |-> sock, ports |-> ports, types |-> types, servers |-> << >>, timers |-> << >>, link |-> << >>,
              desc |-> desc, ptr |-> desc, recvCS |-> << >>, sendSS |-> << >>, sendCS |-> << >>, due |-> TRUE,
              lost |-> {}, replaced |-> FALSE, stranger |-> FALSE, silent |-> {}, starved |-> {},
              listening |-> listening]
    BY <1>2 DEF sock, ports, types, desc, listening
<1>12. net \in Nets
    BY <1>3, <1>4, <1>5, <1>6, <1>7, <1>8, <1>9, <1>11 DEF Nets
<1>13. /\ net.sock = sock /\ net.ports = ports /\ net.types = types /\ net.servers = << >> /\ net.timers = << >>
       /\ net.link = << >> /\ net.desc = desc /\ net.ptr = desc /\ net.recvCS = << >> /\ net.sendSS = << >>
       /\ net.sendCS = << >> /\ net.lost = {}
    BY <1>11
<1> QED
    BY <1>5, <1>10, <1>12, <1>13 DEF sock, ports, types

LEMMA InitEstablishes ==
    ASSUME Init
    PROVE  IInv
<1>1. /\ config \in Configs /\ pc = "connect" /\ batch = << >> /\ edge = {}
      /\ backlog = [inside |-> << >>, outside |-> << >>]
      /\ conn = << >> /\ app = [t \in 1 .. config.threads |-> NoWork]
    BY DEF Init
<1>2. /\ net \in Nets /\ net.sock = [s \in Objects |-> Unused(Nobody)]
      /\ net.ports = InitialPorts(config) /\ net.types = InitialTypes(config)
      /\ DOMAIN net.servers = {} /\ net.timers = << >> /\ net.link = << >>
      /\ net.desc = [f \in Fds |-> 0] /\ net.ptr = [f \in Fds |-> 0]
      /\ net.recvCS = << >> /\ net.sendSS = << >> /\ net.sendCS = << >>
      /\ net.lost = {}
    BY InitialNet
<1>3. \A p \in PortNames : backlog[p] = << >>
    BY <1>1 DEF PortNames
<1>4. backlog \in Backlogs
    <2>1. backlog = [p \in PortNames |-> << >>]
        BY <1>1 DEF PortNames
    <2> QED
        BY <2>1 DEF Backlogs
<1>5. ToSet(<< >>) = {} /\ IsInjective(<< >>) /\ Len(<< >>) = 0
    BY DEF ToSet, IsInjective
<1>6. \A s \in Objects : /\ net.sock[s].fd = 0 /\ net.sock[s].status = "Closed" /\ net.sock[s].peer = Nobody
                         /\ net.sock[s].timer = FALSE /\ net.sock[s].buf = << >>
    BY <1>2 DEF Unused
<1>7. \A f \in Fds : net.desc[f] = 0 /\ net.ptr[f] = 0
    BY <1>2
<1>8. \A t \in DOMAIN app : app[t].packet = NoPacket
    BY <1>1 DEF NoWork
<1>9. conn \in Maps(Fds, Nat) /\ DOMAIN conn = {}
    <2>1. << >> \in [{} -> Nat] /\ DOMAIN << >> = {}
        OBVIOUS
    <2> QED
        BY <1>1, <2>1 DEF Maps
<1>10. app \in [1 .. config.threads -> WorkSet]
    BY <1>1 DEF NoWork, WorkSet
<1>11. Holding(net)
    <2>1. \A f, g \in Fds : net.desc[f] # 0 /\ net.desc[f] = net.desc[g] => f = g
        BY <1>7
    <2>2. \A f \in Fds : net.desc[f] <= Len(net.link)
        BY <1>2, <1>5, <1>7
    <2> QED
        BY <1>6, <2>1, <2>2 DEF Holding
<1>12. Waiting(net, backlog)
    BY <1>3, <1>5 DEF Waiting
<1>13. Quiet(net)
    BY <1>2, <1>5, <1>6 DEF Quiet
<1>14. /\ \A p \in PortNames : /\ IsInjective(net.ports[p])
                               /\ \A s \in ToSet(net.ports[p]) : BelongPort(s) = p
       /\ \A type \in TypeNames : /\ IsInjective(net.types[type])
                                  /\ \A s \in ToSet(net.types[type]) : BelongPort(s) = "none" /\ TypeOf(s) = type
       /\ \A s \in Objects : IF BelongPort(s) = "none" THEN s \in ToSet(net.types[TypeOf(s)])
                             ELSE s \in ToSet(net.ports[BelongPort(s)])
    BY <1>1, <1>2, InitialLists
<1>15. Clients(net)
    <2>1. "outside" \in PortNames
        BY DEF PortNames
    <2>2. \A s \in ToSet(net.ports["outside"]) : net.sock[s].fd = 0
        BY <1>2, <1>6, <2>1, NetTyped, ElementsTyped
    <2> QED
        BY <1>2, <1>6, <1>14, <2>1, <2>2 DEF Clients
<1>16. Accounted(net)
    <2>1. Free(net)
        BY <1>2, <1>6, <1>14 DEF Free, HomeList
    <2>2. Pointed(net)
        BY <1>7 DEF Pointed
    <2>3. Timed(net)
        BY <1>2, <1>5, <1>6 DEF Timed
    <2>4. Entered(net)
        BY <1>2 DEF Entered
    <2> QED
        BY <2>1, <2>2, <2>3, <2>4 DEF Accounted
<1>17. Routed(net)
    BY <1>6 DEF Routed
<1>18. Packets(net, backlog, app)
    BY <1>2, <1>5, <1>8 DEF Packets
<1>19. Replies(net, backlog)
    BY <1>2, <1>5 DEF Replies
<1>20. Ended(net, conn, app)
    BY <1>2, <1>5, <1>8, <1>9 DEF Ended
<1>21. Settled(net)
    BY <1>6 DEF Settled, Calm
<1>22. Events(net, batch)
    BY <1>1, NoEvents
<1>23. Noticed
    BY <1>3, <1>5 DEF Noticed
<1>24. Safe(net, backlog)
    BY <1>2, <1>11, <1>12, <1>13, <1>15, <1>16, <1>17, <1>18, <1>19, <1>20 DEF Safe
<1> QED
    BY <1>1, <1>4, <1>9, <1>10, <1>21, <1>22, <1>23, <1>24 DEF IInv

\* The parts of the invariant hold in every state the system comes to.
THEOREM Invariance == Spec => []IInv
<1>1. Init => IInv
    BY InitEstablishes
<1>2. IInv /\ [Next]_vars => IInv'
    <2> SUFFICES ASSUME IInv, [Next]_vars PROVE IInv'
        OBVIOUS
    <2>1. CASE NetStep
        BY <2>1, NetThreadKeeps
    <2>2. CASE AppStep
        BY <2>2, AppThreadsKeep
    <2>3. CASE World
        BY <2>3, WorldKeeps
    <2>4. CASE UNCHANGED vars
        <3>1. /\ UNCHANGED <<config, pc, batch, conn, app>> /\ edge' \in SUBSET PortNames /\ backlog' \in Backlogs
              /\ Noticed' /\ Safe(net', backlog') /\ net'.sock = net.sock /\ net'.replaced = net.replaced
            BY <2>4 DEF IInv, Noticed, vars
        <3> QED
            BY <3>1, WorldStepKeeps
    <2> QED
        BY <2>1, <2>2, <2>3, <2>4 DEF Next
<1> QED
    BY <1>1, <1>2, PTL DEF Spec

-----------------------------------------------------------------------------
(* What follows from it.                                                   *)

\* An order of a port's links, or of events, for the set of them.
LEMMA InSequence ==
    ASSUME NEW S, NEW q \in Seq(S), NEW x
    PROVE  x \in ToSet(q) <=> \E i \in DOMAIN q : q[i] = x
BY DEF ToSet

\* Who waits to be accepted has an event coming, unless descriptors ran out: accept is
\* called until it fails, and epoll, which is told of changes only, reports the port
\* once for all that came (EpollWait, ReadEvent, OnAccept).
THEOREM BacklogNoticed == Spec => []BacklogIsNoticed
<1>1. IInv => BacklogIsNoticed
    <2> SUFFICES ASSUME IInv, NEW p \in DOMAIN backlog, backlog[p] # << >>
                 PROVE  p \in edge \/ p \in net.starved \/ \E i \in DOMAIN batch : batch[i].port = p
        BY DEF BacklogIsNoticed
    <2>1. backlog \in Backlogs /\ Noticed /\ batch \in Seq(EventSet)
        BY DEF IInv, Events
    <2>2. p \in PortNames /\ backlog[p] \in Seq(Nat)
        BY <2>1 DEF Backlogs
    <2>3. ToSet(backlog[p]) # {}
        BY <2>2, ElementsTyped
    <2>4. DOMAIN batch = 1 .. Len(batch)
        BY <2>1
    <2> QED
        BY <2>1, <2>2, <2>3, <2>4 DEF Noticed
<1> QED
    BY <1>1, Invariance, PTL

\* With one application thread a connection whose client is gone is taken down by a close
\* event, or it was made too late for one: the close event goes up behind the messages
\* that are left, and thread and queue keep that order (OnDisconnect, ProcessCSMessage).
THEOREM ConnectionsAreEnded == Spec => []ConnectionsEnd
<1>1. IInv => ConnectionsEnd
    <2> SUFFICES ASSUME IInv, config.threads = 1, NEW fd \in DOMAIN conn
                 PROVE  \/ net.desc[fd] = conn[fd] \/ conn[fd] \in net.silent
                        \/ \E i \in DOMAIN net.recvCS :
                              net.recvCS[i] = [fd |-> fd, link |-> conn[fd], close |-> TRUE]
                        \/ \E t \in DOMAIN app : app[t].packet = [fd |-> fd, link |-> conn[fd], close |-> TRUE]
        BY DEF ConnectionsEnd
    <2>1. net \in Nets /\ Ended(net, conn, app)
        BY DEF IInv, Safe
    <2>2. net.recvCS \in Seq(PacketSet)
        BY <2>1, NetTyped
    <2>3. DOMAIN net.recvCS = 1 .. Len(net.recvCS)
        BY <2>2
    <2>4. Ending(net, fd, conn[fd], 0) \/ \E t \in DOMAIN app : app[t].packet = CloseOf(fd, conn[fd])
        BY <2>1 DEF Ended
    <2> QED
        BY <2>3, <2>4 DEF Ending, CloseOf
<1> QED
    BY <1>1, Invariance, PTL

\* A reply reaches the client it answers; another only when that one is gone, and its
\* descriptor, by which the reply is sent, was given to the other (SendMessagesToClient).
THEOREM RepliesReachClients == Spec => []RepliesReachTheirClient
<1>1. IInv => RepliesReachTheirClient
    <2> SUFFICES ASSUME IInv, NEW l \in DOMAIN net.link, NEW answered \in net.link[l].got,
                        net.link[l].who = <<Client, 0>>, answered # l, Live(answered)
                 PROVE  FALSE
        BY DEF RepliesReachTheirClient
    <2>1. net \in Nets /\ Replies(net, backlog) /\ backlog \in Backlogs
        BY DEF IInv, Safe
    <2>2. net.link \in Seq(LinkSet)
        BY <2>1, NetTyped
    <2>3. l \in 1 .. Len(net.link)
        BY <2>2
    <2>4. ~Alive(net, backlog, answered)
        BY <2>1, <2>3 DEF Replies
    <2>5. CASE \E f \in 1 .. MaxFd : net.desc[f] = answered
        BY <2>4, <2>5 DEF Alive, Fds
    <2>6. CASE \E p \in DOMAIN backlog : \E i \in DOMAIN backlog[p] : backlog[p][i] = answered
        <3>1. PICK p \in DOMAIN backlog : \E i \in DOMAIN backlog[p] : backlog[p][i] = answered
            BY <2>6
        <3>2. p \in PortNames /\ backlog[p] \in Seq(Nat)
            BY <2>1 DEF Backlogs
        <3>3. answered \in ToSet(backlog[p])
            BY <3>1, <3>2, InSequence
        <3> QED
            BY <2>4, <3>2, <3>3 DEF Alive
    <2> QED
        BY <2>5, <2>6 DEF Live
<1> QED
    BY <1>1, Invariance, PTL

\* As long as no registration replaced an open socket, and no stranger took an entry away,
\* the map leads exactly to the sockets that are in use, and a server connected to has
\* our registration, or it is in the queue (AddSocket, DelSocket, SendRegisteNotify).
THEOREM RoutesTrue == Spec => []RoutesAreTrue
<1>1. IInv => RoutesAreTrue
    <2> SUFFICES ASSUME IInv, ~net.replaced, ~net.stranger PROVE RoutesAreTrue
        BY DEF RoutesAreTrue
    <2>1. net \in Nets /\ Clients(net) /\ Entered(net) /\ Routed(net)
        BY DEF IInv, Safe, Accounted
    <2>2. DOMAIN net.sock = Objects /\ net.sendSS \in Seq(OrderSet)
        BY <2>1, NetTyped
    <2>3. \A key \in DOMAIN net.servers : LET s == net.servers[key] IN net.sock[s].fd # 0 /\ net.sock[s].peer = key
        BY <2>1, Zenon DEF Entered
    <2>4. ASSUME NEW s \in Objects,
                 net.sock[s].status \in {"Available", "Connecting"} \/ (net.sock[s].fd # 0 /\ BelongPort(s) = "outside")
          PROVE  net.sock[s].peer \in DOMAIN net.servers /\ net.servers[net.sock[s].peer] = s
        <3>1. CASE net.sock[s].status \in {"Available", "Connecting"}
            BY <2>1, <3>1 DEF Routed
        <3>2. CASE net.sock[s].fd # 0 /\ BelongPort(s) = "outside"
            <4>1. /\ net.sock[s].peer = <<Client, net.sock[s].fd>>
                  /\ <<Client, net.sock[s].fd>> \in DOMAIN net.servers
                  /\ net.servers[<<Client, net.sock[s].fd>>] = s
                BY <2>1, <3>2 DEF Clients
            <4> QED
                BY <4>1
        <3> QED
            BY <2>4, <3>1, <3>2
    <2>5. ASSUME NEW s \in Objects, BelongPort(s) = "none", net.sock[s].status = "Available"
          PROVE  \/ "regist" \in net.link[LinkOf(net, s)].got
                 \/ \E i \in DOMAIN net.sendSS : net.sendSS[i] = [to |-> net.sock[s].peer, kind |-> "regist"]
        <3>1. \/ "regist" \in net.link[LinkOf(net, s)].got
              \/ [to |-> net.sock[s].peer, kind |-> "regist"] \in ToSet(net.sendSS)
            BY <2>1, <2>5 DEF Routed
        <3> QED
            BY <2>2, <3>1, InSequence
    <2> QED
        BY <2>2, <2>3, <2>4, <2>5 DEF RoutesAreTrue
<1> QED
    BY <1>1, Invariance, PTL

LEMMA OneOfThree ==
    ASSUME NEW A \in BOOLEAN, NEW B \in BOOLEAN, NEW C \in BOOLEAN, A \/ B \/ C, ~(A /\ B), ~(A /\ C), ~(B /\ C)
    PROVE  Cardinality({where \in {<<"listed", A>>, <<"open", B>>, <<"lost", C>>} : where[2]}) = 1
<1> DEFINE a == <<"listed", A>>
           b == <<"open", B>>
           c == <<"lost", C>>
           W == {where \in {a, b, c} : where[2]}
<1>1. (a[2] <=> A) /\ (b[2] <=> B) /\ (c[2] <=> C)
    OBVIOUS
<1> HIDE DEF a, b, c
<1>2. \E x : W = {x}
    <2>1. CASE A
        <3>1. W = {a}
            BY <1>1, <2>1
        <3> QED
            BY <3>1
    <2>2. CASE B
        <3>1. W = {b}
            BY <1>1, <2>2
        <3> QED
            BY <3>1
    <2>3. CASE C
        <3>1. W = {c}
            BY <1>1, <2>3
        <3> QED
            BY <3>1
    <2> QED
        BY <2>1, <2>2, <2>3
<1> HIDE DEF W
<1>3. Cardinality(W) = 1
    BY <1>2, FS_Singleton
<1> QED
    BY <1>3 DEF W, a, b, c

LEMMA ListedAtHome ==
    ASSUME IInv, ~net.replaced, NEW s \in Objects
    PROVE  Listed(s) <=> s \in ToSet(HomeList(net, s))
<1>1. config \in Configs /\ net \in Nets /\ Clients(net) /\ Free(net)
    BY DEF IInv, Safe, Accounted
<1>2. net.ports \in [PortNames -> Seq(Objects)] /\ net.types \in [TypeNames -> Seq(Objects)]
    BY <1>1, NetTyped
<1>3. /\ DOMAIN net.ports = PortNames /\ DOMAIN net.types = TypeNames
      /\ \A p \in PortNames : net.ports[p] \in Seq(Objects)
      /\ \A type \in TypeNames : net.types[type] \in Seq(Objects)
    BY <1>2
<1>4. \A p \in PortNames : s \in ToSet(net.ports[p]) <=> \E i \in DOMAIN net.ports[p] : net.ports[p][i] = s
    BY <1>3, InSequence
<1>5. \A type \in TypeNames : s \in ToSet(net.types[type]) <=> \E i \in DOMAIN net.types[type] : net.types[type][i] = s
    BY <1>3, InSequence
<1>6. Listed(s) <=> \/ \E p \in PortNames : s \in ToSet(net.ports[p])
                    \/ \E type \in TypeNames : s \in ToSet(net.types[type])
    BY <1>3, <1>4, <1>5 DEF Listed
<1>7. /\ BelongPort(s) \in PortNames \cup {"none"} /\ "none" \notin PortNames
      /\ BelongPort(s) = "none" => TypeOf(s) \in TypeNames
    BY <1>1, ConfigFacts DEF PortNames
<1>8. \A p \in PortNames : s \in ToSet(net.ports[p]) => BelongPort(s) = p
    BY <1>1 DEF Clients
<1>9. \A type \in TypeNames : s \in ToSet(net.types[type]) => BelongPort(s) = "none" /\ TypeOf(s) = type
    BY <1>1 DEF Clients, Free
<1> QED
    BY <1>6, <1>7, <1>8, <1>9 DEF HomeList

\* As long as no registration replaced an open socket, every object is in its list once,
\* or open, or lost, and one of these; descriptors and events lead to their objects; socket
\* timers belong to attempts to connect (CreateSocket, DestroySocketObject, CloseSocket,
\* RegistEvent, DeleteSocketTimer).
THEOREM SocketsAccounted == Spec => []SocketsAccountedFor
<1>1. IInv => SocketsAccountedFor
    <2> SUFFICES ASSUME IInv, ~net.replaced PROVE SocketsAccountedFor
        BY DEF SocketsAccountedFor
    <2>1. /\ net \in Nets /\ Free(net) /\ Pointed(net) /\ Timed(net) /\ Settled(net) /\ Events(net, batch)
        BY DEF IInv, Safe, Accounted
    <2>2. /\ DOMAIN net.sock = Objects /\ net.timers \in Seq(Objects)
          /\ DOMAIN net.ports = PortNames /\ DOMAIN net.types = TypeNames
        BY <2>1, NetTyped
    <2>3. ASSUME NEW s \in Objects
          PROVE  Cardinality({where \in {<<"listed", Listed(s)>>, <<"open", net.sock[s].fd # 0>>,
                                         <<"lost", s \in net.lost>>} : where[2]}) = 1
        <3> DEFINE A == Listed(s)
                   B == net.sock[s].fd # 0
                   C == s \in net.lost
        <3>1. A <=> s \in ToSet(HomeList(net, s))
            BY ListedAtHome
        <3>2. (A => ~B /\ ~C) /\ (A \/ B \/ C) /\ (C => ~B)
            BY <2>1, <3>1 DEF Free
        <3>3. A \in BOOLEAN /\ B \in BOOLEAN /\ C \in BOOLEAN
            BY DEF Listed
        <3> HIDE DEF A, B, C
        <3>4. Cardinality({where \in {<<"listed", A>>, <<"open", B>>, <<"lost", C>>} : where[2]}) = 1
            BY <3>2, <3>3, OneOfThree
        <3> QED
            BY <3>4 DEF A, B, C
    <2>4. \A p \in PortNames : IsInjective(net.ports[p])
        BY <2>1 DEF Free
    <2>5. \A type \in TypeNames : IsInjective(net.types[type])
        BY <2>1 DEF Free
    <2>6. \A f \in 1 .. MaxFd : net.desc[f] # 0 => net.ptr[f] # 0 /\ net.sock[net.ptr[f]].fd = f
        BY <2>1 DEF Pointed, Fds
    <2>7. \A i \in DOMAIN batch : batch[i].s # 0 => net.sock[batch[i].s].fd = batch[i].fd
        <3>1. batch \in Seq(EventSet)
            BY <2>1 DEF Events
        <3>2. DOMAIN batch = 1 .. Len(batch)
            BY <3>1
        <3> QED
            BY <2>1, <3>2 DEF Events
    <2>8. \A i \in DOMAIN net.timers : net.sock[net.timers[i]].status = "Connecting"
        <3> TAKE i \in DOMAIN net.timers
        <3>1. net.timers[i] \in Objects /\ net.timers[i] \in ToSet(net.timers)
            BY <2>2, InSequence
        <3>2. net.sock[net.timers[i]].status \in {"Opened", "Connecting"}
            BY <2>1, <3>1 DEF Timed
        <3> QED
            BY <2>1, <3>1, <3>2 DEF Settled, Calm
    <2> QED
        BY <2>2, <2>3, <2>4, <2>5, <2>6, <2>7, <2>8 DEF SocketsAccountedFor
<1> QED
    BY <1>1, Invariance, PTL
=============================================================================
