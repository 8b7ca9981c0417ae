------------------------------- MODULE Config -------------------------------
(***************************************************************************)
(* The configuration (src/frame_baseconfig.cpp, frame_message_config.cpp,  *)
(* frame_configmgt.cpp, frame_config_container.h).  The framework's own    *)
(* two files are read, and read again on reload, into the object in use:   *)
(* a load changes it step by step and stops at the first thing missing,    *)
(* with what was read before in place.  CFrameConfigContainer, for the     *)
(* files of the application, loads a second object and swaps.              *)
(*                                                                         *)
(* A document is a record of the nodes and attributes the loaders ask for; *)
(* Missing stands for one that is not there.  Names are abstract, numbers  *)
(* are what TinyXML makes of the text.                                     *)
(***************************************************************************)
EXTENDS Integers, Sequences, SequencesExt

CONSTANTS
    MaxNetConfigs, MaxPeerNodes,    \* MAX_NETCONFIG_COUNT, MAX_PEERNODE_COUNT
    Missing                         \* model value

NoAddress == "0.0.0.0"

\* Constructed: m_arrNetConfig, m_arrPeerNodeConfig with their counts, and the map of messages.
NetConfig == [address |-> NoAddress, type |-> Missing, port |-> 0, desc |-> << >>]
PeerNodeConfig == [address |-> NoAddress, port |-> 0, id |-> 0]
New == [logLevel |-> "none", zone |-> 0, server |-> 0, netType |-> 0, threads |-> 0, fileSize |-> 0,
        net |-> [k \in 1 .. MaxNetConfigs |-> NetConfig], nets |-> 0,
        peer |-> [k \in 1 .. MaxPeerNodes |-> PeerNodeConfig], peers |-> 0,
        messages |-> << >>, outside |-> FALSE]

\* A loader returns the object and whether it came to the end.
Loaded(s) == [s |-> s, ok |-> TRUE]
Failed(s) == [s |-> s, ok |-> FALSE]
Then(r, Load(_)) == IF r.ok THEN Load(r.s) ELSE r

\* "error" is taken for a warning; a level that is unknown changes nothing.
LogLevel(s, level) ==
    IF level = Missing THEN "notice"
    ELSE IF level \in {"debug", "info", "notice", "warning", "critical"} THEN level
    ELSE IF level = "error" THEN "warning" ELSE s.logLevel

\* Level, zone, server (type and id), net type, threads.
LoadCommon(s, root) ==
    IF root.common = Missing THEN Failed(s)
    ELSE LET n == root.common
             s1 == [s EXCEPT !.logLevel = LogLevel(s, n.level), !.zone = IF n.zone = Missing THEN 0 ELSE n.zone]
         IN  IF n.server = Missing THEN Failed(s1)
             ELSE Loaded([s1 EXCEPT !.server = n.server,
                                    !.netType = IF n.netType = Missing THEN @ ELSE n.netType,
                                    !.threads = IF n.threads = Missing THEN 1 ELSE n.threads])

LoadLogFileSize(s, root) ==
    IF root.fileSize = Missing THEN Failed(s) ELSE Loaded([s EXCEPT !.fileSize = root.fileSize])

\* A slot of an array is filled, or what lies behind the array.
Filled(s, array, k, slot) ==
    IF k \in DOMAIN s[array] THEN [s EXCEPT ![array][k] = slot] ELSE [s EXCEPT !.outside = TRUE]
Slot(s, array, k, empty) == IF k \in DOMAIN s[array] THEN s[array][k] ELSE empty

\* The listener is counted by its type; "any" leaves the address the slot has.
LoadListen(s, n) ==
    IF n.type \notin {"inside", "outside"} THEN Failed(s)
    ELSE LET k == s.nets + 1
             slot == [Slot(s, "net", k, NetConfig) EXCEPT !.type = n.type]
             addressed == [slot EXCEPT !.address = IF n.address \in {"any", Missing} THEN @ ELSE n.address]
             ported == [addressed EXCEPT !.port = IF n.port = Missing THEN @ ELSE n.port]
             Stop(with) == Failed([Filled(s, "net", k, with) EXCEPT !.nets = k])
         IN  IF n.address = Missing THEN Stop(slot)
             ELSE IF n.port = Missing THEN Stop(addressed)
             ELSE IF n.desc = Missing THEN Stop(ported)
             ELSE Loaded([Filled(s, "net", k, [ported EXCEPT !.desc = n.desc]) EXCEPT !.nets = k])

EachNode(Load(_, _), s, nodes) == FoldLeft(LAMBDA r, n : IF r.ok THEN Load(r.s, n) ELSE r, Loaded(s), nodes)

\* (mutant) the listeners are not counted from none again
LoadNetConfig_Appends(s, root) ==
    IF root.net \in {Missing, << >>} THEN Failed(s) ELSE EachNode(LoadListen, s, root.net)

LoadNetConfig(s, root) ==
    LET none == [s EXCEPT !.nets = 0]
    IN  IF root.net \in {Missing, << >>} THEN Failed(none) ELSE EachNode(LoadListen, none, root.net)

\* A peer counts once it is complete.
LoadPeer(s, n) ==
    LET k == s.peers + 1
        slot == Slot(s, "peer", k, PeerNodeConfig)
        addressed == [slot EXCEPT !.address = n.address]
        ported == [addressed EXCEPT !.port = n.port]
    IN  IF n.address = Missing THEN Failed(s)
        ELSE IF n.port = Missing THEN Failed(Filled(s, "peer", k, addressed))
        ELSE IF n.id = Missing THEN Failed(Filled(s, "peer", k, ported))
        ELSE Loaded([Filled(s, "peer", k, [ported EXCEPT !.id = n.id]) EXCEPT !.peers = k])

\* Nothing resets m_nPeerNodeConfigCount: the peers of a reload come behind the others.
LoadPeerNodeConfig(s, root) ==
    IF root.peers = Missing THEN Loaded(s)
    ELSE IF root.peers = << >> THEN Failed(s) ELSE EachNode(LoadPeer, s, root.peers)

\* CFrameBaseConfig::Initialize
InitializeBase(s, root) ==
    IF root = Missing THEN Failed(s)
    ELSE LET common == LoadCommon(s, root)
             size == Then(common, LAMBDA t : LoadLogFileSize(t, root))
             net == Then(size, LAMBDA t : LoadNetConfig(t, root))
         IN  Then(net, LAMBDA t : LoadPeerNodeConfig(t, root))
-----------------------------------------------------------------------------
Transports == {"p2p", "p2g", "broadcast", "bykey", "regist", "random"}

\* A request names its timeout, the id of its response and that of its notice.
Complete(n) ==
    /\ n.id # Missing /\ n.source # Missing /\ n.dest # Missing /\ n.trans \in Transports
    /\ \/ n.type = "req" /\ n.timeout # Missing /\ n.resp # Missing /\ n.noti # Missing
       \/ n.type \in {"resp", "noti"}

MessageConfig(n) ==
    [source |-> n.source, dest |-> n.dest, trans |-> n.trans,
     timeout |-> IF n.type = "req" THEN n.timeout ELSE 0,
     resp |-> IF n.type = "req" THEN n.resp ELSE 0, noti |-> IF n.type = "req" THEN n.noti ELSE 0]

\* An entry of the map replaces the one of the same id, and none is ever removed.
LoadMessage(s, n) ==
    IF ~Complete(n) THEN Failed(s)
    ELSE Loaded([s EXCEPT !.messages = [id \in DOMAIN @ \cup {n.id} |-> IF id = n.id THEN MessageConfig(n) ELSE @[id]]])

\* CFrameMessageConfig::Initialize: the file need not exist.
LoadMessageConfig(s, file) ==
    IF file = Missing THEN Loaded(s)
    ELSE IF file = << >> THEN Failed(s) ELSE EachNode(LoadMessage, s, file)

\* The attributes of a message that is not configured are zero.
Get(s, id, attribute) == IF id \in DOMAIN s.messages THEN s.messages[id][attribute] ELSE 0
GetSourceType(s, id) == Get(s, id, "source")
GetDestType(s, id) == Get(s, id, "dest")
GetTransType(s, id) == Get(s, id, "trans")
GetTimeoutValue(s, id) == Get(s, id, "timeout")
GetRespMsgID(s, id) == Get(s, id, "resp")
GetNotiMsgID(s, id) == Get(s, id, "noti")

GetNetConfig(s) == SubSeq(s.net, 1, s.nets)
GetPeerNodeConfig(s) == SubSeq(s.peer, 1, s.peers)
\* strncmp with the length of the listener's name: any name that begins with it will do.
GetNetConfigByDesc(s, desc) ==
    LET found == SelectSeq(GetNetConfig(s), LAMBDA n : IsPrefix(n.desc, desc))
    IN  IF found = << >> THEN Missing ELSE Head(found)
-----------------------------------------------------------------------------
(* CFrameConfigMgt, with the application's objects of CFrameConfigContainer.*)

NewContainer == [config |-> <<Missing, Missing>>, load |-> 1, use |-> 2]

\* The object that is not in use is loaded, and used if that went well.
ContainerInitialize(k, document, ok) ==
    LET loaded == [k EXCEPT !.config[k.load] = document]
    IN  IF ok THEN [loaded EXCEPT !.load = k.use, !.use = k.load] ELSE loaded
GetConfigObject(k) == k.config[k.use]

\* At the start the first object of the application that cannot be loaded ends it.
Centers(all, documents, stops) ==
    LET ok(i) == documents[i].ok
        last == IF \E i \in DOMAIN all : ~ok(i)
                THEN CHOOSE i \in DOMAIN all : ~ok(i) /\ \A j \in 1 .. i - 1 : ok(j) ELSE Len(all)
    IN  [i \in DOMAIN all |-> IF stops /\ i > last THEN all[i]
                              ELSE ContainerInitialize(all[i], documents[i].text, ok(i))]

\* CFrameConfigMgt::Initialize and Resume differ in that alone.
LoadAll(m, base, file, documents, starts) ==
    LET r == InitializeBase(m.s, base)
        both == Then(r, LAMBDA t : LoadMessageConfig(t, file))
        usr == IF both.ok THEN Centers(m.usr, documents, starts) ELSE m.usr
    IN  [s |-> both.s, usr |-> usr,
         ok |-> both.ok /\ (starts => \A i \in DOMAIN m.usr : documents[i].ok)]
Initialize(m, base, file, documents) == LoadAll(m, base, file, documents, TRUE)
Resume(m, base, file, documents) == LoadAll(m, base, file, documents, FALSE)
=============================================================================
