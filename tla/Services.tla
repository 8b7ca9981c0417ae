------------------------------ MODULE Services ------------------------------
(***************************************************************************)
(* The services of the framework that no other thread disturbs: tables of  *)
(* handlers, configuration, log files, each under any sequence of calls.   *)
(* As in Containers, "c" is the state and "ref" what is known of it from   *)
(* the calls alone.                                                        *)
(***************************************************************************)
EXTENDS Containers

CONSTANTS
    MaxMsgEvents, MaxDefEvents, MaxSysEvents, CloseNotify, MsgIDs, \* handlers
    MaxNetConfigs, MaxPeerNodes, Missing, BaseDocuments, MessageDocuments, UserDocuments, \* configuration
    ThreadLogs, UserLogs, MaxLogFiles, MaxMovedFiles, FlushPeriod, WritePeriod, LogFileSize, LastDay, \* logs
    Rounds, BitMapSize, TextLengths, Noise, SessionKeys, \* encryption
    US_PER_MS, MS_PER_SECOND, SECOND_PER_MINUTE, MINUTE_PER_HOUR, HOUR_PER_DAY, Offset, Summer, IntRange, Instants, \* dates
    Codes, TextBytes, Today, MaxText, SizesTried, \* texts
    Block, MaxBlock, MessageBuffer, Router, LastServer, NoType, MaxConnects, BodySizes, Options, ServerTypes, ClientType, \* posting
    ShareKeys, HeadSize, YearTime, TwoHours, ShareSizes, PartSizes \* shared memory

Events == INSTANCE MsgEventMgt
Config == INSTANCE Config
Logs == INSTANCE LogFiles
Crypt == INSTANCE Crypt
Dates == INSTANCE Calendar
Texts == INSTANCE Text
Posts == INSTANCE Posting
Shared == INSTANCE ShareMemory

NothingLeft == [size |-> 0, made |-> 0, stamped |-> 0, whole |-> FALSE, parts |-> << >>]
Unknown == 0
Ports == {1, 2}         \* of the handlers of sockets, and types

\* A table's object is not set by its constructor: the count may be anything.
Starts(k) == CASE k = "events" -> {Events!New(n) : n \in {0, MaxSysEvents}}
               [] k = "config" -> {[m |-> [s |-> Config!New, usr |-> <<Config!NewContainer>>], ok |-> TRUE]}
               [] k = "logs" -> {Logs!New(1)}
               [] k = "crypt" -> {[conn |-> Crypt!Connection, body |-> << >>, ok |-> TRUE]}
               [] k = "calendar" -> {t * Dates!US_PER_SECOND : t \in Instants}
               [] k = "posting" -> {Posts!New}
               [] k = "shared" -> {Shared!System(1)}
               [] k = "routing" -> {[t \in ServerTypes \cup {ClientType} |-> << >>]}
               [] k = "handlers" -> {Posts!NoHandlers(Ports, Ports)}
               [] OTHER -> {New(k)}
Known(k) == CASE k = "events" -> << >>
              [] k = "config" -> [loads |-> << >>, user |-> Missing]
              [] k = "logs" -> [written |-> << >>, whole |-> TRUE]
              [] k = "crypt" -> [key |-> << >>, role |-> 0, text |-> << >>, sent |-> TRUE]
              [] k = "posting" -> [queue |-> [q \in Posts!Queues |-> << >>], tested |-> {}]
              [] k = "routing" -> << >>
              [] k = "shared" -> [left |-> [key \in ShareKeys |-> NothingLeft], wanted |-> FALSE]
              [] k = "handlers" -> [made |-> 0, used |-> {}]
              [] OTHER -> Nothing(k)

ServicesInit == /\ kind \in Kinds /\ c \in Starts(kind) /\ ops = 0
                /\ ref = IF kind = "events" /\ c.sys # << >> THEN <<[table |-> "unset"]>> ELSE Known(kind)
-----------------------------------------------------------------------------
\* The reference is the sequence of registrations; each has a handler of its own.
Registration(table, id, side, proc) == [table |-> table, id |-> id, side |-> side, proc |-> proc, handler |-> ops + 1]
EventStep == kind = "events" /\
    \/ Becomes(Events!Initialize(c), Append(ref, [table |-> "none"]))
    \/ \E id \in MsgIDs :
          \/ \E proc \in BOOLEAN :
                \/ Becomes(Events!AddMsgEventSS(c, id, ops + 1, proc), Append(ref, Registration("msg", id, "SS", proc)))
                \/ Becomes(Events!AddMsgEventCS(c, id, ops + 1, proc), Append(ref, Registration("msg", id, "CS", proc)))
          \/ Becomes(Events!AddDefEventSS(c, id, ops + 1), Append(ref, Registration("def", id, "SS", FALSE)))
          \/ Becomes(Events!AddDefEventCS(c, id, ops + 1), Append(ref, Registration("def", id, "CS", FALSE)))
          \/ Becomes(Events!AddSysEvent(c, id, ops + 1), Append(ref, Registration("sys", id, "SS", FALSE)))

\* A document the loaders accept: everything they ask for is there.
Given(n, attributes) == \A a \in attributes : n[a] # Missing
CompletePeers(nodes) ==
    LET bad == {k \in DOMAIN nodes : ~Given(nodes[k], {"address", "port", "id"})}
    IN  IF bad = {} THEN nodes ELSE SubSeq(nodes, 1, (CHOOSE k \in bad : \A j \in bad : k <= j) - 1)
ReachesPeers(d) ==
    /\ d # Missing /\ d.common # Missing /\ d.common.server # Missing /\ d.fileSize # Missing /\ d.net \notin {Missing, << >>}
    /\ \A k \in DOMAIN d.net : d.net[k].type \in {"inside", "outside"} /\ Given(d.net[k], {"address", "port", "desc"})
WellFormed(d) == ReachesPeers(d) /\ (d.peers # Missing => d.peers # << >> /\ CompletePeers(d.peers) = d.peers)
PeersOf(loads) == FlattenSeq([k \in DOMAIN loads |-> LET d == loads[k].base IN
                      IF ~ReachesPeers(d) THEN << >> ELSE IF d.peers = Missing THEN << >> ELSE CompletePeers(d.peers)])
GoodMessage(n) == /\ Given(n, {"id", "source", "dest"}) /\ n.trans \in Config!Transports /\ n.type \in {"req", "resp", "noti"}
                  /\ (n.type = "req" => Given(n, {"timeout", "resp", "noti"}))
Accepted(base, file) == WellFormed(base) /\ (file # Missing => file # << >> /\ \A k \in DOMAIN file : GoodMessage(file[k]))

\* The loads so far; the program ends if the first fails.
ConfigStep == kind = "config" /\ (ops = 1 => c.ok) /\
    \E base \in BaseDocuments, file \in MessageDocuments, user \in UserDocuments :
        LET m == IF ops = 0 THEN Config!Initialize(c.m, base, file, <<user>>) ELSE Config!Resume(c.m, base, file, <<user>>)
        IN  Becomes([m |-> [s |-> m.s, usr |-> m.usr], ok |-> m.ok],
                    [loads |-> Append(ref.loads, [base |-> base, file |-> file]),
                     user |-> IF Accepted(base, file) /\ user.ok THEN user.text ELSE ref.user])

\* What was logged, by file.  It is known to be in the files as long as fopen and
\* rename work and no pass begins with more files to write to than there are slots.
\* The files that are written at once are tried first, as while the program starts.
FilesOfOthers == {"baselog", "prefix"}
Logged(name) == Append(ref.written, <<name, c.day, ops + 1>>)
LogCall(log, level) ==
    Becomes(Logs!WriteLog(c, log, level, ops + 1), IF level >= c.level THEN [ref EXCEPT !.written = Logged(log)] ELSE ref)
UserLogCall(log) ==
    Becomes(Logs!WriteUserLog(c, log, 1, ops + 1), IF log \in c.regist THEN [ref EXCEPT !.written = Logged(log)] ELSE ref)
FileCall(name, env, next) ==
    /\ ref.written = << >>
    /\ Becomes(next, IF env.opens THEN [ref EXCEPT !.written = Logged(name)] ELSE ref)
ToWrite == {<<l, Head(c.queue[l]).day>> : l \in {n \in Range(Logs!LogsRead(c)) : c.queue[n] # << >>}}
OpenFiles == {c.slot[k].name : k \in {n \in DOMAIN c.slot : c.slot[n].open}}
LogStep == kind = "logs" /\ c.ok /\
    \/ \E l \in Range(UserLogs) : l \notin c.regist /\ Becomes(Logs!RegistLog(c, l), ref)
    \/ \E l \in Range(ThreadLogs) : LogCall(l, 1)
    \/ LogCall(Head(ThreadLogs), 0)
    \/ \E l \in Range(UserLogs) : UserLogCall(l)
    \/ \E env \in [opens : BOOLEAN, renames : {TRUE}] :
          \/ FileCall("baselog", env, Logs!WriteBaseLog(c, ops + 1, env))
          \/ FileCall("prefix", env, Logs!WriteWithPrefix(c, "prefix", ops + 1, env))
    \/ c.day < LastDay /\ Becomes([c EXCEPT !.day = @ + 1], ref)
    \/ c.now <= WritePeriod /\ \E by \in {FlushPeriod + 1, WritePeriod + 1} : Becomes([c EXCEPT !.now = @ + by], ref)
    \/ \E env \in [opens : BOOLEAN, renames : BOOLEAN] :
          Becomes(Logs!Execute(c, env),
                  [ref EXCEPT !.whole = @ /\ env.opens /\ env.renames /\ Cardinality(ToWrite \cup OpenFiles) <= MaxLogFiles])

\* A connection: its first message, with a token from another server, and then messages
\* of both sides, each into a buffer that is large enough or a byte short; a message may
\* lose a byte on the way.
Text(n) == [k \in 1 .. n |-> (k + n) % Crypt!B]
TokenOf(key, role) == key \o Crypt!Coded(role, 4) \o [k \in 1 .. BitMapSize |-> k] \o Crypt!Coded(ops, 4)
FirstMessage(token, text, key, noise) ==
    LET sealed == Crypt!AuthEncrypt(token, Crypt!GetSafeEncryptOutBufferLength(Len(token)), Crypt!g_arrTokeKey, noise)
    IN  <<1>> \o Crypt!Coded(Len(sealed), 2) \o sealed \o Crypt!AuthEncrypt(text, Len(text) + 16, key, noise)
CryptStep == kind = "crypt" /\ c.ok /\ \E n \in TextLengths, noise \in Noise :
    LET Sent(sent) == [ref EXCEPT !.text = Text(n), !.sent = sent]
    IN  \/ ~c.conn.init /\ \E key \in SessionKeys, role \in {1, 300} :
              LET packet == FirstMessage(TokenOf(key, role), Text(n), key, noise)
              IN  Becomes(Crypt!DecryptBody(c.conn, packet, Len(packet)),
                          [key |-> key, role |-> role, text |-> Text(n), sent |-> TRUE])
        \/ c.conn.init /\ \E short, cut \in {0, 1} :
              LET packet == Crypt!AuthEncrypt(Text(n), n + 16, ref.key, noise)
              IN  Becomes(Crypt!DecryptBody(c.conn, SubSeq(packet, 1, Len(packet) - cut), n - short), Sent(short + cut = 0))
        \/ c.conn.init /\ \E room \in {n + 7, n + 16} :
              LET packet == Crypt!EncryptBody(c.conn, Text(n), room, noise)
              IN  Becomes([conn |-> c.conn, ok |-> packet # << >>, body |-> Crypt!AuthDecrypt(packet, n, ref.key)], Sent(room = n + 16))

\* A time, moved on.
CalendarStep == kind = "calendar" /\ \E n \in {1, 5} :
    \/ Becomes(Dates!AddDays(c, n), ref)
    \/ Becomes(Dates!AddHours(c, n), ref)
    \/ Becomes(Dates!AddMinutes(c, n), ref)
    \/ Becomes(Dates!AddSeconds(c, n), ref)
    \/ Becomes(Dates!AddMilliseconds(c, n), ref)

\* A text of codes, of bytes or of digits, or a card, and the size of an array for it.
TextStep == kind = "text" /\ c = << >> /\ UNCHANGED <<kind, ref, ops>> /\ \E n \in 0 .. MaxText, size \in SizesTried :
    \/ \E text \in [1 .. n -> Codes] : c' = [of |-> "codes", text |-> text, size |-> size]
    \/ \E text \in [1 .. n -> TextBytes] : c' = [of |-> "digits", text |-> text, size |-> size]
    \/ \E year \in {Today.year - 19, Today.year - 18, Today.year - 17}, month, day \in 0 .. 3, old, complete \in BOOLEAN :
          c' = [of |-> "card", year |-> year, month |-> month, day |-> day, old |-> old, complete |-> complete]

\* What was posted and taken off again, by queue: how much was asked for, and the bytes of
\* option and body.  A body of the application may fail to pack, or pack into fewer bytes.
Posted(q, want, option, n) == [ref EXCEPT !.queue[q] = Append(@, [want |-> want, option |-> option, length |-> n])]
Bodies == [size : BodySizes, length : BodySizes, packs : BOOLEAN]
Fair(body) == body.length <= body.size /\ (body.length = body.size \/ body.length = 0)
PostStep == kind = "posting" /\
    \/ \E option \in Options, body \in Bodies :
          LET want == Posts!HeadSS.size + body.size + option
              goes == want <= MaxBlock /\ body.packs
          IN  /\ Fair(body)
              /\ \/ Becomes(Posts!PostMessageSS(c, body, option), IF goes THEN Posted("SendSS", want, option, body.length) ELSE ref)
                 \/ Becomes(Posts!PushCommand(c, body, option), IF goes THEN Posted("command", want, option, body.length) ELSE ref)
                 \/ body.packs /\ body.size = body.length
                    /\ Becomes(Posts!PostBytesSS(c, body.size, option), IF goes THEN Posted("SendSS", want, option, body.size) ELSE ref)
    \/ \E body \in Bodies, known \in BOOLEAN :
          LET want == Posts!HeadCS.size + Posts!ConnInfo + body.size + Posts!EncryptBlock
              goes == want <= MaxBlock /\ known /\ body.packs /\ body.length + 15 < MessageBuffer
              next == IF goes THEN Posted("SendCS", want, 0, body.length) ELSE ref
          IN  /\ Fair(body)
              /\ \/ Becomes(Posts!PostMessageCS(c, known, body), next)
                 \/ body.packs /\ body.size = body.length /\ Becomes(Posts!PostBytesCS(c, known, body.size), next)
    \/ \E q \in {"SendSS", "SendCS"} :
          c.queue[q] # << >> /\ Becomes(Posts!PopSend(c, q), [ref EXCEPT !.queue[q] = Tail(@)])
    \/ c.queue["command"] # << >> /\ Becomes(Posts!ProcessTestMessage(c),
          [ref EXCEPT !.queue["command"] = Tail(@), !.tested = @ \cup {c.queue["command"][1].block}])

\* A server or a client more in the table.
RouteStep == kind = "routing" /\ \E type \in DOMAIN c :
    Becomes([c EXCEPT ![type] = Append(@, [id |-> Len(@) + 1, socket |-> <<type, Len(@) + 1>>])], ref)

\* Objects are registered, listen, are used for connections that end, and unregistered.
SocketHandlerStep == kind = "handlers" /\ \E p \in Ports :
    \/ Becomes(Posts!RegistSocketPort(c, ref.made + 1, p), [ref EXCEPT !.made = @ + 1])
    \/ Becomes(Posts!RegistSocketType(c, ref.made + 1, p), [ref EXCEPT !.made = @ + 1])
    \/ c.port[p] # << >> /\ Posts!GetListenSocket(c, p) = 0 /\ Becomes(Posts!Listen(c, p), ref)
    \/ c.port[p] # << >> /\ Becomes([c EXCEPT !.port[p] = Tail(@)], [ref EXCEPT !.used = @ \cup {<<Head(c.port[p]), p>>}])
    \/ \E u \in ref.used : u[2] = p /\ Becomes([c EXCEPT !.port[p] = Append(@, u[1])], [ref EXCEPT !.used = @ \ {u}])
    \/ Becomes(Posts!UnregistSocketPort(c, p), ref)
    \/ Becomes(Posts!UnregistSocketType(c, p), ref)

\* What a process leaves under a key: the size, when it was made and stamped last, whether
\* the stamp was whole, and the parts with what was written to each.  A process that comes
\* back with the same size, in time and after a whole stamp wants to find it again.
Old(key, size, mode) ==
    LET l == ref.left[key]
    IN  /\ mode = "resume" /\ l.size = size /\ l.whole
        /\ c.now - l.made \in 0 .. YearTime /\ c.now - l.stamped <= TwoHours
Comes(key, size, mode) ==
    [ref EXCEPT !.wanted = Old(key, size, mode), !.left[key] = IF Old(key, size, mode) THEN [@ EXCEPT !.stamped = c.now]
                ELSE [size |-> size, made |-> c.now, stamped |-> c.now, whole |-> TRUE, parts |-> << >>]]
Gone(key) == [ref EXCEPT !.left[key] = NothingLeft]
\* A part of another size than before ends what is known of the parts.
GivesPart(n) ==
    LET k == Len(c.parts) + 1
        known == ref.left[c.key].parts
    IN  IF Shared!CreateSegment(c, n) = c THEN ref
        ELSE IF k \in DOMAIN known /\ known[k].size = n THEN ref
        ELSE [ref EXCEPT !.left[c.key].parts = Append(SubSeq(known, 1, k - 1), [size |-> n, has |-> Unknown])]
SharedStep == kind = "shared" /\
    \/ c.key = Shared!Off /\ \E key \in ShareKeys, size \in ShareSizes, mode \in {"init", "resume"}, env \in [creates : BOOLEAN, attaches : BOOLEAN] :
          LET next == Shared!CreateShareMemory(c, key, size, mode, env)
          IN  Becomes(next, IF next.key = key THEN Comes(key, size, mode)
                            ELSE IF next.os[key] = c.os[key] THEN ref ELSE Gone(key))
    \/ c.key = Shared!Off /\ \E key \in ShareKeys : c.os[key] # Shared!NoSegment /\ Becomes(Shared!DestroyShareMemory(c, key), Gone(key))
    \/ c.key # Shared!Off /\
          \/ \E n \in PartSizes : Becomes(Shared!CreateSegment(c, n), GivesPart(n))
          \/ \E k \in DOMAIN c.parts : Becomes(Shared!Write(c, k, ops + 1), [ref EXCEPT !.left[c.key].parts[k].has = ops + 1])
          \/ Becomes(Shared!Stamp(c), [ref EXCEPT !.left[c.key].stamped = c.now])
          \/ Becomes(Shared!StampTorn(c), [ref EXCEPT !.left[c.key].whole = c.now = ref.left[c.key].stamped])
          \/ Becomes(Shared!Ended(c), ref)
    \/ \E by \in {-1, TwoHours, TwoHours + 1} : c.now + by \in 0 .. YearTime + 2 /\ Becomes([c EXCEPT !.now = @ + by], ref)

ServicesNext == TextStep \/ CalendarStep \/ CryptStep \/ EventStep \/ ConfigStep \/ LogStep
                \/ PostStep \/ RouteStep \/ SocketHandlerStep \/ SharedStep
-----------------------------------------------------------------------------
\* The registrations a table has: from the last Initialize on, as many as it holds.
Since == IF \E k \in DOMAIN ref : ref[k].table = "none"
         THEN SubSeq(ref, 1 + CHOOSE k \in DOMAIN ref : ref[k].table = "none" /\ \A j \in DOMAIN ref : j > k => ref[j].table # "none", Len(ref))
         ELSE ref
Registered(registrations, table, max) ==
    LET all == SelectSeq(registrations, LAMBDA r : r.table = table) IN SubSeq(all, 1, IF Len(all) < max THEN Len(all) ELSE max)
Whose(registrations, id, side) == SelectSeq(registrations, LAMBDA r : r.id = id /\ r.side = side)
Handlers(registrations) == [k \in DOMAIN registrations |-> registrations[k].handler]
Reached(calls) == [k \in DOMAIN calls |-> calls[k][2]]

\* A message of either side reaches the handlers registered for it, each once and in
\* the order of registration: the defaults first, and for a client only the defaults
\* if there are any.  An answer no session waits for reaches the defaults alone, and
\* the notice of a close calls no handler but those (a client's handler registered
\* for it is called through the pointer for servers, which is NULL).
HandlersGetTheirMessages ==
    kind = "events" =>
        /\ \A id \in MsgIDs, readable, bound, answers \in BOOLEAN :
             LET of(table, side) == Handlers(Whose(Registered(Since, table, IF table = "msg" THEN MaxMsgEvents ELSE MaxDefEvents), id, side))
                 head == [id |-> id, answers |-> answers, session |-> "session"]
                 calls == Events!OnMessageEventSS(c, head, bound, readable)
             IN  /\ Reached(Events!OnMessageEventCS(c, id, readable)) =
                        (IF of("def", "CS") # << >> THEN of("def", "CS") ELSE IF readable THEN of("msg", "CS") ELSE << >>)
                 /\ IF answers THEN Reached(calls) = of("def", "SS") \o (IF bound THEN <<"session">> ELSE << >>)
                    ELSE IF id = CloseNotify
                    THEN of("msg", "CS") = << >> => Reached(calls) = of("def", "SS") \o of("msg", "SS")
                    ELSE Reached(calls) = of("def", "SS") \o (IF readable THEN of("msg", "SS") ELSE << >>)
        /\ ~(\E k \in DOMAIN ref : ref[k].table = "unset") =>
             \A id \in MsgIDs : LET mine == Whose(Registered(ref, "sys", MaxSysEvents), id, "SS")
                                IN  Reached(Events!OnSystemEvent(c, id)) = IF mine = << >> THEN << >> ELSE <<Head(mine).handler>>

\* What is posted is in its queue once, in order and with its length in front of it, if a
\* block is big enough and what has to be packed, encrypted and found is; and nothing
\* else keeps a block but the commands that were taken.  A packet reaches past its block
\* by less than MALLOC was not told of, the packet's own head and the padding.  (A body
\* to a client of more than 16 bits has a wrong length.)
Overhang == Posts!InFront + Posts!EncryptBlock
PostsAddUp ==
    kind = "posting" =>
        /\ c.taken = ref.tested \cup {p.block : p \in UNION {Range(c.queue[q]) : q \in Posts!Queues}}
        /\ Cardinality(c.taken \ ref.tested) = FoldFunction(LAMBDA queue, n : n + Len(queue), 0, c.queue)
        /\ \A q \in Posts!Queues : /\ Len(c.queue[q]) = Len(ref.queue[q])
                                  /\ \A k \in DOMAIN c.queue[q] :
              LET p == c.queue[q][k]
                  w == ref.queue[q][k]
              IN  /\ p.reach < p.room + Overhang /\ (p.room - w.want >= Overhang => p.reach <= p.room)
                  /\ IF q = "SendCS"
                     THEN LET body == p.nTotalSize - p.nHeadSize
                          IN  w.length + 40 < Posts!UInt16 =>
                                 /\ p.length = p.nTotalSize + Posts!ConnInfo
                                 /\ IF w.length = 0 THEN body = 0 ELSE body - w.length \in 8 .. 15 /\ body % 8 = 0
                     ELSE /\ p.length = p.nTotalSize
                          /\ p.nHeadSize = Posts!HeadSS.packed + w.option /\ p.nTotalSize - p.nHeadSize = w.length

\* A packet goes to the server it names, to one or to all of a type or to all servers, each
\* once, and if there are none to one router, whichever; never to a client unless it is
\* for clients.  (As long as all fit the array.)
PacketsReachTheirPeers ==
    kind = "routing" => \A trans \in {"P2P", "Regist", "Broadcast", "ByKey", "Ramdom", "P2G"}, type \in DOMAIN c \cup {NoType}, id \in 0 .. 3 :
        LET of(t) == Range(c[t])
            notice == Posts!SendMessageNotify(trans, id)
            to == IF type = NoType THEN UNION {of(t) : t \in ServerTypes} ELSE of(type)
            named == CASE trans \in {"P2P", "Regist"} -> {e \in to : e.id = id}
                       [] trans = "P2G" -> {}
                       [] OTHER -> to
            ways == Posts!GetSocket(c, notice.trans, type, notice.id)
        IN  (type = NoType => trans = "Broadcast") /\ Cardinality(to) <= MaxConnects /\ Len(c[Router]) <= MaxConnects =>
               IF named = {} THEN IF of(Router) = {} THEN ways = {<< >>} ELSE ways = {<<e>> : e \in of(Router)}
               ELSE IF trans \in {"ByKey", "Ramdom"} THEN ways = {<<e>> : e \in named}
               ELSE \E way \in ways : ways = {way} /\ Range(way) = named /\ Len(way) = Cardinality(named)

\* An object for sockets is in one place, or deleted, and a port has one listener.
SocketObjectsAddUp ==
    kind = "handlers" =>
        LET count(x) == Len(SelectSeq(FlattenSeq([p \in Ports |-> c.port[p] \o c.type[p]]), LAMBDA y : y = x))
                        + Len(SelectSeq(c.listen, LAMBDA l : l.socket = x)) + Cardinality({u \in ref.used : u[1] = x})
        IN  /\ \A x \in 1 .. ref.made : count(x) = IF x \in c.deleted THEN 0 ELSE 1
            /\ \A p \in Ports : Len(SelectSeq(c.listen, LAMBDA l : l.port = p)) <= 1

\* A process that comes back in time, and did not end inside a stamp, finds the parts it
\* asks for in the order of before where they were, with what was written there; it is
\* told so, and never told so otherwise.  The parts are apart and inside the segment.
ComesBackAfterRestart ==
    kind = "shared" /\ c.key # Shared!Off =>
        LET segment == c.os[c.key]
            bytes(k) == c.parts[k].at .. c.parts[k].at + c.parts[k].size - 1
        IN  /\ segment.head.mode = (IF ref.wanted THEN "resume" ELSE "init")
            /\ \A k \in DOMAIN c.parts :
                 /\ bytes(k) \subseteq HeadSize .. segment.head.total - 1 /\ bytes(k) \subseteq DOMAIN segment.cell
                 /\ \A j \in DOMAIN c.parts : j # k => bytes(j) \cap bytes(k) = {}
                 /\ LET p == ref.left[c.key].parts[k] IN p.has # Unknown => \A b \in bytes(k) : segment.cell[b] = p.has

\* The way of a message out of the application and into it.
MessagesFindTheirWay == HandlersGetTheirMessages /\ PostsAddUp /\ PacketsReachTheirPeers /\ SocketObjectsAddUp

\* A load succeeds when the documents are complete.  Then the listeners are those of the
\* document, and every message has what the document says of it; the peers are those of
\* all the loads together, and stay within their array as long as all of them fit.  The
\* application's object is the last one that was loaded without an error.
ConfigIsAsWritten ==
    kind = "config" /\ ref.loads # << >> =>
        LET last == ref.loads[Len(ref.loads)]
            d == last.base
            file == last.file
            s == c.m.s
            fits == /\ Len(PeersOf(ref.loads)) < MaxPeerNodes
                    /\ \A k \in DOMAIN ref.loads : ref.loads[k].base # Missing /\ ref.loads[k].base.net # Missing
                                                   => Len(ref.loads[k].base.net) <= MaxNetConfigs
        IN  /\ IF Len(ref.loads) > 1 THEN c.ok = Accepted(d, file) ELSE c.ok => Accepted(d, file)
            /\ (fits => ~s.outside)
            /\ (fits /\ c.ok) =>
                 /\ Len(Config!GetNetConfig(s)) = Len(d.net)
                 /\ \A k \in DOMAIN d.net :
                      LET n == Config!GetNetConfig(s)[k] IN
                      /\ n.type = d.net[k].type /\ n.port = d.net[k].port /\ n.desc = d.net[k].desc
                      /\ d.net[k].address # "any" => n.address = d.net[k].address
                      /\ Config!GetNetConfigByDesc(s, d.net[k].desc).type \in {d.net[j].type : j \in 1 .. k}
                 /\ LET peers == PeersOf(ref.loads) IN
                    Config!GetPeerNodeConfig(s) = [k \in DOMAIN peers |-> [address |-> peers[k].address, port |-> peers[k].port, id |-> peers[k].id]]
                 /\ s.logLevel # "none" => (d.common.level = Missing => s.logLevel = "notice")
                 /\ file # Missing => \A k \in DOMAIN file :
                      LET n == file[k] IN
                      (\A j \in DOMAIN file : j > k => file[j].id # n.id) =>
                        /\ Config!GetSourceType(s, n.id) = n.source /\ Config!GetDestType(s, n.id) = n.dest
                        /\ Config!GetTransType(s, n.id) = n.trans
                        /\ n.type = "req" => /\ Config!GetTimeoutValue(s, n.id) = n.timeout
                                             /\ Config!GetRespMsgID(s, n.id) = n.resp /\ Config!GetNotiMsgID(s, n.id) = n.noti
            /\ Config!GetConfigObject(c.m.usr[1]) = ref.user

\* What was logged for a file and is not in its queue any more is in the file, or in the
\* files it was moved to, once and in order: all of it, as long as there were slots for
\* the files and the system calls worked; without holes in the order, in any case.
InFiles(name) == FlattenSeq(Logs!FileOf(c.moved, name)) \o Logs!FileOf(c.disk, name)
Waiting(name) == LET mine == SelectSeq(IF name[1] \in DOMAIN c.queue THEN c.queue[name[1]] ELSE << >>, LAMBDA r : r.day = name[2]) IN [k \in DOMAIN mine |-> mine[k].record]
LoggedFor(name) == LET mine == SelectSeq(ref.written, LAMBDA w : <<w[1], w[2]>> = name) IN [k \in DOMAIN mine |-> mine[k][3]]
RecordsReachTheirFile ==
    kind = "logs" =>
        /\ \A name \in (Logs!LogNames \cup FilesOfOthers) \X (1 .. LastDay) :
             LET there == InFiles(name) \o Waiting(name)
             IN  IF ref.whole THEN there = LoggedFor(name)
                 ELSE \A j, k \in DOMAIN there : j < k => there[j] < there[k]
        /\ \A j, k \in DOMAIN c.slot : c.slot[j].open /\ c.slot[k].open /\ c.slot[j].name = c.slot[k].name => j = k
        /\ ref.whole => c.ok

\* What one side encrypts the other decrypts, in either implementation and whatever the
\* padding; a buffer that is too small, or a packet that lost a byte, is refused.  After
\* the first message the connection has the key and the role of its token.
DecryptsWhatWasEncrypted ==
    kind = "crypt" => /\ c.ok = ref.sent
                      /\ c.ok => IsSuffix(ref.text, c.body)
                      /\ c.conn.init => c.conn.key = ref.key /\ c.conn.role = ref.role

\* The day after a date, by the lengths of the months.
DayAfter(date) ==
    LET y == date \div 10000  m == (date \div 100) % 100  d == date % 100
    IN  IF d < Dates!MonthDays(y, m) THEN date + 1 ELSE IF m < 12 THEN y * 10000 + (m + 1) * 100 + 1 ELSE (y + 1) * 10000 + 101

\* What the functions make of the time c, of secs, on a date.
DatesAgree(secs, date, text, late, night) ==
    /\ text = Dates!ToDateString(c) \o Dates!ToTimeString(c)
    /\ ~Dates!IsSummer(secs + late) \/ late > 0 =>
          /\ Dates!FromText(text) = Dates!CurrentDateTime(secs + late)
          /\ Dates!FromFields(text[1], text[2], text[3], text[4], text[5], text[6], Dates!Millisecond(c))
                = Dates!FromText(text) + (c % Dates!US_PER_SECOND) - (c % US_PER_MS)
    /\ Dates!Date(Dates!FromDate(text[1], text[2], text[3])) = date
    /\ Dates!GetDateBySecs(secs, 0) = date /\ Dates!GetDateBySecs(Dates!GetSecsByDate(date), 0) = date
    /\ Dates!GetNextDate(date, 0) = DayAfter(date)
    /\ \A t \in Instants : Dates!IsSameDay(t, secs) = (Dates!GetDateBySecs(t, 0) = date)
    /\ text = <<Dates!Year(c), Dates!Month(c), Dates!Day(c), Dates!Hour(c), Dates!Minute(c), Dates!Second(c)>>
    /\ LET week == Dates!AddDays(c, 7)
       IN  Dates!IsSummer(Dates!Seconds(week)) = Dates!IsSummer(secs) =>
             /\ Dates!DayOfWeek(week) = Dates!DayOfWeek(c)
             /\ Dates!Year(week) = Dates!Year(c) => Dates!DayOfYear(week) = Dates!DayOfYear(c) + 7
    /\ LET tv == Dates!FromTimeval(secs, c % Dates!US_PER_SECOND)
           d == Dates!ToDayString(tv)
       IN  /\ tv = c /\ Dates!TimeMinus(Dates!TimePlus(tv, 2, 1), 2, 1) = c
           /\ d[1] * Dates!SECOND_PER_DAY + d[2] * Dates!SECOND_PER_HOUR + d[3] * SECOND_PER_MINUTE + d[4] = secs
           /\ Dates!Milliseconds(Dates!TimeAddMilliseconds(tv, 3)) = Dates!Milliseconds(tv) + 3
    /\ Dates!IsSummer(night) = Dates!IsSummer(secs) =>
          Dates!IsSameDay(night, secs) /\ secs - night = Dates!GetSecsFromMiddleNight(secs, 0)

\* A time is its date and its time of day, and comes back from them, but an hour late in
\* summer (the struct tm is always made for winter time).  A date comes back from its
\* seconds and the next one is the next of the calendar, across months, leap years and
\* the switches of summer time, as long as nothing is above the number on the stack; the
\* midnight of a time is on its day and as far as GetSecsFromMiddleNight says if the day
\* has no switch.
DatesComeBack ==
    kind = "calendar" =>
        LET secs == Dates!Seconds(c)
        IN  DatesAgree(secs, Dates!Date(c), Dates!ToDateTimeString(c), Dates!Saved(Dates!IsSummer(secs)),
                       Dates!GetMiddleNightTime(secs, 0))

\* Codes come back from UTF-8, and bytes from base64; the lengths agree with what is
\* there; an array is not written beyond (UTF-8 into an array below the size of a code,
\* and codes, one too many, excepted).  A hexadecimal number is worth its digits, and a
\* pupil is who is not eighteen on the day.
TextsComeBack ==
    kind = "text" /\ c # << >> =>
        CASE c.of = "codes" ->
               LET there == Texts!UnicodeToUTF8(c.text, c.size)
                   utf8 == Texts!UnicodeToUTF8(c.text, 100).out
                   back == Texts!UTF8ToUnicode(utf8, c.size)
               IN  /\ there.ok => there.out = utf8
                   /\ c.size > 2 => Len(there.out) <= c.size
                   /\ back.ok => back.out = c.text
                   /\ Len(back.out) <= c.size + 1 /\ (Len(c.text) <= c.size => back.ok)
                   /\ Texts!GetUnicodeLengthFromUTF8Buffer(utf8) = Len(c.text)
                   /\ utf8 # << >> /\ Last(utf8) > 127 => Texts!GetUnicodeLengthFromUTF8Buffer(Front(utf8)) = -1
                   /\ Texts!AnsiCodeLengthFromUnicodeBuffer(c.text) \in Len(c.text) .. 2 * Len(c.text)
          [] c.of = "digits" ->
               LET there == Texts!base64_encode(c.text, c.size)
                   back == Texts!base64_decode(there.out, Len(c.text) + 2, 0)
                   number == SelectSeq(c.text, LAMBDA d : d < 16)
               IN  /\ Len(there.out) < c.size \/ ~there.ok
                   /\ there.ok => back.ok /\ back.len = Len(c.text) /\ SubSeq(back.out, 1, back.len) = c.text
                   /\ number # << >> => Texts!HexToInt32(number) = Texts!Value(number, 16)
                   /\ number # << >> /\ number = c.text => Texts!HexToInt32(<<Texts!Other>> \o number) = Texts!HexToInt32(number)
                   /\ Texts!atoi64(<<Texts!Minus>> \o c.text) = 0 - Texts!atoi64(c.text)
                   /\ Texts!StringToPorts(<<c.text, c.text>>)[2] = Texts!atoi64(c.text)
                   /\ \A k \in DOMAIN c.text : Texts!GetBitNum(255 - c.text[k]) = 8 - Texts!GetBitNum(c.text[k])
          [] c.of = "card" ->
               LET Days(y, m, d) == y * 400 + m * 32 + d
               IN  c.complete /\ c.month > 0 /\ c.day > 0 =>
                     Texts!IsPupil(c, Today) = (Days(c.year + 18, c.month, c.day) > Days(Today.year, Today.month, Today.day))
=============================================================================
