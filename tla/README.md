# LightFrame in TLA+

LightFrame is a C++ framework for game servers. A server built on it talks to
clients and to other servers over TCP, and runs application code (message
handlers, timer handlers, session callbacks) in one or several application
threads. This directory holds TLA+ models of its parts, TLC configurations that
check them on small instances, and TLAPS proofs. All paths are below `src/`.

## 1. The system

### Threads

| thread | code | what its loop does |
|---|---|---|
| net thread (one) | `frame_netthread.cpp` | connects to configured servers, moves packets from the send queues to sockets, waits on epoll and dispatches its events, handles socket timers |
| application threads (`appthreadcount`) | `frame_mainthread.cpp` | one due timer; if there was none, one server message; if there was none, one client message |
| log thread (one) | `frame_logthread.cpp` | takes records off the log rings and writes them to files |
| main | `lightframe.cpp` | starts the others, watches files and commands, and on exit sets the terminate flags: net, then application, then log |

They share: four mutex-protected lists of packets (`CFrameNetQueue`); a
`std::list` of commands without a lock (`g_FrameCommandQueue`); the log rings;
and managers (timers, sessions, bindings, connections, sockets, memory) whose
operations each hold the manager's own recursive mutex. In the parts modelled here no
operation holds two of these mutexes, and sequences of operations hold none in between. This is where most
of the difficulty is.

### Inventory

| component | state | operations | interacts with | hard part | what makes it correct |
|---|---|---|---|---|---|
| object pool `CPool` | chains of free and used slots | create, destroy, get | under timers, sessions, sockets | a slot is named by its index and is reused | no slot lost, none handed out twice |
| timers `CFrameTimerMgt` | pool, red-black tree by end time, sequence number | create, remove, first, fired | application threads, sessions | check and removal in separate lock sections; a handler that changes its own timer | once, not early, every deadline served, no other timer retired |
| sessions `CFrameSessionMgt` | pool, fields of sessions, session number | create, response, timeout, remove | timers, binding table, requests | three tables with three locks; callbacks that change their own session; late responses; full tables | tables agree, every session ends, a response reaches the session that asked |
| binding table, event tables `CFrameMsgEventMgt` | message id to sessions; handlers | bind, unbind, look up | sessions, dispatch | limited to 256 bindings of 4096 sessions; two sides share one table of handlers | lists exactly the waiting sessions; each handler once |
| application thread | locals of one loop | timers, responses, client messages, connections | all managers | handlers hold nothing while they run; the prototype of a body is shared | each message handled, with its own body |
| framework facade `CLightFrame` | configuration, command | start, reload, stop, post, request | all threads | a command cleared with an older one; sizes of packets | ends when told; what is posted is queued whole |
| log ring `CCodeQueue` | head, tail, bytes | push, pop | all threads, log thread | no lock between producer and consumer; user logs have none between producers | a FIFO of whole records |
| log engine, log thread | table of open files | write, flush, move, close | log rings, file system | calls that fail in the middle; the table is full | records reach their file, in order |
| cyclic buffer `CycleBuffer` | bytes, read and write index, count | write, write to head, read, peek | sockets | a straddling put back in front; a full buffer looks empty to a peek | a FIFO of bytes |
| socket, send side `CSocket` | status, send buffer, registered events | send, write event, connect, close | net thread, kernel | short writes at any byte, connection in progress | the stream is the packets, and is sent to its end |
| socket, receive side; framing | receive buffer, packet in parts | read event, cut messages | net queues | partial heads and bodies, overfull buffer, no memory | every message once, whole |
| socket table, socket timers | free lists, server to socket, timers | add, remove, reconnect, route | net thread | replacing a socket, reconnecting, objects reused in a batch of events | one live socket per server, connected again after every failure |
| net queues, command queue | lists | push, pop | net and application threads | order, termination, the unlocked list | nothing lost before exit |
| client connections | by file descriptor | create, look up, destroy | net and application threads | the kernel reuses descriptors | a reply reaches the client that asked |
| block memory | blocks with reference counts | allocate, release | sessions, packets | count changed before the lock is taken | no block in two lists, none lost |
| shared memory | segment with a head and a checksum | create, resume, stamp, parts | the process that comes after | a process ends in the middle | what is resumed is what was left |
| protocol heads, codec | - | encode, decode | sockets, facade | byte order, short buffers | what is packed comes back, or is refused |
| containers | chains through arrays | insert, erase, find, walk | everything | long sequences, full, recycling | agree with sets, maps and sequences |
| configuration | tables of listeners, peers, messages | load, reload, look up | start and reload | documents that are incomplete; a second load | what is written is what is used |
| encryption, dates, texts | session key | convert | connections, logs, application | padding; calendar; lengths | inverse of each other |
| thread registry | list | register | all threads at start | no lock | nothing reads it |

`PROJECT.json` has the status of each; its `hazards` give the lines where each hard
behaviour bites and the properties about it.

## 2. What is modelled

| module | stands for | code it follows |
|---|---|---|
| `FifoPool` | what `CPool` promises: free slots go out in the order they came back | `common/common_pool.h` |
| `TimerStore` | `CFrameTimerMgt` under its lock | `frame_timer_mgt.cpp` |
| `TimerMgt` | application threads at work on timers | `frame_mainthread.cpp` (`ProcessTimerEvent`) |
| `SessionMgt` | sessions on top of `TimerStore`, with the binding table and the response queue | `frame_session_mgt.cpp`, `frame_msgevent_mgt.h`, `frame_mainthread.cpp`, `lightframe.cpp` |
| `RecordFifo` | abstract: what a log ring promises | - |
| `CodeQueue` | the log ring, one load, store or byte a step; implements `RecordFifo` | `common/common_codequeue.h`, `frame_logqueue.cpp`, `frame_log.cpp` |
| `CycleBuffer` | the cyclic buffer as operators on a record | `common/common_cyclebuffer.h` |
| `SocketSend` | the sending side of one connection | `frame_socket.cpp`, `frame_netthread.cpp` |
| `SocketRecv` | the receiving side, joined to the sender; implements `SocketSend` with a peer that reads | `frame_socket.cpp`, `frame_insidesocket.cpp`, `frame_outsidesocket.cpp` |
| `LightFrame` | the threads of a server, their loops and queues, from start to end | `lightframe.cpp`, `frame_mainthread.cpp`, `frame_netthread.cpp`, `frame_logthread.cpp`, `frame_netqueue.cpp`, `common/common_thread.cpp` |
| `Sockets` | all sockets of a server: accept, connect, register, route, close, client connections | `frame_socket_mgt.cpp`, `frame_netthread.cpp`, `frame_epoll.cpp`, `frame_socket.cpp`, `frame_insidesocket.cpp`, `frame_outsidesocket.cpp`, `frame_connection_mgt.cpp`, `frame_mainthread.cpp` |
| `IndexList` | chains of nodes through an array, under `CPool` and the containers | `common/common_pool.h` and the others |
| `HashList`, `RBTree`, `MinHeap`, `Cache`, `RankList`, `Lists`, `SmallContainers` | the containers, as operators on a state | `common/common_hashlist.h`, `..._rbtree.h`, `..._heap.h`, `..._cache.h`, `..._ranklist.h`, `..._list.h`; sets, arrays and strings |
| `Containers` | sequences of operations on one of them, beside a reference | - |
| `MemMgt` | block memory, with threads | `frame_mem_mgt.cpp` |
| `Codec` | packing of heads, texts and log records | `common/common_codeengine.cpp`, `frame_protocolhead.h`, `frame/dal/`, `common/common_logqueue.h` |
| `MsgEventMgt` | tables of handlers, and who is called for a message | `frame_msgevent_mgt.h`, `frame_mainthread.cpp` |
| `Posting` | from a call that posts to a packet in a queue, and to the sockets it is for | `lightframe.cpp`, `frame_netthread.cpp`, `frame_socket_mgt.cpp` |
| `Config` | load, reload and look up | `frame_baseconfig.cpp`, `frame_message_config.cpp`, `frame_configmgt.cpp` |
| `LogFiles` | from a log call to the files | `frame_logengine.cpp`, `frame_logthread.cpp`, `common/common_api.cpp` |
| `Crypt` | both implementations of the encryption, and the key of a connection | `frame_crypt.cpp`, `auth/Crypt.cpp`, `common/common_crypt.cpp` |
| `Calendar`, `Text` | dates and times; UTF-8, base64, numbers | `common/common_datetime.cpp`, `common/common_api.cpp` |
| `ShareMemory` | a segment that outlives the process | `common/common_memory.cpp` |
| `Services` | sequences of operations on one of the last seven, beside a reference | - |
| `Library` | `Containers`, `Services`, `MemMgt` and `Codec`, one of them per behaviour | - |
| `MC...` | instances for TLC (`LightFrame` needs none) | - |
| `TimerStore_proofs`, `TimerMgt_proofs`, `SessionMgt_proofs`, `CodeQueue_proofs`, `SocketRecv_proofs`, `LightFrame_proofs`, `MemMgt_proofs`, `Sockets_proofs` | lemmas, theorems and proofs (those of `FifoPool` in the first, of `CycleBuffer` and `SocketSend` in the fifth) | - |

How they join: `TimerMgt` and `SessionMgt` extend `TimerStore`, and that `FifoPool`; `SocketRecv`
extends `SocketSend`, and that `CycleBuffer`; `Services` extends `Containers` and `Library`
extends `Services`. `LightFrame` has messages without bytes or sockets, `Sockets` has whole
messages and one pass of the net thread after the other, and `SocketRecv` has the bytes of one link.

Definitions named `X_Something` and commented "(mutant)" are broken variants of
`X`. Nothing uses them: each is what a plausible bug would make of the code, and
replacing `X` by it must break the property it was written for. They show that the
properties can fail.

**Grain of the steps.** An operation that holds a lock is one step. An
operation that takes a lock several times, or reads an object after the lock is
released, is split there: the control point `pc` of a thread names the next section. The
callbacks are application code: in control point `app` a thread may make any
sequence of calls of the interface before it returns. In `CodeQueue`, which
has no lock, a step is one load or store of an index or one byte copied. In
`SocketSend`, `SocketRecv` and `Sockets` all handlers run in the net thread, so a handler is one step and only
the kernel, the peers and the application threads act in between.

**Timers.** `m_timerPool`, `m_timerMap`, `timer`, `m_nTimerSeq` are the members of
`CFrameTimerMgt`. The tree is the set of slots it indexes; `FirstTimers` is any slot of
smallest end time, because the order among equal end times depends on the tree's history.
`now` is the clock, in units of the cycle times, and never goes back (the code uses
`gettimeofday`, which may). `CreateTimer` reads the clock just before it takes the lock;
the model reads it inside, so the deadline of a timer whose creator was delayed is
later in the model than in the code by that delay.
In `TimerMgt` a thread goes `idle -> check -> begin -> app -> fired -> retire`: the
earliest timer, the comparison with the clock, the call of the handler, the
comparison of the sequence number, the removal. The last two are two lock sections in
the code (`frame_timer_mgt.cpp:231`).

**Sessions.** The slot, number, wait message and timer of a session are fields of
`session[s]`; memory and user data are left out, except that allocation may
fail (`SetUpSession`). `CreateSession` is `CreateObject, ReadSeq, WriteSeq,
CreateItsTimer, SetUpSession, BindSession, SendRequest`. The number is taken by
`++m_nSessionSeq` without a lock, hence two steps. A session ends through `Unbind,
RemoveItsTimer, Destroy, Reset, Release`; the
locals `next` and `ret` say which of these a caller goes through, as the
three callers differ. Peers are the environment: they answer any request at any time, or
never. `dropped` is not in the code: it remembers the sessions whose binding did not fit.

**Log ring.** A record is its length followed by its bytes. Each byte in the ring
is known as byte `k` of record `r`, so a torn or overwritten record is visible as such. A length
field that is not the length of one record may read as any number. The main log and a user
log differ in the lock alone; both are tried, by the initial value of `lock`.

**Send path.** `writeEvent` says whether EPOLLOUT is registered. The kernel
takes at most `room` bytes; an error may stop a write after any byte. `enmSendBufferSize`,
`enmRecvBufferSize` and `enmMaxMessageSize` are all `0x40000`, so a flush reads out the
whole buffer and what is put back goes in front of an empty one. For that reason the
wrong index in `WriteToHead` (`common/common_cyclebuffer.h:61`), which needs a
buffer with bytes left in it, is never met on this path. It is in the
model as the code has it.

**Receive path.** A read event takes what the kernel has, up to a buffer, and loops over
`Pass`, which reads a length, moves a part, or hands a packet up. `lost` is set where the
code drops bytes (`Write` without room, its result ignored) or decodes a length it did not
read (`PeekRead` of a full buffer); `starved` where `MALLOC` gave nothing.

**Threads.** In `LightFrame` a pass of a thread is its pops, its handler and the test at the
head of the loop; the flag, the command and the prototype of a message body, which have no
lock, are read and written in steps of their own. The history `looked` says how many packets
there had been when a thread last found its queue empty.

**Sockets.** One pass of the net thread is `connect` (configured servers), `send` (both
queues), `events` (socket timers, then a batch, one event a step). An object is in a free
list, open, or lost; `net.ptr` is what epoll returns for a descriptor. A link is a TCP connection; the kernel gives out the smallest free descriptor
and forgets links that are closed. `replaced` and `stranger` note the two moments after which the code
keeps no promise about its routes: a registration of a server that was already connected, and
the end of a connection whose object still has the peer of its last use.

**Library.** These parts have no interleaving of their own (but `MemMgt`). A behaviour picks one (`kind`) and
makes a bounded number of calls; the state `c` is the code's, `ref` a reference that is as
simple as can be: a set, a map, a sequence, or what was asked for. Where the code is wrong beyond a point
(`CMinHeap::Erase`, `CSList::Remove`, a full array of sockets, a peer list that is
loaded too often) the reference says so and the property holds up to there.

## 3. Runs

| run | bounds | what it shows |
|---|---|---|
| `timer_single` | 1 thread, 2 slots, cycle times {1, 2}, clock to 3, 3 timers | with one thread the callbacks are exact (`OneShotFiresOnce`, `RetiresOwnTimer`, `NeverEarly`), the store is consistent and no deadline is missed (`EveryDeadlineIsServed`), whatever handlers create and remove |
| `timer_guard` | 2 threads | `RetiresOwnTimer` is violated: finding 1 |
| `session_single` | 1 thread, 2 timers, 2 sessions, 1 binding, 2 messages, 3 sessions in all, clock to 1 | whenever application code runs, sessions, timers and bindings correspond one to one (`TimersMatchSessions`, `BindingsMatchSessions`), a response is decoded as the type it was received with, and every session ends, also with full tables and lost requests (`EverySessionEnds`) |
| `session_late` | 1 thread, 2 messages | `AnswersItsRequest` is violated: finding 2 |
| `session_reuse` | 2 threads | `ReleasesOwnSession` is violated: finding 3 |
| `codequeue_main` | 2 producers, ring of 10 bytes, consumer's buffer 2; main log: 4 records of lengths {1, 2, 3}; user log: 2 records of length 1 | the main log ring implements `RecordFifo`, with its liveness (`FifoSpec`, `MainLogInOrder`, `PushFits`); no copy leaves the ring, of either log (`CopiesStayInside`) |
| `codequeue_lost` | 2 unlocked producers, ring of 12 | `DeliversInOrder` is violated: finding 4 |
| `socketsend_stream` | buffers of 4, lengths in 2 bytes, packets of {3, 4}, kernel takes 4, 3 packets | both ends of a connection: however writes and reads are cut, the stream is the packets taken (`StreamIntact`), is sent to its end (`KeptIsArmed`, `TakenIsSent`), comes out as the same packets (`FramesIntact`, `TakenArrives`), framing is lost only by a read of more than the buffer less a length (`LostOnlyByBurst`), and the two ends behave as the sender with any reader (`ImplementsSend`) |
| `socketsend_connecting` | packets of 3 | `KeepsEveryPacket` is violated: finding 5 |
| `lightframe_run` | up to 2 application threads, 2 packets received, 1 posted, timer or reload | threads drain their queues before they stop (`EndsDrained`), a handler has its own body (`HandlerSeesOwnBody`), a server that is told to end does (`TerminateIsObeyed`), what is received is handled (`ReceivedIsHandled`) |
| `sockets_serve` | 7 servers of 1 to 3 objects, 2 descriptors, 1 or 2 application threads; 1 to 3 links, 1 or 2 messages and failures | objects and descriptors add up (`SocketsAccountedFor`), routes lead where they say (`RoutesAreTrue`), no reply to another client that is there (`RepliesReachTheirClient`), connections end (`ConnectionsEnd`), nobody waits unnoticed in the backlog (`BacklogIsNoticed`), configured servers are connected again (`PeersAreConnected`) |
| `library_use` | 2 to 9 calls on each part (`MCOps`), containers of 3 to 7 nodes, 2 threads on 2 blocks | `AgreesWithReference` (containers), `BlocksAddUp` (memory), `DecodesWhatWasEncoded` (heads, texts, log records, encryption, dates, shared memory), `MessagesFindTheirWay` (handlers, packets, routes, socket objects), `ConfigIsAsWritten`, `RecordsReachTheirFile` |

Why the bounds are enough. *Timers*: two slots and three timers let a slot be
reused while the other is in use, and let a thread hold the index of a timer that
is gone; cycle times 1 and 2 let end times coincide and overtake each other.
*Sessions*: the same, and 2 message ids tell a response for the
present wait from one for an earlier wait; one binding for two sessions makes the list
overflow. *Log ring*: with a ring of 10, a reserve of 2, a length field of 2 bytes and records of
3, 4 and 5 bytes in all, the length and the payload each get split at the
end of the ring, a push is refused, a record too long for the consumer is skipped, a short
one fits behind it, and four records are enough to go round. The real
reserve and length field are larger and play the same parts. *Connection*: buffers of 4, and a
kernel that takes 4, let every packet be cut at every byte on both sides, let packets fill
or overflow a buffer, and let a length come in two parts. *Threads*: two packets
and two threads are needed for a body decoded over another, and one posted
packet for a queue that is not drained. *Sockets*: two descriptors are fewer than the
objects, so that accepting and connecting run out of them and every descriptor is reused; two servers of one
type share its list of free objects; two links and two messages let a reply be late; each failure may be a refusal, an end of a link, a
failed `socket`, `accept` or allocation. *Library*: the numbers of calls are the depth at
which every container has been full, emptied and filled again (the tree: every case of
rebalancing); the small capacities make bucket collisions and full lists common.

`TimersMatchSessions` and `BindingsMatchSessions` are stated for moments when no thread is in the
middle of an operation (`Quiet`), which are the moments when application code
can observe the tables.

Deadlock is checked in every run but `library_use`, whose behaviours end when their calls are used up.

### Fairness

- `WF(TimePasses)`: the clock advances (up to the bound of the run).
- `WF` of each thread's own steps (`TimerMgt`, `SessionMgt`, `LightFrame`, `NetStep` and `AppStep` of `Sockets`): the operating system schedules it. The loops of
  the code never wait for another application thread outside a mutex.
- `WF(AppReturn)` in `TimerMgt`, `SF(AppReturn)` in `SessionMgt`: a handler returns. It
  is strong in the second because a handler leaves `app` while it calls the
  interface. A handler that never returns stops its thread in the code too.
- `WF(PopStep)`, `WF(PushStep(p))`: the log thread polls, a thread inside Push goes on.
- `WF(Paired(WriteEvent))`, `WF(OnRead)`: a connection is registered with epoll level-triggered (only listening
  sockets use EPOLLET), and epoll is polled in every round of the net thread, at both ends. Nothing says that the connection stays: `TakenIsSent` and
  `TakenArrives` are about the connection that took the packet. In `SocketSend` alone the peer's
  reading is assumed (`WF(PeerReads)`); `ImplementsSend` shows that the receiver gives it.
- `WF` of `Establish` in `Sockets`: the kernel ends every attempt to connect. Failures are bounded, so a server that
  is down comes back in the end.

## 4. Findings

Each is a run whose property states what the code or its comments claim, and which TLC
refutes.

1. `timer_guard`: `TimerFired(index, seq)` compares the sequence number, releases the
   lock and then removes whatever is in the slot; a second thread can
   put a new timer there in between.
2. `session_late`: a response is matched by slot and message id only, because
   `nSequence` is always 0. One that comes after its session timed out is given
   to the next session in the slot that waits for the same message.
3. `session_reuse`: `DestroySessionByIndex` has the same gap as 1: two threads that
   end one session (a response and its timeout) can destroy a new one.
4. `codequeue_lost`: user logs are pushed without the lock of the main log; two
   application threads overwrite each other's records.
5. `socketsend_connecting`: a packet given to a socket whose connection has just been
   completed by the kernel is neither written nor kept, and `Send` returns S_OK.

1, 3 and 4 need more than one application thread, which the configuration allows.

## 5. Proofs

All theorems hold for every value of the constants that satisfies the named
`ASSUME`s of the modules (sizes are positive, the reserve is smaller than the ring,
records are not empty, the type of a server is not the one of clients). The configuration of `Sockets` is otherwise any: servers may share a
type, or be named twice.

The hypothesis *one thread* is `LoneThread`, which is `appthreadcount` = 1 in the code. It is needed and not a
convenience: with two threads `timer_guard` refutes `RetiresOwnTimer`, and what the other theorems marked so say
fails by the same gap between two sections of a lock. *Main log* is the case of `lock # NoLock` in the properties themselves.

| theorem | states | argument |
|---|---|---|
| `TimerMgt_proofs!TypeCorrect` | `Spec => []TypeOK` | from `TypeInv` |
| `TimerMgt_proofs!StoreStaysConsistent` | `Spec => []StoreConsistent`: pool, tree and numbers agree | `TypeInv` |
| `TimerMgt_proofs!LoneThreadRetiresOwn` | one thread: `RetiresOwnTimer` | `LoneInv` |
| `TimerMgt_proofs!LoneThreadIsNeverEarly` | one thread: `NeverEarly` | `LoneInv` |
| `TimerMgt_proofs!LoneThreadFiresOnce` | one thread: `OneShotFiresOnce` | `LoneInv` |
| `SessionMgt_proofs!TypeCorrect` | `Spec => []TypeOK` | `IInv` |
| `SessionMgt_proofs!TablesStayConsistent` | `Spec => []TablesConsistent` | `IInv` |
| `SessionMgt_proofs!LoneThreadMatchesTimers` | one thread: `[]TimersMatchSessions` | `LoneInv` |
| `SessionMgt_proofs!LoneThreadMatchesBindings` | one thread: `[]BindingsMatchSessions` | `LoneInv` |
| `SessionMgt_proofs!LoneThreadDecodesAsReceived` | one thread: `[]DecodesAsReceived` | `LoneInv` |
| `CodeQueue_proofs!TypeCorrect` | `Spec => []TypeOK`, with or without the lock | `IInv` |
| `CodeQueue_proofs!CopiesNeverLeave` | `Spec => []CopiesStayInside` | `IInv` |
| `CodeQueue_proofs!MainLogDelivers` | `Spec => []MainLogInOrder` | `LockedInv` |
| `CodeQueue_proofs!PushAlwaysFits` | `Spec => []PushFits` | `LockedInv` |
| `CodeQueue_proofs!ImplementsFifo` | `Spec => Fifo!Init /\ [][Fifo!Next]`: the ring implements `RecordFifo`, but for its liveness | `LockedInv` |
| `SocketRecv_proofs!SendIsIntact` | the invariant of the sender alone | `SendInv` |
| `SocketRecv_proofs!EndsImplementSender` | `StreamSpec => ImplementsSend`: both ends together behave as the sender with any reader | `SendInv`, `Balance` |
| `SocketRecv_proofs!SentIsIntact` | `StreamSpec => []StreamIntact` | `SendInv` |
| `SocketRecv_proofs!KeptBytesAreArmed` | `StreamSpec => []KeptIsArmed` | `SendInv` |
| `SocketRecv_proofs!FramesStayIntact` | `StreamSpec => []FramesIntact` | `EndsInv` |
| `SocketRecv_proofs!FramingSurvivesSmallReads` | `StreamSpec => LostOnlyByBurst` | `EndsInv` |
| `LightFrame_proofs!FrameInvariant` | `Spec => []FrameInv`, types included | `FrameInv` |
| `LightFrame_proofs!HandlersSeeTheirOwn` | `Spec => []HandlerSeesOwnBody` | `FrameInv` |
| `LightFrame_proofs!ThreadsEndDrained` | `Spec => []EndsDrained` | `FrameInv` |
| `MemMgt_proofs!BlocksAlwaysAddUp` | `MemSpec => []BlocksAddUp` | `MemInv` |
| `Sockets_proofs!Invariance` | `Spec => []IInv`, types included | `IInv` |
| `Sockets_proofs!SocketsAccounted` | `Spec => []SocketsAccountedFor` | `IInv` |
| `Sockets_proofs!RoutesTrue` | `Spec => []RoutesAreTrue` | `IInv` |
| `Sockets_proofs!RepliesReachClients` | `Spec => []RepliesReachTheirClient` | `IInv` |
| `Sockets_proofs!ConnectionsAreEnded` | `Spec => []ConnectionsEnd`, which is about one application thread | `IInv` |
| `Sockets_proofs!BacklogNoticed` | `Spec => []BacklogIsNoticed` | `IInv` |

*Timers.* `TimerStore_proofs` begins with the three pool operators: they keep a pool
well-formed (no slot is lost or doubled in the free list). Each operation of
`TimerStore` is then shown to keep the store consistent *whatever index it is
given*, which is why stale indices in the threads do no harm to it; a
step of a thread is one such operation or leaves the store alone. For a lone thread
`LoneInv` adds what it may rely on between its steps: the timer it found is still in the pool and due, the
number it keeps across the callback names no timer of another slot (numbers are given out
in order, so one that was seen is below `m_nTimerSeq`), and a one-shot timer that was called back is the one it is just
working on. The three action properties follow from `LoneInv` step by step.

*Log ring.* `CopiesStayInside` is not inductive: it needs to know why the copy fits. The
strengthening is `IInv`: types; for each producer in the middle of a copy, that its
record fitted between the tail and the head *it loaded* (`PushRoom`); for the
consumer, that the record's length is within what it saw in use (`PopRoom`). All of these are about
locals of one thread, so no other thread can disturb them, and this is the
reason why the ring is safe in memory even where it is wrong as a queue. Order needs the content of the ring:
`MainInv` says that the ring holds exactly the records accepted and not yet taken, one behind the
other from head to tail. Where each begins is a function, `off`, whose existence the invariant asserts (`Layout`,
`RingHolds`); a step extends the function or moves the first record, so no recursion is needed. That the
producer's copy cannot hit unread bytes is `PushHolds`: the head moves only away from it. The history `due` holds the
records the consumer has a buffer for, in the order they were accepted, which is what `RecordFifo` is shown.

*Sessions.* `TablesConsistent` says that each of the three tables is consistent in itself, for any number of
threads. The invariant `IInv` has a part per table
(`TimersOK`, `PoolOK`, `FieldsOK`, `BindingsOK`, `NetOK`) and one for the locals of
the threads (`ThreadsOK`), and each part has its lemma: a step changes a table by one of a few operations, which
keep it whatever index they are given, so the lemmas of the tables do not split by action. That of the
threads does. Two facts make `TypeOK` inductive: a timer carries the index
of a session slot, for `OnTimerEvent` takes it from there, and the message a thread is about to bind can be
answered. That the tables agree *with each other* holds with one thread. `LoneInv` says so at every control point, and not
just at the quiet ones: all sessions and timers correspond but for the session that is being made or unmade (`Torn`) and
the timer whose session is not there yet, or no more (`Loose`). The hard case is a callback that ends its own session or makes another in its slot:
`FrameInv` says that while a session is called back for its timeout, its number and the number of its timer stand and fall together.

*Connection.* `SendInv` adds to `StreamIntact` and `KeptIsArmed` that nothing is kept or taken before
a connection is available. `Balance` ties the room in the kernel to the bytes under way, so that a step of the two
ends is a step of the sender with some reader; hence all that is proved of the sender holds for both.
`RecvInv` says, as long as framing is not lost, what has been framed: the messages handed up, the part of a packet, and the
bytes in the buffer are together the bytes that have arrived (`Framed`), and between reads less than a
length is left in the buffer unless memory ran out. `FramesIntact` is then a matter of taking two equal streams apart, which the lemmas on
`Stream` allow because the length of a packet is read from its own bytes. `Stream` and `Passes` are recursive
*functions*: facts about them are proved for the least counterexample (`SmallestExists`), since the library's induction theorems cannot be used.
`CycleBuffer` has its own lemmas: `Write` and `Read` keep a buffer well-formed and act on its `Contents` as on a FIFO, for every size.

*Threads.* `FrameInv` joins the order in which threads are started and stopped (`InOrder`: nobody is told to stop
before those that feed him are done) with what each thread knew of its queue when it last looked (`Drained`): what
waits then came later. `OwnBody` follows the body from the decoding to the handler.

*Memory.* `MemInv` says where a block can be: in the free list of its size, once, with no references; held by one thread, with one;
or being given back by one thread, with one or none, depending on whether the count has been taken down yet. `PlaceInv` says that it is somewhere.
The third case is the gap of the code (the count is changed before the lock is taken), and the reason why `BlocksAddUp`
is not inductive. It follows that `AllocBlock` never meets a block in use in a free list, so it records no leak.

*Sockets.* A handler takes the net thread from one state `n` of `net` to another through a chain of elementary changes: a descriptor
opened, an entry added, a list shortened, a socket closed. So the invariant is about such a state, and not about the variable: each of
these changes keeps `Safe(n, backlog)`, and a handler keeps it because its parts do. `IInv` adds what holds between handlers only: no object is
left `Opened` (`Settled`), the events that are left in the batch are of different open descriptors (`Events`), and who waits in the backlog has an event
(`Noticed`). The parts of `Safe` are needed for one another:

- `Holding`, `Waiting`, `Quiet`: descriptors, sockets and links correspond one to one, a link waits in one place until it is accepted, and a
  server that is connected to sends nothing. These and `Clients` (the entry of a descriptor leads to the outside socket that has it) hold
  whatever is registered.
- `Accounted` holds until an open socket is replaced, and joins what must be shown together: `Free` (in its list once, or open, or lost),
  `Pointed` (what epoll returns for a descriptor is its socket), `Timed` (a timer belongs to an attempt to connect), `Entered` (an entry leads to an
  open socket with that peer). `Entered` is why `CloseSocket` puts an object back once, and `Free` why an object taken from a list is nobody's.
- `Routed` holds until, besides, a stranger took an entry away. It says also that an object that connects, or has connected, leaves the entry of its peer to
  nobody else. When a free object is taken for a server without an entry, no other object that connects has this server (`Alone`): it would be in the map.
- `Packets` says that the link of a packet in a queue, or with an application thread, never got a descriptor other than the one the packet names. This makes
  `RepliesReachTheirClient` inductive (`Replies`): a reply goes to whatever link has that descriptor now, and if this is another
  one, the link that is answered is closed, and does not come back.
- `Ended` says of each message of a client, and of each connection, that the end of its link is still to come, was silent, or is announced by a close event
  *behind* it. The last word is what makes `ConnectionsEnd` inductive: queues and the one thread keep the order.

`ConnectPeers` and `HandleTimeOuts` are recursive functions over the configured servers and the timers that are due. That each step of them keeps the
parts is proved for the least number of steps that would not (`SmallestExists`), as for `Stream`.

### Only model-checked

- Liveness, which the prover does not do: `EveryDeadlineIsServed`, `EverySessionEnds`, `TakenIsSent`, `TakenArrives`,
  `TerminateIsObeyed`, `ReceivedIsHandled`, `PeersAreConnected`, and the fairness in `FifoSpec`.
- The containers, `Codec`, `Text`, `Config`, `LogFiles` and what `Services` and `Library` say of them: `AgreesWithReference`, `DecodesWhatWasEncoded`,
  `MessagesFindTheirWay`, `ConfigIsAsWritten`, `RecordsReachTheirFile`. They compute over data with RECURSIVE operators or bit operations.

## 6. Not modelled, and the plan

Left out on purpose:

- `common_tcpsocket`, `common_socket`, `common_mysqlengine`, `frame_dalmgt`: wrappers for applications; the framework
  calls none of them. tinyxml, mysql and md5 are third-party code.
- Formatting: `Dump` of heads, the texts of log records, `PrintMemBlockInfo`. Calls that hand through, getters, and the
  order of the calls in `CLightFrame::Initialize`.
- Code nothing calls: `UnregistUsedSocketHandler`, `ReadFromTail`, `Front`, `IsSessionBindingMsg`, some private
  operations of the cache and the heap; the thread registry, which nothing reads.
- `Resume` and `Uninitialize` of the managers, which run when there is one thread.
- Signals; `gettimeofday` being set back under the timers; other memory models than x86 for the log ring; loops in
  `GetAllInsideSocket` that write behind their array, and the packets longer than their block:
  the model notes that they do, and not what they overwrite.

Next, the most important first:

1. The index chains under the containers (`IndexList`): lemmas about one operation, as those about `CPool`, and on them the hash list and the lists.
   That a container agrees with its reference after any number of calls needs `RECURSIVE` walks to be written as functions first.
2. `MsgEventMgt` and `Posting`: that a packet goes to the sockets it is for needs no recursion over data, only a version of the loops as functions.
