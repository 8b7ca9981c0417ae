----------------------------- MODULE LightFrame -----------------------------
(***************************************************************************)
(* The threads of a server and the queues between them (src/lightframe.cpp,*)
(* frame_mainthread.cpp, frame_netthread.cpp, frame_logthread.cpp,         *)
(* frame_netqueue.cpp, common/common_thread.cpp).  The main thread starts  *)
(* the log thread, the application threads and the net thread, waits for a *)
(* command, and stops them one after the other; the net thread puts what it*)
(* receives on the queues m_stRecvSSQueue (messages of servers) and        *)
(* m_stRecvCSQueue (messages of clients) and takes what is to be sent from *)
(* m_stSendSSQueue and m_stSendCSQueue; the application threads handle the *)
(* messages and post others; all of them log.  Each queue has a lock, so a *)
(* push or a pop is a step, and so is each access to what has no lock: the *)
(* command, the flags m_bTerminated, the prototype a message body is       *)
(* decoded into.                                                           *)
(*                                                                         *)
(* What is sent is modelled in SocketSend, the ring of log records in      *)
(* CodeQueue, timers in TimerMgt: here a timer is due or not, a record is  *)
(* its number, and sending is taking off the queue.  The command queue     *)
(* g_FrameCommandQueue is filled by tests only, and empty here.            *)
(***************************************************************************)
EXTENDS Integers, Sequences

CONSTANTS
    MaxAppThreads,      \* enmMaxAppThreadCount
    MaxReceived,        \* bound: packets from the network
    MaxOthers           \* bound: packets posted, timers that get due and reload commands, in all

ASSUME FrameAssumption ==
    /\ MaxAppThreads \in Nat \ {0}
    /\ MaxReceived \in Nat /\ MaxOthers \in Nat

VARIABLES
    m_nAppThreadCount,
    g_eServerCommand,
    m_bTerminated,      \* per thread
    pc,                 \* per thread: where it is, "none" before Start, "done" after Execute
    order,              \* the main thread: threads still to be started or stopped
    m_stRecvSSQueue, m_stRecvCSQueue, m_stSendSSQueue, m_stSendCSQueue,
    bIdle,              \* per thread: nothing was done in this pass of its loop
    packet,             \* per application thread: the packet being handled
    body,               \* per application thread: its copy of the message body
    prototype,          \* the body of g_MessageMapDecl, shared by the threads
    logRing,            \* records not yet written to a file
    received, posted, fired, reloads,   \* counted, for the bounds
    handled,            \* history: [no, kind, saw], what each handler was given
    logged,             \* history: records logged
    looked              \* history: per thread, how many packets (for the log thread: records)
                        \* there had been when it found its queue empty in this pass,
                        \* NotYet if it has not

queues == <<m_stRecvSSQueue, m_stRecvCSQueue, m_stSendSSQueue, m_stSendCSQueue>>
counts == <<received, posted, fired, reloads>>
Others == posted + fired + reloads
vars == <<m_nAppThreadCount, g_eServerCommand, m_bTerminated, pc, order, queues, bIdle, packet,
          body, prototype, logRing, counts, handled, logged, looked>>

AppThreads == 1 .. m_nAppThreadCount
Main == 0
Net == -1
Log == -2
Threads == {Main, Net, Log} \cup (1 .. MaxAppThreads)
Apps == [i \in AppThreads |-> i]
NotYet == MaxReceived + MaxOthers + 1      \* more than there ever are
None == [no |-> 0, kind |-> "SS"]

Init ==
    /\ m_nAppThreadCount \in 1 .. MaxAppThreads
    /\ g_eServerCommand = "None"
    /\ m_bTerminated = [t \in Threads |-> FALSE]
    /\ pc = [t \in Threads |-> IF t = Main THEN "start" ELSE "none"]
    /\ order = <<Log>> \o Apps \o <<Net>>
    /\ m_stRecvSSQueue = << >> /\ m_stRecvCSQueue = << >>
    /\ m_stSendSSQueue = << >> /\ m_stSendCSQueue = << >>
    /\ bIdle = [t \in Threads |-> TRUE]
    /\ packet = [t \in Threads |-> None] /\ body = [t \in Threads |-> None] /\ prototype = None
    /\ logRing = << >>
    /\ received = 0 /\ posted = 0 /\ fired = 0 /\ reloads = 0
    /\ handled = {} /\ logged = 0 /\ looked = [t \in Threads |-> 0]

Go(t, where) == pc' = [pc EXCEPT ![t] = where]
Idle(t, b) == bIdle' = [bIdle EXCEPT ![t] = b]
WriteLog == logRing' = Append(logRing, logged + 1) /\ logged' = logged + 1

-----------------------------------------------------------------------------
(* The main thread.                                                        *)

\* Start of the next thread: the flag is reset before the thread exists.
Start ==
    /\ pc[Main] = "start"
    /\ IF order = << >> THEN Go(Main, "run") /\ UNCHANGED <<order, m_bTerminated>>
       ELSE /\ pc' = [pc EXCEPT ![Head(order)] = "loop"]
            /\ m_bTerminated' = [m_bTerminated EXCEPT ![Head(order)] = FALSE]
            /\ order' = Tail(order)
    /\ UNCHANGED <<m_nAppThreadCount, g_eServerCommand, queues, bIdle, packet, body, prototype,
                   logRing, counts, handled, logged, looked>>

\* The program's signal handler or console sets the command, and nothing after
\* a terminate command.
SetCommand ==
    /\ g_eServerCommand # "Terminate"
    /\ \/ Others < MaxOthers /\ reloads' = reloads + 1 /\ g_eServerCommand' = "Reload"
       \/ g_eServerCommand' = "Terminate" /\ UNCHANGED reloads
    /\ pc[Main] \in {"run", "reload"}
    /\ UNCHANGED <<m_nAppThreadCount, m_bTerminated, pc, order, queues, bIdle, packet, body, prototype,
                   logRing, received, posted, fired, handled, logged, looked>>

\* Terminal: net thread, application threads, log thread.
StopOrder == <<Net>> \o Apps \o <<Log>>

\* Run reads the command,
ReadCommand ==
    /\ pc[Main] = "run"
    /\ \/ g_eServerCommand = "Reload" /\ Go(Main, "reload") /\ UNCHANGED order
       \/ g_eServerCommand = "Terminate" /\ Go(Main, "stop") /\ order' = StopOrder
    /\ UNCHANGED <<m_nAppThreadCount, g_eServerCommand, m_bTerminated, queues, bIdle, packet, body,
                   prototype, logRing, counts, handled, logged, looked>>

\* and clears it, whatever it is by then, before it reloads the configuration.
ClearCommand ==
    /\ pc[Main] = "reload"
    /\ g_eServerCommand' = "None" /\ Go(Main, "run")
    /\ UNCHANGED <<m_nAppThreadCount, m_bTerminated, order, queues, bIdle, packet, body, prototype,
                   logRing, counts, handled, logged, looked>>

\* (mutant) the flag is set when the thread has ended
Terminate_JoinsFirst ==
    /\ pc[Main] = "stop" /\ order # << >>
    /\ pc[Head(order)] = "done"
    /\ m_bTerminated' = [m_bTerminated EXCEPT ![Head(order)] = TRUE]
    /\ Go(Main, "join") /\ UNCHANGED order

\* Terminate of the next thread: the flag,
Terminate ==
    /\ pc[Main] = "stop" /\ order # << >>
    /\ m_bTerminated' = [m_bTerminated EXCEPT ![Head(order)] = TRUE]
    /\ Go(Main, "join") /\ UNCHANGED order

\* then pthread_join.
Join ==
    /\ pc[Main] = "join" /\ pc[Head(order)] = "done"
    /\ order' = Tail(order)
    /\ Go(Main, IF Tail(order) = << >> THEN "done" ELSE "stop")
    /\ UNCHANGED m_bTerminated

StopThreads ==
    /\ Terminate \/ Join
    /\ UNCHANGED <<m_nAppThreadCount, g_eServerCommand, queues, bIdle, packet, body, prototype,
                   logRing, counts, handled, logged, looked>>

-----------------------------------------------------------------------------
(* The net thread: its loop ends as soon as it is told to.                 *)

NetLoop ==
    /\ pc[Net] = "loop" /\ Go(Net, IF m_bTerminated[Net] THEN "done" ELSE "pump")
    /\ UNCHANGED <<queues, received>>

Rest(queue) == IF queue = << >> THEN << >> ELSE Tail(queue)
Packet(kind) == [no |-> received + 1, kind |-> kind]

\* MakeMessage of the inside and of the outside socket: each has its queue.
MakeMessage(kind) ==
    IF kind = "SS"
    THEN m_stRecvSSQueue' = Append(m_stRecvSSQueue, Packet(kind)) /\ UNCHANGED m_stRecvCSQueue
    ELSE m_stRecvCSQueue' = Append(m_stRecvCSQueue, Packet(kind)) /\ UNCHANGED m_stRecvSSQueue

\* MessagePump: SendMessagesToServer and SendMessagesToClient take a packet each,
\* and an event may complete a packet.
MessagePump ==
    /\ pc[Net] = "pump" /\ Go(Net, "loop")
    /\ m_stSendSSQueue' = Rest(m_stSendSSQueue) /\ m_stSendCSQueue' = Rest(m_stSendCSQueue)
    /\ \/ UNCHANGED <<m_stRecvSSQueue, m_stRecvCSQueue, received>>
       \/ /\ received < MaxReceived /\ received' = received + 1
          /\ \E kind \in {"SS", "CS"} : MakeMessage(kind)

NetStep ==
    /\ NetLoop \/ MessagePump
    /\ UNCHANGED <<m_nAppThreadCount, g_eServerCommand, m_bTerminated, order, bIdle, packet, body,
                   prototype, logRing, posted, fired, reloads, handled, logged, looked>>

-----------------------------------------------------------------------------
(* An application thread t: CFrameMainThread::Execute.                     *)

AppKeeps == UNCHANGED <<m_nAppThreadCount, g_eServerCommand, m_bTerminated, order, received, reloads>>

\* A pass begins: the loop's condition, then ProcessTimerEvent.  A timer that is
\* due goes first, and the pass ends with it.
Pass(t, ends) ==
    /\ pc[t] = "loop"
    /\ \/ ends /\ Go(t, "done") /\ UNCHANGED <<fired, bIdle, logRing, logged, looked>>
       \/ /\ ~ends /\ looked' = [looked EXCEPT ![t] = NotYet]
          /\ \/ /\ Others < MaxOthers /\ fired' = fired + 1
                /\ Go(t, "loop") /\ Idle(t, FALSE) /\ WriteLog
             \/ Go(t, "ss") /\ Idle(t, TRUE) /\ UNCHANGED <<fired, logRing, logged>>
    /\ UNCHANGED <<queues, packet, body, prototype, posted, handled>> /\ AppKeeps

\* (mutant) the thread stops whether or not the last pass did something
Execute_StopsBusy(t) == Pass(t, m_bTerminated[t])

Execute(t) == Pass(t, m_bTerminated[t] /\ bIdle[t])

\* (mutant) without a message of a server the pass is over
PopSS_EndsPass(t) ==
    /\ pc[t] = "ss"
    /\ IF m_stRecvSSQueue = << >>
       THEN /\ looked' = [looked EXCEPT ![t] = received] /\ Go(t, "loop")
            /\ UNCHANGED <<m_stRecvSSQueue, packet>>
       ELSE /\ packet' = [packet EXCEPT ![t] = Head(m_stRecvSSQueue)]
            /\ m_stRecvSSQueue' = Tail(m_stRecvSSQueue)
            /\ Go(t, "decode") /\ UNCHANGED looked
    /\ UNCHANGED <<m_stRecvCSQueue, m_stSendSSQueue, m_stSendCSQueue, bIdle, body, prototype, logRing,
                   posted, fired, handled, logged>> /\ AppKeeps

\* ProcessSSLogicData, PopRecvSSQueue
PopSS(t) ==
    /\ pc[t] = "ss"
    /\ IF m_stRecvSSQueue = << >>
       THEN /\ looked' = [looked EXCEPT ![t] = received] /\ Go(t, "cs")
            /\ UNCHANGED <<m_stRecvSSQueue, packet>>
       ELSE /\ packet' = [packet EXCEPT ![t] = Head(m_stRecvSSQueue)]
            /\ m_stRecvSSQueue' = Tail(m_stRecvSSQueue)
            /\ Go(t, "decode") /\ UNCHANGED looked
    /\ UNCHANGED <<m_stRecvCSQueue, m_stSendSSQueue, m_stSendCSQueue, bIdle, body, prototype, logRing,
                   posted, fired, handled, logged>> /\ AppKeeps

\* ProcessCSLogicData, PopRecvCSQueue; with nothing there (nor on the command
\* queue) the thread sleeps, idle.
PopCS(t) ==
    /\ pc[t] = "cs"
    /\ IF m_stRecvCSQueue = << >>
       THEN Go(t, "loop") /\ UNCHANGED <<m_stRecvCSQueue, packet>>
       ELSE /\ packet' = [packet EXCEPT ![t] = Head(m_stRecvCSQueue)]
            /\ m_stRecvCSQueue' = Tail(m_stRecvCSQueue)
            /\ Go(t, "decode")
    /\ UNCHANGED <<m_stRecvSSQueue, m_stSendSSQueue, m_stSendCSQueue, bIdle, body, prototype, logRing,
                   posted, fired, handled, logged, looked>> /\ AppKeeps

\* (mutant) every body is decoded into the prototype
HasOwnBody_Never(p) == FALSE

\* CreateMsgBody copies the prototype for a server's message when there are
\* several application threads; a client's is decoded into the prototype itself.
HasOwnBody(p) == p.kind = "SS" /\ m_nAppThreadCount > 1

DecodeBody(t) ==
    /\ pc[t] = "decode" /\ Go(t, "handle")
    /\ IF HasOwnBody(packet[t])
       THEN body' = [body EXCEPT ![t] = packet[t]] /\ UNCHANGED prototype
       ELSE prototype' = packet[t] /\ UNCHANGED body
    /\ UNCHANGED <<queues, bIdle, packet, logRing, posted, fired, handled, logged, looked>> /\ AppKeeps

\* PostMessage to a server, and to a client: a packet on the queue to be sent.
PostToServer ==
    /\ Others < MaxOthers /\ posted' = posted + 1
    /\ m_stSendSSQueue' = Append(m_stSendSSQueue, posted + 1) /\ UNCHANGED m_stSendCSQueue
PostToClient ==
    /\ Others < MaxOthers /\ posted' = posted + 1
    /\ m_stSendCSQueue' = Append(m_stSendCSQueue, posted + 1) /\ UNCHANGED m_stSendSSQueue

MayPost == PostToServer \/ PostToClient \/ UNCHANGED <<posted, m_stSendSSQueue, m_stSendCSQueue>>

\* The handler reads the body, posts and logs; the packet is freed.  The pass
\* was not idle for a server's message; ProcessCSMessage always returns FALSE.
Handle(t) ==
    /\ pc[t] = "handle" /\ Go(t, "loop")
    /\ handled' = handled \cup {[no |-> packet[t].no, kind |-> packet[t].kind,
                               saw |-> IF HasOwnBody(packet[t]) THEN body[t].no ELSE prototype.no]}
    /\ Idle(t, packet[t].kind = "CS")
    /\ packet' = [packet EXCEPT ![t] = None] /\ body' = [body EXCEPT ![t] = None]
    /\ MayPost /\ WriteLog
    /\ UNCHANGED <<m_stRecvSSQueue, m_stRecvCSQueue, prototype, fired, looked>> /\ AppKeeps

App(t) ==
    \/ Execute(t) \/ PopSS(t) \/ PopCS(t) \/ DecodeBody(t) \/ Handle(t)

-----------------------------------------------------------------------------
(* The log thread.                                                         *)

\* ReadLog, WriteToLogFile: a pass writes a record, or finds none.
LogPass(ends) ==
    /\ pc[Log] = "loop"
    /\ \/ ends /\ Go(Log, "done") /\ UNCHANGED <<bIdle, logRing, looked>>
       \/ /\ ~ends /\ logRing = << >> /\ Idle(Log, TRUE)
          /\ looked' = [looked EXCEPT ![Log] = logged] /\ UNCHANGED <<pc, logRing>>
       \/ /\ ~ends /\ logRing # << >> /\ Idle(Log, FALSE)
          /\ logRing' = Tail(logRing) /\ looked' = [looked EXCEPT ![Log] = NotYet] /\ UNCHANGED pc
    /\ UNCHANGED <<m_nAppThreadCount, g_eServerCommand, m_bTerminated, order, queues, packet, body,
                   prototype, counts, handled, logged>>

LogExecute == LogPass(m_bTerminated[Log] /\ bIdle[Log])

-----------------------------------------------------------------------------
\* The process is over: nothing is left to happen.
Exited == pc[Main] = "done" /\ UNCHANGED vars

MainStep == Start \/ ReadCommand \/ ClearCommand \/ StopThreads

Next ==
    \/ Start \/ SetCommand \/ ReadCommand \/ ClearCommand \/ StopThreads
    \/ NetStep \/ LogExecute
    \/ \E t \in AppThreads : App(t)
    \/ Exited

Spec == Init /\ [][Next]_vars

\* The operating system schedules every thread.
FairSpec ==
    /\ Spec
    /\ WF_vars(MainStep) /\ WF_vars(NetStep) /\ WF_vars(LogExecute)
    /\ \A t \in 1 .. MaxAppThreads : WF_vars(t \in AppThreads /\ App(t))
-----------------------------------------------------------------------------
\* No thread ends while a packet (a record, for the log thread) waits that was
\* there when the thread last looked: the loops drain their queues, and as the
\* threads end in order (nothing is received any more when an application thread
\* ends, nothing logged when the log thread does) only what comes between the
\* last look and the end is left behind.
EndsDrained ==
    /\ \A t \in AppThreads : pc[t] = "done" =>
          /\ pc[Net] = "done"
          /\ \A i \in 1 .. Len(m_stRecvSSQueue) : m_stRecvSSQueue[i].no > looked[t]
    /\ pc[Log] = "done" =>
          /\ \A t \in AppThreads : pc[t] = "done"
          /\ \A i \in 1 .. Len(logRing) : logRing[i] > looked[Log]

\* A handler finds the message it was called for in the body: always for a
\* server's message, and with one application thread for a client's.
HandlerSeesOwnBody ==
    \A h \in handled : h.kind = "SS" \/ m_nAppThreadCount = 1 => h.saw = h.no

\* A terminate command ends the server, unless it is given while a reload
\* command is being taken: then it is cleared with it.
TerminateIsObeyed ==
    g_eServerCommand = "Terminate" /\ pc[Main] = "run" ~> pc[Main] = "done"

\* A packet received is handled, unless the server is being stopped.
ReceivedIsHandled ==
    \A n \in 1 .. MaxReceived :
        received >= n ~> \/ \E h \in handled : h.no = n
                         \/ pc[Main] \in {"stop", "join", "done"}
=============================================================================
