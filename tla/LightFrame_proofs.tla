-------------------------- MODULE LightFrame_proofs --------------------------
(***************************************************************************)
(* Proofs about the threads of a server, for every number of application   *)
(* threads and of packets: no handler is given another message's body, and *)
(* the threads end in order, each with its queue drained.                  *)
(***************************************************************************)
EXTENDS LightFrame, TLAPS

Places == {"none", "start", "run", "reload", "stop", "join", "done",
           "loop", "pump", "ss", "cs", "decode", "handle"}
PacketsOf(kind) == [no : Nat, kind : {kind}]
Packets == PacketsOf("SS") \cup PacketsOf("CS")

TypeOK ==
    /\ m_nAppThreadCount \in 1 .. MaxAppThreads
    /\ g_eServerCommand \in {"None", "Reload", "Terminate"}
    /\ m_bTerminated \in [Threads -> BOOLEAN]
    /\ pc \in [Threads -> Places]
    /\ pc[Log] \in {"none", "loop", "done"}
    /\ order \in Seq(Threads \ {Main})
    /\ m_stRecvSSQueue \in Seq(PacketsOf("SS")) /\ m_stRecvCSQueue \in Seq(PacketsOf("CS"))
    /\ m_stSendSSQueue \in Seq(Nat) /\ m_stSendCSQueue \in Seq(Nat)
    /\ bIdle \in [Threads -> BOOLEAN]
    /\ packet \in [Threads -> Packets] /\ body \in [Threads -> Packets] /\ prototype \in Packets
    /\ logRing \in Seq(Nat)
    /\ received \in Nat /\ posted \in Nat /\ fired \in Nat /\ reloads \in Nat
    /\ logged \in Nat /\ looked \in [Threads -> Nat]

\* What a handler is about to read is its own message, and was for those before.
OwnBody ==
    /\ HandlerSeesOwnBody
    /\ \A t \in AppThreads : pc[t] = "handle" =>
          IF HasOwnBody(packet[t]) THEN body[t] = packet[t]
          ELSE m_nAppThreadCount = 1 => prototype = packet[t]

\* The thread that is the k-th to be stopped.
StoppedAs(k) ==
    IF k = 1 THEN Net ELSE IF k = m_nAppThreadCount + 2 THEN Log ELSE k - 1

\* How many threads have been stopped, while the main thread stops them.
Stopped == m_nAppThreadCount + 2 - Len(order)

\* The main thread starts each thread once, tells none to stop before it stops
\* them, and then one after the other.
InOrder ==
    /\ pc[Main] = "start" =>
          /\ \A j \in 1 .. Len(order) : pc[order[j]] = "none"
          /\ \A i, j \in 1 .. Len(order) : order[i] = order[j] => i = j
    /\ pc[Main] \in {"start", "run", "reload"} => \A t \in Threads : ~m_bTerminated[t]
    /\ pc[Main] \in {"stop", "join"} =>
          /\ Len(order) <= m_nAppThreadCount + 2
          /\ \A j \in 1 .. Len(order) : order[j] = StoppedAs(Stopped + j)
          /\ \A k \in 1 .. Stopped : pc[StoppedAs(k)] = "done"
    /\ pc[Main] = "join" => order # << >>
    /\ \A t \in Threads \ {Main} : pc[t] = "done" => m_bTerminated[t]
    /\ \A t \in AppThreads : m_bTerminated[t] => pc[Net] = "done"
    /\ m_bTerminated[Log] => \A t \in AppThreads : pc[t] = "done"

\* Thread t found the queue of the servers' messages empty when it last looked,
\* and has handled none since.
SawNone(t) ==
    \/ pc[t] \in {"none", "cs", "done"}
    \/ pc[t] = "loop" /\ bIdle[t]
    \/ pc[t] \in {"decode", "handle"} /\ packet[t].kind = "CS"

\* What waits then came after it looked.
Drained ==
    /\ \A t \in AppThreads : SawNone(t) =>
          /\ looked[t] <= received
          /\ \A i \in 1 .. Len(m_stRecvSSQueue) : m_stRecvSSQueue[i].no > looked[t]
    /\ pc[Log] # "loop" \/ bIdle[Log] =>
          /\ looked[Log] <= logged
          /\ \A i \in 1 .. Len(logRing) : logRing[i] > looked[Log]

FrameInv == TypeOK /\ OwnBody /\ InOrder /\ Drained

LEMMA WithLast ==
    ASSUME NEW p \in Seq(Threads \ {Main}), NEW x \in Threads \ {Main}
    PROVE  /\ p \o <<x>> \in Seq(Threads \ {Main})
           /\ Len(p \o <<x>>) = Len(p) + 1
           /\ \A k \in 1 .. Len(p) : (p \o <<x>>)[k] = p[k]
           /\ (p \o <<x>>)[Len(p) + 1] = x
    OBVIOUS

\* The order in which the threads are stopped: the net thread, the application
\* threads, the log thread.
LEMMA StopOrderIs ==
    ASSUME m_nAppThreadCount \in 1 .. MaxAppThreads
    PROVE  /\ StopOrder \in Seq(Threads \ {Main})
           /\ Len(StopOrder) = m_nAppThreadCount + 2
           /\ \A k \in 1 .. m_nAppThreadCount + 2 : StopOrder[k] = StoppedAs(k)
<1>1. PICK n \in 1 .. MaxAppThreads : n = m_nAppThreadCount
    OBVIOUS
<1>2. PICK max \in Nat : max = MaxAppThreads
    BY FrameAssumption
<1>3. PICK apps : apps = [i \in 1 .. n |-> i]
    OBVIOUS
<1>4. apps \in Seq(Threads \ {Main}) /\ Len(apps) = n /\ \A i \in 1 .. n : apps[i] = i
    <2>1. \A i \in 1 .. n : i \in Threads \ {Main}
        BY <1>1, <1>2 DEF Threads, Main, Net, Log
    <2> QED
        BY <2>1, <1>1, <1>2, <1>3
<1>5. StopOrder = <<Net>> \o apps \o <<Log>>
    BY <1>1, <1>3 DEF StopOrder, Apps, AppThreads
<1>6. <<Net>> \in Seq(Threads \ {Main}) /\ <<Log>> \in Seq(Threads \ {Main})
    BY DEF Threads, Main, Net, Log
<1>7. PICK front : front = <<Net>> \o apps
    OBVIOUS
<1>8. /\ front \in Seq(Threads \ {Main}) /\ Len(front) = n + 1
      /\ front[1] = Net /\ \A k \in 2 .. n + 1 : front[k] = k - 1
    BY <1>4, <1>6, <1>7, <1>1, <1>2
<1>9. /\ StopOrder \in Seq(Threads \ {Main}) /\ Len(StopOrder) = n + 2
      /\ \A k \in 1 .. n + 1 : StopOrder[k] = front[k]
      /\ StopOrder[n + 2] = Log
    BY <1>5, <1>6, <1>7, <1>8, <1>1, <1>2
<1> QED
    BY <1>1, <1>2, <1>8, <1>9 DEF StoppedAs

\* The order in which they are started: each once.
LEMMA StartOrderIs ==
    ASSUME m_nAppThreadCount \in 1 .. MaxAppThreads
    PROVE  /\ <<Log>> \o Apps \o <<Net>> \in Seq(Threads \ {Main})
           /\ \A i, j \in 1 .. Len(<<Log>> \o Apps \o <<Net>>) :
                (<<Log>> \o Apps \o <<Net>>)[i] = (<<Log>> \o Apps \o <<Net>>)[j] => i = j
<1>1. PICK n \in 1 .. MaxAppThreads : n = m_nAppThreadCount
    OBVIOUS
<1>2. PICK max \in Nat : max = MaxAppThreads
    BY FrameAssumption
<1>3. PICK apps : apps = [i \in 1 .. n |-> i]
    OBVIOUS
<1>4. apps \in Seq(Threads \ {Main}) /\ Len(apps) = n /\ \A i \in 1 .. n : apps[i] = i
    <2>1. \A i \in 1 .. n : i \in Threads \ {Main}
        BY <1>1, <1>2 DEF Threads, Main, Net, Log
    <2> QED
        BY <2>1, <1>1, <1>2, <1>3
<1>5. PICK o : o = <<Log>> \o apps \o <<Net>>
    OBVIOUS
<1>6. <<Net>> \in Seq(Threads \ {Main}) /\ <<Log>> \in Seq(Threads \ {Main})
    BY DEF Threads, Main, Net, Log
<1>7. PICK front : front = <<Log>> \o apps
    OBVIOUS
<1>8. /\ front \in Seq(Threads \ {Main}) /\ Len(front) = n + 1
      /\ front[1] = Log /\ \A k \in 2 .. n + 1 : front[k] = k - 1
    BY <1>4, <1>6, <1>7, <1>1, <1>2
<1>9. /\ o \in Seq(Threads \ {Main}) /\ Len(o) = n + 2
      /\ \A k \in 1 .. n + 1 : o[k] = front[k]
      /\ o[n + 2] = Net
    <2>1. Net \in Threads \ {Main} /\ (n + 1) + 1 = n + 2
        BY <1>1, <1>2 DEF Threads, Main, Net, Log
    <2>2. o = front \o <<Net>>
        BY <1>5, <1>7
    <2> QED
        BY <2>1, <2>2, <1>8, WithLast
<1>10. \A i, j \in 1 .. Len(o) : o[i] = o[j] => i = j
    BY <1>1, <1>2, <1>8, <1>9 DEF Net, Log
<1>11. o = <<Log>> \o Apps \o <<Net>>
    BY <1>1, <1>3, <1>5 DEF Apps, AppThreads
<1> QED
    BY <1>9, <1>10, <1>11

LEMMA ThreadsAre ==
    ASSUME m_nAppThreadCount \in 1 .. MaxAppThreads
    PROVE  /\ Main \in Threads /\ Net \in Threads /\ Log \in Threads
           /\ Main # Net /\ Main # Log /\ Net # Log
           /\ AppThreads \subseteq Threads
           /\ \A t \in AppThreads : t # Main /\ t # Net /\ t # Log
<1>1. PICK n \in 1 .. MaxAppThreads : n = m_nAppThreadCount
    OBVIOUS
<1> QED
    BY <1>1, FrameAssumption DEF AppThreads, Threads, Main, Net, Log

LEMMA InitType == Init => TypeOK
<1> SUFFICES ASSUME Init PROVE TypeOK
    OBVIOUS
<1> USE ThreadsAre DEF Init
<1>1. order \in Seq(Threads \ {Main})
    BY StartOrderIs
<1>2. None \in Packets
    BY DEF None, Packets, PacketsOf
<1>3. pc \in [Threads -> Places] /\ pc[Log] \in {"none", "loop", "done"}
    BY DEF Places
<1>4. /\ m_stRecvSSQueue \in Seq(PacketsOf("SS")) /\ m_stRecvCSQueue \in Seq(PacketsOf("CS"))
      /\ m_stSendSSQueue \in Seq(Nat) /\ m_stSendCSQueue \in Seq(Nat) /\ logRing \in Seq(Nat)
    OBVIOUS
<1>5. packet \in [Threads -> Packets] /\ body \in [Threads -> Packets] /\ prototype \in Packets
    BY <1>2
<1> QED
    BY <1>1, <1>3, <1>4, <1>5 DEF TypeOK

LEMMA SeqSteps ==
    ASSUME NEW S, NEW q \in Seq(S)
    PROVE  /\ q # << >> => Head(q) \in S /\ Tail(q) \in Seq(S)
           /\ \A x \in S : Append(q, x) \in Seq(S)
    OBVIOUS

LEMMA NotYetIsNumber == NotYet \in Nat
    BY FrameAssumption DEF NotYet

\* Each step keeps the variables in their types.
LEMMA NextType == TypeOK /\ InOrder /\ [Next]_vars => TypeOK'
<1> SUFFICES ASSUME TypeOK, InOrder, [Next]_vars PROVE TypeOK'
    OBVIOUS
<1> USE DEF TypeOK
<1>0. /\ Main \in Threads /\ Net \in Threads /\ Log \in Threads
      /\ Main # Net /\ Main # Log /\ Net # Log
      /\ \A t \in AppThreads : t \in Threads /\ t # Main /\ t # Net /\ t # Log
    BY ThreadsAre
<1>q. /\ m_stRecvSSQueue # << >> =>
            Head(m_stRecvSSQueue) \in PacketsOf("SS") /\ Tail(m_stRecvSSQueue) \in Seq(PacketsOf("SS"))
      /\ m_stRecvCSQueue # << >> =>
            Head(m_stRecvCSQueue) \in PacketsOf("CS") /\ Tail(m_stRecvCSQueue) \in Seq(PacketsOf("CS"))
      /\ m_stSendSSQueue # << >> => Tail(m_stSendSSQueue) \in Seq(Nat)
      /\ m_stSendCSQueue # << >> => Tail(m_stSendCSQueue) \in Seq(Nat)
      /\ logRing # << >> => Tail(logRing) \in Seq(Nat)
    BY SeqSteps
<1>a. /\ \A x \in PacketsOf("SS") : Append(m_stRecvSSQueue, x) \in Seq(PacketsOf("SS"))
      /\ \A x \in PacketsOf("CS") : Append(m_stRecvCSQueue, x) \in Seq(PacketsOf("CS"))
      /\ \A x \in Nat : Append(m_stSendSSQueue, x) \in Seq(Nat)
      /\ \A x \in Nat : Append(m_stSendCSQueue, x) \in Seq(Nat)
      /\ \A x \in Nat : Append(logRing, x) \in Seq(Nat)
    BY SeqSteps
<1>n. received + 1 \in Nat /\ logged + 1 \in Nat /\ posted + 1 \in Nat /\ fired + 1 \in Nat
    OBVIOUS
<1>1. CASE Start
    <2>1. CASE order = << >>
        BY <1>0, <1>1, <2>1 DEF Start, Go, Places, queues, counts
    <2>2. CASE order # << >>
        <3>1. PICK t \in Threads \ {Main} : t = Head(order)
            BY <2>2
        <3>2. Tail(order) \in Seq(Threads \ {Main})
            BY <2>2
        <3>3. /\ pc' = [pc EXCEPT ![t] = "loop"]
              /\ m_bTerminated' = [m_bTerminated EXCEPT ![t] = FALSE]
              /\ order' = Tail(order)
            BY <1>1, <2>2, <3>1 DEF Start
        <3>4. /\ pc' \in [Threads -> Places] /\ pc'[Log] \in {"none", "loop", "done"}
              /\ m_bTerminated' \in [Threads -> BOOLEAN] /\ order' \in Seq(Threads \ {Main})
            BY <3>1, <3>2, <3>3, <1>0 DEF Places
        <3> QED
            BY <3>4, <1>1 DEF Start, queues, counts
    <2> QED
        BY <2>1, <2>2
<1>2. CASE SetCommand
    BY <1>2 DEF SetCommand, queues
<1>3. CASE ReadCommand
    <2>1. order' \in Seq(Threads \ {Main})
        BY <1>3, StopOrderIs DEF ReadCommand
    <2>2. pc' \in [Threads -> Places] /\ pc'[Log] \in {"none", "loop", "done"}
        BY <1>3, <1>0 DEF ReadCommand, Go, Places
    <2> QED
        BY <1>3, <2>1, <2>2 DEF ReadCommand, queues, counts
<1>4. CASE ClearCommand
    BY <1>4, <1>0 DEF ClearCommand, Go, Places, queues, counts
<1>5. CASE StopThreads
    <2>1. CASE Terminate
        BY <1>5, <2>1, <1>0 DEF StopThreads, Terminate, Go, Places, queues, counts
    <2>2. CASE Join
        <3>0. order # << >>
            BY <2>2 DEF Join, InOrder
        <3>1. order' \in Seq(Threads \ {Main})
            BY <2>2, <3>0, SeqSteps DEF Join
        <3>2. pc' \in [Threads -> Places] /\ pc'[Log] \in {"none", "loop", "done"}
            BY <2>2, <1>0 DEF Join, Go, Places
        <3> QED
            BY <1>5, <2>2, <3>1, <3>2 DEF StopThreads, Join, queues, counts
    <2> QED
        BY <1>5, <2>1, <2>2 DEF StopThreads
<1>6. CASE NetStep
    <2>1. pc' \in [Threads -> Places] /\ pc'[Log] \in {"none", "loop", "done"}
        BY <1>6, <1>0 DEF NetStep, NetLoop, MessagePump, Go, Places
    <2>2. m_stSendSSQueue' \in Seq(Nat) /\ m_stSendCSQueue' \in Seq(Nat)
        BY <1>6, <1>q DEF NetStep, NetLoop, MessagePump, Rest, queues
    <2>3. /\ m_stRecvSSQueue' \in Seq(PacketsOf("SS")) /\ m_stRecvCSQueue' \in Seq(PacketsOf("CS"))
          /\ received' \in Nat
        <3>1. Packet("SS") \in PacketsOf("SS") /\ Packet("CS") \in PacketsOf("CS")
            BY DEF Packet, PacketsOf
        <3>2. CASE UNCHANGED <<m_stRecvSSQueue, m_stRecvCSQueue, received>>
            BY <3>2
        <3>3. CASE MakeMessage("SS") /\ received' = received + 1
            BY <3>1, <3>3, <1>a, <1>n DEF MakeMessage
        <3>4. CASE MakeMessage("CS") /\ received' = received + 1
            BY <3>1, <3>4, <1>a, <1>n DEF MakeMessage
        <3> QED
            BY <1>6, <3>2, <3>3, <3>4 DEF NetStep, NetLoop, MessagePump, queues
    <2> QED
        BY <1>6, <2>1, <2>2, <2>3 DEF NetStep
<1>7. CASE LogExecute
    <2>1. pc' \in [Threads -> Places] /\ pc'[Log] \in {"none", "loop", "done"}
        BY <1>7, <1>0 DEF LogExecute, LogPass, Go, Places
    <2>2. bIdle' \in [Threads -> BOOLEAN]
        BY <1>7 DEF LogExecute, LogPass, Idle
    <2>3. looked' \in [Threads -> Nat]
        BY <1>7, NotYetIsNumber DEF LogExecute, LogPass
    <2>4. logRing' \in Seq(Nat)
        BY <1>7, <1>q DEF LogExecute, LogPass
    <2> QED
        BY <1>7, <2>1, <2>2, <2>3, <2>4 DEF LogExecute, LogPass, queues, counts
<1>8. ASSUME NEW t \in AppThreads, App(t) PROVE TypeOK'
    <2> USE DEF AppKeeps
    <2>0. t \in Threads /\ t # Main /\ t # Net /\ t # Log
        BY <1>0
    <2>1. CASE Execute(t)
        <3>1. pc' \in [Threads -> Places] /\ pc'[Log] \in {"none", "loop", "done"}
            BY <2>0, <2>1, <1>0 DEF Execute, Pass, Go, Places
        <3>2. bIdle' \in [Threads -> BOOLEAN]
            BY <2>1 DEF Execute, Pass, Idle
        <3>3. looked' \in [Threads -> Nat]
            BY <2>1, NotYetIsNumber DEF Execute, Pass
        <3>4. logRing' \in Seq(Nat) /\ logged' \in Nat /\ fired' \in Nat
            BY <2>1, <1>a, <1>n DEF Execute, Pass, WriteLog
        <3> QED
            BY <2>1, <3>1, <3>2, <3>3, <3>4 DEF Execute, Pass, queues
    <2>2. CASE PopSS(t)
        <3>1. pc' \in [Threads -> Places] /\ pc'[Log] \in {"none", "loop", "done"}
            BY <2>0, <2>2, <1>0 DEF PopSS, Go, Places
        <3>2. looked' \in [Threads -> Nat]
            BY <2>2 DEF PopSS
        <3>3. m_stRecvSSQueue' \in Seq(PacketsOf("SS")) /\ packet' \in [Threads -> Packets]
            BY <2>2, <1>q DEF PopSS, Packets
        <3> QED
            BY <2>2, <3>1, <3>2, <3>3 DEF PopSS
    <2>3. CASE PopCS(t)
        <3>1. pc' \in [Threads -> Places] /\ pc'[Log] \in {"none", "loop", "done"}
            BY <2>0, <2>3, <1>0 DEF PopCS, Go, Places
        <3>2. m_stRecvCSQueue' \in Seq(PacketsOf("CS")) /\ packet' \in [Threads -> Packets]
            BY <2>3, <1>q DEF PopCS, Packets
        <3> QED
            BY <2>3, <3>1, <3>2 DEF PopCS
    <2>4. CASE DecodeBody(t)
        <3>1. pc' \in [Threads -> Places] /\ pc'[Log] \in {"none", "loop", "done"}
            BY <2>0, <2>4, <1>0 DEF DecodeBody, Go, Places
        <3>2. body' \in [Threads -> Packets] /\ prototype' \in Packets
            BY <2>0, <2>4 DEF DecodeBody
        <3> QED
            BY <2>4, <3>1, <3>2 DEF DecodeBody, queues
    <2>5. CASE Handle(t)
        <3>1. pc' \in [Threads -> Places] /\ pc'[Log] \in {"none", "loop", "done"}
            BY <2>0, <2>5, <1>0 DEF Handle, Go, Places
        <3>2. bIdle' \in [Threads -> BOOLEAN]
            BY <2>5 DEF Handle, Idle
        <3>3. packet' \in [Threads -> Packets] /\ body' \in [Threads -> Packets]
            <4>1. None \in Packets
                BY DEF None, Packets, PacketsOf
            <4> QED
                BY <2>5, <4>1 DEF Handle
        <3>4. /\ m_stSendSSQueue' \in Seq(Nat) /\ m_stSendCSQueue' \in Seq(Nat) /\ posted' \in Nat
            BY <2>5, <1>a, <1>n DEF Handle, MayPost, PostToServer, PostToClient
        <3>5. logRing' \in Seq(Nat) /\ logged' \in Nat
            BY <2>5 DEF Handle, WriteLog
        <3> QED
            BY <2>5, <3>1, <3>2, <3>3, <3>4, <3>5 DEF Handle
    <2> QED
        BY <1>8, <2>1, <2>2, <2>3, <2>4, <2>5 DEF App
<1>9. CASE UNCHANGED vars
    BY <1>9 DEF vars, queues, counts
<1> QED
    BY <1>1, <1>2, <1>3, <1>4, <1>5, <1>6, <1>7, <1>8, <1>9 DEF Next, Exited

-----------------------------------------------------------------------------
(* Every handler is given its own message.                                 *)

LEMMA InitOwnBody == Init => OwnBody
<1> SUFFICES ASSUME Init PROVE OwnBody
    OBVIOUS
<1>1. \A t \in AppThreads : pc[t] = "none"
    BY ThreadsAre DEF Init
<1> QED
    BY <1>1 DEF Init, OwnBody, HandlerSeesOwnBody

LEMMA NextOwnBody == TypeOK /\ InOrder /\ OwnBody /\ [Next]_vars => OwnBody'
<1> SUFFICES ASSUME TypeOK, InOrder, OwnBody, [Next]_vars PROVE OwnBody'
    OBVIOUS
<1>0. /\ Main \in Threads /\ Net \in Threads /\ Log \in Threads
      /\ Main # Net /\ Main # Log /\ Net # Log
      /\ \A t \in AppThreads : t \in Threads /\ t # Main /\ t # Net /\ t # Log
    BY ThreadsAre DEF TypeOK
<1>k. m_nAppThreadCount' = m_nAppThreadCount => AppThreads' = AppThreads
    BY DEF AppThreads
<1>h. m_nAppThreadCount' = m_nAppThreadCount => \A p : HasOwnBody(p)' = HasOwnBody(p)
    BY DEF HasOwnBody
\* no handler is entered, and nothing it will read is touched
<1>u. ASSUME \A t \in AppThreads : pc'[t] = "handle" => pc[t] = "handle",
             UNCHANGED <<m_nAppThreadCount, handled, packet, body, prototype>>
      PROVE  OwnBody'
    BY <1>u DEF OwnBody, HandlerSeesOwnBody, AppThreads, HasOwnBody
<1>1. CASE Start
    <2>1. \A t \in AppThreads : pc'[t] = "handle" => pc[t] = "handle"
        BY <1>1, <1>0 DEF Start, Go, TypeOK
    <2> QED
        BY <1>1, <2>1, <1>u DEF Start
<1>2. CASE SetCommand
    BY <1>2, <1>u DEF SetCommand
<1>3. CASE ReadCommand
    <2>1. \A t \in AppThreads : pc'[t] = "handle" => pc[t] = "handle"
        BY <1>3, <1>0 DEF ReadCommand, Go, TypeOK
    <2> QED
        BY <1>3, <2>1, <1>u DEF ReadCommand
<1>4. CASE ClearCommand
    <2>1. \A t \in AppThreads : pc'[t] = "handle" => pc[t] = "handle"
        BY <1>4, <1>0 DEF ClearCommand, Go, TypeOK
    <2> QED
        BY <1>4, <2>1, <1>u DEF ClearCommand
<1>5. CASE StopThreads
    <2>1. \A t \in AppThreads : pc'[t] = "handle" => pc[t] = "handle"
        BY <1>5, <1>0 DEF StopThreads, Terminate, Join, Go, TypeOK
    <2> QED
        BY <1>5, <2>1, <1>u DEF StopThreads
<1>6. CASE NetStep
    <2>1. \A t \in AppThreads : pc'[t] = "handle" => pc[t] = "handle"
        BY <1>6, <1>0 DEF NetStep, NetLoop, MessagePump, Go, TypeOK
    <2> QED
        BY <1>6, <2>1, <1>u DEF NetStep
<1>7. CASE LogExecute
    <2>1. \A t \in AppThreads : pc'[t] = "handle" => pc[t] = "handle"
        BY <1>7, <1>0 DEF LogExecute, LogPass, Go, TypeOK
    <2> QED
        BY <1>7, <2>1, <1>u DEF LogExecute, LogPass
<1>8. ASSUME NEW t \in AppThreads, App(t) PROVE OwnBody'
    <2>0. t \in Threads /\ m_nAppThreadCount' = m_nAppThreadCount
        BY <1>8, <1>0 DEF App, Execute, Pass, PopSS, PopCS, DecodeBody, Handle, AppKeeps
    <2>m. \A s \in AppThreads : s # t => pc'[s] = pc[s]
        BY <1>8, <1>0 DEF App, Execute, Pass, PopSS, PopCS, DecodeBody, Handle, Go, TypeOK
    <2>o. m_nAppThreadCount = 1 => \A s \in AppThreads : s = t
        BY DEF AppThreads
    <2>1. CASE Execute(t)
        <3>1. pc'[t] # "handle"
            BY <2>0, <2>1 DEF Execute, Pass, Go, TypeOK
        <3> QED
            BY <2>1, <2>m, <3>1, <1>u, <2>0 DEF Execute, Pass
    \* the packet taken is for a pass that has not come to a handler
    <2>2. ASSUME PopSS(t) \/ PopCS(t) PROVE OwnBody'
        <3>1. pc'[t] # "handle"
            BY <2>0, <2>2 DEF PopSS, PopCS, Go, TypeOK
        <3>2. UNCHANGED <<handled, body, prototype>>
            BY <2>2 DEF PopSS, PopCS
        <3>3. \A s \in AppThreads : s # t => packet'[s] = packet[s]
            BY <2>2, <1>0 DEF PopSS, PopCS, TypeOK
        <3> QED
            BY <2>0, <2>m, <3>1, <3>2, <3>3, <1>k, <1>h DEF OwnBody, HandlerSeesOwnBody
    <2>4. CASE DecodeBody(t)
        <3>1. UNCHANGED <<handled, packet>>
            BY <2>4 DEF DecodeBody
        <3>2. HandlerSeesOwnBody'
            BY <2>0, <3>1 DEF OwnBody, HandlerSeesOwnBody
        <3>3. IF HasOwnBody(packet[t]) THEN body' = [body EXCEPT ![t] = packet[t]] /\ UNCHANGED prototype
              ELSE prototype' = packet[t] /\ UNCHANGED body
            BY <2>4 DEF DecodeBody
        <3>4. ASSUME NEW s \in AppThreads, pc'[s] = "handle"
              PROVE  IF HasOwnBody(packet[s]) THEN body'[s] = packet[s]
                     ELSE m_nAppThreadCount = 1 => prototype' = packet[s]
            <4>1. CASE s = t
                BY <3>3, <4>1, <2>0 DEF TypeOK
            <4>2. CASE s # t
                <5>1. body'[s] = body[s]
                    BY <3>3, <4>2, <1>0 DEF TypeOK
                <5>2. pc[s] = "handle" /\ m_nAppThreadCount # 1
                    BY <2>m, <2>o, <3>4, <4>2
                <5> QED
                    BY <5>1, <5>2 DEF OwnBody
            <4> QED
                BY <4>1, <4>2
        <3> QED
            BY <2>0, <3>1, <3>2, <3>4, <1>k, <1>h DEF OwnBody
    <2>5. CASE Handle(t)
        <3>1. PICK h : h = [no |-> packet[t].no, kind |-> packet[t].kind,
                            saw |-> IF HasOwnBody(packet[t]) THEN body[t].no ELSE prototype.no]
            OBVIOUS
        <3>2. handled' = handled \cup {h} /\ pc[t] = "handle"
            BY <2>5, <3>1 DEF Handle
        <3>3. h.kind = "SS" \/ m_nAppThreadCount = 1 => h.saw = h.no
            <4>1. CASE HasOwnBody(packet[t])
                BY <3>1, <3>2, <4>1 DEF OwnBody
            <4>2. CASE ~HasOwnBody(packet[t])
                <5>1. h.kind = "SS" => m_nAppThreadCount = 1
                    BY <3>1, <4>2 DEF HasOwnBody, TypeOK
                <5> QED
                    BY <3>1, <3>2, <4>2, <5>1 DEF OwnBody
            <4> QED
                BY <4>1, <4>2
        <3>4. HandlerSeesOwnBody'
            BY <2>0, <3>2, <3>3 DEF OwnBody, HandlerSeesOwnBody
        <3>5. pc'[t] # "handle" /\ UNCHANGED prototype
            BY <2>0, <2>5 DEF Handle, Go, TypeOK
        <3>6. \A s \in AppThreads : s # t => packet'[s] = packet[s] /\ body'[s] = body[s]
            BY <2>5, <1>0 DEF Handle, TypeOK
        <3> QED
            BY <2>0, <2>m, <3>4, <3>5, <3>6, <1>k, <1>h DEF OwnBody
    <2> QED
        BY <1>8, <2>1, <2>2, <2>4, <2>5 DEF App
<1>9. CASE UNCHANGED vars
    BY <1>9, <1>u DEF vars
<1> QED
    BY <1>1, <1>2, <1>3, <1>4, <1>5, <1>6, <1>7, <1>8, <1>9 DEF Next, Exited

-----------------------------------------------------------------------------
(* The threads are started once, and stopped one after the other.          *)

LEMMA InitInOrder == Init => InOrder
<1> SUFFICES ASSUME Init PROVE InOrder
    OBVIOUS
<1>1. order \in Seq(Threads \ {Main})
    BY StartOrderIs DEF Init
<1>2. \A i, j \in 1 .. Len(order) : order[i] = order[j] => i = j
    BY StartOrderIs DEF Init
<1>3. \A t \in Threads : pc[t] = (IF t = Main THEN "start" ELSE "none") /\ ~m_bTerminated[t]
    BY DEF Init
<1>4. \A j \in 1 .. Len(order) : pc[order[j]] = "none"
    BY <1>1, <1>3
<1>5. pc[Main] = "start" /\ \A t \in AppThreads \cup {Log} : ~m_bTerminated[t]
    BY <1>3, ThreadsAre DEF Init
<1> QED
    BY <1>2, <1>3, <1>4, <1>5 DEF InOrder

\* The threads in the order of their stopping: the application thread t after
\* t others, and the log thread last.
LEMMA StoppedAsIs ==
    ASSUME m_nAppThreadCount \in 1 .. MaxAppThreads
    PROVE  /\ StoppedAs(1) = Net /\ StoppedAs(m_nAppThreadCount + 2) = Log
           /\ \A t \in AppThreads : StoppedAs(t + 1) = t
           /\ \A k \in 1 .. m_nAppThreadCount + 2 :
                /\ StoppedAs(k) \in Threads \ {Main}
                /\ StoppedAs(k) \in AppThreads => k = StoppedAs(k) + 1
                /\ StoppedAs(k) = Log => k = m_nAppThreadCount + 2
<1>1. PICK n \in 1 .. MaxAppThreads : n = m_nAppThreadCount
    OBVIOUS
<1>2. PICK max \in Nat : max = MaxAppThreads
    BY FrameAssumption
<1> QED
    BY <1>1, <1>2 DEF StoppedAs, AppThreads, Threads, Main, Net, Log

\* A step of another thread than the main one leaves the order of starting and
\* stopping alone: no thread comes back from its end, and one ends only when it
\* has been told to.
LEMMA OthersInOrder ==
    ASSUME TypeOK, InOrder, NEW t \in Threads \ {Main},
           UNCHANGED <<m_nAppThreadCount, order, m_bTerminated>>,
           pc' \in [Threads -> Places], \A s \in Threads \ {t} : pc'[s] = pc[s],
           pc[t] \notin {"none", "done"} \/ pc' = pc,
           pc'[t] = "done" => m_bTerminated[t] \/ pc[t] = "done"
    PROVE  InOrder'
<1>0. /\ Main \in Threads /\ Net \in Threads /\ Log \in Threads /\ AppThreads \subseteq Threads
      /\ Main # Net /\ Main # Log /\ \A s \in AppThreads : s # Main
    BY ThreadsAre DEF TypeOK
<1>1. \A s \in Threads : /\ pc[s] = "done" => pc'[s] = "done"
                         /\ pc[s] = "none" => pc'[s] = "none"
    OBVIOUS
<1>2. pc'[Main] = pc[Main]
    BY <1>0
<1>3. \A j \in 1 .. Len(order) : order[j] \in Threads
    BY DEF TypeOK
<1>4. AppThreads' = AppThreads /\ Stopped' = Stopped /\ \A k : StoppedAs(k)' = StoppedAs(k)
    BY DEF AppThreads, Stopped, StoppedAs
<1>5. pc[Main] = "start" => \A j \in 1 .. Len(order) : pc'[order[j]] = "none"
    BY <1>1, <1>3 DEF InOrder
<1>6. pc[Main] \in {"stop", "join"} => \A k \in 1 .. Stopped : pc'[StoppedAs(k)] = "done"
    <2>1. ASSUME pc[Main] \in {"stop", "join"}, NEW k \in 1 .. Stopped
          PROVE  pc[StoppedAs(k)] = "done" /\ StoppedAs(k) \in Threads
        <3>1. k \in 1 .. m_nAppThreadCount + 2
            BY <2>1 DEF Stopped, TypeOK
        <3> QED
            BY <2>1, <3>1, StoppedAsIs DEF InOrder, TypeOK
    <2> QED
        BY <2>1, <1>1
<1>7. \A s \in Threads \ {Main} : pc'[s] = "done" => m_bTerminated[s]
    BY DEF InOrder
<1> QED
    BY <1>0, <1>1, <1>2, <1>4, <1>5, <1>6, <1>7 DEF InOrder

LEMMA NextInOrder == TypeOK /\ InOrder /\ [Next]_vars => InOrder'
<1> SUFFICES ASSUME TypeOK, InOrder, [Next]_vars PROVE InOrder'
    OBVIOUS
<1>0. /\ Main \in Threads /\ Net \in Threads /\ Log \in Threads
      /\ Main # Net /\ Main # Log /\ Net # Log
      /\ \A t \in AppThreads : t \in Threads /\ t # Main /\ t # Net /\ t # Log
    BY ThreadsAre DEF TypeOK
<1>t. TypeOK'
    BY NextType
<1>k. m_nAppThreadCount' = m_nAppThreadCount =>
        AppThreads' = AppThreads /\ \A k : StoppedAs(k)' = StoppedAs(k)
    BY DEF AppThreads, StoppedAs
<1>1. CASE Start
    <2>0. m_nAppThreadCount' = m_nAppThreadCount /\ pc[Main] = "start"
        BY <1>1 DEF Start
    <2>1. CASE order = << >>
        BY <1>0, <1>1, <1>k, <2>0, <2>1 DEF Start, Go, InOrder, TypeOK
    <2>2. CASE order # << >>
        <3>1. PICK x \in Threads \ {Main} : x = Head(order) /\ x = order[1]
            BY <2>2 DEF TypeOK
        <3>2. PICK o \in Seq(Threads \ {Main}) : o = order
            BY DEF TypeOK
        <3>3. /\ pc' = [pc EXCEPT ![x] = "loop"]
              /\ m_bTerminated' = [m_bTerminated EXCEPT ![x] = FALSE]
              /\ order' = Tail(o)
            BY <1>1, <2>2, <3>1, <3>2 DEF Start
        <3>4. pc[x] = "none"
            BY <2>0, <2>2, <3>1, <3>2 DEF InOrder
        <3>5. /\ pc'[Main] = "start" /\ pc'[x] = "loop"
              /\ \A s \in Threads : s # x => pc'[s] = pc[s]
              /\ \A s \in Threads : ~m_bTerminated'[s]
            BY <1>0, <2>0, <3>1, <3>3 DEF TypeOK, InOrder
        <3>6. /\ Len(order') = Len(o) - 1
              /\ \A j \in 1 .. Len(order') : j + 1 \in 1 .. Len(o) /\ order'[j] = o[j + 1]
            BY <2>2, <3>2, <3>3
        <3>7. \A j \in 1 .. Len(order') : pc'[order'[j]] = "none"
            <4>1. ASSUME NEW j \in 1 .. Len(order') PROVE pc'[order'[j]] = "none"
                <5>1. j + 1 \in 1 .. Len(o) /\ order'[j] = o[j + 1] /\ j + 1 # 1 /\ 1 \in 1 .. Len(o)
                    BY <3>2, <3>6, <4>1
                <5>2. o[j + 1] # o[1] /\ pc[o[j + 1]] = "none"
                    BY <2>0, <3>2, <5>1 DEF InOrder
                <5>3. o[j + 1] \in Threads
                    BY <3>2, <5>1
                <5> QED
                    BY <3>1, <3>2, <3>5, <5>1, <5>2, <5>3
            <4> QED
                BY <4>1
        <3>8. \A i, j \in 1 .. Len(order') : order'[i] = order'[j] => i = j
            <4>1. ASSUME NEW i \in 1 .. Len(order'), NEW j \in 1 .. Len(order'), order'[i] = order'[j]
                  PROVE  i = j
                <5>1. /\ i + 1 \in 1 .. Len(o) /\ j + 1 \in 1 .. Len(o) /\ i \in Int /\ j \in Int
                      /\ o[i + 1] = o[j + 1]
                    BY <3>6, <4>1
                <5>2. i + 1 = j + 1
                    BY <2>0, <3>2, <5>1 DEF InOrder
                <5> QED
                    BY <5>1, <5>2
            <4> QED
                BY <4>1
        <3>9. \A s \in Threads \ {Main} : pc'[s] # "done"
            BY <2>0, <3>5 DEF InOrder
        <3>10. \A s \in AppThreads : ~m_bTerminated'[s]
            BY <1>0, <3>5
        <3> QED
            BY <1>0, <1>k, <2>0, <3>5, <3>7, <3>8, <3>9, <3>10 DEF InOrder
    <2> QED
        BY <2>1, <2>2
<1>2. CASE SetCommand
    BY <1>2, <1>k DEF SetCommand, InOrder, Stopped
<1>3. CASE ReadCommand
    <2>0. /\ m_nAppThreadCount' = m_nAppThreadCount /\ pc[Main] = "run"
          /\ m_bTerminated' = m_bTerminated /\ \A s \in Threads \ {Main} : pc'[s] = pc[s]
        BY <1>3, <1>0 DEF ReadCommand, Go, TypeOK
    <2>1. /\ \A s \in Threads : ~m_bTerminated[s]
          /\ \A s \in Threads \ {Main} : pc'[s] # "done"
        BY <2>0 DEF InOrder
    <2>2. CASE pc'[Main] = "reload"
        BY <1>0, <1>k, <2>0, <2>1, <2>2 DEF InOrder
    <2>3. CASE pc'[Main] = "stop" /\ order' = StopOrder
        <3>1. /\ Len(order') = m_nAppThreadCount + 2
              /\ \A k \in 1 .. m_nAppThreadCount + 2 : order'[k] = StoppedAs(k)
            BY <2>3, StopOrderIs DEF TypeOK
        <3>2. Stopped' = 0
            BY <2>0, <3>1 DEF Stopped, TypeOK
        <3>3. \A j \in 1 .. Len(order') : order'[j] = StoppedAs(0 + j)
            BY <3>1 DEF TypeOK
        <3>4. Len(order') <= m_nAppThreadCount + 2 /\ 1 .. Stopped' = {}
            BY <3>1, <3>2 DEF TypeOK
        <3> QED
            BY <1>0, <1>k, <2>0, <2>1, <2>3, <3>2, <3>3, <3>4 DEF InOrder
    <2> QED
        BY <1>3, <1>0, <2>2, <2>3 DEF ReadCommand, Go, TypeOK
<1>4. CASE ClearCommand
    <2>1. /\ pc[Main] = "reload" /\ pc'[Main] = "run" /\ m_bTerminated' = m_bTerminated
          /\ \A s \in Threads \ {Main} : pc'[s] = pc[s]
          /\ m_nAppThreadCount' = m_nAppThreadCount
        BY <1>4, <1>0 DEF ClearCommand, Go, TypeOK
    <2> QED
        BY <1>0, <1>k, <2>1 DEF InOrder
<1>6. CASE NetStep
    <2>1. \A s \in Threads \ {Net} : pc'[s] = pc[s]
        BY <1>6, <1>0 DEF NetStep, NetLoop, MessagePump, Go, TypeOK
    <2>2. pc[Net] \notin {"none", "done"}
        BY <1>6 DEF NetStep, NetLoop, MessagePump
    <2>3. pc'[Net] = "done" => m_bTerminated[Net]
        BY <1>6, <1>0 DEF NetStep, NetLoop, MessagePump, Go, TypeOK
    <2>4. UNCHANGED <<m_nAppThreadCount, order, m_bTerminated>>
        BY <1>6 DEF NetStep
    <2>5. Net \in Threads \ {Main} /\ pc' \in [Threads -> Places]
        BY <1>0, <1>t DEF TypeOK
    <2> QED
        BY <2>1, <2>2, <2>3, <2>4, <2>5, OthersInOrder
<1>7. CASE LogExecute
    <2>1. \A s \in Threads \ {Log} : pc'[s] = pc[s]
        BY <1>7, <1>0 DEF LogExecute, LogPass, Go, TypeOK
    <2>2. pc[Log] \notin {"none", "done"}
        BY <1>7 DEF LogExecute, LogPass
    <2>3. pc'[Log] = "done" => m_bTerminated[Log]
        BY <1>7, <1>0 DEF LogExecute, LogPass, Go, TypeOK
    <2>4. UNCHANGED <<m_nAppThreadCount, order, m_bTerminated>>
        BY <1>7 DEF LogExecute, LogPass
    <2>5. Log \in Threads \ {Main} /\ pc' \in [Threads -> Places]
        BY <1>0, <1>t DEF TypeOK
    <2> QED
        BY <2>1, <2>2, <2>3, <2>4, <2>5, OthersInOrder
<1>8. ASSUME NEW t \in AppThreads, App(t) PROVE InOrder'
    <2>1. \A s \in Threads \ {t} : pc'[s] = pc[s]
        BY <1>8, <1>0 DEF App, Execute, Pass, PopSS, PopCS, DecodeBody, Handle, Go, TypeOK
    <2>2. pc[t] \notin {"none", "done"}
        BY <1>8 DEF App, Execute, Pass, PopSS, PopCS, DecodeBody, Handle
    <2>3. pc'[t] = "done" => m_bTerminated[t]
        BY <1>8, <1>0 DEF App, Execute, Pass, PopSS, PopCS, DecodeBody, Handle, Go, TypeOK
    <2>4. UNCHANGED <<m_nAppThreadCount, order, m_bTerminated>>
        BY <1>8 DEF App, Execute, Pass, PopSS, PopCS, DecodeBody, Handle, AppKeeps
    <2>5. t \in Threads \ {Main} /\ pc' \in [Threads -> Places]
        BY <1>0, <1>t DEF TypeOK
    <2> QED
        BY <2>1, <2>2, <2>3, <2>4, <2>5, OthersInOrder
<1>9. CASE UNCHANGED vars
    BY <1>9, <1>k DEF vars, InOrder, Stopped
<1>5. CASE StopThreads
    <2>n. PICK n \in Nat : n = m_nAppThreadCount
        BY DEF TypeOK
    <2>o. PICK o \in Seq(Threads \ {Main}) : o = order
        BY DEF TypeOK
    <2>c. m_nAppThreadCount' = m_nAppThreadCount
        BY <1>5 DEF StopThreads
    <2>l. o # << >> /\ pc[Main] \in {"stop", "join"}
        BY <1>5, <2>o DEF StopThreads, Terminate, Join, InOrder
    <2>p. PICK x \in Threads \ {Main}, m \in Nat : x = Head(o) /\ x = o[1] /\ m = Len(o) /\ m # 0
        BY <2>l, <2>o
    <2>m. m <= n + 2
        BY <2>n, <2>o, <2>l, <2>p DEF InOrder
    <2>k. PICK k \in Nat : k = n + 2 - m
        BY <2>m
    <2>s. k = n + 2 - m /\ k = Stopped /\ k + 1 \in 1 .. n + 2
        BY <2>n, <2>o, <2>p, <2>m, <2>k DEF Stopped
    <2>x. x = StoppedAs(k + 1)
        BY <2>o, <2>l, <2>p, <2>s DEF InOrder
    <2>d. \A j \in 1 .. k : pc[StoppedAs(j)] = "done"
        BY <2>l, <2>s DEF InOrder
    <2>j. \A j \in 1 .. m : o[j] = StoppedAs(k + j)
        BY <2>o, <2>l, <2>p, <2>s DEF InOrder
    <2>y. \A j \in 1 .. n + 2 : StoppedAs(j) \in Threads \ {Main}
        BY <2>n, StoppedAsIs DEF TypeOK
    <2>1. CASE Terminate
        <3>1. /\ m_bTerminated' = [m_bTerminated EXCEPT ![x] = TRUE]
              /\ order' = order /\ pc'[Main] = "join"
              /\ \A s \in Threads \ {Main} : pc'[s] = pc[s]
            BY <2>1, <2>o, <2>p, <1>0 DEF Terminate, Go, TypeOK
        <3>2. Stopped' = k /\ Len(order') <= m_nAppThreadCount + 2
            BY <2>c, <2>s, <2>n, <2>o, <2>p, <3>1 DEF Stopped
        <3>3. \A j \in 1 .. Len(order') : order'[j] = StoppedAs(k + j)
            BY <2>j, <2>o, <2>p, <3>1
        <3>4. \A j \in 1 .. k : pc'[StoppedAs(j)] = "done"
            <4>1. \A j \in 1 .. k : StoppedAs(j) \in Threads \ {Main}
                BY <2>y, <2>s, <2>n, <2>p
            <4> QED
                BY <4>1, <2>d, <3>1
        <3>5. \A s \in Threads \ {Main} : pc'[s] = "done" => m_bTerminated'[s]
            BY <3>1 DEF InOrder, TypeOK
        <3>6. ASSUME NEW s \in AppThreads, m_bTerminated'[s] PROVE pc'[Net] = "done"
            <4>1. CASE s # x
                BY <3>1, <3>6, <4>1, <1>0 DEF InOrder, TypeOK
            <4>2. CASE s = x
                <5>1. k + 1 = x + 1 /\ x \in Nat \ {0}
                    <6>1. StoppedAs(k + 1) \in AppThreads
                        BY <2>x, <3>6, <4>2
                    <6>2. x \in 1 .. n
                        BY <2>n, <3>6, <4>2 DEF AppThreads
                    <6> QED
                        BY <2>x, <2>s, <2>n, <6>1, <6>2, StoppedAsIs DEF TypeOK
                <5>2. 1 \in 1 .. k
                    BY <5>1
                <5> QED
                    BY <5>2, <3>4, StoppedAsIs DEF TypeOK
            <4> QED
                BY <4>1, <4>2
        <3>7. ASSUME m_bTerminated'[Log], NEW s \in AppThreads PROVE pc'[s] = "done"
            <4>1. CASE x # Log
                BY <3>1, <3>7, <4>1, <1>0 DEF InOrder, TypeOK
            <4>2. CASE x = Log
                <5>1. k + 1 = n + 2
                    BY <2>x, <2>s, <2>n, <4>2, StoppedAsIs DEF TypeOK
                <5>2. s + 1 \in 1 .. k
                    BY <5>1, <2>n, <3>7 DEF AppThreads
                <5> QED
                    BY <5>2, <3>4, StoppedAsIs, <3>7 DEF TypeOK
            <4> QED
                BY <4>1, <4>2
        <3>8. order' # << >>
            BY <3>1, <2>l, <2>o
        <3> QED
            BY <1>k, <2>c, <3>1, <3>2, <3>3, <3>4, <3>5, <3>6, <3>7, <3>8 DEF InOrder
    <2>2. CASE Join
        <3>1. /\ m_bTerminated' = m_bTerminated /\ order' = Tail(o) /\ pc[x] = "done"
              /\ pc'[Main] \in {"stop", "done"}
              /\ \A s \in Threads \ {Main} : pc'[s] = pc[s]
            BY <2>2, <2>o, <2>p, <1>0 DEF Join, Go, TypeOK
        <3>2. /\ Len(order') = m - 1
              /\ \A j \in 1 .. Len(order') : j + 1 \in 1 .. m /\ order'[j] = o[j + 1]
            BY <3>1, <2>o, <2>l, <2>p
        <3>3. Stopped' = k + 1 /\ Len(order') <= m_nAppThreadCount + 2
            BY <2>c, <2>s, <2>n, <2>p, <3>2 DEF Stopped
        <3>4. \A j \in 1 .. Len(order') : order'[j] = StoppedAs((k + 1) + j)
            <4>1. ASSUME NEW j \in 1 .. Len(order') PROVE order'[j] = StoppedAs((k + 1) + j)
                <5>1. j \in Nat /\ j + 1 \in 1 .. m /\ order'[j] = o[j + 1]
                    BY <3>2, <2>p
                <5>2. k + (j + 1) = (k + 1) + j
                    BY <5>1, <2>s
                <5> QED
                    BY <2>j, <5>1, <5>2
            <4> QED
                BY <4>1
        <3>5. \A j \in 1 .. k + 1 : pc'[StoppedAs(j)] = "done"
            <4>1. ASSUME NEW j \in 1 .. k + 1 PROVE pc'[StoppedAs(j)] = "done"
                <5>1. StoppedAs(j) \in Threads \ {Main}
                    BY <2>y, <2>s, <2>n
                <5>2. j \in 1 .. k \/ j = k + 1
                    BY <2>s
                <5> QED
                    BY <5>1, <5>2, <2>d, <2>x, <3>1
            <4> QED
                BY <4>1
        <3> QED
            BY <1>0, <1>k, <2>c, <3>1, <3>3, <3>4, <3>5 DEF InOrder
    <2> QED
        BY <1>5, <2>1, <2>2 DEF StopThreads
<1> QED
    BY <1>1, <1>2, <1>3, <1>4, <1>5, <1>6, <1>7, <1>8, <1>9 DEF Next, Exited

-----------------------------------------------------------------------------
(* The queues are drained when the threads end.                            *)

LEMMA SeqElements ==
    ASSUME NEW S, NEW q \in Seq(S), NEW x \in S
    PROVE  /\ \A i \in 1 .. Len(q) : q[i] \in S
           /\ \A i \in 1 .. Len(Append(q, x)) :
                (i \in 1 .. Len(q) /\ Append(q, x)[i] = q[i]) \/ Append(q, x)[i] = x
           /\ q # << >> => \A i \in 1 .. Len(Tail(q)) : i + 1 \in 1 .. Len(q) /\ Tail(q)[i] = q[i + 1]
    OBVIOUS

LEMMA InitDrained == Init => Drained
<1> SUFFICES ASSUME Init PROVE Drained
    OBVIOUS
<1>1. \A t \in Threads : looked[t] = 0
    BY DEF Init
<1>2. Log \in Threads /\ AppThreads \subseteq Threads
    BY ThreadsAre DEF Init
<1> QED
    BY <1>1, <1>2 DEF Init, Drained

\* A step that handles no message and looks at no queue keeps what was seen.
LEMMA KeepsDrained ==
    ASSUME TypeOK, Drained,
           m_nAppThreadCount' = m_nAppThreadCount, bIdle' = bIdle, packet' = packet,
           m_stRecvSSQueue' = m_stRecvSSQueue, received' = received,
           logRing' = logRing, logged' = logged, looked' = looked,
           \A t \in AppThreads : pc'[t] = pc[t] \/ (pc[t] = "none" /\ pc'[t] = "loop"),
           pc'[Log] = pc[Log] \/ (pc[Log] = "none" /\ pc'[Log] = "loop")
    PROVE  Drained'
<1>1. AppThreads' = AppThreads
    BY DEF AppThreads
<1>2. \A t \in AppThreads : SawNone(t)' => SawNone(t)
    BY DEF SawNone
<1> QED
    BY <1>1, <1>2 DEF Drained

LEMMA NextDrained == TypeOK /\ InOrder /\ Drained /\ [Next]_vars => Drained'
<1> SUFFICES ASSUME TypeOK, InOrder, Drained, [Next]_vars PROVE Drained'
    OBVIOUS
<1>0. /\ Main \in Threads /\ Net \in Threads /\ Log \in Threads
      /\ Main # Net /\ Main # Log /\ Net # Log
      /\ \A t \in AppThreads : t \in Threads /\ t # Main /\ t # Net /\ t # Log
    BY ThreadsAre DEF TypeOK
<1>1. CASE Start
    <2>0. UNCHANGED <<m_nAppThreadCount, bIdle, packet, m_stRecvSSQueue, received, logRing, logged, looked>>
        BY <1>1 DEF Start, queues, counts
    <2>1. CASE order = << >>
        <3>1. \A t \in Threads \ {Main} : pc'[t] = pc[t]
            BY <1>0, <1>1, <2>1 DEF Start, Go, TypeOK
        <3> QED
            BY <1>0, <2>0, <3>1, KeepsDrained
    <2>2. CASE order # << >>
        <3>1. PICK x \in Threads \ {Main} : x = Head(order) /\ x = order[1]
            BY <2>2 DEF TypeOK
        <3>2. pc[x] = "none" /\ pc' = [pc EXCEPT ![x] = "loop"]
            <4>1. 1 \in 1 .. Len(order)
                BY <2>2 DEF TypeOK
            <4> QED
                BY <1>1, <2>2, <3>1, <4>1 DEF Start, InOrder
        <3>3. \A t \in Threads \ {Main} : pc'[t] = pc[t] \/ (pc[t] = "none" /\ pc'[t] = "loop")
            BY <3>2 DEF TypeOK
        <3> QED
            BY <1>0, <2>0, <3>3, KeepsDrained
    <2> QED
        BY <2>1, <2>2
<1>2. CASE SetCommand
    <2>1. \A t \in Threads \ {Main} : pc'[t] = pc[t]
        BY <1>0, <1>2 DEF SetCommand, TypeOK
    <2>2. UNCHANGED <<m_nAppThreadCount, bIdle, packet, m_stRecvSSQueue, received, logRing, logged, looked>>
        BY <1>2 DEF SetCommand, queues, counts
    <2> QED
        BY <1>0, <2>1, <2>2, KeepsDrained
<1>3. CASE ReadCommand
    <2>1. \A t \in Threads \ {Main} : pc'[t] = pc[t]
        BY <1>0, <1>3 DEF ReadCommand, Go, TypeOK
    <2>2. UNCHANGED <<m_nAppThreadCount, bIdle, packet, m_stRecvSSQueue, received, logRing, logged, looked>>
        BY <1>3 DEF ReadCommand, queues, counts
    <2> QED
        BY <1>0, <2>1, <2>2, KeepsDrained
<1>4. CASE ClearCommand
    <2>1. \A t \in Threads \ {Main} : pc'[t] = pc[t]
        BY <1>0, <1>4 DEF ClearCommand, Go, TypeOK
    <2>2. UNCHANGED <<m_nAppThreadCount, bIdle, packet, m_stRecvSSQueue, received, logRing, logged, looked>>
        BY <1>4 DEF ClearCommand, queues, counts
    <2> QED
        BY <1>0, <2>1, <2>2, KeepsDrained
<1>5. CASE StopThreads
    <2>1. \A t \in Threads \ {Main} : pc'[t] = pc[t]
        BY <1>0, <1>5 DEF StopThreads, Terminate, Join, Go, TypeOK
    <2>2. UNCHANGED <<m_nAppThreadCount, bIdle, packet, m_stRecvSSQueue, received, logRing, logged, looked>>
        BY <1>5 DEF StopThreads, queues, counts
    <2> QED
        BY <1>0, <2>1, <2>2, KeepsDrained
\* a packet received is numbered after all that there were
<1>6. CASE NetStep
    <2>1. \A t \in Threads \ {Net} : pc'[t] = pc[t]
        BY <1>6, <1>0 DEF NetStep, NetLoop, MessagePump, Go, TypeOK
    <2>2. UNCHANGED <<m_nAppThreadCount, bIdle, packet, logRing, logged, looked>>
        BY <1>6 DEF NetStep
    <2>3. CASE UNCHANGED <<m_stRecvSSQueue, received>>
        BY <1>0, <2>1, <2>2, <2>3, KeepsDrained
    <2>4. CASE /\ received' = received + 1
               /\ m_stRecvSSQueue' = m_stRecvSSQueue \/ m_stRecvSSQueue' = Append(m_stRecvSSQueue, Packet("SS"))
        <3>0. Packet("SS") \in PacketsOf("SS") /\ Packet("SS").no = received + 1
            BY DEF Packet, PacketsOf, TypeOK
        <3>1. PICK p \in PacketsOf("SS") : p = Packet("SS") /\ p.no = received + 1
            BY <3>0
        <3>2. \A i \in 1 .. Len(m_stRecvSSQueue') :
                \/ i \in 1 .. Len(m_stRecvSSQueue) /\ m_stRecvSSQueue'[i] = m_stRecvSSQueue[i]
                \/ m_stRecvSSQueue'[i] = p
            <4>1. PICK q \in Seq(PacketsOf("SS")) : q = m_stRecvSSQueue
                BY DEF TypeOK
            <4>2. \A i \in 1 .. Len(Append(q, p)) :
                    (i \in 1 .. Len(q) /\ Append(q, p)[i] = q[i]) \/ Append(q, p)[i] = p
                BY SeqElements
            <4> QED
                BY <2>4, <3>1, <4>1, <4>2
        <3>3. AppThreads' = AppThreads /\ \A t \in AppThreads : SawNone(t)' => SawNone(t)
            BY <1>0, <2>1, <2>2 DEF AppThreads, SawNone
        <3>4. ASSUME NEW t \in AppThreads, SawNone(t)'
              PROVE  /\ looked[t] <= received'
                     /\ \A i \in 1 .. Len(m_stRecvSSQueue') : m_stRecvSSQueue'[i].no > looked[t]
            <4>1. /\ looked[t] <= received /\ looked[t] \in Nat /\ received \in Nat
                  /\ \A i \in 1 .. Len(m_stRecvSSQueue) : m_stRecvSSQueue[i].no > looked[t]
                BY <1>0, <3>3, <3>4 DEF Drained, TypeOK
            <4>2. looked[t] <= received + 1 /\ p.no > looked[t]
                BY <4>1, <3>1
            <4> QED
                BY <2>4, <3>2, <4>1, <4>2
        <3> QED
            BY <1>0, <2>1, <2>2, <3>3, <3>4 DEF Drained
    <2> QED
        BY <1>6, <2>3, <2>4 DEF NetStep, NetLoop, MessagePump, MakeMessage, queues
<1>7. CASE LogExecute
    <2>1. UNCHANGED <<m_nAppThreadCount, packet, m_stRecvSSQueue, received, logged>>
        BY <1>7 DEF LogExecute, LogPass, queues, counts
    <2>2. AppThreads' = AppThreads /\ \A t \in AppThreads : SawNone(t)' <=> SawNone(t)
        BY <1>0, <1>7, <2>1 DEF LogExecute, LogPass, Go, Idle, AppThreads, SawNone, TypeOK
    <2>3. \A t \in AppThreads : looked'[t] = looked[t]
        BY <1>0, <1>7 DEF LogExecute, LogPass, TypeOK
    <2>4. pc'[Log] # "loop" \/ bIdle'[Log] =>
              looked'[Log] <= logged /\ \A i \in 1 .. Len(logRing') : logRing'[i] > looked'[Log]
        <3>1. CASE m_bTerminated[Log] /\ bIdle[Log] /\ UNCHANGED <<bIdle, logRing, looked>>
            BY <3>1 DEF Drained
        <3>2. CASE logRing = << >> /\ looked' = [looked EXCEPT ![Log] = logged] /\ UNCHANGED logRing
            <4>1. looked'[Log] = logged /\ logged \in Nat
                BY <1>0, <3>2 DEF TypeOK
            <4>2. Len(logRing') = 0
                BY <3>2
            <4> QED
                BY <4>1, <4>2
        <3>3. CASE Idle(Log, FALSE) /\ UNCHANGED pc
            BY <1>0, <1>7, <3>3 DEF LogExecute, LogPass, Idle, TypeOK
        <3> QED
            BY <1>7, <3>1, <3>2, <3>3 DEF LogExecute, LogPass
    <2> QED
        BY <2>1, <2>2, <2>3, <2>4 DEF Drained
\* a record logged is numbered after all that there were
<1>w. ASSUME WriteLog \/ UNCHANGED <<logRing, logged>>,
             pc'[Log] = pc[Log], bIdle'[Log] = bIdle[Log], looked'[Log] = looked[Log]
      PROVE  pc'[Log] # "loop" \/ bIdle'[Log] =>
                /\ looked'[Log] <= logged'
                /\ \A i \in 1 .. Len(logRing') : logRing'[i] > looked'[Log]
    <2>1. CASE UNCHANGED <<logRing, logged>>
        BY <1>w, <2>1 DEF Drained
    <2>2. CASE WriteLog
        <3>1. PICK r \in Nat : r = logged + 1
            BY DEF TypeOK
        <3>2. logRing' = Append(logRing, r) /\ logged' = r
            BY <2>2, <3>1 DEF WriteLog
        <3>3. \A i \in 1 .. Len(logRing') :
                (i \in 1 .. Len(logRing) /\ logRing'[i] = logRing[i]) \/ logRing'[i] = r
            BY <3>2, SeqElements DEF TypeOK
        <3>4. ASSUME pc[Log] # "loop" \/ bIdle[Log]
              PROVE  looked[Log] <= r /\ \A i \in 1 .. Len(logRing') : logRing'[i] > looked[Log]
            <4>1. /\ looked[Log] <= logged /\ looked[Log] \in Nat /\ logged \in Nat
                  /\ \A i \in 1 .. Len(logRing) : logRing[i] > looked[Log]
                BY <1>0, <3>4 DEF Drained, TypeOK
            <4>2. looked[Log] <= r /\ r > looked[Log]
                BY <4>1, <3>1
            <4> QED
                BY <3>3, <4>1, <4>2
        <3> QED
            BY <1>w, <3>2, <3>4
    <2> QED
        BY <1>w, <2>1, <2>2
<1>8. ASSUME NEW t \in AppThreads, App(t) PROVE Drained'
    <2>0. t \in Threads /\ t # Log /\ UNCHANGED <<m_nAppThreadCount, received>> /\ AppThreads' = AppThreads
        BY <1>8, <1>0 DEF App, Execute, Pass, PopSS, PopCS, DecodeBody, Handle, AppKeeps, AppThreads
    <2>o. \A s \in Threads \ {t} : pc'[s] = pc[s] /\ bIdle'[s] = bIdle[s] /\ packet'[s] = packet[s]
                                    /\ looked'[s] = looked[s]
        BY <1>8, <1>0 DEF App, Execute, Pass, PopSS, PopCS, DecodeBody, Handle, Go, Idle, TypeOK
    <2>l. pc'[Log] # "loop" \/ bIdle'[Log] =>
                /\ looked'[Log] <= logged'
                /\ \A i \in 1 .. Len(logRing') : logRing'[i] > looked'[Log]
        <3>1. WriteLog \/ UNCHANGED <<logRing, logged>>
            BY <1>8 DEF App, Execute, Pass, PopSS, PopCS, DecodeBody, Handle
        <3> QED
            BY <1>0, <2>0, <2>o, <3>1, <1>w
    \* what waits was waiting before
    <2>q. PICK shift \in {0, 1} : \A i \in 1 .. Len(m_stRecvSSQueue') :
                i + shift \in 1 .. Len(m_stRecvSSQueue) /\ m_stRecvSSQueue'[i] = m_stRecvSSQueue[i + shift]
        <3>1. CASE m_stRecvSSQueue' = m_stRecvSSQueue
            <4>1. \A i \in 1 .. Len(m_stRecvSSQueue) : i + 0 = i
                BY DEF TypeOK
            <4> QED
                BY <3>1, <4>1
        <3>2. CASE m_stRecvSSQueue # << >> /\ m_stRecvSSQueue' = Tail(m_stRecvSSQueue)
            <4>1. [no |-> 0, kind |-> "SS"] \in PacketsOf("SS")
                BY DEF PacketsOf
            <4> QED
                BY <3>2, <4>1, SeqElements DEF TypeOK
        <3> QED
            BY <1>8, <3>1, <3>2 DEF App, Execute, Pass, PopSS, PopCS, DecodeBody, Handle, queues
    <2>s. \A s \in AppThreads \ {t} : SawNone(s)' <=> SawNone(s)
        BY <1>0, <2>o DEF SawNone
    \* t itself: it keeps what it saw, looks again, or has something done
    <2>t. SawNone(t)' => \/ SawNone(t) /\ looked'[t] = looked[t]
                         \/ looked'[t] = received /\ Len(m_stRecvSSQueue') = 0
        <3>1. CASE Execute(t)
            <4>1. CASE pc'[t] = "done" /\ bIdle[t] /\ looked' = looked
                <5>1. pc[t] = "loop"
                    BY <3>1 DEF Execute, Pass
                <5>2. SawNone(t)
                    BY <4>1, <5>1 DEF SawNone
                <5> QED
                    BY <4>1, <5>2
            <4>2. CASE pc'[t] = "loop" /\ ~bIdle'[t]
                BY <4>2 DEF SawNone
            <4>3. CASE pc'[t] = "ss"
                BY <4>3 DEF SawNone
            <4> QED
                BY <2>0, <3>1, <4>1, <4>2, <4>3 DEF Execute, Pass, Go, Idle, TypeOK
        <3>2. CASE PopSS(t)
            <4>1. CASE m_stRecvSSQueue = << >>
                BY <2>0, <3>2, <4>1 DEF PopSS, TypeOK
            <4>2. CASE m_stRecvSSQueue # << >>
                <5>1. Head(m_stRecvSSQueue).kind = "SS"
                    <6>1. Head(m_stRecvSSQueue) \in PacketsOf("SS")
                        BY <4>2, SeqSteps DEF TypeOK
                    <6> QED
                        BY <6>1 DEF PacketsOf
                <5> QED
                    BY <2>0, <3>2, <4>2, <5>1 DEF PopSS, Go, SawNone, TypeOK
            <4> QED
                BY <4>1, <4>2
        <3>3. CASE PopCS(t)
            <4>1. pc[t] = "cs" /\ looked' = looked
                BY <3>3 DEF PopCS
            <4>2. SawNone(t)
                BY <4>1 DEF SawNone
            <4> QED
                BY <4>1, <4>2
        <3>4. CASE DecodeBody(t)
            <4>1. pc[t] = "decode" /\ pc'[t] = "handle" /\ packet'[t] = packet[t] /\ looked' = looked
                BY <2>0, <3>4 DEF DecodeBody, Go, TypeOK
            <4>2. SawNone(t)' => SawNone(t)
                BY <4>1 DEF SawNone
            <4> QED
                BY <4>1, <4>2
        <3>5. CASE Handle(t)
            <4>1. pc[t] = "handle" /\ pc'[t] = "loop" /\ looked' = looked
                  /\ bIdle'[t] = (packet[t].kind = "CS")
                BY <2>0, <3>5 DEF Handle, Go, Idle, TypeOK
            <4>2. SawNone(t)' => packet[t].kind = "CS"
                BY <4>1 DEF SawNone
            <4>3. packet[t].kind = "CS" => SawNone(t)
                BY <4>1 DEF SawNone
            <4> QED
                BY <4>1, <4>2, <4>3
        <3> QED
            BY <1>8, <3>1, <3>2, <3>3, <3>4, <3>5 DEF App
    <2>1. ASSUME NEW s \in AppThreads, SawNone(s)'
          PROVE  /\ looked'[s] <= received'
                 /\ \A i \in 1 .. Len(m_stRecvSSQueue') : m_stRecvSSQueue'[i].no > looked'[s]
        <3>1. CASE SawNone(s) /\ looked'[s] = looked[s]
            BY <2>0, <2>q, <2>1, <3>1 DEF Drained
        <3>2. CASE looked'[s] = received /\ Len(m_stRecvSSQueue') = 0
            BY <2>0, <3>2 DEF TypeOK
        <3> QED
            BY <1>0, <2>o, <2>s, <2>t, <2>1, <3>1, <3>2
    <2> QED
        BY <2>0, <2>l, <2>1 DEF Drained
<1>9. CASE UNCHANGED vars
    BY <1>9, KeepsDrained DEF vars, queues, counts
<1> QED
    BY <1>1, <1>2, <1>3, <1>4, <1>5, <1>6, <1>7, <1>8, <1>9 DEF Next, Exited

-----------------------------------------------------------------------------
(* The theorems.                                                           *)

\* The types, the order of starting and stopping, what was seen of the queues
\* and what the handlers read, in every state of a server with any number of
\* application threads.
THEOREM FrameInvariant == Spec => []FrameInv
<1>1. Init => FrameInv
    BY InitType, InitOwnBody, InitInOrder, InitDrained DEF FrameInv
<1>2. FrameInv /\ [Next]_vars => FrameInv'
    BY NextType, NextOwnBody, NextInOrder, NextDrained DEF FrameInv
<1> QED
    BY <1>1, <1>2, PTL DEF Spec

\* No handler of a server's message ever reads another message's body, and none
\* of a client's message does when there is one application thread
\* (CFrameMsgEventMgt::CreateMsgBody).
THEOREM HandlersSeeTheirOwn == Spec => []HandlerSeesOwnBody
<1>1. FrameInv => HandlerSeesOwnBody
    BY DEF FrameInv, OwnBody
<1> QED
    BY <1>1, FrameInvariant, PTL

\* A thread that has ended left nothing behind that was there when it last
\* looked, and those before it in the order of stopping have ended
\* (CLightFrame::Terminal, the loops of Execute).
THEOREM ThreadsEndDrained == Spec => []EndsDrained
<1>1. FrameInv => EndsDrained
    <2> SUFFICES ASSUME FrameInv PROVE EndsDrained
        OBVIOUS
    <2>0. /\ Log \in Threads /\ Main # Log
          /\ \A t \in AppThreads : t \in Threads /\ t # Main
        BY ThreadsAre DEF FrameInv, TypeOK
    <2>1. ASSUME NEW t \in AppThreads, pc[t] = "done"
          PROVE  /\ pc[Net] = "done"
                 /\ \A i \in 1 .. Len(m_stRecvSSQueue) : m_stRecvSSQueue[i].no > looked[t]
        <3>1. m_bTerminated[t] /\ SawNone(t)
            BY <2>0, <2>1 DEF FrameInv, InOrder, SawNone
        <3> QED
            BY <2>1, <3>1 DEF FrameInv, InOrder, Drained
    <2>2. ASSUME pc[Log] = "done"
          PROVE  /\ \A t \in AppThreads : pc[t] = "done"
                 /\ \A i \in 1 .. Len(logRing) : logRing[i] > looked[Log]
        BY <2>0, <2>2 DEF FrameInv, InOrder, Drained
    <2> QED
        BY <2>1, <2>2 DEF EndsDrained
<1> QED
    BY <1>1, FrameInvariant, PTL
=============================================================================
