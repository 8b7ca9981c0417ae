----------------------------- MODULE SessionMgt -----------------------------
(***************************************************************************)
(* Request sessions (CFrameSessionMgt): SendMessageRequest opens a session *)
(* that waits for one message id, with a timeout timer; the session ends   *)
(* when the response arrives (OnFrameSessionEvent), when the timer fires   *)
(* (OnTimerEvent) or when the application removes it (RemoveSession).      *)
(*                                                                         *)
(* Three tables refer to each other: the session pool, the timer pool and  *)
(* the binding table of CFrameMsgEventMgt.  Each has a lock of its own and *)
(* no operation holds two of them, so a step below is one lock section     *)
(* with the unlocked accesses that follow it.  The steps are those of the  *)
(* application threads (CFrameMainThread::Execute); a thread in `app` runs *)
(* application code, either a session callback or another handler, which   *)
(* may call the session interface.                                         *)
(***************************************************************************)
EXTENDS TimerStore, FiniteSets, SequencesExt

CONSTANTS
    Threads,        \* the application threads
    MaxSessions,    \* MAX_FRAMESESSION_COUNT: session slots
    MaxBindings,    \* MAX_BINDING_SESSION_COUNT: bindings of one message id
    MsgIDs,         \* response message ids
    MaxSessionSeq   \* bound of a model-checking run on the sessions created

NoMsg == 0          \* GetSessionWaitMsg() = 0
NoTimer == MaxTimers \* enmInvalidTimerIndex (-1 in the code)

ASSUME SessionAssumption ==
    /\ MaxSessions \in Nat \ {0} /\ MaxBindings \in Nat \ {0}
    /\ MsgIDs \subseteq Nat \ {NoMsg}

VARIABLES
    m_sessionPool,  \* SessionPool m_sessionPool, as a FifoPool
    session,        \* slot -> CFrameSession
    m_nSessionSeq,  \* the last session number given out
    bindingList,    \* message id -> sessions bound to it, in binding order
    dropped,        \* slots whose last binding a full list refused (known to the model only)
    recvSS,         \* responses in the receive queue
    peers,          \* requests other servers have not answered yet
    th              \* thread -> control point and local variables

sessionVars == <<m_sessionPool, session, m_nSessionSeq>>
bindingVars == <<bindingList, dropped>>
netVars == <<recvSS, peers>>
vars == <<timerVars, sessionVars, bindingVars, netVars, th>>

SessionSlots == SlotsOf(MaxSessions)

\* CFrameSession::Reset
ResetSession == [nSessionSeq |-> 0, nWaitMsgID |-> NoMsg, nTimerIndex |-> NoTimer]
Sessions == [nSessionSeq : Nat, nWaitMsgID : MsgIDs \cup {NoMsg},
             nTimerIndex : TimerSlots \cup {NoTimer}]

\* A response carries the slot of the session that asked and a message id;
\* `req`, the number of that session, is known to the model only (the
\* nSequence of a request is always 0).
Responses == [idx : SessionSlots, msg : MsgIDs, req : Nat]
NoResponse == [idx |-> 0, msg |-> NoMsg, req |-> 0]

\* Locals of a thread.  tidx, tseq: ProcessTimerEvent.  resp: the response
\* being processed.  sidx, sseq, wait: the On...Event on the stack and `in`
\* whose callback runs.  oidx, otim, omsg, onum: the session call in progress;
\* next, ret: where its shared parts continue.
Idle == [pc |-> "idle", in |-> "none", tidx |-> 0, tseq |-> 0, resp |-> NoResponse,
         sidx |-> 0, sseq |-> 0, wait |-> NoMsg, oidx |-> 0, otim |-> NoTimer,
         omsg |-> NoMsg, onum |-> 0, next |-> "idle", ret |-> "idle"]

Init ==
    /\ TimerStoreInit
    /\ m_sessionPool = NewPool(MaxSessions)
    /\ session = [s \in SessionSlots |-> ResetSession]
    /\ m_nSessionSeq = 0
    /\ bindingList = [m \in MsgIDs |-> << >>]
    /\ dropped = {}
    /\ recvSS = << >>
    /\ peers = {}
    /\ th = [t \in Threads |-> Idle]

At(t, pc) == th[t].pc = pc
Goto(t, pc) == th' = [th EXCEPT ![t].pc = pc]
Finish(t) == th' = [th EXCEPT ![t] = Idle]
\* A call made by application code returns to it.
ReturnToApp(t) == th' = [th EXCEPT ![t].pc = "app", ![t].oidx = 0, ![t].otim = NoTimer,
                                   ![t].omsg = NoMsg, ![t].next = "idle", ![t].ret = "idle"]
Return(t) == IF th[t].ret = "app" THEN ReturnToApp(t)
             ELSE IF th[t].ret = "idle" THEN Finish(t)
             ELSE Goto(t, th[t].ret)
-----------------------------------------------------------------------------
(* Parts the operations share.                                             *)

\* GetSessionByIndex
Exists(s) == InUse(m_sessionPool, s)

\* RemoveSessionBindMsg(oidx, its wait message); SetSessionWaitMsg(0).
Unbind(t) ==
    LET s == th[t].oidx
        m == session[s].nWaitMsgID
    IN
    /\ At(t, "unbind")
    /\ bindingList' = IF m \in MsgIDs
                      THEN [bindingList EXCEPT ![m] = RemoveFirst(@, s)]
                      ELSE bindingList
    /\ dropped' = dropped \ {s}
    /\ session' = [session EXCEPT ![s].nWaitMsgID = NoMsg]
    /\ Goto(t, th[t].next)
    /\ UNCHANGED <<timerVars, m_sessionPool, m_nSessionSeq, netVars>>

\* g_FrameTimerMgt.RemoveTimer(pSession->GetTimerIndex())
RemoveItsTimer(t) ==
    /\ At(t, "rmtimer")
    /\ RemoveTimer(session[th[t].oidx].nTimerIndex)
    /\ Goto(t, "destroy")
    /\ UNCHANGED <<sessionVars, bindingVars, netVars>>

\* DestroySessionByIndex: under the lock, is there such a session ...
Destroy(t) ==
    /\ At(t, "destroy")
    /\ IF Exists(th[t].oidx) THEN Goto(t, "reset") ELSE Return(t)
    /\ UNCHANGED <<timerVars, sessionVars, bindingVars, netVars>>

\* ... without it, free the session's memory and reset its fields ...
Reset(t) ==
    /\ At(t, "reset")
    /\ session' = [session EXCEPT ![th[t].oidx] = ResetSession]
    /\ Goto(t, "release")
    /\ UNCHANGED <<timerVars, m_sessionPool, m_nSessionSeq, bindingVars, netVars>>

\* ... and under the lock again, give the slot back.
Release(t) ==
    /\ At(t, "release")
    /\ m_sessionPool' = GiveSlot(m_sessionPool, th[t].oidx)
    /\ Return(t)
    /\ UNCHANGED <<timerVars, session, m_nSessionSeq, bindingVars, netVars>>
-----------------------------------------------------------------------------
(* CreateSession and SendMessageRequest.                                   *)

CreateObject(t) ==
    /\ At(t, "app")
    /\ m_nSessionSeq < MaxSessionSeq
    /\ ~ IsFullPool(m_sessionPool)
    /\ LET s == NextSlot(m_sessionPool) IN
       /\ m_sessionPool' = TakeSlot(m_sessionPool)
       /\ session' = [session EXCEPT ![s] = ResetSession]
       /\ th' = [th EXCEPT ![t].pc = "number", ![t].oidx = s]
    /\ UNCHANGED <<timerVars, m_nSessionSeq, bindingVars, netVars>>

\* SetSessionSeq(++m_nSessionSeq) without a lock: a read, then the writes.
ReadSeq(t) ==
    /\ At(t, "number")
    /\ th' = [th EXCEPT ![t].pc = "numbered", ![t].onum = m_nSessionSeq + 1]
    /\ UNCHANGED <<timerVars, sessionVars, bindingVars, netVars>>

WriteSeq(t) ==
    /\ At(t, "numbered")
    /\ m_nSessionSeq' = th[t].onum
    /\ session' = [session EXCEPT ![th[t].oidx].nSessionSeq = th[t].onum]
    /\ th' = [th EXCEPT ![t].pc = "timer", ![t].onum = 0]
    /\ UNCHANGED <<timerVars, m_sessionPool, bindingVars, netVars>>

\* The session's timeout timer; its nTimerID is the session's slot.  A full
\* timer pool undoes the creation.  The application's own timers, which are
\* not in this module, take slots of the same pool and may fill it any time.
CreateItsTimer(t) ==
    /\ At(t, "timer")
    /\ \/ \E cycle \in CycleTimes :
             /\ CreateTimer(th[t].oidx, cycle, FALSE)
             /\ th' = [th EXCEPT ![t].pc = "setup", ![t].otim = NextSlot(m_timerPool)]
       \/ /\ CreateTimerRefused
          /\ th' = [th EXCEPT ![t].pc = "destroy", ![t].ret = "app"]
    /\ UNCHANGED <<sessionVars, bindingVars, netVars>>

\* Session memory and the fields of the session.  Without memory the session
\* is destroyed and then the timer removed.
SetUpSession(t) ==
    /\ At(t, "setup")
    /\ \/ \E m \in MsgIDs :
             /\ session' = [session EXCEPT ![th[t].oidx].nTimerIndex = th[t].otim,
                                           ![th[t].oidx].nWaitMsgID = m]
             /\ th' = [th EXCEPT ![t].pc = "bind", ![t].omsg = m]
       \/ /\ th' = [th EXCEPT ![t].pc = "destroy", ![t].ret = "undo"]
          /\ UNCHANGED session
    /\ UNCHANGED <<timerVars, m_sessionPool, m_nSessionSeq, bindingVars, netVars>>

UndoTimer(t) ==
    /\ At(t, "undo")
    /\ RemoveTimer(th[t].otim)
    /\ ReturnToApp(t)
    /\ UNCHANGED <<sessionVars, bindingVars, netVars>>

\* AddSessionBindMsg: a full binding list drops the binding without a word.
AddSessionBindMsg(s, m) ==
    IF Len(bindingList[m]) < MaxBindings
    THEN bindingList' = [bindingList EXCEPT ![m] = Append(@, s)] /\ dropped' = dropped \ {s}
    ELSE dropped' = dropped \cup {s} /\ UNCHANGED bindingList

BindSession(t) ==
    /\ At(t, "bind")
    /\ AddSessionBindMsg(th[t].oidx, th[t].omsg)
    /\ Goto(t, "send")
    /\ UNCHANGED <<timerVars, sessionVars, netVars>>

\* PostMessage of the request, which may fail; the session stays in either
\* case.  A session reset meanwhile has no index to send.
SendRequest(t) ==
    LET s == th[t].oidx IN
    /\ At(t, "send")
    /\ \/ /\ session[s].nTimerIndex # NoTimer
          /\ peers' = peers \cup {[idx |-> s, msg |-> th[t].omsg, req |-> session[s].nSessionSeq]}
       \/ UNCHANGED peers
    /\ ReturnToApp(t)
    /\ UNCHANGED <<timerVars, sessionVars, bindingVars, recvSS>>

\* RemoveSession of a session whose creation has returned its index.
RemoveSession(t) ==
    /\ At(t, "app")
    /\ \E s \in m_sessionPool.used :
          /\ session[s].nTimerIndex # NoTimer
          /\ th' = [th EXCEPT ![t].pc = IF session[s].nWaitMsgID # NoMsg THEN "unbind" ELSE "rmtimer",
                              ![t].oidx = s, ![t].next = "rmtimer", ![t].ret = "app"]
    /\ UNCHANGED <<timerVars, sessionVars, bindingVars, netVars>>

\* A session callback binds its own session to a message again (application
\* code: SetSessionWaitMsg and AddSessionBindMsg).
Rebind(t) ==
    LET s == th[t].sidx IN
    /\ At(t, "app") /\ th[t].in # "none"
    /\ Exists(s) /\ session[s].nSessionSeq = th[t].sseq /\ session[s].nWaitMsgID = NoMsg
    /\ \E m \in MsgIDs :
          /\ AddSessionBindMsg(s, m)
          /\ session' = [session EXCEPT ![s].nWaitMsgID = m]
    /\ UNCHANGED <<timerVars, m_sessionPool, m_nSessionSeq, netVars, th>>

AppReturn(t) ==
    /\ At(t, "app")
    /\ CASE th[t].in = "timer" -> Goto(t, "timerback")
         [] th[t].in = "resp" -> Goto(t, "respback")
         [] OTHER -> Finish(t)
    /\ UNCHANGED <<timerVars, sessionVars, bindingVars, netVars>>
-----------------------------------------------------------------------------
(* ProcessTimerEvent and OnTimerEvent.                                     *)

GetFirstTimer(t) ==
    /\ At(t, "idle")
    /\ IF m_timerMap = {} THEN Goto(t, "poll")
       ELSE \E i \in FirstTimers : th' = [th EXCEPT ![t].pc = "check", ![t].tidx = i]
    /\ UNCHANGED <<timerVars, sessionVars, bindingVars, netVars>>

CheckEndTime(t) ==
    /\ At(t, "check")
    /\ IF timer[th[t].tidx].nEndTime > now
       THEN th' = [th EXCEPT ![t].pc = "poll", ![t].tidx = 0]
       ELSE Goto(t, "begin")
    /\ UNCHANGED <<timerVars, sessionVars, bindingVars, netVars>>

\* OnTimerEvent is called with the timer object; its nTimerID is the session.
BeginEvent(t) ==
    LET tm == timer[th[t].tidx] IN
    /\ At(t, "begin")
    /\ th' = [th EXCEPT ![t].tseq = tm.nTimerSeq, ![t].sidx = tm.nTimerID,
                        ![t].pc = IF tm.pEventHandle THEN "timedout" ELSE "fired"]
    /\ UNCHANGED <<timerVars, sessionVars, bindingVars, netVars>>

\* The session is looked up; a bound one is unbound before its callback.
TimedOut(t) ==
    LET s == th[t].sidx IN
    /\ At(t, "timedout")
    /\ IF ~ Exists(s) THEN Goto(t, "fired")
       ELSE th' = [th EXCEPT ![t].pc = IF session[s].nWaitMsgID # NoMsg THEN "unbind" ELSE "timercall",
                             ![t].oidx = s, ![t].next = "timercall"]
    /\ UNCHANGED <<timerVars, sessionVars, bindingVars, netVars>>

\* Keep the session number, call OnSessionTimeOut if there is a handler.
TimerCall(t) ==
    LET s == th[t].sidx IN
    /\ At(t, "timercall")
    /\ th' = [th EXCEPT ![t].sseq = session[s].nSessionSeq, ![t].oidx = 0, ![t].next = "idle",
                        ![t].in = "timer",
                        ![t].pc = IF session[s].nTimerIndex # NoTimer THEN "app" ELSE "timerback"]
    /\ UNCHANGED <<timerVars, sessionVars, bindingVars, netVars>>

\* (mutant) a session that was bound again in its callback stays bound
TimerBack_StaysBound(t) ==
    LET s == th[t].sidx IN
    /\ At(t, "timerback")
    /\ IF ~ Exists(s) \/ session[s].nSessionSeq # th[t].sseq
       THEN th' = [th EXCEPT ![t].pc = "fired", ![t].in = "none"]
       ELSE th' = [th EXCEPT ![t].pc = "destroy", ![t].in = "none", ![t].oidx = s, ![t].ret = "fired"]
    /\ UNCHANGED <<timerVars, sessionVars, bindingVars, netVars>>

\* (mutant) a session that was bound again in its callback is left to live
TimerBack_LeavesBound(t) ==
    LET s == th[t].sidx IN
    /\ At(t, "timerback")
    /\ IF ~ Exists(s) \/ session[s].nSessionSeq # th[t].sseq \/ session[s].nWaitMsgID # NoMsg
       THEN th' = [th EXCEPT ![t].pc = "fired", ![t].in = "none"]
       ELSE th' = [th EXCEPT ![t].pc = "destroy", ![t].in = "none", ![t].oidx = s, ![t].ret = "fired"]
    /\ UNCHANGED <<timerVars, sessionVars, bindingVars, netVars>>

\* After the callback: the same session is unbound again and destroyed.
TimerBack(t) ==
    LET s == th[t].sidx IN
    /\ At(t, "timerback")
    /\ IF ~ Exists(s) \/ session[s].nSessionSeq # th[t].sseq
       THEN th' = [th EXCEPT ![t].pc = "fired", ![t].in = "none"]
       ELSE th' = [th EXCEPT ![t].pc = IF session[s].nWaitMsgID # NoMsg THEN "unbind" ELSE "destroy",
                             ![t].in = "none", ![t].oidx = s, ![t].next = "destroy", ![t].ret = "fired"]
    /\ UNCHANGED <<timerVars, sessionVars, bindingVars, netVars>>

\* TimerFired(timerIndex, nTimerSeq), as in TimerMgt.
CheckSeq(t) ==
    /\ At(t, "fired")
    /\ IF IsTimer(th[t].tidx, th[t].tseq) THEN Goto(t, "retire") ELSE Finish(t)
    /\ UNCHANGED <<timerVars, sessionVars, bindingVars, netVars>>

Retire(t) ==
    /\ At(t, "retire")
    /\ TimerFired(th[t].tidx)
    /\ Finish(t)
    /\ UNCHANGED <<sessionVars, bindingVars, netVars>>
-----------------------------------------------------------------------------
(* ProcessSSLogicData, OnMessageEvent and OnFrameSessionEvent.             *)

\* A response is taken from the queue, or the handler of some other message
\* runs, or there is nothing to do.
PopResponse(t) ==
    /\ At(t, "poll")
    /\ recvSS # << >>
    /\ recvSS' = Tail(recvSS)
    /\ th' = [th EXCEPT ![t].pc = "lookup", ![t].resp = Head(recvSS)]
    /\ UNCHANGED <<timerVars, sessionVars, bindingVars, peers>>

OtherMessage(t) ==
    /\ At(t, "poll")
    /\ Goto(t, "app") \/ (recvSS = << >> /\ Finish(t))
    /\ UNCHANGED <<timerVars, sessionVars, bindingVars, netVars>>

\* (mutant) any session in the slot is given the response
LookUpBinding_AnySession(t) ==
    /\ At(t, "lookup")
    /\ th' = [th EXCEPT ![t].pc = "answered", ![t].sidx = th[t].resp.idx]
    /\ UNCHANGED <<timerVars, sessionVars, bindingVars, netVars>>

\* IsSessionBindingMsg: does the slot in the response wait for this message?
LookUpBinding(t) ==
    LET r == th[t].resp IN
    /\ At(t, "lookup")
    /\ IF Contains(bindingList[r.msg], r.idx)
       THEN th' = [th EXCEPT ![t].pc = "answered", ![t].sidx = r.idx]
       ELSE Finish(t)
    /\ UNCHANGED <<timerVars, sessionVars, bindingVars, netVars>>

\* OnFrameSessionEvent: the message id the session waits for is kept, and
\* the session unbound.
Answered(t) ==
    LET s == th[t].sidx IN
    /\ At(t, "answered")
    /\ IF ~ Exists(s) THEN Finish(t)
       ELSE th' = [th EXCEPT ![t].pc = IF session[s].nWaitMsgID # NoMsg THEN "unbind" ELSE "respcall",
                             ![t].wait = session[s].nWaitMsgID, ![t].oidx = s, ![t].next = "respcall"]
    /\ UNCHANGED <<timerVars, sessionVars, bindingVars, netVars>>

\* CallBackSessionEvent: the body is decoded as the type of the message the
\* session waited for; without a type, when decoding fails, or without a
\* handler, there is no callback.
RespCall(t) ==
    LET s == th[t].sidx IN
    /\ At(t, "respcall")
    /\ \E decoded \in BOOLEAN :
          th' = [th EXCEPT ![t].sseq = session[s].nSessionSeq, ![t].oidx = 0, ![t].next = "idle",
                           ![t].in = "resp",
                           ![t].pc = IF /\ th[t].wait # NoMsg
                                        /\ decoded
                                        /\ session[s].nTimerIndex # NoTimer
                                     THEN "app" ELSE "respback"]
    /\ UNCHANGED <<timerVars, sessionVars, bindingVars, netVars>>

\* (mutant) the answered session is destroyed and its timer left behind
RespBack_LeavesTimer(t) ==
    LET s == th[t].sidx IN
    /\ At(t, "respback")
    /\ IF ~ Exists(s) \/ session[s].nSessionSeq # th[t].sseq \/ session[s].nWaitMsgID # NoMsg
       THEN Finish(t)
       ELSE th' = [th EXCEPT ![t].pc = "destroy", ![t].in = "none", ![t].oidx = s, ![t].ret = "idle"]
    /\ UNCHANGED <<timerVars, sessionVars, bindingVars, netVars>>

\* After the callback: the same session ends unless it was bound again.
RespBack(t) ==
    LET s == th[t].sidx IN
    /\ At(t, "respback")
    /\ IF ~ Exists(s) \/ session[s].nSessionSeq # th[t].sseq \/ session[s].nWaitMsgID # NoMsg
       THEN Finish(t)
       ELSE th' = [th EXCEPT ![t].pc = "rmtimer", ![t].in = "none", ![t].oidx = s, ![t].ret = "idle"]
    /\ UNCHANGED <<timerVars, sessionVars, bindingVars, netVars>>
-----------------------------------------------------------------------------
(* The environment: other servers answer a request late, or never; a       *)
(* response may also be lost with the connection.                          *)
PeerAnswers ==
    /\ \E r \in peers :
          /\ peers' = peers \ {r}
          /\ recvSS' \in {Append(recvSS, r), recvSS}
    /\ UNCHANGED <<timerVars, sessionVars, bindingVars, th>>

TimePasses == Tick /\ UNCHANGED <<sessionVars, bindingVars, netVars, th>>

SharedStep(t) == Unbind(t) \/ RemoveItsTimer(t) \/ Destroy(t) \/ Reset(t) \/ Release(t)
CreateStep(t) == ReadSeq(t) \/ WriteSeq(t) \/ CreateItsTimer(t) \/ SetUpSession(t) \/ UndoTimer(t)
                     \/ BindSession(t) \/ SendRequest(t)
TimerStep(t) == GetFirstTimer(t) \/ CheckEndTime(t) \/ BeginEvent(t) \/ TimedOut(t)
                    \/ TimerCall(t) \/ TimerBack(t) \/ CheckSeq(t) \/ Retire(t)
ResponseStep(t) == PopResponse(t) \/ OtherMessage(t) \/ LookUpBinding(t) \/ Answered(t)
                       \/ RespCall(t) \/ RespBack(t)
ThreadStep(t) == SharedStep(t) \/ CreateStep(t) \/ TimerStep(t) \/ ResponseStep(t)
AppStep(t) == CreateObject(t) \/ RemoveSession(t) \/ Rebind(t) \/ AppReturn(t)

Next == TimePasses \/ PeerAnswers \/ \E t \in Threads : ThreadStep(t) \/ AppStep(t)

Spec == Init /\ [][Next]_vars

\* Threads are scheduled, the clock advances, and a handler that keeps being
\* able to return does return (it may call the interface first, so strongly).
Fairness ==
    /\ WF_vars(TimePasses)
    /\ \A t \in Threads : WF_vars(ThreadStep(t)) /\ SF_vars(AppReturn(t))

FairSpec == Spec /\ Fairness
-----------------------------------------------------------------------------
PCs == {"idle", "check", "begin", "timedout", "timercall", "timerback", "fired", "retire",
        "poll", "lookup", "answered", "respcall", "respback", "app", "number", "numbered",
        "timer", "setup", "undo", "bind", "send", "unbind", "rmtimer", "destroy", "reset",
        "release"}

TypeOK ==
    /\ TimerStoreTypeOK
    /\ m_sessionPool \in [free : Seq(SessionSlots), used : SUBSET SessionSlots]
    /\ session \in [SessionSlots -> Sessions]
    /\ m_nSessionSeq \in Nat
    /\ bindingList \in [MsgIDs -> Seq(SessionSlots)]
    /\ dropped \subseteq SessionSlots
    /\ recvSS \in Seq(Responses)
    /\ peers \subseteq Responses
    /\ th \in [Threads -> [pc : PCs, in : {"none", "timer", "resp"},
                         tidx : TimerSlots, tseq : Nat, resp : Responses \cup {NoResponse},
                         sidx : SessionSlots, sseq : Nat, wait : MsgIDs \cup {NoMsg},
                         oidx : SessionSlots, otim : TimerSlots \cup {NoTimer},
                         omsg : MsgIDs \cup {NoMsg}, onum : Nat,
                         next : {"idle", "rmtimer", "timercall", "respcall", "destroy"},
                         ret : {"idle", "app", "undo", "fired"}]]

\* Each lock keeps its own table consistent, however the threads interleave.
TablesConsistent ==
    /\ TimerStoreConsistent /\ TimerSeqNamesTimer
    /\ WellFormedPool(m_sessionPool, MaxSessions)
    /\ \A m \in MsgIDs : Len(bindingList[m]) <= MaxBindings

\* Between operations: application code or the thread's own loop is running.
Quiet == \A t \in Threads : th[t].pc \in {"idle", "check", "begin", "poll", "lookup", "app"}

\* Sessions and timers correspond one to one: a session without its timer
\* would wait forever for a lost response, and a timer without its session
\* would end whatever session comes to use the slot.
TimersMatchSessions ==
    Quiet =>
      /\ \A s \in m_sessionPool.used :
            /\ session[s].nTimerIndex \in m_timerPool.used
            /\ timer[session[s].nTimerIndex].nTimerID = s
      /\ \A i \in m_timerPool.used :
            /\ Exists(timer[i].nTimerID)
            /\ session[timer[i].nTimerID].nTimerIndex = i

\* The binding table lists exactly the sessions that wait for a message, once
\* each; a waiting session is missing only if the table was full when it came.
BindingsMatchSessions ==
    Quiet =>
      \A m \in MsgIDs :
        /\ IsInjective(bindingList[m])
        /\ \A s \in ToSet(bindingList[m]) : Exists(s) /\ session[s].nWaitMsgID = m
        /\ \A s \in m_sessionPool.used \ dropped :
              session[s].nWaitMsgID = m => s \in ToSet(bindingList[m])

\* The body of a response is decoded as the type of the message that arrived,
\* although the type is taken from the session's wait message.
DecodesAsReceived ==
    \A t \in Threads : At(t, "respcall") => th[t].wait = th[t].resp.msg

\* Session q is in the pool; its deadline is one the clock reaches.
Open(q) == \E s \in m_sessionPool.used : session[s].nSessionSeq = q
Expires(q) == \E s \in m_sessionPool.used :
                 /\ session[s].nSessionSeq = q /\ session[s].nTimerIndex # NoTimer
                 /\ timer[session[s].nTimerIndex].nEndTime <= MaxTime

\* Every session whose deadline the clock reaches ends: it is answered, removed
\* or timed out, even if its binding was dropped or its request never sent.
EverySessionEnds == \A q \in 1 .. MaxSessionSeq : Expires(q) ~> ~ Open(q)

\* The session number kept across a callback tells whether the session was
\* deleted meanwhile, so what is destroyed afterwards is that session and never
\* a new one that has taken its slot: the slot given back holds no number.
ReleasesOwnSession ==
    [][\A t \in Threads : At(t, "release") /\ m_sessionPool' # m_sessionPool
          => session[th[t].oidx].nSessionSeq = 0]_vars

\* The session that is given a response is the one that is waiting for it.
AnswersItsRequest ==
    \A t \in Threads : At(t, "app") /\ th[t].in = "resp" => th[t].sseq = th[t].resp.req
=============================================================================
