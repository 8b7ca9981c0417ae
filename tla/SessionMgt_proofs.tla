-------------------------- MODULE SessionMgt_proofs --------------------------
(***************************************************************************)
(* For every number of threads, sessions, timers and bindings: however the *)
(* unlocked steps of the threads interleave, each of the three tables of   *)
(* the session manager stays consistent in itself, and no thread ever      *)
(* holds an index that is outside the table it is used for.                *)
(***************************************************************************)
EXTENDS SessionMgt, TimerStore_proofs, WellFoundedInduction

\* The invariant has one part per table.  The timers must be known to carry
\* the index of a session slot, since OnTimerEvent takes it from there, and
\* the message a thread binds and sends must be one that can be answered.
TimersOK == StoreInv /\ \A i \in TimerSlots : timer[i].nTimerID \in SessionSlots
PoolOK == IsPool(m_sessionPool, MaxSessions)
FieldsOK == session \in [SessionSlots -> Sessions] /\ m_nSessionSeq \in Nat
BindingsOK == /\ bindingList \in [MsgIDs -> Seq(SessionSlots)]
              /\ dropped \subseteq SessionSlots
              /\ \A m \in MsgIDs : Len(bindingList[m]) <= MaxBindings
NetOK == recvSS \in Seq(Responses) /\ peers \subseteq Responses

Locals == [pc : PCs, in : {"none", "timer", "resp"},
           tidx : TimerSlots, tseq : Nat, resp : Responses \cup {NoResponse},
           sidx : SessionSlots, sseq : Nat, wait : MsgIDs \cup {NoMsg},
           oidx : SessionSlots, otim : TimerSlots \cup {NoTimer},
           omsg : MsgIDs \cup {NoMsg}, onum : Nat,
           next : {"idle", "rmtimer", "timercall", "respcall", "destroy"},
           ret : {"idle", "app", "undo", "fired"}]
ThreadsOK == /\ th \in [Threads -> Locals]
             /\ \A t \in Threads : th[t].pc \in {"bind", "send"} => th[t].omsg \in MsgIDs

IInv == TimersOK /\ PoolOK /\ FieldsOK /\ BindingsOK /\ NetOK /\ ThreadsOK

LEMMA SlotsStartAtZero == 0 \in SessionSlots /\ 0 \in TimerSlots /\ NoTimer \in Nat
BY SessionAssumption, MaxTimersAssumption DEF SessionSlots, TimerSlots, SlotsOf, NoTimer

LEMMA IdleIsLocals == Idle \in Locals
BY SlotsStartAtZero DEF Idle, Locals, PCs, NoResponse, NoMsg

LEMMA ResetIsSession == ResetSession \in Sessions
BY SlotsStartAtZero DEF ResetSession, Sessions

LEMMA IInvInit == Init => IInv
<1> SUFFICES ASSUME Init PROVE IInv
    OBVIOUS
<1>1. TimersOK
    BY InitStore, SlotsStartAtZero DEF Init, TimersOK, TimerStoreInit, ZeroTimer
<1>2. PoolOK
    BY NewPoolWellFormed, SessionAssumption DEF Init, PoolOK
<1>3. FieldsOK
    BY ResetIsSession DEF Init, FieldsOK
<1>4. BindingsOK
    BY SessionAssumption DEF Init, BindingsOK
<1>5. NetOK
    BY DEF Init, NetOK
<1>6. ThreadsOK
    BY IdleIsLocals DEF Init, ThreadsOK, Idle
<1> QED
    BY <1>1, <1>2, <1>3, <1>4, <1>5, <1>6 DEF IInv
-----------------------------------------------------------------------------
\* The timers: whatever index a thread holds, and whichever session a timer
\* is created for.
LEMMA TimersStep == IInv /\ [Next]_vars => TimersOK'
<1> SUFFICES ASSUME IInv, [Next]_vars PROVE TimersOK'
    OBVIOUS
<1>1. /\ StoreInv /\ timer \in [TimerSlots -> FrameTimers]
      /\ \A i \in TimerSlots : timer[i].nTimerID \in SessionSlots
    BY DEF IInv, TimersOK, StoreInv, TimerStoreTypeOK
<1>2. CASE UNCHANGED timerVars
    BY <1>1, <1>2, UnchangedStore DEF TimersOK, timerVars
<1>3. ASSUME TimePasses PROVE TimersOK'
    BY <1>1, <1>3 DEF TimePasses, Tick, TimersOK, StoreInv, TimerStoreTypeOK,
        TimerStoreConsistent, TimerSeqNamesTimer, WellFormedPool
<1>4. ASSUME NEW i, RemoveTimer(i) PROVE TimersOK'
    <2>1. StoreInv'
        BY <1>1, <1>4, RemoveTimerKeeps
    <2>2. \A j \in TimerSlots : timer'[j].nTimerID \in SessionSlots
        BY <1>1, <1>4, SlotsStartAtZero DEF RemoveTimer, ZeroTimer
    <2> QED
        BY <2>1, <2>2 DEF TimersOK
<1>5. ASSUME NEW t \in Threads, CreateItsTimer(t) PROVE TimersOK'
    <2>1. CASE CreateTimerRefused
        BY <1>1, <2>1, CreateTimerRefusedKeeps DEF CreateTimerRefused, TimersOK
    <2>2. ASSUME NEW cycle \in CycleTimes, CreateTimer(th[t].oidx, cycle, FALSE)
          PROVE  TimersOK'
        <3>1. th[t].oidx \in SessionSlots /\ th[t].oidx \in Nat /\ cycle \in Nat
            BY CycleTimesAssumption DEF IInv, ThreadsOK, Locals, SessionSlots, SlotsOf
        <3>2. StoreInv'
            BY <1>1, <2>2, <3>1, CreateTimerKeeps
        <3>3. \A j \in TimerSlots : timer'[j].nTimerID \in SessionSlots
            BY <1>1, <2>2, <3>1 DEF CreateTimer
        <3> QED
            BY <3>2, <3>3 DEF TimersOK
    <2> QED
        BY <1>5, <2>1, <2>2 DEF CreateItsTimer
<1>6. ASSUME NEW t \in Threads, Retire(t) PROVE TimersOK'
    <2> DEFINE i == th[t].tidx
    <2>1. i \in TimerSlots /\ TimerFired(i)
        BY <1>6 DEF IInv, ThreadsOK, Locals, Retire
    <2>2. CASE InUse(m_timerPool, i) /\ timer[i].bLoop
        <3>1. StoreInv'
            BY <1>1, <2>1, TimerFiredKeeps
        <3>2. timer' = [timer EXCEPT ![i].nEndTime = now + timer[i].nCycleTime]
            BY <2>1, <2>2 DEF TimerFired
        <3>3. \A j \in TimerSlots : timer'[j].nTimerID = timer[j].nTimerID
            BY <1>1, <2>1, <3>2 DEF FrameTimers
        <3> QED
            BY <1>1, <3>1, <3>3 DEF TimersOK
    <2>3. CASE ~ (InUse(m_timerPool, i) /\ timer[i].bLoop)
        BY <1>4, <2>1, <2>3 DEF TimerFired
    <2> QED
        BY <2>2, <2>3
<1>7. ASSUME NEW t \in Threads, RemoveItsTimer(t) \/ UndoTimer(t) PROVE TimersOK'
    BY <1>4, <1>7 DEF RemoveItsTimer, UndoTimer
<1>8. ASSUME NEW t \in Threads, SharedStep(t) PROVE RemoveItsTimer(t) \/ UNCHANGED timerVars
    BY <1>8, Zenon DEF SharedStep, Unbind, Destroy, Reset, Release
<1>9. ASSUME NEW t \in Threads, CreateStep(t)
      PROVE  CreateItsTimer(t) \/ UndoTimer(t) \/ UNCHANGED timerVars
    BY <1>9, Zenon DEF CreateStep, ReadSeq, WriteSeq, SetUpSession, BindSession, SendRequest
<1>10. ASSUME NEW t \in Threads, TimerStep(t) PROVE Retire(t) \/ UNCHANGED timerVars
    BY <1>10, Zenon DEF TimerStep, GetFirstTimer, CheckEndTime, BeginEvent, TimedOut, TimerCall,
        TimerBack, CheckSeq
<1>11. ASSUME NEW t \in Threads, ResponseStep(t) \/ AppStep(t) PROVE UNCHANGED timerVars
    BY <1>11, Zenon DEF ResponseStep, PopResponse, OtherMessage, LookUpBinding, Answered, RespCall,
        RespBack, AppStep, CreateObject, RemoveSession, Rebind, AppReturn
<1>12. ASSUME PeerAnswers \/ UNCHANGED vars PROVE UNCHANGED timerVars
    BY <1>12 DEF PeerAnswers, vars
<1> QED
    BY <1>2, <1>3, <1>5, <1>6, <1>7, <1>8, <1>9, <1>10, <1>11, <1>12 DEF Next, ThreadStep
-----------------------------------------------------------------------------
\* The session pool: it is taken from and given back to under its lock.
LEMMA PoolStep == IInv /\ [Next]_vars => PoolOK'
<1> SUFFICES ASSUME IInv, [Next]_vars PROVE PoolOK'
    OBVIOUS
<1>1. CASE UNCHANGED m_sessionPool
    BY <1>1 DEF IInv, PoolOK, IsPool, WellFormedPool
<1>2. ASSUME NEW t \in Threads, CreateObject(t) PROVE PoolOK'
    BY <1>2, TakeSlotWellFormed, SessionAssumption DEF IInv, PoolOK, CreateObject
<1>3. ASSUME NEW t \in Threads, Release(t) PROVE PoolOK'
    BY <1>3, GiveSlotWellFormed, SessionAssumption DEF IInv, PoolOK, Release
<1>4. ASSUME NEW t \in Threads, SharedStep(t) PROVE Release(t) \/ UNCHANGED m_sessionPool
    BY <1>4, Zenon DEF SharedStep, Unbind, RemoveItsTimer, Destroy, Reset, sessionVars
<1>5. ASSUME NEW t \in Threads, CreateStep(t) PROVE UNCHANGED m_sessionPool
    BY <1>5, Zenon DEF CreateStep, ReadSeq, WriteSeq, CreateItsTimer, SetUpSession, UndoTimer,
        BindSession, SendRequest, sessionVars
<1>6. ASSUME NEW t \in Threads, TimerStep(t) PROVE UNCHANGED m_sessionPool
    BY <1>6, Zenon DEF TimerStep, GetFirstTimer, CheckEndTime, BeginEvent, TimedOut, TimerCall,
        TimerBack, CheckSeq, Retire, sessionVars
<1>7. ASSUME NEW t \in Threads, ResponseStep(t) PROVE UNCHANGED m_sessionPool
    BY <1>7, Zenon DEF ResponseStep, PopResponse, OtherMessage, LookUpBinding, Answered, RespCall,
        RespBack, sessionVars
<1>8. ASSUME NEW t \in Threads, AppStep(t) PROVE CreateObject(t) \/ UNCHANGED m_sessionPool
    BY <1>8, Zenon DEF AppStep, RemoveSession, Rebind, AppReturn, sessionVars
<1>9. ASSUME TimePasses \/ PeerAnswers \/ UNCHANGED vars PROVE UNCHANGED m_sessionPool
    BY <1>9 DEF TimePasses, PeerAnswers, vars, sessionVars
<1> QED
    BY <1>1, <1>2, <1>3, <1>4, <1>5, <1>6, <1>7, <1>8, <1>9 DEF Next, ThreadStep
-----------------------------------------------------------------------------
\* The fields of the sessions.  A thread may write those of a session another
\* thread has released: they stay of their types.
LEMMA FieldsStep == IInv /\ [Next]_vars => FieldsOK'
<1> SUFFICES ASSUME IInv, [Next]_vars PROVE FieldsOK'
    OBVIOUS
<1>1. /\ session \in [SessionSlots -> Sessions] /\ m_nSessionSeq \in Nat
      /\ \A t \in Threads : th[t] \in Locals
    BY DEF IInv, FieldsOK, ThreadsOK
<1>2. CASE UNCHANGED <<session, m_nSessionSeq>>
    BY <1>2 DEF IInv, FieldsOK
<1>3. ASSUME NEW t \in Threads, Unbind(t) PROVE FieldsOK'
    BY <1>1, <1>3 DEF Unbind, FieldsOK, Sessions
<1>4. ASSUME NEW t \in Threads, Reset(t) PROVE FieldsOK'
    BY <1>1, <1>4, ResetIsSession DEF Reset, FieldsOK
<1>5. ASSUME NEW t \in Threads, CreateObject(t) PROVE FieldsOK'
    BY <1>1, <1>5, ResetIsSession DEF CreateObject, FieldsOK
<1>6. ASSUME NEW t \in Threads, WriteSeq(t) PROVE FieldsOK'
    BY <1>1, <1>6 DEF WriteSeq, FieldsOK, Sessions, Locals
<1>7. ASSUME NEW t \in Threads, SetUpSession(t) PROVE FieldsOK'
    <2>1. CASE UNCHANGED session
        BY <1>1, <1>7, <2>1 DEF SetUpSession, FieldsOK
    <2>2. ASSUME NEW m \in MsgIDs,
                 session' = [session EXCEPT ![th[t].oidx].nTimerIndex = th[t].otim,
                                            ![th[t].oidx].nWaitMsgID = m]
          PROVE  session' \in [SessionSlots -> Sessions]
        <3>1. th[t].otim \in TimerSlots \cup {NoTimer}
            BY <1>1 DEF Locals
        <3> QED
            BY <1>1, <2>2, <3>1 DEF Sessions
    <2> QED
        BY <1>1, <1>7, <2>1, <2>2 DEF SetUpSession, FieldsOK
<1>8. ASSUME NEW t \in Threads, Rebind(t) PROVE FieldsOK'
    <2>1. PICK m \in MsgIDs : session' = [session EXCEPT ![th[t].sidx].nWaitMsgID = m]
        BY <1>8 DEF Rebind
    <2>2. session' \in [SessionSlots -> Sessions]
        BY <1>1, <2>1 DEF Sessions
    <2> QED
        BY <1>1, <1>8, <2>2 DEF Rebind, FieldsOK
<1>9. ASSUME NEW t \in Threads, SharedStep(t)
      PROVE  Unbind(t) \/ Reset(t) \/ UNCHANGED <<session, m_nSessionSeq>>
    BY <1>9, Zenon DEF SharedStep, RemoveItsTimer, Destroy, Release, sessionVars
<1>10. ASSUME NEW t \in Threads, CreateStep(t)
       PROVE  WriteSeq(t) \/ SetUpSession(t) \/ UNCHANGED <<session, m_nSessionSeq>>
    BY <1>10, Zenon DEF CreateStep, ReadSeq, CreateItsTimer, UndoTimer, BindSession, SendRequest, sessionVars
<1>11. ASSUME NEW t \in Threads, TimerStep(t) PROVE UNCHANGED <<session, m_nSessionSeq>>
    BY <1>11, Zenon DEF TimerStep, GetFirstTimer, CheckEndTime, BeginEvent, TimedOut, TimerCall,
        TimerBack, CheckSeq, Retire, sessionVars
<1>12. ASSUME NEW t \in Threads, ResponseStep(t) PROVE UNCHANGED <<session, m_nSessionSeq>>
    BY <1>12, Zenon DEF ResponseStep, PopResponse, OtherMessage, LookUpBinding, Answered, RespCall,
        RespBack, sessionVars
<1>13. ASSUME NEW t \in Threads, AppStep(t)
       PROVE  CreateObject(t) \/ Rebind(t) \/ UNCHANGED <<session, m_nSessionSeq>>
    BY <1>13, Zenon DEF AppStep, RemoveSession, AppReturn, sessionVars
<1>14. ASSUME TimePasses \/ PeerAnswers \/ UNCHANGED vars
       PROVE  UNCHANGED <<session, m_nSessionSeq>>
    BY <1>14 DEF TimePasses, PeerAnswers, vars, sessionVars
<1> QED
    BY <1>2, <1>3, <1>4, <1>5, <1>6, <1>7, <1>8, <1>9, <1>10, <1>11, <1>12, <1>13, <1>14
    DEF Next, ThreadStep
-----------------------------------------------------------------------------
\* A non-empty set of numbers has a smallest one.
LEMMA SmallestExists ==
    ASSUME NEW I, I \subseteq Nat, I # {}
    PROVE  \E x \in I : \A y \in I : x <= y
<1> DEFINE R == OpToRel(<, Nat)
<1>1. IsWellFoundedOn(R, Nat)
    BY NatLessThanWellFounded
<1>2. \A a, b \in Nat : a < b => <<a, b>> \in R
    BY DEF OpToRel
<1> HIDE DEF R
<1>3. PICK x \in I : \A y \in I : ~ (<<y, x>> \in R)
    BY <1>1, WFMin
<1>4. ASSUME NEW y \in I PROVE x <= y
    <2>1. x \in Nat /\ y \in Nat /\ ~ (y < x)
        BY <1>2, <1>3
    <2> QED
        BY <2>1
<1> QED
    BY <1>3, <1>4

\* RemoveFirst takes one place out of a list and moves up what follows it.
LEMMA RemoveFirstElements ==
    ASSUME NEW S, NEW q \in Seq(S), NEW e, e \in ToSet(q)
    PROVE  \E k \in 1 .. Len(q) :
              /\ q[k] = e
              /\ RemoveFirst(q, e) \in Seq(S) /\ Len(RemoveFirst(q, e)) = Len(q) - 1
              /\ \A i \in 1 .. Len(q) - 1 :
                    RemoveFirst(q, e)[i] = IF i < k THEN q[i] ELSE q[i + 1]
<1> DEFINE I == {i \in 1 .. Len(q) : q[i] = e}
           k == SelectInSeq(q, LAMBDA v : v = e)
           a == SubSeq(q, 1, k - 1)
           b == SubSeq(q, k + 1, Len(q))
<1>1. I # {} /\ I \subseteq 1 .. Len(q) /\ I \subseteq Nat /\ Len(q) \in Nat
    BY DEF ToSet
<1>2. \E x \in I : \A y \in I : x <= y
    BY <1>1, SmallestExists
<1>3. k = Min(I)
    BY <1>1 DEF SelectInSeq
<1>4. k \in 1 .. Len(q) /\ q[k] = e
    <2>1. k \in I
        BY <1>1, <1>2, <1>3, Zenon DEF Min
    <2> QED
        BY <2>1
<1>5. RemoveFirst(q, e) = a \o b
    BY <1>1 DEF RemoveFirst, RemoveAt
<1> HIDE DEF k
<1>6. /\ a \in Seq(S) /\ Len(a) = k - 1 /\ b \in Seq(S) /\ Len(b) = Len(q) - k
      /\ \A i \in 1 .. k - 1 : a[i] = q[i]
      /\ \A i \in 1 .. Len(q) - k : b[i] = q[k + i]
    BY <1>4
<1> HIDE DEF a, b
<1>7. a \o b \in Seq(S) /\ Len(a \o b) = Len(q) - 1
    <2>1. a \o b \in Seq(S) /\ Len(a \o b) = Len(a) + Len(b)
        BY <1>6, SMTT(30)
    <2> QED
        BY <1>1, <1>4, <1>6, <2>1
<1>8. ASSUME NEW i \in 1 .. Len(q) - 1
      PROVE  (a \o b)[i] = IF i < k THEN q[i] ELSE q[i + 1]
    <2>1. CASE i < k
        BY <1>1, <1>4, <1>6, <2>1
    <2>2. CASE ~ (i < k)
        <3>1. i - (k - 1) \in 1 .. Len(q) - k /\ k + (i - (k - 1)) = i + 1
            BY <1>1, <1>4, <2>2
        <3>2. (a \o b)[i] = b[i - (k - 1)]
            BY <1>1, <1>4, <1>6, <2>2
        <3> QED
            BY <1>6, <2>2, <3>1, <3>2
    <2> QED
        BY <2>1, <2>2
<1> QED
    BY <1>4, <1>5, <1>7, <1>8

LEMMA RemoveFirstOfAbsent ==
    ASSUME NEW q, NEW e, e \notin ToSet(q)
    PROVE  RemoveFirst(q, e) = q
BY DEF RemoveFirst, ToSet

\* Removing a session from a binding list leaves a list no longer than it was.
LEMMA RemoveFirstShortens ==
    ASSUME NEW S, NEW q \in Seq(S), NEW e
    PROVE  RemoveFirst(q, e) \in Seq(S) /\ Len(RemoveFirst(q, e)) <= Len(q)
<1>1. CASE e \in ToSet(q)
    <2>1. RemoveFirst(q, e) \in Seq(S) /\ Len(RemoveFirst(q, e)) = Len(q) - 1 /\ Len(q) \in Nat
        BY <1>1, RemoveFirstElements
    <2> QED
        BY <2>1
<1>2. CASE e \notin ToSet(q)
    BY <1>2, RemoveFirstOfAbsent
<1> QED
    BY <1>1, <1>2

\* ... and of a list that holds every session once, all but that session.
LEMMA RemoveFirstTakes ==
    ASSUME NEW S, NEW q \in Seq(S), NEW e, IsInjective(q)
    PROVE  IsInjective(RemoveFirst(q, e)) /\ ToSet(RemoveFirst(q, e)) = ToSet(q) \ {e}
<1>1. CASE e \in ToSet(q)
    <2> DEFINE r == RemoveFirst(q, e)
    <2>1. PICK k \in 1 .. Len(q) : /\ q[k] = e /\ r \in Seq(S) /\ Len(r) = Len(q) - 1
                                   /\ \A i \in 1 .. Len(q) - 1 : r[i] = IF i < k THEN q[i] ELSE q[i + 1]
        BY <1>1, RemoveFirstElements
    <2> HIDE DEF r
    <2>2. \A i, j \in 1 .. Len(q) : q[i] = q[j] => i = j
        BY DEF IsInjective
    <2>3. Len(q) \in Nat /\ DOMAIN r = 1 .. Len(q) - 1
        BY <2>1
    <2>4. IsInjective(r)
        <3> SUFFICES ASSUME NEW i \in 1 .. Len(q) - 1, NEW j \in 1 .. Len(q) - 1, r[i] = r[j]
                     PROVE  i = j
            BY <2>3 DEF IsInjective
        <3> DEFINE p(n) == IF n < k THEN n ELSE n + 1
        <3>1. p(i) \in 1 .. Len(q) /\ p(j) \in 1 .. Len(q) /\ (p(i) = p(j) => i = j)
            BY <2>1, <2>3
        <3>2. r[i] = q[p(i)] /\ r[j] = q[p(j)]
            BY <2>1
        <3> QED
            BY <2>2, <3>1, <3>2
    <2>5. ASSUME NEW x \in ToSet(r) PROVE x \in ToSet(q) \ {e}
        <3>1. PICK i \in 1 .. Len(q) - 1 : x = r[i]
            BY <2>3 DEF ToSet
        <3>2. PICK n \in 1 .. Len(q) : n # k /\ x = q[n]
            BY <2>1, <2>3, <3>1
        <3> QED
            BY <2>1, <2>2, <3>2 DEF ToSet
    <2>6. ASSUME NEW x \in ToSet(q) \ {e} PROVE x \in ToSet(r)
        <3>1. PICK n \in 1 .. Len(q) : x = q[n] /\ n # k
            BY <2>1 DEF ToSet
        <3> DEFINE i == IF n < k THEN n ELSE n - 1
        <3>2. i \in 1 .. Len(q) - 1 /\ r[i] = q[n]
            BY <2>1, <2>3, <3>1
        <3> QED
            BY <2>3, <3>1, <3>2 DEF ToSet
    <2> QED
        BY <2>4, <2>5, <2>6 DEF r
<1>2. CASE e \notin ToSet(q)
    BY <1>2, RemoveFirstOfAbsent
<1> QED
    BY <1>1, <1>2

\* The binding lists: a full one takes no more.
LEMMA BindingsStep == IInv /\ [Next]_vars => BindingsOK'
<1> SUFFICES ASSUME IInv, [Next]_vars PROVE BindingsOK'
    OBVIOUS
<1>1. /\ bindingList \in [MsgIDs -> Seq(SessionSlots)] /\ dropped \subseteq SessionSlots
      /\ \A m \in MsgIDs : Len(bindingList[m]) <= MaxBindings
      /\ \A t \in Threads : th[t] \in Locals
    BY DEF IInv, BindingsOK, ThreadsOK
<1>2. CASE UNCHANGED bindingVars
    BY <1>1, <1>2 DEF BindingsOK, bindingVars
<1>3. ASSUME NEW t \in Threads, Unbind(t) PROVE BindingsOK'
    <2>3. dropped' \subseteq SessionSlots
        BY <1>1, <1>3 DEF Unbind
    <2> DEFINE s == th[t].oidx
               m == session[s].nWaitMsgID
               q == RemoveFirst(bindingList[m], s)
    <2>1. CASE m \in MsgIDs
        <3>1. bindingList' = [bindingList EXCEPT ![m] = q]
            BY <1>3, <2>1 DEF Unbind
        <3>2. q \in Seq(SessionSlots) /\ Len(q) <= Len(bindingList[m])
            BY <1>1, <2>1, RemoveFirstShortens
        <3> HIDE DEF q, m
        <3>4. Len(bindingList[m]) <= MaxBindings /\ bindingList[m] \in Seq(SessionSlots)
            BY <1>1, <2>1
        <3>5. Len(q) \in Nat /\ Len(bindingList[m]) \in Nat /\ MaxBindings \in Nat
            BY <3>2, <3>4, SessionAssumption
        <3>3. Len(q) <= MaxBindings
            BY <3>2, <3>4, <3>5
        <3> QED
            BY <1>1, <2>1, <2>3, <3>1, <3>2, <3>3 DEF BindingsOK
    <2>2. CASE m \notin MsgIDs
        BY <1>1, <1>3, <2>2, <2>3 DEF Unbind, BindingsOK
    <2> QED
        BY <2>1, <2>2
<1>4. ASSUME NEW s \in SessionSlots, NEW m \in MsgIDs, AddSessionBindMsg(s, m) PROVE BindingsOK'
    <2>1. CASE Len(bindingList[m]) < MaxBindings
        <3>1. bindingList' = [bindingList EXCEPT ![m] = Append(bindingList[m], s)]
            BY <1>4, <2>1 DEF AddSessionBindMsg
        <3>3. dropped' \subseteq SessionSlots
            BY <1>1, <1>4, <2>1 DEF AddSessionBindMsg
        <3>2. /\ Append(bindingList[m], s) \in Seq(SessionSlots)
              /\ Len(Append(bindingList[m], s)) <= MaxBindings
            BY <1>1, <2>1, SessionAssumption
        <3> QED
            BY <1>1, <3>1, <3>2, <3>3 DEF BindingsOK
    <2>2. CASE ~ (Len(bindingList[m]) < MaxBindings)
        BY <1>1, <1>4, <2>2 DEF AddSessionBindMsg, BindingsOK
    <2> QED
        BY <2>1, <2>2
<1>5. ASSUME NEW t \in Threads, BindSession(t) PROVE BindingsOK'
    BY <1>1, <1>4, <1>5 DEF BindSession, Locals, IInv, ThreadsOK, At
<1>6. ASSUME NEW t \in Threads, Rebind(t) PROVE BindingsOK'
    BY <1>1, <1>4, <1>6 DEF Rebind, Locals
<1>7. ASSUME NEW t \in Threads, SharedStep(t) PROVE Unbind(t) \/ UNCHANGED bindingVars
    BY <1>7, Zenon DEF SharedStep, RemoveItsTimer, Destroy, Reset, Release
<1>8. ASSUME NEW t \in Threads, CreateStep(t) PROVE BindSession(t) \/ UNCHANGED bindingVars
    BY <1>8, Zenon DEF CreateStep, ReadSeq, WriteSeq, CreateItsTimer, SetUpSession, UndoTimer, SendRequest
<1>9. ASSUME NEW t \in Threads, TimerStep(t) PROVE UNCHANGED bindingVars
    BY <1>9, Zenon DEF TimerStep, GetFirstTimer, CheckEndTime, BeginEvent, TimedOut, TimerCall,
        TimerBack, CheckSeq, Retire
<1>10. ASSUME NEW t \in Threads, ResponseStep(t) PROVE UNCHANGED bindingVars
    BY <1>10, Zenon DEF ResponseStep, PopResponse, OtherMessage, LookUpBinding, Answered, RespCall, RespBack
<1>11. ASSUME NEW t \in Threads, AppStep(t) PROVE Rebind(t) \/ UNCHANGED bindingVars
    BY <1>11, Zenon DEF AppStep, CreateObject, RemoveSession, AppReturn
<1>12. ASSUME TimePasses \/ PeerAnswers \/ UNCHANGED vars PROVE UNCHANGED bindingVars
    BY <1>12 DEF TimePasses, PeerAnswers, vars
<1> QED
    BY <1>2, <1>3, <1>5, <1>6, <1>7, <1>8, <1>9, <1>10, <1>11, <1>12 DEF Next, ThreadStep
-----------------------------------------------------------------------------
\* Requests and responses: they name slots and messages that exist.
LEMMA NetStep == IInv /\ [Next]_vars => NetOK'
<1> SUFFICES ASSUME IInv, [Next]_vars PROVE NetOK'
    OBVIOUS
<1>1. recvSS \in Seq(Responses) /\ peers \subseteq Responses
    BY DEF IInv, NetOK
<1>2. CASE UNCHANGED netVars
    BY <1>1, <1>2 DEF NetOK, netVars
<1>3. ASSUME NEW t \in Threads, SendRequest(t) PROVE NetOK'
    <2> DEFINE r == [idx |-> th[t].oidx, msg |-> th[t].omsg, req |-> session[th[t].oidx].nSessionSeq]
    <2>1. th[t].omsg \in MsgIDs /\ th[t].oidx \in SessionSlots
        BY <1>3 DEF SendRequest, At, IInv, ThreadsOK, Locals
    <2>2. r \in Responses
        BY <2>1 DEF IInv, FieldsOK, Sessions, Responses
    <2>3. recvSS' = recvSS /\ (peers' = peers \cup {r} \/ peers' = peers)
        BY <1>3 DEF SendRequest
    <2> QED
        BY <1>1, <2>2, <2>3 DEF NetOK
<1>4. ASSUME NEW t \in Threads, PopResponse(t) PROVE NetOK'
    BY <1>1, <1>4 DEF PopResponse, NetOK
<1>5. ASSUME PeerAnswers PROVE NetOK'
    BY <1>1, <1>5 DEF PeerAnswers, NetOK
<1>6. ASSUME NEW t \in Threads, SharedStep(t) PROVE UNCHANGED netVars
    BY <1>6, Zenon DEF SharedStep, Unbind, RemoveItsTimer, Destroy, Reset, Release
<1>7. ASSUME NEW t \in Threads, CreateStep(t) PROVE SendRequest(t) \/ UNCHANGED netVars
    BY <1>7, Zenon DEF CreateStep, ReadSeq, WriteSeq, CreateItsTimer, SetUpSession, UndoTimer, BindSession
<1>8. ASSUME NEW t \in Threads, TimerStep(t) PROVE UNCHANGED netVars
    BY <1>8, Zenon DEF TimerStep, GetFirstTimer, CheckEndTime, BeginEvent, TimedOut, TimerCall,
        TimerBack, CheckSeq, Retire
<1>9. ASSUME NEW t \in Threads, ResponseStep(t) PROVE PopResponse(t) \/ UNCHANGED netVars
    BY <1>9, Zenon DEF ResponseStep, OtherMessage, LookUpBinding, Answered, RespCall, RespBack
<1>10. ASSUME NEW t \in Threads, AppStep(t) PROVE UNCHANGED netVars
    BY <1>10, Zenon DEF AppStep, CreateObject, RemoveSession, Rebind, AppReturn
<1>11. ASSUME TimePasses \/ UNCHANGED vars PROVE UNCHANGED netVars
    BY <1>11 DEF TimePasses, vars
<1> QED
    BY <1>2, <1>3, <1>4, <1>5, <1>6, <1>7, <1>8, <1>9, <1>10, <1>11 DEF Next, ThreadStep
-----------------------------------------------------------------------------
\* The control points a step goes to.
LEMMA PCNames ==
    /\ {"idle", "check", "begin", "timedout", "timercall", "timerback", "fired", "retire"} \subseteq PCs
    /\ {"poll", "lookup", "answered", "respcall", "respback", "app", "number", "numbered"} \subseteq PCs
    /\ {"timer", "setup", "undo", "bind", "send", "unbind", "rmtimer", "destroy", "reset"} \subseteq PCs
BY DEF PCs

\* The locals of one thread change; every other thread keeps its own.
LEMMA OneThread ==
    ASSUME ThreadsOK, NEW t \in Threads, NEW r \in Locals,
           th' = [th EXCEPT ![t] = r], r.pc \in {"bind", "send"} => r.omsg \in MsgIDs
    PROVE  ThreadsOK'
BY DEF ThreadsOK, Locals

\* ... when the control point is all that changes.
LEMMA OneGoto ==
    ASSUME ThreadsOK, NEW t \in Threads, NEW pc \in PCs \ {"bind", "send"}, Goto(t, pc)
    PROVE  ThreadsOK'
<1> DEFINE r == [th[t] EXCEPT !.pc = pc]
<1>1. th[t] \in Locals /\ th' = [th EXCEPT ![t] = r]
    BY DEF ThreadsOK, Goto
<1>2. r \in Locals /\ r.pc = pc
    BY <1>1 DEF Locals
<1> QED
    BY <1>1, <1>2, OneThread

LEMMA OneFinish ==
    ASSUME ThreadsOK, NEW t \in Threads, Finish(t)
    PROVE  ThreadsOK'
BY OneThread, IdleIsLocals DEF Finish, Idle

LEMMA OneReturnToApp ==
    ASSUME ThreadsOK, NEW t \in Threads, ReturnToApp(t)
    PROVE  ThreadsOK'
<1> DEFINE p == [th[t] EXCEPT !.pc = "app", !.oidx = 0, !.otim = NoTimer]
           r == [p EXCEPT !.omsg = NoMsg, !.next = "idle", !.ret = "idle"]
<1>1. th[t] \in Locals /\ th' = [th EXCEPT ![t] = r]
    BY DEF ThreadsOK, ReturnToApp
<1>2. p \in Locals /\ p.pc = "app"
    BY <1>1, SlotsStartAtZero, PCNames DEF Locals
<1> HIDE DEF p
<1>3. r \in Locals /\ r.pc = "app"
    BY <1>2 DEF Locals
<1> QED
    BY <1>1, <1>3, OneThread

LEMMA OneReturn ==
    ASSUME ThreadsOK, NEW t \in Threads, Return(t)
    PROVE  ThreadsOK'
<1>1. th[t].ret \in {"idle", "app", "undo", "fired"}
    BY DEF ThreadsOK, Locals
<1> QED
    BY <1>1, OneReturnToApp, OneFinish, OneGoto DEF Return, PCs

\* The locals of the threads: a step takes indices from tables that hold
\* slots only, and messages from sessions and responses.
LEMMA SharedThreads ==
    ASSUME IInv, NEW t \in Threads, SharedStep(t)
    PROVE  ThreadsOK'
<1>1. ThreadsOK /\ th[t].next \in {"idle", "rmtimer", "timercall", "respcall", "destroy"}
    BY DEF IInv, ThreadsOK, Locals
<1>2. CASE Unbind(t)
    BY <1>1, <1>2, OneGoto DEF Unbind, PCs
<1>3. CASE RemoveItsTimer(t)
    BY <1>1, <1>3, OneGoto DEF RemoveItsTimer, PCs
<1>4. CASE Destroy(t)
    BY <1>1, <1>4, OneGoto, OneReturn DEF Destroy, PCs
<1>5. CASE Reset(t)
    BY <1>1, <1>5, OneGoto DEF Reset, PCs
<1>6. CASE Release(t)
    BY <1>1, <1>6, OneReturn DEF Release
<1> QED
    BY <1>2, <1>3, <1>4, <1>5, <1>6 DEF SharedStep

LEMMA CreateThreads ==
    ASSUME IInv, NEW t \in Threads, CreateStep(t)
    PROVE  ThreadsOK'
<1> DEFINE l == th[t]
<1>1. l \in Locals
    BY DEF IInv, ThreadsOK
<1>8. ThreadsOK
    BY DEF IInv
<1>2. CASE ReadSeq(t)
    <2> DEFINE r == [l EXCEPT !.pc = "numbered", !.onum = m_nSessionSeq + 1]
    <2>1. th' = [th EXCEPT ![t] = r]
        BY <1>2, Zenon DEF ReadSeq
    <2>2. m_nSessionSeq + 1 \in Nat
        BY DEF IInv, FieldsOK
    <2>3. r \in Locals /\ r.pc = "numbered"
        BY <1>1, <2>2, PCNames DEF Locals
    <2> QED
        BY <1>8, <2>1, <2>3, OneThread
<1>3. CASE WriteSeq(t)
    <2> DEFINE r == [l EXCEPT !.pc = "timer", !.onum = 0]
    <2>1. th' = [th EXCEPT ![t] = r]
        BY <1>3, Zenon DEF WriteSeq
    <2>2. r \in Locals /\ r.pc = "timer"
        BY <1>1, PCNames DEF Locals
    <2> QED
        BY <1>8, <2>1, <2>2, OneThread
<1>4. CASE CreateItsTimer(t)
    <2>1. CASE CreateTimerRefused /\ th' = [th EXCEPT ![t].pc = "destroy", ![t].ret = "app"]
        <3> DEFINE r == [l EXCEPT !.pc = "destroy", !.ret = "app"]
        <3>1. th' = [th EXCEPT ![t] = r]
            BY <2>1, Zenon
        <3>2. r \in Locals /\ r.pc = "destroy"
            BY <1>1, PCNames DEF Locals
        <3> QED
            BY <1>8, <3>1, <3>2, OneThread
    <2>2. ASSUME NEW cycle \in CycleTimes, CreateTimer(l.oidx, cycle, FALSE),
                 th' = [th EXCEPT ![t].pc = "setup", ![t].otim = NextSlot(m_timerPool)]
          PROVE  ThreadsOK'
        <3> DEFINE r == [l EXCEPT !.pc = "setup", !.otim = NextSlot(m_timerPool)]
        <3>1. th' = [th EXCEPT ![t] = r]
            BY <2>2, Zenon
        <3>2. NextSlot(m_timerPool) \in TimerSlots
            BY <2>2, StoreInvPool, TakeSlotWellFormed, MaxTimersAssumption
            DEF CreateTimer, IInv, TimersOK, TimerSlots
        <3>3. r \in Locals /\ r.pc = "setup"
            BY <1>1, <3>2, PCNames DEF Locals
        <3> QED
            BY <1>8, <3>1, <3>3, OneThread
    <2> QED
        BY <1>4, <2>1, <2>2 DEF CreateItsTimer
<1>5. CASE SetUpSession(t)
    <2>1. ASSUME NEW m \in MsgIDs, th' = [th EXCEPT ![t].pc = "bind", ![t].omsg = m]
          PROVE  ThreadsOK'
        <3> DEFINE r == [l EXCEPT !.pc = "bind", !.omsg = m]
        <3>1. th' = [th EXCEPT ![t] = r]
            BY <2>1, Zenon
        <3>2. r \in Locals /\ r.omsg \in MsgIDs
            BY <1>1, PCNames DEF Locals
        <3> QED
            BY <1>8, <3>1, <3>2, OneThread
    <2>2. CASE th' = [th EXCEPT ![t].pc = "destroy", ![t].ret = "undo"]
        <3> DEFINE r == [l EXCEPT !.pc = "destroy", !.ret = "undo"]
        <3>1. th' = [th EXCEPT ![t] = r]
            BY <2>2, Zenon
        <3>2. r \in Locals /\ r.pc = "destroy"
            BY <1>1, PCNames DEF Locals
        <3> QED
            BY <1>8, <3>1, <3>2, OneThread
    <2> QED
        BY <1>5, <2>1, <2>2 DEF SetUpSession
<1>6. CASE BindSession(t)
    <2> DEFINE r == [l EXCEPT !.pc = "send"]
    <2>1. th' = [th EXCEPT ![t] = r]
        BY <1>6, Zenon DEF BindSession, Goto
    <2>2. l.omsg \in MsgIDs
        BY <1>6 DEF BindSession, At, IInv, ThreadsOK
    <2>3. r \in Locals /\ r.omsg \in MsgIDs
        BY <1>1, <2>2, PCNames DEF Locals
    <2> QED
        BY <1>8, <2>1, <2>3, OneThread
<1>7. CASE UndoTimer(t) \/ SendRequest(t)
    BY <1>8, <1>7, OneReturnToApp DEF UndoTimer, SendRequest
<1> QED
    BY <1>2, <1>3, <1>4, <1>5, <1>6, <1>7 DEF CreateStep

LEMMA TimerThreads ==
    ASSUME IInv, NEW t \in Threads, TimerStep(t)
    PROVE  ThreadsOK'
<1> DEFINE l == th[t]
<1>1. l \in Locals
    BY DEF IInv, ThreadsOK
<1>2. /\ l.tidx \in TimerSlots /\ l.sidx \in SessionSlots
      /\ timer \in [TimerSlots -> FrameTimers] /\ session \in [SessionSlots -> Sessions]
      /\ \A i \in TimerSlots : timer[i].nTimerID \in SessionSlots
    BY <1>1 DEF Locals, IInv, FieldsOK, TimersOK, StoreInv, TimerStoreTypeOK
<1>3. ThreadsOK
    BY DEF IInv
<1>4. CASE GetFirstTimer(t)
    <2>1. CASE m_timerMap = {}
        BY <1>3, <1>4, <2>1, OneGoto, PCNames DEF GetFirstTimer
    <2>2. CASE m_timerMap # {}
        <3>1. PICK i \in FirstTimers : th' = [th EXCEPT ![t].pc = "check", ![t].tidx = i]
            BY <1>4, <2>2 DEF GetFirstTimer
        <3> DEFINE r == [l EXCEPT !.pc = "check", !.tidx = i]
        <3>2. th' = [th EXCEPT ![t] = r]
            BY <3>1, Zenon
        <3>3. i \in TimerSlots
            BY DEF FirstTimers, IInv, TimersOK, StoreInv, TimerStoreTypeOK
        <3>4. r \in Locals /\ r.pc = "check"
            BY <1>1, <3>3, PCNames DEF Locals
        <3> QED
            BY <1>3, <3>2, <3>4, OneThread
    <2> QED
        BY <2>1, <2>2
<1>5. CASE CheckEndTime(t)
    <2>1. CASE Goto(t, "begin")
        BY <1>3, <2>1, OneGoto, PCNames
    <2>2. CASE th' = [th EXCEPT ![t].pc = "poll", ![t].tidx = 0]
        <3> DEFINE r == [l EXCEPT !.pc = "poll", !.tidx = 0]
        <3>1. th' = [th EXCEPT ![t] = r]
            BY <2>2, Zenon
        <3>2. r \in Locals /\ r.pc = "poll"
            BY <1>1, SlotsStartAtZero, PCNames DEF Locals
        <3> QED
            BY <1>3, <3>1, <3>2, OneThread
    <2> QED
        BY <1>5, <2>1, <2>2 DEF CheckEndTime
<1>6. CASE BeginEvent(t)
    <2> DEFINE tm == timer[l.tidx]
               pc == IF tm.pEventHandle THEN "timedout" ELSE "fired"
               r == [l EXCEPT !.tseq = tm.nTimerSeq, !.sidx = tm.nTimerID, !.pc = pc]
    <2>1. th' = [th EXCEPT ![t] = r]
        BY <1>6, Zenon DEF BeginEvent
    <2>2. tm.nTimerSeq \in Nat /\ tm.nTimerID \in SessionSlots
        BY <1>2 DEF FrameTimers
    <2>3. pc \in PCs /\ pc \notin {"bind", "send"}
        BY PCNames
    <2> HIDE DEF tm, pc
    <2>4. r \in Locals /\ r.pc = pc
        BY <1>1, <2>2, <2>3 DEF Locals
    <2> QED
        BY <1>3, <2>1, <2>3, <2>4, OneThread
<1>7. CASE TimedOut(t)
    <2>1. CASE Goto(t, "fired")
        BY <1>3, <2>1, OneGoto, PCNames
    <2>2. ASSUME NEW pc \in {"unbind", "timercall"},
                 th' = [th EXCEPT ![t].pc = pc, ![t].oidx = l.sidx, ![t].next = "timercall"]
          PROVE  ThreadsOK'
        <3> DEFINE r == [l EXCEPT !.pc = pc, !.oidx = l.sidx, !.next = "timercall"]
        <3>1. th' = [th EXCEPT ![t] = r]
            BY <2>2, Zenon
        <3>2. pc \in PCs /\ pc \notin {"bind", "send"}
            BY <2>2, PCNames
        <3>3. r \in Locals /\ r.pc = pc
            BY <1>1, <1>2, <3>2 DEF Locals
        <3> QED
            BY <1>3, <3>1, <3>2, <3>3, OneThread
    <2> QED
        BY <1>7, <2>1, <2>2 DEF TimedOut
<1>8. CASE TimerCall(t)
    <2> DEFINE q == session[l.sidx].nSessionSeq
               pc == IF session[l.sidx].nTimerIndex # NoTimer THEN "app" ELSE "timerback"
               r == [l EXCEPT !.sseq = q, !.oidx = 0, !.next = "idle", !.in = "timer", !.pc = pc]
    <2>1. th' = [th EXCEPT ![t] = r]
        BY <1>8, Zenon DEF TimerCall
    <2>2. q \in Nat
        BY <1>2 DEF Sessions
    <2>3. pc \in PCs /\ pc \notin {"bind", "send"}
        BY PCNames
    <2> HIDE DEF q, pc
    <2>4. r \in Locals /\ r.pc = pc
        BY <1>1, <2>2, <2>3, SlotsStartAtZero DEF Locals
    <2> QED
        BY <1>3, <2>1, <2>3, <2>4, OneThread
<1>9. CASE TimerBack(t)
    <2>1. CASE th' = [th EXCEPT ![t].pc = "fired", ![t].in = "none"]
        <3> DEFINE r == [l EXCEPT !.pc = "fired", !.in = "none"]
        <3>1. th' = [th EXCEPT ![t] = r]
            BY <2>1, Zenon
        <3>2. r \in Locals /\ r.pc = "fired"
            BY <1>1, PCNames DEF Locals
        <3> QED
            BY <1>3, <3>1, <3>2, OneThread
    <2>2. ASSUME NEW pc \in {"unbind", "destroy"},
                 th' = [th EXCEPT ![t].pc = pc, ![t].in = "none", ![t].oidx = l.sidx,
                                  ![t].next = "destroy", ![t].ret = "fired"]
          PROVE  ThreadsOK'
        <3> DEFINE r == [l EXCEPT !.pc = pc, !.in = "none", !.oidx = l.sidx,
                                  !.next = "destroy", !.ret = "fired"]
        <3>1. th' = [th EXCEPT ![t] = r]
            BY <2>2, Zenon
        <3>2. pc \in PCs /\ pc \notin {"bind", "send"}
            BY <2>2, PCNames
        <3>3. r \in Locals /\ r.pc = pc
            BY <1>1, <1>2, <3>2 DEF Locals
        <3> QED
            BY <1>3, <3>1, <3>2, <3>3, OneThread
    <2> QED
        BY <1>9, <2>1, <2>2 DEF TimerBack
<1>10. CASE CheckSeq(t) \/ Retire(t)
    BY <1>3, <1>10, OneGoto, OneFinish, PCNames DEF CheckSeq, Retire
<1> QED
    BY <1>4, <1>5, <1>6, <1>7, <1>8, <1>9, <1>10 DEF TimerStep

LEMMA ResponseThreads ==
    ASSUME IInv, NEW t \in Threads, ResponseStep(t)
    PROVE  ThreadsOK'
<1> DEFINE l == th[t]
<1>1. l \in Locals
    BY DEF IInv, ThreadsOK
<1>2. /\ l.sidx \in SessionSlots /\ l.resp.idx \in SessionSlots
      /\ session \in [SessionSlots -> Sessions]
    BY <1>1, SlotsStartAtZero DEF Locals, IInv, FieldsOK, Responses, NoResponse
<1>3. ThreadsOK
    BY DEF IInv
<1>4. CASE PopResponse(t)
    <2> DEFINE r == [l EXCEPT !.pc = "lookup", !.resp = Head(recvSS)]
    <2>1. th' = [th EXCEPT ![t] = r]
        BY <1>4, Zenon DEF PopResponse
    <2>2. Head(recvSS) \in Responses
        BY <1>4 DEF PopResponse, IInv, NetOK
    <2>3. r \in Locals /\ r.pc = "lookup"
        BY <1>1, <2>2, PCNames DEF Locals
    <2> QED
        BY <1>3, <2>1, <2>3, OneThread
<1>5. CASE OtherMessage(t)
    BY <1>3, <1>5, OneGoto, OneFinish, PCNames DEF OtherMessage
<1>6. CASE LookUpBinding(t)
    <2>1. CASE Finish(t)
        BY <1>3, <2>1, OneFinish
    <2>2. CASE th' = [th EXCEPT ![t].pc = "answered", ![t].sidx = l.resp.idx]
        <3> DEFINE r == [l EXCEPT !.pc = "answered", !.sidx = l.resp.idx]
        <3>1. th' = [th EXCEPT ![t] = r]
            BY <2>2, Zenon
        <3>2. r \in Locals /\ r.pc = "answered"
            BY <1>1, <1>2, PCNames DEF Locals
        <3> QED
            BY <1>3, <3>1, <3>2, OneThread
    <2> QED
        BY <1>6, <2>1, <2>2 DEF LookUpBinding
<1>7. CASE Answered(t)
    <2> DEFINE w == session[l.sidx].nWaitMsgID
    <2>1. CASE Finish(t)
        BY <1>3, <2>1, OneFinish
    <2>2. ASSUME NEW pc \in {"unbind", "respcall"},
                 th' = [th EXCEPT ![t].pc = pc, ![t].wait = w, ![t].oidx = l.sidx,
                                  ![t].next = "respcall"]
          PROVE  ThreadsOK'
        <3> DEFINE r == [l EXCEPT !.pc = pc, !.wait = w, !.oidx = l.sidx, !.next = "respcall"]
        <3>1. th' = [th EXCEPT ![t] = r]
            BY <2>2, Zenon
        <3>2. pc \in PCs /\ pc \notin {"bind", "send"}
            BY <2>2, PCNames
        <3>3. w \in MsgIDs \cup {NoMsg}
            BY <1>2 DEF Sessions
        <3> HIDE DEF w
        <3>4. r \in Locals /\ r.pc = pc
            BY <1>1, <1>2, <3>2, <3>3 DEF Locals
        <3> QED
            BY <1>3, <3>1, <3>2, <3>4, OneThread
    <2> QED
        BY <1>7, <2>1, <2>2 DEF Answered
<1>8. CASE RespCall(t)
    <2> DEFINE q == session[l.sidx].nSessionSeq
    <2>1. ASSUME NEW pc \in {"app", "respback"},
                 th' = [th EXCEPT ![t].sseq = q, ![t].oidx = 0, ![t].next = "idle",
                                  ![t].in = "resp", ![t].pc = pc]
          PROVE  ThreadsOK'
        <3> DEFINE r == [l EXCEPT !.sseq = q, !.oidx = 0, !.next = "idle", !.in = "resp", !.pc = pc]
        <3>1. th' = [th EXCEPT ![t] = r]
            BY <2>1, Zenon
        <3>2. q \in Nat /\ pc \in PCs /\ pc \notin {"bind", "send"}
            BY <1>2, <2>1, PCNames DEF Sessions
        <3> HIDE DEF q
        <3>3. r \in Locals /\ r.pc = pc
            BY <1>1, <3>2, SlotsStartAtZero DEF Locals
        <3> QED
            BY <1>3, <3>1, <3>2, <3>3, OneThread
    <2> QED
        BY <1>8, <2>1 DEF RespCall
<1>9. CASE RespBack(t)
    <2>1. CASE Finish(t)
        BY <1>3, <2>1, OneFinish
    <2>2. CASE th' = [th EXCEPT ![t].pc = "rmtimer", ![t].in = "none", ![t].oidx = l.sidx,
                                ![t].ret = "idle"]
        <3> DEFINE r == [l EXCEPT !.pc = "rmtimer", !.in = "none", !.oidx = l.sidx, !.ret = "idle"]
        <3>1. th' = [th EXCEPT ![t] = r]
            BY <2>2, Zenon
        <3>2. r \in Locals /\ r.pc = "rmtimer"
            BY <1>1, <1>2, PCNames DEF Locals
        <3> QED
            BY <1>3, <3>1, <3>2, OneThread
    <2> QED
        BY <1>9, <2>1, <2>2 DEF RespBack
<1> QED
    BY <1>4, <1>5, <1>6, <1>7, <1>8, <1>9 DEF ResponseStep

LEMMA AppThreads ==
    ASSUME IInv, NEW t \in Threads, AppStep(t)
    PROVE  ThreadsOK'
<1> DEFINE l == th[t]
<1>1. l \in Locals
    BY DEF IInv, ThreadsOK
<1>2. ThreadsOK
    BY DEF IInv
<1>3. CASE CreateObject(t)
    <2> DEFINE s == NextSlot(m_sessionPool)
               r == [l EXCEPT !.pc = "number", !.oidx = s]
    <2>1. th' = [th EXCEPT ![t] = r]
        BY <1>3, Zenon DEF CreateObject
    <2>2. s \in SessionSlots
        BY <1>3, TakeSlotWellFormed, SessionAssumption
        DEF CreateObject, IInv, PoolOK, SessionSlots
    <2> HIDE DEF s
    <2>3. r \in Locals /\ r.pc = "number"
        BY <1>1, <2>2, PCNames DEF Locals
    <2> QED
        BY <1>2, <2>1, <2>3, OneThread
<1>4. CASE RemoveSession(t)
    <2>1. ASSUME NEW s \in SessionSlots, NEW pc \in {"unbind", "rmtimer"},
                 th' = [th EXCEPT ![t].pc = pc, ![t].oidx = s, ![t].next = "rmtimer",
                                  ![t].ret = "app"]
          PROVE  ThreadsOK'
        <3> DEFINE r == [l EXCEPT !.pc = pc, !.oidx = s, !.next = "rmtimer", !.ret = "app"]
        <3>1. th' = [th EXCEPT ![t] = r]
            BY <2>1, Zenon
        <3>2. pc \in PCs /\ pc \notin {"bind", "send"}
            BY <2>1, PCNames
        <3>3. r \in Locals /\ r.pc = pc
            BY <1>1, <2>1, <3>2 DEF Locals
        <3> QED
            BY <1>2, <3>1, <3>2, <3>3, OneThread
    <2>2. m_sessionPool.used \subseteq SessionSlots
        BY DEF IInv, PoolOK, IsPool, SessionSlots
    <2> QED
        BY <1>4, <2>1, <2>2 DEF RemoveSession
<1>5. CASE Rebind(t)
    BY <1>2, <1>5 DEF Rebind, ThreadsOK
<1>6. CASE AppReturn(t)
    BY <1>2, <1>6, OneGoto, OneFinish, PCNames DEF AppReturn
<1> QED
    BY <1>3, <1>4, <1>5, <1>6 DEF AppStep
-----------------------------------------------------------------------------
\* One step of any thread, of the clock or of another server.
LEMMA IInvStep == IInv /\ [Next]_vars => IInv'
<1> SUFFICES ASSUME IInv, [Next]_vars PROVE IInv'
    OBVIOUS
<1>1. ThreadsOK'
    <2>1. CASE TimePasses \/ PeerAnswers \/ UNCHANGED vars
        BY <2>1 DEF TimePasses, PeerAnswers, vars, IInv, ThreadsOK
    <2> QED
        BY <2>1, SharedThreads, CreateThreads, TimerThreads, ResponseThreads, AppThreads
        DEF Next, ThreadStep
<1> QED
    BY <1>1, TimersStep, PoolStep, FieldsStep, BindingsStep, NetStep DEF IInv

\* Type correctness of the session manager and its threads: whatever another
\* thread does to a session meanwhile, the slot, the timer index and the
\* message a thread goes on with are in range.
THEOREM TypeCorrect == Spec => []TypeOK
<1>1. IInv => TypeOK
    BY DEF IInv, TimersOK, StoreInv, PoolOK, IsPool, FieldsOK, BindingsOK, NetOK, ThreadsOK, Locals,
        TypeOK, SessionSlots
<1> QED
    BY <1>1, IInvInit, IInvStep, PTL DEF Spec

\* The three locks suffice to keep each of the three tables consistent in
\* itself, although no operation on a session holds two of them.
THEOREM TablesStayConsistent == Spec => []TablesConsistent
<1>1. IInv => TablesConsistent
    BY DEF IInv, TimersOK, StoreInv, PoolOK, IsPool, BindingsOK, TablesConsistent
<1> QED
    BY <1>1, IInvInit, IInvStep, PTL DEF Spec
-----------------------------------------------------------------------------
(* One application thread.  With several, two of them may handle the same   *)
(* timer and each end the other's session (run timer_guard), so what the    *)
(* three tables say of each other is a property of a lone thread only.      *)
LoneThread == \E t \in Threads : Threads = {t}

\* A session that is being made or unmade, and the timer of an operation whose
\* session is not there, or no more.
Making == {"number", "numbered", "timer", "setup"}
Ending == {"destroy", "reset", "release"}
Torn(t, s) == th[t].pc \in Making \cup Ending /\ s = th[t].oidx
Loose(t, i) ==
    \/ i = th[t].otim /\ \/ th[t].pc \in {"setup", "undo"}
                         \/ th[t].pc \in Ending /\ th[t].ret = "undo"
    \/ i = th[t].tidx /\ \/ th[t].pc \in {"fired", "retire"} /\ IsTimer(i, th[t].tseq)
                         \/ th[t].pc \in Ending /\ th[t].ret = "fired"

\* All other sessions and timers correspond, at every step of every operation.
MatchInv(t) ==
    /\ \A s \in m_sessionPool.used : ~ Torn(t, s) =>
          /\ session[s].nTimerIndex \in m_timerPool.used /\ ~ Loose(t, session[s].nTimerIndex)
          /\ timer[session[s].nTimerIndex].nTimerID = s
    /\ \A i \in m_timerPool.used : ~ Loose(t, i) =>
          /\ timer[i].nTimerID \in m_sessionPool.used /\ ~ Torn(t, timer[i].nTimerID)
          /\ session[timer[i].nTimerID].nTimerIndex = i

\* So do bindings and sessions, but for the session about to be bound.
BindInv(t) ==
    /\ \A m \in MsgIDs :
        /\ IsInjective(bindingList[m])
        /\ \A s \in ToSet(bindingList[m]) : s \in m_sessionPool.used /\ session[s].nWaitMsgID = m
        /\ \A s \in m_sessionPool.used \ dropped :
              session[s].nWaitMsgID = m => s \in ToSet(bindingList[m]) \/ (At(t, "bind") /\ s = th[t].oidx)
    /\ At(t, "bind") => /\ session[th[t].oidx].nWaitMsgID = th[t].omsg
                        /\ \A m \in MsgIDs : th[t].oidx \notin ToSet(bindingList[m])
    /\ th[t].pc \in Making \cup Ending \cup {"rmtimer"} => session[th[t].oidx].nWaitMsgID = NoMsg

\* Session numbers are given out once.
NumberInv(t) ==
    /\ \A s \in m_sessionPool.used :
          /\ session[s].nSessionSeq <= m_nSessionSeq
          /\ ~ Torn(t, s) => session[s].nSessionSeq > 0
    /\ At(t, "numbered") => th[t].onum = m_nSessionSeq + 1
    /\ th[t].pc \in {"timer", "setup"} => session[th[t].oidx].nSessionSeq > 0

\* What the thread has found, made or kept is still there.
HoldInv(t) ==
    /\ \A i \in m_timerPool.used : timer[i].pEventHandle /\ ~ timer[i].bLoop
    /\ th[t].pc \in Making \cup Ending \cup {"unbind", "rmtimer", "bind"} => th[t].oidx \in m_sessionPool.used
    /\ At(t, "setup") => th[t].otim \in m_timerPool.used /\ timer[th[t].otim].nTimerID = th[t].oidx
    /\ th[t].pc \in {"check", "begin"} => th[t].tidx \in m_timerPool.used
    /\ \/ th[t].pc \in {"timedout", "timercall"}
       \/ At(t, "unbind") /\ th[t].next \in {"timercall", "destroy"}
       => IsTimer(th[t].tidx, th[t].tseq) /\ timer[th[t].tidx].nTimerID = th[t].sidx
    /\ At(t, "unbind") =>
         /\ th[t].next # "idle"
         /\ th[t].next = "rmtimer" => th[t].ret = "app"
         /\ th[t].next = "destroy" => th[t].ret = "fired" /\ th[t].oidx = th[t].sidx
    /\ At(t, "rmtimer") => th[t].ret \in {"app", "idle"}
    /\ At(t, "retire") \/ (th[t].pc \in Ending /\ th[t].ret = "fired") => IsTimer(th[t].tidx, th[t].tseq)
    /\ At(t, "timerback") => th[t].in = "timer"

\* The message a response is decoded as is the one that came.
AnswerInv(t) ==
    /\ th[t].pc \in {"lookup", "answered"} => th[t].resp \in Responses
    /\ At(t, "answered") => th[t].sidx \in ToSet(bindingList[th[t].resp.msg])
    /\ At(t, "respcall") \/ (At(t, "unbind") /\ th[t].next = "respcall") => th[t].wait = th[t].resp.msg

\* While a timed out session is called back, its number and that of its timer
\* stand and fall together.
FrameInv(t) ==
    th[t].in = "timer" =>
      /\ \/ th[t].pc \in Making \cup {"app", "undo", "bind", "send", "timerback"}
         \/ At(t, "unbind") /\ th[t].next = "rmtimer"
         \/ th[t].pc \in Ending \cup {"rmtimer"} /\ th[t].ret \in {"app", "undo"}
      /\ th[t].sseq <= m_nSessionSeq /\ th[t].sseq > 0 /\ th[t].tseq < m_nTimerSeq
      /\ IsTimer(th[t].tidx, th[t].tseq) =>
            /\ ~ Loose(t, th[t].tidx) /\ timer[th[t].tidx].nTimerID = th[t].sidx
            /\ session[th[t].sidx].nSessionSeq = th[t].sseq
      /\ Exists(th[t].sidx) /\ ~ Torn(t, th[t].sidx) /\ session[th[t].sidx].nSessionSeq = th[t].sseq =>
            IsTimer(th[t].tidx, th[t].tseq) /\ session[th[t].sidx].nTimerIndex = th[t].tidx
      /\ th[t].pc \in {"timer", "setup"} => session[th[t].oidx].nSessionSeq > th[t].sseq

LoneInv == /\ IInv
           /\ \A t \in Threads : /\ MatchInv(t) /\ BindInv(t) /\ NumberInv(t)
                                 /\ HoldInv(t) /\ AnswerInv(t) /\ FrameInv(t)

LEMMA LoneInvInit == Init => LoneInv
<1> SUFFICES ASSUME Init PROVE LoneInv
    OBVIOUS
<1>1. IInv
    BY IInvInit
<1>2. /\ m_timerPool.used = {} /\ m_sessionPool.used = {} /\ \A t \in Threads : th[t] = Idle
      /\ bindingList = [m \in MsgIDs |-> << >>]
    BY DEF Init, TimerStoreInit, NewPool
<1>3. ASSUME NEW t \in Threads PROVE MatchInv(t) /\ NumberInv(t) /\ HoldInv(t) /\ AnswerInv(t) /\ FrameInv(t)
    BY <1>2 DEF MatchInv, NumberInv, HoldInv, AnswerInv, FrameInv, At, Idle, Making, Ending
<1>4. ASSUME NEW t \in Threads PROVE BindInv(t)
    BY <1>2 DEF BindInv, At, Idle, Making, Ending, IsInjective, ToSet
<1> QED
    BY <1>1, <1>3, <1>4 DEF LoneInv

\* The locals of a thread that goes on to a control point.
LEMMA GotoKeepsLocals ==
    ASSUME IInv, NEW t \in Threads, NEW pc, Goto(t, pc)
    PROVE  /\ th'[t].pc = pc
           /\ \A f \in {"in", "tidx", "tseq", "resp", "sidx", "sseq", "wait", "oidx", "otim", "omsg",
                        "onum", "next", "ret"} : th'[t][f] = th[t][f]
BY DEF IInv, ThreadsOK, Locals, Goto

LoneParts(t) == /\ MatchInv(t) /\ BindInv(t) /\ NumberInv(t)
                /\ HoldInv(t) /\ AnswerInv(t) /\ FrameInv(t)

LEMMA LoneFacts ==
    ASSUME LoneInv, NEW t \in Threads
    PROVE  /\ th \in [Threads -> Locals] /\ LoneParts(t)
           /\ m_nSessionSeq \in Nat /\ session \in [SessionSlots -> Sessions]
           /\ m_sessionPool.used \subseteq SessionSlots /\ m_timerPool.used \subseteq TimerSlots
           /\ m_timerMap = m_timerPool.used /\ NoTimer \notin TimerSlots
           /\ timer \in [TimerSlots -> FrameTimers]
           /\ \A i \in TimerSlots : timer[i].nTimerID \in SessionSlots
           /\ m_nTimerSeq \in Nat /\ \A i \in m_timerPool.used : timer[i].nTimerSeq < m_nTimerSeq
BY MaxTimersAssumption
DEF LoneInv, LoneParts, IInv, ThreadsOK, FieldsOK, PoolOK, IsPool, SessionSlots, TimersOK, StoreInv,
    TimerStoreTypeOK, TimerStoreConsistent, TimerSeqNamesTimer, TimerSlots, SlotsOf, NoTimer

\* Steps of a session call, and of the application, that change no table.
LEMMA LoneCalls ==
    ASSUME LoneInv, NEW t \in Threads, UNCHANGED <<timerVars, sessionVars, bindingVars>>,
           Destroy(t) \/ ReadSeq(t) \/ SendRequest(t) \/ RemoveSession(t) \/ AppReturn(t)
    PROVE  LoneParts(t)'
<1>1. /\ th \in [Threads -> Locals] /\ LoneParts(t)
      /\ m_nSessionSeq \in Nat /\ session \in [SessionSlots -> Sessions]
      /\ m_sessionPool.used \subseteq SessionSlots
    BY LoneFacts
<1>2. UNCHANGED <<m_timerPool, timer, m_nTimerSeq, m_sessionPool, session, m_nSessionSeq, bindingList, dropped>>
    BY DEF timerVars, sessionVars, bindingVars
<1> USE DEF LoneParts, MatchInv, BindInv, NumberInv, HoldInv, AnswerInv, FrameInv, Making, Ending,
            Torn, Loose, At, IsTimer, InUse, Exists
<1>3. CASE ReadSeq(t)
    <2>1. /\ th'[t].pc = "numbered" /\ th[t].pc = "number" /\ th'[t].onum = m_nSessionSeq + 1
          /\ \A f \in {"in", "tidx", "tseq", "resp", "sidx", "sseq", "wait", "oidx", "otim", "omsg",
                       "next", "ret"} : th'[t][f] = th[t][f]
        BY <1>1, <1>3 DEF ReadSeq, Locals
    <2> QED
        BY <1>1, <1>2, <2>1
<1>4. CASE Destroy(t)
    <2>1. Goto(t, "reset") /\ th[t].pc = "destroy"
        BY <1>1, <1>4 DEF Destroy
    <2>2. /\ th'[t].pc = "reset"
          /\ \A f \in {"in", "tidx", "tseq", "resp", "sidx", "sseq", "wait", "oidx", "otim", "omsg",
                       "onum", "next", "ret"} : th'[t][f] = th[t][f]
        BY <2>1, GotoKeepsLocals DEF LoneInv
    <2> QED
        BY <1>1, <1>2, <2>1, <2>2
<1>5. CASE SendRequest(t)
    <2>1. /\ th[t].pc = "send" /\ th'[t].pc = "app"
          /\ \A f \in {"in", "tidx", "tseq", "sidx", "sseq"} : th'[t][f] = th[t][f]
        BY <1>1, <1>5 DEF SendRequest, ReturnToApp, Locals
    <2> QED
        BY <1>1, <1>2, <2>1
<1>6. CASE RemoveSession(t)
    <2>1. PICK s \in m_sessionPool.used :
             th' = [th EXCEPT ![t].pc = IF session[s].nWaitMsgID # NoMsg THEN "unbind" ELSE "rmtimer",
                              ![t].oidx = s, ![t].next = "rmtimer", ![t].ret = "app"]
        BY <1>6 DEF RemoveSession
    <2> DEFINE pc == IF session[s].nWaitMsgID # NoMsg THEN "unbind" ELSE "rmtimer"
    <2>2. pc \in {"unbind", "rmtimer"} /\ (pc = "rmtimer" => session[s].nWaitMsgID = NoMsg)
        OBVIOUS
    <2> HIDE DEF pc
    <2>3. th' = [th EXCEPT ![t].pc = pc, ![t].oidx = s, ![t].next = "rmtimer", ![t].ret = "app"]
        BY <2>1 DEF pc
    <2>4. /\ th'[t].pc = pc
          /\ th'[t].oidx = s /\ th'[t].next = "rmtimer" /\ th'[t].ret = "app"
          /\ \A f \in {"in", "tidx", "tseq", "sidx", "sseq"} : th'[t][f] = th[t][f]
        BY <1>1, <2>3 DEF Locals
    <2>5. th[t].pc = "app"
        BY <1>6 DEF RemoveSession
    <2>6. MatchInv(t)' /\ BindInv(t)' /\ NumberInv(t)'
        BY <1>1, <1>2, <2>2, <2>4, <2>5
    <2>7. HoldInv(t)' /\ AnswerInv(t)' /\ FrameInv(t)'
        BY <1>1, <1>2, <2>2, <2>4, <2>5
    <2> QED
        BY <2>6, <2>7
<1>7. CASE AppReturn(t)
    <2>1. /\ th[t].pc = "app" /\ th'[t].pc \in {"timerback", "respback", "idle"}
          /\ th'[t].pc = "timerback" <=> th'[t].in = "timer"
          /\ th'[t].in # "none" => /\ th'[t].in = th[t].in
                                   /\ \A f \in {"in", "tidx", "tseq", "sidx", "sseq"} : th'[t][f] = th[t][f]
        <3>1. CASE th[t].in = "timer"
            BY <1>1, <1>7, <3>1 DEF AppReturn, Goto, Locals
        <3>2. CASE th[t].in = "resp"
            BY <1>1, <1>7, <3>2 DEF AppReturn, Goto, Locals
        <3>3. CASE th[t].in = "none"
            BY <1>1, <1>7, <3>3 DEF AppReturn, Finish, Idle, Locals
        <3> QED
            BY <1>1, <3>1, <3>2, <3>3 DEF Locals
    <2> QED
        BY <1>1, <1>2, <2>1
<1> QED
    BY <1>3, <1>4, <1>5, <1>6, <1>7

\* Steps of ProcessTimerEvent and OnTimerEvent.
LEMMA LoneTimerEvents ==
    ASSUME LoneInv, NEW t \in Threads, UNCHANGED <<timerVars, sessionVars, bindingVars>>,
           GetFirstTimer(t) \/ CheckEndTime(t) \/ BeginEvent(t) \/ TimedOut(t) \/ TimerCall(t)
              \/ TimerBack(t) \/ CheckSeq(t)
    PROVE  LoneParts(t)'
<1>1. /\ th \in [Threads -> Locals] /\ LoneParts(t)
      /\ m_nSessionSeq \in Nat /\ session \in [SessionSlots -> Sessions]
      /\ m_sessionPool.used \subseteq SessionSlots /\ m_timerPool.used \subseteq TimerSlots
      /\ m_timerMap = m_timerPool.used /\ NoTimer \notin TimerSlots
      /\ m_nTimerSeq \in Nat /\ \A i \in m_timerPool.used : timer[i].nTimerSeq < m_nTimerSeq
    BY LoneFacts
<1>2. UNCHANGED <<m_timerPool, timer, m_nTimerSeq, m_sessionPool, session, m_nSessionSeq, bindingList, dropped>>
    BY DEF timerVars, sessionVars, bindingVars
<1> USE DEF LoneParts, MatchInv, BindInv, NumberInv, HoldInv, AnswerInv, FrameInv, Making, Ending,
            Torn, Loose, At, IsTimer, InUse, Exists
<1>3. CASE GetFirstTimer(t)
    <2>1. th[t].pc = "idle" /\ th[t].in # "timer" /\ th'[t].in = th[t].in
        BY <1>1, <1>3 DEF GetFirstTimer, Goto, Locals
    <2>2. th'[t].pc = "poll" \/ (th'[t].pc = "check" /\ th'[t].tidx \in m_timerPool.used)
        BY <1>1, <1>3 DEF GetFirstTimer, FirstTimers, Goto, Locals
    <2> QED
        BY <1>1, <1>2, <2>1, <2>2
<1>4. CASE CheckEndTime(t)
    <2>1. /\ th[t].pc = "check" /\ th[t].in # "timer" /\ th'[t].in = th[t].in
          /\ th'[t].pc = "poll" \/ (th'[t].pc = "begin" /\ th'[t].tidx = th[t].tidx)
        BY <1>1, <1>4 DEF CheckEndTime, Goto, Locals
    <2> QED
        BY <1>1, <1>2, <2>1
<1>5. CASE BeginEvent(t)
    <2>1. /\ th[t].pc = "begin" /\ th[t].in # "timer" /\ th'[t].in = th[t].in
          /\ th[t].tidx \in m_timerPool.used /\ timer[th[t].tidx].pEventHandle
        BY <1>1, <1>5 DEF BeginEvent
    <2>2. /\ th'[t].pc = "timedout" /\ th'[t].tidx = th[t].tidx
          /\ th'[t].tseq = timer[th[t].tidx].nTimerSeq /\ th'[t].sidx = timer[th[t].tidx].nTimerID
        BY <1>1, <1>5, <2>1 DEF BeginEvent, Locals
    <2> QED
        BY <1>1, <1>2, <2>1, <2>2
<1>6. CASE TimedOut(t)
    <2>1. /\ th[t].pc = "timedout" /\ th[t].in # "timer"
          /\ IsTimer(th[t].tidx, th[t].tseq) /\ timer[th[t].tidx].nTimerID = th[t].sidx
          /\ Exists(th[t].sidx)
        BY <1>1, <1>6 DEF TimedOut
    <2>2. /\ th'[t].pc \in {"unbind", "timercall"} /\ th'[t].oidx = th[t].sidx /\ th'[t].next = "timercall"
          /\ \A f \in {"in", "tidx", "tseq", "sidx"} : th'[t][f] = th[t][f]
        BY <1>1, <1>6, <2>1 DEF TimedOut, Locals
    <2> QED
        BY <1>1, <1>2, <2>1, <2>2
<1>7. CASE TimerCall(t)
    <2>1. /\ th[t].pc = "timercall"
          /\ IsTimer(th[t].tidx, th[t].tseq) /\ timer[th[t].tidx].nTimerID = th[t].sidx
        BY <1>1, <1>7 DEF TimerCall
    <2>2. /\ th'[t].pc \in {"app", "timerback"} /\ th'[t].in = "timer"
          /\ th'[t].sseq = session[th[t].sidx].nSessionSeq
          /\ \A f \in {"tidx", "tseq", "sidx"} : th'[t][f] = th[t][f]
        BY <1>1, <1>7, SMTT(30) DEF TimerCall, Locals
    <2> QED
        BY <1>1, <1>2, <2>1, <2>2
<1>8. CASE TimerBack(t)
    <2> DEFINE gone == ~ Exists(th[t].sidx) \/ session[th[t].sidx].nSessionSeq # th[t].sseq
    <2>1. /\ th[t].pc = "timerback" /\ th'[t].in = "none"
          /\ \A f \in {"tidx", "tseq", "sidx"} : th'[t][f] = th[t][f]
          /\ gone => th'[t].pc = "fired"
          /\ ~ gone => /\ th'[t].pc = IF session[th[t].sidx].nWaitMsgID # NoMsg THEN "unbind" ELSE "destroy"
                       /\ th'[t].oidx = th[t].sidx /\ th'[t].next = "destroy" /\ th'[t].ret = "fired"
        <3>1. th[t].pc = "timerback" /\ th \in [Threads -> Locals]
            BY <1>1, <1>8 DEF TimerBack
        <3>2. CASE gone
            <4>1. th' = [th EXCEPT ![t].pc = "fired", ![t].in = "none"]
                BY <1>8, <3>2 DEF TimerBack
            <4> QED
                BY <3>1, <3>2, <4>1 DEF Locals
        <3>3. CASE ~ gone
            <4>1. PICK x : /\ x = (IF session[th[t].sidx].nWaitMsgID # NoMsg THEN "unbind" ELSE "destroy")
                           /\ th' = [th EXCEPT ![t].pc = x, ![t].in = "none", ![t].oidx = th[t].sidx,
                                              ![t].next = "destroy", ![t].ret = "fired"]
                BY <1>8, <3>3 DEF TimerBack
            <4>2. th'[t].pc = x /\ th'[t].in = "none" /\ th'[t].oidx = th[t].sidx
                BY <3>1, <4>1 DEF Locals
            <4>3. th'[t].next = "destroy" /\ th'[t].ret = "fired"
                BY <3>1, <4>1 DEF Locals
            <4>4. th'[t].tidx = th[t].tidx /\ th'[t].tseq = th[t].tseq /\ th'[t].sidx = th[t].sidx
                BY <3>1, <4>1 DEF Locals
            <4> HIDE DEF gone
            <4> QED
                BY <3>1, <3>3, <4>1, <4>2, <4>3, <4>4
        <3> QED
            BY <3>2, <3>3
    <2>2. th[t].in = "timer"
        BY <1>1, <1>8 DEF TimerBack
    <2>3. gone => ~ IsTimer(th[t].tidx, th[t].tseq)
        BY <1>1, <2>1, <2>2
    <2>4. ~ gone => /\ IsTimer(th[t].tidx, th[t].tseq) /\ session[th[t].sidx].nTimerIndex = th[t].tidx
                    /\ timer[th[t].tidx].nTimerID = th[t].sidx
        BY <1>1, <2>1, <2>2
    <2>5. CASE gone
        BY <1>1, <1>2, <2>1, <2>3, <2>5
    <2>6. CASE ~ gone
        BY <1>1, <1>2, <2>1, <2>4, <2>6
    <2> QED
        BY <2>5, <2>6
<1>9. CASE CheckSeq(t)
    <2>1. CASE IsTimer(th[t].tidx, th[t].tseq)
        <3>1. /\ th[t].pc = "fired" /\ th'[t].pc = "retire"
              /\ \A f \in {"in", "tidx", "tseq"} : th'[t][f] = th[t][f]
            BY <1>1, <1>9, <2>1 DEF CheckSeq, Goto, Locals
        <3> QED
            BY <1>1, <1>2, <2>1, <3>1
    <2>2. CASE ~ IsTimer(th[t].tidx, th[t].tseq)
        <3>1. th[t].pc = "fired" /\ th'[t].pc = "idle" /\ th'[t].in = "none"
            BY <1>1, <1>9, <2>2 DEF CheckSeq, Finish, Idle
        <3> QED
            BY <1>1, <1>2, <2>2, <3>1
    <2> QED
        BY <2>1, <2>2
<1> QED
    BY <1>3, <1>4, <1>5, <1>6, <1>7, <1>8, <1>9

\* Steps of ProcessSSLogicData, OnMessageEvent and OnFrameSessionEvent.
LEMMA LoneResponses ==
    ASSUME LoneInv, NEW t \in Threads, ResponseStep(t)
    PROVE  LoneParts(t)'
<1>1. /\ th \in [Threads -> Locals] /\ LoneParts(t) /\ recvSS \in Seq(Responses)
      /\ m_nSessionSeq \in Nat /\ session \in [SessionSlots -> Sessions]
      /\ m_sessionPool.used \subseteq SessionSlots
    BY LoneFacts DEF LoneInv, IInv, NetOK
<1>2. UNCHANGED <<m_timerPool, timer, m_nTimerSeq, m_sessionPool, session, m_nSessionSeq, bindingList, dropped>>
    BY DEF ResponseStep, PopResponse, OtherMessage, LookUpBinding, Answered, RespCall, RespBack,
        timerVars, sessionVars, bindingVars
<1> USE DEF LoneParts, MatchInv, BindInv, NumberInv, HoldInv, AnswerInv, FrameInv, Making, Ending,
            Torn, Loose, At, IsTimer, InUse, Exists
<1>3. CASE PopResponse(t)
    <2>1. /\ th[t].pc = "poll" /\ th'[t].pc = "lookup" /\ th'[t].in = th[t].in
          /\ th'[t].resp = Head(recvSS)
        BY <1>1, <1>3 DEF PopResponse, Locals
    <2>2. Head(recvSS) \in Responses
        BY <1>1, <1>3 DEF PopResponse
    <2> QED
        BY <1>1, <1>2, <2>1, <2>2
<1>4. CASE OtherMessage(t)
    <2>1. /\ th[t].pc = "poll" /\ th'[t].pc \in {"app", "idle"}
          /\ th'[t].in = "none" \/ th'[t].in = th[t].in
        BY <1>1, <1>4 DEF OtherMessage, Goto, Finish, Idle, Locals
    <2> QED
        BY <1>1, <1>2, <2>1
<1>5. CASE LookUpBinding(t)
    <2>1. CASE ~ Contains(bindingList[th[t].resp.msg], th[t].resp.idx)
        <3>1. th'[t].pc = "idle" /\ th'[t].in = "none" /\ th[t].pc = "lookup"
            BY <1>1, <1>5, <2>1 DEF LookUpBinding, Finish, Idle
        <3> QED
            BY <1>1, <1>2, <3>1
    <2>2. CASE Contains(bindingList[th[t].resp.msg], th[t].resp.idx)
        <3>1. /\ th[t].pc = "lookup" /\ th'[t].pc = "answered" /\ th'[t].sidx = th[t].resp.idx
              /\ th'[t].in = th[t].in /\ th'[t].resp = th[t].resp
            BY <1>1, <1>5, <2>2 DEF LookUpBinding, Locals
        <3>2. th[t].resp.idx \in ToSet(bindingList[th[t].resp.msg])
            BY <1>1, <2>2, <3>1, SMTT(30) DEF Contains, ToSet, LoneInv, IInv, BindingsOK, Responses
        <3> QED
            BY <1>1, <1>2, <3>1, <3>2
    <2> QED
        BY <2>1, <2>2
<1>6. CASE Answered(t)
    <2>1. /\ th[t].pc = "answered" /\ th[t].resp.msg \in MsgIDs
          /\ Exists(th[t].sidx) /\ session[th[t].sidx].nWaitMsgID = th[t].resp.msg
        BY <1>1, <1>6 DEF Answered, Responses
    <2>2. /\ th'[t].pc \in {"unbind", "respcall"} /\ th'[t].oidx = th[t].sidx /\ th'[t].next = "respcall"
          /\ th'[t].wait = session[th[t].sidx].nWaitMsgID
          /\ th'[t].in = th[t].in /\ th'[t].resp = th[t].resp
        BY <1>1, <1>6, <2>1 DEF Answered, Locals
    <2> QED
        BY <1>1, <1>2, <2>1, <2>2
<1>7. CASE RespCall(t)
    <2>1. th[t].pc = "respcall" /\ th'[t].pc \in {"app", "respback"} /\ th'[t].in = "resp"
        BY <1>1, <1>7 DEF RespCall, Locals
    <2> QED
        BY <1>1, <1>2, <2>1
<1>8. CASE RespBack(t)
    <2>1. /\ th[t].pc = "respback" /\ th'[t].in = "none"
          /\ \/ th'[t].pc = "idle"
             \/ /\ th'[t].pc = "rmtimer" /\ th'[t].oidx = th[t].sidx /\ th'[t].ret = "idle"
                /\ Exists(th[t].sidx) /\ session[th[t].sidx].nWaitMsgID = NoMsg
        BY <1>1, <1>8 DEF RespBack, Finish, Idle, Locals
    <2> QED
        BY <1>1, <1>2, <2>1
<1> QED
    BY <1>3, <1>4, <1>5, <1>6, <1>7, <1>8 DEF ResponseStep

\* Binding a session that is in no list: it is appended to its list, or marked
\* as dropped if that list is full.
LEMMA AddKeepsBindings ==
    ASSUME NEW s \in SessionSlots, NEW m \in MsgIDs, AddSessionBindMsg(s, m),
           bindingList \in [MsgIDs -> Seq(SessionSlots)],
           \A n \in MsgIDs : IsInjective(bindingList[n]) /\ s \notin ToSet(bindingList[n])
    PROVE  /\ dropped \subseteq dropped' \cup {s} /\ (s \in dropped' \/ s \in ToSet(bindingList'[m]))
           /\ \A n \in MsgIDs : /\ IsInjective(bindingList'[n])
                                /\ ToSet(bindingList[n]) \subseteq ToSet(bindingList'[n])
                                /\ \A x \in ToSet(bindingList'[n]) : x \in ToSet(bindingList[n]) \/ (x = s /\ n = m)
<1>1. CASE Len(bindingList[m]) < MaxBindings
    <2> DEFINE q == bindingList[m]
               r == Append(q, s)
    <2>1. bindingList' = [bindingList EXCEPT ![m] = r] /\ dropped' = dropped \ {s}
        BY <1>1 DEF AddSessionBindMsg
    <2>2. /\ q \in Seq(SessionSlots) /\ DOMAIN r = 1 .. Len(q) + 1 /\ Len(q) \in Nat
          /\ r[Len(q) + 1] = s /\ \A i \in 1 .. Len(q) : r[i] = q[i]
        OBVIOUS
    <2>3. ToSet(q) = {q[i] : i \in 1 .. Len(q)} /\ \A i, j \in 1 .. Len(q) : q[i] = q[j] => i = j
        BY <2>2 DEF ToSet, IsInjective
    <2> HIDE DEF r
    <2>4. ToSet(r) = ToSet(q) \cup {s}
        BY <2>2, <2>3 DEF ToSet
    <2>5. IsInjective(r)
        BY <2>2, <2>3 DEF IsInjective
    <2> QED
        BY <2>1, <2>4, <2>5
<1>2. CASE ~ (Len(bindingList[m]) < MaxBindings)
    BY <1>2 DEF AddSessionBindMsg
<1> QED
    BY <1>1, <1>2

\* Steps that make a session.
LEMMA LoneCreates ==
    ASSUME LoneInv, NEW t \in Threads,
           CreateObject(t) \/ WriteSeq(t) \/ CreateItsTimer(t) \/ SetUpSession(t) \/ UndoTimer(t)
              \/ BindSession(t)
    PROVE  LoneParts(t)'
<1>1. /\ th \in [Threads -> Locals] /\ LoneParts(t)
      /\ m_nSessionSeq \in Nat /\ session \in [SessionSlots -> Sessions]
      /\ m_sessionPool.used \subseteq SessionSlots /\ m_timerPool.used \subseteq TimerSlots
      /\ timer \in [TimerSlots -> FrameTimers]
      /\ m_nTimerSeq \in Nat /\ \A i \in m_timerPool.used : timer[i].nTimerSeq < m_nTimerSeq
    BY LoneFacts
<1>2. bindingList \in [MsgIDs -> Seq(SessionSlots)] /\ NoMsg \notin MsgIDs
    BY SessionAssumption DEF LoneInv, IInv, BindingsOK
<1> USE DEF LoneParts, MatchInv, BindInv, NumberInv, HoldInv, AnswerInv, FrameInv, Making, Ending,
            Torn, Loose, At, IsTimer, InUse, Exists
<1>3. CASE CreateObject(t)
    <2> DEFINE s == NextSlot(m_sessionPool)
    <2>1. s \in SessionSlots \ m_sessionPool.used /\ m_sessionPool'.used = m_sessionPool.used \cup {s}
        BY <1>3, TakeSlotWellFormed, SessionAssumption DEF CreateObject, LoneInv, IInv, PoolOK, SessionSlots
    <2>2. /\ session' = [session EXCEPT ![s] = ResetSession] /\ th[t].pc = "app"
          /\ UNCHANGED <<m_timerPool, timer, m_nTimerSeq, m_nSessionSeq, bindingList, dropped>>
          /\ th' = [th EXCEPT ![t].pc = "number", ![t].oidx = s]
        BY <1>3 DEF CreateObject, timerVars, bindingVars
    <2> HIDE DEF s
    <2>3. /\ th'[t].pc = "number" /\ th'[t].oidx = s
          /\ \A f \in {"in", "tidx", "tseq", "sidx", "sseq"} : th'[t][f] = th[t][f]
        BY <1>1, <2>2 DEF Locals
    <2>4. /\ session'[s].nWaitMsgID = NoMsg /\ session'[s].nSessionSeq = 0
          /\ \A x \in m_sessionPool.used : session'[x] = session[x]
        BY <1>1, <2>1, <2>2 DEF ResetSession
    <2>5. MatchInv(t)' /\ NumberInv(t)' /\ HoldInv(t)' /\ AnswerInv(t)'
        BY <1>1, <2>1, <2>2, <2>3, <2>4
    <2>6. BindInv(t)'
        BY <1>1, <1>2, <2>1, <2>2, <2>3, <2>4
    <2>7. FrameInv(t)'
        BY <1>1, <2>1, <2>2, <2>3, <2>4
    <2> QED
        BY <2>5, <2>6, <2>7
<1>4. CASE WriteSeq(t)
    <2> DEFINE s == th[t].oidx
    <2>1. /\ th[t].pc = "numbered" /\ th[t].onum = m_nSessionSeq + 1 /\ m_nSessionSeq' = m_nSessionSeq + 1
          /\ session' = [session EXCEPT ![s].nSessionSeq = m_nSessionSeq + 1]
          /\ UNCHANGED <<m_timerPool, timer, m_nTimerSeq, m_sessionPool, bindingList, dropped>>
        BY <1>1, <1>4 DEF WriteSeq, timerVars, bindingVars
    <2>2. /\ th'[t].pc = "timer"
          /\ \A f \in {"in", "tidx", "tseq", "sidx", "sseq", "oidx"} : th'[t][f] = th[t][f]
        BY <1>1, <1>4 DEF WriteSeq, Locals
    <2>3. /\ session'[s].nSessionSeq = m_nSessionSeq + 1
          /\ \A x \in SessionSlots : /\ session'[x].nWaitMsgID = session[x].nWaitMsgID
                                     /\ x # s => session'[x] = session[x]
        BY <1>1, <2>1 DEF Sessions, Locals
    <2>4. \A x \in SessionSlots : session[x].nSessionSeq \in Nat
        BY <1>1 DEF Sessions
    <2>5. MatchInv(t)' /\ NumberInv(t)' /\ HoldInv(t)' /\ AnswerInv(t)'
        BY <1>1, <2>1, <2>2, <2>3, <2>4
    <2>6. BindInv(t)'
        BY <1>1, <2>1, <2>2, <2>3
    <2>7. FrameInv(t)'
        BY <1>1, <2>1, <2>2, <2>3, <2>4 DEF Locals
    <2> QED
        BY <2>5, <2>6, <2>7
<1>5. CASE CreateItsTimer(t)
    <2>1. /\ th[t].pc = "timer"
          /\ UNCHANGED <<m_sessionPool, session, m_nSessionSeq, bindingList, dropped>>
        BY <1>5 DEF CreateItsTimer, sessionVars, bindingVars
    <2>2. ASSUME NEW cycle \in CycleTimes, CreateTimer(th[t].oidx, cycle, FALSE),
                 th' = [th EXCEPT ![t].pc = "setup", ![t].otim = NextSlot(m_timerPool)]
          PROVE  LoneParts(t)'
        <3> DEFINE i == NextSlot(m_timerPool)
        <3>1. i \in TimerSlots \ m_timerPool.used /\ m_timerPool'.used = m_timerPool.used \cup {i}
            BY <2>2, StoreInvPool, TakeSlotWellFormed, MaxTimersAssumption
            DEF CreateTimer, LoneInv, IInv, TimersOK, TimerSlots
        <3>2. /\ timer'[i].nTimerSeq = m_nTimerSeq /\ timer'[i].nTimerID = th[t].oidx
              /\ timer'[i].pEventHandle /\ ~ timer'[i].bLoop
              /\ \A j \in m_timerPool.used : timer'[j] = timer[j]
              /\ m_nTimerSeq' = m_nTimerSeq + 1
            BY <1>1, <2>2, <3>1 DEF CreateTimer
        <3> HIDE DEF i
        <3>3. /\ th'[t].pc = "setup" /\ th'[t].otim = i
              /\ \A f \in {"in", "tidx", "tseq", "sidx", "sseq", "oidx"} : th'[t][f] = th[t][f]
            BY <1>1, <2>2 DEF Locals, i
        <3>4. MatchInv(t)' /\ NumberInv(t)' /\ HoldInv(t)' /\ AnswerInv(t)'
            BY <1>1, <2>1, <3>1, <3>2, <3>3
        <3>5. BindInv(t)'
            BY <1>1, <2>1, <3>3
        <3>6. FrameInv(t)'
            BY <1>1, <2>1, <3>1, <3>2, <3>3 DEF Locals
        <3> QED
            BY <3>4, <3>5, <3>6
    <2>3. CASE CreateTimerRefused /\ th' = [th EXCEPT ![t].pc = "destroy", ![t].ret = "app"]
        <3>1. UNCHANGED <<m_timerPool, timer>> /\ m_nTimerSeq' = m_nTimerSeq + 1
            BY <2>3 DEF CreateTimerRefused
        <3>2. /\ th'[t].pc = "destroy" /\ th'[t].ret = "app"
              /\ \A f \in {"in", "tidx", "tseq", "sidx", "sseq", "oidx"} : th'[t][f] = th[t][f]
            BY <1>1, <2>3 DEF Locals
        <3>3. th[t].tseq \in Nat
            BY <1>1 DEF Locals
        <3> QED
            BY <1>1, <2>1, <3>1, <3>2, <3>3
    <2> QED
        BY <1>5, <2>2, <2>3 DEF CreateItsTimer
<1>6. CASE SetUpSession(t)
    <2> DEFINE s == th[t].oidx
    <2>1. /\ th[t].pc = "setup"
          /\ UNCHANGED <<m_timerPool, timer, m_nTimerSeq, m_sessionPool, m_nSessionSeq, bindingList, dropped>>
        BY <1>6 DEF SetUpSession, timerVars, bindingVars
    <2>2. ASSUME NEW m \in MsgIDs,
                 session' = [session EXCEPT ![s].nTimerIndex = th[t].otim, ![s].nWaitMsgID = m],
                 th' = [th EXCEPT ![t].pc = "bind", ![t].omsg = m]
          PROVE  LoneParts(t)'
        <3>1. /\ th'[t].pc = "bind" /\ th'[t].omsg = m
              /\ \A f \in {"in", "tidx", "tseq", "sidx", "sseq", "oidx"} : th'[t][f] = th[t][f]
            BY <1>1, <2>2 DEF Locals
        <3>2. /\ session'[s].nTimerIndex = th[t].otim /\ session'[s].nWaitMsgID = m
              /\ \A x \in SessionSlots : /\ session'[x].nSessionSeq = session[x].nSessionSeq
                                         /\ x # s => session'[x] = session[x]
            BY <1>1, <2>2 DEF Sessions, Locals
        <3>3. \A x \in SessionSlots : session[x].nSessionSeq \in Nat
            BY <1>1 DEF Sessions
        <3>4. MatchInv(t)' /\ NumberInv(t)' /\ HoldInv(t)' /\ AnswerInv(t)'
            BY <1>1, <2>1, <3>1, <3>2, <3>3
        <3>5. BindInv(t)'
            BY <1>1, <1>2, <2>1, <3>1, <3>2
        <3>6. FrameInv(t)'
            BY <1>1, <2>1, <3>1, <3>2, <3>3 DEF Locals
        <3> QED
            BY <3>4, <3>5, <3>6
    <2>3. CASE UNCHANGED session /\ th' = [th EXCEPT ![t].pc = "destroy", ![t].ret = "undo"]
        <3>1. /\ th'[t].pc = "destroy" /\ th'[t].ret = "undo"
              /\ \A f \in {"in", "tidx", "tseq", "sidx", "sseq", "oidx", "otim"} : th'[t][f] = th[t][f]
            BY <1>1, <2>3 DEF Locals
        <3> QED
            BY <1>1, <2>1, <2>3, <3>1
    <2> QED
        BY <1>6, <2>2, <2>3 DEF SetUpSession
<1>7. CASE UndoTimer(t)
    <2>1. /\ th[t].pc = "undo" /\ th'[t].pc = "app"
          /\ \A f \in {"in", "tidx", "tseq", "sidx", "sseq"} : th'[t][f] = th[t][f]
        BY <1>1, <1>7 DEF UndoTimer, ReturnToApp, Locals
    <2>2. UNCHANGED <<m_sessionPool, session, m_nSessionSeq, bindingList, dropped>>
        BY <1>7 DEF UndoTimer, sessionVars, bindingVars
    <2>3. /\ m_nTimerSeq' = m_nTimerSeq /\ m_timerPool'.used = m_timerPool.used \ {th[t].otim}
          /\ \A j \in m_timerPool'.used : timer'[j] = timer[j]
        BY <1>7, RemoveTimerTakes DEF UndoTimer, LoneInv, IInv, TimersOK
    <2> QED
        BY <1>1, <2>1, <2>2, <2>3
<1>8. CASE BindSession(t)
    <2>1. /\ th[t].pc = "bind" /\ AddSessionBindMsg(th[t].oidx, th[t].omsg) /\ th[t].omsg \in MsgIDs
          /\ UNCHANGED <<m_timerPool, timer, m_nTimerSeq, m_sessionPool, session, m_nSessionSeq>>
        BY <1>8 DEF BindSession, timerVars, sessionVars, LoneInv, IInv, ThreadsOK
    <2>2. /\ th'[t].pc = "send"
          /\ \A f \in {"in", "tidx", "tseq", "sidx", "sseq", "oidx"} : th'[t][f] = th[t][f]
        BY <1>1, <1>8 DEF BindSession, Goto, Locals
    <2>3. MatchInv(t)' /\ NumberInv(t)' /\ HoldInv(t)' /\ AnswerInv(t)'
        BY <1>1, <2>1, <2>2
    <2>4. FrameInv(t)'
        BY <1>1, <2>1, <2>2
    <2> DEFINE s == th[t].oidx
               m == th[t].omsg
    <2>5. /\ s \in SessionSlots /\ session[s].nWaitMsgID = m
          /\ \A n \in MsgIDs : IsInjective(bindingList[n]) /\ s \notin ToSet(bindingList[n])
        BY <1>1, <2>1
    <2>6. /\ dropped \subseteq dropped' \cup {s} /\ (s \in dropped' \/ s \in ToSet(bindingList'[m]))
          /\ \A n \in MsgIDs : /\ IsInjective(bindingList'[n])
                               /\ ToSet(bindingList[n]) \subseteq ToSet(bindingList'[n])
                               /\ \A x \in ToSet(bindingList'[n]) : x \in ToSet(bindingList[n]) \/ (x = s /\ n = m)
        BY <1>2, <2>1, <2>5, AddKeepsBindings
    <2>7. ASSUME NEW n \in MsgIDs, NEW x \in ToSet(bindingList'[n])
          PROVE  x \in m_sessionPool.used /\ session[x].nWaitMsgID = n
        BY <1>1, <2>1, <2>5, <2>6
    <2>8. ASSUME NEW n \in MsgIDs, NEW x \in m_sessionPool.used \ dropped', session[x].nWaitMsgID = n
          PROVE  x \in ToSet(bindingList'[n])
        BY <1>1, <2>1, <2>5, <2>6, <2>8
    <2>9. BindInv(t)'
        BY <1>1, <2>1, <2>2, <2>6, <2>7, <2>8
    <2> QED
        BY <2>3, <2>4, <2>9
<1> QED
    BY <1>3, <1>4, <1>5, <1>6, <1>7, <1>8

\* A session callback binds its session again.
LEMMA LoneRebinds ==
    ASSUME LoneInv, NEW t \in Threads, Rebind(t)
    PROVE  LoneParts(t)'
<1>1. /\ th \in [Threads -> Locals] /\ LoneParts(t)
      /\ m_nSessionSeq \in Nat /\ session \in [SessionSlots -> Sessions]
      /\ m_sessionPool.used \subseteq SessionSlots
    BY LoneFacts
<1>2. bindingList \in [MsgIDs -> Seq(SessionSlots)] /\ NoMsg \notin MsgIDs
    BY SessionAssumption DEF LoneInv, IInv, BindingsOK
<1> USE DEF LoneParts, MatchInv, BindInv, NumberInv, HoldInv, AnswerInv, FrameInv, Making, Ending,
            Torn, Loose, At, IsTimer, InUse, Exists
<1> DEFINE s == th[t].sidx
<1>3. /\ th[t].pc = "app" /\ s \in m_sessionPool.used /\ s \in SessionSlots /\ session[s].nWaitMsgID = NoMsg
      /\ UNCHANGED <<m_timerPool, timer, m_nTimerSeq, m_sessionPool, m_nSessionSeq, th>>
    BY <1>1 DEF Rebind, timerVars
<1>4. PICK m \in MsgIDs : AddSessionBindMsg(s, m) /\ session' = [session EXCEPT ![s].nWaitMsgID = m]
    BY DEF Rebind
<1>5. /\ session'[s].nWaitMsgID = m
      /\ \A x \in SessionSlots : /\ session'[x].nSessionSeq = session[x].nSessionSeq
                                 /\ session'[x].nTimerIndex = session[x].nTimerIndex
                                 /\ x # s => session'[x] = session[x]
    BY <1>1, <1>3, <1>4 DEF Sessions
<1>6. \A n \in MsgIDs : IsInjective(bindingList[n]) /\ s \notin ToSet(bindingList[n])
    BY <1>1, <1>2, <1>3
<1>7. /\ dropped \subseteq dropped' \cup {s} /\ (s \in dropped' \/ s \in ToSet(bindingList'[m]))
      /\ \A n \in MsgIDs : /\ IsInjective(bindingList'[n])
                           /\ ToSet(bindingList[n]) \subseteq ToSet(bindingList'[n])
                           /\ \A x \in ToSet(bindingList'[n]) : x \in ToSet(bindingList[n]) \/ (x = s /\ n = m)
    BY <1>2, <1>3, <1>4, <1>6, AddKeepsBindings
<1>8. BindInv(t)'
    <2>1. ASSUME NEW n \in MsgIDs, NEW x \in ToSet(bindingList'[n])
          PROVE  x \in m_sessionPool.used /\ session'[x].nWaitMsgID = n
        BY <1>1, <1>3, <1>5, <1>6, <1>7
    <2>2. ASSUME NEW n \in MsgIDs, NEW x \in m_sessionPool.used \ dropped', session'[x].nWaitMsgID = n
          PROVE  x \in ToSet(bindingList'[n])
        BY <1>1, <1>3, <1>5, <1>6, <1>7, <2>2
    <2> QED
        BY <1>3, <1>7, <2>1, <2>2
<1>9. MatchInv(t)' /\ NumberInv(t)' /\ HoldInv(t)' /\ AnswerInv(t)'
    BY <1>1, <1>3, <1>5
<1>10. FrameInv(t)'
    BY <1>1, <1>3, <1>5 DEF Locals
<1> QED
    BY <1>8, <1>9, <1>10

\* Steps that unmake one.
LEMMA LoneEnds ==
    ASSUME LoneInv, NEW t \in Threads,
           Unbind(t) \/ RemoveItsTimer(t) \/ Reset(t) \/ Release(t) \/ Retire(t)
    PROVE  LoneParts(t)'
<1>1. /\ th \in [Threads -> Locals] /\ LoneParts(t)
      /\ m_nSessionSeq \in Nat /\ session \in [SessionSlots -> Sessions]
      /\ m_sessionPool.used \subseteq SessionSlots /\ m_timerPool.used \subseteq TimerSlots
      /\ timer \in [TimerSlots -> FrameTimers]
      /\ m_nTimerSeq \in Nat /\ \A i \in m_timerPool.used : timer[i].nTimerSeq < m_nTimerSeq
    BY LoneFacts
<1>2. bindingList \in [MsgIDs -> Seq(SessionSlots)] /\ NoMsg \notin MsgIDs
    BY SessionAssumption DEF LoneInv, IInv, BindingsOK
<1> USE DEF LoneParts, MatchInv, BindInv, NumberInv, HoldInv, AnswerInv, FrameInv, Making, Ending,
            Torn, Loose, At, IsTimer, InUse, Exists
<1>3. CASE Unbind(t)
    <2> DEFINE s == th[t].oidx
               m == session[s].nWaitMsgID
    <2>1. /\ th[t].pc = "unbind" /\ s \in m_sessionPool.used /\ s \in SessionSlots
          /\ session' = [session EXCEPT ![s].nWaitMsgID = NoMsg] /\ dropped' = dropped \ {s}
          /\ UNCHANGED <<m_timerPool, timer, m_nTimerSeq, m_sessionPool, m_nSessionSeq>>
        BY <1>1, <1>3 DEF Unbind, timerVars
    <2>2. /\ th'[t].pc = th[t].next /\ th[t].next \in {"rmtimer", "timercall", "respcall", "destroy"}
          /\ \A f \in {"in", "tidx", "tseq", "resp", "sidx", "sseq", "wait", "oidx", "ret"} :
                th'[t][f] = th[t][f]
        BY <1>1, <1>3 DEF Unbind, Goto, Locals
    <2>3. /\ session'[s].nWaitMsgID = NoMsg
          /\ \A x \in SessionSlots : /\ session'[x].nSessionSeq = session[x].nSessionSeq
                                     /\ session'[x].nTimerIndex = session[x].nTimerIndex
                                     /\ x # s => session'[x] = session[x]
        BY <1>1, <2>1 DEF Sessions
    <2>4. m \in MsgIDs \cup {NoMsg}
        BY <1>1, <2>1 DEF Sessions
    <2>5. \A n \in MsgIDs : /\ IsInjective(bindingList'[n])
                            /\ ToSet(bindingList'[n]) = ToSet(bindingList[n]) \ {s}
        <3>1. CASE m \in MsgIDs
            <4>1. bindingList' = [bindingList EXCEPT ![m] = RemoveFirst(bindingList[m], s)]
                BY <1>3, <3>1 DEF Unbind
            <4>2. IsInjective(RemoveFirst(bindingList[m], s))
                  /\ ToSet(RemoveFirst(bindingList[m], s)) = ToSet(bindingList[m]) \ {s}
                BY <1>1, <1>2, <3>1, RemoveFirstTakes
            <4> QED
                BY <1>1, <1>2, <3>1, <4>1, <4>2
        <3>2. CASE m \notin MsgIDs
            <4>1. bindingList' = bindingList
                BY <1>3, <3>2 DEF Unbind
            <4> QED
                BY <1>1, <3>2, <4>1
        <3> QED
            BY <3>1, <3>2
    <2>6. BindInv(t)'
        BY <1>1, <1>2, <2>1, <2>2, <2>3, <2>5
    <2>7. MatchInv(t)' /\ NumberInv(t)'
        BY <1>1, <2>1, <2>2, <2>3
    <2>8. HoldInv(t)' /\ AnswerInv(t)'
        BY <1>1, <2>1, <2>2, <2>3
    <2>9. FrameInv(t)'
        BY <1>1, <2>1, <2>2, <2>3
    <2> QED
        BY <2>6, <2>7, <2>8, <2>9
<1>4. CASE RemoveItsTimer(t)
    <2> DEFINE s == th[t].oidx
               i == session[s].nTimerIndex
    <2>1. /\ th[t].pc = "rmtimer" /\ s \in m_sessionPool.used /\ i \in m_timerPool.used /\ timer[i].nTimerID = s
          /\ UNCHANGED <<m_sessionPool, session, m_nSessionSeq, bindingList, dropped>>
        BY <1>1, <1>4 DEF RemoveItsTimer, sessionVars, bindingVars
    <2>2. /\ th'[t].pc = "destroy"
          /\ \A f \in {"in", "tidx", "tseq", "sidx", "sseq", "oidx", "ret"} : th'[t][f] = th[t][f]
        BY <1>1, <1>4 DEF RemoveItsTimer, Goto, Locals
    <2>3. /\ m_nTimerSeq' = m_nTimerSeq /\ m_timerPool'.used = m_timerPool.used \ {i}
          /\ \A j \in m_timerPool'.used : timer'[j] = timer[j]
        BY <1>4, RemoveTimerTakes DEF RemoveItsTimer, LoneInv, IInv, TimersOK
    <2> HIDE DEF i
    <2>4. MatchInv(t)'
        BY <1>1, <2>1, <2>2, <2>3, SMTT(30) DEF i
    <2>5. BindInv(t)' /\ NumberInv(t)' /\ HoldInv(t)' /\ AnswerInv(t)'
        BY <1>1, <2>1, <2>2, <2>3
    <2>6. FrameInv(t)'
        BY <1>1, <2>1, <2>2, <2>3 DEF i
    <2> QED
        BY <2>4, <2>5, <2>6
<1>5. CASE Reset(t)
    <2> DEFINE s == th[t].oidx
    <2>1. /\ th[t].pc = "reset" /\ s \in m_sessionPool.used /\ session' = [session EXCEPT ![s] = ResetSession]
          /\ UNCHANGED <<m_timerPool, timer, m_nTimerSeq, m_sessionPool, m_nSessionSeq, bindingList, dropped>>
        BY <1>1, <1>5 DEF Reset, timerVars, bindingVars
    <2>2. /\ th'[t].pc = "release"
          /\ \A f \in {"in", "tidx", "tseq", "sidx", "sseq", "oidx", "otim", "ret"} : th'[t][f] = th[t][f]
        BY <1>1, <1>5 DEF Reset, Goto, Locals
    <2>3. /\ session'[s].nWaitMsgID = NoMsg /\ session'[s].nSessionSeq = 0
          /\ \A x \in SessionSlots : x # s => session'[x] = session[x]
        BY <1>1, <2>1 DEF ResetSession
    <2>4. MatchInv(t)' /\ BindInv(t)'
        BY <1>1, <2>1, <2>2, <2>3
    <2>5. NumberInv(t)' /\ HoldInv(t)' /\ AnswerInv(t)' /\ FrameInv(t)'
        BY <1>1, <2>1, <2>2, <2>3
    <2> QED
        BY <2>4, <2>5
<1>6. CASE Release(t)
    <2> DEFINE s == th[t].oidx
    <2>1. /\ th[t].pc = "release" /\ s \in m_sessionPool.used
          /\ UNCHANGED <<m_timerPool, timer, m_nTimerSeq, session, m_nSessionSeq, bindingList, dropped>>
        BY <1>1, <1>6 DEF Release, timerVars, bindingVars
    <2>2. m_sessionPool'.used = m_sessionPool.used \ {s}
        BY <1>6, <2>1 DEF Release, GiveSlot
    <2>3. CASE th[t].ret = "app"
        <3>1. /\ th'[t].pc = "app"
              /\ \A f \in {"in", "tidx", "tseq", "sidx", "sseq"} : th'[t][f] = th[t][f]
            BY <1>1, <1>6, <2>3 DEF Release, Return, ReturnToApp, Locals
        <3> QED
            BY <1>1, <1>2, <2>1, <2>2, <2>3, <3>1
    <2>4. CASE th[t].ret = "idle"
        <3>1. th'[t].pc = "idle" /\ th'[t].in = "none"
            BY <1>1, <1>6, <2>4 DEF Release, Return, Finish, Idle, Locals
        <3> QED
            BY <1>1, <1>2, <2>1, <2>2, <2>4, <3>1
    <2>5. CASE th[t].ret \in {"undo", "fired"}
        <3>1. /\ th'[t].pc = th[t].ret
              /\ \A f \in {"in", "tidx", "tseq", "sidx", "sseq", "otim"} : th'[t][f] = th[t][f]
            BY <1>1, <1>6, <2>5 DEF Release, Return, Goto, Locals
        <3> QED
            BY <1>1, <1>2, <2>1, <2>2, <2>5, <3>1
    <2> QED
        BY <1>1, <2>3, <2>4, <2>5 DEF Locals
<1>7. CASE Retire(t)
    <2>1. /\ th[t].pc = "retire" /\ IsTimer(th[t].tidx, th[t].tseq) /\ ~ timer[th[t].tidx].bLoop
          /\ UNCHANGED <<m_sessionPool, session, m_nSessionSeq, bindingList, dropped>>
          /\ th'[t].pc = "idle" /\ th'[t].in = "none"
        BY <1>1, <1>7 DEF Retire, Finish, Idle, sessionVars, bindingVars
    <2>2. RemoveTimer(th[t].tidx)
        BY <1>7, <2>1 DEF Retire, TimerFired
    <2>3. /\ m_nTimerSeq' = m_nTimerSeq /\ m_timerPool'.used = m_timerPool.used \ {th[t].tidx}
          /\ \A j \in m_timerPool'.used : timer'[j] = timer[j]
        BY <2>2, RemoveTimerTakes DEF LoneInv, IInv, TimersOK
    <2> QED
        BY <1>1, <2>1, <2>3
<1> QED
    BY <1>3, <1>4, <1>5, <1>6, <1>7

LEMMA LoneInvStep == LoneThread /\ LoneInv /\ [Next]_vars => LoneInv'
<1> SUFFICES ASSUME LoneThread, LoneInv, [Next]_vars PROVE LoneInv'
    OBVIOUS
<1>1. IInv'
    BY IInvStep DEF LoneInv
<1>2. ASSUME NEW t \in Threads PROVE LoneParts(t)'
    <2>1. CASE TimePasses \/ PeerAnswers \/ UNCHANGED vars
        <3>1. UNCHANGED <<m_timerPool, timer, m_nTimerSeq, m_sessionPool, session, m_nSessionSeq,
                          bindingList, dropped, th>>
            BY <2>1 DEF TimePasses, Tick, PeerAnswers, vars, timerVars, sessionVars, bindingVars
        <3> QED
            BY <3>1, LoneFacts DEF LoneParts, MatchInv, BindInv, NumberInv, HoldInv, AnswerInv, FrameInv,
                Torn, Loose, At, IsTimer, InUse, Exists
    <2>2. CASE SharedStep(t)
        BY <2>2, LoneEnds, LoneCalls DEF SharedStep, Destroy
    <2>3. CASE CreateStep(t)
        BY <2>3, LoneCreates, LoneCalls DEF CreateStep, ReadSeq, SendRequest
    <2>4. CASE TimerStep(t)
        BY <2>4, LoneEnds, LoneTimerEvents
        DEF TimerStep, GetFirstTimer, CheckEndTime, BeginEvent, TimedOut, TimerCall, TimerBack, CheckSeq
    <2>5. CASE ResponseStep(t)
        BY <2>5, LoneResponses
    <2>6. CASE AppStep(t)
        BY <2>6, LoneCreates, LoneRebinds, LoneCalls DEF AppStep, RemoveSession, AppReturn
    <2> QED
        BY <2>1, <2>2, <2>3, <2>4, <2>5, <2>6 DEF Next, ThreadStep, LoneThread
<1> QED
    BY <1>1, <1>2 DEF LoneInv, LoneParts

LEMMA LoneInvHolds == LoneThread => (Spec => []LoneInv)
<1>1. ASSUME LoneThread PROVE Spec => []LoneInv
    <2>1. LoneInv /\ [Next]_vars => LoneInv'
        BY <1>1, LoneInvStep
    <2> QED
        BY <2>1, LoneInvInit, PTL DEF Spec
<1> QED
    BY <1>1

\* With one application thread, sessions and timers correspond one to one whenever no
\* operation on a session is in progress: no session waits without a timeout, and no timer
\* of a session that is gone ends the one that took its slot.
THEOREM LoneThreadMatchesTimers == LoneThread => (Spec => []TimersMatchSessions)
<1>1. LoneThread /\ LoneInv => TimersMatchSessions
    <2> SUFFICES ASSUME LoneThread, LoneInv, Quiet PROVE TimersMatchSessions
        BY DEF TimersMatchSessions
    <2>1. PICK t \in Threads : TRUE
        BY DEF LoneThread
    <2> QED
        BY <2>1 DEF LoneInv, Quiet, MatchInv, Torn, Loose, Making, Ending, TimersMatchSessions, Exists, InUse
<1>2. ASSUME LoneThread PROVE Spec => []TimersMatchSessions
    <2>1. LoneInv => TimersMatchSessions
        BY <1>1, <1>2
    <2> QED
        BY <1>2, <2>1, LoneInvHolds, PTL
<1> QED
    BY <1>2

\* With one application thread, the binding table lists the sessions that wait for a
\* message, once each, but for those a full list has refused.
THEOREM LoneThreadMatchesBindings == LoneThread => (Spec => []BindingsMatchSessions)
<1>1. LoneThread /\ LoneInv => BindingsMatchSessions
    BY DEF LoneThread, LoneInv, Quiet, BindInv, At, BindingsMatchSessions, Exists, InUse
<1>2. ASSUME LoneThread PROVE Spec => []BindingsMatchSessions
    <2>1. LoneInv => BindingsMatchSessions
        BY <1>1, <1>2
    <2> QED
        BY <1>2, <2>1, LoneInvHolds, PTL
<1> QED
    BY <1>2

\* With one application thread, the message a body is decoded as, taken from the session, is
\* the one that arrived: the session cannot have been bound to another since the lookup.
THEOREM LoneThreadDecodesAsReceived == LoneThread => (Spec => []DecodesAsReceived)
<1>1. LoneInv => DecodesAsReceived
    BY DEF LoneInv, AnswerInv, At, DecodesAsReceived
<1>2. ASSUME LoneThread PROVE Spec => []DecodesAsReceived
    BY <1>1, <1>2, LoneInvHolds, PTL
<1> QED
    BY <1>2
=============================================================================
