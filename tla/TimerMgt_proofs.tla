-------------------------- MODULE TimerMgt_proofs --------------------------
(***************************************************************************)
(* For every number of threads, of timer slots and every set of cycle      *)
(* times: however the unlocked steps of the threads interleave, the timer  *)
(* pool, the tree and the sequence numbers stay consistent.  With a single *)
(* thread, handlers also run in time, once, and end their own timer.       *)
(***************************************************************************)
EXTENDS TimerMgt, TimerStore_proofs

TypeInv == TypeOK /\ StoreConsistent

LEMMA FirstTimersAreUsed ==
    ASSUME TypeInv, NEW i \in FirstTimers
    PROVE  i \in TimerSlots /\ InUse(m_timerPool, i)
BY DEF TypeInv, TypeOK, TimerStoreTypeOK, StoreConsistent, TimerStoreConsistent, FirstTimers, InUse

LEMMA TypeInvInit == Init => TypeInv
<1> SUFFICES ASSUME Init PROVE TypeInv
    OBVIOUS
<1>1. StoreInv
    BY InitStore DEF Init
<1>2. 0 \in TimerSlots
    BY MaxTimersAssumption DEF TimerSlots, SlotsOf
<1> QED
    BY <1>1, <1>2 DEF Init, Idle, PCs, TypeInv, TypeOK, StoreInv, StoreConsistent

\* One step of any thread, or of the clock, keeps the invariant.
LEMMA TypeInvStep == TypeInv /\ [Next]_vars => TypeInv'
<1> SUFFICES ASSUME TypeInv, [Next]_vars PROVE TypeInv'
    OBVIOUS
<1> USE DEF At, Goto, Finish
<1> DEFINE ThType == [Threads -> [pc : PCs, idx : TimerSlots, seq : Nat, inTimer : BOOLEAN]]
<1>1. /\ StoreInv
      /\ th \in ThType
      /\ fired \subseteq Nat
    BY DEF TypeInv, TypeOK, StoreInv, StoreConsistent
<1>2. Idle \in [pc : PCs, idx : TimerSlots, seq : Nat, inTimer : BOOLEAN]
    BY MaxTimersAssumption DEF Idle, PCs, TimerSlots, SlotsOf
<1>3. SUFFICES StoreInv' /\ th' \in ThType /\ fired' \subseteq Nat
    BY DEF TypeInv, TypeOK, StoreInv, StoreConsistent
<1>4. ASSUME TimePasses PROVE StoreInv' /\ th' \in ThType /\ fired' \subseteq Nat
    BY <1>1, <1>4 DEF TimePasses, Tick, StoreInv, TimerStoreTypeOK,
        TimerStoreConsistent, TimerSeqNamesTimer, WellFormedPool
<1>5. ASSUME NEW t \in Threads, GetFirstTimer(t)
      PROVE  StoreInv' /\ th' \in ThType /\ fired' \subseteq Nat
    <2>1. PICK i \in FirstTimers : /\ th' = [th EXCEPT ![t].pc = "check", ![t].idx = i]
                                   /\ UNCHANGED timerVars
        BY <1>5, FirstTimersAreUsed DEF GetFirstTimer
    <2>2. i \in TimerSlots
        BY FirstTimersAreUsed
    <2> QED
        BY <1>1, <1>5, <2>1, <2>2, UnchangedStore DEF PCs, GetFirstTimer
<1>6. ASSUME NEW t \in Threads, NoTimer(t) \/ CheckEndTime(t) \/ PollMessages(t) \/ AppReturn(t)
                                   \/ CheckSeq(t)
      PROVE  StoreInv' /\ th' \in ThType /\ fired' \subseteq Nat
    <2>1. UNCHANGED timerVars /\ UNCHANGED fired
        BY <1>6 DEF NoTimer, CheckEndTime, PollMessages, AppReturn, CheckSeq
    <2>2. \/ \E pc \in PCs : th' = [th EXCEPT ![t].pc = pc]
          \/ th' = [th EXCEPT ![t] = Idle]
        BY <1>6 DEF NoTimer, CheckEndTime, PollMessages, AppReturn, CheckSeq, PCs
    <2> QED
        BY <1>1, <1>2, <2>1, <2>2, UnchangedStore
<1>7. ASSUME NEW t \in Threads, BeginEvent(t)
      PROVE  StoreInv' /\ th' \in ThType /\ fired' \subseteq Nat
    <2>1. timer[th[t].idx] \in FrameTimers
        BY <1>1 DEF StoreInv, TimerStoreTypeOK
    <2>2. timer[th[t].idx].nTimerSeq \in Nat
        BY <2>1 DEF FrameTimers
    <2> QED
        BY <1>1, <1>7, <2>2, UnchangedStore DEF BeginEvent, PCs
<1>8. ASSUME NEW t \in Threads, AppCreateTimer(t)
      PROVE  StoreInv' /\ th' \in ThType /\ fired' \subseteq Nat
    <2>1. CASE CreateTimerFails
        BY <1>1, <1>8, <2>1, CreateTimerRefusedKeeps DEF AppCreateTimer, CreateTimerFails
    <2>2. ASSUME NEW id \in TimerIDs, NEW cycle \in CycleTimes, NEW loop \in BOOLEAN,
                 CreateTimer(id, cycle, loop)
          PROVE  StoreInv'
        BY <1>1, <2>2, CreateTimerKeeps, TimerIDsAssumption, CycleTimesAssumption
    <2> QED
        BY <1>1, <1>8, <2>1, <2>2 DEF AppCreateTimer
<1>9. ASSUME NEW t \in Threads, AppRemoveTimer(t)
      PROVE  StoreInv' /\ th' \in ThType /\ fired' \subseteq Nat
    BY <1>1, <1>9, RemoveTimerKeeps DEF AppRemoveTimer
<1>10. ASSUME NEW t \in Threads, Retire(t)
       PROVE  StoreInv' /\ th' \in ThType /\ fired' \subseteq Nat
    BY <1>1, <1>2, <1>10, TimerFiredKeeps DEF Retire
<1>11. CASE UNCHANGED vars
    BY <1>1, <1>11, UnchangedStore DEF vars
<1> QED
    BY <1>4, <1>5, <1>6, <1>7, <1>8, <1>9, <1>10, <1>11 DEF Next, TimerStep, AppStep

\* Type correctness of the timer manager and its threads.
THEOREM TypeCorrect == Spec => []TypeOK
<1>1. TypeInv => TypeOK
    BY DEF TypeInv
<1> QED
    BY <1>1, TypeInvInit, TypeInvStep, PTL DEF Spec

\* CFrameTimerMgt's locking suffices to keep pool, tree and numbers consistent.
THEOREM StoreStaysConsistent == Spec => []StoreConsistent
<1>1. TypeInv => StoreConsistent
    BY DEF TypeInv
<1> QED
    BY <1>1, TypeInvInit, TypeInvStep, PTL DEF Spec
-----------------------------------------------------------------------------
\* What else a lone thread may rely on between its steps: other threads would remove
\* the timer it has found, or put another into the slot.
LoneThread == \A s, t \in Threads : s = t

\* The timer that was found is still there, and due once the thread has seen that.
FoundInv(t) == /\ At(t, "check") \/ At(t, "begin") => InUse(m_timerPool, th[t].idx)
               /\ At(t, "begin") => timer[th[t].idx].nEndTime <= now
               /\ th[t].inTimer <=> \/ At(t, "app") /\ th[t].inTimer
                                    \/ At(t, "fired") \/ At(t, "retire")

\* The number kept across a callback is old, and names no timer of another slot.
KeptInv(t) == th[t].inTimer =>
    /\ th[t].seq < m_nTimerSeq
    /\ \A i \in m_timerPool.used : timer[i].nTimerSeq = th[t].seq => i = th[t].idx
    /\ At(t, "retire") => IsTimer(th[t].idx, th[t].seq)

\* A one-shot timer that was called back is gone, or it is the one in the callback.
FiredInv(t) ==
    /\ \A q \in fired : q < m_nTimerSeq
    /\ \A i \in m_timerPool.used :
          ~ timer[i].bLoop /\ timer[i].nTimerSeq \in fired => th[t].inTimer /\ timer[i].nTimerSeq = th[t].seq

LoneInv == TypeInv /\ \A t \in Threads : FoundInv(t) /\ KeptInv(t) /\ FiredInv(t)

LEMMA LoneInvInit == Init => LoneInv
<1> SUFFICES ASSUME Init PROVE LoneInv
    OBVIOUS
<1>1. TypeInv
    BY TypeInvInit
<1>2. m_timerPool.used = {} /\ fired = {} /\ \A t \in Threads : th[t] = Idle
    BY DEF Init, TimerStoreInit, NewPool
<1> QED
    BY <1>1, <1>2 DEF LoneInv, FoundInv, KeptInv, FiredInv, At, Idle

\* The three parts hold after a step of the thread that changes no timer.
LEMMA LoneStepOfTimers ==
    ASSUME LoneThread, LoneInv, NEW t \in Threads,
           NoTimer(t) \/ GetFirstTimer(t) \/ CheckEndTime(t) \/ BeginEvent(t) \/ AppReturn(t)
               \/ CheckSeq(t) \/ PollMessages(t)
    PROVE  FoundInv(t)' /\ KeptInv(t)' /\ FiredInv(t)'
<1> USE DEF At, Goto, Finish
<1>1. /\ th \in [Threads -> [pc : PCs, idx : TimerSlots, seq : Nat, inTimer : BOOLEAN]]
      /\ timer \in [TimerSlots -> FrameTimers] /\ m_timerPool.used \subseteq TimerSlots
      /\ m_nTimerSeq \in Nat /\ now \in Nat
      /\ \A i \in m_timerPool.used : timer[i].nTimerSeq < m_nTimerSeq
      /\ \A i, j \in m_timerPool.used : timer[i].nTimerSeq = timer[j].nTimerSeq => i = j
      /\ FoundInv(t) /\ KeptInv(t) /\ FiredInv(t)
    BY DEF LoneInv, TypeInv, TypeOK, TimerStoreTypeOK, StoreConsistent, TimerSeqNamesTimer
<1>2. CASE NoTimer(t) \/ PollMessages(t)
    BY <1>1, <1>2 DEF NoTimer, PollMessages, Idle, FoundInv, KeptInv, FiredInv, timerVars
<1>3. CASE GetFirstTimer(t)
    <2>1. PICK i \in FirstTimers : /\ th' = [th EXCEPT ![t].pc = "check", ![t].idx = i]
                                   /\ UNCHANGED <<timerVars, fired>>
        BY <1>3, FirstTimersAreUsed DEF GetFirstTimer, LoneInv
    <2>2. i \in TimerSlots /\ InUse(m_timerPool, i)
        BY FirstTimersAreUsed DEF LoneInv
    <2>3. ~ th[t].inTimer
        <3>1. th[t].pc = "idle"
            BY <1>3 DEF GetFirstTimer
        <3> QED
            BY <1>1, <3>1 DEF FoundInv
    <2>4. th'[t].pc = "check" /\ th'[t].idx = i /\ th'[t].inTimer = th[t].inTimer
        BY <1>1, <2>1
    <2>5. UNCHANGED <<m_timerPool, timer, m_nTimerSeq, now, fired>>
        BY <2>1 DEF timerVars
    <2> QED
        BY <1>1, <2>2, <2>3, <2>4, <2>5 DEF FoundInv, KeptInv, FiredInv, InUse
<1>4. CASE CheckEndTime(t)
    <2>1. timer[th[t].idx].nEndTime \in Nat
        BY <1>1 DEF FrameTimers
    <2> QED
        BY <1>1, <1>4, <2>1 DEF CheckEndTime, FoundInv, KeptInv, FiredInv, timerVars, InUse
<1>5. CASE BeginEvent(t)
    <2>1. InUse(m_timerPool, th[t].idx) /\ ~ th[t].inTimer
        BY <1>1, <1>5 DEF BeginEvent, FoundInv
    <2>2. /\ th'[t].idx = th[t].idx /\ th'[t].seq = timer[th[t].idx].nTimerSeq
          /\ th'[t].inTimer /\ th'[t].pc \in {"app", "fired"}
        BY <1>1, <1>5 DEF BeginEvent
    <2>3. fired' \subseteq fired \cup {timer[th[t].idx].nTimerSeq} /\ UNCHANGED timerVars
        BY <1>5 DEF BeginEvent
    <2> QED
        BY <1>1, <2>1, <2>2, <2>3 DEF FoundInv, KeptInv, FiredInv, timerVars, InUse
<1>6. CASE AppReturn(t)
    BY <1>1, <1>6 DEF AppReturn, Idle, FoundInv, KeptInv, FiredInv, timerVars
<1>7. CASE CheckSeq(t)
    <2>1. th[t].inTimer
        BY <1>1, <1>7 DEF CheckSeq, FoundInv
    <2>2. CASE IsTimer(th[t].idx, th[t].seq)
        BY <1>1, <1>7, <2>1, <2>2 DEF CheckSeq, FoundInv, KeptInv, FiredInv, timerVars, IsTimer, InUse
    <2>3. CASE ~ IsTimer(th[t].idx, th[t].seq)
        <3>1. \A i \in m_timerPool.used : timer[i].nTimerSeq # th[t].seq
            BY <1>1, <2>1, <2>3 DEF KeptInv, IsTimer, InUse
        <3> QED
            BY <1>1, <1>7, <2>3, <3>1 DEF CheckSeq, Idle, FoundInv, KeptInv, FiredInv, timerVars
    <2> QED
        BY <2>2, <2>3
<1> QED
    BY <1>2, <1>3, <1>4, <1>5, <1>6, <1>7

\* And after one that does, or one of the clock.
LEMMA LoneStepOnTimers ==
    ASSUME LoneThread, LoneInv, NEW t \in Threads,
           TimePasses \/ AppCreateTimer(t) \/ AppRemoveTimer(t) \/ Retire(t) \/ UNCHANGED vars
    PROVE  FoundInv(t)' /\ KeptInv(t)' /\ FiredInv(t)'
<1> USE DEF At, Goto, Finish
<1>1. /\ th \in [Threads -> [pc : PCs, idx : TimerSlots, seq : Nat, inTimer : BOOLEAN]]
      /\ timer \in [TimerSlots -> FrameTimers] /\ m_timerPool.used \subseteq TimerSlots
      /\ m_nTimerSeq \in Nat /\ now \in Nat /\ fired \subseteq Nat
      /\ FoundInv(t) /\ KeptInv(t) /\ FiredInv(t)
      /\ StoreInv
    BY DEF LoneInv, TypeInv, TypeOK, StoreInv, TimerStoreTypeOK, StoreConsistent, TimerSeqNamesTimer
<1>2. \A i \in m_timerPool.used : timer[i].nTimerSeq \in Nat /\ timer[i].nEndTime \in Nat
    BY <1>1 DEF FrameTimers
<1>3. CASE TimePasses \/ UNCHANGED vars
    <2>1. UNCHANGED <<m_timerPool, timer, m_nTimerSeq, th, fired>> /\ now' >= now /\ now' \in Nat
        BY <1>1, <1>3 DEF TimePasses, Tick, vars, timerVars
    <2> QED
        BY <1>1, <1>2, <2>1 DEF FoundInv, KeptInv, FiredInv, IsTimer, InUse
<1>4. CASE AppCreateTimer(t) /\ ~ CreateTimerFails
    <2>1. PICK id \in TimerIDs, cycle \in CycleTimes, loop \in BOOLEAN : CreateTimer(id, cycle, loop)
        BY <1>4 DEF AppCreateTimer
    <2>2. /\ m_nTimerSeq' = m_nTimerSeq + 1
          /\ \E i \in TimerSlots \ m_timerPool.used :
                 /\ m_timerPool'.used = m_timerPool.used \cup {i}
                 /\ timer'[i].nTimerSeq = m_nTimerSeq
                 /\ \A j \in m_timerPool.used : timer'[j] = timer[j]
        BY <1>1, <2>1, CreateTimerAdds, TimerIDsAssumption, CycleTimesAssumption
    <2>3. th[t].pc = "app" /\ UNCHANGED <<th, fired>>
        BY <1>4 DEF AppCreateTimer
    <2> QED
        BY <1>1, <2>2, <2>3 DEF FoundInv, KeptInv, FiredInv
<1>5. CASE AppCreateTimer(t) /\ CreateTimerFails
    <2>1. /\ m_nTimerSeq' = m_nTimerSeq + 1 /\ UNCHANGED <<m_timerPool, timer, th, fired>>
          /\ th[t].pc = "app"
        BY <1>5 DEF AppCreateTimer, CreateTimerFails, CreateTimerRefused
    <2> QED
        BY <1>1, <2>1 DEF FoundInv, KeptInv, FiredInv
<1>6. CASE AppRemoveTimer(t)
    <2>1. PICK i \in TimerSlots : RemoveTimer(i)
        BY <1>6 DEF AppRemoveTimer
    <2>2. /\ UNCHANGED m_nTimerSeq /\ m_timerPool'.used \subseteq m_timerPool.used
          /\ \A j \in m_timerPool'.used : timer'[j] = timer[j]
        BY <1>1, <2>1, RemoveTimerTakes
    <2>3. th[t].pc = "app" /\ UNCHANGED <<th, fired>>
        BY <1>6 DEF AppRemoveTimer
    <2> QED
        BY <1>1, <2>2, <2>3 DEF FoundInv, KeptInv, FiredInv
<1>7. CASE Retire(t)
    <2>1. /\ UNCHANGED m_nTimerSeq /\ m_timerPool'.used \subseteq m_timerPool.used
          /\ \A j \in m_timerPool'.used : /\ timer'[j].nTimerSeq = timer[j].nTimerSeq
                                          /\ timer'[j].bLoop = timer[j].bLoop
          /\ th[t].idx \in m_timerPool'.used => timer[th[t].idx].bLoop
        BY <1>1, <1>7, TimerFiredEnds DEF Retire
    <2>2. th[t].pc = "retire" /\ th[t].inTimer /\ th'[t] = Idle /\ UNCHANGED fired
        BY <1>1, <1>7 DEF Retire, FoundInv
    <2>3. \A i \in m_timerPool'.used : timer'[i].bLoop \/ timer'[i].nTimerSeq \notin fired
        BY <1>1, <2>1, <2>2 DEF KeptInv, FiredInv
    <2> QED
        BY <1>1, <2>1, <2>2, <2>3 DEF FoundInv, KeptInv, FiredInv, Idle
<1> QED
    BY <1>3, <1>4, <1>5, <1>6, <1>7

LEMMA LoneInvStep == LoneThread /\ LoneInv /\ [Next]_vars => LoneInv'
<1> SUFFICES ASSUME LoneThread, LoneInv, [Next]_vars PROVE LoneInv'
    OBVIOUS
<1>1. TypeInv'
    BY TypeInvStep DEF LoneInv
<1>2. ASSUME NEW t \in Threads PROVE FoundInv(t)' /\ KeptInv(t)' /\ FiredInv(t)'
    <2>1. CASE TimePasses \/ UNCHANGED vars
        BY <2>1, LoneStepOnTimers
    <2>2. CASE TimerStep(t) \/ AppStep(t)
        BY <2>2, LoneStepOnTimers, LoneStepOfTimers DEF TimerStep, AppStep
    <2> QED
        BY <2>1, <2>2 DEF Next, LoneThread
<1> QED
    BY <1>1, <1>2 DEF LoneInv

LEMMA LoneInvHolds == LoneThread => (Spec => []LoneInv)
<1>1. ASSUME LoneThread PROVE Spec => []LoneInv
    <2>1. LoneInv /\ [Next]_vars => LoneInv'
        BY <1>1, LoneInvStep
    <2> QED
        BY <2>1, LoneInvInit, PTL DEF Spec
<1> QED
    BY <1>1

\* With one application thread, ProcessTimerEvent ends the timer it called back, not
\* one that has taken its slot.
THEOREM LoneThreadRetiresOwn == LoneThread => (Spec => RetiresOwnTimer)
<1>1. ASSUME LoneInv, [Next]_vars, NEW t \in Threads, At(t, "retire")
      PROVE  timer[th[t].idx].nTimerSeq = th[t].seq
    BY <1>1 DEF LoneInv, FoundInv, KeptInv, At, IsTimer
<1>2. LoneInv /\ [Next]_vars => [\A t \in Threads :
          At(t, "retire") /\ InUse(m_timerPool, th[t].idx) /\ th'[t].pc = "idle"
             => timer[th[t].idx].nTimerSeq = th[t].seq]_vars
    BY <1>1
<1>3. ASSUME LoneThread PROVE Spec => RetiresOwnTimer
    <2>1. Spec => []LoneInv
        BY <1>3, LoneInvHolds
    <2> QED
        BY <2>1, <1>2, PTL DEF Spec, RetiresOwnTimer
<1> QED
    BY <1>3

\* With one application thread, no handler runs before its timer's end time.
THEOREM LoneThreadIsNeverEarly == LoneThread => (Spec => NeverEarly)
<1>1. LoneInv /\ [Next]_vars => [\A t \in Threads : Calls(t) => timer[th[t].idx].nEndTime <= now]_vars
    BY DEF LoneInv, FoundInv, Calls
<1>2. ASSUME LoneThread PROVE Spec => NeverEarly
    <2>1. Spec => []LoneInv
        BY <1>2, LoneInvHolds
    <2> QED
        BY <2>1, <1>1, PTL DEF Spec, NeverEarly
<1> QED
    BY <1>2

\* With one application thread, a one-shot timer is called back once, although it stays
\* in the tree while its handler runs.
THEOREM LoneThreadFiresOnce == LoneThread => (Spec => OneShotFiresOnce)
<1>1. ASSUME LoneInv, NEW t \in Threads, Calls(t)
      PROVE  timer[th[t].idx].bLoop \/ timer[th[t].idx].nTimerSeq \notin fired
    BY <1>1 DEF LoneInv, FoundInv, FiredInv, Calls, At, InUse
<1>2. LoneInv /\ [Next]_vars => [\A t \in Threads : Calls(t) =>
          LET tm == timer[th[t].idx] IN tm.bLoop \/ tm.nTimerSeq \notin fired]_vars
    BY <1>1
<1>3. ASSUME LoneThread PROVE Spec => OneShotFiresOnce
    <2>1. Spec => []LoneInv
        BY <1>3, LoneInvHolds
    <2> QED
        BY <2>1, <1>2, PTL DEF Spec, OneShotFiresOnce
<1> QED
    BY <1>3
=============================================================================
