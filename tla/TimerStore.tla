----------------------------- MODULE TimerStore -----------------------------
(***************************************************************************)
(* The data of CFrameTimerMgt (src/frame_timer_mgt.cpp) and the operations *)
(* it performs under m_stTimerLock: a pool of timer objects and a red-black*)
(* tree that orders the live ones by end time.  The tree is abstracted to  *)
(* the set of slots it indexes: the only thing its users ask of it is a    *)
(* slot of smallest end time.  The threads that call these operations are  *)
(* in TimerMgt and in SessionMgt.                                          *)
(***************************************************************************)
EXTENDS FifoPool

CONSTANTS
    MaxTimers,      \* MAX_FRAMETIMER_COUNT: timer slots
    CycleTimes,     \* the cycle times (timeouts) callers ask for
    MaxTime         \* bound of a model-checking run on the clock

ASSUME MaxTimersAssumption == MaxTimers \in Nat \ {0}
ASSUME CycleTimesAssumption == CycleTimes \subseteq Nat \ {0}
ASSUME MaxTimeAssumption == MaxTime \in Nat

VARIABLES
    m_timerPool,    \* TimerPool m_timerPool, as a FifoPool
    m_timerMap,     \* TimerMap m_timerMap: the slots the tree indexes
    timer,          \* slot -> FrameTimer (m_stTimer of the pooled object)
    m_nTimerSeq,    \* the next sequence number
    now             \* CTimeValue::CurrentTime(), in units of the cycle times

timerVars == <<m_timerPool, m_timerMap, timer, m_nTimerSeq, now>>

TimerSlots == SlotsOf(MaxTimers)

\* CFrameTimer::Uninitialize zeroes the object of a slot that is released.
ZeroTimer == [nTimerSeq |-> 0, nTimerID |-> 0, nCycleTime |-> 0, nEndTime |-> 0,
              bLoop |-> FALSE, pEventHandle |-> FALSE]

FrameTimers == [nTimerSeq : Nat, nTimerID : Nat, nCycleTime : Nat,
                nEndTime : Nat, bLoop : BOOLEAN, pEventHandle : BOOLEAN]

TimerStoreInit ==
    /\ m_timerPool = NewPool(MaxTimers)
    /\ m_timerMap = {}
    /\ timer = [i \in TimerSlots |-> ZeroTimer]
    /\ m_nTimerSeq = 0
    /\ now = 0

-----------------------------------------------------------------------------
\* CreateTimer when the pool has a slot.  The tree has as many nodes as the
\* pool has slots, so the insertion that follows cannot fail.
CreateTimer(id, cycle, loop) ==
    LET i == NextSlot(m_timerPool) IN
    /\ ~ IsFullPool(m_timerPool)
    /\ m_timerPool' = TakeSlot(m_timerPool)
    /\ m_timerMap' = m_timerMap \cup {i}
    /\ timer' = [timer EXCEPT ![i] =
          [nTimerSeq |-> m_nTimerSeq, nTimerID |-> id, nCycleTime |-> cycle,
           nEndTime |-> now + cycle, bLoop |-> loop, pEventHandle |-> TRUE]]
    /\ m_nTimerSeq' = m_nTimerSeq + 1
    /\ UNCHANGED now

\* CreateTimer when the pool is exhausted: the sequence number is spent.
CreateTimerRefused ==
    /\ m_nTimerSeq' = m_nTimerSeq + 1
    /\ UNCHANGED <<m_timerPool, m_timerMap, timer, now>>
CreateTimerFails == IsFullPool(m_timerPool) /\ CreateTimerRefused

\* (mutant) the tree keeps an entry of the timer that is removed
RemoveTimer_LeavesEntry(i) ==
    /\ UNCHANGED <<m_timerMap, m_nTimerSeq, now>>
    /\ IF InUse(m_timerPool, i)
       THEN /\ m_timerPool' = GiveSlot(m_timerPool, i)
            /\ timer' = [timer EXCEPT ![i] = ZeroTimer]
       ELSE UNCHANGED <<m_timerPool, timer>>

\* RemoveTimer(TimerIndex): an index that is not in use is refused.
RemoveTimer(i) ==
    /\ UNCHANGED <<m_nTimerSeq, now>>
    /\ IF InUse(m_timerPool, i)
       THEN /\ m_timerPool' = GiveSlot(m_timerPool, i)
            /\ m_timerMap' = m_timerMap \ {i}
            /\ timer' = [timer EXCEPT ![i] = ZeroTimer]
       ELSE UNCHANGED <<m_timerPool, m_timerMap, timer>>

\* (mutant) every timer is treated as a loop timer
TimerFired_AlwaysLoops(i) ==
    IF InUse(m_timerPool, i)
    THEN /\ timer' = [timer EXCEPT ![i].nEndTime = now + timer[i].nCycleTime]
         /\ UNCHANGED <<m_timerPool, m_timerMap, m_nTimerSeq, now>>
    ELSE RemoveTimer(i)

\* (mutant) a loop timer keeps its old end time
TimerFired_KeepsEndTime(i) ==
    IF InUse(m_timerPool, i) /\ timer[i].bLoop
    THEN UNCHANGED timerVars
    ELSE RemoveTimer(i)

\* TimerFired(TimerIndex): a loop timer is put back with a new end time,
\* every other timer is removed.
TimerFired(i) ==
    IF InUse(m_timerPool, i) /\ timer[i].bLoop
    THEN /\ timer' = [timer EXCEPT ![i].nEndTime = now + timer[i].nCycleTime]
         /\ UNCHANGED <<m_timerPool, m_timerMap, m_nTimerSeq, now>>
    ELSE RemoveTimer(i)

\* (mutant) the sequence number is not compared
IsTimer_AnyInSlot(i, seq) == InUse(m_timerPool, i)

\* The check TimerFired(TimerIndex, seq) makes before it calls the above.
IsTimer(i, seq) == InUse(m_timerPool, i) /\ timer[i].nTimerSeq = seq

\* The slots GetFirstTimer may return: those of smallest end time.
FirstTimers == {i \in m_timerMap : \A j \in m_timerMap : timer[i].nEndTime <= timer[j].nEndTime}

\* GetFirstTimer deletes a tree entry whose slot holds no timer.
EraseDangling(i) ==
    /\ m_timerMap' = m_timerMap \ {i}
    /\ UNCHANGED <<m_timerPool, timer, m_nTimerSeq, now>>

\* Time passes (outside the program).
Tick == /\ now < MaxTime
        /\ now' = now + 1
        /\ UNCHANGED <<m_timerPool, m_timerMap, timer, m_nTimerSeq>>
-----------------------------------------------------------------------------
TimerStoreTypeOK ==
    /\ m_timerPool \in [free : Seq(TimerSlots), used : SUBSET TimerSlots]
    /\ m_timerMap \subseteq TimerSlots
    /\ timer \in [TimerSlots -> FrameTimers]
    /\ m_nTimerSeq \in Nat
    /\ now \in Nat

\* The pool loses no slot, and the tree indexes exactly the timers in use: a
\* timer outside the tree would never fire, a tree entry without a timer would
\* be a dangling index (GetFirstTimer erases such entries, with a log entry).
TimerStoreConsistent ==
    /\ WellFormedPool(m_timerPool, MaxTimers)
    /\ m_timerMap = m_timerPool.used

\* The sequence number names a timer: two live timers never share one, and
\* none carries a number that is still to be given out.
TimerSeqNamesTimer ==
    /\ \A i \in m_timerPool.used : timer[i].nTimerSeq < m_nTimerSeq
    /\ \A i, j \in m_timerPool.used : timer[i].nTimerSeq = timer[j].nTimerSeq => i = j
=============================================================================
