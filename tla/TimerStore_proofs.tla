-------------------------- MODULE TimerStore_proofs --------------------------
(***************************************************************************)
(* The operations of a pool (FifoPool) keep it well formed, and those of   *)
(* CFrameTimerMgt keep pool, tree and sequence numbers consistent, whatever*)
(* index they are given: for every number of slots.                        *)
(***************************************************************************)
EXTENDS TimerStore, TLAPS

(* The pool.                                                               *)

IsPool(p, n) == /\ p \in [free : Seq(SlotsOf(n)), used : SUBSET SlotsOf(n)]
                /\ WellFormedPool(p, n)

\* A pool as Initialize leaves it is well formed.
LEMMA NewPoolWellFormed ==
    ASSUME NEW n \in Nat
    PROVE  IsPool(NewPool(n), n)
<1> DEFINE f == [i \in 1 .. n |-> i - 1]
<1>1. f \in [1 .. n -> SlotsOf(n)]
    BY DEF SlotsOf
<1>2. f \in Seq(SlotsOf(n)) /\ Len(f) = n
    BY <1>1, SMT DEF SlotsOf
<1>3. \A s \in SlotsOf(n) : s + 1 \in 1 .. n /\ f[s + 1] = s
    BY DEF SlotsOf
<1>4. WellFormedPool(NewPool(n), n)
    BY <1>1, <1>2, <1>3 DEF NewPool, WellFormedPool, SlotsOf
<1> QED
    BY <1>2, <1>4 DEF IsPool, NewPool

\* CreateIndex: the slot handed out was free, and the pool stays well formed.
LEMMA TakeSlotWellFormed ==
    ASSUME NEW n \in Nat, NEW p, IsPool(p, n), ~ IsFullPool(p)
    PROVE  /\ IsPool(TakeSlot(p), n)
           /\ NextSlot(p) \in SlotsOf(n) \ p.used
           /\ TakeSlot(p).used = p.used \cup {NextSlot(p)}
<1> DEFINE q == TakeSlot(p)
<1>1. /\ p.free \in Seq(SlotsOf(n)) /\ p.free # << >>
      /\ p.used \subseteq SlotsOf(n)
    BY DEF IsPool, IsFullPool
<1>2. /\ q.free = Tail(p.free) /\ q.used = p.used \cup {Head(p.free)}
      /\ q = [free |-> q.free, used |-> q.used]
    BY DEF TakeSlot
<1>3. /\ Len(p.free) \in Nat \ {0} /\ Head(p.free) = p.free[1]
      /\ Head(p.free) \in SlotsOf(n)
      /\ Tail(p.free) \in Seq(SlotsOf(n)) /\ Len(Tail(p.free)) = Len(p.free) - 1
      /\ \A i \in 1 .. Len(p.free) - 1 : Tail(p.free)[i] = p.free[i + 1]
    BY <1>1
<1>4. WellFormedPool(q, n)
    <2>1. q.used \subseteq SlotsOf(n)
        BY <1>1, <1>2, <1>3
    <2>2. \A i \in 1 .. Len(q.free) : q.free[i] \in SlotsOf(n) \ q.used
        <3> SUFFICES ASSUME NEW i \in 1 .. Len(q.free)
                     PROVE  q.free[i] \in SlotsOf(n) \ q.used
            OBVIOUS
        <3>1. q.free[i] = p.free[i + 1] /\ i + 1 \in 1 .. Len(p.free) /\ i + 1 # 1
            BY <1>2, <1>3
        <3>2. p.free[i + 1] \in SlotsOf(n) \ p.used /\ p.free[i + 1] # p.free[1]
            BY <1>3, <3>1 DEF IsPool, WellFormedPool
        <3> QED
            BY <1>2, <1>3, <3>1, <3>2
    <2>3. \A i, j \in 1 .. Len(q.free) : q.free[i] = q.free[j] => i = j
        <3> SUFFICES ASSUME NEW i \in 1 .. Len(q.free), NEW j \in 1 .. Len(q.free),
                            q.free[i] = q.free[j]
                     PROVE  i = j
            OBVIOUS
        <3>1. p.free[i + 1] = p.free[j + 1] /\ i + 1 \in 1 .. Len(p.free) /\ j + 1 \in 1 .. Len(p.free)
            BY <1>2, <1>3
        <3> QED
            BY <3>1 DEF IsPool, WellFormedPool
    <2>4. \A s \in SlotsOf(n) \ q.used : \E i \in 1 .. Len(q.free) : q.free[i] = s
        <3> SUFFICES ASSUME NEW s \in SlotsOf(n) \ q.used
                     PROVE  \E i \in 1 .. Len(q.free) : q.free[i] = s
            OBVIOUS
        <3>1. PICK k \in 1 .. Len(p.free) : p.free[k] = s
            BY <1>2 DEF IsPool, WellFormedPool
        <3>2. k # 1
            BY <1>2, <1>3, <3>1
        <3>3. k - 1 \in 1 .. Len(q.free) /\ q.free[k - 1] = s
            BY <1>2, <1>3, <3>1, <3>2
        <3> QED
            BY <3>3
    <2> QED
        BY <2>1, <2>2, <2>3, <2>4 DEF WellFormedPool
<1>5. Head(p.free) \notin p.used
    BY <1>3 DEF IsPool, WellFormedPool
<1> QED
    BY <1>1, <1>2, <1>3, <1>4, <1>5 DEF IsPool, NextSlot

\* DestroyIndex: the slot leaves the used ones, and the pool stays well formed.
LEMMA GiveSlotWellFormed ==
    ASSUME NEW n \in Nat, NEW p, IsPool(p, n), NEW s
    PROVE  /\ IsPool(GiveSlot(p, s), n)
           /\ GiveSlot(p, s).used = p.used \ {s}
<1>1. CASE s \notin p.used
    BY <1>1 DEF GiveSlot, IsPool
<1>2. CASE s \in p.used
    <2> DEFINE q == GiveSlot(p, s)
    <2>1. /\ p.free \in Seq(SlotsOf(n)) /\ p.used \subseteq SlotsOf(n) /\ s \in SlotsOf(n)
        BY <1>2 DEF IsPool
    <2>2. /\ q.free = Append(p.free, s) /\ q.used = p.used \ {s}
          /\ q = [free |-> q.free, used |-> q.used]
        BY <1>2 DEF GiveSlot
    <2>3. /\ q.free \in Seq(SlotsOf(n)) /\ Len(q.free) = Len(p.free) + 1 /\ Len(p.free) \in Nat
          /\ \A i \in 1 .. Len(p.free) : q.free[i] = p.free[i]
          /\ q.free[Len(p.free) + 1] = s
        BY <2>1, <2>2
    <2>4. \A i \in 1 .. Len(p.free) : p.free[i] \in SlotsOf(n) \ p.used
        BY DEF IsPool, WellFormedPool
    <2>5. \A i \in 1 .. Len(q.free) : q.free[i] \in SlotsOf(n) \ q.used
        BY <2>1, <2>2, <2>3, <2>4
    <2>6. \A i, j \in 1 .. Len(q.free) : q.free[i] = q.free[j] => i = j
        <3> SUFFICES ASSUME NEW i \in 1 .. Len(q.free), NEW j \in 1 .. Len(q.free),
                            q.free[i] = q.free[j]
                     PROVE  i = j
            OBVIOUS
        <3>1. CASE i \in 1 .. Len(p.free) /\ j \in 1 .. Len(p.free)
            BY <2>3, <3>1 DEF IsPool, WellFormedPool
        <3>2. CASE i = Len(p.free) + 1 \/ j = Len(p.free) + 1
            BY <1>2, <2>3, <2>4, <3>2
        <3> QED
            BY <2>3, <3>1, <3>2
    <2>7. \A r \in SlotsOf(n) \ q.used : \E i \in 1 .. Len(q.free) : q.free[i] = r
        <3> SUFFICES ASSUME NEW r \in SlotsOf(n) \ q.used
                     PROVE  \E i \in 1 .. Len(q.free) : q.free[i] = r
            OBVIOUS
        <3>1. CASE r = s
            BY <2>3, <3>1
        <3>2. CASE r # s
            <4>1. PICK k \in 1 .. Len(p.free) : p.free[k] = r
                BY <2>2, <3>2 DEF IsPool, WellFormedPool
            <4> QED
                BY <2>3, <4>1
        <3> QED
            BY <3>1, <3>2
    <2>8. WellFormedPool(q, n)
        BY <2>1, <2>2, <2>5, <2>6, <2>7 DEF WellFormedPool
    <2> QED
        BY <2>1, <2>2, <2>3, <2>8 DEF IsPool
<1> QED
    BY <1>1, <1>2

-----------------------------------------------------------------------------
(* The timers.                                                             *)

StoreInv == TimerStoreTypeOK /\ TimerStoreConsistent /\ TimerSeqNamesTimer

\* The tree indexes the timers in use and the numbers tell them apart.
LEMMA StoreInvPool == StoreInv => IsPool(m_timerPool, MaxTimers)
BY DEF StoreInv, TimerStoreTypeOK, TimerStoreConsistent, IsPool, TimerSlots

LEMMA InitStore == TimerStoreInit => StoreInv
<1> SUFFICES ASSUME TimerStoreInit PROVE StoreInv
    OBVIOUS
<1>1. IsPool(m_timerPool, MaxTimers)
    BY NewPoolWellFormed, MaxTimersAssumption DEF TimerStoreInit
<1>2. m_timerPool.used = {} /\ m_timerMap = {}
    BY DEF TimerStoreInit, NewPool
<1>3. timer \in [TimerSlots -> FrameTimers] /\ m_nTimerSeq = 0 /\ now = 0
    BY DEF TimerStoreInit, ZeroTimer, FrameTimers
<1> QED
    BY <1>1, <1>2, <1>3
    DEF StoreInv, TimerStoreTypeOK, TimerStoreConsistent,
        TimerSeqNamesTimer, IsPool, TimerSlots

LEMMA CreateTimerKeeps ==
    ASSUME StoreInv, NEW id \in Nat, NEW cycle \in Nat, NEW loop \in BOOLEAN,
           CreateTimer(id, cycle, loop)
    PROVE  StoreInv'
<1> DEFINE i == NextSlot(m_timerPool)
<1>1. /\ IsPool(m_timerPool', MaxTimers)
      /\ i \in TimerSlots \ m_timerPool.used
      /\ m_timerPool'.used = m_timerPool.used \cup {i}
    BY StoreInvPool, TakeSlotWellFormed, MaxTimersAssumption DEF CreateTimer, TimerSlots
<1>2. m_timerMap' = m_timerPool'.used
    BY <1>1 DEF CreateTimer, StoreInv, TimerStoreConsistent
<1>3. /\ timer' \in [TimerSlots -> FrameTimers]
      /\ timer'[i].nTimerSeq = m_nTimerSeq
      /\ \A j \in m_timerPool.used : j # i /\ j \in TimerSlots /\ timer'[j] = timer[j]
    BY <1>1 DEF CreateTimer, StoreInv, TimerStoreTypeOK, FrameTimers
<1>4. m_nTimerSeq \in Nat /\ m_nTimerSeq' = m_nTimerSeq + 1 /\ now' = now /\ now \in Nat
    BY DEF CreateTimer, StoreInv, TimerStoreTypeOK
<1>5. TimerSeqNamesTimer'
    <2>1. \A j \in m_timerPool.used :
             timer[j].nTimerSeq < m_nTimerSeq /\ timer[j].nTimerSeq \in Nat
        BY <1>3 DEF StoreInv, TimerSeqNamesTimer, TimerStoreTypeOK, FrameTimers
    <2>2. \A j \in m_timerPool'.used : timer'[j].nTimerSeq < m_nTimerSeq'
        BY <1>1, <1>3, <1>4, <2>1
    <2>3. \A j, k \in m_timerPool'.used : timer'[j].nTimerSeq = timer'[k].nTimerSeq => j = k
        <3> SUFFICES ASSUME NEW j \in m_timerPool'.used, NEW k \in m_timerPool'.used,
                            timer'[j].nTimerSeq = timer'[k].nTimerSeq
                     PROVE  j = k
            OBVIOUS
        <3>1. CASE j \in m_timerPool.used /\ k \in m_timerPool.used
            BY <1>3, <3>1 DEF StoreInv, TimerSeqNamesTimer
        <3>2. CASE j = i \/ k = i
            BY <1>1, <1>3, <1>4, <2>1, <3>2
        <3> QED
            BY <1>1, <3>1, <3>2
    <2> QED
        BY <2>2, <2>3 DEF TimerSeqNamesTimer
<1> QED
    BY <1>1, <1>2, <1>3, <1>4, <1>5
    DEF StoreInv, TimerStoreTypeOK, TimerStoreConsistent, IsPool, TimerSlots

LEMMA CreateTimerRefusedKeeps ==
    ASSUME StoreInv, CreateTimerRefused
    PROVE  StoreInv'
<1>1. m_timerPool.used \subseteq TimerSlots
    BY DEF StoreInv, TimerStoreTypeOK
<1>2. \A i \in m_timerPool.used : timer[i].nTimerSeq \in Nat
    BY <1>1 DEF StoreInv, TimerStoreTypeOK, FrameTimers
<1> QED
    BY <1>2 DEF StoreInv, TimerStoreTypeOK, TimerStoreConsistent,
        TimerSeqNamesTimer, CreateTimerRefused, WellFormedPool

LEMMA RemoveTimerKeeps ==
    ASSUME StoreInv, NEW i, RemoveTimer(i)
    PROVE  StoreInv'
<1>1. CASE ~ InUse(m_timerPool, i)
    BY <1>1 DEF RemoveTimer, StoreInv, TimerStoreTypeOK, TimerStoreConsistent,
        TimerSeqNamesTimer, WellFormedPool
<1>2. CASE InUse(m_timerPool, i)
    <2>1. m_timerPool' = GiveSlot(m_timerPool, i) /\ m_timerMap' = m_timerMap \ {i}
          /\ timer' = [timer EXCEPT ![i] = ZeroTimer] /\ UNCHANGED <<m_nTimerSeq, now>>
        BY <1>2 DEF RemoveTimer
    <2>2. IsPool(m_timerPool', MaxTimers) /\ m_timerPool'.used = m_timerPool.used \ {i}
        BY <2>1, StoreInvPool, GiveSlotWellFormed, MaxTimersAssumption
    <2>3. m_timerMap' = m_timerPool'.used
        BY <2>1, <2>2 DEF StoreInv, TimerStoreConsistent
    <2>4. /\ timer' \in [TimerSlots -> FrameTimers]
          /\ \A j \in m_timerPool'.used : j \in m_timerPool.used /\ timer'[j] = timer[j]
        BY <2>1, <2>2 DEF StoreInv, TimerStoreTypeOK, FrameTimers, ZeroTimer
    <2>5. TimerSeqNamesTimer'
        BY <2>1, <2>4 DEF StoreInv, TimerSeqNamesTimer
    <2> QED
        BY <2>1, <2>2, <2>3, <2>4, <2>5
        DEF StoreInv, TimerStoreTypeOK, TimerStoreConsistent, IsPool, TimerSlots
<1> QED
    BY <1>1, <1>2

LEMMA TimerFiredKeeps ==
    ASSUME StoreInv, NEW i \in TimerSlots, TimerFired(i)
    PROVE  StoreInv'
<1>1. CASE InUse(m_timerPool, i) /\ timer[i].bLoop
    <2>1. /\ timer' = [timer EXCEPT ![i].nEndTime = now + timer[i].nCycleTime]
          /\ UNCHANGED <<m_timerPool, m_timerMap, m_nTimerSeq, now>>
        BY <1>1 DEF TimerFired
    <2>2. /\ timer' \in [TimerSlots -> FrameTimers]
          /\ \A j \in TimerSlots : timer'[j].nTimerSeq = timer[j].nTimerSeq
        <3>1. timer[i] \in FrameTimers /\ now \in Nat /\ timer \in [TimerSlots -> FrameTimers]
            BY DEF StoreInv, TimerStoreTypeOK
        <3>2. now + timer[i].nCycleTime \in Nat
            BY <3>1 DEF FrameTimers
        <3>3. [timer[i] EXCEPT !.nEndTime = now + timer[i].nCycleTime] \in FrameTimers
            BY <3>1, <3>2 DEF FrameTimers
        <3>4. [timer[i] EXCEPT !.nEndTime = now + timer[i].nCycleTime].nTimerSeq
                  = timer[i].nTimerSeq
            BY <3>1 DEF FrameTimers
        <3>5. timer' = [timer EXCEPT ![i] =
                           [timer[i] EXCEPT !.nEndTime = now + timer[i].nCycleTime]]
            BY <2>1, Zenon
        <3> QED
            BY <3>1, <3>3, <3>4, <3>5
    <2>3. m_timerPool.used \subseteq TimerSlots
        BY DEF StoreInv, TimerStoreTypeOK
    <2>4. TimerSeqNamesTimer'
        BY <2>1, <2>2, <2>3 DEF StoreInv, TimerSeqNamesTimer
    <2> QED
        BY <2>1, <2>2, <2>4 DEF StoreInv, TimerStoreTypeOK, TimerStoreConsistent,
            WellFormedPool
<1>2. CASE ~ (InUse(m_timerPool, i) /\ timer[i].bLoop)
    BY <1>2, RemoveTimerKeeps DEF TimerFired
<1> QED
    BY <1>1, <1>2
-----------------------------------------------------------------------------
LEMMA UnchangedStore ==
    ASSUME StoreInv, UNCHANGED timerVars
    PROVE  StoreInv'
BY DEF timerVars, StoreInv, TimerStoreTypeOK, TimerStoreConsistent,
    TimerSeqNamesTimer, WellFormedPool
-----------------------------------------------------------------------------
(* What the operations do to the timers in use: one more, with the next    *)
(* number; one fewer; or a later end time.                                 *)

LEMMA CreateTimerAdds ==
    ASSUME StoreInv, NEW id \in Nat, NEW cycle \in Nat, NEW loop \in BOOLEAN,
           CreateTimer(id, cycle, loop)
    PROVE  /\ m_nTimerSeq' = m_nTimerSeq + 1
           /\ \E i \in TimerSlots \ m_timerPool.used :
                 /\ m_timerPool'.used = m_timerPool.used \cup {i}
                 /\ timer'[i].nTimerSeq = m_nTimerSeq
                 /\ \A j \in m_timerPool.used : timer'[j] = timer[j]
<1> DEFINE i == NextSlot(m_timerPool)
<1>1. /\ i \in TimerSlots \ m_timerPool.used
      /\ m_timerPool'.used = m_timerPool.used \cup {i}
    BY StoreInvPool, TakeSlotWellFormed, MaxTimersAssumption DEF CreateTimer, TimerSlots
<1>2. /\ timer'[i].nTimerSeq = m_nTimerSeq
      /\ \A j \in m_timerPool.used : timer'[j] = timer[j]
    BY <1>1 DEF CreateTimer, StoreInv, TimerStoreTypeOK
<1> QED
    BY <1>1, <1>2 DEF CreateTimer

LEMMA RemoveTimerTakes ==
    ASSUME StoreInv, NEW i, RemoveTimer(i)
    PROVE  /\ UNCHANGED <<m_nTimerSeq, now>>
           /\ m_timerPool'.used = m_timerPool.used \ {i}
           /\ \A j \in m_timerPool'.used : timer'[j] = timer[j]
<1>1. CASE ~ InUse(m_timerPool, i)
    BY <1>1 DEF RemoveTimer, InUse
<1>2. CASE InUse(m_timerPool, i)
    <2>1. i \in TimerSlots /\ m_timerPool.used \subseteq TimerSlots /\ timer \in [TimerSlots -> FrameTimers]
        BY <1>2 DEF StoreInv, TimerStoreTypeOK, InUse
    <2>2. m_timerPool'.used = m_timerPool.used \ {i} /\ timer' = [timer EXCEPT ![i] = ZeroTimer]
        BY <1>2 DEF RemoveTimer, GiveSlot, InUse
    <2> QED
        BY <2>1, <2>2 DEF RemoveTimer
<1> QED
    BY <1>1, <1>2

LEMMA TimerFiredEnds ==
    ASSUME StoreInv, NEW i \in TimerSlots, TimerFired(i)
    PROVE  /\ UNCHANGED <<m_nTimerSeq, now>>
           /\ m_timerPool'.used \subseteq m_timerPool.used
           /\ \A j \in m_timerPool'.used : /\ timer'[j].nTimerSeq = timer[j].nTimerSeq
                                           /\ timer'[j].bLoop = timer[j].bLoop
           /\ i \in m_timerPool'.used => timer[i].bLoop
<1>1. CASE InUse(m_timerPool, i) /\ timer[i].bLoop
    <2>1. timer \in [TimerSlots -> FrameTimers] /\ m_timerPool.used \subseteq TimerSlots
        BY DEF StoreInv, TimerStoreTypeOK
    <2>2. timer' = [timer EXCEPT ![i] = [timer[i] EXCEPT !.nEndTime = now + timer[i].nCycleTime]]
        BY <1>1, Zenon DEF TimerFired
    <2>3. /\ [timer[i] EXCEPT !.nEndTime = now + timer[i].nCycleTime].nTimerSeq = timer[i].nTimerSeq
          /\ [timer[i] EXCEPT !.nEndTime = now + timer[i].nCycleTime].bLoop = timer[i].bLoop
        BY <2>1 DEF FrameTimers
    <2>4. \A j \in TimerSlots : timer'[j].nTimerSeq = timer[j].nTimerSeq /\ timer'[j].bLoop = timer[j].bLoop
        BY <2>1, <2>2, <2>3
    <2>5. UNCHANGED <<m_timerPool, m_nTimerSeq, now>>
        BY <1>1 DEF TimerFired
    <2> QED
        BY <1>1, <2>1, <2>4, <2>5
<1>2. CASE ~ (InUse(m_timerPool, i) /\ timer[i].bLoop)
    BY <1>2, RemoveTimerTakes DEF TimerFired
<1> QED
    BY <1>1, <1>2
=============================================================================
