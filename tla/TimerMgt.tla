------------------------------ MODULE TimerMgt ------------------------------
(***************************************************************************)
(* The application threads (CFrameMainThread) at work on the timers.  Every*)
(* operation of CFrameTimerMgt holds m_stTimerLock, but ProcessTimerEvent  *)
(* strings several of them together and reads the timer object between     *)
(* them without the lock: the steps of a thread below are the sections     *)
(* between two lock operations.                                            *)
(*                                                                         *)
(* A thread's callback (timer or message handler) is the application's own *)
(* code: it may create timers, remove any timer index and return.          *)
(***************************************************************************)
EXTENDS TimerStore, FiniteSets

CONSTANTS
    Threads,        \* the application threads (appthreadcount of them)
    TimerIDs,       \* nTimerID values, the application's own
    MaxTimerSeq     \* bound of a model-checking run on the timers created

ASSUME ThreadsAssumption == Threads # {}
ASSUME TimerIDsAssumption == TimerIDs \subseteq Nat

VARIABLES
    th,             \* thread -> control point and local variables
    fired           \* history: sequence numbers of one-shot timers called back

vars == <<timerVars, th, fired>>

PCs == {"idle", "check", "begin", "app", "fired", "retire", "work"}

\* The locals of ProcessTimerEvent; inTimer tells a timer callback from
\* a message handler.
Idle == [pc |-> "idle", idx |-> 0, seq |-> 0, inTimer |-> FALSE]

Init ==
    /\ TimerStoreInit
    /\ th = [t \in Threads |-> Idle]
    /\ fired = {}

At(t, pc) == th[t].pc = pc
Goto(t, pc) == th' = [th EXCEPT ![t].pc = pc]
Finish(t) == th' = [th EXCEPT ![t] = Idle]

-----------------------------------------------------------------------------
\* ProcessTimerEvent, first lock section: the earliest timer, or none.
GetFirstTimer(t) ==
    /\ At(t, "idle")
    /\ UNCHANGED fired
    /\ \E i \in FirstTimers :
          IF InUse(m_timerPool, i)
          THEN /\ th' = [th EXCEPT ![t].pc = "check", ![t].idx = i]
               /\ UNCHANGED timerVars
          ELSE /\ EraseDangling(i)
               /\ Goto(t, "work")

NoTimer(t) ==
    /\ At(t, "idle")
    /\ m_timerMap = {}
    /\ Goto(t, "work")
    /\ UNCHANGED <<timerVars, fired>>

\* (mutant) a timer is due one tick before its end time
CheckEndTime_TooEarly(t) ==
    /\ At(t, "check")
    /\ Goto(t, IF timer[th[t].idx].nEndTime > now + 1 THEN "work" ELSE "begin")
    /\ UNCHANGED <<timerVars, fired>>

\* Without the lock: is the end time past?  A released slot reads as zero.
CheckEndTime(t) ==
    /\ At(t, "check")
    /\ Goto(t, IF timer[th[t].idx].nEndTime > now THEN "work" ELSE "begin")
    /\ UNCHANGED <<timerVars, fired>>

\* Without the lock: keep the sequence number, call the handler if there is one.
BeginEvent(t) ==
    LET tm == timer[th[t].idx] IN
    /\ At(t, "begin")
    /\ th' = [th EXCEPT ![t].seq = tm.nTimerSeq,
                        ![t].inTimer = TRUE,
                        ![t].pc = IF tm.pEventHandle THEN "app" ELSE "fired"]
    /\ fired' = IF tm.pEventHandle /\ ~ tm.bLoop THEN fired \cup {tm.nTimerSeq} ELSE fired
    /\ UNCHANGED timerVars

\* Application code: CreateTimer, RemoveTimer, return.
AppCreateTimer(t) ==
    /\ At(t, "app")
    /\ m_nTimerSeq < MaxTimerSeq
    /\ \/ \E id \in TimerIDs, cycle \in CycleTimes, loop \in BOOLEAN :
             CreateTimer(id, cycle, loop)
       \/ CreateTimerFails
    /\ UNCHANGED <<th, fired>>

AppRemoveTimer(t) ==
    /\ At(t, "app")
    /\ \E i \in TimerSlots : RemoveTimer(i)
    /\ UNCHANGED <<th, fired>>

AppReturn(t) ==
    /\ At(t, "app")
    /\ IF th[t].inTimer THEN Goto(t, "fired") ELSE Finish(t)
    /\ UNCHANGED <<timerVars, fired>>

\* TimerFired(timerIndex, seq): look the timer up and compare the number ...
CheckSeq(t) ==
    /\ At(t, "fired")
    /\ IF IsTimer(th[t].idx, th[t].seq) THEN Goto(t, "retire") ELSE Finish(t)
    /\ UNCHANGED <<timerVars, fired>>

\* ... and, the lock having been released in between, TimerFired(timerIndex).
Retire(t) ==
    /\ At(t, "retire")
    /\ TimerFired(th[t].idx)
    /\ Finish(t)
    /\ UNCHANGED fired

\* No timer was due: the thread polls its message queues, and either runs
\* the handler of a message or finds them empty.
PollMessages(t) ==
    /\ At(t, "work")
    /\ Goto(t, "app") \/ Finish(t)
    /\ UNCHANGED <<timerVars, fired>>

TimerStep(t) == GetFirstTimer(t) \/ NoTimer(t) \/ CheckEndTime(t) \/ BeginEvent(t)
                    \/ CheckSeq(t) \/ Retire(t) \/ PollMessages(t)
AppStep(t) == AppCreateTimer(t) \/ AppRemoveTimer(t) \/ AppReturn(t)

TimePasses == Tick /\ UNCHANGED <<th, fired>>

Next == TimePasses \/ \E t \in Threads : TimerStep(t) \/ AppStep(t)

Spec == Init /\ [][Next]_vars

\* A thread is scheduled, handlers return however often they call the API,
\* and the clock advances.
Fairness ==
    /\ WF_vars(TimePasses)
    /\ \A t \in Threads : WF_vars(TimerStep(t)) /\ WF_vars(AppReturn(t))

FairSpec == Spec /\ Fairness
-----------------------------------------------------------------------------
TypeOK ==
    /\ TimerStoreTypeOK
    /\ th \in [Threads -> [pc : PCs, idx : TimerSlots, seq : Nat, inTimer : BOOLEAN]]
    /\ fired \subseteq Nat

Calls(t) == At(t, "begin") /\ th'[t].pc = "app"

\* A one-shot timer is called back at most once: its callback starts only if
\* no callback of the same timer has started before.  (ProcessTimerEvent calls
\* the handler while the timer is still in the tree and removes it afterwards.)
OneShotFiresOnce ==
    [][\A t \in Threads : Calls(t) =>
          LET tm == timer[th[t].idx] IN tm.bLoop \/ tm.nTimerSeq \notin fired]_vars

\* TimerFired ends the timer that was called back and no other: nTimerSeq is
\* kept across the callback to protect a timer that has reused the slot.
RetiresOwnTimer ==
    [][\A t \in Threads :
          At(t, "retire") /\ InUse(m_timerPool, th[t].idx) /\ th'[t].pc = "idle"
             => timer[th[t].idx].nTimerSeq = th[t].seq]_vars

\* No handler runs before its timer's end time.
NeverEarly ==
    [][\A t \in Threads : Calls(t) => timer[th[t].idx].nEndTime <= now]_vars

\* Timer q is to fire at time e.
Armed(q, e) == \E i \in m_timerPool.used : timer[i].nTimerSeq = q /\ timer[i].nEndTime = e

\* A timer armed for time e is called back, armed again or removed, once the
\* clock gets there.
EveryDeadlineIsServed ==
    \A q \in 0 .. MaxTimerSeq - 1, e \in 1 .. MaxTime : Armed(q, e) ~> ~ Armed(q, e)

\* The pool and the tree never disagree, whatever the threads interleave.
StoreConsistent == TimerStoreConsistent /\ TimerSeqNamesTimer
=============================================================================
