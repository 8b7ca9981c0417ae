SPECIFICATION FairSpec
CONSTANTS
    t1 = t1
    t2 = t2
    Threads = {t1}
    TimerIDs = {0}
    MaxTimers = 2
    CycleTimes = {1, 2}
    MaxTime = 3
    MaxTimerSeq = 3
INVARIANTS TypeOK StoreConsistent
PROPERTIES OneShotFiresOnce RetiresOwnTimer NeverEarly EveryDeadlineIsServed
