SPECIFICATION Spec
CONSTANTS
    t1 = t1
    t2 = t2
    Threads = {t1, t2}
    TimerIDs = {0}
    MaxTimers = 2
    CycleTimes = {1}
    MaxTime = 2
    MaxTimerSeq = 3
PROPERTY RetiresOwnTimer
