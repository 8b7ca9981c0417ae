SPECIFICATION Spec
CONSTANTS
    t1 = t1
    t2 = t2
    Threads = {t1, t2}
    MaxTimers = 2
    CycleTimes = {1}
    MaxTime = 1
    MaxSessions = 2
    MaxBindings = 2
    MsgIDs = {1}
    MaxSessionSeq = 2
PROPERTIES ReleasesOwnSession
