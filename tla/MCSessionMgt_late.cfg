SPECIFICATION Spec
CONSTANTS
    t1 = t1
    t2 = t2
    Threads = {t1}
    MaxTimers = 2
    CycleTimes = {1}
    MaxTime = 3
    MaxSessions = 2
    MaxBindings = 2
    MsgIDs = {1, 2}
    MaxSessionSeq = 3
INVARIANTS AnswersItsRequest
