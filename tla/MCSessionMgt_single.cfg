SPECIFICATION FairSpec
CONSTANTS
    t1 = t1
    t2 = t2
    Threads = {t1}
    MaxTimers = 2
    CycleTimes = {1}
    MaxTime = 1
    MaxSessions = 2
    MaxBindings = 1
    MsgIDs = {1, 2}
    MaxSessionSeq = 3
INVARIANTS TypeOK TablesConsistent TimersMatchSessions BindingsMatchSessions DecodesAsReceived
PROPERTIES EverySessionEnds
