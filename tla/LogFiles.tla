------------------------------ MODULE LogFiles ------------------------------
(***************************************************************************)
(* From a call that logs to the file (src/frame_logengine.cpp,             *)
(* frame_logqueue.cpp, frame_logthread.cpp, MoveLogFile of common_api.cpp):*)
(* the engine drops what is below the configured level and queues the rest,*)
(* with the day, on the queue of the thread or of the user log; the log    *)
(* thread takes one record of each queue in a pass and writes it to the    *)
(* file of that log and day, in a table of open files.  In a pass that     *)
(* found nothing it flushes, and moves files that have grown, and closes   *)
(* those not written to for a while.  The queues are rings of CodeQueue;   *)
(* here they have room.                                                    *)
(*                                                                         *)
(* s is the state; a file is the sequence of the records in it, named by   *)
(* log and day, and written at once: the buffers of the C library are left *)
(* out.  env says which calls of the system work: fopen, rename.           *)
(***************************************************************************)
EXTENDS Integers, Sequences, SequencesExt

CONSTANTS
    ThreadLogs,         \* the logs of the threads, in the order they are read
    UserLogs,           \* the names of user logs, in the order of the map
    MaxLogFiles,        \* enmMaxLogFileNameCount
    MaxMovedFiles,      \* enmMaxLogFileNumber - 1
    FlushPeriod, WritePeriod, \* enmFlushPeriod, enmWriteLogPeriod
    LogFileSize         \* GetLogFileSize, in records

LogNames == {ThreadLogs[k] : k \in DOMAIN ThreadLogs} \cup {UserLogs[k] : k \in DOMAIN UserLogs}
NoFile == <<"", 0>>
Closed == [open |-> FALSE, name |-> NoFile, active |-> 0, flushed |-> 0]

New(level) ==
    [level |-> level, day |-> 1, now |-> 0,
     regist |-> {},                                 \* m_stLogMap
     queue |-> [l \in LogNames |-> << >>],
     slot |-> [k \in 1 .. MaxLogFiles |-> Closed],  \* m_arrLogFileState
     disk |-> << >>, moved |-> << >>,                \* file -> records, file -> files moved away
     ok |-> TRUE]                                   \* FALSE: fclose was given NULL

RegistLog(s, name) == [s EXCEPT !.regist = @ \cup {name}]

\* CFrameLogQueue and CFrameLog: a queue for each thread and each user log.
Push(s, log, entry) == [s EXCEPT !.queue[log] = Append(@, entry)]
Pop(s, log) == [s EXCEPT !.queue[log] = Tail(@)]

\* The record is made with the day of the call.
Record(s, record) == [record |-> record, day |-> s.day]

\* WriteNetLog, WriteMainLog, WriteDBAccessLog.
WriteLog(s, log, level, record) == IF level >= s.level THEN Push(s, log, Record(s, record)) ELSE s

\* E_NULLPOINTER: the name was not registered.
WriteUserLog(s, log, level, record) ==
    IF level >= s.level /\ log \in s.regist THEN Push(s, log, Record(s, record)) ELSE s

FileOf(f, name) == IF name \in DOMAIN f THEN f[name] ELSE << >>
With(f, name, to) == [n \in DOMAIN f \cup {name} |-> IF n = name THEN to ELSE f[n]]
Gone(f, name) == [n \in DOMAIN f \ {name} |-> f[n]]

Put(s, name, record) == [s EXCEPT !.disk = With(@, name, Append(FileOf(@, name), record))]

\* WriteLog with a prefix: opened, written and closed by the caller, whatever the level.
WriteWithPrefix(s, prefix, record, env) == IF env.opens THEN Put(s, <<prefix, s.day>>, record) ELSE s
WriteBaseLog(s, record, env) == IF env.opens THEN Put(s, <<"baselog", s.day>>, record) ELSE s
-----------------------------------------------------------------------------
\* A file that has grown to the size gets the first number that is free, and is
\* opened anew if it was open.  If it cannot be renamed it stays, closed.
MoveLogFile(s, k, env) ==
    LET name == s.slot[k].name
        old == FileOf(s.moved, name)
        renamed == [s EXCEPT !.moved = With(@, name, Append(old, s.disk[name])), !.disk = Gone(@, name)]
    IN  IF Len(FileOf(s.disk, name)) < LogFileSize \/ Len(old) = MaxMovedFiles THEN s
        ELSE IF ~env.renames THEN [s EXCEPT !.slot[k].open = FALSE]
        ELSE IF ~s.slot[k].open THEN renamed
        ELSE IF env.opens THEN [renamed EXCEPT !.disk = With(@, name, << >>)]
        ELSE [renamed EXCEPT !.slot[k].open = FALSE]

\* fclose, MoveLogFile without the file, and the slot is cleared.
CloseFile(s, k, env) ==
    IF ~s.slot[k].open THEN [s EXCEPT !.ok = FALSE]
    ELSE [MoveLogFile([s EXCEPT !.slot[k].open = FALSE], k, env) EXCEPT !.slot[k] = Closed]

Idle(s, k) == s.now > s.slot[k].active + WritePeriod

\* The slot for a new file: free when the scan comes by, so not one the scan itself closes.
FreeSlot(s) == {k \in DOMAIN s.slot : ~s.slot[k].open /\ \A j \in 1 .. k - 1 : s.slot[j].open}

\* strncpy without the end of the string: of a longer name that a file left when it
\* could not be moved, the rest stays, and the slot has the name of no file.
Named(old, name) == IF Len(old[1]) > Len(name[1]) THEN <<old, name>> ELSE name

\* (mutant) a file that is opened again is truncated
OpenAndWrite_Truncates(s, free, name, record, env) ==
    IF free = {} \/ ~env.opens THEN s
    ELSE LET k == CHOOSE n \in free : TRUE
         IN  [s EXCEPT !.slot[k] = [open |-> TRUE, name |-> name, active |-> s.now, flushed |-> s.now],
                       !.disk = With(@, name, <<record>>)]

\* A new file in a free slot; without one, or if fopen fails, the record is lost.
OpenAndWrite(s, free, name, record, env) ==
    IF free = {} \/ ~env.opens THEN s
    ELSE LET k == CHOOSE n \in free : TRUE
         IN  Put([s EXCEPT !.slot[k] = [open |-> TRUE, name |-> Named(@.name, name), active |-> s.now, flushed |-> s.now]],
                 name, record)

\* WriteToLogFile: one scan writes to the open file and closes the others that are idle.
WriteToLogFile(s, name, record, env) ==
    LET Visit(t, k) ==
            IF ~t.slot[k].open THEN t
            ELSE IF t.slot[k].name = name THEN Put([t EXCEPT !.slot[k].active = t.now], name, record)
            ELSE IF Idle(t, k) THEN CloseFile(t, k, env) ELSE t
        scanned == FoldLeft(Visit, s, [k \in 1 .. MaxLogFiles |-> k])
        written == \E k \in DOMAIN s.slot : s.slot[k].open /\ s.slot[k].name = name
    IN  IF written THEN scanned ELSE OpenAndWrite(scanned, FreeSlot(s), name, record, env)

\* The same code again, for the name of a user log.
WriteToUserLogFile(s, name, record, env) == WriteToLogFile(s, name, record, env)

\* One record is taken, and written to the file of its log and day.
ReadLog(s, log, env) ==
    IF s.queue[log] = << >> THEN s
    ELSE LET r == Head(s.queue[log]) IN WriteToLogFile(Pop(s, log), <<log, r.day>>, r.record, env)
ReadUserLog(s, log, env) ==
    IF s.queue[log] = << >> THEN s
    ELSE LET r == Head(s.queue[log]) IN WriteToUserLogFile(Pop(s, log), <<log, r.day>>, r.record, env)

\* A pass with nothing to write: each open file is flushed, moved if it has grown, and
\* closed once it is idle.
FlushFiles(s, env) ==
    LET Visit(t, k) ==
            IF ~t.slot[k].open THEN t
            ELSE LET flushed == IF t.now > t.slot[k].flushed + FlushPeriod
                                THEN MoveLogFile([t EXCEPT !.slot[k].flushed = t.now], k, env) ELSE t
                 IN  IF Idle(t, k) THEN CloseFile(flushed, k, env) ELSE flushed
    IN  FoldLeft(Visit, s, [k \in 1 .. MaxLogFiles |-> k])

GetAllUserLogObj(s) == SelectSeq(UserLogs, LAMBDA l : l \in s.regist)
LogsRead(s) == ThreadLogs \o GetAllUserLogObj(s)

\* A pass of CFrameLogThread::Execute.
Execute(s, env) ==
    LET threads == FoldLeft(LAMBDA t, l : ReadLog(t, l, env), s, ThreadLogs)
    IN  IF \E l \in Range(LogsRead(s)) : s.queue[l] # << >>
        THEN FoldLeft(LAMBDA t, l : ReadUserLog(t, l, env), threads, GetAllUserLogObj(s))
        ELSE FlushFiles(s, env)
=============================================================================
