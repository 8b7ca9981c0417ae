---------------------------- MODULE ShareMemory -----------------------------
(***************************************************************************)
(* CShareMemory (src/common/common_memory.cpp): memory that outlives the   *)
(* process.  A segment of the system starts with the object, which checks  *)
(* when a process comes back whether what it left can be used again; the   *)
(* process then asks for its parts in the same order as before.            *)
(*                                                                         *)
(* s is the system with one process: for each key the segment or NoSegment,*)
(* the key the process is attached to (0 if it does not run), where the    *)
(* free part begins, the parts given out, and the clock.                   *)
(***************************************************************************)
EXTENDS Integers, Sequences, Bitwise

CONSTANTS
    ShareKeys,          \* numbers other than 0
    HeadSize,           \* sizeof(CShareMemory)
    YearTime, TwoHours  \* SECOND_PER_YEAR, 2 * SECOND_PER_HOUR

NoSegment == << >>
Off == 0
System(now) == [os |-> [k \in ShareKeys |-> NoSegment], key |-> Off, avail |-> 0, parts |-> << >>, now |-> now]

Crc(key, total, create, last) == ((key ^^ total) ^^ create) ^^ last

\* New memory is zero, the object in it too.
Zeroed(size) == [size |-> size, cell |-> [k \in 0 .. size - 1 |-> 0],
                 head |-> [key |-> 0, total |-> 0, create |-> 0, last |-> 0, crc |-> 0, mode |-> "init"]]

Initialize(key, total, now) ==
    [key |-> key, total |-> total, create |-> now, last |-> now, crc |-> Crc(key, total, now, now), mode |-> "init"]

\* The time first, then the sum over it.
SetTime(head, now) == [head EXCEPT !.last = now]
SetTimeStamp(head, now) == [SetTime(head, now) EXCEPT !.crc = Crc(head.key, head.total, head.create, now)]

\* What was left is used again if it is of this size, whole, and not too old.
Resume(head, key, total, now) ==
    IF \/ key # head.key \/ total # head.total
       \/ Crc(head.key, head.total, head.create, head.last) # head.crc
       \/ now < head.create \/ now - head.create > YearTime
       \/ now - head.last > TwoHours
    THEN Initialize(key, total, now)
    ELSE [SetTimeStamp(head, now) EXCEPT !.mode = "resume"]

\* The segment there is, or a new one if there is none or it is too small.
Attached(segment, size) ==
    IF segment = NoSegment THEN Zeroed(size) ELSE IF segment.size < size THEN Zeroed(size) ELSE segment

Ended(s) == [s EXCEPT !.key = Off, !.avail = 0, !.parts = << >>]

\* CreateShareMemory of a process that starts: shmget may fail, and so may shmat, whose
\* -1 is taken for an address: the process ends where it writes there.
CreateShareMemory(s, key, size, mode, env) ==
    LET total == size + HeadSize
        segment == Attached(s.os[key], total)
        head == IF mode = "resume" THEN Resume(segment.head, key, total, s.now) ELSE Initialize(key, total, s.now)
    IN  IF size <= 0 \/ ~env.creates THEN Ended(s)
        ELSE IF ~env.attaches THEN Ended([s EXCEPT !.os[key] = segment])
        ELSE [s EXCEPT !.os[key] = [segment EXCEPT !.head = head], !.key = key, !.avail = HeadSize, !.parts = << >>]

Object(s) == s.os[s.key].head
GetUsedSize(s) == s.avail
GetFreeSize(s) == Object(s).total - GetUsedSize(s)

\* A part of the memory: the next bytes, if so many are free.
CreateSegment(s, n) ==
    IF n <= 0 \/ n > GetFreeSize(s) THEN s
    ELSE [s EXCEPT !.avail = @ + n, !.parts = Append(@, [at |-> s.avail, size |-> n])]

\* The process writes a part, and stamps the object; it may end between the two stores.
Write(s, k, v) ==
    LET p == s.parts[k]
    IN  [s EXCEPT !.os[s.key].cell = [c \in DOMAIN @ |-> IF c \in p.at .. p.at + p.size - 1 THEN v ELSE @[c]]]
Stamp(s) == [s EXCEPT !.os[s.key].head = SetTimeStamp(@, s.now)]
StampTorn(s) == Ended([s EXCEPT !.os[s.key].head = SetTime(@, s.now)])

DestroyShareMemory(s, key) == [s EXCEPT !.os[key] = NoSegment]
=============================================================================
