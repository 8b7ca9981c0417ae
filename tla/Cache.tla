------------------------------- MODULE Cache -------------------------------
(***************************************************************************)
(* CCache (src/common/common_cache.h) and its wrapper CWrapCache: objects  *)
(* are created active; when there are too many, the first active one turns *)
(* inactive, and the first inactive one is dropped for it.  Two tables of  *)
(* buckets, one for each state, find an object by its key.                 *)
(***************************************************************************)
EXTENDS IndexList

CONSTANTS CacheCapacity, CacheBuckets       \* CAPACITY, BUCKETSIZE

MaxObjectCount == CacheCapacity \div 2     \* enmMaxActiveObjectCount, enmMaxInactiveObjectCount
NoKey == -1

FreeNodes == BuildIndexList(CacheCapacity, {"free", "active", "inactive"})
Everywhere(x) == [i \in 0 .. CacheCapacity - 1 |-> x]

Initialize == [ix |-> FreeNodes, conflict |-> Everywhere(Nil), key |-> Everywhere(NoKey),
               bucket |-> [state \in {"active", "inactive"} |-> [b \in 0 .. CacheBuckets - 1 |-> Nil]]]
Uninitialize(c) == Initialize

CachePrev(c, i) == c.ix.prev[i]
CacheNext(c, i) == c.ix.next[i]
IsUsedIndex(c, i) == c.ix.flag[i] # "free"
CacheIndexOf(c, i) == IF IsUsedIndex(c, i) THEN i ELSE Nil
CheckPosition(c, i) == i \in 0 .. CacheCapacity
CacheGetIndex(c, i) ==
    IF ~CheckPosition(c, i) THEN {Nil} ELSE IF i = CacheCapacity THEN {Nil, i} ELSE {CacheIndexOf(c, i)}
ResetConflictData(c, i) == [c EXCEPT !.key[i] = NoKey, !.conflict[i] = Nil]

Bucket(key) == (((key % 2^16) + (key \div 2^16)) % 2^15) % CacheBuckets
Move(c, i, to) == [c EXCEPT !.ix = MoveIndex(@, i, c.ix.flag[i], to)]

RECURSIVE Conflicts(_, _)
Conflicts(c, i) == IF i = Nil THEN << >> ELSE <<i>> \o Conflicts(c, c.conflict[i])
Chain(c, state, key) == Conflicts(c, c.bucket[state][Bucket(key)])

FindInBucket(c, state, key) ==
    LET found == SelectSeq(Chain(c, state, key), LAMBDA i : c.key[i] = key)
    IN  IF found = << >> THEN Nil ELSE Head(found)
Find(c, key) ==
    LET i == FindInBucket(c, "active", key)
    IN  IF i = Nil THEN FindInBucket(c, "inactive", key) ELSE i

AddToBucket(c, i, state, key) ==
    LET chain == Chain(c, state, key)
        m == IF chain = << >> THEN [c EXCEPT !.bucket[state][Bucket(key)] = i]
             ELSE [c EXCEPT !.conflict[Last(chain)] = i]
    IN  [m EXCEPT !.key[i] = key, !.conflict[i] = Nil]

DeleteFromBucket(c, state, key) ==
    LET chain == Chain(c, state, key)
        i == FindInBucket(c, state, key)
        k == CHOOSE k \in DOMAIN chain : chain[k] = i
        m == IF k = 1 THEN [c EXCEPT !.bucket[state][Bucket(key)] = c.conflict[i]]
             ELSE [c EXCEPT !.conflict[chain[k - 1]] = c.conflict[i]]
    IN  IF i = Nil THEN c ELSE ResetConflictData(m, i)

FreeIndex(c, i) == DeleteFromBucket(Move(c, i, "free"), c.ix.flag[i], c.key[i])
DeleteFirstInactive(c) == IF c.ix.head["inactive"] = Nil THEN c ELSE FreeIndex(c, c.ix.head["inactive"])

MoveActiveToInactive(c, i) ==
    AddToBucket(DeleteFromBucket(Move(c, i, "inactive"), "active", c.key[i]), i, "inactive", c.key[i])
MoveFirstActiveToInactive(c) ==
    IF c.ix.head["active"] = Nil THEN c
    ELSE LET m == IF c.ix.count["inactive"] >= MaxObjectCount THEN DeleteFirstInactive(c) ELSE c
         IN  MoveActiveToInactive(m, c.ix.head["active"])

NewActiveIndex(c, key) ==
    LET i == Free(c.ix)
    IN  IF i = Nil \/ c.ix.count["active"] >= MaxObjectCount THEN c
        ELSE AddToBucket(Move(c, i, "active"), i, "active", key)
CreateObject(c, key) ==
    IF Find(c, key) # Nil THEN c
    ELSE NewActiveIndex(IF c.ix.count["active"] >= MaxObjectCount THEN MoveFirstActiveToInactive(c) ELSE c, key)

DeleteObject(c, key) ==
    LET i == Find(c, key)
    IN  IF i = Nil THEN c ELSE Move(DeleteFromBucket(c, c.ix.flag[i], key), i, "free")

\* An inactive object that is asked for becomes active: off its list and table, room
\* made for it, then onto the others.
ActivateObject(c, i) ==
    LET key == c.key[i]
        off == DeleteFromBucket(Move(c, i, "free"), "inactive", key)
        room == IF off.ix.count["active"] >= MaxObjectCount THEN MoveFirstActiveToInactive(off) ELSE off
    IN  IF c.ix.flag[i] # "inactive" THEN c
        ELSE AddToBucket(Move(room, i, "active"), i, "active", key)
FindObject(c, key) == LET i == Find(c, key) IN IF i = Nil THEN c ELSE ActivateObject(c, i)

\* CWrapCache: the same by number; asking for an object by its number does not activate it.
GetObjectByIndex(c, i) == CacheGetIndex(c, i)
DeleteObjectByIndex(c, i) == IF CacheGetIndex(c, i) = {Nil} THEN c ELSE DeleteObject(c, c.key[i])
-----------------------------------------------------------------------------
\* The keys of one state, the oldest first.
Contents(c, state) == LET s == Nodes(c.ix, state) IN [k \in DOMAIN s |-> c.key[s[k]]]
=============================================================================
