------------------------------ MODULE HashList ------------------------------
(***************************************************************************)
(* CHashList (src/common/common_hashlist.h): keys in the nodes of an index *)
(* chain, found through buckets, each with a chain of the keys that share  *)
(* its hash code.                                                          *)
(***************************************************************************)
EXTENDS IndexList

CONSTANTS
    HashCapacity,   \* CAPACITY
    BucketSize,     \* BUCKETSIZE
    RecycleToTail   \* RECYCLETOTAIL

NoKey == -1         \* a key that was reset

\* The nodes, chained; and what Initialize of a node sets in each.
FreeNodes == BuildIndexList(HashCapacity, {"free", "used"})
Everywhere(x) == [i \in 0 .. HashCapacity - 1 |-> x]

Initialize == [ix |-> FreeNodes, bucket |-> [b \in 0 .. BucketSize - 1 |-> Nil],
               conflict |-> Everywhere(Nil), key |-> Everywhere(NoKey), object |-> Everywhere(0)]
\* Clear: the objects stay in the nodes.
Uninitialize(h) == [Initialize EXCEPT !.object = h.object]

HashPrev(h, i) == h.ix.prev[i]
HashNext(h, i) == h.ix.next[i]
IsUsedIndex(h, i) == h.ix.flag[i] = "used"
HashIndexOf(h, i) == IF IsUsedIndex(h, i) THEN i ELSE Nil
CheckPosition(h, i) == i \in 0 .. HashCapacity
HashGetIndex(h, i) ==
    IF ~CheckPosition(h, i) THEN {Nil} ELSE IF i = HashCapacity THEN {Nil, i} ELSE {HashIndexOf(h, i)}

ResetConflictData(h, i) == [h EXCEPT !.key[i] = NoKey, !.conflict[i] = Nil]

\* GetHashCode: the sum of the key's 16 bit words, 15 bits of it.
GetHashCode(key) == ((key % 2^16) + (key \div 2^16)) % 2^15
Bucket(key) == GetHashCode(key) % BucketSize

CreateIndex(h) == [h EXCEPT !.ix = MoveIndex(@, Free(@), "free", "used")]
DestroyIndex(h, i) ==
    LET gone == Unlink(h.ix, i, "used")
    IN  [h EXCEPT !.ix = IF RecycleToTail THEN Link(gone, i, "free") ELSE LinkFront(gone, i, "free")]

RECURSIVE Conflicts(_, _)
Conflicts(h, i) == IF i = Nil THEN << >> ELSE <<i>> \o Conflicts(h, h.conflict[i])
Chain(h, b) == Conflicts(h, h.bucket[b])

Find(h, key) ==
    LET found == SelectSeq(Chain(h, Bucket(key)), LAMBDA i : h.key[i] = key)
    IN  IF found = << >> THEN Nil ELSE Head(found)

\* A new node goes to the tail of the conflict chain.
Insert(h, key, object) ==
    IF Find(h, key) # Nil \/ Free(h.ix) = Nil THEN h
    ELSE LET i == Free(h.ix)
             b == Bucket(key)
             chain == Chain(h, b)
             m == [CreateIndex(h) EXCEPT !.key[i] = key, !.object[i] = object]
             n == IF chain = << >> THEN [m EXCEPT !.bucket[b] = i]
                  ELSE [m EXCEPT !.conflict[Last(chain)] = i]
         IN  [n EXCEPT !.conflict[i] = Nil]

\* (mutant) whoever follows in the chain goes too
Bypass_CutsChain(h, b, i) ==
    LET chain == Chain(h, b)
        k == CHOOSE k \in DOMAIN chain : chain[k] = i
    IN  IF k = 1 THEN [h EXCEPT !.bucket[b] = Nil] ELSE [h EXCEPT !.conflict[chain[k - 1]] = Nil]

\* Node i leaves the conflict chain of bucket b.
Bypass(h, b, i) ==
    LET chain == Chain(h, b)
        k == CHOOSE k \in DOMAIN chain : chain[k] = i
    IN  IF k = 1 THEN [h EXCEPT !.bucket[b] = h.conflict[i]]
        ELSE [h EXCEPT !.conflict[chain[k - 1]] = h.conflict[i]]

\* Erase of a key, and of a node: the second leaves its key and conflict link.
Erase(h, key) ==
    LET i == Find(h, key)
    IN  IF i = Nil THEN h
        ELSE ResetConflictData(DestroyIndex(Bypass(h, Bucket(key), i), i), i)
EraseIndex(h, i) == IF IsUsedIndex(h, i) THEN DestroyIndex(Bypass(h, Bucket(h.key[i]), i), i) ELSE h

ObjectCount(h) == h.ix.count["used"]

\* The keys and objects in the order of insertion.
Contents(h) == [k \in 1 .. Len(Nodes(h.ix, "used")) |->
                    LET i == Nodes(h.ix, "used")[k] IN <<h.key[i], h.object[i]>>]
=============================================================================
