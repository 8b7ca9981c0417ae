------------------------------ MODULE MinHeap ------------------------------
(***************************************************************************)
(* CMinHeap (src/common/common_heap.h): a binary heap of pointers to the   *)
(* nodes of an index chain; each node knows its position.                  *)
(***************************************************************************)
EXTENDS IndexList

CONSTANT HeapCapacity       \* CAPACITY

Everywhere(x) == [i \in 0 .. HeapCapacity - 1 |-> x]

\* heap is m_arrIndexPrt, position is m_iHeapIndex.
FreeNodes == BuildIndexList(HeapCapacity, {"free", "used"})
Initialize == [ix |-> FreeNodes, heap |-> Everywhere(Nil), position |-> Everywhere(Nil), key |-> Everywhere(0)]
\* Clear: the positions are left, in the nodes and in the array of pointers.
Uninitialize(h) == [Initialize EXCEPT !.heap = h.heap, !.position = h.position]

IsUsedIndex(h, i) == h.ix.flag[i] = "used"
HeapGetIndex(h, i) ==
    IF i \notin 0 .. HeapCapacity THEN {Nil}
    ELSE IF i = HeapCapacity THEN {Nil, i} ELSE IF IsUsedIndex(h, i) THEN {i} ELSE {Nil}

Count(h) == h.ix.count["used"]
CreateIndex(h) == [h EXCEPT !.ix = MoveIndex(@, Free(@), "free", "used")]
DestroyIndex(h, i) == IF IsUsedIndex(h, i) THEN [h EXCEPT !.ix = MoveIndex(@, i, "used", "free")] ELSE h
KeyAt(h, p) == h.key[h.heap[p]]

Swap(h, p, q) == [h EXCEPT !.heap[p] = h.heap[q], !.heap[q] = h.heap[p],
                           !.position[h.heap[p]] = h.position[h.heap[q]],
                           !.position[h.heap[q]] = h.position[h.heap[p]]]

RECURSIVE ShiftUp(_, _)
ShiftUp(h, p) ==
    LET up == (p - 1) \div 2
    IN  IF p = 0 \/ KeyAt(h, up) <= KeyAt(h, p) THEN h ELSE ShiftUp(Swap(h, up, p), up)

RECURSIVE ShiftDown(_, _)
ShiftDown(h, p) ==
    LET less(a, b) == IF a < Count(h) /\ KeyAt(h, a) < KeyAt(h, b) THEN a ELSE b
        smallest == less(2 * p + 2, less(2 * p + 1, p))
    IN  IF p >= Count(h) \/ smallest = p THEN h ELSE ShiftDown(Swap(h, p, smallest), smallest)

Insert(h, key) ==
    IF Free(h.ix) = Nil THEN h
    ELSE LET i == Free(h.ix)
             p == Count(h)
         IN  ShiftUp([CreateIndex(h) EXCEPT !.key[i] = key, !.heap[p] = i, !.position[i] = p], p)

First(h) == IF Count(h) = 0 THEN Nil ELSE h.heap[0]

\* The last node goes to position p.
MoveLast(h, p) == LET last == h.heap[Count(h) - 1] IN [h EXCEPT !.heap[p] = last, !.position[last] = p]

Pop(h) == IF Count(h) = 0 THEN h ELSE ShiftDown(DestroyIndex(MoveLast(h, 0), h.heap[0]), 0)

\* Erase of a node: the one moved to its place is only ever shifted down.
EraseIndex(h, i) ==
    LET p == h.position[i]
    IN  IF p < 0 \/ p >= Count(h) THEN h ELSE ShiftDown(DestroyIndex(MoveLast(h, p), i), p)

\* Erase of a key, in the first position that has it.  The count is one less when
\* it is used to find the last node, so the last but one is copied instead.
FindNode(h, key) ==
    LET at == {p \in 0 .. Count(h) - 1 : KeyAt(h, p) = key}
    IN  IF at = {} THEN Nil ELSE CHOOSE p \in at : \A q \in at : p <= q
Erase(h, key) ==
    LET p == FindNode(h, key)
        m == DestroyIndex(h, h.heap[p])
    IN  IF p = Nil THEN h
        ELSE IF Count(m) = 0 \/ p = Count(m) THEN m
        ELSE ShiftDown([m EXCEPT !.heap[p] = m.heap[Count(m) - 1]], p)
-----------------------------------------------------------------------------
\* The heap holds the nodes in use, each in the position it knows.
Consistent(h) ==
    /\ {h.heap[p] : p \in 0 .. Count(h) - 1} = {i \in DOMAIN h.key : CheckIndex(h.ix, i)}
    /\ \A p \in 0 .. Count(h) - 1 : h.position[h.heap[p]] = p
=============================================================================
