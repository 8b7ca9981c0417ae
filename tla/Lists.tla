------------------------------- MODULE Lists -------------------------------
(***************************************************************************)
(* CList (src/common/common_list.h): doubly linked lists whose nodes come  *)
(* from one pool that the lists share.  The pool's own chain is the one of *)
(* module IndexList; the links of the lists are fields of the nodes.       *)
(***************************************************************************)
EXTENDS IndexList

CONSTANTS
    NodeCapacity,   \* CAPACITY of the CNodePool
    ListNames       \* the lists on it

Everywhere(x) == [i \in 0 .. NodeCapacity - 1 |-> x]

\* Before a list is given a pool it has none, and does nothing; it is given one once.
Constructed == [ix |-> BuildIndexList(NodeCapacity, {"free", "used"}),
                next |-> Everywhere(Nil), prev |-> Everywhere(Nil), data |-> Everywhere(0),
                pool |-> [l \in ListNames |-> FALSE], room |-> [l \in ListNames |-> 0],
                head |-> [l \in ListNames |-> Nil], tail |-> [l \in ListNames |-> Nil], size |-> [l \in ListNames |-> 0]]
Initialize(s, l, capacity) ==
    IF s.pool[l] THEN s
    ELSE [s EXCEPT !.pool[l] = TRUE, !.room[l] = capacity, !.head[l] = Nil, !.tail[l] = Nil, !.size[l] = 0]
SetCapacity(s, l, capacity) == [s EXCEPT !.room[l] = capacity]

\* The links of the nodes.
ListPrev(s, i) == s.prev[i]
ListNext(s, i) == s.next[i]

\* CNodePool: a node is handed out and taken back without links.
CreateNode(s) == LET i == Free(s.ix) IN [s EXCEPT !.ix = MoveIndex(@, i, "free", "used"), !.next[i] = Nil, !.prev[i] = Nil]
DestroyNode(s, i) == [s EXCEPT !.ix = MoveIndex(@, i, "used", "free"), !.next[i] = Nil, !.prev[i] = Nil]

IsFull(s, l) == ~s.pool[l] \/ s.size[l] >= s.room[l] \/ Free(s.ix) = Nil

PushBack(s, l, data) ==
    LET i == Free(s.ix)
        last == s.tail[l]
        m == [CreateNode(s) EXCEPT !.data[i] = data, !.prev[i] = last, !.tail[l] = i, !.size[l] = @ + 1,
                                   !.head[l] = IF @ = Nil THEN i ELSE @]
    IN  IF IsFull(s, l) THEN s ELSE SetNext(m, last, i)
\* CreateObject: the same, with what the node held.
CreateObject(s, l) == PushBack(s, l, s.data[Free(s.ix)])
PushFront(s, l, data) ==
    LET i == Free(s.ix)
        first == s.head[l]
        m == [CreateNode(s) EXCEPT !.data[i] = data, !.next[i] = first, !.head[l] = i, !.size[l] = @ + 1,
                                   !.tail[l] = IF @ = Nil THEN i ELSE @]
    IN  IF IsFull(s, l) THEN s ELSE SetPrev(m, first, i)

\* A node is given back; an empty list has neither head nor tail.
Drop(s, l, i) ==
    LET m == [DestroyNode(s, i) EXCEPT !.size[l] = @ - 1]
    IN  IF m.size[l] = 0 THEN [m EXCEPT !.head[l] = Nil, !.tail[l] = Nil] ELSE m

PopBack(s, l) ==
    LET p == s.prev[s.tail[l]]
    IN  IF s.size[l] = 0 THEN s
        ELSE Drop(IF p = Nil THEN s ELSE [s EXCEPT !.next[p] = Nil, !.tail[l] = p], l, s.tail[l])
PopFront(s, l) ==
    LET n == s.next[s.head[l]]
    IN  IF s.size[l] = 0 THEN s
        ELSE Drop(IF n = Nil THEN s ELSE [s EXCEPT !.prev[n] = Nil, !.head[l] = n], l, s.head[l])

RECURSIVE Walk(_, _, _)
Walk(s, i, n) == IF i = Nil \/ n = 0 THEN << >> ELSE <<i>> \o Walk(s, s.next[i], n - 1)
NodesOf(s, l) == Walk(s, s.head[l], NodeCapacity + 1)
Find(s, l, i) == \E k \in DOMAIN NodesOf(s, l) : NodesOf(s, l)[k] = i

\* DestroyObject: of a node that is on another list, nothing.
DestroyObject(s, l, i) ==
    LET p == s.prev[i]
        n == s.next[i]
        a == IF p = Nil THEN s ELSE IF n # Nil THEN [s EXCEPT !.next[p] = n] ELSE [s EXCEPT !.next[p] = Nil, !.tail[l] = p]
        b == IF n = Nil THEN a ELSE IF p # Nil THEN [a EXCEPT !.prev[n] = p] ELSE [a EXCEPT !.prev[n] = Nil, !.head[l] = n]
    IN  IF s.pool[l] /\ Find(s, l, i) THEN Drop(b, l, i) ELSE s

RECURSIVE Clear(_, _)
Clear(s, l) == IF s.size[l] = 0 THEN s ELSE Clear(PopFront(s, l), l)
Uninitialize(s, l) == [Clear(s, l) EXCEPT !.pool[l] = FALSE]
-----------------------------------------------------------------------------
Contents(s, l) == [k \in DOMAIN NodesOf(s, l) |-> s.data[NodesOf(s, l)[k]]]
Backwards(s, l) ==
    LET n == NodesOf(s, l)
    IN  /\ s.size[l] = Len(n) /\ s.tail[l] = (IF n = << >> THEN Nil ELSE Last(n))
        /\ \A k \in DOMAIN n : s.prev[n[k]] = IF k = 1 THEN Nil ELSE n[k - 1]
=============================================================================
