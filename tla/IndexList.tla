----------------------------- MODULE IndexList -----------------------------
(***************************************************************************)
(* The index chains of the containers in src/common: an array of nodes,    *)
(* each on one of a few doubly linked lists ("free", "used"; "active" and  *)
(* "inactive" in CCache), with a head, a tail and a count for each list.   *)
(* CHashList, CRBTree, CMinHeap and CCache each repeat this code; here it  *)
(* is one set of operators from a chain to the next.                       *)
(***************************************************************************)
EXTENDS Integers, Sequences, FiniteSets, SequencesExt

Nil == -1       \* enmInvalidObjectID, NULL

\* BuildIndexList and the fields Initialize sets: every node is free.
BuildIndexList(capacity, lists) ==
    [next |-> [i \in 0 .. capacity - 1 |-> IF i = capacity - 1 THEN Nil ELSE i + 1],
     prev |-> [i \in 0 .. capacity - 1 |-> i - 1],
     flag |-> [i \in 0 .. capacity - 1 |-> "free"],
     head |-> [l \in lists |-> IF l = "free" THEN 0 ELSE Nil],
     tail |-> [l \in lists |-> IF l = "free" THEN capacity - 1 ELSE Nil],
     count |-> [l \in lists |-> IF l = "free" THEN capacity ELSE 0]]

SetNext(c, i, j) == IF i = Nil THEN c ELSE [c EXCEPT !.next[i] = j]
SetPrev(c, i, j) == IF i = Nil THEN c ELSE [c EXCEPT !.prev[i] = j]

\* Node i leaves the list "from".
Unlink(c, i, from) ==
    LET m == [c EXCEPT !.head[from] = IF @ = i THEN c.next[i] ELSE @,
                       !.tail[from] = IF @ = i THEN c.prev[i] ELSE @,
                       !.count[from] = @ - 1]
    IN  SetPrev(SetNext(m, c.prev[i], c.next[i]), c.next[i], c.prev[i])

\* It joins the list "to" at its tail.
Link(c, i, to) ==
    LET m == [c EXCEPT !.prev[i] = c.tail[to], !.next[i] = Nil, !.flag[i] = to,
                       !.tail[to] = i, !.head[to] = IF @ = Nil THEN i ELSE @, !.count[to] = @ + 1]
    IN  SetNext(m, c.tail[to], i)

\* Or at its head: DestroyIndex when RECYCLETOTAIL is false.
LinkFront(c, i, to) ==
    LET m == [c EXCEPT !.next[i] = c.head[to], !.prev[i] = Nil, !.flag[i] = to,
                       !.head[to] = i, !.tail[to] = IF @ = Nil THEN i ELSE @, !.count[to] = @ + 1]
    IN  SetPrev(m, c.head[to], i)

MoveIndex(c, i, from, to) == Link(Unlink(c, i, from), i, to)

Free(c) == c.head["free"]
CheckIndex(c, i) == i \in DOMAIN c.flag /\ c.flag[i] # "free"

PoolPrev(c, i) == c.prev[i]
PoolNext(c, i) == c.next[i]

\* GetIndex of a node: its number, if it is used.  Of a number: the node, or NULL; but
\* CAPACITY itself is let through, and the flag behind the array decides.
PoolIndexOf(c, i) == IF CheckIndex(c, i) THEN i ELSE Nil
PoolGetIndex(c, i) == IF i = Cardinality(DOMAIN c.flag) THEN {Nil, i} ELSE {PoolIndexOf(c, i)}

\* What CPool does with one chain of free nodes and one of used ones: DestroyObject of a
\* number, Clear, and GetRandomIndex, the node n steps behind the first used one.
PoolDestroyObject(c, i) == IF CheckIndex(c, i) THEN MoveIndex(c, i, "used", "free") ELSE c
PoolUninitialize(c) == BuildIndexList(Cardinality(DOMAIN c.flag), DOMAIN c.head)
GetRandomIndex(c, n) ==
    LET at[k \in 0 .. n] == IF k = 0 THEN c.head["used"] ELSE PoolNext(c, at[k - 1])
    IN  IF c.count["used"] = 0 THEN Nil ELSE at[n]
-----------------------------------------------------------------------------
\* What a list holds, from its head on.
RECURSIVE Following(_, _, _)
Following(c, i, n) == IF i = Nil \/ n = 0 THEN << >> ELSE <<i>> \o Following(c, c.next[i], n - 1)
Nodes(c, list) == Following(c, c.head[list], Cardinality(DOMAIN c.flag) + 1)

\* Every node is on the list its flag names, once; heads, tails, counts and both
\* directions agree.
Sound(c) ==
    \A list \in DOMAIN c.head :
        LET s == Nodes(c, list)
        IN  /\ IsInjective(s) /\ {s[k] : k \in DOMAIN s} = {i \in DOMAIN c.flag : c.flag[i] = list}
            /\ c.count[list] = Len(s)
            /\ c.tail[list] = IF s = << >> THEN Nil ELSE s[Len(s)]
            /\ \A k \in DOMAIN s : c.prev[s[k]] = IF k = 1 THEN Nil ELSE s[k - 1]
=============================================================================
