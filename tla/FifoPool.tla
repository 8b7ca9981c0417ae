------------------------------ MODULE FifoPool ------------------------------
(***************************************************************************)
(* What CPool (src/common/common_pool.h) promises its users: a fixed set   *)
(* of slots, of which the free ones are handed out in the order in which   *)
(* they were released (RECYCLETOTAIL = true).  A pool is a record: `free`  *)
(* is the chain from m_nFreeHead to m_nFreeTail, `used` the slots whose    *)
(* flag is enmIndexFlag_Used.                                              *)
(***************************************************************************)
EXTENDS Naturals, Sequences

\* The slots of a pool of capacity n, as array indices.
SlotsOf(n) == 0 .. n - 1

\* (mutant) slots counted from one
NewPool_FromOne(n) == [free |-> [i \in 1 .. n |-> i], used |-> {}]

\* Initialize / BuildIndexList: every slot free, in index order.
NewPool(n) == [free |-> [i \in 1 .. n |-> i - 1], used |-> {}]

\* IsFull / an empty free list: CreateIndex would return NULL.
IsFullPool(p) == p.free = << >>

\* The slot CreateIndex hands out, and the pool after it.
NextSlot(p) == Head(p.free)
TakeSlot(p) == [free |-> Tail(p.free), used |-> p.used \cup {Head(p.free)}]

\* CheckIndex / GetIndex: only a used slot has an object.
InUse(p, i) == i \in p.used

\* DestroyIndex: a slot that is not used is refused and nothing changes.
GiveSlot(p, i) ==
    IF i \in p.used
    THEN [free |-> Append(p.free, i), used |-> p.used \ {i}]
    ELSE p

\* A pool of capacity n loses no slot and hands none out twice.
WellFormedPool(p, n) ==
    /\ p.used \subseteq SlotsOf(n)
    /\ \A i \in 1 .. Len(p.free) : p.free[i] \in SlotsOf(n) \ p.used
    /\ \A i, j \in 1 .. Len(p.free) : p.free[i] = p.free[j] => i = j
    /\ \A s \in SlotsOf(n) \ p.used : \E i \in 1 .. Len(p.free) : p.free[i] = s
=============================================================================
