------------------------------ MODULE RankList ------------------------------
(***************************************************************************)
(* CRankList (src/common/common_ranklist.h): objects in the order of their *)
(* values, the greatest first, equal values sharing a rank.  The hash list *)
(* that finds an object by its target is the function "at" here (module    *)
(* HashList models it).  Positions count from 1, as the ranks do.          *)
(***************************************************************************)
EXTENDS Integers, Sequences, SequencesExt, Functions

CONSTANT RankCapacity       \* CAPACITY

Initialize == [list |-> << >>, at |-> << >>]

IsFull(r) == Len(r.list) = RankCapacity
Find(r, id) == IF id \in DOMAIN r.at /\ r.at[id] <= Len(r.list) THEN r.at[id] ELSE 0
Equal(r, p, q) == r.list[p].value = r.list[q].value

\* The objects in front of a position and behind it, the first and the last.
GetPrev(r, p) == IF p <= 1 THEN 0 ELSE p - 1
GetNext(r, p) == IF p >= Len(r.list) THEN 0 ELSE p + 1
GetFirstRank(r) == Head(r.list)
GetLastRank(r) == Last(r.list)

\* The rank of a position, from the one in front of it.
RankAt(r, p) == IF p > 1 /\ Equal(r, p - 1, p) THEN r.list[p - 1].rank ELSE p

\* Rerank: position p, then those behind it until one already has its own.
RECURSIVE Behind(_, _, _)
Behind(r, p, q) ==
    IF q > Len(r.list) \/ (~Equal(r, p, q) /\ r.list[q].rank = q) THEN r
    ELSE Behind([r EXCEPT !.list[q].rank = IF Equal(r, p, q) THEN r.list[p].rank ELSE RankAt(r, q)], p, q + 1)
Rerank(r, p) == Behind([r EXCEPT !.list[p].rank = RankAt(r, p)], p, p + 1)

Swap(r, p, q) == [list |-> [r.list EXCEPT ![p] = r.list[q], ![q] = r.list[p]],
                  at |-> [r.at EXCEPT ![r.list[p].id] = r.at[r.list[q].id], ![r.list[q].id] = r.at[r.list[p].id]]]

\* SwapUp and SwapDown: the moved object first.
SwapWith(r, p, q) == Rerank(Rerank(Swap(r, p, q), q), p)

\* Update: up while it is greater than the one in front, else down.
RECURSIVE Shift(_, _)
Shift(r, p) ==
    IF GetPrev(r, p) # 0 /\ r.list[p - 1].value < r.list[p].value THEN Shift(SwapWith(r, p, p - 1), p - 1)
    ELSE IF GetNext(r, p) # 0 /\ r.list[p].value < r.list[p + 1].value THEN Shift(SwapWith(r, p, p + 1), p + 1)
    ELSE [list |-> r, position |-> p]

Update(r, id) ==
    LET m == Shift(r, Find(r, id)) IN IF Find(r, id) = 0 THEN r ELSE Rerank(m.list, m.position)

InsertLast(r, id, value) ==
    LET n == Len(r.list) + 1
        m == [list |-> Append(r.list, [id |-> id, value |-> value, rank |-> n]),
              at |-> [i \in DOMAIN r.at \cup {id} |-> IF i \in DOMAIN r.at THEN r.at[i] ELSE n]]
    IN  [m EXCEPT !.list[n].rank = RankAt(m, n)]
EraseLast(r) == [list |-> Front(r.list), at |-> Restrict(r.at, DOMAIN r.at \ {Last(r.list).id})]

\* Append: a full list drops its last object for a greater one.
AppendObject(r, id, value) ==
    IF IsFull(r) /\ value <= Last(r.list).value THEN r
    ELSE LET m == IF IsFull(r) THEN EraseLast(r) ELSE r
         IN  Shift(InsertLast(m, id, value), Len(m.list) + 1).list

\* FindPrev: the nearest object in front with another rank.
FindPrev(r, id) ==
    LET p == Find(r, id)
        others == {q \in 1 .. p - 1 : r.list[q].rank # r.list[p].rank}
    IN  IF p = 0 \/ others = {} THEN 0 ELSE CHOOSE q \in others : \A o \in others : o <= q
\* GetRankList: the test of max comes after the first object was copied.
GetRankList(r, begin, max) ==
    LET end == begin + (IF max < 1 THEN 1 ELSE max)
    IN  IF begin < 0 THEN << >> ELSE SubSeq(r.list, begin + 1, IF end < Len(r.list) THEN end ELSE Len(r.list))
GetNormalRank(r, id) == Find(r, id) - 1
Clear(r) == Initialize
-----------------------------------------------------------------------------
\* In order, every object found where it is, and ranked one behind those greater.
Ranked(r) ==
    /\ \A p \in 2 .. Len(r.list) : r.list[p].value <= r.list[p - 1].value
    /\ \A p \in DOMAIN r.list : Find(r, r.list[p].id) = p
    /\ \A p \in DOMAIN r.list :
        r.list[p].rank = 1 + Len(SelectSeq(r.list, LAMBDA o : o.value > r.list[p].value))
=============================================================================
