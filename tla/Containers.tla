----------------------------- MODULE Containers -----------------------------
(***************************************************************************)
(* The containers of src/common under any sequence of their operations.    *)
(* A behaviour is that of one container: "kind" says which, "c" is its     *)
(* state and "ref" what it should hold, kept by a definition a reader can  *)
(* see through: a sequence, a function or a bag.                           *)
(***************************************************************************)
EXTENDS Integers, Sequences, FiniteSets, SequencesExt, Functions, TLC

CONSTANTS
    HashCapacity, BucketSize, RecycleToTail, TreeCapacity, HeapCapacity, CacheCapacity, CacheBuckets,
    RankCapacity, NodeCapacity, ListNames, ListCapacity, SmallCapacity,
    Keys,           \* keys, values and target ids
    Kinds,          \* the containers tried
    MaxOps          \* bound: operations tried on each kind, Kinds -> Nat

Chain == INSTANCE IndexList
Hash == INSTANCE HashList
Tree == INSTANCE RBTree
Heap == INSTANCE MinHeap
Cache == INSTANCE Cache
Rank == INSTANCE RankList
Lists == INSTANCE Lists
Small == INSTANCE SmallContainers

VARIABLES kind, c, ref, ops
vars == <<kind, c, ref, ops>>

New(k) == CASE k = "pool" -> Chain!BuildIndexList(NodeCapacity, {"free", "used"})
            [] k = "hash" -> Hash!Initialize
            [] k = "tree" -> Tree!Initialize
            [] k = "heap" -> Heap!Initialize
            [] k = "cache" -> Cache!Initialize
            [] k = "rank" -> Rank!Initialize
            [] k = "list" -> FoldSet(LAMBDA l, s : Lists!Initialize(s, l, ListCapacity), Lists!Constructed, ListNames)
            [] k = "array" -> Small!NewArray
            [] k = "slist" -> Small!SListInitialize
            [] k = "string" -> Small!ZeroString
            [] OTHER -> << >>

Nothing(k) == CASE k = "cache" -> [active |-> << >>, inactive |-> << >>]
                [] k = "list" -> [l \in ListNames |-> << >>]
                [] k = "heap" -> [key |-> << >>, ordered |-> TRUE]
                [] k = "array" -> [i \in 0 .. SmallCapacity - 1 |-> 0]
                [] k = "slist" -> [list |-> << >>, sound |-> TRUE]
                [] k = "pool" -> [i \in 1 .. NodeCapacity |-> i - 1]
                [] OTHER -> << >>

Becomes(next, holds) == ops < MaxOps[kind] /\ ops' = ops + 1 /\ UNCHANGED kind /\ c' = next /\ ref' = holds
-----------------------------------------------------------------------------
Without(s, P(_)) == SelectSeq(s, LAMBDA e : ~P(e))
In(s, key) == key \in Range(s)
Has(s, key) == \E k \in DOMAIN s : s[k][1] = key

\* CPool: slots come from the head of the free list and go back to its tail.
PoolStep == kind = "pool" /\
    \/ ref # << >> /\ Becomes(Chain!MoveIndex(c, Chain!Free(c), "free", "used"), Tail(ref))
    \/ \E i \in DOMAIN c.flag : Becomes(Chain!PoolDestroyObject(c, i), IF In(ref, i) THEN ref ELSE Append(ref, i))
    \/ Becomes(Chain!PoolUninitialize(c), Nothing("pool"))

\* The reference is the sequence of <<key, object>> in the order of insertion.
HashStep == kind = "hash" /\ \E key \in Keys :
    \/ \E object \in {1, 2} : Becomes(Hash!Insert(c, key, object),
          IF Has(ref, key) \/ Len(ref) = HashCapacity THEN ref ELSE Append(ref, <<key, object>>))
    \/ Becomes(Hash!Erase(c, key), Without(ref, LAMBDA e : e[1] = key))
    \/ Hash!Find(c, key) # Chain!Nil
       /\ Becomes(Hash!EraseIndex(c, Hash!Find(c, key)), Without(ref, LAMBDA e : e[1] = key))
    \/ key = 1 /\ Becomes(Hash!Uninitialize(c), << >>)

\* In the order of keys, equal ones in that of insertion; the object is the node.
Sorted(s, e) == Without(s, LAMBDA o : o[1] > e[1]) \o <<e>> \o Without(s, LAMBDA o : o[1] <= e[1])
TreeStep == kind = "tree" /\
    \/ \E key \in Keys : LET i == Chain!Free(c.ix) IN
          Becomes(Tree!Insert(c, key, i), IF i = Chain!Nil THEN ref ELSE Sorted(ref, <<key, i>>))
    \/ \E i \in {n \in DOMAIN c.key : Chain!CheckIndex(c.ix, n)} :
          Becomes(Tree!EraseIndex(c, i), Without(ref, LAMBDA e : e[2] = i))
    \/ \E key \in Keys : Has(ref, key)
          /\ Becomes(Tree!Erase(c, key), Without(ref, LAMBDA e : e[1] = key))
    \/ ref # << >> /\ Becomes(Tree!Uninitialize(c), << >>)

\* The keys of the nodes in the heap.  An Erase that leaves a node above a smaller
\* one, or takes the wrong node for the last, ends the order for good.
HeapErase(i, next, ordered) ==
    Becomes(next, [key |-> Restrict(ref.key, DOMAIN ref.key \ {i}), ordered |-> ordered])
MovesUp(p) == LET last == Heap!Count(c) - 1
              IN  p > 0 /\ p < last /\ Heap!KeyAt(c, last) < Heap!KeyAt(c, (p - 1) \div 2)
HeapStep == kind = "heap" /\ ref.ordered /\
    \/ \E key \in Keys : LET i == Chain!Free(c.ix) IN Becomes(Heap!Insert(c, key),
          IF i = Chain!Nil THEN ref ELSE [ref EXCEPT !.key = (i :> key) @@ @])
    \/ Heap!First(c) # Chain!Nil /\ HeapErase(Heap!First(c), Heap!Pop(c), TRUE)
    \/ \E i \in DOMAIN ref.key : HeapErase(i, Heap!EraseIndex(c, i), ~MovesUp(c.position[i]))
    \/ Becomes(Heap!Uninitialize(c), Nothing("heap"))
    \/ \E key \in Range(ref.key) : LET p == Heap!FindNode(c, key) IN
          HeapErase(c.heap[p], Heap!Erase(c, key), p = Heap!Count(c) - 1)

\* Two queues of keys: the oldest active key turns inactive, the oldest inactive goes.
Half == CacheCapacity \div 2
ToInactive(r) ==
    IF Len(r.active) < Half THEN r
    ELSE [active |-> Tail(r.active),
          inactive |-> Append(IF Len(r.inactive) < Half THEN r.inactive ELSE Tail(r.inactive), Head(r.active))]
Activated(r, key) == LET m == ToInactive([r EXCEPT !.inactive = Without(@, LAMBDA k : k = key)])
                     IN  [m EXCEPT !.active = Append(@, key)]
CacheStep == kind = "cache" /\ \E key \in Keys :
    \/ Becomes(Cache!CreateObject(c, key),
               IF In(ref.active, key) \/ In(ref.inactive, key) THEN ref ELSE Activated(ref, key))
    \/ Becomes(Cache!FindObject(c, key), IF In(ref.inactive, key) THEN Activated(ref, key) ELSE ref)
    \/ Becomes(Cache!DeleteObject(c, key),
               [active |-> Without(ref.active, LAMBDA k : k = key), inactive |-> Without(ref.inactive, LAMBDA k : k = key)])
    \/ LET i == Cache!Find(c, key) IN i # Chain!Nil /\
          Becomes(Cache!DeleteObjectByIndex(c, i),
                  [active |-> Without(ref.active, LAMBDA k : k = key), inactive |-> Without(ref.inactive, LAMBDA k : k = key)])
    \/ key = 1 /\ Becomes(Cache!Uninitialize(c), Nothing("cache"))

\* <<id, value>> in the order of values; those that are equal, in any.  A target is
\* appended once.
Lesser(s) == CHOOSE e \in Range(s) : \A o \in Range(s) : e[2] <= o[2]
RankStep == kind = "rank" /\ \E id \in Keys, value \in 1 .. 3 :
    \/ ~Has(ref, id)
       /\ LET full == Len(ref) = RankCapacity
              last == c.list[Len(c.list)].id
          IN  Becomes(Rank!AppendObject(c, id, value),
                      IF ~full THEN Append(ref, <<id, value>>)
                      ELSE IF Lesser(ref)[2] >= value THEN ref
                      ELSE Append(Without(ref, LAMBDA e : e[1] = last), <<id, value>>))
    \/ Has(ref, id)
       /\ Becomes(Rank!Update([c EXCEPT !.list[Rank!Find(c, id)].value = value], id),
                  [k \in DOMAIN ref |-> IF ref[k][1] = id THEN <<id, value>> ELSE ref[k]])
    \/ ref # << >> /\ Becomes(Rank!Clear(c), << >>)

\* The lists share the nodes: <<data, node>> in the order of each.
Room(l) == c.pool[l] /\ Chain!Free(c.ix) # Chain!Nil /\ Len(ref[l]) < c.room[l]
ListStep == kind = "list" /\ \E l \in ListNames :
    \/ \E data \in {1, 2} : LET e == <<data, Chain!Free(c.ix)>> IN
          \/ Becomes(Lists!PushBack(c, l, data), IF Room(l) THEN [ref EXCEPT ![l] = Append(@, e)] ELSE ref)
          \/ Becomes(Lists!PushFront(c, l, data), IF Room(l) THEN [ref EXCEPT ![l] = <<e>> \o @] ELSE ref)
    \/ Becomes(Lists!PopBack(c, l), [ref EXCEPT ![l] = IF @ = << >> THEN @ ELSE Front(@)])
    \/ Becomes(Lists!PopFront(c, l), [ref EXCEPT ![l] = IF @ = << >> THEN @ ELSE Tail(@)])
    \/ Becomes(Lists!CreateObject(c, l), IF Room(l) THEN [ref EXCEPT ![l] = Append(@, <<c.data[Chain!Free(c.ix)], Chain!Free(c.ix)>>)] ELSE ref)
    \/ Becomes(Lists!Clear(c, l), [ref EXCEPT ![l] = << >>])
    \/ Becomes(Lists!Uninitialize(c, l), [ref EXCEPT ![l] = << >>])
    \/ ~c.pool[l] /\ Becomes(Lists!Initialize(c, l, ListCapacity), ref)
    \/ Becomes(Lists!SetCapacity(c, l, 1), ref)
    \/ \E i \in DOMAIN c.data : Chain!CheckIndex(c.ix, i)
          /\ Becomes(Lists!DestroyObject(c, l, i), [ref EXCEPT ![l] = Without(@, LAMBDA e : e[2] = i)])

\* An object is kept once, unless SetObjects put it there twice.
SetStep == kind = "set" /\ \E object \in Keys :
    \/ Becomes(Small!SetInsert(c, object), IF Len(ref) = SmallCapacity \/ In(ref, object) THEN ref ELSE Append(ref, object))
    \/ Becomes(Small!SetRemove(c, object), RemoveFirst(ref, object))
    \/ \E n \in {2, SmallCapacity + 1} : LET objects == [k \in 1 .. n |-> object] IN
          Becomes(Small!SetObjects(c, objects), IF n > SmallCapacity THEN ref ELSE objects)
    \/ Becomes(Small!SetClear(c), << >>)

ArrayStep == kind = "array" /\ \E i \in -1 .. SmallCapacity, x \in {1, 2} :
    \/ \E next \in {Small!ArraySet(c, i, x), Small!ArraySetP(c, i, x)} :
          Becomes(next, IF i \in DOMAIN ref THEN (i :> x) @@ ref ELSE ref)
    \/ i >= 0 /\ LET values == [k \in 1 .. i + 1 |-> x]
                 n == Small!Copied(values)
       IN  \E next \in {Small!ArrayCopy(c, values), Small!ArrayCopyP(c, values)} :
              Becomes(next, [k \in DOMAIN ref |-> IF k < n THEN x ELSE ref[k]])

\* The first object not greater is the one removed.  A Remove that takes the wrong node
\* for the last, or removes the only one, ends the list for good.
FirstUpTo(s, data) ==
    IF \A k \in DOMAIN s : s[k] > data THEN s
    ELSE RemoveAt(s, CHOOSE k \in DOMAIN s : s[k] <= data /\ \A j \in 1 .. k - 1 : s[j] > data)
SListStep == kind = "slist" /\ ref.sound /\ \E data \in 1 .. 3 :
    \/ Becomes(Small!SListPushBack(c, data), IF Len(ref.list) = SmallCapacity THEN ref ELSE [ref EXCEPT !.list = Append(@, data)])
    \/ Becomes(Small!SListRemove(c, data), [list |-> FirstUpTo(ref.list, data), sound |-> Small!RemovesRightly(c, data)])

\* A text of up to two more than fit, but in front of an object none that is too long.
StringStep == kind = "string" /\ \E n \in 0 .. SmallCapacity + 2 :
    LET text == [k \in 1 .. n |-> ops + 1]
        Cut(t) == SubSeq(t, 1, IF Len(t) < SmallCapacity THEN Len(t) ELSE SmallCapacity)
    IN  \/ \E next \in {Small!Construct(text), Small!SetString(text), Small!AssignString(c, Small!SetString(text))} : Becomes(next, Cut(text))
        \/ Becomes(Small!AddText(c, text), Cut(ref \o text))
        \/ Becomes(Small!AddString(c, Small!SetString(text)), Cut(ref \o text))
        \/ n <= SmallCapacity /\ Becomes(Small!TextAdd(text, c), Cut(text \o ref))
        \/ Becomes(Small!StringClear(c), << >>)

ContainersNext == \/ PoolStep \/ HashStep \/ TreeStep \/ HeapStep \/ CacheStep \/ RankStep \/ ListStep
                  \/ SetStep \/ ArrayStep \/ SListStep \/ StringStep
-----------------------------------------------------------------------------
Bag(s) == [e \in Range(s) |-> Cardinality({k \in DOMAIN s : s[k] = e})]

HoldsItsReference ==
    CASE kind = "pool" -> Chain!Nodes(c, "free") = ref
      [] kind = "hash" -> /\ Hash!Contents(c) = ref
                          /\ \A key \in Keys : (Hash!Find(c, key) # Chain!Nil) = Has(ref, key)
      [] kind = "tree" -> Tree!Contents(c) = ref /\ \A key \in Keys : (Tree!FindNode(c, key) # Chain!Nil) = Has(ref, key)
      [] kind = "heap" -> ref.ordered =>
                          /\ {n \in DOMAIN c.key : Chain!CheckIndex(c.ix, n)} = DOMAIN ref.key
                          /\ DOMAIN ref.key # {} => \A n \in DOMAIN ref.key : c.key[Heap!First(c)] <= ref.key[n]
      [] kind = "cache" -> /\ Cache!Contents(c, "active") = ref.active /\ Cache!Contents(c, "inactive") = ref.inactive
                           /\ \A key \in Keys : (Cache!Find(c, key) # Chain!Nil) = (In(ref.active, key) \/ In(ref.inactive, key))
      [] kind = "rank" -> /\ Bag([k \in DOMAIN c.list |-> <<c.list[k].id, c.list[k].value>>]) = Bag(ref)
                          /\ Rank!Ranked(c)
      [] kind = "list" -> \A l \in ListNames : Lists!Contents(c, l) = [k \in DOMAIN ref[l] |-> ref[l][k][1]]
      [] kind = "set" -> Bag(c) = Bag(ref) /\ \A n \in 0 .. SmallCapacity : Len(Small!GetObjects(c, n)) <= n
      [] kind = "array" -> c = ref
      [] kind = "string" -> Small!CText(c) = ref /\ c.len = Len(ref) /\ ~c.outside
      [] kind = "slist" -> ref.sound => Small!SListContents(c) = ref.list /\ c.used = Len(ref.list)
      [] OTHER -> TRUE

\* Nodes are neither lost nor on two lists, the tree keeps its balance and the heap the
\* positions.
LinksAreSound ==
    CASE kind = "rank" -> DOMAIN c.at = {c.list[k].id : k \in DOMAIN c.list}
      [] kind = "pool" -> Chain!Sound(c)
      [] kind = "tree" -> Chain!Sound(c.ix) /\ Tree!Balanced(c) /\ Tree!LeadsBack(c)
      [] kind = "heap" -> Chain!Sound(c.ix) /\ (ref.ordered => Heap!Consistent(c))
      [] kind = "list" -> Chain!Sound(c.ix) /\ \A l \in ListNames : Lists!Backwards(c, l)
      [] kind \in {"hash", "cache"} -> Chain!Sound(c.ix)
      [] OTHER -> TRUE

\* A number is turned into the node it is if the node is in use, else into nothing; of
\* CAPACITY, which CheckIndex lets through, nothing is known.
ByNumber(get(_), used, capacity) ==
    \A i \in -1 .. capacity + 1 : i # capacity => get(i) = IF i \in used THEN {i} ELSE {Chain!Nil}
UsedNodes(ix) == {i \in DOMAIN ix.flag : ix.flag[i] # "free"}
\* What was handed out last leads back, link by link, to what was handed out first.
TwoWay(used, next(_), prev(_)) ==
    \A i \in used : /\ next(i) # Chain!Nil => next(i) \in used /\ prev(next(i)) = i
                   /\ prev(i) # Chain!Nil => prev(i) \in used /\ next(prev(i)) = i
ReachedByNumber ==
    CASE kind = "pool" -> /\ ByNumber(LAMBDA i : Chain!PoolGetIndex(c, i), UsedNodes(c), NodeCapacity)
                          /\ TwoWay(UsedNodes(c), LAMBDA i : Chain!PoolNext(c, i), LAMBDA i : Chain!PoolPrev(c, i))
                          /\ {Chain!GetRandomIndex(c, n) : n \in 0 .. c.count["used"] - 1} = UsedNodes(c)
      [] kind = "hash" -> /\ ByNumber(LAMBDA i : Hash!HashGetIndex(c, i), UsedNodes(c.ix), HashCapacity)
                          /\ TwoWay(UsedNodes(c.ix), LAMBDA i : Hash!HashNext(c, i), LAMBDA i : Hash!HashPrev(c, i))
      [] kind = "tree" -> /\ ByNumber(LAMBDA i : Tree!TreeGetIndex(c, i), UsedNodes(c.ix), TreeCapacity)
                          /\ TwoWay(UsedNodes(c.ix), LAMBDA i : Tree!NextNode(c, i), LAMBDA i : Tree!PrevNode(c, i))
      [] kind = "heap" -> ref.ordered => ByNumber(LAMBDA i : Heap!HeapGetIndex(c, i), DOMAIN ref.key, HeapCapacity)
      [] kind = "cache" -> /\ ByNumber(LAMBDA i : Cache!GetObjectByIndex(c, i), UsedNodes(c.ix), CacheCapacity)
                           /\ TwoWay(UsedNodes(c.ix), LAMBDA i : Cache!CacheNext(c, i), LAMBDA i : Cache!CachePrev(c, i))
      [] kind = "rank" -> /\ \A id \in Keys : Rank!GetNormalRank(c, id) = (IF Has(ref, id) THEN Rank!Find(c, id) - 1 ELSE -1)
                          /\ ref # << >> => /\ \A e \in Range(ref) : Rank!GetFirstRank(c).value >= e[2]
                                           /\ Rank!GetLastRank(c).value = Lesser(ref)[2]
                          /\ \A id \in Keys : LET p == Rank!FindPrev(c, id) IN
                                p # 0 => c.list[p].value > c.list[Rank!Find(c, id)].value
                          /\ \A begin, max \in 0 .. RankCapacity : Len(Rank!GetRankList(c, begin, max)) <= (IF max = 0 THEN 1 ELSE max)
      [] kind = "list" -> TwoWay(UsedNodes(c.ix), LAMBDA i : Lists!ListNext(c, i), LAMBDA i : Lists!ListPrev(c, i))
      [] kind = "slist" -> ref.sound => \A k \in 2 .. Len(ref.list) :
                               LET order == Small!SListOrder(c) IN Small!GetPrexIndex(c, order[k]) \in DOMAIN c.data
      [] OTHER -> TRUE

\* Whatever was inserted, erased, moved and recycled before, a container holds what its
\* reference holds, in its order, every key finds its object, the links stay sound, and
\* numbers and links lead to the objects in use alone.
AgreesWithReference == HoldsItsReference /\ LinksAreSound /\ ReachedByNumber
=============================================================================
