--------------------------- MODULE MemMgt_proofs ---------------------------
(***************************************************************************)
(* Proofs about the block memory: for every number of threads, every unit, *)
(* size of block and size of the steps in which blocks are malloced, no    *)
(* block is lost, handed out twice or too small.                           *)
(***************************************************************************)
EXTENDS MemMgt, FiniteSetTheorems, TLAPS

Named == Indexes \X Nat

MemTypeOK ==
    /\ blocks \in [Indexes -> [free : Seq(Named), count : Nat]]
    /\ \E known \in SUBSET Named : refer \in [known -> Nat]
    /\ doing \in [MemThreads -> {Idle} \cup [op : {"alloc"}, want : Wants]
                                \cup [op : {"recycle", "push"}, block : Named]]
    /\ held \in [MemThreads -> SUBSET [block : Named, want : Wants]]

\* The blocks there are, and the three places a block can be in.
Malloced(b) == b \in Named /\ b[2] \in 1 .. blocks[b[1]].count
Listed(b) == \E k \in 1 .. Len(blocks[b[1]].free) : blocks[b[1]].free[k] = b
HeldBy(t, b) == \E h \in held[t] : h.block = b
Returning(t, b) == doing[t].op \in {"recycle", "push"} /\ doing[t].block = b

\* The free lists hold blocks of their size, each once, without a reference.
ListsInv ==
    \A i \in Indexes :
        /\ \A k \in 1 .. Len(blocks[i].free) :
             LET b == blocks[i].free[k]
             IN  /\ b[1] = i /\ Malloced(b) /\ References(b) = 0
                 /\ \A t \in MemThreads : ~HeldBy(t, b) /\ ~Returning(t, b)
        /\ \A k, l \in 1 .. Len(blocks[i].free) : blocks[i].free[k] = blocks[i].free[l] => k = l

\* What a thread holds it holds alone, with the one reference.
HeldInv ==
    \A t \in MemThreads : \A h \in held[t] :
        /\ Malloced(h.block) /\ References(h.block) = 1 /\ h.block[1] * Unit >= h.want
        /\ \A u \in MemThreads : /\ ~Returning(u, h.block)
                                 /\ \A g \in held[u] : g.block = h.block => u = t /\ g = h

\* What a thread gives back it gives back alone.
ReturnInv ==
    \A t \in MemThreads : doing[t].op \in {"recycle", "push"} =>
        /\ Malloced(doing[t].block)
        /\ References(doing[t].block) = (IF doing[t].op = "recycle" THEN 1 ELSE 0)
        /\ \A u \in MemThreads : Returning(u, doing[t].block) => u = t

\* No block is nowhere.
PlaceInv ==
    \A b \in Named : Malloced(b) =>
        Listed(b) \/ \E t \in MemThreads : HeldBy(t, b) \/ Returning(t, b)

MemInv ==
    /\ MemTypeOK /\ leaks = 0
    /\ \A b \in DOMAIN refer : Malloced(b)
    /\ ListsInv /\ HeldInv /\ ReturnInv /\ PlaceInv

\* A block of the index for so many bytes has that many.
LEMMA EnoughUnits ==
    ASSUME NEW w \in Nat
    PROVE  GetTableIndexByBytes(w) \in Nat /\ GetTableIndexByBytes(w) * Unit >= w
<1>1. PICK u \in Nat \ {0} : u = Unit
    BY MemAssumption
<1>2. PICK d \in Nat, r \in Nat : d = w \div u /\ r = w % u
    BY <1>1
<1>3. w = u * d + r /\ r < u
    BY <1>1, <1>2
<1>4. CASE r > 0
    <2>1. GetTableIndexByBytes(w) = d + 1
        BY <1>1, <1>2, <1>4 DEF GetTableIndexByBytes
    <2>2. (d + 1) * u = u * d + u
        BY <1>1, <1>2
    <2>3. PICK m \in Nat : m = u * d
        BY <1>1, <1>2
    <2>4. (d + 1) * u >= w
        BY <1>1, <1>2, <1>3, <2>2, <2>3
    <2> QED
        BY <1>1, <1>2, <2>1, <2>4
<1>5. CASE r = 0
    <2>1. GetTableIndexByBytes(w) = d
        BY <1>1, <1>2, <1>5 DEF GetTableIndexByBytes
    <2>2. d * u = u * d
        BY <1>1, <1>2
    <2>3. PICK m \in Nat : m = u * d
        BY <1>1, <1>2
    <2> QED
        BY <1>1, <1>2, <1>3, <1>5, <2>1, <2>2, <2>3
<1> QED
    BY <1>2, <1>4, <1>5

\* The smallest of the positions of a list, when all of them are usable.
LEMMA MinOfAll ==
    ASSUME NEW n \in Nat \ {0}
    PROVE  Min(1 .. n) = 1
<1>1. \A x \in 1 .. n : (\A y \in 1 .. n : x =< y) <=> x = 1
    OBVIOUS
<1>2. 1 \in 1 .. n
    OBVIOUS
<1> QED
    BY <1>1, <1>2 DEF Min

LEMMA MemInitInv == MemInit => MemInv
<1> SUFFICES ASSUME MemInit PROVE MemInv
    OBVIOUS
<1>1. blocks = [i \in Indexes |-> [free |-> << >>, count |-> 0]]
    BY DEF MemInit, Initialize
<1>2. blocks \in [Indexes -> [free : Seq(Named), count : Nat]]
    BY <1>1
<1>3. refer \in [{} -> Nat] /\ DOMAIN refer = {}
    BY DEF MemInit
<1>4. \A t \in MemThreads : doing[t] = Idle /\ doing[t].op = "idle" /\ held[t] = {}
    BY DEF MemInit, Idle
<1>5. MemTypeOK
    <2>1. held \in [MemThreads -> SUBSET [block : Named, want : Wants]]
        BY DEF MemInit
    <2>2. doing \in [MemThreads -> {Idle}]
        BY DEF MemInit
    <2> QED
        BY <1>2, <1>3, <2>1, <2>2 DEF MemTypeOK
<1>6. \A i \in Indexes : blocks[i].free = << >> /\ blocks[i].count = 0
    BY <1>1
<1>7. ListsInv
    BY <1>6 DEF ListsInv
<1>8. \A b \in Named : ~Malloced(b)
    <2>1. \A b \in Named : b[1] \in Indexes
        BY DEF Named
    <2> QED
        BY <1>6, <2>1 DEF Malloced
<1>9. HeldInv /\ ReturnInv /\ PlaceInv
    BY <1>4, <1>8 DEF HeldInv, ReturnInv, PlaceInv
<1> QED
    BY <1>3, <1>5, <1>7, <1>9 DEF MemInv, MemInit

\* A step that moves no block.
LEMMA KeepsPlaces ==
    ASSUME MemInv, blocks' = blocks, refer' = refer, leaks' = leaks, held' = held,
           doing' \in [MemThreads -> {Idle} \cup [op : {"alloc"}, want : Wants]
                                     \cup [op : {"recycle", "push"}, block : Named]],
           \A u \in MemThreads : \/ doing'[u] = doing[u]
                                 \/ /\ doing[u].op \notin {"recycle", "push"}
                                    /\ doing'[u].op \notin {"recycle", "push"}
    PROVE  MemInv'
<1>1. MemTypeOK' /\ leaks' = 0 /\ \A b \in DOMAIN refer' : Malloced(b)'
    BY DEF MemInv, MemTypeOK, Malloced
<1>2. \A u \in MemThreads : \A b : Returning(u, b)' <=> Returning(u, b)
    BY DEF Returning
<1>3. \A b : /\ Malloced(b)' <=> Malloced(b)
             /\ Listed(b)' <=> Listed(b)
             /\ References(b)' = References(b)
             /\ \A u : HeldBy(u, b)' <=> HeldBy(u, b)
    BY DEF Malloced, Listed, References, HeldBy
<1>4. ListsInv'
    BY <1>2, <1>3 DEF MemInv, ListsInv
<1>5. HeldInv'
    BY <1>2, <1>3 DEF MemInv, HeldInv
<1>6. ReturnInv'
    BY <1>2, <1>3 DEF MemInv, ReturnInv
<1>7. PlaceInv'
    BY <1>2, <1>3 DEF MemInv, PlaceInv
<1> QED
    BY <1>1, <1>4, <1>5, <1>6, <1>7 DEF MemInv

\* The list an allocation finds has a block, each of its blocks is new or was there,
\* and no other is missing.
LEMMA FoundIs ==
    ASSUME MemInv, NEW i \in Indexes
    PROVE  /\ Found(i) \in [free : Seq(Named), count : Nat]
           /\ Found(i).free # << >> /\ Found(i).count >= blocks[i].count
           /\ \A k \in 1 .. Len(Found(i).free) :
                /\ Found(i).free[k][1] = i /\ Found(i).free[k][2] \in 1 .. Found(i).count
                /\ References(Found(i).free[k]) = 0
                /\ \A t \in MemThreads : ~HeldBy(t, Found(i).free[k]) /\ ~Returning(t, Found(i).free[k])
           /\ \A k, l \in 1 .. Len(Found(i).free) : Found(i).free[k] = Found(i).free[l] => k = l
           /\ \A b \in Named : b[1] = i /\ b[2] \in 1 .. Found(i).count =>
                \/ \E k \in 1 .. Len(Found(i).free) : Found(i).free[k] = b
                \/ \E t \in MemThreads : HeldBy(t, b) \/ Returning(t, b)
<1>0. blocks[i] \in [free : Seq(Named), count : Nat]
    BY DEF MemInv, MemTypeOK
<1>1. CASE blocks[i].free # << >>
    <2>1. Found(i) = blocks[i]
        BY <1>1 DEF Found
    <2>2. ASSUME NEW k \in 1 .. Len(blocks[i].free)
          PROVE  /\ blocks[i].free[k][1] = i /\ blocks[i].free[k][2] \in 1 .. blocks[i].count
                 /\ References(blocks[i].free[k]) = 0
                 /\ \A t \in MemThreads : ~HeldBy(t, blocks[i].free[k]) /\ ~Returning(t, blocks[i].free[k])
        BY <2>2 DEF MemInv, ListsInv, Malloced
    <2>3. \A k, l \in 1 .. Len(blocks[i].free) : blocks[i].free[k] = blocks[i].free[l] => k = l
        BY DEF MemInv, ListsInv
    <2>4. ASSUME NEW b \in Named, b[1] = i, b[2] \in 1 .. blocks[i].count
          PROVE  \/ \E k \in 1 .. Len(blocks[i].free) : blocks[i].free[k] = b
                 \/ \E t \in MemThreads : HeldBy(t, b) \/ Returning(t, b)
        BY <2>4 DEF MemInv, PlaceInv, Malloced, Listed
    <2> QED
        BY <1>0, <1>1, <2>1, <2>2, <2>3, <2>4
<1>2. CASE blocks[i].free = << >>
    <2>1. PICK n \in Nat, step \in Nat \ {0} : n = blocks[i].count /\ step = AllocStep
        BY <1>0, MemAssumption
    <2>2. PICK fresh : fresh = [k \in 1 .. step |-> <<i, n + k>>]
        OBVIOUS
    <2>3. \A k \in 1 .. step : <<i, n + k>> \in Named
        BY <2>1 DEF Named
    <2>4. fresh \in Seq(Named) /\ Len(fresh) = step /\ \A k \in 1 .. step : fresh[k] = <<i, n + k>>
        BY <2>1, <2>2, <2>3
    <2>5. PICK list : list = Found(i)
        OBVIOUS
    <2>6. list = [free |-> blocks[i].free \o fresh, count |-> n + step]
        BY <1>2, <2>1, <2>2, <2>5 DEF Found, MallocMemBlock
    <2>7. blocks[i].free \o fresh = fresh
        BY <1>2, <2>4
    <2>8. list.free = fresh /\ list.count = n + step /\ list \in [free : Seq(Named), count : Nat]
        BY <2>1, <2>4, <2>6, <2>7
    <2>9. fresh # << >>
        BY <2>1, <2>4
    <2>10. ASSUME NEW k \in 1 .. step
           PROVE  /\ fresh[k][1] = i /\ fresh[k][2] \in 1 .. n + step
                  /\ References(fresh[k]) = 0
                  /\ \A t \in MemThreads : ~HeldBy(t, fresh[k]) /\ ~Returning(t, fresh[k])
        <3>1. fresh[k] = <<i, n + k>> /\ fresh[k][1] = i /\ fresh[k][2] = n + k
            BY <2>4, <2>10
        <3>2. ~Malloced(fresh[k])
            BY <2>1, <3>1 DEF Malloced
        <3>3. References(fresh[k]) = 0
            BY <3>2 DEF References, MemInv
        <3>4. ASSUME NEW t \in MemThreads PROVE ~HeldBy(t, fresh[k]) /\ ~Returning(t, fresh[k])
            BY <3>2 DEF HeldBy, Returning, MemInv, HeldInv, ReturnInv
        <3> QED
            BY <2>1, <3>1, <3>3, <3>4
    <2>11. \A k, l \in 1 .. step : fresh[k] = fresh[l] => k = l
        <3>1. ASSUME NEW k \in 1 .. step, NEW l \in 1 .. step, fresh[k] = fresh[l] PROVE k = l
            <4>1. fresh[k][2] = n + k /\ fresh[l][2] = n + l
                BY <2>4, <3>1
            <4> QED
                BY <2>1, <3>1, <4>1
        <3> QED
            BY <3>1
    <2>12. ASSUME NEW b \in Named, b[1] = i, b[2] \in 1 .. n + step
           PROVE  \/ \E k \in 1 .. step : fresh[k] = b
                  \/ \E t \in MemThreads : HeldBy(t, b) \/ Returning(t, b)
        <3>1. CASE b[2] \in 1 .. n
            <4>1. Malloced(b)
                BY <2>1, <2>12, <3>1 DEF Malloced
            <4>2. ~Listed(b)
                BY <1>2, <2>12 DEF Listed
            <4> QED
                BY <4>1, <4>2 DEF MemInv, PlaceInv
        <3>2. CASE b[2] \notin 1 .. n
            <4>1. PICK k \in 1 .. step : b[2] = n + k
                <5>1. b[2] - n \in 1 .. step /\ b[2] = n + (b[2] - n)
                    BY <2>1, <2>12, <3>2
                <5> QED
                    BY <5>1
            <4>2. b = <<i, n + k>>
                BY <2>12, <4>1 DEF Named
            <4> QED
                BY <2>4, <4>1, <4>2
        <3> QED
            BY <3>1, <3>2
    <2>13. n + step >= blocks[i].count
        BY <2>1
    <2> QED
        BY <2>4, <2>5, <2>8, <2>9, <2>10, <2>11, <2>12, <2>13
<1> QED
    BY <1>1, <1>2

\* What AllocBlock does when no free block has a reference: it hands out the first.
LEMMA AllocTakesFirst ==
    ASSUME MemInv, NEW t \in MemThreads, AllocBlock(t)
    PROVE  \E w \in Wants, i \in Indexes, list \in Seq(Named), c \in Nat :
             /\ i = GetTableIndexByBytes(w) /\ list = Found(i).free /\ c = Found(i).count
             /\ list # << >>
             /\ blocks' = [blocks EXCEPT ![i].free = SubSeq(list, 2, Len(list)), ![i].count = c]
             /\ leaks' = 0
             /\ refer' = [x \in DOMAIN refer \cup Range(list) |-> IF x = list[1] THEN 1 ELSE References(x)]
             /\ held' = [held EXCEPT ![t] = @ \cup {[block |-> list[1], want |-> w]}]
             /\ doing' = [doing EXCEPT ![t] = Idle]
<1>0. doing[t].op = "alloc"
    BY DEF AllocBlock
<1>1. PICK w \in Wants : w = doing[t].want
    <2>1. doing[t] \in {Idle} \cup [op : {"alloc"}, want : Wants] \cup [op : {"recycle", "push"}, block : Named]
        BY DEF MemInv, MemTypeOK
    <2> QED
        BY <1>0, <2>1 DEF Idle
<1>2. PICK i \in Indexes : i = GetTableIndexByBytes(w)
    BY <1>1 DEF AllocBlock
<1>3. PICK list \in Seq(Named), c \in Nat : list = Found(i).free /\ c = Found(i).count
    BY FoundIs
<1>4. list # << >> /\ \A k \in 1 .. Len(list) : References(list[k]) = 0
    BY <1>3, FoundIs
<1>5. PICK n \in Nat \ {0} : n = Len(list)
    BY <1>3, <1>4
<1>6. DOMAIN list = 1 .. n
    BY <1>3, <1>5
<1>7. FirstUsable(list) = 1
    <2>1. PICK usable : usable = {k \in DOMAIN list : References(list[k]) = 0}
        OBVIOUS
    <2>2. usable = 1 .. n
        BY <1>4, <1>5, <1>6, <2>1
    <2>3. 1 \in 1 .. n
        BY <1>5
    <2>4. FirstUsable(list) = IF usable = {} THEN Len(list) + 1 ELSE Min(usable)
        BY <2>1 DEF FirstUsable
    <2> QED
        BY <2>2, <2>3, <2>4, MinOfAll
<1>8. TakeFirst(t, i, list, 1)
    BY <1>1, <1>2, <1>3, <1>7 DEF AllocBlock
<1>9. ~(1 > Len(list)) /\ 1 + 1 = 2 /\ leaks + 1 - 1 = 0
    BY <1>5 DEF MemInv
<1>10. /\ blocks' = [blocks EXCEPT ![i].free = SubSeq(list, 2, Len(list)), ![i].count = c]
       /\ leaks' = 0
       /\ refer' = [x \in DOMAIN refer \cup Range(list) |-> IF x = list[1] THEN 1 ELSE References(x)]
       /\ held' = [held EXCEPT ![t] = @ \cup {[block |-> list[1], want |-> w]}]
    BY <1>1, <1>3, <1>8, <1>9 DEF TakeFirst
<1>11. doing' = [doing EXCEPT ![t] = Idle]
    BY DEF AllocBlock
<1> QED
    BY <1>1, <1>2, <1>3, <1>4, <1>10, <1>11

LEMMA RestOf ==
    ASSUME NEW s \in Seq(Named), NEW n \in Nat \ {0}, n = Len(s)
    PROVE  /\ SubSeq(s, 2, n) \in Seq(Named) /\ Len(SubSeq(s, 2, n)) = n - 1
           /\ \A k \in 1 .. n - 1 : SubSeq(s, 2, n)[k] = s[k + 1]
<1>1. \A k \in 2 .. n : s[k] \in Named
    OBVIOUS
<1> QED
    BY <1>1

\* A block handed out leaves its list and gets its reference.
LEMMA AllocKeepsInv ==
    ASSUME MemInv, NEW t \in MemThreads, AllocBlock(t)
    PROVE  MemInv'
<1>1. PICK w \in Wants, i \in Indexes, list \in Seq(Named), c \in Nat :
             /\ i = GetTableIndexByBytes(w) /\ list = Found(i).free /\ c = Found(i).count
             /\ list # << >>
             /\ blocks' = [blocks EXCEPT ![i].free = SubSeq(list, 2, Len(list)), ![i].count = c]
             /\ leaks' = 0
             /\ refer' = [x \in DOMAIN refer \cup Range(list) |-> IF x = list[1] THEN 1 ELSE References(x)]
             /\ held' = [held EXCEPT ![t] = @ \cup {[block |-> list[1], want |-> w]}]
             /\ doing' = [doing EXCEPT ![t] = Idle]
    BY AllocTakesFirst
<1>2. /\ c >= blocks[i].count
      /\ \A k \in 1 .. Len(list) :
           /\ list[k][1] = i /\ list[k][2] \in 1 .. c /\ References(list[k]) = 0
           /\ \A u \in MemThreads : ~HeldBy(u, list[k]) /\ ~Returning(u, list[k])
      /\ \A k, l \in 1 .. Len(list) : list[k] = list[l] => k = l
      /\ \A b \in Named : b[1] = i /\ b[2] \in 1 .. c =>
           \/ \E k \in 1 .. Len(list) : list[k] = b
           \/ \E u \in MemThreads : HeldBy(u, b) \/ Returning(u, b)
    <2>1. c >= blocks[i].count
        BY <1>1, FoundIs
    <2>2. \A k \in 1 .. Len(list) :
            /\ list[k][1] = i /\ list[k][2] \in 1 .. c /\ References(list[k]) = 0
            /\ \A u \in MemThreads : ~HeldBy(u, list[k]) /\ ~Returning(u, list[k])
        BY <1>1, FoundIs
    <2>3. \A k, l \in 1 .. Len(list) : list[k] = list[l] => k = l
        BY <1>1, FoundIs
    <2>4. \A b \in Named : b[1] = i /\ b[2] \in 1 .. c =>
            \/ \E k \in 1 .. Len(list) : list[k] = b
            \/ \E u \in MemThreads : HeldBy(u, b) \/ Returning(u, b)
        BY <1>1, FoundIs
    <2> QED
        BY <2>1, <2>2, <2>3, <2>4
<1>3. PICK n \in Nat \ {0} : n = Len(list)
    BY <1>1
<1>4. PICK b \in Named : b = list[1] /\ b[1] = i /\ b[2] \in 1 .. c
    <2>1. 1 \in 1 .. n /\ list[1] \in Named
        BY <1>3
    <2> QED
        BY <2>1, <1>2, <1>3
<1>5. PICK rest \in Seq(Named) : rest = SubSeq(list, 2, n)
    BY <1>3, RestOf
<1>6. Len(rest) = n - 1 /\ \A k \in 1 .. n - 1 : rest[k] = list[k + 1]
    BY <1>3, <1>5, RestOf
<1>7. /\ blocks \in [Indexes -> [free : Seq(Named), count : Nat]]
      /\ held \in [MemThreads -> SUBSET [block : Named, want : Wants]]
      /\ doing \in [MemThreads -> {Idle} \cup [op : {"alloc"}, want : Wants]
                                  \cup [op : {"recycle", "push"}, block : Named]]
    BY DEF MemInv, MemTypeOK
<1>8. /\ blocks' \in [Indexes -> [free : Seq(Named), count : Nat]]
      /\ blocks'[i].free = rest /\ blocks'[i].count = c
      /\ \A j \in Indexes : j # i => blocks'[j] = blocks[j]
    BY <1>1, <1>3, <1>5, <1>7
<1>9. \A x \in Named : Malloced(x) => Malloced(x)'
    <2>1. \A x \in Named : x[1] \in Indexes /\ x[2] \in Nat
        BY DEF Named
    <2>2. blocks[i].count \in Nat
        BY <1>7
    <2> QED
        BY <1>2, <1>8, <2>1, <2>2 DEF Malloced
<1>10. \A k \in 1 .. n : Malloced(list[k])'
    BY <1>2, <1>3, <1>8 DEF Malloced
<1>11. \A x : References(x)' = IF x = b THEN 1 ELSE References(x)
    <2>1. \A x : x \in Range(list) <=> \E k \in 1 .. n : list[k] = x
        BY <1>3 DEF Range
    <2>2. b \in Range(list)
        BY <2>1, <1>3, <1>4
    <2>3. DOMAIN refer' = DOMAIN refer \cup Range(list)
        BY <1>1
    <2>4. \A x \in DOMAIN refer' : refer'[x] = IF x = b THEN 1 ELSE References(x)
        BY <1>1, <1>4
    <2> QED
        BY <2>2, <2>3, <2>4 DEF References
<1>12. PICK fresh : fresh = [block |-> b, want |-> w]
    OBVIOUS
<1>13. /\ fresh \in [block : Named, want : Wants] /\ fresh.block = b /\ fresh.want = w
       /\ held'[t] = held[t] \cup {fresh}
       /\ \A u \in MemThreads : u # t => held'[u] = held[u]
       /\ held' \in [MemThreads -> SUBSET [block : Named, want : Wants]]
    BY <1>1, <1>4, <1>7, <1>12
<1>14. /\ doing' \in [MemThreads -> {Idle} \cup [op : {"alloc"}, want : Wants]
                                    \cup [op : {"recycle", "push"}, block : Named]]
       /\ \A u \in MemThreads : doing'[u].op \in {"recycle", "push"} =>
            u # t /\ doing'[u] = doing[u]
       /\ \A u \in MemThreads : doing[u].op \in {"recycle", "push"} => u # t
    <2>1. doing[t].op = "alloc"
        BY DEF AllocBlock
    <2> QED
        BY <1>1, <1>7, <2>1 DEF Idle
<1>15. \A u \in MemThreads : \A x : Returning(u, x)' <=> Returning(u, x)
    BY <1>1, <1>7, <1>14 DEF Returning
<1>16. \A u \in MemThreads : \A x : HeldBy(u, x)' <=> HeldBy(u, x) \/ (u = t /\ x = b)
    BY <1>13 DEF HeldBy
<1>17. \A u \in MemThreads : ~HeldBy(u, b) /\ ~Returning(u, b)
    BY <1>2, <1>3, <1>4
<1>18. MemTypeOK' /\ \A x \in DOMAIN refer' : Malloced(x)'
    <2>1. Range(list) \subseteq Named
        BY DEF Range
    <2>2. DOMAIN refer \subseteq Named /\ \A x \in DOMAIN refer : refer[x] \in Nat /\ Malloced(x)
        BY DEF MemInv, MemTypeOK
    <2>3. refer' \in [DOMAIN refer \cup Range(list) -> Nat]
        BY <1>1, <2>2 DEF References
    <2>4. \A x \in Range(list) : Malloced(x)'
        BY <1>3, <1>10 DEF Range
    <2>5. DOMAIN refer' = DOMAIN refer \cup Range(list)
        BY <2>3
    <2>6. \E known \in SUBSET Named : refer' \in [known -> Nat]
        BY <2>1, <2>2, <2>3
    <2>7. \A x \in DOMAIN refer' : Malloced(x)'
        BY <1>9, <2>2, <2>4, <2>5
    <2>8. MemTypeOK'
        BY <1>8, <1>13, <1>14, <2>6 DEF MemTypeOK
    <2> QED
        BY <2>7, <2>8
<1>19. ListsInv'
    <2>1. ASSUME NEW j \in Indexes, NEW k \in 1 .. Len(blocks'[j].free), NEW x, x = blocks'[j].free[k]
          PROVE  /\ x[1] = j /\ Malloced(x)' /\ References(x)' = 0
                 /\ \A u \in MemThreads : ~HeldBy(u, x)' /\ ~Returning(u, x)'
        <3>1. CASE j # i
            <4>1. x = blocks[j].free[k]
                BY <1>8, <2>1, <3>1
            <4>2. /\ x[1] = j /\ Malloced(x) /\ References(x) = 0
                  /\ \A u \in MemThreads : ~HeldBy(u, x) /\ ~Returning(u, x)
                BY <1>8, <2>1, <3>1, <4>1 DEF MemInv, ListsInv
            <4>3. x # b /\ x \in Named
                BY <1>4, <3>1, <4>2 DEF Malloced
            <4>4. /\ Malloced(x)' /\ References(x)' = 0
                  /\ \A u \in MemThreads : ~HeldBy(u, x)' /\ ~Returning(u, x)'
                BY <1>9, <1>11, <1>15, <1>16, <4>2, <4>3
            <4> QED
                BY <1>8, <3>1, <4>1, <4>2, <4>4
        <3>2. CASE j = i
            <4>1. x = rest[k]
                BY <1>8, <2>1, <3>2
            <4>2. k \in 1 .. n - 1 /\ k + 1 \in 1 .. n /\ k + 1 # 1 /\ x = list[k + 1] /\ 1 \in 1 .. n
                BY <1>3, <1>6, <1>8, <2>1, <3>2, <4>1
            <4>3. /\ x[1] = i /\ References(x) = 0 /\ x # b /\ Malloced(x)'
                  /\ \A u \in MemThreads : ~HeldBy(u, x) /\ ~Returning(u, x)
                BY <1>2, <1>3, <1>4, <1>10, <4>2
            <4>4. /\ References(x)' = 0
                  /\ \A u \in MemThreads : ~HeldBy(u, x)' /\ ~Returning(u, x)'
                BY <1>11, <1>15, <1>16, <4>3
            <4> QED
                BY <1>8, <3>2, <4>1, <4>3, <4>4
        <3> QED
            BY <3>1, <3>2
    <2>2. ASSUME NEW j \in Indexes, NEW k \in 1 .. Len(blocks'[j].free), NEW l \in 1 .. Len(blocks'[j].free),
                 blocks'[j].free[k] = blocks'[j].free[l]
          PROVE  k = l
        <3>1. CASE j # i
            BY <1>8, <2>2, <3>1 DEF MemInv, ListsInv
        <3>2. CASE j = i
            <4>1. /\ k \in 1 .. n - 1 /\ l \in 1 .. n - 1 /\ k + 1 \in 1 .. n /\ l + 1 \in 1 .. n
                  /\ list[k + 1] = list[l + 1]
                BY <1>3, <1>6, <1>8, <2>2, <3>2
            <4>2. k + 1 = l + 1
                BY <1>2, <1>3, <4>1
            <4> QED
                BY <4>1, <4>2
        <3> QED
            BY <3>1, <3>2
    <2>3. ASSUME NEW j \in Indexes, NEW k \in 1 .. Len(blocks[j].free)'
          PROVE  (LET b2 == blocks[j].free[k]
                  IN  /\ b2[1] = j /\ Malloced(b2) /\ References(b2) = 0
                      /\ \A u \in MemThreads : ~HeldBy(u, b2) /\ ~Returning(u, b2))'
        <3>1. PICK x : x = blocks'[j].free[k]
            OBVIOUS
        <3>2. /\ x[1] = j /\ Malloced(x)' /\ References(x)' = 0
              /\ \A u \in MemThreads : ~HeldBy(u, x)' /\ ~Returning(u, x)'
            BY <2>1, <2>3, <3>1
        <3> QED
            BY <3>1, <3>2 DEF Malloced, References, HeldBy, Returning
    <2> QED
        BY <2>2, <2>3 DEF ListsInv
<1>20. HeldInv'
    <2>1. ASSUME NEW u \in MemThreads, NEW h \in held'[u]
          PROVE  /\ Malloced(h.block)' /\ References(h.block)' = 1 /\ h.block[1] * Unit >= h.want
                 /\ \A v \in MemThreads : ~Returning(v, h.block)'
        <3>1. CASE h \in held[u]
            <4>1. h.block # b /\ h.block \in Named
                BY <1>7, <1>17, <3>1 DEF HeldBy
            <4>2. /\ Malloced(h.block) /\ References(h.block) = 1 /\ h.block[1] * Unit >= h.want
                  /\ \A v \in MemThreads : ~Returning(v, h.block)
                BY <3>1 DEF MemInv, HeldInv
            <4> QED
                BY <1>9, <1>11, <1>15, <4>1, <4>2
        <3>2. CASE h = fresh
            <4>1. Malloced(b)' /\ References(b)' = 1 /\ \A v \in MemThreads : ~Returning(v, b)'
                BY <1>3, <1>4, <1>10, <1>11, <1>15, <1>17
            <4>2. b[1] * Unit >= w
                BY <1>1, <1>4, EnoughUnits, MemAssumption
            <4> QED
                BY <1>13, <3>2, <4>1, <4>2
        <3> QED
            BY <1>13, <2>1, <3>1, <3>2
    <2>2. ASSUME NEW u \in MemThreads, NEW h \in held'[u], NEW v \in MemThreads, NEW g \in held'[v],
                 g.block = h.block
          PROVE  v = u /\ g = h
        <3>1. CASE h \in held[u] /\ g \in held[v]
            BY <2>2, <3>1 DEF MemInv, HeldInv
        <3>2. CASE h \notin held[u] \/ g \notin held[v]
            <4>1. h.block = b
                BY <1>13, <2>2, <3>2
            <4>2. h \notin held[u] /\ g \notin held[v]
                BY <1>17, <2>2, <4>1 DEF HeldBy
            <4> QED
                BY <1>13, <2>2, <4>2
        <3> QED
            BY <3>1, <3>2
    <2> QED
        BY <2>1, <2>2 DEF HeldInv
<1>21. ReturnInv'
    <2>1. ASSUME NEW u \in MemThreads, doing'[u].op \in {"recycle", "push"}
          PROVE  (/\ Malloced(doing[u].block)
                  /\ References(doing[u].block) = (IF doing[u].op = "recycle" THEN 1 ELSE 0)
                  /\ \A v \in MemThreads : Returning(v, doing[u].block) => v = u)'
        <3>1. doing'[u] = doing[u]
            BY <1>14, <2>1
        <3>2. PICK x : x = doing[u].block
            OBVIOUS
        <3>3. /\ Malloced(x) /\ References(x) = (IF doing[u].op = "recycle" THEN 1 ELSE 0)
              /\ \A v \in MemThreads : Returning(v, x) => v = u
            BY <2>1, <3>1, <3>2 DEF MemInv, ReturnInv
        <3>4. x # b /\ x \in Named
            BY <1>17, <2>1, <3>1, <3>2, <3>3 DEF Returning, Malloced
        <3>5. Malloced(x)' /\ References(x)' = References(x) /\ \A v \in MemThreads : Returning(v, x)' => v = u
            BY <1>9, <1>11, <1>15, <3>3, <3>4
        <3> QED
            BY <3>1, <3>2, <3>3, <3>5 DEF Malloced, References, Returning
    <2> QED
        BY <2>1 DEF ReturnInv
<1>22. PlaceInv'
    <2>1. ASSUME NEW x \in Named, Malloced(x)'
          PROVE  Listed(x)' \/ \E u \in MemThreads : HeldBy(u, x)' \/ Returning(u, x)'
        <3>0. x[1] \in Indexes
            BY DEF Named
        <3>1. CASE x[1] # i
            <4>1. Malloced(x)
                BY <1>8, <2>1, <3>0, <3>1 DEF Malloced
            <4>2. Listed(x)' <=> Listed(x)
                BY <1>8, <3>0, <3>1 DEF Listed
            <4> QED
                BY <1>15, <1>16, <4>1, <4>2 DEF MemInv, PlaceInv
        <3>2. CASE x[1] = i
            <4>1. x[2] \in 1 .. c
                BY <1>8, <2>1, <3>2 DEF Malloced
            <4>2. CASE \E u \in MemThreads : HeldBy(u, x) \/ Returning(u, x)
                BY <1>15, <1>16, <4>2
            <4>3. ASSUME NEW k \in 1 .. n, list[k] = x
                  PROVE  Listed(x)' \/ \E u \in MemThreads : HeldBy(u, x)'
                <5>1. CASE k = 1
                    BY <1>4, <1>16, <4>3, <5>1
                <5>2. CASE k # 1
                    <6>1. k - 1 \in 1 .. n - 1 /\ (k - 1) + 1 = k
                        BY <1>3, <4>3, <5>2
                    <6>2. rest[k - 1] = x /\ k - 1 \in 1 .. Len(rest)
                        BY <1>6, <4>3, <6>1
                    <6> QED
                        BY <1>8, <3>2, <6>2 DEF Listed
                <5> QED
                    BY <5>1, <5>2
            <4> QED
                BY <1>2, <1>3, <3>2, <4>1, <4>2, <4>3
        <3> QED
            BY <3>1, <3>2
    <2> QED
        BY <2>1 DEF PlaceInv
<1> QED
    BY <1>1, <1>18, <1>19, <1>20, <1>21, <1>22 DEF MemInv

\* A block being given back leaves what its thread holds.
LEMMA RecycleKeepsInv ==
    ASSUME MemInv, NEW t \in MemThreads, NEW site, RecordRecycleInfo(t, site)
    PROVE  MemInv'
<1>1. PICK h \in held[t] : /\ doing' = [doing EXCEPT ![t] = [op |-> "recycle", block |-> h.block]]
                           /\ held' = [held EXCEPT ![t] = @ \ {h}]
    BY DEF RecordRecycleInfo
<1>2. /\ blocks' = blocks /\ refer' = refer /\ leaks' = leaks /\ doing[t] = Idle
    BY DEF RecordRecycleInfo
<1>3. /\ blocks \in [Indexes -> [free : Seq(Named), count : Nat]]
      /\ held \in [MemThreads -> SUBSET [block : Named, want : Wants]]
      /\ doing \in [MemThreads -> {Idle} \cup [op : {"alloc"}, want : Wants]
                                  \cup [op : {"recycle", "push"}, block : Named]]
    BY DEF MemInv, MemTypeOK
<1>4. PICK b \in Named : b = h.block
    BY <1>3
<1>5. /\ held' \in [MemThreads -> SUBSET [block : Named, want : Wants]]
      /\ held'[t] = held[t] \ {h}
      /\ \A u \in MemThreads : held'[u] \subseteq held[u] /\ (u # t => held'[u] = held[u])
    BY <1>1, <1>3
<1>6. PICK back : back = [op |-> "recycle", block |-> b]
    OBVIOUS
<1>7. /\ back \in [op : {"recycle", "push"}, block : Named] /\ back.op = "recycle" /\ back.block = b
      /\ doing' = [doing EXCEPT ![t] = back]
    BY <1>1, <1>4, <1>6
<1>8. /\ doing' \in [MemThreads -> {Idle} \cup [op : {"alloc"}, want : Wants]
                                    \cup [op : {"recycle", "push"}, block : Named]]
      /\ doing'[t] = back /\ \A u \in MemThreads : u # t => doing'[u] = doing[u]
    BY <1>3, <1>7
<1>9. \A x : Malloced(x)' <=> Malloced(x)
    BY <1>2 DEF Malloced
<1>10. \A x : References(x)' = References(x)
    BY <1>2 DEF References
<1>11. \A x : Listed(x)' <=> Listed(x)
    BY <1>2 DEF Listed
<1>12. /\ Malloced(b) /\ References(b) = 1
       /\ \A u \in MemThreads : /\ ~Returning(u, b)
                                /\ \A g \in held[u] : g.block = b => u = t /\ g = h
    BY <1>1, <1>4 DEF MemInv, HeldInv
<1>13. \A u \in MemThreads : \A x : Returning(u, x)' <=> Returning(u, x) \/ (u = t /\ x = b)
    BY <1>2, <1>7, <1>8 DEF Returning, Idle
<1>14. \A u \in MemThreads : \A x : HeldBy(u, x)' <=> HeldBy(u, x) /\ x # b
    BY <1>4, <1>5, <1>12 DEF HeldBy
<1>15. HeldBy(t, b) /\ ~Listed(b)
    <2>1. HeldBy(t, b)
        BY <1>1, <1>4 DEF HeldBy
    <2>2. b[1] \in Indexes
        BY DEF Named
    <2> QED
        BY <2>1, <2>2 DEF MemInv, ListsInv, Listed
<1>16. MemTypeOK' /\ leaks' = 0 /\ \A x \in DOMAIN refer' : Malloced(x)'
    BY <1>2, <1>5, <1>8, <1>9 DEF MemInv, MemTypeOK
<1>17. ListsInv'
    <2>1. ASSUME NEW i \in Indexes, NEW k \in 1 .. Len(blocks[i].free), NEW x, x = blocks[i].free[k]
          PROVE  /\ x[1] = i /\ Malloced(x)' /\ References(x)' = 0
                 /\ \A u \in MemThreads : ~HeldBy(u, x)' /\ ~Returning(u, x)'
        <3>1. /\ x[1] = i /\ Malloced(x) /\ References(x) = 0
              /\ \A u \in MemThreads : ~HeldBy(u, x) /\ ~Returning(u, x)
            BY <2>1 DEF MemInv, ListsInv
        <3>2. x # b
            BY <1>15, <3>1
        <3> QED
            BY <1>9, <1>10, <1>13, <1>14, <3>1, <3>2
    <2>2. \A i \in Indexes : \A k, l \in 1 .. Len(blocks[i].free) :
            blocks[i].free[k] = blocks[i].free[l] => k = l
        BY DEF MemInv, ListsInv
    <2>3. ASSUME NEW i \in Indexes, NEW k \in 1 .. Len(blocks[i].free)'
          PROVE  (LET b2 == blocks[i].free[k]
                  IN  /\ b2[1] = i /\ Malloced(b2) /\ References(b2) = 0
                      /\ \A u \in MemThreads : ~HeldBy(u, b2) /\ ~Returning(u, b2))'
        <3>1. PICK x : x = blocks'[i].free[k] /\ x = blocks[i].free[k]
            BY <1>2
        <3>2. /\ x[1] = i /\ Malloced(x)' /\ References(x)' = 0
              /\ \A u \in MemThreads : ~HeldBy(u, x)' /\ ~Returning(u, x)'
            BY <1>2, <2>1, <2>3, <3>1
        <3> QED
            BY <3>1, <3>2 DEF Malloced, References, HeldBy, Returning
    <2> QED
        BY <1>2, <2>2, <2>3 DEF ListsInv
<1>18. HeldInv'
    <2>1. ASSUME NEW u \in MemThreads, NEW g \in held'[u]
          PROVE  /\ Malloced(g.block)' /\ References(g.block)' = 1 /\ g.block[1] * Unit >= g.want
                 /\ \A v \in MemThreads : ~Returning(v, g.block)'
        <3>1. g \in held[u] /\ g.block # b
            BY <1>5, <1>12, <2>1
        <3>2. /\ Malloced(g.block) /\ References(g.block) = 1 /\ g.block[1] * Unit >= g.want
              /\ \A v \in MemThreads : ~Returning(v, g.block)
            BY <3>1 DEF MemInv, HeldInv
        <3> QED
            BY <1>9, <1>10, <1>13, <3>1, <3>2
    <2>2. \A u, v \in MemThreads : \A g \in held'[u], f \in held'[v] : f.block = g.block => v = u /\ f = g
        BY <1>5 DEF MemInv, HeldInv
    <2> QED
        BY <2>1, <2>2 DEF HeldInv
<1>19. ReturnInv'
    <2>1. ASSUME NEW u \in MemThreads, doing'[u].op \in {"recycle", "push"}, NEW x, x = doing'[u].block
          PROVE  /\ Malloced(x)' /\ References(x)' = (IF doing'[u].op = "recycle" THEN 1 ELSE 0)
                 /\ \A v \in MemThreads : Returning(v, x)' => v = u
        <3>1. CASE u = t
            BY <1>7, <1>8, <1>9, <1>10, <1>12, <1>13, <2>1, <3>1
        <3>2. CASE u # t
            <4>1. doing'[u] = doing[u]
                BY <1>8, <3>2
            <4>2. /\ Malloced(x) /\ References(x) = (IF doing[u].op = "recycle" THEN 1 ELSE 0)
                  /\ \A v \in MemThreads : Returning(v, x) => v = u
                BY <2>1, <4>1 DEF MemInv, ReturnInv
            <4>3. x # b
                BY <1>12, <2>1, <4>1 DEF Returning
            <4> QED
                BY <1>9, <1>10, <1>13, <4>1, <4>2, <4>3
        <3> QED
            BY <3>1, <3>2
    <2>2. ASSUME NEW u \in MemThreads, doing'[u].op \in {"recycle", "push"}
          PROVE  (/\ Malloced(doing[u].block)
                  /\ References(doing[u].block) = (IF doing[u].op = "recycle" THEN 1 ELSE 0)
                  /\ \A v \in MemThreads : Returning(v, doing[u].block) => v = u)'
        <3>1. PICK x : x = doing'[u].block
            OBVIOUS
        <3>2. /\ Malloced(x)' /\ References(x)' = (IF doing'[u].op = "recycle" THEN 1 ELSE 0)
              /\ \A v \in MemThreads : Returning(v, x)' => v = u
            BY <2>1, <2>2, <3>1
        <3> QED
            BY <3>1, <3>2 DEF Malloced, References, Returning
    <2> QED
        BY <2>2 DEF ReturnInv
<1>20. PlaceInv'
    BY <1>9, <1>11, <1>12, <1>13, <1>14 DEF MemInv, PlaceInv
<1> QED
    BY <1>16, <1>17, <1>18, <1>19, <1>20 DEF MemInv

\* The reference goes.
LEMMA DropKeepsInv ==
    ASSUME MemInv, NEW t \in MemThreads, DropReference(t)
    PROVE  MemInv'
<1>t. /\ blocks \in [Indexes -> [free : Seq(Named), count : Nat]]
      /\ held \in [MemThreads -> SUBSET [block : Named, want : Wants]]
      /\ doing \in [MemThreads -> {Idle} \cup [op : {"alloc"}, want : Wants]
                                  \cup [op : {"recycle", "push"}, block : Named]]
      /\ doing[t] \in {Idle} \cup [op : {"alloc"}, want : Wants] \cup [op : {"recycle", "push"}, block : Named]
    BY DEF MemInv, MemTypeOK
<1>1. doing[t].op = "recycle" /\ doing[t] \in [op : {"recycle", "push"}, block : Named]
    BY <1>t DEF DropReference, Idle
<1>3. PICK b \in Named : b = doing[t].block
    BY <1>1
<1>4. /\ Malloced(b) /\ References(b) = 1
      /\ \A u \in MemThreads : Returning(u, b) => u = t
    BY <1>1, <1>3 DEF MemInv, ReturnInv
<1>5. b \in DOMAIN refer /\ refer[b] = 1
    BY <1>4 DEF References
<1>2. blocks' = blocks /\ held' = held /\ leaks' = leaks
    BY <1>3, <1>5 DEF DropReference
<1>6. PICK back : back = [op |-> "push", block |-> b]
    OBVIOUS
<1>7. /\ back \in [op : {"recycle", "push"}, block : Named] /\ back.op = "push" /\ back.block = b
      /\ doing' = [doing EXCEPT ![t] = back]
    BY <1>3, <1>5, <1>6 DEF DropReference
<1>8. /\ doing' \in [MemThreads -> {Idle} \cup [op : {"alloc"}, want : Wants]
                                    \cup [op : {"recycle", "push"}, block : Named]]
      /\ doing'[t] = back /\ \A u \in MemThreads : u # t => doing'[u] = doing[u]
    BY <1>t, <1>7
<1>9. \A x : (Malloced(x)' <=> Malloced(x)) /\ (Listed(x)' <=> Listed(x))
    BY <1>2 DEF Malloced, Listed
<1>10. refer' = [refer EXCEPT ![b] = 0]
    BY <1>3, <1>5 DEF DropReference
<1>11. \A x : References(x)' = IF x = b THEN 0 ELSE References(x)
    <2>1. PICK known \in SUBSET Named : refer \in [known -> Nat]
        BY DEF MemInv, MemTypeOK
    <2> QED
        BY <1>5, <1>10, <2>1 DEF References
<1>12. \A u \in MemThreads : \A x : Returning(u, x)' <=> Returning(u, x)
    BY <1>1, <1>3, <1>7, <1>8 DEF Returning
<1>13. \A u \in MemThreads : \A x : HeldBy(u, x)' <=> HeldBy(u, x)
    BY <1>2 DEF HeldBy
<1>14. Returning(t, b) /\ \A u \in MemThreads : ~HeldBy(u, b)
    <2>1. Returning(t, b)
        BY <1>1, <1>3 DEF Returning
    <2> QED
        BY <2>1 DEF MemInv, HeldInv, HeldBy
<1>15. MemTypeOK' /\ leaks' = 0 /\ \A x \in DOMAIN refer' : Malloced(x)'
    <2>1. PICK known \in SUBSET Named : refer \in [known -> Nat]
        BY DEF MemInv, MemTypeOK
    <2>2. refer' \in [known -> Nat] /\ DOMAIN refer' = DOMAIN refer
        BY <1>10, <2>1
    <2> QED
        BY <1>2, <1>8, <1>9, <2>2 DEF MemInv, MemTypeOK
<1>16. ListsInv'
    <2>1. ASSUME NEW i \in Indexes, NEW k \in 1 .. Len(blocks'[i].free), NEW x, x = blocks'[i].free[k]
          PROVE  /\ x[1] = i /\ Malloced(x)' /\ References(x)' = 0
                 /\ \A u \in MemThreads : ~HeldBy(u, x)' /\ ~Returning(u, x)'
        <3>1. /\ x[1] = i /\ Malloced(x) /\ References(x) = 0
              /\ \A u \in MemThreads : ~HeldBy(u, x) /\ ~Returning(u, x)
            BY <1>2, <2>1 DEF MemInv, ListsInv
        <3> QED
            BY <1>9, <1>11, <1>12, <1>13, <3>1
    <2>2. \A i \in Indexes : \A k, l \in 1 .. Len(blocks'[i].free) :
            blocks'[i].free[k] = blocks'[i].free[l] => k = l
        BY <1>2 DEF MemInv, ListsInv
    <2>3. ASSUME NEW i \in Indexes, NEW k \in 1 .. Len(blocks[i].free)'
          PROVE  (LET b2 == blocks[i].free[k]
                  IN  /\ b2[1] = i /\ Malloced(b2) /\ References(b2) = 0
                      /\ \A u \in MemThreads : ~HeldBy(u, b2) /\ ~Returning(u, b2))'
        <3>1. PICK x : x = blocks'[i].free[k]
            OBVIOUS
        <3>2. /\ x[1] = i /\ Malloced(x)' /\ References(x)' = 0
              /\ \A u \in MemThreads : ~HeldBy(u, x)' /\ ~Returning(u, x)'
            BY <2>1, <2>3, <3>1
        <3> QED
            BY <3>1, <3>2 DEF Malloced, References, HeldBy, Returning
    <2> QED
        BY <2>2, <2>3 DEF ListsInv
<1>17. HeldInv'
    <2>1. ASSUME NEW u \in MemThreads, NEW g \in held'[u]
          PROVE  /\ Malloced(g.block)' /\ References(g.block)' = 1 /\ g.block[1] * Unit >= g.want
                 /\ \A v \in MemThreads : ~Returning(v, g.block)'
        <3>1. /\ Malloced(g.block) /\ References(g.block) = 1 /\ g.block[1] * Unit >= g.want
              /\ \A v \in MemThreads : ~Returning(v, g.block)
            BY <1>2, <2>1 DEF MemInv, HeldInv
        <3> QED
            BY <1>9, <1>11, <1>12, <1>14, <3>1
    <2>2. \A u, v \in MemThreads : \A g \in held'[u], f \in held'[v] : f.block = g.block => v = u /\ f = g
        BY <1>2 DEF MemInv, HeldInv
    <2> QED
        BY <2>1, <2>2 DEF HeldInv
<1>18. ReturnInv'
    <2>1. ASSUME NEW u \in MemThreads, doing'[u].op \in {"recycle", "push"}, NEW x, x = doing'[u].block
          PROVE  /\ Malloced(x)' /\ References(x)' = (IF doing'[u].op = "recycle" THEN 1 ELSE 0)
                 /\ \A v \in MemThreads : Returning(v, x)' => v = u
        <3>1. CASE u = t
            <4>1. x = b /\ doing'[u].op = "push"
                BY <1>7, <1>8, <2>1, <3>1
            <4> QED
                BY <1>4, <1>9, <1>11, <1>12, <3>1, <4>1
        <3>2. CASE u # t
            <4>1. doing'[u] = doing[u]
                BY <1>8, <3>2
            <4>2. /\ Malloced(x) /\ References(x) = (IF doing[u].op = "recycle" THEN 1 ELSE 0)
                  /\ \A v \in MemThreads : Returning(v, x) => v = u
                BY <2>1, <4>1 DEF MemInv, ReturnInv
            <4>3. x # b
                BY <1>14, <3>2, <4>2
            <4> QED
                BY <1>9, <1>11, <1>12, <4>1, <4>2, <4>3
        <3> QED
            BY <3>1, <3>2
    <2>2. ASSUME NEW u \in MemThreads, doing'[u].op \in {"recycle", "push"}
          PROVE  (/\ Malloced(doing[u].block)
                  /\ References(doing[u].block) = (IF doing[u].op = "recycle" THEN 1 ELSE 0)
                  /\ \A v \in MemThreads : Returning(v, doing[u].block) => v = u)'
        <3>1. PICK x : x = doing'[u].block
            OBVIOUS
        <3>2. /\ Malloced(x)' /\ References(x)' = (IF doing'[u].op = "recycle" THEN 1 ELSE 0)
              /\ \A v \in MemThreads : Returning(v, x)' => v = u
            BY <2>1, <2>2, <3>1
        <3> QED
            BY <3>1, <3>2 DEF Malloced, References, Returning
    <2> QED
        BY <2>2 DEF ReturnInv
<1>19. PlaceInv'
    BY <1>9, <1>12, <1>13 DEF MemInv, PlaceInv
<1> QED
    BY <1>15, <1>16, <1>17, <1>18, <1>19 DEF MemInv

LEMMA Pushed ==
    ASSUME NEW s \in Seq(Named), NEW b \in Named
    PROVE  /\ <<b>> \o s \in Seq(Named) /\ Len(<<b>> \o s) = Len(s) + 1
           /\ (<<b>> \o s)[1] = b /\ \A k \in 2 .. Len(s) + 1 : (<<b>> \o s)[k] = s[k - 1]
    OBVIOUS

\* The block comes to the front of its list.
LEMMA PushKeepsInv ==
    ASSUME MemInv, NEW t \in MemThreads, PushBlock(t)
    PROVE  MemInv'
<1>t. /\ blocks \in [Indexes -> [free : Seq(Named), count : Nat]]
      /\ held \in [MemThreads -> SUBSET [block : Named, want : Wants]]
      /\ doing \in [MemThreads -> {Idle} \cup [op : {"alloc"}, want : Wants]
                                  \cup [op : {"recycle", "push"}, block : Named]]
      /\ doing[t] \in {Idle} \cup [op : {"alloc"}, want : Wants] \cup [op : {"recycle", "push"}, block : Named]
    BY DEF MemInv, MemTypeOK
<1>1. doing[t].op = "push" /\ doing[t] \in [op : {"recycle", "push"}, block : Named]
    BY <1>t DEF PushBlock, Idle
<1>3. PICK b \in Named : b = doing[t].block
    BY <1>1
<1>4. /\ Malloced(b) /\ References(b) = 0
      /\ \A u \in MemThreads : Returning(u, b) => u = t
    BY <1>1, <1>3 DEF MemInv, ReturnInv
<1>5. PICK j \in Indexes : j = b[1]
    BY DEF Named
<1>6. PICK old \in Seq(Named), n \in Nat : old = blocks[j].free /\ n = Len(old)
    BY <1>t
<1>7. PICK list \in Seq(Named) : list = <<b>> \o old
    BY Pushed
<1>8. Len(list) = n + 1 /\ list[1] = b /\ \A k \in 2 .. n + 1 : list[k] = old[k - 1]
    BY <1>6, <1>7, Pushed
<1>9. blocks' = [blocks EXCEPT ![j].free = list]
    BY <1>3, <1>5, <1>6, <1>7 DEF PushBlock
<1>10. /\ blocks' \in [Indexes -> [free : Seq(Named), count : Nat]]
       /\ blocks'[j].free = list
       /\ \A i \in Indexes : blocks'[i].count = blocks[i].count /\ (i # j => blocks'[i] = blocks[i])
    BY <1>t, <1>9
<1>11. /\ refer' = refer /\ leaks' = leaks /\ held' = held /\ doing' = [doing EXCEPT ![t] = Idle]
    BY DEF PushBlock
<1>12. /\ doing' \in [MemThreads -> {Idle} \cup [op : {"alloc"}, want : Wants]
                                    \cup [op : {"recycle", "push"}, block : Named]]
       /\ doing'[t] = Idle /\ \A u \in MemThreads : u # t => doing'[u] = doing[u]
    BY <1>t, <1>11
<1>13. \A x : Malloced(x)' <=> Malloced(x)
    <2>1. \A x \in Named : x[1] \in Indexes
        BY DEF Named
    <2> QED
        BY <1>10, <2>1 DEF Malloced
<1>14. \A x : References(x)' = References(x)
    BY <1>11 DEF References
<1>15. \A u \in MemThreads : \A x : HeldBy(u, x)' <=> HeldBy(u, x)
    BY <1>11 DEF HeldBy
<1>16. Returning(t, b)
    BY <1>1, <1>3 DEF Returning
<1>17. \A u \in MemThreads : \A x : Returning(u, x)' <=> Returning(u, x) /\ u # t
    BY <1>12 DEF Returning, Idle
<1>18. \A x : Returning(t, x) => x = b
    BY <1>3 DEF Returning
<1>19. \A u \in MemThreads : ~HeldBy(u, b)
    BY <1>16 DEF MemInv, HeldInv, HeldBy
<1>20. \A k \in 1 .. n : old[k] # b
    BY <1>6, <1>16 DEF MemInv, ListsInv
<1>21. MemTypeOK' /\ leaks' = 0 /\ \A x \in DOMAIN refer' : Malloced(x)'
    BY <1>10, <1>11, <1>12, <1>13 DEF MemInv, MemTypeOK
<1>22. ListsInv'
    <2>0. ASSUME NEW i \in Indexes, NEW k \in 1 .. Len(blocks[i].free), NEW x, x = blocks[i].free[k]
          PROVE  /\ x[1] = i /\ Malloced(x)' /\ References(x)' = 0
                 /\ \A u \in MemThreads : ~HeldBy(u, x)' /\ ~Returning(u, x)'
        <3>1. /\ x[1] = i /\ Malloced(x) /\ References(x) = 0
              /\ \A u \in MemThreads : ~HeldBy(u, x) /\ ~Returning(u, x)
            BY <2>0 DEF MemInv, ListsInv
        <3> QED
            BY <1>13, <1>14, <1>15, <1>17, <3>1
    <2>1. ASSUME NEW i \in Indexes, NEW k \in 1 .. Len(blocks'[i].free), NEW x, x = blocks'[i].free[k]
          PROVE  /\ x[1] = i /\ Malloced(x)' /\ References(x)' = 0
                 /\ \A u \in MemThreads : ~HeldBy(u, x)' /\ ~Returning(u, x)'
        <3>1. CASE i # j
            <4>1. k \in 1 .. Len(blocks[i].free) /\ x = blocks[i].free[k]
                BY <1>10, <2>1, <3>1
            <4> QED
                BY <2>0, <4>1
        <3>2. CASE i = j /\ k = 1
            <4>1. x = b /\ x[1] = i
                BY <1>5, <1>8, <1>10, <2>1, <3>2
            <4>2. \A u \in MemThreads : ~HeldBy(u, x)' /\ ~Returning(u, x)'
                BY <1>4, <1>15, <1>17, <1>19, <4>1
            <4> QED
                BY <1>4, <1>13, <1>14, <4>1, <4>2
        <3>3. CASE i = j /\ k # 1
            <4>1. k \in 2 .. n + 1 /\ k - 1 \in 1 .. n
                BY <1>8, <1>10, <2>1, <3>3
            <4>2. x = blocks[j].free[k - 1] /\ k - 1 \in 1 .. Len(blocks[j].free)
                BY <1>6, <1>8, <1>10, <2>1, <3>3, <4>1
            <4> QED
                BY <2>0, <3>3, <4>2, SMTT(30)
        <3> QED
            BY <3>1, <3>2, <3>3
    <2>2. \A i \in Indexes : \A k, l \in 1 .. Len(blocks'[i].free) :
            blocks'[i].free[k] = blocks'[i].free[l] => k = l
        <3>1. ASSUME NEW k \in 1 .. n + 1, NEW l \in 1 .. n + 1, list[k] = list[l] PROVE k = l
            <4>0. \A p, q \in 1 .. n : old[p] = old[q] => p = q
                BY <1>6 DEF MemInv, ListsInv
            <4>1. CASE k = 1 \/ l = 1
                <5>1. ASSUME NEW m \in 2 .. n + 1 PROVE list[m] # b
                    <6>1. m - 1 \in 1 .. n /\ list[m] = old[m - 1]
                        BY <1>8
                    <6> QED
                        BY <1>20, <6>1
                <5>2. /\ k = 1 \/ k \in 2 .. n + 1
                      /\ l = 1 \/ l \in 2 .. n + 1
                    OBVIOUS
                <5>3. list[1] = b
                    BY <1>8
                <5>4. CASE k = 1
                    BY <3>1, <5>1, <5>2, <5>3, <5>4
                <5>5. CASE l = 1
                    BY <3>1, <5>1, <5>2, <5>3, <5>5
                <5> QED
                    BY <4>1, <5>4, <5>5
            <4>2. CASE k # 1 /\ l # 1
                <5>1. k - 1 \in 1 .. n /\ l - 1 \in 1 .. n /\ old[k - 1] = old[l - 1]
                    BY <1>8, <3>1, <4>2
                <5>2. k - 1 = l - 1
                    BY <4>0, <5>1
                <5> QED
                    BY <3>1, <5>2
            <4> QED
                BY <4>1, <4>2
        <3>2. ASSUME NEW i \in Indexes, i # j, NEW k \in 1 .. Len(blocks'[i].free), NEW l \in 1 .. Len(blocks'[i].free),
                     blocks'[i].free[k] = blocks'[i].free[l]
              PROVE  k = l
            BY <1>10, <3>2 DEF MemInv, ListsInv
        <3> QED
            BY <1>8, <1>10, <3>1, <3>2, ZenonT(40)
    <2>3. ASSUME NEW i \in Indexes, NEW k \in 1 .. Len(blocks[i].free)'
          PROVE  (LET b2 == blocks[i].free[k]
                  IN  /\ b2[1] = i /\ Malloced(b2) /\ References(b2) = 0
                      /\ \A u \in MemThreads : ~HeldBy(u, b2) /\ ~Returning(u, b2))'
        <3>1. PICK x : x = blocks'[i].free[k]
            OBVIOUS
        <3>2. /\ x[1] = i /\ Malloced(x)' /\ References(x)' = 0
              /\ \A u \in MemThreads : ~HeldBy(u, x)' /\ ~Returning(u, x)'
            BY <2>1, <2>3, <3>1
        <3> QED
            BY <3>1, <3>2 DEF Malloced, References, HeldBy, Returning
    <2> QED
        BY <2>2, <2>3 DEF ListsInv
<1>23. HeldInv'
    <2>1. ASSUME NEW u \in MemThreads, NEW g \in held'[u]
          PROVE  /\ Malloced(g.block)' /\ References(g.block)' = 1 /\ g.block[1] * Unit >= g.want
                 /\ \A v \in MemThreads : ~Returning(v, g.block)'
        <3>1. /\ Malloced(g.block) /\ References(g.block) = 1 /\ g.block[1] * Unit >= g.want
              /\ \A v \in MemThreads : ~Returning(v, g.block)
            BY <1>11, <2>1 DEF MemInv, HeldInv
        <3> QED
            BY <1>13, <1>14, <1>17, <3>1
    <2>2. \A u, v \in MemThreads : \A g \in held'[u], f \in held'[v] : f.block = g.block => v = u /\ f = g
        BY <1>11 DEF MemInv, HeldInv
    <2> QED
        BY <2>1, <2>2 DEF HeldInv
<1>24. ReturnInv'
    <2>1. ASSUME NEW u \in MemThreads, doing'[u].op \in {"recycle", "push"}, NEW x, x = doing'[u].block
          PROVE  /\ Malloced(x)' /\ References(x)' = (IF doing'[u].op = "recycle" THEN 1 ELSE 0)
                 /\ \A v \in MemThreads : Returning(v, x)' => v = u
        <3>1. u # t /\ doing'[u] = doing[u]
            BY <1>12, <2>1 DEF Idle
        <3>2. /\ Malloced(x) /\ References(x) = (IF doing[u].op = "recycle" THEN 1 ELSE 0)
              /\ \A v \in MemThreads : Returning(v, x) => v = u
            BY <2>1, <3>1 DEF MemInv, ReturnInv
        <3> QED
            BY <1>13, <1>14, <1>17, <3>1, <3>2
    <2>2. ASSUME NEW u \in MemThreads, doing'[u].op \in {"recycle", "push"}
          PROVE  (/\ Malloced(doing[u].block)
                  /\ References(doing[u].block) = (IF doing[u].op = "recycle" THEN 1 ELSE 0)
                  /\ \A v \in MemThreads : Returning(v, doing[u].block) => v = u)'
        <3>1. PICK x : x = doing'[u].block
            OBVIOUS
        <3>2. /\ Malloced(x)' /\ References(x)' = (IF doing'[u].op = "recycle" THEN 1 ELSE 0)
              /\ \A v \in MemThreads : Returning(v, x)' => v = u
            BY <2>1, <2>2, <3>1
        <3> QED
            BY <3>1, <3>2 DEF Malloced, References, Returning
    <2> QED
        BY <2>2 DEF ReturnInv
<1>25. PlaceInv'
    <2>1. Listed(b)'
        <3>1. 1 \in 1 .. Len(list)
            BY <1>8
        <3> QED
            BY <1>5, <1>8, <1>10, <3>1 DEF Listed
    <2>2. ASSUME NEW x \in Named, Listed(x) PROVE Listed(x)'
        <3>0. x[1] \in Indexes
            BY DEF Named
        <3>1. CASE x[1] # j
            BY <1>10, <2>2, <3>0, <3>1 DEF Listed
        <3>2. CASE x[1] = j
            <4>1. PICK k \in 1 .. n : old[k] = x
                BY <1>6, <2>2, <3>2 DEF Listed
            <4>2. k + 1 \in 2 .. n + 1 /\ (k + 1) - 1 = k
                BY <4>1
            <4>3. list[k + 1] = x /\ k + 1 \in 1 .. Len(list)
                BY <1>8, <4>1, <4>2
            <4> QED
                BY <1>10, <3>2, <4>3 DEF Listed
        <3> QED
            BY <3>1, <3>2
    <2>3. \A x \in Named : Malloced(x) => Listed(x)' \/ \E u \in MemThreads : HeldBy(u, x)' \/ Returning(u, x)'
        BY <1>15, <1>17, <1>18, <2>1, <2>2 DEF MemInv, PlaceInv
    <2> QED
        BY <1>13, <2>3 DEF PlaceInv
<1> QED
    BY <1>21, <1>22, <1>23, <1>24, <1>25 DEF MemInv

\* The block is another thread's.
LEMMA PassKeepsInv ==
    ASSUME MemInv, NEW t \in MemThreads, NEW s \in MemThreads, PassBlock(t, s)
    PROVE  MemInv'
<1>t. /\ blocks \in [Indexes -> [free : Seq(Named), count : Nat]]
      /\ held \in [MemThreads -> SUBSET [block : Named, want : Wants]]
      /\ doing \in [MemThreads -> {Idle} \cup [op : {"alloc"}, want : Wants]
                                  \cup [op : {"recycle", "push"}, block : Named]]
      /\ doing[t] \in {Idle} \cup [op : {"alloc"}, want : Wants] \cup [op : {"recycle", "push"}, block : Named]
    BY DEF MemInv, MemTypeOK
<1>1. t # s /\ blocks' = blocks /\ refer' = refer /\ leaks' = leaks /\ doing' = doing
    BY DEF PassBlock
<1>2. PICK h \in held[t] : held' = [held EXCEPT ![t] = @ \ {h}, ![s] = @ \cup {h}]
    BY DEF PassBlock
<1>3. /\ held'[t] = held[t] \ {h} /\ held'[s] = held[s] \cup {h}
      /\ \A u \in MemThreads : u # t /\ u # s => held'[u] = held[u]
      /\ held' \in [MemThreads -> SUBSET [block : Named, want : Wants]]
    BY <1>t, <1>1, <1>2
<1>4. /\ \A x : (Malloced(x)' <=> Malloced(x)) /\ (Listed(x)' <=> Listed(x)) /\ References(x)' = References(x)
      /\ \A x, u : Returning(u, x)' <=> Returning(u, x)
    BY <1>1 DEF Malloced, Listed, References, Returning
<1>5. \A x : (\E u \in MemThreads : HeldBy(u, x)') <=> \E u \in MemThreads : HeldBy(u, x)
    BY <1>2, <1>3 DEF HeldBy
<1>6. MemTypeOK' /\ leaks' = 0 /\ \A x \in DOMAIN refer' : Malloced(x)'
    BY <1>1, <1>3, <1>4 DEF MemInv, MemTypeOK
<1>7. ListsInv'
    <2>1. ASSUME NEW i \in Indexes, NEW k \in 1 .. Len(blocks'[i].free), NEW x, x = blocks'[i].free[k]
          PROVE  /\ x[1] = i /\ Malloced(x)' /\ References(x)' = 0
                 /\ \A u \in MemThreads : ~HeldBy(u, x)' /\ ~Returning(u, x)'
        <3>1. /\ x[1] = i /\ Malloced(x) /\ References(x) = 0
              /\ \A u \in MemThreads : ~HeldBy(u, x) /\ ~Returning(u, x)
            BY <1>1, <2>1 DEF MemInv, ListsInv
        <3>2. ~(\E u \in MemThreads : HeldBy(u, x)')
            BY <1>5, <3>1
        <3> QED
            BY <1>4, <3>1, <3>2
    <2>2. \A i \in Indexes : \A k, l \in 1 .. Len(blocks'[i].free) :
            blocks'[i].free[k] = blocks'[i].free[l] => k = l
        BY <1>1 DEF MemInv, ListsInv
    <2>3. ASSUME NEW i \in Indexes, NEW k \in 1 .. Len(blocks[i].free)'
          PROVE  (LET b2 == blocks[i].free[k]
                  IN  /\ b2[1] = i /\ Malloced(b2) /\ References(b2) = 0
                      /\ \A u \in MemThreads : ~HeldBy(u, b2) /\ ~Returning(u, b2))'
        <3>1. PICK x : x = blocks'[i].free[k]
            OBVIOUS
        <3>2. /\ x[1] = i /\ Malloced(x)' /\ References(x)' = 0
              /\ \A u \in MemThreads : ~HeldBy(u, x)' /\ ~Returning(u, x)'
            BY <2>1, <2>3, <3>1
        <3> QED
            BY <3>1, <3>2 DEF Malloced, References, HeldBy, Returning
    <2> QED
        BY <2>2, <2>3 DEF ListsInv
<1>8. HeldInv'
    <2>1. ASSUME NEW u \in MemThreads, NEW g \in held'[u]
          PROVE  /\ Malloced(g.block)' /\ References(g.block)' = 1 /\ g.block[1] * Unit >= g.want
                 /\ \A v \in MemThreads : ~Returning(v, g.block)'
        <3>1. PICK v \in MemThreads : g \in held[v]
            BY <1>2, <1>3, <2>1
        <3> QED
            BY <1>4, <3>1 DEF MemInv, HeldInv
    <2>2. ASSUME NEW u \in MemThreads, NEW v \in MemThreads, NEW g \in held'[u], NEW f \in held'[v],
                 f.block = g.block
          PROVE  v = u /\ f = g
        <3>1. \A p, q \in MemThreads : \A a \in held[p], c \in held[q] : a.block = c.block => p = q /\ a = c
            BY DEF MemInv, HeldInv
        <3>2. \A p \in MemThreads : \A a \in held'[p] : IF a = h THEN p = s ELSE a \in held[p]
            BY <1>1, <1>2, <1>3, <3>1
        <3>3. \A p \in MemThreads : \A a \in held[p] : a.block = h.block => a = h
            BY <1>2, <3>1
        <3> QED
            BY <2>2, <3>1, <3>2, <3>3
    <2> QED
        BY <2>1, <2>2 DEF HeldInv
<1>9. ReturnInv'
    BY <1>1, <1>4 DEF MemInv, ReturnInv
<1>10. PlaceInv'
    BY <1>4, <1>5 DEF MemInv, PlaceInv
<1> QED
    BY <1>6, <1>7, <1>8, <1>9, <1>10 DEF MemInv

LEMMA MemNextInv == MemInv /\ [MemNext]_memVars => MemInv'
<1> SUFFICES ASSUME MemInv, [MemNext]_memVars PROVE MemInv'
    OBVIOUS
<1>t. doing \in [MemThreads -> {Idle} \cup [op : {"alloc"}, want : Wants]
                               \cup [op : {"recycle", "push"}, block : Named]]
    BY DEF MemInv, MemTypeOK
<1>1. ASSUME NEW t \in MemThreads, NEW site \in Sites, NEW want \in Wants, RecordAllocInfo(t, site, want)
      PROVE  MemInv'
    <2>1. PICK asked : asked = [op |-> "alloc", want |-> want]
        OBVIOUS
    <2>2. asked \in [op : {"alloc"}, want : Wants] /\ asked.op = "alloc"
        BY <2>1
    <2>3. /\ blocks' = blocks /\ refer' = refer /\ leaks' = leaks /\ held' = held
          /\ doing[t] = Idle /\ doing' = [doing EXCEPT ![t] = asked]
        BY <1>1, <2>1 DEF RecordAllocInfo
    <2>4. doing' \in [MemThreads -> {Idle} \cup [op : {"alloc"}, want : Wants]
                                     \cup [op : {"recycle", "push"}, block : Named]]
        BY <1>t, <2>2, <2>3
    <2>5. Idle.op \notin {"recycle", "push"}
        BY DEF Idle
    <2>6. \A u \in MemThreads : \/ doing'[u] = doing[u]
                                \/ /\ doing[u].op \notin {"recycle", "push"}
                                   /\ doing'[u].op \notin {"recycle", "push"}
        BY <1>t, <2>2, <2>3, <2>5
    <2> QED
        BY <2>3, <2>4, <2>6, KeepsPlaces
<1>2. ASSUME NEW t \in MemThreads, AllocNothing(t) PROVE MemInv'
    <2>1. /\ blocks' = blocks /\ refer' = refer /\ leaks' = leaks /\ held' = held
          /\ doing[t].op = "alloc" /\ doing' = [doing EXCEPT ![t] = Idle]
        BY <1>2 DEF AllocNothing
    <2>2. doing' \in [MemThreads -> {Idle} \cup [op : {"alloc"}, want : Wants]
                                     \cup [op : {"recycle", "push"}, block : Named]]
        BY <1>t, <2>1
    <2>3. Idle.op \notin {"recycle", "push"}
        BY DEF Idle
    <2>4. \A u \in MemThreads : \/ doing'[u] = doing[u]
                                \/ /\ doing[u].op \notin {"recycle", "push"}
                                   /\ doing'[u].op \notin {"recycle", "push"}
        BY <1>t, <2>1, <2>3
    <2> QED
        BY <2>1, <2>2, <2>4, KeepsPlaces
<1>3. CASE UNCHANGED memVars
    <2>1. /\ blocks' = blocks /\ refer' = refer /\ leaks' = leaks /\ held' = held /\ doing' = doing
        BY <1>3 DEF memVars
    <2> QED
        BY <1>t, <2>1, KeepsPlaces
<1> QED
    BY <1>1, <1>2, <1>3, AllocKeepsInv, RecycleKeepsInv, DropKeepsInv, PushKeepsInv, PassKeepsInv DEF MemNext

\* What the invariant says of the places of a block: they add up to one.
LEMMA MemInvAddsUp == MemInv => BlocksAddUp
<1> SUFFICES ASSUME MemInv PROVE BlocksAddUp
    OBVIOUS
<1>t. /\ blocks \in [Indexes -> [free : Seq(Named), count : Nat]]
      /\ held \in [MemThreads -> SUBSET [block : Named, want : Wants]]
    BY DEF MemInv, MemTypeOK
<1>0. Cardinality({}) = 0 /\ \A x : Cardinality({x}) = 1
    BY FS_EmptySet, FS_Singleton
<1>1. ASSUME NEW b \in Named, Malloced(b)
      PROVE  Cardinality({k \in DOMAIN blocks[b[1]].free : blocks[b[1]].free[k] = b})
             + Cardinality({t \in MemThreads : \E h \in held[t] : h.block = b})
             + Cardinality({t \in MemThreads : doing[t].op \in {"recycle", "push"} /\ doing[t].block = b}) = 1
    <2>0. PICK i \in Indexes, list \in Seq(Named) : i = b[1] /\ list = blocks[i].free /\ DOMAIN list = 1 .. Len(list)
        BY <1>t DEF Named
    <2>l. PICK on : on = {k \in DOMAIN blocks[b[1]].free : blocks[b[1]].free[k] = b}
        OBVIOUS
    <2>h. PICK with : with = {t \in MemThreads : \E h \in held[t] : h.block = b}
        OBVIOUS
    <2>r. PICK back : back = {t \in MemThreads : doing[t].op \in {"recycle", "push"} /\ doing[t].block = b}
        OBVIOUS
    <2>1. on = {k \in 1 .. Len(list) : list[k] = b}
        BY <2>0, <2>l
    <2>2. /\ \A t \in MemThreads : t \in with <=> HeldBy(t, b)
          /\ \A t \in MemThreads : t \in back <=> Returning(t, b)
          /\ with \subseteq MemThreads /\ back \subseteq MemThreads
        BY <2>h, <2>r DEF HeldBy, Returning
    <2>3. Cardinality(on) + Cardinality(with) + Cardinality(back) = 1
        <3>1. CASE Listed(b)
            <4>1. PICK k \in 1 .. Len(list) : list[k] = b
                BY <2>0, <3>1 DEF Listed
            <4>2. \A l \in 1 .. Len(list) : list[l] = b => l = k
                BY <2>0, <4>1 DEF MemInv, ListsInv
            <4>3. \A t \in MemThreads : ~HeldBy(t, b) /\ ~Returning(t, b)
                BY <2>0, <4>1 DEF MemInv, ListsInv
            <4>4. on = {k} /\ with = {} /\ back = {}
                BY <2>1, <2>2, <4>1, <4>2, <4>3
            <4>5. Cardinality(on) = 1 /\ Cardinality(with) = 0 /\ Cardinality(back) = 0
                BY <1>0, <4>4, Zenon
            <4> QED
                BY <4>5
        <3>2. ASSUME NEW t \in MemThreads, HeldBy(t, b)
              PROVE  Cardinality(on) + Cardinality(with) + Cardinality(back) = 1
            <4>1. /\ \A u \in MemThreads : ~Returning(u, b)
                  /\ \A u \in MemThreads : HeldBy(u, b) => u = t
                BY <3>2 DEF MemInv, HeldInv, HeldBy
            <4>2. \A l \in 1 .. Len(list) : list[l] # b
                BY <2>0, <3>2 DEF MemInv, ListsInv
            <4>3. on = {} /\ with = {t} /\ back = {}
                BY <2>1, <2>2, <3>2, <4>1, <4>2
            <4>4. Cardinality(on) = 0 /\ Cardinality(with) = 1 /\ Cardinality(back) = 0
                BY <1>0, <4>3, Zenon
            <4> QED
                BY <4>4
        <3>3. ASSUME NEW t \in MemThreads, Returning(t, b)
              PROVE  Cardinality(on) + Cardinality(with) + Cardinality(back) = 1
            <4>1. \A u \in MemThreads : Returning(u, b) => u = t
                BY <3>3 DEF MemInv, ReturnInv, Returning
            <4>2. \A u \in MemThreads : ~HeldBy(u, b)
                BY <3>3 DEF MemInv, HeldInv, HeldBy
            <4>3. \A l \in 1 .. Len(list) : list[l] # b
                BY <2>0, <3>3 DEF MemInv, ListsInv
            <4>4. on = {} /\ with = {} /\ back = {t}
                BY <2>1, <2>2, <3>3, <4>1, <4>2, <4>3
            <4>5. Cardinality(on) = 0 /\ Cardinality(with) = 0 /\ Cardinality(back) = 1
                BY <1>0, <4>4, Zenon
            <4> QED
                BY <4>5
        <3> QED
            BY <1>1, <3>1, <3>2, <3>3 DEF MemInv, PlaceInv
    <2> QED
        BY <2>l, <2>h, <2>r, <2>3
<1>2. \A b \in UNION {{<<i, n>> : n \in 1 .. blocks[i].count} : i \in Indexes} : b \in Named /\ Malloced(b)
    <2>1. ASSUME NEW i \in Indexes, NEW n \in 1 .. blocks[i].count
          PROVE  <<i, n>> \in Named /\ Malloced(<<i, n>>)
        <3>1. <<i, n>> \in Named
            BY <1>t, <2>1 DEF Named
        <3> QED
            BY <2>1, <3>1 DEF Malloced
    <2> QED
        BY <2>1
<1>3. \A t \in MemThreads : \A h \in held[t] : refer[h.block] = 1 /\ h.block[1] * Unit >= h.want
    BY DEF MemInv, HeldInv, References
<1> QED
    BY <1>1, <1>2, <1>3 DEF BlocksAddUp, MemInv

\* Every block malloced is in one place, on its free list, with one thread or on its way
\* back, what a thread holds has its one reference and the bytes asked for, and no block
\* is ever dropped as a leak (CFrameMemMgt::AllocBlock, RecycleBlock).
THEOREM BlocksAlwaysAddUp == MemSpec => []BlocksAddUp
<1> QED
    BY MemInitInv, MemNextInv, MemInvAddsUp, PTL DEF MemSpec
=============================================================================
