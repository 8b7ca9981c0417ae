------------------------------- MODULE MemMgt -------------------------------
(***************************************************************************)
(* CFrameMemMgt (src/frame_mem_mgt.cpp): every packet, session and timer   *)
(* block comes from a table of free lists, one for each number of KB, each *)
(* under a lock of its own; a head in front of the block counts its        *)
(* references.  Threads allocate with MALLOC, pass blocks to each other    *)
(* through the queues and free them with FREE; both also count the call in *)
(* a record of its source line.                                            *)
(***************************************************************************)
EXTENDS Integers, Sequences, FiniteSets, SequencesExt, FiniteSetsExt

CONSTANTS
    MemThreads,     \* the threads of the server
    Sites,          \* lines with a MALLOC or a FREE
    Unit,           \* bytes in a KB, 1024 in the code
    MaxIndex,       \* the largest block, 10 * 1024 units
    Wants,          \* bytes asked for
    AllocStep,      \* ALLOC_MEM_STEP
    MaxBlocks,      \* bound: blocks malloced of one size
    MaxCalls        \* bound: MALLOCs of one line

ASSUME MemAssumption ==
    /\ Unit \in Nat \ {0} /\ MaxIndex \in Nat
    /\ Wants \subseteq Nat
    /\ AllocStep \in Nat \ {0}

VARIABLES
    blocks,     \* m_stMemInfoTable: index -> the list of free blocks and how many were malloced
    refer,      \* m_nReferCount of each block
    leaks,      \* m_nMemLeakCount
    allocs, recycles,   \* the records of MALLOC and FREE
    doing,      \* what each thread is in the middle of
    held        \* the blocks of each thread, with the bytes it asked for
memVars == <<blocks, refer, leaks, allocs, recycles, doing, held>>

Indexes == 1 .. MaxIndex
Idle == [op |-> "idle"]

\* GetTableIndexByBytes: whole units, one more for a rest.
GetTableIndexByBytes(bytes) == bytes \div Unit + (IF bytes % Unit > 0 THEN 1 ELSE 0)

\* Initialize enters every size in the table and mallocs no block.
Initialize == [i \in Indexes |-> [free |-> << >>, count |-> 0]]

MemInit == /\ blocks = Initialize /\ refer = << >> /\ leaks = 0
           /\ allocs = [s \in Sites |-> 0] /\ recycles = [s \in Sites |-> 0]
           /\ doing = [t \in MemThreads |-> Idle] /\ held = [t \in MemThreads |-> {}]

\* MallocMemBlock: new blocks join the list at its end.
MallocMemBlock(i) ==
    LET n == blocks[i].count
        new == [k \in 1 .. AllocStep |-> <<i, n + k>>]
    IN  [free |-> blocks[i].free \o new, count |-> n + AllocStep]
-----------------------------------------------------------------------------
\* MALLOC: RecordAllocInfo, under its lock, before AllocBlock.
RecordAllocInfo(t, site, want) ==
    /\ doing[t] = Idle /\ allocs[site] < MaxCalls
    /\ allocs' = [allocs EXCEPT ![site] = @ + 1]
    /\ doing' = [doing EXCEPT ![t] = [op |-> "alloc", want |-> want]]
    /\ UNCHANGED <<blocks, refer, leaks, recycles, held>>

\* AllocBlock of a size the table has not: NULL.
AllocNothing(t) ==
    /\ doing[t].op = "alloc" /\ GetTableIndexByBytes(doing[t].want) \notin Indexes
    /\ doing' = [doing EXCEPT ![t] = Idle]
    /\ UNCHANGED <<blocks, refer, leaks, allocs, recycles, held>>

\* The head of a new block counts no reference.
References(b) == IF b \in DOMAIN refer THEN refer[b] ELSE 0

\* The list an allocation finds: an empty one is filled.
Found(i) == IF blocks[i].free = << >> THEN MallocMemBlock(i) ELSE blocks[i]

\* Where the first block of a list is that has no reference, or behind the end.
FirstUsable(list) ==
    LET usable == {k \in DOMAIN list : References(list[k]) = 0}
    IN  IF usable = {} THEN Len(list) + 1 ELSE Min(usable)

\* The blocks in front of the first usable one are dropped and counted as leaks; it gets
\* its reference and is the thread's.
TakeFirst(t, i, list, first) ==
    /\ blocks' = [blocks EXCEPT ![i].free = SubSeq(list, first + 1, Len(list)), ![i].count = Found(i).count]
    /\ leaks' = leaks + first - 1
    /\ IF first > Len(list) THEN UNCHANGED <<refer, held>>
       ELSE /\ refer' = [b \in DOMAIN refer \cup Range(list) |-> IF b = list[first] THEN 1 ELSE References(b)]
            /\ held' = [held EXCEPT ![t] = @ \cup {[block |-> list[first], want |-> doing[t].want]}]

\* AllocBlock, under the lock of the list.
AllocBlock(t) ==
    /\ doing[t].op = "alloc"
    /\ LET i == GetTableIndexByBytes(doing[t].want)
       IN  /\ i \in Indexes
           /\ blocks[i].free = << >> => blocks[i].count + AllocStep <= MaxBlocks
           /\ TakeFirst(t, i, Found(i).free, FirstUsable(Found(i).free))
    /\ doing' = [doing EXCEPT ![t] = Idle]
    /\ UNCHANGED <<allocs, recycles>>

\* FREE: RecordRecycleInfo first.
RecordRecycleInfo(t, site) ==
    /\ doing[t] = Idle
    /\ \E h \in held[t] : /\ doing' = [doing EXCEPT ![t] = [op |-> "recycle", block |-> h.block]]
                          /\ held' = [held EXCEPT ![t] = @ \ {h}]
    /\ recycles' = [recycles EXCEPT ![site] = @ + 1]
    /\ UNCHANGED <<blocks, refer, leaks, allocs>>

\* (mutant) the reference stays
DropReference_Keeps(t) ==
    /\ doing[t].op = "recycle"
    /\ doing' = [doing EXCEPT ![t].op = "push"]
    /\ UNCHANGED <<blocks, refer, leaks, allocs, recycles, held>>

\* RecycleBlock: the reference goes before the lock is taken.
DropReference(t) ==
    /\ doing[t].op = "recycle"
    /\ LET b == doing[t].block
       IN  IF refer[b] > 0
           THEN /\ refer' = [refer EXCEPT ![b] = @ - 1]
                /\ doing' = [doing EXCEPT ![t] = [op |-> "push", block |-> b]] /\ UNCHANGED leaks
           ELSE leaks' = leaks + 1 /\ doing' = [doing EXCEPT ![t] = Idle] /\ UNCHANGED refer
    /\ UNCHANGED <<blocks, allocs, recycles, held>>

\* And the block to the front of its list, under the lock.
PushBlock(t) ==
    /\ doing[t].op = "push"
    /\ blocks' = [blocks EXCEPT ![doing[t].block[1]].free = <<doing[t].block>> \o @]
    /\ doing' = [doing EXCEPT ![t] = Idle]
    /\ UNCHANGED <<refer, leaks, allocs, recycles, held>>

\* A block goes to another thread, in one of the queues between them.
PassBlock(t, u) ==
    /\ doing[t] = Idle /\ t # u
    /\ \E h \in held[t] : held' = [held EXCEPT ![t] = @ \ {h}, ![u] = @ \cup {h}]
    /\ UNCHANGED <<blocks, refer, leaks, allocs, recycles, doing>>

MemNext == \E t \in MemThreads :
    \/ \E site \in Sites, want \in Wants : RecordAllocInfo(t, site, want)
    \/ AllocNothing(t) \/ AllocBlock(t)
    \/ \E site \in Sites : RecordRecycleInfo(t, site)
    \/ DropReference(t) \/ PushBlock(t)
    \/ \E u \in MemThreads : PassBlock(t, u)

MemSpec == MemInit /\ [][MemNext]_memVars
-----------------------------------------------------------------------------
\* A block is in one place: on its list without a reference, with one thread that has
\* the one reference and enough bytes, or on its way back.  None is dropped as a leak.
BlocksAddUp ==
    LET on(i) == blocks[i].free
        all == UNION {{<<i, n>> : n \in 1 .. blocks[i].count} : i \in Indexes}
        places(b) == Cardinality({k \in DOMAIN on(b[1]) : on(b[1])[k] = b})
                     + Cardinality({t \in MemThreads : \E h \in held[t] : h.block = b})
                     + Cardinality({t \in MemThreads : doing[t].op \in {"recycle", "push"} /\ doing[t].block = b})
    IN  /\ leaks = 0
        /\ \A b \in all : places(b) = 1
        /\ \A t \in MemThreads : \A h \in held[t] : refer[h.block] = 1 /\ h.block[1] * Unit >= h.want
=============================================================================
