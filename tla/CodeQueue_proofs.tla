-------------------------- MODULE CodeQueue_proofs --------------------------
(***************************************************************************)
(* For every capacity, reserve and set of record lengths and any number of *)
(* threads that push, with or without a lock: the copies of Push and Pop   *)
(* stay inside the ring.  The argument is arithmetic on the indices a      *)
(* thread has loaded: they need not be the current ones, nor belong to the *)
(* same moment.  With the pushes under their lock the ring is a FIFO of    *)
(* records: what is delivered is what was accepted, byte for byte and in   *)
(* order, though producer and consumer share no lock.                      *)
(***************************************************************************)
EXTENDS CodeQueue, SequenceTheorems, TLAPS

-----------------------------------------------------------------------------
(* The remainder by the capacity, where the index arithmetic uses it.      *)

LEMMA ModLow ==
    ASSUME NEW n \in Nat \ {0}, NEW x \in 0 .. n - 1
    PROVE  x % n = x
OBVIOUS

LEMMA ModHigh ==
    ASSUME NEW n \in Nat \ {0}, NEW x \in n .. 2 * n - 1
    PROVE  x % n = x - n
OBVIOUS

LEMMA ModRange ==
    ASSUME NEW n \in Nat \ {0}, NEW x \in Nat
    PROVE  x % n \in 0 .. n - 1
OBVIOUS

LEMMA CapacityPositive == CAPACITY \in Nat \ {0}
BY RingAssumption

\* UsedSize is the distance from the head forward to the tail.
LEMMA UsedSizeIs ==
    ASSUME NEW h \in Cells, NEW t \in Cells
    PROVE  UsedSize(h, t) = IF h <= t THEN t - h ELSE t + CAPACITY - h
<1>1. CASE h <= t
    <2>1. t + CAPACITY - h \in CAPACITY .. 2 * CAPACITY - 1
        BY <1>1, CapacityPositive DEF Cells
    <2> QED
        BY <1>1, <2>1, ModHigh, CapacityPositive DEF UsedSize, Cells
<1>2. CASE ~ (h <= t)
    <2>1. t + CAPACITY - h \in 0 .. CAPACITY - 1
        BY <1>2, CapacityPositive DEF Cells
    <2> QED
        BY <1>2, <2>1, ModLow, CapacityPositive DEF UsedSize, Cells
<1> QED
    BY <1>1, <1>2

\* What GetFreeInfo reports leaves the bytes in use and the reserve alone.
LEMMA FreeSizeFits ==
    ASSUME NEW h \in Cells, NEW t \in Cells,
           NEW size \in Nat \ {0}, size <= FreeSize(h, t)
    PROVE  UsedSize(h, t) + size + Reserved <= CAPACITY
<1>1. CASE h = t
    BY <1>1, UsedSizeIs, CapacityPositive, RingAssumption DEF FreeSize, Cells
<1>2. CASE h > t
    <2>1. h + CAPACITY - t \in CAPACITY .. 2 * CAPACITY - 1
        BY <1>2, CapacityPositive DEF Cells
    <2>2. (h + CAPACITY - t) % CAPACITY = (h + CAPACITY - t) - CAPACITY
        BY <2>1, ModHigh, CapacityPositive
    <2> QED
        BY <1>2, <2>2, UsedSizeIs, CapacityPositive, RingAssumption DEF FreeSize, Cells
<1>3. CASE h < t
    <2>1. h + CAPACITY - t \in 0 .. CAPACITY - 1
        BY <1>3, CapacityPositive DEF Cells
    <2>2. (h + CAPACITY - t) % CAPACITY = h + CAPACITY - t
        BY <2>1, ModLow, CapacityPositive DEF Cells
    <2> QED
        BY <1>3, <2>2, UsedSizeIs, CapacityPositive, RingAssumption DEF FreeSize, Cells
<1> QED
    BY <1>1, <1>2, <1>3 DEF Cells

\* A copy of n bytes behind a length at `from` stays in the ring if it ends
\* before it is back at `limit`.
LEMMA CopyCellInside ==
    ASSUME NEW from \in Cells, NEW limit \in Cells, NEW k \in Nat, k < CAPACITY,
           limit > from => from + k < CAPACITY
    PROVE  CopyCell(from, limit, k) \in Cells
BY ModRange, CapacityPositive DEF CopyCell, Cells

\* After LenSize bytes at t, the next byte is at t + LenSize or wraps.
LEMMA AfterLength ==
    ASSUME NEW t \in Cells, LenSize <= CAPACITY
    PROVE  /\ (t + LenSize) % CAPACITY \in Cells
           /\ t + LenSize < CAPACITY => (t + LenSize) % CAPACITY = t + LenSize
           /\ t + LenSize >= CAPACITY => (t + LenSize) % CAPACITY = t + LenSize - CAPACITY
<1>1. t \in Nat /\ LenSize \in Nat /\ t < CAPACITY
    BY RingAssumption DEF Cells
<1>2. (t + LenSize) % CAPACITY \in Cells
    BY <1>1, ModRange, CapacityPositive DEF Cells
<1>3. CASE t + LenSize < CAPACITY
    BY <1>1, <1>2, <1>3, ModLow, CapacityPositive
<1>4. CASE t + LenSize >= CAPACITY
    <2>1. t + LenSize \in CAPACITY .. 2 * CAPACITY - 1
        BY <1>1, <1>4, CapacityPositive
    <2> QED
        BY <1>1, <1>2, <1>4, <2>1, ModHigh, CapacityPositive
<1> QED
    BY <1>1, <1>2, <1>3, <1>4, CapacityPositive

LEMMA PushCopyInside ==
    ASSUME NEW h \in Cells, NEW t \in Cells, NEW len \in Nat \ {0},
           UsedSize(h, t) + LenSize + len + Reserved <= CAPACITY,
           NEW k \in Nat, k < len
    PROVE  CopyCell((t + LenSize) % CAPACITY, h, k) \in Cells
<1> DEFINE from == (t + LenSize) % CAPACITY
<1>1. /\ h \in Nat /\ t \in Nat /\ h < CAPACITY /\ t < CAPACITY
      /\ LenSize \in Nat \ {0} /\ Reserved \in Nat \ {0} /\ CAPACITY \in Nat \ {0}
    BY RingAssumption, CapacityPositive DEF Cells
<1>2. UsedSize(h, t) = IF h <= t THEN t - h ELSE t + CAPACITY - h
    BY UsedSizeIs
<1>3. LenSize <= CAPACITY
    BY <1>1, <1>2
<1>4. from \in Cells /\ (from = t + LenSize \/ from = t + LenSize - CAPACITY)
    BY <1>1, <1>3, AfterLength
<1>5. h > from => from + k < CAPACITY
    BY <1>1, <1>2, <1>4
<1>6. k < CAPACITY
    BY <1>1, <1>2
<1> HIDE DEF from
<1>7. CopyCell(from, h, k) \in Cells
    BY <1>4, <1>5, <1>6, CopyCellInside
<1> QED
    BY <1>7 DEF from

LEMMA PopCopyInside ==
    ASSUME NEW h \in Cells, NEW t \in Cells, NEW n \in Nat,
           n + LenSize <= UsedSize(h, t),
           NEW k \in Nat, k < n
    PROVE  CopyCell((h + LenSize) % CAPACITY, t, k) \in Cells
<1> DEFINE from == (h + LenSize) % CAPACITY
<1>1. /\ h \in Nat /\ t \in Nat /\ h < CAPACITY /\ t < CAPACITY
      /\ LenSize \in Nat \ {0} /\ CAPACITY \in Nat \ {0}
    BY RingAssumption, CapacityPositive DEF Cells
<1>2. UsedSize(h, t) = IF h <= t THEN t - h ELSE t + CAPACITY - h
    BY UsedSizeIs
<1>3. LenSize <= CAPACITY
    BY <1>1, <1>2
<1>4. from \in Cells /\ (from = h + LenSize \/ from = h + LenSize - CAPACITY)
    BY <1>1, <1>3, AfterLength
<1>5. t > from => from + k < CAPACITY
    BY <1>1, <1>2, <1>4
<1>6. k < CAPACITY
    BY <1>1, <1>2
<1> HIDE DEF from
<1>7. CopyCell(from, t, k) \in Cells
    BY <1>4, <1>5, <1>6, CopyCellInside
<1> QED
    BY <1>7 DEF from
-----------------------------------------------------------------------------
(* The inductive invariant.  A thread in a copy holds indices that once     *)
(* left room for it, whatever the other threads have done to the ring since.*)

PushRoom(l) ==
    /\ l.pc # "idle" => l.rec \in Records
    /\ l.pc # "copy" => l.k = 0
    /\ l.pc = "copy" =>
          /\ l.k <= ImageSize(l.rec)
          /\ UsedSize(l.nHead, l.nTail) + ImageSize(l.rec) + Reserved <= CAPACITY

PopRoom(l) ==
    /\ l.pc \in {"length", "copy"} => LenSize <= UsedSize(l.nHead, l.nTail)
    /\ l.pc = "copy" => /\ l.n + LenSize <= UsedSize(l.nHead, l.nTail)
                        /\ Len(l.got) <= l.n
    /\ l.pc # "copy" => Len(l.got) = 0

IInv ==
    /\ TypeOK
    /\ \A p \in Producers : PushRoom(push[p])
    /\ PopRoom(pop)

LEMMA UsedSizeType ==
    ASSUME NEW h \in Cells, NEW t \in Cells
    PROVE  UsedSize(h, t) \in Nat /\ UsedSize(h, t) < CAPACITY
BY UsedSizeIs, CapacityPositive DEF Cells

LEMMA ImageSizeType ==
    ASSUME NEW r \in Records
    PROVE  /\ r.len \in Nat \ {0}
           /\ ImageSize(r) \in Nat \ {0}
           /\ ImageSize(r) = LenSize + r.len
<1>1. r.len \in Lengths
    BY DEF Records
<1>2. r.len \in Nat \ {0} /\ LenSize \in Nat \ {0}
    BY <1>1, RingAssumption
<1> QED
    BY <1>2 DEF ImageSize

LEMMA PayloadType ==
    ASSUME NEW r \in Records
    PROVE  /\ Payload(r) \in Seq(Bytes) /\ Len(Payload(r)) = r.len
           /\ \A k \in 1 .. r.len : Payload(r)[k] = <<r, LenSize + k - 1>>
<1>1. r.len \in Nat /\ LenSize \in Nat
    BY ImageSizeType, RingAssumption
<1>2. \A k \in 1 .. r.len : LenSize + k - 1 \in Nat
    BY <1>1
<1>3. \A k \in 1 .. r.len : <<r, LenSize + k - 1>> \in Bytes
    BY <1>2 DEF Bytes
<1>4. Payload(r) \in Seq(Bytes)
    BY <1>1, <1>3 DEF Payload
<1> QED
    BY <1>1, <1>4 DEF Payload

LEMMA IdleTypes ==
    /\ 0 \in Cells
    /\ IdlePush \in PushLocals /\ IdlePush.pc = "idle" /\ IdlePush.k = 0
    /\ IdlePop \in PopLocals /\ IdlePop.pc = "idle" /\ Len(IdlePop.got) = 0
<1>1. 0 \in Cells
    BY CapacityPositive DEF Cells
<1>2. IdlePush \in PushLocals /\ IdlePush.pc = "idle" /\ IdlePush.k = 0
    BY <1>1 DEF IdlePush, PushLocals, PushPcs
<1>3. << >> \in Seq(Bytes) /\ 0 \in 0 .. CAPACITY
    BY CapacityPositive
<1>4. IdlePop \in PopLocals /\ IdlePop.pc = "idle" /\ Len(IdlePop.got) = 0
    BY <1>1, <1>3 DEF IdlePop, PopLocals, PopPcs
<1> QED
    BY <1>1, <1>2, <1>4

\* A length read from the ring is a number, whatever bytes it is made of.
LEMMA LengthRead ==
    ASSUME TypeOK, NEW n \in LengthsAt(pop.nHead)
    PROVE  n \in Nat
<1> DEFINE first == m_arrCodeBuffer[(pop.nHead + 0) % CAPACITY]
<1>1. pop.nHead \in Cells /\ m_arrCodeBuffer \in [Cells -> Bytes]
    BY DEF TypeOK, PopLocals
<1>2. (pop.nHead + 0) % CAPACITY \in Cells
    <2>1. pop.nHead + 0 \in Nat
        BY <1>1 DEF Cells
    <2>2. (pop.nHead + 0) % CAPACITY \in 0 .. CAPACITY - 1
        BY <2>1, ModRange, CapacityPositive
    <2> QED
        BY <2>2 DEF Cells
<1>3. first \in Bytes
    BY <1>1, <1>2
<1>4. CASE first # Zero /\ \A k \in 0 .. LenSize - 1 :
              m_arrCodeBuffer[(pop.nHead + k) % CAPACITY] = <<first[1], k>>
    <2>1. n = first[1].len
        BY <1>4 DEF LengthsAt
    <2>2. first \in Records \X Nat
        BY <1>3, <1>4 DEF Bytes
    <2>3. first[1] \in Records
        BY <2>2
    <2> QED
        BY <2>1, <2>3, ImageSizeType
<1>5. CASE ~ (first # Zero /\ \A k \in 0 .. LenSize - 1 :
                  m_arrCodeBuffer[(pop.nHead + k) % CAPACITY] = <<first[1], k>>)
    <2>1. n \in 0 .. CAPACITY
        BY <1>5 DEF LengthsAt
    <2> QED
        BY <2>1, CapacityPositive
<1> HIDE DEF first
<1> QED
    BY <1>4, <1>5, Zenon

LEMMA InitIInv == Init => IInv
<1> SUFFICES ASSUME Init PROVE IInv
    OBVIOUS
<1>1. TypeOK
    <2>1. lock \in Producers \cup {Nobody, NoLock}
        BY ProducersAssumption DEF Init
    <2> QED
        BY <2>1, IdleTypes DEF TypeOK, Init, Bytes
<1>2. \A p \in Producers : PushRoom(push[p])
    BY IdleTypes DEF Init, PushRoom
<1>3. PopRoom(pop)
    BY IdleTypes DEF Init, PopRoom
<1> QED
    BY <1>1, <1>2, <1>3 DEF IInv

\* A step of a producer leaves the log thread's locals alone, and the locals
\* of the other producers.
LEMMA PushKeepsIInv ==
    ASSUME IInv, NEW p \in Producers, BeginPush(p) \/ PushStep(p)
    PROVE  IInv'
<1> USE DEF TypeOK
<1>1. TypeOK /\ PushRoom(push[p]) /\ PopRoom(pop) /\ push[p] \in PushLocals
    BY DEF IInv
<1>2. ASSUME NEW l, push' = [push EXCEPT ![p] = l], PushRoom(l)
      PROVE  \A q \in Producers : PushRoom(push'[q])
    BY <1>1, <1>2 DEF IInv
<1>3. CASE BeginPush(p)
    <2>1. PICK len \in Lengths :
              push' = [push EXCEPT ![p].pc = "head",
                                   ![p].rec = [by |-> p, no |-> Len(sent) + 1, len |-> len]]
        <3>1. (IF lock = NoLock THEN UserLengths ELSE Lengths) \subseteq Lengths
            BY RingAssumption
        <3> QED
            BY <1>3, <3>1 DEF BeginPush
    <2> DEFINE rec == [by |-> p, no |-> Len(sent) + 1, len |-> len]
               l == [push[p] EXCEPT !.pc = "head", !.rec = rec]
    <2>2. Len(sent) + 1 \in Nat
        BY <1>1
    <2>3. rec \in Records
        BY <2>2 DEF Records
    <2>4. push' = [push EXCEPT ![p] = l]
        BY <2>1, <1>1
    <2>5. l \in PushLocals /\ PushRoom(l)
        BY <1>1, <1>3, <2>3 DEF BeginPush, PushLocals, PushPcs, PushRoom
    <2> HIDE DEF l
    <2> QED
        BY <1>1, <1>2, <1>3, <2>4, <2>5 DEF BeginPush, IInv, ringVars
<1>4. CASE LoadHead(p)
    <2> DEFINE l == [push[p] EXCEPT !.pc = "tail", !.nHead = m_nHead]
    <2>1. push' = [push EXCEPT ![p] = l]
        BY <1>1, <1>4 DEF LoadHead
    <2>2. l \in PushLocals /\ PushRoom(l)
        BY <1>1, <1>4 DEF LoadHead, PushLocals, PushPcs, PushRoom
    <2> HIDE DEF l
    <2> QED
        BY <1>1, <1>2, <1>4, <2>1, <2>2 DEF LoadHead, IInv, ringVars
<1>5. ASSUME ReturnPush(p), UNCHANGED pop
      PROVE  /\ push' \in [Producers -> PushLocals] /\ lock' \in Producers \cup {Nobody, NoLock}
             /\ \A q \in Producers : PushRoom(push'[q])
    <2>1. PushRoom(IdlePush)
        BY IdleTypes DEF PushRoom
    <2>2. push' = [push EXCEPT ![p] = IdlePush]
        BY <1>5 DEF ReturnPush
    <2> QED
        BY <1>1, <1>2, <1>5, <2>1, <2>2, IdleTypes DEF ReturnPush
<1>6. CASE FullPush(p)
    BY <1>1, <1>5, <1>6 DEF FullPush, IInv, ringVars
<1>7. CASE LoadTail(p)
    <2> DEFINE rec == push[p].rec
               l == [push[p] EXCEPT !.pc = "copy", !.nTail = m_nTail]
    <2>1. CASE ImageSize(rec) > FreeSize(push[p].nHead, m_nTail)
        BY <1>1, <1>5, <1>7, <2>1 DEF LoadTail, IInv, ringVars
    <2>2. CASE ~ (ImageSize(rec) > FreeSize(push[p].nHead, m_nTail))
        <3>1. push' = [push EXCEPT ![p] = l]
            BY <1>1, <1>7, <2>2 DEF LoadTail
        <3>2. rec \in Records /\ push[p].nHead \in Cells /\ m_nTail \in Cells
            BY <1>1, <1>7 DEF LoadTail, PushRoom, PushLocals
        <3>3. ImageSize(rec) \in Nat \ {0}
            BY <3>2, ImageSizeType
        <3>4. FreeSize(push[p].nHead, m_nTail) \in Nat
            <4> DEFINE x == push[p].nHead + CAPACITY - m_nTail
            <4>1. x \in Nat
                BY <3>2, CapacityPositive DEF Cells
            <4> HIDE DEF x
            <4>2. x % CAPACITY \in 0 .. CAPACITY - 1
                BY <4>1, ModRange, CapacityPositive
            <4>3. x % CAPACITY \in Nat
                BY <4>2, CapacityPositive
            <4> QED
                BY <4>3, RingAssumption, CapacityPositive DEF FreeSize, x
        <3>5. UsedSize(push[p].nHead, m_nTail) + ImageSize(rec) + Reserved <= CAPACITY
            BY <2>2, <3>2, <3>3, <3>4, FreeSizeFits
        <3>6. PushRoom(l)
            BY <1>1, <1>7, <3>2, <3>3, <3>5 DEF LoadTail, PushRoom, PushLocals, PushPcs
        <3>7. l \in PushLocals
            BY <1>1, <3>2 DEF PushLocals, PushPcs
        <3> HIDE DEF l
        <3> QED
            BY <1>1, <1>2, <1>7, <2>2, <3>1, <3>6, <3>7 DEF LoadTail, IInv, ringVars
    <2> QED
        BY <2>1, <2>2
<1>8. CASE CopyIn(p)
    <2> DEFINE rec == push[p].rec
               l == [push[p] EXCEPT !.k = push[p].k + 1]
    <2>1. push' = [push EXCEPT ![p] = l]
        BY <1>1, <1>8 DEF CopyIn
    <2>2. rec \in Records /\ push[p].k \in Nat
        BY <1>1, <1>8 DEF CopyIn, PushRoom, PushLocals
    <2>3. l \in PushLocals /\ PushRoom(l)
        <3>1. l.pc = "copy" /\ l.k = push[p].k + 1 /\ l.rec = rec
              /\ l.nHead = push[p].nHead /\ l.nTail = push[p].nTail
            BY <1>1, <1>8 DEF CopyIn, PushLocals
        <3>2. l.k \in Nat /\ l \in PushLocals
            <4> DEFINE k == push[p].k + 1
            <4>1. l = [push[p] EXCEPT !.k = k]
                OBVIOUS
            <4>2. k \in Nat
                BY <2>2
            <4>3. push[p] \in PushLocals
                BY <1>1
            <4> HIDE DEF k, l
            <4> QED
                BY <4>1, <4>2, <4>3 DEF PushLocals
        <3>3. l.k <= ImageSize(rec)
            BY <1>8, <2>2, <3>1, ImageSizeType DEF CopyIn
        <3> HIDE DEF l
        <3> QED
            BY <1>1, <1>8, <2>2, <3>1, <3>2, <3>3 DEF CopyIn, PushRoom
    <2>4. <<rec, push[p].k>> \in Bytes
        BY <2>2 DEF Bytes
    <2>5. m_arrCodeBuffer' \in [Cells -> Bytes]
        BY <1>1, <1>8, <2>4 DEF CopyIn
    <2> HIDE DEF l
    <2> QED
        BY <1>1, <1>2, <1>8, <2>1, <2>3, <2>5 DEF CopyIn, IInv
<1>9. CASE SetTail(p)
    <2>1. push[p].rec \in Records /\ push[p].nTail \in Cells
        BY <1>1, <1>9 DEF SetTail, PushRoom, PushLocals
    <2>2. push[p].nTail + ImageSize(push[p].rec) \in Nat
        BY <2>1, ImageSizeType DEF Cells
    <2>3. m_nTail' \in Cells
        BY <1>9, <2>2, ModRange, CapacityPositive DEF SetTail, Cells
    <2>4. sent' \in Seq(Records)
        BY <1>1, <1>9, <2>1 DEF SetTail
    <2>5. due' \in Seq(Seq(Bytes))
        <3>1. Payload(push[p].rec) \in Seq(Bytes)
            BY <2>1, PayloadType
        <3> HIDE DEF TypeOK
        <3>2. due \in Seq(Seq(Bytes))
            BY <1>1 DEF TypeOK
        <3> QED
            BY <1>9, <3>1, <3>2 DEF SetTail
    <2>6. received' \in Seq(Seq(Bytes)) /\ pop' \in PopLocals /\ PopRoom(pop')
          /\ m_nHead' \in Cells /\ m_arrCodeBuffer' \in [Cells -> Bytes] /\ UNCHANGED pop
        BY <1>1, <1>9 DEF SetTail
    <2>7. ReturnPush(p)
        BY <1>9 DEF SetTail
    <2> QED
        BY <1>5, <2>3, <2>4, <2>5, <2>6, <2>7 DEF IInv
<1> QED
    BY <1>3, <1>4, <1>6, <1>7, <1>8, <1>9 DEF PushStep

\* A step of the log thread leaves the producers' locals alone.
LEMMA PopKeepsIInv ==
    ASSUME IInv, EmptyPop \/ PopStep
    PROVE  IInv'
<1> USE DEF TypeOK
<1>1. TypeOK /\ PopRoom(pop) /\ pop \in PopLocals /\ pop.nHead \in Cells /\ pop.nTail \in Cells
    BY DEF IInv, PopLocals
<1>2. ASSUME UNCHANGED <<push, m_arrCodeBuffer, lock, sent, due>>,
             m_nHead' \in Cells, m_nTail' \in Cells, received' \in Seq(Seq(Bytes)),
             pop' \in PopLocals, PopRoom(pop')
      PROVE  IInv'
    BY <1>1, <1>2 DEF IInv
<1>3. PopRoom(IdlePop)
    BY IdleTypes DEF PopRoom
<1>4. UsedSize(pop.nHead, pop.nTail) \in Nat /\ UsedSize(pop.nHead, pop.nTail) < CAPACITY
    BY <1>1, UsedSizeType
<1>5. CASE EmptyPop
    BY <1>5 DEF EmptyPop, vars, ringVars, IInv, TypeOK, PushRoom, PopRoom
<1>6. CASE BeginPop
    <2> DEFINE l == [pop EXCEPT !.pc = "load"]
    <2>1. pop' = l
        BY <1>6 DEF BeginPop
    <2>2. l \in PopLocals /\ l.pc = "load" /\ l.got = pop.got
        BY <1>1 DEF PopLocals, PopPcs
    <2>3. PopRoom(l)
        BY <1>1, <1>6, <2>2 DEF BeginPop, PopRoom
    <2> HIDE DEF l
    <2> QED
        BY <1>1, <1>2, <1>6, <2>1, <2>2, <2>3 DEF BeginPop, ringVars
<1>7. CASE LoadUsed
    <2> DEFINE l == [pop EXCEPT !.nHead = m_nHead, !.nTail = m_nTail,
                        !.pc = IF UsedSize(m_nHead, m_nTail) < LenSize THEN "reset" ELSE "length"]
    <2>1. pop' = l
        BY <1>7 DEF LoadUsed
    <2>2. UsedSize(m_nHead, m_nTail) \in Nat /\ LenSize \in Nat
        BY <1>1, UsedSizeType, RingAssumption
    <2>3. /\ l.nHead = m_nHead /\ l.nTail = m_nTail /\ l.got = pop.got
          /\ l.pc = IF UsedSize(m_nHead, m_nTail) < LenSize THEN "reset" ELSE "length"
        BY <1>1 DEF PopLocals
    <2>4. l \in PopLocals
        BY <1>1 DEF PopLocals, PopPcs
    <2>5. l.pc = "length" => LenSize <= UsedSize(l.nHead, l.nTail)
        BY <2>2, <2>3
    <2>6. Len(l.got) = 0
        BY <1>1, <1>7, <2>3 DEF LoadUsed, PopRoom
    <2>7. PopRoom(l)
        BY <2>3, <2>5, <2>6 DEF PopRoom
    <2> HIDE DEF l
    <2> QED
        BY <1>1, <1>2, <1>7, <2>1, <2>4, <2>7 DEF LoadUsed, ringVars
<1>8. CASE ReadLength
    <2> DEFINE used == UsedSize(pop.nHead, pop.nTail)
    <2>1. PICK n \in LengthsAt(pop.nHead) :
              \/ /\ n = 0 \/ n > used - LenSize
                 /\ pop' = [pop EXCEPT !.pc = "reset"]
                 /\ UNCHANGED m_nHead
              \/ /\ n # 0 /\ n <= used - LenSize
                 /\ IF n > OutSize
                    THEN /\ m_nHead' = (pop.nHead + LenSize + n) % CAPACITY
                         /\ pop' = IdlePop
                    ELSE /\ pop' = [pop EXCEPT !.pc = "copy", !.n = n]
                         /\ UNCHANGED m_nHead
        BY <1>8 DEF ReadLength
    <2>2. n \in Nat /\ LenSize \in Nat /\ pop.nHead \in Nat
        BY <1>1, LengthRead, RingAssumption DEF Cells
    <2>3. CASE pop' = [pop EXCEPT !.pc = "reset"] /\ UNCHANGED m_nHead
        <3>1. pop' \in PopLocals /\ PopRoom(pop')
            BY <1>1, <1>8, <2>3 DEF ReadLength, PopLocals, PopPcs, PopRoom
        <3> QED
            BY <1>1, <1>2, <1>8, <2>3, <3>1 DEF ReadLength
    <2>4. CASE m_nHead' = (pop.nHead + LenSize + n) % CAPACITY /\ pop' = IdlePop
        <3>1. pop.nHead + LenSize + n \in Nat
            BY <2>2
        <3>2. m_nHead' \in Cells
            BY <2>4, <3>1, ModRange, CapacityPositive DEF Cells
        <3>3. PopRoom(pop') /\ pop' \in PopLocals
            BY <1>3, <2>4, IdleTypes
        <3> QED
            BY <1>1, <1>2, <1>8, <3>2, <3>3 DEF ReadLength
    <2>5. CASE n # 0 /\ n <= used - LenSize /\ pop' = [pop EXCEPT !.pc = "copy", !.n = n]
               /\ UNCHANGED m_nHead
        <3>1. n \in 0 .. CAPACITY /\ n + LenSize <= used /\ LenSize <= used
            BY <1>4, <2>2, <2>5, CapacityPositive
        <3>2. Len(pop.got) <= n
            BY <1>1, <1>8, <2>2 DEF ReadLength, PopRoom
        <3>3. pop' \in PopLocals /\ PopRoom(pop')
            BY <1>1, <2>5, <3>1, <3>2 DEF PopLocals, PopPcs, PopRoom
        <3> QED
            BY <1>1, <1>2, <1>8, <2>5, <3>3 DEF ReadLength
    <2> QED
        BY <2>1, <2>3, <2>4, <2>5
<1>9. CASE CopyOut
    <2> DEFINE b == m_arrCodeBuffer[PopCell(pop)]
               l == [pop EXCEPT !.got = Append(@, b)]
    <2>1. pop' = l
        BY <1>9 DEF CopyOut
    <2>2. pop.got \in Seq(Bytes) /\ pop.n \in Nat /\ Len(pop.got) < pop.n
        BY <1>1, <1>9, CapacityPositive DEF CopyOut, PopLocals
    <2>3. PopCell(pop) \in Cells
        <3>1. Len(pop.got) \in Nat
            BY <2>2
        <3>2. pop.n + LenSize <= UsedSize(pop.nHead, pop.nTail)
            BY <1>1, <1>9 DEF CopyOut, PopRoom
        <3> QED
            BY <1>1, <2>2, <3>1, <3>2, PopCopyInside DEF PopCell
    <2>4. b \in Bytes
        BY <1>1, <2>3
    <2> HIDE DEF b
    <2>5. Append(pop.got, b) \in Seq(Bytes) /\ Len(Append(pop.got, b)) = Len(pop.got) + 1
        BY <2>2, <2>4
    <2>6. l \in PopLocals
        <3> DEFINE got == Append(pop.got, b)
        <3>1. l = [pop EXCEPT !.got = got]
            OBVIOUS
        <3>2. got \in Seq(Bytes)
            BY <2>5
        <3> HIDE DEF got, l
        <3> QED
            BY <1>1, <3>1, <3>2 DEF PopLocals
    <2>7. l.pc = "copy" /\ l.n = pop.n /\ l.nHead = pop.nHead /\ l.nTail = pop.nTail
          /\ Len(l.got) = Len(pop.got) + 1
        BY <1>1, <1>9, <2>5 DEF CopyOut, PopLocals
    <2> HIDE DEF l
    <2>8. PopRoom(l)
        BY <1>1, <1>9, <2>2, <2>7 DEF CopyOut, PopRoom
    <2> QED
        BY <1>1, <1>2, <1>9, <2>1, <2>6, <2>8 DEF CopyOut, ringVars
<1>10. CASE SetHead
    <2>1. pop.nHead + LenSize + pop.n \in Nat
        BY <1>1, RingAssumption DEF PopLocals, Cells
    <2>2. m_nHead' \in Cells
        BY <1>10, <2>1, ModRange, CapacityPositive DEF SetHead, Cells
    <2>3. received' \in Seq(Seq(Bytes))
        BY <1>1, <1>10 DEF SetHead, PopLocals
    <2> QED
        BY <1>1, <1>2, <1>3, <1>10, <2>2, <2>3, IdleTypes DEF SetHead
<1>11. CASE ResetHead
    <2>1. pop' \in PopLocals /\ PopRoom(pop')
        BY <1>1, <1>11 DEF ResetHead, PopLocals, PopPcs, PopRoom
    <2> QED
        BY <1>1, <1>2, <1>11, <2>1, IdleTypes DEF ResetHead
<1>12. CASE ResetTail
    BY <1>1, <1>2, <1>3, <1>12, IdleTypes DEF ResetTail
<1> QED
    BY <1>5, <1>6, <1>7, <1>8, <1>9, <1>10, <1>11, <1>12 DEF PopStep

LEMMA NextIInv == IInv /\ [Next]_vars => IInv'
<1> SUFFICES ASSUME IInv, [Next]_vars PROVE IInv'
    OBVIOUS
<1>1. CASE EmptyPop \/ PopStep
    BY <1>1, PopKeepsIInv
<1>2. ASSUME NEW p \in Producers, BeginPush(p) \/ PushStep(p) PROVE IInv'
    BY <1>2, PushKeepsIInv
<1>3. CASE UNCHANGED vars
    BY <1>3 DEF IInv, TypeOK, PushRoom, PopRoom, vars, ringVars
<1> QED
    BY <1>1, <1>2, <1>3 DEF Next

LEMMA InvariantHolds == Spec => []IInv
BY InitIInv, NextIInv, PTL DEF Spec

\* The indices stay in the ring, and so do the indices every thread holds,
\* whether or not Push is locked: the code's checks for an index out of range
\* (GetFreeInfo, GetUsedInfo, GetBeginCodePos, GetEndCodePos) never fire.
THEOREM TypeCorrect == Spec => []TypeOK
<1>1. IInv => TypeOK
    BY DEF IInv
<1> QED
    BY <1>1, InvariantHolds, PTL

\* Push and Pop never touch a byte outside the ring, for any number of threads
\* that push without a lock, and whatever bytes Pop takes for a length: what an
\* unlocked log can lose is log records, not the memory around the ring.
THEOREM CopiesNeverLeave == Spec => []CopiesStayInside
<1>1. IInv => CopiesStayInside
    <2> SUFFICES ASSUME IInv PROVE CopiesStayInside
        OBVIOUS
    <2>1. TypeOK /\ PopRoom(pop) /\ pop \in PopLocals
        BY DEF IInv, TypeOK
    <2>2. ASSUME NEW p \in Producers, push[p].pc = "copy", push[p].k < ImageSize(push[p].rec)
          PROVE  PushCell(push[p]) \in Cells
        <3> DEFINE l == push[p]
        <3>1. PushRoom(l) /\ l \in PushLocals
            BY DEF IInv, TypeOK
        <3>2. /\ l.rec \in Records /\ l.nHead \in Cells /\ l.nTail \in Cells /\ l.k \in Nat
              /\ UsedSize(l.nHead, l.nTail) + ImageSize(l.rec) + Reserved <= CAPACITY
            BY <2>2, <3>1 DEF PushRoom, PushLocals
        <3>3. /\ l.rec.len \in Nat \ {0} /\ ImageSize(l.rec) = LenSize + l.rec.len
              /\ LenSize \in Nat
            BY <3>2, ImageSizeType, RingAssumption
        <3>4. CASE l.k < LenSize
            <4>1. l.nTail + l.k \in Nat
                BY <3>2 DEF Cells
            <4> QED
                BY <3>4, <4>1, ModRange, CapacityPositive DEF PushCell, Cells
        <3>5. CASE ~ (l.k < LenSize)
            <4>1. l.k - LenSize \in Nat /\ l.k - LenSize < l.rec.len
                BY <2>2, <3>2, <3>3, <3>5
            <4>2. UsedSize(l.nHead, l.nTail) + LenSize + l.rec.len + Reserved <= CAPACITY
                BY <3>2, <3>3, UsedSizeType, RingAssumption, CapacityPositive
            <4> QED
                BY <3>2, <3>3, <3>5, <4>1, <4>2, PushCopyInside DEF PushCell
        <3> QED
            BY <3>4, <3>5
    <2>3. ASSUME pop.pc = "copy", Len(pop.got) < pop.n
          PROVE  PopCell(pop) \in Cells
        <3>1. /\ pop.nHead \in Cells /\ pop.nTail \in Cells /\ pop.n \in Nat
              /\ Len(pop.got) \in Nat
            BY <2>1, CapacityPositive DEF PopLocals
        <3> QED
            BY <2>1, <2>3, <3>1, PopCopyInside DEF PopCell, PopRoom
    <2> QED
        BY <2>2, <2>3 DEF CopiesStayInside
<1> QED
    BY <1>1, InvariantHolds, PTL

-----------------------------------------------------------------------------
(* The main log delivers in order.  Its pushes hold the lock, so at most   *)
(* one producer is inside Push and m_nTail is its own; m_nHead is the log  *)
(* thread's.  The ring then holds exactly the records accepted and not yet *)
(* taken, one behind the other from m_nHead to m_nTail.                    *)

\* The cell x bytes behind h.
Cell(h, x) == IF h + x < CAPACITY THEN h + x ELSE h + x - CAPACITY

\* Where each record accepted begins, counted in bytes from the first one, and
\* how many records the consumer has room for come before it.
Layout(off, dd) ==
    /\ off \in [1 .. Len(sent) + 1 -> Nat] /\ dd \in [1 .. Len(sent) + 1 -> Nat]
    /\ \A i \in 1 .. Len(sent) : off[i + 1] = off[i] + ImageSize(sent[i])
    /\ \A i, j \in 1 .. Len(sent) + 1 : i <= j => off[i] <= off[j]
    /\ \A i \in 1 .. Len(sent) :
          IF sent[i].len <= OutSize
          THEN dd[i + 1] = dd[i] + 1 /\ dd[i] < Len(due) /\ due[dd[i] + 1] = Payload(sent[i])
          ELSE dd[i + 1] = dd[i]
    /\ dd[Len(sent) + 1] = Len(due)

\* c records have been taken; the others are in the ring.
RingHolds(off, dd, c) ==
    /\ off[Len(sent) + 1] - off[c + 1] + Reserved <= CAPACITY
    /\ m_nTail = Cell(m_nHead, off[Len(sent) + 1] - off[c + 1])
    /\ \A i \in c + 1 .. Len(sent) : \A k \in 0 .. ImageSize(sent[i]) - 1 :
          m_arrCodeBuffer[Cell(m_nHead, off[i] - off[c + 1] + k)] = <<sent[i], k>>
    /\ dd[c + 1] = Len(received)

\* What the log thread has read is the first of them.
PopHolds(c) ==
    /\ pop.pc \in {"idle", "load", "length", "copy"}
    /\ pop.pc # "idle" => c < Len(sent)
    /\ pop.pc \in {"length", "copy"} =>
          pop.nHead = m_nHead /\ ImageSize(sent[c + 1]) <= UsedSize(pop.nHead, pop.nTail)
    /\ pop.pc = "copy" =>
          /\ pop.n = sent[c + 1].len /\ pop.n <= OutSize
          /\ \A k \in 1 .. Len(pop.got) : pop.got[k] = <<sent[c + 1], LenSize + k - 1>>

\* The producer that holds the lock has room behind m_nTail, however far the
\* head has moved since it loaded it, and has written its bytes there.
PushHolds(p) ==
    LET l == push[p] IN
    /\ l.pc # "idle" => lock = p
    /\ l.pc \in {"tail", "copy"} => UsedSize(m_nHead, m_nTail) <= UsedSize(l.nHead, m_nTail)
    /\ l.pc = "copy" =>
          /\ l.nTail = m_nTail
          /\ \A k \in 0 .. l.k - 1 : m_arrCodeBuffer[Cell(m_nTail, k)] = <<l.rec, k>>

QueueHolds(off, dd, c) == Layout(off, dd) /\ RingHolds(off, dd, c) /\ PopHolds(c)

MainInv ==
    lock # NoLock =>
        /\ DeliversInOrder
        /\ \A p \in Producers : PushHolds(p)
        /\ \E c \in 0 .. Len(sent) :
              \E off, dd \in [1 .. Len(sent) + 1 -> Nat] : QueueHolds(off, dd, c)

LockedInv == IInv /\ MainInv

-----------------------------------------------------------------------------
(* Arithmetic of cells.                                                    *)

LEMMA CellType ==
    ASSUME NEW h \in Cells, NEW x \in Nat, x < CAPACITY
    PROVE  Cell(h, x) \in Cells /\ (h + x) % CAPACITY = Cell(h, x)
<1>1. h \in Nat /\ h < CAPACITY /\ CAPACITY \in Nat \ {0}
    BY CapacityPositive DEF Cells
<1>2. CASE h + x < CAPACITY
    BY <1>1, <1>2, ModLow DEF Cell, Cells
<1>3. CASE h + x >= CAPACITY
    <2>1. h + x \in CAPACITY .. 2 * CAPACITY - 1
        BY <1>1, <1>3
    <2> QED
        BY <1>1, <1>3, <2>1, ModHigh DEF Cell, Cells
<1> QED
    BY <1>1, <1>2, <1>3

LEMMA CellUsed ==
    ASSUME NEW h \in Cells, NEW x \in Nat, x < CAPACITY
    PROVE  UsedSize(h, Cell(h, x)) = x
<1>1. UsedSize(h, Cell(h, x)) = IF h <= Cell(h, x) THEN Cell(h, x) - h ELSE Cell(h, x) + CAPACITY - h
    BY CellType, UsedSizeIs
<1> QED
    BY <1>1, CapacityPositive DEF Cell, Cells

LEMMA CellAdds ==
    ASSUME NEW h \in Cells, NEW x \in Nat, NEW y \in Nat, x + y < CAPACITY
    PROVE  Cell(Cell(h, x), y) = Cell(h, x + y)
BY CapacityPositive DEF Cell, Cells

LEMMA CellOneToOne ==
    ASSUME NEW h \in Cells, NEW x \in Nat, NEW y \in Nat, x < CAPACITY, y < CAPACITY,
           Cell(h, x) = Cell(h, y)
    PROVE  x = y
BY CapacityPositive DEF Cell, Cells

\* The copies of Push and Pop go round the ring as their offset does.
LEMMA CopyCellIs ==
    ASSUME NEW from \in Cells, NEW limit \in Cells, NEW k \in Nat, k < CAPACITY,
           limit > from => from + k < CAPACITY
    PROVE  CopyCell(from, limit, k) = Cell(from, k)
BY CellType DEF CopyCell, Cell

LEMMA PushCellIs ==
    ASSUME NEW l, l.nHead \in Cells, l.nTail \in Cells, l.rec \in Records, l.k \in Nat,
           l.k < ImageSize(l.rec),
           UsedSize(l.nHead, l.nTail) + ImageSize(l.rec) + Reserved <= CAPACITY
    PROVE  PushCell(l) = Cell(l.nTail, l.k)
<1> DEFINE h == l.nHead  t == l.nTail  from == Cell(t, LenSize)  size == ImageSize(l.rec)
<1>1. /\ h \in Nat /\ t \in Nat /\ h < CAPACITY /\ t < CAPACITY
      /\ LenSize \in Nat \ {0} /\ Reserved \in Nat \ {0} /\ CAPACITY \in Nat \ {0}
      /\ size \in Nat \ {0} /\ LenSize < size
    BY RingAssumption, CapacityPositive, ImageSizeType DEF Cells
<1>2. UsedSize(h, t) = IF h <= t THEN t - h ELSE t + CAPACITY - h
    BY UsedSizeIs
<1>3. LenSize < CAPACITY /\ size < CAPACITY /\ l.k < CAPACITY
    BY <1>1, <1>2
<1>4. CASE l.k < LenSize
    BY <1>3, <1>4, CellType DEF PushCell
<1>5. CASE ~ (l.k < LenSize)
    <2>1. from \in Cells /\ from = (t + LenSize) % CAPACITY
        BY <1>1, <1>3, CellType
    <2>2. l.k - LenSize \in Nat /\ l.k - LenSize < CAPACITY
        BY <1>1, <1>3, <1>5
    <2>3. h > from => from + (l.k - LenSize) < CAPACITY
        BY <1>1, <1>2, <1>3, <1>5 DEF Cell
    <2>4. CopyCell(from, h, l.k - LenSize) = Cell(from, l.k - LenSize)
        BY <2>1, <2>2, <2>3, CopyCellIs
    <2>5. LenSize + (l.k - LenSize) = l.k
        BY <1>1
    <2>6. Cell(from, l.k - LenSize) = Cell(t, l.k)
        BY <1>1, <1>3, <2>2, <2>5, CellAdds
    <2> QED
        BY <1>5, <2>1, <2>4, <2>6 DEF PushCell
<1> QED
    BY <1>4, <1>5

LEMMA PopCellIs ==
    ASSUME NEW l, l.nHead \in Cells, l.nTail \in Cells, NEW n \in Nat,
           n + LenSize <= UsedSize(l.nHead, l.nTail), Len(l.got) \in Nat, Len(l.got) < n
    PROVE  PopCell(l) = Cell(l.nHead, LenSize + Len(l.got))
<1> DEFINE h == l.nHead  t == l.nTail  from == Cell(h, LenSize)  k == Len(l.got)
<1>1. /\ h \in Nat /\ t \in Nat /\ h < CAPACITY /\ t < CAPACITY
      /\ LenSize \in Nat \ {0} /\ CAPACITY \in Nat \ {0}
    BY RingAssumption, CapacityPositive DEF Cells
<1>2. UsedSize(h, t) = IF h <= t THEN t - h ELSE t + CAPACITY - h
    BY UsedSizeIs
<1>3. LenSize < CAPACITY /\ k < CAPACITY /\ LenSize + k < CAPACITY /\ k \in Nat
    BY <1>1, <1>2, SMTT(30)
<1>4. from \in Cells /\ from = (h + LenSize) % CAPACITY
    BY <1>1, <1>3, CellType
<1>5. t > from => from + k < CAPACITY
    BY <1>1, <1>2, <1>3, SMTT(30) DEF Cell
<1>6. CopyCell(from, t, k) = Cell(from, k)
    BY <1>3, <1>4, <1>5, CopyCellIs
<1>7. Cell(from, k) = Cell(h, LenSize + k)
    BY <1>1, <1>3, CellAdds
<1> QED
    BY <1>4, <1>6, <1>7 DEF PopCell

-----------------------------------------------------------------------------
(* What the invariant says of a state.                                     *)

LEMMA QueueFacts ==
    ASSUME TypeOK, NEW c \in 0 .. Len(sent), NEW off, NEW dd,
           Layout(off, dd), RingHolds(off, dd, c)
    PROVE  LET used == off[Len(sent) + 1] - off[c + 1] IN
           /\ used \in Nat /\ used + Reserved <= CAPACITY /\ used < CAPACITY
           /\ UsedSize(m_nHead, m_nTail) = used
           /\ \A i \in c + 1 .. Len(sent) :
                 /\ off[i] - off[c + 1] \in Nat
                 /\ sent[i] \in Records
                 /\ off[i] - off[c + 1] + ImageSize(sent[i]) <= used
<1> DEFINE n == Len(sent)  used == off[n + 1] - off[c + 1]
<1>1. n \in Nat /\ c \in Nat /\ c <= n /\ c + 1 \in 1 .. n + 1 /\ n + 1 \in 1 .. n + 1
    BY DEF TypeOK
<1>2. off \in [1 .. n + 1 -> Nat]
    BY DEF Layout
<1>3. off[c + 1] <= off[n + 1] /\ off[c + 1] \in Nat /\ off[n + 1] \in Nat
    BY <1>1, <1>2 DEF Layout
<1>4. used \in Nat /\ used + Reserved <= CAPACITY /\ used < CAPACITY
    BY <1>3, RingAssumption DEF RingHolds
<1>5. UsedSize(m_nHead, m_nTail) = used
    BY <1>4, CellUsed DEF RingHolds, TypeOK
<1>6. ASSUME NEW i \in c + 1 .. n
      PROVE  /\ off[i] - off[c + 1] \in Nat
             /\ sent[i] \in Records
             /\ off[i] - off[c + 1] + ImageSize(sent[i]) <= used
    <2>1. i \in Nat /\ i \in 1 .. n /\ i \in 1 .. n + 1 /\ i + 1 \in 1 .. n + 1 /\ c + 1 <= i /\ i + 1 <= n + 1
        BY <1>1, <1>6
    <2>2. off[c + 1] <= off[i] /\ off[i + 1] <= off[n + 1] /\ off[i + 1] = off[i] + ImageSize(sent[i])
        BY <1>1, <2>1 DEF Layout
    <2>3. off[i] \in Nat /\ off[i + 1] \in Nat
        BY <1>2, <2>1
    <2>4. sent[i] \in Records
        BY <2>1 DEF TypeOK
    <2> QED
        BY <1>3, <2>2, <2>3, <2>4, ImageSizeType, SMTT(30)
<1> QED
    BY <1>4, <1>5, <1>6

\* Only the holder of the lock is inside Push.
LEMMA OthersIdle ==
    ASSUME IInv, NEW p \in Producers, NEW q \in Producers \ {p},
           \A r \in Producers : PushHolds(r), lock \in {p, Nobody}
    PROVE  push[q].pc = "idle"
BY ProducersAssumption DEF PushHolds

LEMMA PushersHold ==
    ASSUME IInv, NEW p \in Producers, \A q \in Producers : PushHolds(q), lock \in {p, Nobody},
           \A q \in Producers \ {p} : push'[q] = push[q],
           PushHolds(p)'
    PROVE  \A q \in Producers : PushHolds(q)'
<1>1. ASSUME NEW q \in Producers \ {p} PROVE PushHolds(q)'
    <2>1. push'[q].pc = "idle"
        BY OthersIdle
    <2> QED
        BY <2>1 DEF PushHolds
<1> QED
    BY <1>1

LEMMA LockStaysAbsent ==
    ASSUME IInv, [Next]_vars
    PROVE  lock' = NoLock <=> lock = NoLock
<1>1. ASSUME NEW p \in Producers, BeginPush(p) \/ PushStep(p) PROVE lock' = NoLock <=> lock = NoLock
    <2>1. p # NoLock /\ Nobody # NoLock
        BY ProducersAssumption DEF Nobody, NoLock
    <2> QED
        BY <1>1, <2>1 DEF BeginPush, PushStep, FullPush, LoadHead, LoadTail, CopyIn, SetTail, ReturnPush
<1>2. CASE EmptyPop \/ PopStep
    <2>1. UNCHANGED lock
        BY <1>2 DEF EmptyPop, PopStep, BeginPop, LoadUsed, ReadLength, CopyOut, SetHead, ResetHead, ResetTail, vars
    <2> QED
        BY <2>1
<1>3. CASE UNCHANGED vars
    BY <1>3 DEF vars
<1> QED
    BY <1>1, <1>2, <1>3 DEF Next

\* A step that leaves the ring, the locals of Pop and the histories alone.
LEMMA QueueKept ==
    ASSUME NEW c, NEW off, NEW dd, QueueHolds(off, dd, c),
           UNCHANGED <<ringVars, pop, sent, due, received>>
    PROVE  QueueHolds(off, dd, c)'
BY DEF QueueHolds, Layout, RingHolds, PopHolds, ringVars

LEMMA MainInvFrom ==
    ASSUME NEW c \in 0 .. Len(sent'), NEW off, NEW dd, QueueHolds(off, dd, c)', DeliversInOrder',
           \A q \in Producers : PushHolds(q)'
    PROVE  MainInv'
<1>1. off \in [1 .. Len(sent') + 1 -> Nat] /\ dd \in [1 .. Len(sent') + 1 -> Nat]
    BY DEF QueueHolds, Layout
<1> QED
    BY <1>1 DEF MainInv

\* The steps of Push up to its copy only change the producer's own locals.
LEMMA PushBeforeCopy ==
    ASSUME LockedInv, lock # NoLock, NEW p \in Producers,
           BeginPush(p) \/ FullPush(p) \/ LoadHead(p) \/ LoadTail(p)
    PROVE  MainInv'
<1>1. PICK c \in 0 .. Len(sent) : \E off, dd \in [1 .. Len(sent) + 1 -> Nat] : QueueHolds(off, dd, c)
    BY DEF LockedInv, MainInv
<1>2. PICK off \in [1 .. Len(sent) + 1 -> Nat], dd \in [1 .. Len(sent) + 1 -> Nat] : QueueHolds(off, dd, c)
    BY <1>1
<1>3. UNCHANGED <<ringVars, pop, sent, due, received>>
    BY DEF BeginPush, FullPush, LoadHead, LoadTail
<1>4. QueueHolds(off, dd, c)'
    BY <1>2, <1>3, QueueKept
<1>5. DeliversInOrder'
    BY <1>3 DEF LockedInv, MainInv, DeliversInOrder
<1>6. IInv /\ push[p] \in PushLocals /\ push \in [Producers -> PushLocals] /\ PushHolds(p) /\ PushRoom(push[p])
      /\ \A q \in Producers : PushHolds(q)
    BY DEF LockedInv, IInv, TypeOK, MainInv
<1>7. /\ lock \in {p, Nobody}
      /\ \A q \in Producers \ {p} : push'[q] = push[q]
    BY <1>6 DEF BeginPush, FullPush, LoadHead, LoadTail, ReturnPush, PushHolds
<1>8. PushHolds(p)'
    <2>1. CASE BeginPush(p)
        <3>1. push'[p].pc = "head" /\ lock' = p
            <4>1. PICK len : push' = [push EXCEPT ![p].pc = "head", ![p].rec = [by |-> p, no |-> Len(sent) + 1, len |-> len]]
                BY <2>1 DEF BeginPush
            <4> QED
                BY <1>6, <2>1, <4>1 DEF BeginPush, PushLocals
        <3> QED
            BY <3>1 DEF PushHolds
    <2>2. CASE ReturnPush(p)
        <3>1. push'[p].pc = "idle"
            BY <1>6, <2>2 DEF ReturnPush, IdlePush
        <3> QED
            BY <3>1 DEF PushHolds
    <2>3. CASE LoadHead(p)
        <3>1. push'[p].pc = "tail" /\ push'[p].nHead = m_nHead /\ lock' = lock /\ m_nHead' = m_nHead /\ m_nTail' = m_nTail
            BY <1>6, <2>3 DEF LoadHead, PushLocals, ringVars
        <3>2. lock = p
            BY <1>6, <2>3 DEF LoadHead, PushHolds
        <3>3. UsedSize(m_nHead, m_nTail) \in Nat
            BY <1>6, UsedSizeType DEF IInv, TypeOK
        <3>4. UsedSize(m_nHead, m_nTail)' = UsedSize(m_nHead, m_nTail)
              /\ UsedSize(push[p].nHead, m_nTail)' = UsedSize(m_nHead, m_nTail)
            BY <3>1 DEF UsedSize
        <3> QED
            BY <3>1, <3>2, <3>3, <3>4 DEF PushHolds
    <2>4. CASE LoadTail(p) /\ ~ ReturnPush(p)
        <3>1. push' = [push EXCEPT ![p].pc = "copy", ![p].nTail = m_nTail] /\ push[p].pc = "tail"
              /\ lock' = lock /\ m_nHead' = m_nHead /\ m_nTail' = m_nTail
            BY <2>4 DEF LoadTail, ringVars
        <3>2. /\ push'[p].pc = "copy" /\ push'[p].nTail = m_nTail
              /\ push'[p].nHead = push[p].nHead /\ push'[p].k = push[p].k /\ push[p].k = 0
            BY <1>6, <3>1 DEF PushLocals, PushRoom
        <3>3. lock = p /\ UsedSize(m_nHead, m_nTail) <= UsedSize(push[p].nHead, m_nTail)
            BY <1>6, <3>1 DEF PushHolds
        <3>4. UsedSize(m_nHead, m_nTail)' = UsedSize(m_nHead, m_nTail)
              /\ UsedSize(push[p].nHead, m_nTail)' = UsedSize(push[p].nHead, m_nTail)
            BY <3>1, <3>2 DEF UsedSize
        <3>5. \A k \in 0 .. push'[p].k - 1 : FALSE
            BY <3>2
        <3> QED
            BY <3>1, <3>2, <3>3, <3>4, <3>5 DEF PushHolds
    <2> QED
        BY <2>1, <2>2, <2>3, <2>4 DEF FullPush
<1>9. \A q \in Producers : PushHolds(q)'
    BY <1>6, <1>7, <1>8, PushersHold
<1> QED
    BY <1>3, <1>4, <1>5, <1>9, MainInvFrom

\* The byte copied goes behind the tail, where no record waits.
LEMMA CopyInKeeps ==
    ASSUME LockedInv, lock # NoLock, NEW p \in Producers, CopyIn(p)
    PROVE  MainInv'
<1> DEFINE l == push[p]
<1>1. PICK c \in 0 .. Len(sent) : \E off, dd \in [1 .. Len(sent) + 1 -> Nat] : QueueHolds(off, dd, c)
    BY DEF LockedInv, MainInv
<1>2. PICK off \in [1 .. Len(sent) + 1 -> Nat], dd \in [1 .. Len(sent) + 1 -> Nat] : QueueHolds(off, dd, c)
    BY <1>1
<1>3. /\ UNCHANGED <<m_nHead, m_nTail, lock, pop, sent, due, received>>
      /\ l.pc = "copy" /\ l.k < ImageSize(l.rec)
      /\ m_arrCodeBuffer' = [m_arrCodeBuffer EXCEPT ![PushCell(l)] = <<l.rec, l.k>>]
      /\ push' = [push EXCEPT ![p].k = l.k + 1]
    BY DEF CopyIn
<1>4. DeliversInOrder'
    BY <1>3 DEF LockedInv, MainInv, DeliversInOrder
<1>5. /\ IInv /\ TypeOK /\ l \in PushLocals /\ push \in [Producers -> PushLocals]
      /\ PushHolds(p) /\ PushRoom(l) /\ m_arrCodeBuffer \in [Cells -> Bytes]
      /\ m_nHead \in Cells /\ m_nTail \in Cells
      /\ \A q \in Producers : PushHolds(q)
    BY DEF LockedInv, IInv, TypeOK, MainInv
<1>6. /\ l.rec \in Records /\ l.k \in Nat /\ l.nHead \in Cells /\ l.nTail = m_nTail
      /\ ImageSize(l.rec) \in Nat \ {0}
      /\ UsedSize(l.nHead, l.nTail) + ImageSize(l.rec) + Reserved <= CAPACITY
      /\ UsedSize(m_nHead, m_nTail) <= UsedSize(l.nHead, m_nTail)
      /\ lock = p
    BY <1>3, <1>5, ImageSizeType DEF PushLocals, PushRoom, PushHolds
<1> DEFINE n == Len(sent)  used == off[n + 1] - off[c + 1]
<1>7. /\ used \in Nat /\ used < CAPACITY /\ UsedSize(m_nHead, m_nTail) = used
      /\ \A i \in c + 1 .. n :
            /\ off[i] - off[c + 1] \in Nat
            /\ sent[i] \in Records
            /\ off[i] - off[c + 1] + ImageSize(sent[i]) <= used
    BY <1>2, <1>5, QueueFacts DEF QueueHolds
<1>8. m_nTail = Cell(m_nHead, used)
    BY <1>2 DEF QueueHolds, RingHolds
<1> HIDE DEF used, n
<1>9. PushCell(l) = Cell(m_nTail, l.k)
    BY <1>3, <1>5, <1>6, PushCellIs
<1>10. UsedSize(l.nHead, m_nTail) \in Nat /\ used + l.k < CAPACITY /\ l.k < CAPACITY
    <2>1. UsedSize(l.nHead, m_nTail) \in Nat
        BY <1>5, <1>6, UsedSizeType
    <2>2. UsedSize(l.nHead, m_nTail) + ImageSize(l.rec) + Reserved <= CAPACITY
          /\ used <= UsedSize(l.nHead, m_nTail)
        BY <1>6, <1>7
    <2>3. ImageSize(l.rec) \in Nat /\ l.k \in Nat /\ l.k < ImageSize(l.rec) /\ used \in Nat
        BY <1>3, <1>6, <1>7
    <2> QED
        BY <2>1, <2>2, <2>3, RingAssumption
<1>11. PushCell(l) = Cell(m_nHead, used + l.k)
    BY <1>5, <1>6, <1>7, <1>8, <1>9, <1>10, CellAdds
<1>12. ASSUME NEW i \in c + 1 .. n, NEW k \in 0 .. ImageSize(sent[i]) - 1
       PROVE  m_arrCodeBuffer'[Cell(m_nHead, off[i] - off[c + 1] + k)] = <<sent[i], k>>
    <2> DEFINE x == off[i] - off[c + 1] + k
    <2>1. x \in Nat /\ x < used /\ x < CAPACITY
        <3>1. off[i] - off[c + 1] \in Nat /\ off[i] - off[c + 1] + ImageSize(sent[i]) <= used
              /\ sent[i] \in Records
            BY <1>7
        <3>2. ImageSize(sent[i]) \in Nat
            BY <3>1, ImageSizeType
        <3> QED
            BY <1>7, <3>1, <3>2, CapacityPositive
    <2>2. Cell(m_nHead, x) # PushCell(l)
        <3> HIDE DEF x, l
        <3>1. used + l.k \in Nat /\ x # used + l.k
            BY <1>6, <1>7, <2>1
        <3> QED
            BY <1>5, <1>10, <1>11, <2>1, <3>1, CellOneToOne
    <2>3. m_arrCodeBuffer[Cell(m_nHead, x)] = <<sent[i], k>>
        BY <1>2 DEF QueueHolds, RingHolds, n
    <2>4. Cell(m_nHead, x) \in Cells
        BY <1>5, <2>1, CellType
    <2> HIDE DEF x
    <2>5. m_arrCodeBuffer'[Cell(m_nHead, x)] = <<sent[i], k>>
        BY <1>3, <1>5, <2>2, <2>3, <2>4
    <2> QED
        BY <2>5 DEF x
<1>13. QueueHolds(off, dd, c)'
    <2>1. Layout(off, dd)' /\ PopHolds(c)'
        BY <1>2, <1>3 DEF QueueHolds, Layout, PopHolds
    <2>2. RingHolds(off, dd, c)'
        BY <1>2, <1>3, <1>12 DEF QueueHolds, RingHolds, n
    <2> QED
        BY <2>1, <2>2 DEF QueueHolds
<1>14. PushHolds(p)'
    <2>1. /\ push'[p].pc = "copy" /\ push'[p].rec = l.rec /\ push'[p].nHead = l.nHead
          /\ push'[p].nTail = l.nTail /\ push'[p].k = l.k + 1
        BY <1>3, <1>5 DEF PushLocals
    <2>2. ASSUME NEW k \in 0 .. l.k PROVE m_arrCodeBuffer'[Cell(m_nTail, k)] = <<l.rec, k>>
        <3>1. Cell(m_nTail, k) \in Cells /\ k \in Nat /\ k < CAPACITY
            <4>1. k \in Nat /\ k < CAPACITY
                BY <1>6, <1>10, CapacityPositive
            <4> QED
                BY <1>5, <4>1, CellType
        <3>2. CASE k = l.k
            BY <1>3, <1>5, <1>9, <3>1, <3>2
        <3>3. CASE k # l.k
            <4>1. m_arrCodeBuffer[Cell(m_nTail, k)] = <<l.rec, k>>
                <5>1. k \in 0 .. l.k - 1
                    BY <1>6, <3>3
                <5> QED
                    BY <1>3, <1>5, <5>1 DEF PushHolds
            <4>2. Cell(m_nTail, k) # PushCell(l)
                BY <1>5, <1>6, <1>9, <1>10, <3>1, <3>3, CellOneToOne
            <4> QED
                BY <1>3, <1>5, <3>1, <4>1, <4>2
        <3> QED
            BY <3>2, <3>3
    <2>3. l.k + 1 - 1 = l.k
        BY <1>6
    <2>4. UsedSize(m_nHead, m_nTail)' = UsedSize(m_nHead, m_nTail)
          /\ UsedSize(push[p].nHead, m_nTail)' = UsedSize(push[p].nHead, m_nTail)
        BY <1>3, <2>1 DEF UsedSize
    <2> QED
        BY <1>3, <1>6, <2>1, <2>2, <2>3, <2>4 DEF PushHolds
<1>15. \A q \in Producers : PushHolds(q)'
    <2>1. \A q \in Producers \ {p} : push'[q] = push[q]
        BY <1>3, <1>5
    <2> QED
        BY <1>5, <1>6, <1>14, <2>1, PushersHold
<1>16. c \in 0 .. Len(sent')
    BY <1>3
<1> QED
    BY <1>4, <1>13, <1>15, <1>16, MainInvFrom

\* The record behind the tail becomes the last of the queue.
LEMMA SetTailKeeps ==
    ASSUME LockedInv, lock # NoLock, NEW p \in Producers, SetTail(p)
    PROVE  MainInv'
<1> DEFINE l == push[p]  r == push[p].rec  n == Len(sent)
<1>1. PICK c \in 0 .. n : \E off, dd \in [1 .. n + 1 -> Nat] : QueueHolds(off, dd, c)
    BY DEF LockedInv, MainInv
<1>2. PICK off \in [1 .. n + 1 -> Nat], dd \in [1 .. n + 1 -> Nat] : QueueHolds(off, dd, c)
    BY <1>1
<1>3. /\ l.pc = "copy" /\ l.k = ImageSize(r)
      /\ m_nTail' = (l.nTail + ImageSize(r)) % CAPACITY
      /\ sent' = Append(sent, r)
      /\ due' = IF r.len <= OutSize THEN Append(due, Payload(r)) ELSE due
      /\ push' = [push EXCEPT ![p] = IdlePush]
      /\ UNCHANGED <<m_nHead, m_arrCodeBuffer, pop, received>>
    BY DEF SetTail, ReturnPush
<1>4. /\ IInv /\ TypeOK /\ l \in PushLocals /\ push \in [Producers -> PushLocals]
      /\ PushHolds(p) /\ PushRoom(l) /\ DeliversInOrder
      /\ m_nHead \in Cells /\ m_nTail \in Cells
      /\ sent \in Seq(Records) /\ due \in Seq(Seq(Bytes)) /\ received \in Seq(Seq(Bytes))
      /\ \A q \in Producers : PushHolds(q)
    BY DEF LockedInv, IInv, TypeOK, MainInv
<1>5. /\ r \in Records /\ l.nHead \in Cells /\ l.nTail = m_nTail
      /\ ImageSize(r) \in Nat \ {0}
      /\ UsedSize(l.nHead, l.nTail) + ImageSize(r) + Reserved <= CAPACITY
      /\ UsedSize(m_nHead, m_nTail) <= UsedSize(l.nHead, m_nTail)
      /\ lock = p
      /\ \A k \in 0 .. ImageSize(r) - 1 : m_arrCodeBuffer[Cell(m_nTail, k)] = <<r, k>>
    BY <1>3, <1>4, ImageSizeType DEF PushLocals, PushRoom, PushHolds
<1> DEFINE used == off[n + 1] - off[c + 1]
<1>6. /\ used \in Nat /\ used < CAPACITY /\ UsedSize(m_nHead, m_nTail) = used
      /\ m_nTail = Cell(m_nHead, used)
    BY <1>2, <1>4, QueueFacts DEF QueueHolds, RingHolds
<1>7. UsedSize(l.nHead, m_nTail) \in Nat /\ used + ImageSize(r) + Reserved <= CAPACITY
      /\ used + ImageSize(r) < CAPACITY
    <2>1. UsedSize(l.nHead, m_nTail) \in Nat
        BY <1>4, <1>5, UsedSizeType
    <2>2. UsedSize(l.nHead, m_nTail) + ImageSize(r) + Reserved <= CAPACITY
          /\ used <= UsedSize(l.nHead, m_nTail) /\ ImageSize(r) \in Nat
        BY <1>5, <1>6
    <2> QED
        BY <1>6, <2>1, <2>2, RingAssumption
<1>8. n \in Nat /\ c \in Nat /\ c <= n /\ Len(sent') = n + 1 /\ sent' \in Seq(Records)
      /\ sent'[n + 1] = r /\ \A i \in 1 .. n : sent'[i] = sent[i]
    BY <1>3, <1>4, <1>5
<1>9. /\ Len(due) \in Nat
      /\ r.len <= OutSize => Len(due') = Len(due) + 1 /\ due'[Len(due) + 1] = Payload(r)
      /\ ~ (r.len <= OutSize) => Len(due') = Len(due)
      /\ \A i \in 1 .. Len(due) : due'[i] = due[i]
    <2>1. Payload(r) \in Seq(Bytes)
        BY <1>5, PayloadType
    <2> QED
        BY <1>3, <1>4, <2>1
\* The layout with the new record behind the others.
<1> DEFINE longer == [i \in 1 .. n + 2 |-> IF i <= n + 1 THEN off[i] ELSE off[n + 1] + ImageSize(r)]
           moreDue == [i \in 1 .. n + 2 |-> IF i <= n + 1 THEN dd[i] ELSE Len(due')]
<1>20. PICK off2, dd2 : off2 = longer /\ dd2 = moreDue
    OBVIOUS
<1>10. /\ \A i \in 1 .. n + 1 : off2[i] = off[i] /\ dd2[i] = dd[i] /\ off[i] \in Nat /\ dd[i] \in Nat
       /\ off2[n + 2] = off[n + 1] + ImageSize(r) /\ dd2[n + 2] = Len(due')
    <2> HIDE DEF n
    <2>1. \A i \in 1 .. n + 1 : i \in 1 .. n + 2 /\ i <= n + 1
        BY <1>8
    <2>2. n + 2 \in 1 .. n + 2 /\ ~ (n + 2 <= n + 1)
        BY <1>8
    <2> QED
        BY <1>2, <1>20, <2>1, <2>2
<1>11. off2 \in [1 .. n + 2 -> Nat] /\ dd2 \in [1 .. n + 2 -> Nat]
    <2>1. Len(due') \in Nat
        BY <1>9
    <2>2. off[n + 1] + ImageSize(r) \in Nat
        BY <1>5, <1>8, <1>10, SMTT(30)
    <2>3. \A i \in 1 .. n + 2 : i <= n + 1 => i \in 1 .. n + 1
        BY <1>8
    <2> HIDE DEF n
    <2> QED
        BY <1>10, <1>20, <2>1, <2>2, <2>3
<1> HIDE DEF longer, moreDue
<1>12. Layout(off2, dd2)'
    <2>1. off2 \in [1 .. Len(sent') + 1 -> Nat] /\ dd2 \in [1 .. Len(sent') + 1 -> Nat]
        BY <1>8, <1>11
    <2>2. ASSUME NEW i \in 1 .. Len(sent')
          PROVE  /\ off2[i + 1] = off2[i] + ImageSize(sent'[i])
                 /\ IF sent'[i].len <= OutSize
                    THEN dd2[i + 1] = dd2[i] + 1 /\ dd2[i] < Len(due') /\ due'[dd2[i] + 1] = Payload(sent'[i])
                    ELSE dd2[i + 1] = dd2[i]
        <3>1. CASE i \in 1 .. n
            <4>1. i \in 1 .. n + 1 /\ i + 1 \in 1 .. n + 1
                BY <1>8, <3>1
            <4>2. off2[i] = off[i] /\ off2[i + 1] = off[i + 1] /\ dd2[i] = dd[i] /\ dd2[i + 1] = dd[i + 1]
                BY <1>10, <4>1
            <4>3. /\ off[i + 1] = off[i] + ImageSize(sent[i])
                  /\ IF sent[i].len <= OutSize
                     THEN dd[i + 1] = dd[i] + 1 /\ dd[i] < Len(due) /\ due[dd[i] + 1] = Payload(sent[i])
                     ELSE dd[i + 1] = dd[i]
                BY <1>2, <3>1 DEF QueueHolds, Layout
            <4>4. sent[i].len <= OutSize => dd[i] + 1 \in 1 .. Len(due) /\ dd[i] < Len(due')
                <5>1. dd[i] \in Nat /\ Len(due') \in Nat /\ Len(due) \in Nat /\ Len(due) <= Len(due')
                    BY <1>9, <1>10, <4>1
                <5> QED
                    BY <4>3, <5>1
            <4> QED
                BY <1>8, <1>9, <3>1, <4>2, <4>3, <4>4
        <3>2. CASE i = n + 1
            <4>1. /\ i \in 1 .. n + 1 /\ i + 1 = n + 2
                  /\ off2[i] = off[n + 1] /\ dd2[i] = dd[n + 1]
                BY <1>8, <1>10, <3>2
            <4>2. dd[n + 1] = Len(due)
                BY <1>2 DEF QueueHolds, Layout
            <4> QED
                BY <1>8, <1>9, <1>10, <3>2, <4>1, <4>2
        <3> QED
            BY <1>8, <3>1, <3>2
    <2>3. ASSUME NEW i \in 1 .. Len(sent') + 1, NEW j \in 1 .. Len(sent') + 1, i <= j
          PROVE  off2[i] <= off2[j]
        <3>1. \A a, b \in 1 .. n + 1 : a <= b => off[a] <= off[b]
            BY <1>2 DEF QueueHolds, Layout
        <3>2. CASE j \in 1 .. n + 1
            <4>1. i \in 1 .. n + 1
                BY <1>8, <2>3, <3>2
            <4> QED
                BY <1>10, <2>3, <3>1, <3>2, <4>1
        <3>3. CASE j = n + 2 /\ i \in 1 .. n + 1
            <4>1. off[i] <= off[n + 1] /\ off[n + 1] \in Nat /\ off[i] \in Nat
                BY <1>8, <1>10, <3>1, <3>3
            <4> QED
                BY <1>5, <1>10, <3>3, <4>1
        <3>4. CASE i = n + 2 /\ j = n + 2
            <4>1. off2[i] \in Nat
                BY <1>5, <1>8, <1>10, <3>4
            <4> QED
                BY <3>4, <4>1
        <3>5. i \in 1 .. n + 2 /\ j \in 1 .. n + 2
            BY <1>8
        <3> QED
            BY <1>8, <2>3, <3>2, <3>3, <3>4, <3>5
    <2>4. dd2[Len(sent') + 1] = Len(due')
        BY <1>8, <1>10
    <2>5. \A i, j \in 1 .. Len(sent') + 1 : i <= j => off2[i] <= off2[j]
        BY <2>3
    <2>6. \A i \in 1 .. Len(sent') : off2[i + 1] = off2[i] + ImageSize(sent'[i])
        BY <2>2
    <2>7. \A i \in 1 .. Len(sent') :
             IF sent'[i].len <= OutSize
             THEN dd2[i + 1] = dd2[i] + 1 /\ dd2[i] < Len(due') /\ due'[dd2[i] + 1] = Payload(sent'[i])
             ELSE dd2[i + 1] = dd2[i]
        BY <2>2
    <2> HIDE DEF n, r
    <2>8. \A i \in 1 .. Len(sent') : ImageSize(sent[i])' = ImageSize(sent'[i])
                                     /\ Payload(sent[i])' = Payload(sent'[i])
        BY DEF ImageSize, Payload
    <2> QED
        BY <2>1, <2>4, <2>5, <2>6, <2>7, <2>8 DEF Layout
<1>13. off2[Len(sent') + 1] - off2[c + 1] = used + ImageSize(r) /\ off2[c + 1] = off[c + 1] /\ dd2[c + 1] = dd[c + 1]
    <2>1. c + 1 \in 1 .. n + 1 /\ n + 1 \in 1 .. n + 1 /\ Len(sent') + 1 = n + 2
        BY <1>8
    <2>2. off2[c + 1] = off[c + 1] /\ dd2[c + 1] = dd[c + 1] /\ off[c + 1] \in Nat /\ off[n + 1] \in Nat
        BY <1>10, <2>1
    <2>3. off2[Len(sent') + 1] = off[n + 1] + ImageSize(r)
        BY <1>10, <2>1
    <2> QED
        BY <1>5, <2>2, <2>3
<1>14. m_nTail' = Cell(m_nHead, used + ImageSize(r))
    <2>1. m_nTail' = Cell(m_nTail, ImageSize(r))
        <3>1. ImageSize(r) \in Nat /\ ImageSize(r) < CAPACITY
            BY <1>5, <1>6, <1>7, CapacityPositive
        <3> HIDE DEF r
        <3> QED
            BY <1>3, <1>4, <1>5, <3>1, CellType DEF r
    <2> QED
        BY <1>4, <1>5, <1>6, <1>7, <2>1, CellAdds
<1>15. ASSUME NEW i \in c + 1 .. Len(sent'), NEW k \in 0 .. ImageSize(sent'[i]) - 1
       PROVE  m_arrCodeBuffer[Cell(m_nHead, off2[i] - off2[c + 1] + k)] = <<sent'[i], k>>
    <2>1. CASE i \in c + 1 .. n
        <3>1. i \in 1 .. n + 1 /\ i \in 1 .. n
            BY <1>8, <2>1
        <3>2. off2[i] = off[i] /\ sent'[i] = sent[i]
            BY <1>8, <1>10, <3>1
        <3> QED
            BY <1>2, <1>13, <2>1, <3>2 DEF QueueHolds, RingHolds
    <2>2. CASE i = n + 1
        <3>1. off2[i] - off2[c + 1] = used /\ sent'[i] = r
            <4>1. off2[i] = off[n + 1] /\ off[n + 1] \in Nat
                <5>1. n + 1 \in 1 .. n + 1
                    BY <1>8
                <5> QED
                    BY <1>10, <2>2, <5>1
            <4> QED
                BY <1>8, <1>13, <2>2, <4>1
        <3>2. k \in 0 .. ImageSize(r) - 1 /\ k \in Nat /\ used + k < CAPACITY
            <4>1. k \in 0 .. ImageSize(r) - 1
                BY <3>1
            <4> HIDE DEF r, used
            <4> QED
                BY <1>5, <1>6, <1>7, <4>1, CapacityPositive
        <3>3. Cell(m_nHead, used + k) = Cell(m_nTail, k)
            BY <1>4, <1>6, <3>2, CellAdds
        <3> QED
            BY <1>5, <3>1, <3>2, <3>3
    <2>3. i \in c + 1 .. n \/ i = n + 1
        BY <1>8
    <2> QED
        BY <2>1, <2>2, <2>3
<1>16. QueueHolds(off2, dd2, c)'
    <2>1. RingHolds(off2, dd2, c)'
        <3>1. used + ImageSize(r) + Reserved <= CAPACITY /\ dd2[c + 1] = Len(received)
            BY <1>2, <1>7, <1>13 DEF QueueHolds, RingHolds
        <3>2. off2[Len(sent') + 1] - off2[c + 1] + Reserved <= CAPACITY
            BY <1>13, <3>1
        <3>3. m_nTail' = Cell(m_nHead', off2[Len(sent') + 1] - off2[c + 1])
            BY <1>3, <1>13, <1>14
        <3>4. \A i \in c + 1 .. Len(sent') : \A k \in 0 .. ImageSize(sent'[i]) - 1 :
                 m_arrCodeBuffer'[Cell(m_nHead', off2[i] - off2[c + 1] + k)] = <<sent'[i], k>>
            BY <1>3, <1>15
        <3>5. dd2[c + 1] = Len(received')
            BY <1>3, <3>1
        <3> HIDE DEF used, r, n
        <3> QED
            BY <3>2, <3>3, <3>4, <3>5 DEF RingHolds
    <2>2. PopHolds(c)'
        <3>1. c < n => c < Len(sent') /\ sent'[c + 1] = sent[c + 1]
            BY <1>8, SMTT(30)
        <3>2. PopHolds(c)
            BY <1>2 DEF QueueHolds
        <3>3. UsedSize(pop.nHead, pop.nTail)' = UsedSize(pop.nHead, pop.nTail)
            BY <1>3 DEF UsedSize
        <3> QED
            BY <1>3, <3>1, <3>2, <3>3 DEF PopHolds
    <2> QED
        BY <1>12, <2>1, <2>2 DEF QueueHolds
<1>17. DeliversInOrder'
    BY <1>3, <1>4, <1>9 DEF DeliversInOrder
<1>18. \A q \in Producers : PushHolds(q)'
    <2>1. push'[p].pc = "idle"
        BY <1>3, <1>4 DEF IdlePush
    <2>2. PushHolds(p)'
        BY <2>1 DEF PushHolds
    <2>3. \A q \in Producers \ {p} : push'[q] = push[q]
        BY <1>3, <1>4
    <2> QED
        BY <1>4, <1>5, <2>2, <2>3, PushersHold
<1>19. c \in 0 .. Len(sent')
    BY <1>8
<1> QED
    BY <1>16, <1>17, <1>18, <1>19, MainInvFrom

\* The log thread has taken the first record: the head is behind it.
LEMMA HeadMoves ==
    ASSUME IInv, NEW c \in 0 .. Len(sent), NEW off, NEW dd, QueueHolds(off, dd, c), c < Len(sent),
           m_nHead' = Cell(m_nHead, ImageSize(sent[c + 1])),
           UNCHANGED <<m_nTail, m_arrCodeBuffer, sent, due>>,
           Len(received') = dd[c + 2]
    PROVE  /\ c + 1 \in 0 .. Len(sent')
           /\ Layout(off, dd)' /\ RingHolds(off, dd, c + 1)'
           /\ UsedSize(m_nHead', m_nTail') <= UsedSize(m_nHead, m_nTail)
<1> DEFINE n == Len(sent)  size == ImageSize(sent[c + 1])  used == off[n + 1] - off[c + 1]
<1>1. /\ n \in Nat /\ c \in Nat /\ c < n /\ c + 1 \in 1 .. n + 1 /\ c + 2 \in 1 .. n + 1 /\ n + 1 \in 1 .. n + 1
      /\ c + 1 \in 1 .. n /\ c + 1 \in c + 1 .. n /\ (c + 1) + 1 = c + 2
    BY DEF IInv, TypeOK
<1>2. /\ TypeOK /\ m_nHead \in Cells /\ Layout(off, dd) /\ RingHolds(off, dd, c)
    BY DEF IInv, TypeOK, QueueHolds
<1>3. /\ used \in Nat /\ used < CAPACITY /\ UsedSize(m_nHead, m_nTail) = used /\ used + Reserved <= CAPACITY
      /\ sent[c + 1] \in Records
      /\ \A i \in c + 1 .. n :
            /\ off[i] - off[c + 1] \in Nat
            /\ sent[i] \in Records
            /\ off[i] - off[c + 1] + ImageSize(sent[i]) <= used
    BY <1>1, <1>2, QueueFacts
<1>4. off \in [1 .. n + 1 -> Nat]
    BY <1>2 DEF Layout
<1>5. off[c + 2] = off[c + 1] + size /\ off[c + 1] \in Nat /\ off[n + 1] \in Nat /\ off[c + 2] <= off[n + 1]
      /\ size \in Nat /\ off[c + 2] \in Nat
    <2>1. off[c + 2] = off[c + 1] + size
        BY <1>1, <1>2 DEF Layout
    <2>2. off[c + 2] <= off[n + 1]
        BY <1>1, <1>2 DEF Layout
    <2>3. size \in Nat
        BY <1>3, ImageSizeType
    <2> QED
        BY <1>1, <1>4, <2>1, <2>2, <2>3
<1> HIDE DEF n, size
<1>6. /\ off[n + 1] - off[c + 2] = used - size /\ used - size \in Nat /\ size \in Nat /\ used \in Nat
      /\ size + (used - size) = used
    BY <1>3, <1>5, SMTT(30)
<1> HIDE DEF used
<1>7. m_nTail = Cell(m_nHead', off[n + 1] - off[c + 2]) /\ m_nHead' \in Cells
    <2>1. m_nTail = Cell(m_nHead, used)
        BY <1>2 DEF RingHolds, used, n
    <2>2. m_nHead' = Cell(m_nHead, size)
        BY DEF size
    <2>3. Cell(Cell(m_nHead, size), used - size) = Cell(m_nHead, used)
        BY <1>2, <1>3, <1>6, CellAdds
    <2>4. size < CAPACITY
        BY <1>3, <1>6, CapacityPositive
    <2> QED
        BY <1>2, <1>6, <2>1, <2>2, <2>3, <2>4, CellType
<1>8. ASSUME NEW i \in (c + 1) + 1 .. n, NEW k \in 0 .. ImageSize(sent[i]) - 1
      PROVE  m_arrCodeBuffer[Cell(m_nHead', off[i] - off[(c + 1) + 1] + k)] = <<sent[i], k>>
    <2>1. i \in c + 1 .. n /\ i \in 1 .. n + 1
        BY <1>1
    <2>2. off[i] \in Nat /\ off[i] - off[c + 1] \in Nat /\ sent[i] \in Records
          /\ off[i] - off[c + 1] + ImageSize(sent[i]) <= used
        BY <1>3, <1>4, <2>1 DEF used, n
    <2>3. m_arrCodeBuffer[Cell(m_nHead, off[i] - off[c + 1] + k)] = <<sent[i], k>>
        BY <1>2, <2>1 DEF RingHolds, n
    <2> DEFINE y == off[i] - off[c + 2] + k
    <2>4. off[c + 2] <= off[i]
        BY <1>1, <1>2, <2>1, SMTT(30) DEF Layout, n
    <2>5. ImageSize(sent[i]) \in Nat
        BY <2>2, ImageSizeType
    <2>6. y \in Nat /\ size + y = off[i] - off[c + 1] + k /\ size + y < CAPACITY
        <3> DEFINE o == off[i]  a == off[c + 1]  b == off[c + 2]  m == ImageSize(sent[i])
        <3>1. /\ o \in Nat /\ a \in Nat /\ b \in Nat /\ m \in Nat /\ k \in 0 .. m - 1
              /\ b = a + size /\ b <= o /\ o - a + m <= used
            BY <1>5, <2>2, <2>4, <2>5
        <3>2. used < CAPACITY /\ used \in Nat /\ CAPACITY \in Nat /\ size \in Nat
            BY <1>3, <1>6, CapacityPositive
        <3> HIDE DEF o, a, b, m
        <3>3. o - b + k \in Nat /\ size + (o - b + k) = o - a + k /\ size + (o - b + k) < CAPACITY
            BY <3>1, <3>2
        <3> QED
            BY <3>3 DEF o, a, b
    <2> HIDE DEF y
    <2>7. Cell(m_nHead', y) = Cell(m_nHead, size + y)
        BY <1>2, <1>6, <2>6, CellAdds DEF size
    <2> QED
        BY <1>1, <2>3, <2>6, <2>7 DEF y
<1>9. RingHolds(off, dd, c + 1)'
    <2>1. /\ off[n + 1] - off[(c + 1) + 1] + Reserved <= CAPACITY
        BY <1>1, <1>3, <1>6, RingAssumption, CapacityPositive
    <2>2. dd[(c + 1) + 1] = Len(received')
        BY <1>1
    <2> QED
        BY <1>1, <1>7, <1>8, <2>1, <2>2 DEF RingHolds, n
<1>10. Layout(off, dd)'
    BY <1>2 DEF Layout
<1>11. UsedSize(m_nHead', m_nTail) = used - size
    <2>1. used - size < CAPACITY
        BY <1>3, <1>6, CapacityPositive
    <2> QED
        BY <1>6, <1>7, <2>1, CellUsed
<1>12. c + 1 \in 0 .. Len(sent')
    BY <1>1 DEF n
<1> QED
    BY <1>3, <1>6, <1>9, <1>10, <1>11, <1>12

\* As the head moves, what the producer inside Push has loaded only leaves
\* more room than it thinks.
LEMMA PushersSeeRoom ==
    ASSUME IInv, \A p \in Producers : PushHolds(p),
           UNCHANGED <<m_nTail, m_arrCodeBuffer, lock, push>>, m_nHead' \in Cells,
           UsedSize(m_nHead', m_nTail') <= UsedSize(m_nHead, m_nTail)
    PROVE  \A p \in Producers : PushHolds(p)'
<1> SUFFICES ASSUME NEW p \in Producers PROVE PushHolds(p)'
    OBVIOUS
<1>1. PushHolds(p) /\ m_nHead \in Cells /\ m_nTail \in Cells /\ push[p] \in PushLocals
    BY DEF IInv, TypeOK
<1>2. push[p].nHead \in Cells
    BY <1>1 DEF PushLocals
<1>3. /\ UsedSize(m_nHead, m_nTail) \in Nat /\ UsedSize(m_nHead', m_nTail) \in Nat
      /\ UsedSize(push[p].nHead, m_nTail) \in Nat
    BY <1>1, <1>2, UsedSizeType
<1>4. UsedSize(m_nHead, m_nTail)' = UsedSize(m_nHead', m_nTail)
      /\ UsedSize(push[p].nHead, m_nTail)' = UsedSize(push[p].nHead, m_nTail)
    BY DEF UsedSize
<1> HIDE DEF UsedSize
<1> QED
    BY <1>1, <1>3, <1>4 DEF PushHolds

\* The length of the first record is read as it was written.
LEMMA LengthIsThere ==
    ASSUME TypeOK, NEW c \in 0 .. Len(sent), NEW off, NEW dd, QueueHolds(off, dd, c), c < Len(sent),
           pop.nHead = m_nHead
    PROVE  LengthsAt(pop.nHead) = {sent[c + 1].len}
<1> DEFINE n == Len(sent)  r == sent[c + 1]  h == pop.nHead
<1>1. n \in Nat /\ c + 1 \in c + 1 .. n /\ c + 1 \in 1 .. n + 1 /\ h \in Cells /\ r \in Records
      /\ Layout(off, dd) /\ RingHolds(off, dd, c)
    BY DEF TypeOK, QueueHolds
<1>2. off[c + 1] \in Nat /\ off[c + 1] - off[c + 1] = 0
    BY <1>1 DEF Layout
<1>3. /\ LenSize \in Nat \ {0} /\ ImageSize(r) = LenSize + r.len /\ r.len \in Nat
    BY <1>1, ImageSizeType, RingAssumption
<1>4. ImageSize(r) < CAPACITY
    <2>1. off[n + 1] - off[c + 1] \in Nat /\ off[n + 1] - off[c + 1] < CAPACITY
          /\ off[c + 1] - off[c + 1] + ImageSize(r) <= off[n + 1] - off[c + 1]
        BY <1>1, QueueFacts
    <2> HIDE DEF n, r
    <2> QED
        BY <1>2, <1>3, <2>1, CapacityPositive
<1>5. ASSUME NEW k \in 0 .. LenSize - 1
      PROVE  m_arrCodeBuffer[(h + k) % CAPACITY] = <<r, k>>
    <2>1. k \in Nat /\ k \in 0 .. ImageSize(r) - 1 /\ k < CAPACITY
        BY <1>3, <1>4, CapacityPositive
    <2>2. m_arrCodeBuffer[Cell(h, off[c + 1] - off[c + 1] + k)] = <<r, k>>
        BY <1>1, <2>1 DEF RingHolds
    <2>3. off[c + 1] - off[c + 1] + k = k
        BY <1>2, <2>1
    <2> QED
        BY <1>1, <2>1, <2>2, <2>3, CellType
<1>6. 0 \in 0 .. LenSize - 1 /\ m_arrCodeBuffer[(h + 0) % CAPACITY] = <<r, 0>>
    <2>1. 0 \in 0 .. LenSize - 1
        BY <1>3
    <2> HIDE DEF h, r
    <2> QED
        BY <1>5, <2>1
<1>7. <<r, 0>> # Zero /\ <<r, 0>>[1] = r
    BY DEF Zero
<1> HIDE DEF r, n
<1>8. LengthsAt(h) = {r.len}
    BY <1>5, <1>6, <1>7 DEF LengthsAt
<1> QED
    BY <1>8 DEF r

\* Every step of the log thread.  It never resets the ring.
LEMMA PopKeepsMain ==
    ASSUME LockedInv, lock # NoLock, EmptyPop \/ PopStep
    PROVE  MainInv'
<1> DEFINE n == Len(sent)
<1>1. PICK c \in 0 .. n : \E off, dd \in [1 .. n + 1 -> Nat] : QueueHolds(off, dd, c)
    BY DEF LockedInv, MainInv
<1>2. PICK off \in [1 .. n + 1 -> Nat], dd \in [1 .. n + 1 -> Nat] : QueueHolds(off, dd, c)
    BY <1>1
<1>3. /\ IInv /\ TypeOK /\ pop \in PopLocals /\ PopRoom(pop) /\ DeliversInOrder
      /\ m_nHead \in Cells /\ m_nTail \in Cells
      /\ sent \in Seq(Records) /\ due \in Seq(Seq(Bytes)) /\ received \in Seq(Seq(Bytes))
      /\ \A q \in Producers : PushHolds(q)
    BY DEF LockedInv, IInv, TypeOK, MainInv
<1>4. Layout(off, dd) /\ RingHolds(off, dd, c) /\ PopHolds(c)
    BY <1>2 DEF QueueHolds
<1> DEFINE used == off[n + 1] - off[c + 1]
<1>5. /\ used \in Nat /\ used < CAPACITY /\ UsedSize(m_nHead, m_nTail) = used /\ m_nTail = Cell(m_nHead, used)
      /\ \A i \in c + 1 .. n :
            /\ off[i] - off[c + 1] \in Nat
            /\ sent[i] \in Records
            /\ off[i] - off[c + 1] + ImageSize(sent[i]) <= used
    BY <1>3, <1>4, QueueFacts DEF RingHolds
<1>6. n \in Nat /\ c \in Nat /\ c <= n /\ off[c + 1] \in Nat
    BY <1>3, <1>4 DEF Layout
<1>7. c < n => /\ sent[c + 1] \in Records /\ ImageSize(sent[c + 1]) <= used
               /\ ImageSize(sent[c + 1]) = LenSize + sent[c + 1].len
               /\ sent[c + 1].len \in Nat \ {0} /\ LenSize \in Nat \ {0}
    <2> SUFFICES ASSUME c < n PROVE sent[c + 1] \in Records /\ ImageSize(sent[c + 1]) <= used
        BY ImageSizeType, RingAssumption
    <2>1. c + 1 \in c + 1 .. n
        BY <1>6
    <2>2. off[c + 1] - off[c + 1] = 0
        BY <1>6
    <2>3. sent[c + 1] \in Records /\ 0 + ImageSize(sent[c + 1]) <= used
        BY <1>5, <2>1, <2>2
    <2> QED
        BY <2>3, ImageSizeType
\* The steps that only change Pop's own locals.
<1>8. ASSUME UNCHANGED <<ringVars, lock, push, sent, due, received>>, PopHolds(c)'
      PROVE  MainInv'
    <2>1. Layout(off, dd)' /\ RingHolds(off, dd, c)'
        BY <1>4, <1>8 DEF Layout, RingHolds, ringVars
    <2>2. \A q \in Producers : PushHolds(q)'
        BY <1>3, <1>8 DEF PushHolds, ringVars, UsedSize
    <2>3. DeliversInOrder' /\ c \in 0 .. Len(sent')
        BY <1>3, <1>8 DEF DeliversInOrder
    <2> QED
        BY <1>8, <2>1, <2>2, <2>3, MainInvFrom DEF QueueHolds
\* The steps that take the first record.
<1>9. ASSUME c < n, m_nHead' = (m_nHead + ImageSize(sent[c + 1])) % CAPACITY,
             UNCHANGED <<m_nTail, m_arrCodeBuffer, lock, push, sent, due>>,
             pop' = IdlePop, Len(received') = dd[c + 2], DeliversInOrder'
      PROVE  MainInv'
    <2>1. ImageSize(sent[c + 1]) \in Nat /\ ImageSize(sent[c + 1]) < CAPACITY
        BY <1>5, <1>7, <1>9, CapacityPositive
    <2>2. m_nHead' = Cell(m_nHead, ImageSize(sent[c + 1])) /\ m_nHead' \in Cells
        BY <1>3, <1>9, <2>1, CellType
    <2>3. /\ c + 1 \in 0 .. Len(sent')
          /\ Layout(off, dd)' /\ RingHolds(off, dd, c + 1)'
          /\ UsedSize(m_nHead', m_nTail') <= UsedSize(m_nHead, m_nTail)
        BY <1>2, <1>3, <1>9, <2>2, HeadMoves
    <2>4. \A q \in Producers : PushHolds(q)'
        BY <1>3, <1>9, <2>2, <2>3, PushersSeeRoom
    <2>5. PopHolds(c + 1)'
        BY <1>9, IdleTypes DEF PopHolds
    <2> QED
        BY <1>9, <2>3, <2>4, <2>5, MainInvFrom DEF QueueHolds
<1>10. CASE EmptyPop
    BY <1>4, <1>8, <1>10 DEF EmptyPop, vars, PopHolds, ringVars, UsedSize
<1>11. CASE BeginPop
    <2>1. c < n
        <3>1. CASE c = n
            <4>1. used = 0
                BY <1>6, <3>1
            <4>2. m_nTail = m_nHead
                <5>1. m_nTail = Cell(m_nHead, 0)
                    BY <1>5, <4>1
                <5> QED
                    BY <1>3, <5>1, CapacityPositive DEF Cell, Cells
            <4> QED
                BY <1>11, <4>2 DEF BeginPop
        <3> QED
            BY <1>6, <3>1
    <2>2. pop'.pc = "load"
        BY <1>3, <1>11 DEF BeginPop, PopLocals
    <2>3. PopHolds(c)'
        BY <1>11, <2>1, <2>2 DEF BeginPop, PopHolds
    <2> QED
        BY <1>8, <1>11, <2>3 DEF BeginPop
<1>12. CASE LoadUsed
    <2>1. c < n
        BY <1>4, <1>12 DEF LoadUsed, PopHolds
    <2>2. ~ (UsedSize(m_nHead, m_nTail) < LenSize)
        BY <1>5, <1>7, <2>1
    <2>3. /\ pop'.pc = "length" /\ pop'.nHead = m_nHead /\ pop'.nTail = m_nTail
          /\ UNCHANGED <<ringVars, lock, push, sent, due, received>>
        BY <1>3, <1>12, <2>2 DEF LoadUsed, PopLocals
    <2>4. ImageSize(sent[c + 1]) <= UsedSize(m_nHead, m_nTail)
        BY <1>5, <1>7, <2>1
    <2>5. PopHolds(c)'
        BY <2>1, <2>3, <2>4 DEF PopHolds, ringVars, UsedSize, ImageSize
    <2> QED
        BY <1>8, <2>3, <2>5
<1>13. CASE ReadLength
    <2> DEFINE len == sent[c + 1].len  u == UsedSize(pop.nHead, pop.nTail)
    <2>1. c < n /\ pop.nHead = m_nHead /\ ImageSize(sent[c + 1]) <= u
        BY <1>4, <1>13 DEF ReadLength, PopHolds
    <2>2. LengthsAt(pop.nHead) = {len}
        BY <1>2, <1>3, <2>1, LengthIsThere
    <2>3. u \in Nat /\ len # 0 /\ len \in Nat /\ ~ (len > u - LenSize)
        <3>1. u \in Nat
            BY <1>3, UsedSizeType DEF PopLocals
        <3>2. /\ len \in Nat \ {0} /\ LenSize \in Nat \ {0} /\ ImageSize(sent[c + 1]) = LenSize + len
              /\ ImageSize(sent[c + 1]) <= u
            BY <1>7, <2>1
        <3> HIDE DEF u, len
        <3> QED
            BY <3>1, <3>2
    <2>4. UNCHANGED <<m_nTail, m_arrCodeBuffer, lock, push, sent, due, received>> /\ pop.pc = "length"
        BY <1>13 DEF ReadLength
    <2>5. \/ len > OutSize /\ m_nHead' = (pop.nHead + LenSize + len) % CAPACITY /\ pop' = IdlePop
          \/ /\ ~ (len > OutSize) /\ pop' = [pop EXCEPT !.pc = "copy", !.n = len]
             /\ UNCHANGED m_nHead
        BY <1>13, <2>2, <2>3 DEF ReadLength
    <2>6. CASE len > OutSize /\ m_nHead' = (pop.nHead + LenSize + len) % CAPACITY /\ pop' = IdlePop
        <3>1. pop.nHead + LenSize + len = m_nHead + ImageSize(sent[c + 1])
            BY <1>3, <1>7, <2>1, <2>3 DEF Cells
        <3>2. Len(received) = dd[c + 1] /\ dd[c + 2] = dd[c + 1]
            <4>1. c + 1 \in 1 .. n /\ (c + 1) + 1 = c + 2 /\ ~ (len <= OutSize)
                BY <1>6, <2>1, <2>3, <2>6, RingAssumption, SMTT(30)
            <4> QED
                BY <1>4, <4>1 DEF RingHolds, Layout
        <3>3. DeliversInOrder'
            BY <1>3, <2>4 DEF DeliversInOrder
        <3> QED
            BY <1>9, <2>1, <2>4, <2>6, <3>1, <3>2, <3>3
    <2>7. CASE ~ (len > OutSize) /\ pop' = [pop EXCEPT !.pc = "copy", !.n = len] /\ UNCHANGED m_nHead
        <3>1. /\ pop'.pc = "copy" /\ pop'.n = len /\ pop'.nHead = pop.nHead /\ pop'.nTail = pop.nTail
              /\ pop'.got = pop.got
            BY <1>3, <2>7 DEF PopLocals
        <3>2. Len(pop.got) = 0 /\ len <= OutSize
            BY <1>3, <2>3, <2>4, <2>7, RingAssumption DEF PopRoom
        <3>3. \A k \in 1 .. Len(pop.got) : FALSE
            BY <3>2
        <3>4. PopHolds(c)'
            BY <2>1, <2>4, <2>7, <3>1, <3>2, <3>3 DEF PopHolds, UsedSize
        <3> QED
            BY <1>8, <2>4, <2>7, <3>4 DEF ringVars
    <2> QED
        BY <2>5, <2>6, <2>7
<1>14. CASE CopyOut
    <2> DEFINE r == sent[c + 1]  b == m_arrCodeBuffer[PopCell(pop)]  got == Append(pop.got, b)
    <2>1. /\ c < n /\ pop.nHead = m_nHead /\ ImageSize(r) <= UsedSize(pop.nHead, pop.nTail)
          /\ pop.n = r.len /\ pop.n <= OutSize
          /\ \A k \in 1 .. Len(pop.got) : pop.got[k] = <<r, LenSize + k - 1>>
          /\ pop.pc = "copy" /\ Len(pop.got) < pop.n
        BY <1>4, <1>14 DEF CopyOut, PopHolds
    <2>2. pop.got \in Seq(Bytes) /\ Len(pop.got) \in Nat /\ pop.nHead \in Cells /\ pop.nTail \in Cells /\ pop.n \in Nat
        BY <1>3, <1>7, <2>1 DEF PopLocals
    <2>3. pop.n + LenSize <= UsedSize(pop.nHead, pop.nTail)
        BY <1>3, <2>1 DEF PopRoom
    <2>4. PopCell(pop) = Cell(m_nHead, LenSize + Len(pop.got))
        BY <2>1, <2>2, <2>3, PopCellIs
    <2>5. b = <<r, LenSize + Len(pop.got)>>
        <3> DEFINE k == LenSize + Len(pop.got)
        <3>1. k \in 0 .. ImageSize(r) - 1 /\ k \in Nat
            BY <1>7, <2>1, <2>2
        <3>2. c + 1 \in c + 1 .. n /\ off[c + 1] - off[c + 1] + k = k
            BY <1>6, <2>1, <3>1
        <3> HIDE DEF k
        <3>3. m_arrCodeBuffer[Cell(m_nHead, off[c + 1] - off[c + 1] + k)] = <<r, k>>
            BY <1>4, <3>1, <3>2 DEF RingHolds
        <3> QED
            BY <2>4, <3>2, <3>3 DEF k
    <2> HIDE DEF b
    <2>6. /\ pop'.pc = "copy" /\ pop'.n = pop.n /\ pop'.nHead = pop.nHead /\ pop'.nTail = pop.nTail
          /\ pop'.got = got
          /\ UNCHANGED <<ringVars, lock, push, sent, due, received>>
        BY <1>3, <1>14 DEF CopyOut, PopLocals, b
    <2>7. Len(got) = Len(pop.got) + 1 /\ got[Len(pop.got) + 1] = b
          /\ \A k \in 1 .. Len(pop.got) : got[k] = pop.got[k]
        <3>1. b \in Bytes
            <4>1. LenSize + Len(pop.got) \in Nat /\ r \in Records
                BY <1>7, <2>1, <2>2
            <4> QED
                BY <2>5, <4>1 DEF Bytes
        <3> QED
            BY <2>2, <3>1
    <2> HIDE DEF got
    <2>8. ASSUME NEW k \in 1 .. Len(got) PROVE got[k] = <<r, LenSize + k - 1>>
        <3>1. CASE k = Len(pop.got) + 1
            <4>1. LenSize + k - 1 = LenSize + Len(pop.got)
                BY <1>7, <2>1, <2>2, <3>1
            <4> QED
                BY <2>5, <2>7, <3>1, <4>1
        <3>2. CASE k \in 1 .. Len(pop.got)
            BY <2>1, <2>7, <3>2
        <3> QED
            BY <2>2, <2>7, <3>1, <3>2
    <2>9. PopHolds(c)'
        BY <2>1, <2>6, <2>8 DEF PopHolds, UsedSize, ringVars
    <2> QED
        BY <1>8, <2>6, <2>9
<1>15. CASE SetHead
    <2> DEFINE r == sent[c + 1]
    <2>1. /\ c < n /\ pop.nHead = m_nHead
          /\ pop.n = r.len /\ pop.n <= OutSize
          /\ \A k \in 1 .. Len(pop.got) : pop.got[k] = <<r, LenSize + k - 1>>
          /\ Len(pop.got) = pop.n
        BY <1>4, <1>15 DEF SetHead, PopHolds
    <2>2. /\ m_nHead' = (pop.nHead + LenSize + pop.n) % CAPACITY
          /\ received' = Append(received, pop.got)
          /\ pop' = IdlePop
          /\ UNCHANGED <<m_nTail, m_arrCodeBuffer, lock, push, sent, due>>
        BY <1>15 DEF SetHead
    <2>3. pop.nHead + LenSize + pop.n = m_nHead + ImageSize(r)
        BY <1>3, <1>7, <2>1 DEF Cells
    <2>4. /\ pop.got \in Seq(Bytes) /\ Payload(r) \in Seq(Bytes) /\ Len(Payload(r)) = r.len
          /\ \A k \in 1 .. r.len : Payload(r)[k] = <<r, LenSize + k - 1>>
        BY <1>3, <1>7, <2>1, PayloadType DEF PopLocals
    <2>5. pop.got = Payload(r)
        <3> DEFINE s == pop.got  t == Payload(r)
        <3>1. s \in Seq(Bytes) /\ t \in Seq(Bytes) /\ Len(s) = Len(t) /\ \A k \in 1 .. Len(s) : s[k] = t[k]
            BY <2>1, <2>4
        <3> HIDE DEF s, t
        <3>2. s = t
            BY <3>1, SeqEqual
        <3> QED
            BY <3>2 DEF s, t
    <2>6. /\ Len(received) = dd[c + 1] /\ dd[c + 2] = dd[c + 1] + 1 /\ dd[c + 1] < Len(due)
          /\ due[dd[c + 1] + 1] = Payload(r)
        <3>1. c + 1 \in 1 .. n /\ (c + 1) + 1 = c + 2
            BY <1>6, <2>1
        <3> QED
            BY <1>4, <2>1, <3>1 DEF RingHolds, Layout
    <2>7. /\ Len(received') = Len(received) + 1 /\ received'[Len(received) + 1] = pop.got
          /\ \A i \in 1 .. Len(received) : received'[i] = received[i]
        BY <1>3, <2>2, <2>4
    <2>8. DeliversInOrder'
        <3>1. Len(received) \in Nat /\ Len(due) \in Nat
            BY <1>3
        <3> QED
            BY <1>3, <2>2, <2>5, <2>6, <2>7, <3>1, SMTT(30) DEF DeliversInOrder
    <2>9. Len(received') = dd[c + 2]
        BY <2>6, <2>7
    <2> QED
        BY <1>9, <2>1, <2>2, <2>3, <2>8, <2>9
<1>16. CASE ResetHead \/ ResetTail
    BY <1>4, <1>16 DEF ResetHead, ResetTail, PopHolds
<1> QED
    BY <1>10, <1>11, <1>12, <1>13, <1>14, <1>15, <1>16 DEF PopStep

-----------------------------------------------------------------------------
LEMMA InitMain == Init => MainInv
<1> SUFFICES ASSUME Init PROVE MainInv
    OBVIOUS
<1>1. /\ m_nHead = 0 /\ m_nTail = 0 /\ sent = << >> /\ due = << >> /\ received = << >>
      /\ push = [p \in Producers |-> IdlePush] /\ pop = IdlePop
    BY DEF Init
<1>2. Len(sent) = 0 /\ Len(due) = 0 /\ Len(received) = 0
    BY <1>1
<1> DEFINE zero == [i \in 1 .. 1 |-> 0]
<1>3. zero \in [1 .. 1 -> Nat] /\ zero[1] = 0
    OBVIOUS
<1> HIDE DEF zero
<1>4. Layout(zero, zero)
    BY <1>2, <1>3 DEF Layout
<1>5. RingHolds(zero, zero, 0)
    <2>1. Cell(0, 0) = 0 /\ 0 + Reserved <= CAPACITY
        BY RingAssumption DEF Cell
    <2> QED
        BY <1>1, <1>2, <1>3, <2>1 DEF RingHolds
<1>6. PopHolds(0)
    BY <1>1, IdleTypes DEF PopHolds
<1>7. \A p \in Producers : PushHolds(p)
    BY <1>1, IdleTypes DEF PushHolds
<1>8. DeliversInOrder
    BY <1>2 DEF DeliversInOrder
<1>9. \E c \in 0 .. Len(sent) : \E off, dd \in [1 .. Len(sent) + 1 -> Nat] : QueueHolds(off, dd, c)
    <2>1. QueueHolds(zero, zero, 0) /\ 0 \in 0 .. Len(sent) /\ zero \in [1 .. Len(sent) + 1 -> Nat]
        BY <1>2, <1>3, <1>4, <1>5, <1>6 DEF QueueHolds
    <2> QED
        BY <2>1
<1> QED
    BY <1>7, <1>8, <1>9 DEF MainInv

LEMMA NextMain == LockedInv /\ [Next]_vars => LockedInv'
<1> SUFFICES ASSUME LockedInv, [Next]_vars PROVE LockedInv'
    OBVIOUS
<1>1. IInv'
    BY NextIInv DEF LockedInv
<1>2. MainInv'
    <2>1. CASE lock = NoLock
        <3>1. lock' = NoLock
            BY <2>1, LockStaysAbsent DEF LockedInv
        <3> QED
            BY <3>1 DEF MainInv
    <2>2. CASE lock # NoLock
        <3>1. ASSUME NEW p \in Producers, BeginPush(p) \/ PushStep(p) PROVE MainInv'
            BY <2>2, <3>1, PushBeforeCopy, CopyInKeeps, SetTailKeeps DEF PushStep
        <3>2. CASE EmptyPop \/ PopStep
            BY <2>2, <3>2, PopKeepsMain
        <3>3. CASE UNCHANGED vars
            <4>1. UNCHANGED <<ringVars, pop, sent, due, received, push, lock>>
                BY <3>3 DEF vars
            <4>2. DeliversInOrder' /\ \A p \in Producers : PushHolds(p)'
                BY <2>2, <4>1 DEF LockedInv, MainInv, DeliversInOrder, PushHolds, ringVars, UsedSize
            <4>3. PICK c \in 0 .. Len(sent), off \in [1 .. Len(sent) + 1 -> Nat], dd \in [1 .. Len(sent) + 1 -> Nat] :
                      QueueHolds(off, dd, c)
                BY <2>2 DEF LockedInv, MainInv
            <4>4. QueueHolds(off, dd, c)' /\ c \in 0 .. Len(sent')
                BY <4>1, <4>3, QueueKept
            <4> QED
                BY <4>2, <4>4, MainInvFrom
        <3> QED
            BY <3>1, <3>2, <3>3 DEF Next
    <2> QED
        BY <2>1, <2>2
<1> QED
    BY <1>1, <1>2 DEF LockedInv

LEMMA LockedInvHolds == Spec => []LockedInv
<1>1. Init => LockedInv
    BY InitIInv, InitMain DEF LockedInv
<1> QED
    BY <1>1, NextMain, PTL DEF Spec

\* Every log record the log thread takes from the main log is, byte for byte,
\* the next one accepted: with pushes under their lock, CCodeQueue needs none
\* between the producers and the consumer, for any capacity and any lengths.
THEOREM MainLogDelivers == Spec => []MainLogInOrder
<1>1. LockedInv => MainLogInOrder
    BY DEF LockedInv, MainInv, MainLogInOrder
<1> QED
    BY <1>1, LockedInvHolds, PTL

\* A record being copied in has room for all its bytes and the reserve, as the
\* ring is now and not only as it was when Push computed the free size.
THEOREM PushAlwaysFits == Spec => []PushFits
<1>1. LockedInv => PushFits
    <2> SUFFICES ASSUME LockedInv, lock # NoLock, NEW p \in Producers, push[p].pc = "copy"
                 PROVE  UsedSize(m_nHead, m_nTail) + ImageSize(push[p].rec) + Reserved <= CAPACITY
        BY DEF PushFits
    <2>1. PushHolds(p) /\ PushRoom(push[p]) /\ push[p] \in PushLocals /\ m_nHead \in Cells /\ m_nTail \in Cells
        BY DEF LockedInv, MainInv, IInv, TypeOK
    <2>2. /\ push[p].nTail = m_nTail /\ push[p].rec \in Records /\ push[p].nHead \in Cells
          /\ UsedSize(m_nHead, m_nTail) <= UsedSize(push[p].nHead, m_nTail)
          /\ UsedSize(push[p].nHead, m_nTail) + ImageSize(push[p].rec) + Reserved <= CAPACITY
        BY <2>1 DEF PushHolds, PushRoom, PushLocals
    <2>3. UsedSize(m_nHead, m_nTail) \in Nat /\ UsedSize(push[p].nHead, m_nTail) \in Nat
          /\ ImageSize(push[p].rec) \in Nat
        BY <2>1, <2>2, UsedSizeType, ImageSizeType
    <2> QED
        BY <2>2, <2>3, RingAssumption
<1> QED
    BY <1>1, LockedInvHolds, PTL

-----------------------------------------------------------------------------
(* The main log implements RecordFifo, but for its fairness.               *)

LEMMA AcceptsNext ==
    ASSUME NEW S, NEW s \in Seq(S), NEW e \in S
    PROVE  Len(Append(s, e)) = Len(s) + 1 /\ SubSeq(Append(s, e), 1, Len(s)) = s
<1> DEFINE t == Append(s, e)  u == SubSeq(t, 1, Len(s))
<1>1. t \in Seq(S) /\ Len(t) = Len(s) + 1 /\ \A i \in 1 .. Len(s) : t[i] = s[i]
    BY AppendProperties
<1> HIDE DEF t
<1>2. \A i \in 1 .. Len(s) : t[i] \in S
    BY <1>1
<1>3. /\ u \in Seq(S)
      /\ Len(u) = IF 1 <= Len(s) THEN Len(s) - 1 + 1 ELSE 0
      /\ \A i \in 1 .. Len(s) - 1 + 1 : u[i] = t[1 + i - 1]
    BY <1>2, SubSeqProperties
<1> HIDE DEF u
<1>4. Len(u) = Len(s)
    BY <1>3
<1>5. \A i \in 1 .. Len(u) : u[i] = s[i]
    <2> SUFFICES ASSUME NEW i \in 1 .. Len(u) PROVE u[i] = s[i]
        OBVIOUS
    <2>1. i \in 1 .. Len(s) - 1 + 1 /\ 1 + i - 1 = i /\ i \in 1 .. Len(s)
        BY <1>4
    <2> QED
        BY <1>1, <1>3, <2>1
<1>6. u = s
    BY <1>3, <1>4, <1>5, SeqEqual
<1> QED
    BY <1>1, <1>6 DEF t, u

FifoSafety == Fifo!Init /\ [][Fifo!Next]_<<OfMainLog(due), OfMainLog(received)>>

LEMMA FifoStep ==
    ASSUME LockedInv, LockedInv', [Next]_vars
    PROVE  [Fifo!Next]_<<OfMainLog(due), OfMainLog(received)>>
<1>1. CASE lock = NoLock
    <2>1. lock' = NoLock
        BY <1>1, LockStaysAbsent DEF LockedInv
    <2> QED
        BY <1>1, <2>1 DEF OfMainLog
<1>2. CASE lock # NoLock
    <2>1. lock' # NoLock
        BY <1>2, LockStaysAbsent DEF LockedInv
    <2>2. OfMainLog(due) = due /\ OfMainLog(received) = received
          /\ OfMainLog(due)' = due' /\ OfMainLog(received)' = received'
        BY <1>2, <2>1 DEF OfMainLog
    <2>3. due \in Seq(Seq(Bytes)) /\ received \in Seq(Seq(Bytes)) /\ pop \in PopLocals
        BY DEF LockedInv, IInv, TypeOK
    <2>4. ASSUME NEW p \in Producers, SetTail(p)
          PROVE  [Fifo!Next]_<<OfMainLog(due), OfMainLog(received)>>
        <3>1. UNCHANGED received /\ due' = IF push[p].rec.len <= OutSize THEN Append(due, Payload(push[p].rec)) ELSE due
            BY <2>4 DEF SetTail
        <3>2. CASE push[p].rec.len <= OutSize
            <4>1. Payload(push[p].rec) \in Seq(Bytes)
                <5>1. push[p].rec \in Records
                    BY <2>4 DEF SetTail, LockedInv, IInv, PushRoom
                <5> QED
                    BY <5>1, PayloadType
            <4>2. Len(due') = Len(due) + 1 /\ SubSeq(due', 1, Len(due)) = due
                BY <2>3, <3>1, <3>2, <4>1, AcceptsNext
            <4>3. Fifo!Accept
                BY <2>2, <3>1, <4>2 DEF Fifo!Accept
            <4> QED
                BY <4>3 DEF Fifo!Next
        <3>3. CASE ~ (push[p].rec.len <= OutSize)
            BY <2>2, <3>1, <3>3
        <3> QED
            BY <3>2, <3>3
    <2>5. CASE SetHead
        <3>1. received' = Append(received, pop.got) /\ UNCHANGED due /\ pop.got \in Seq(Bytes)
            BY <2>3, <2>5 DEF SetHead, PopLocals
        <3>2. Len(received) \in Nat /\ Len(received') = Len(received) + 1
              /\ received'[Len(received) + 1] = pop.got
            BY <2>3, <3>1
        <3>3. Len(received') <= Len(due) /\ \A i \in 1 .. Len(received') : received'[i] = due[i]
            BY <2>1, <3>1 DEF LockedInv, MainInv, DeliversInOrder
        <3>4. Len(received) + 1 \in 1 .. Len(received')
            BY <3>2
        <3>5. pop.got = due[Len(received) + 1]
            BY <3>2, <3>3, <3>4
        <3>6. Len(received) < Len(due)
            BY <2>3, <3>2, <3>3
        <3>7. Fifo!Deliver
            BY <2>2, <3>1, <3>5, <3>6 DEF Fifo!Deliver
        <3> QED
            BY <3>7 DEF Fifo!Next
    <2>6. CASE UNCHANGED <<due, received>>
        BY <2>2, <2>6
    <2>7. \/ SetHead \/ \E p \in Producers : SetTail(p)
          \/ UNCHANGED <<due, received>>
        BY DEF Next, EmptyPop, PopStep, BeginPop, LoadUsed, ReadLength, CopyOut, ResetHead, ResetTail,
               BeginPush, PushStep, FullPush, LoadHead, LoadTail, CopyIn, vars
    <2> QED
        BY <2>4, <2>5, <2>6, <2>7
<1> QED
    BY <1>1, <1>2

\* Each step of the main log accepts one record at the end of the queue,
\* delivers the one at its front, or leaves the queue alone: the ring, its two
\* indices and the copies byte by byte are a FIFO of records.
THEOREM ImplementsFifo == Spec => FifoSafety
<1>1. Init => Fifo!Init
    BY DEF Init, Fifo!Init, OfMainLog
<1>2. LockedInv /\ LockedInv' /\ [Next]_vars => [Fifo!Next]_<<OfMainLog(due), OfMainLog(received)>>
    BY FifoStep
<1> QED
    BY <1>1, <1>2, LockedInvHolds, PTL DEF Spec, FifoSafety
=============================================================================
