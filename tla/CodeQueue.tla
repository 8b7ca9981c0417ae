----------------------------- MODULE CodeQueue ------------------------------
(***************************************************************************)
(* CCodeQueue (src/common/common_codequeue.h): the ring of bytes through   *)
(* which the threads hand log records to the log thread.  A record in the  *)
(* ring is its length, in LenSize bytes, followed by that many bytes.  The *)
(* indices have no lock: Push writes m_nTail and reads m_nHead, Pop writes *)
(* m_nHead and reads m_nTail.  Pushes to the main log hold m_stMainLogLock *)
(* (CFrameLogQueue::Push); pushes to a user log hold no lock.              *)
(*                                                                         *)
(* A step is one load or store of an index, or one byte of a copy.  Stores *)
(* are seen in program order (x86).  Both indices stay below CAPACITY, so  *)
(* the checks that reset a ring with an index out of range never take that *)
(* branch.                                                                 *)
(***************************************************************************)
EXTENDS Naturals, Sequences

CONSTANTS
    Producers,      \* the threads that push
    Locks,          \* what `lock` is in the rings tried at the start: Nobody, NoLock
    CAPACITY,       \* bytes of the ring
    LenSize,        \* sizeof(uint32_t)
    Reserved,       \* enmReservedCodeLength
    Lengths,        \* lengths of the records pushed
    UserLengths,    \* those of the records pushed to a user log: bound
    OutSize,        \* nSize: the buffer the consumer passes to Pop
    MaxRecords, MaxUserRecords \* bounds of a model-checking run on the records accepted
                               \* by the main log and by a user log

ASSUME RingAssumption ==
    /\ CAPACITY \in Nat /\ LenSize \in Nat \ {0} /\ Reserved \in Nat \ {0}
    /\ OutSize \in Nat /\ MaxRecords \in Nat /\ MaxUserRecords \in Nat
    /\ Reserved < CAPACITY
    /\ Lengths \subseteq Nat \ {0} /\ UserLengths \subseteq Lengths

Nobody == "nobody"
NoLock == "nolock"      \* a user log has none
ASSUME ProducersAssumption == Producers \cap {Nobody, NoLock} = {} /\ Locks \subseteq {Nobody, NoLock}

VARIABLES
    m_nHead, m_nTail,   \* the indices
    m_arrCodeBuffer,    \* the bytes
    lock,               \* the holder of m_stMainLogLock, Nobody or, of a user log, NoLock
    push,               \* producer -> locals of Push
    pop,                \* locals of Pop, in the log thread
    sent, due, received \* history: records accepted, the bytes the consumer should be
                        \* given for those it has room for, the bytes it was given

ringVars == <<m_nHead, m_nTail, m_arrCodeBuffer>>
vars == <<ringVars, lock, push, pop, sent, due, received>>

Cells == 0 .. CAPACITY - 1

\* A record, and the bytes that stand for it: byte k of its image in the ring.
Records == [by : Producers, no : Nat, len : Lengths]
ImageSize(r) == LenSize + r.len
Payload(r) == [k \in 1 .. r.len |-> <<r, LenSize + k - 1>>]
Zero == << >>
Bytes == {Zero} \cup (Records \X Nat)

NoRecord == [by |-> Nobody, no |-> 0, len |-> 0]
PushPcs == {"idle", "head", "tail", "copy"}
PopPcs == {"idle", "load", "length", "copy", "reset", "resettail"}
PushLocals == [pc : PushPcs, rec : Records \cup {NoRecord}, nHead : Cells, nTail : Cells, k : Nat]
PopLocals == [pc : PopPcs, nHead : Cells, nTail : Cells, n : 0 .. CAPACITY, got : Seq(Bytes)]

IdlePush == [pc |-> "idle", rec |-> NoRecord, nHead |-> 0, nTail |-> 0, k |-> 0]
IdlePop == [pc |-> "idle", nHead |-> 0, nTail |-> 0, n |-> 0, got |-> << >>]

Init ==
    /\ m_nHead = 0 /\ m_nTail = 0
    /\ m_arrCodeBuffer = [c \in Cells |-> Zero]
    /\ lock \in Locks
    /\ push = [p \in Producers |-> IdlePush]
    /\ pop = IdlePop
    /\ sent = << >> /\ due = << >> /\ received = << >>

-----------------------------------------------------------------------------
(* Arithmetic on the indices.                                              *)

\* (mutant) the whole ring may be filled, and then looks empty
FreeSize_NoReserve(h, t) == IF h = t THEN CAPACITY ELSE (h + CAPACITY - t) % CAPACITY

\* GetFreeInfo, GetFreeSize
FreeSize(h, t) ==
    LET free == IF h = t THEN CAPACITY ELSE (h + CAPACITY - t) % CAPACITY
    IN  IF free < Reserved THEN 0 ELSE free - Reserved

\* GetUsedInfo, GetUsedSize
UsedSize(h, t) == (t + CAPACITY - h) % CAPACITY

\* (mutant) every copy is made in one piece
CopyCell_OnePiece(from, limit, k) == from + k

\* Where byte k of a copy that starts at `from` goes: a copy that stays below
\* `limit` is made in one piece, any other is split at the end of the ring.
CopyCell(from, limit, k) == IF limit > from THEN from + k ELSE (from + k) % CAPACITY

\* The cells of the bytes a push or a pop is copying.
PushCell(l) ==
    IF l.k < LenSize THEN (l.nTail + l.k) % CAPACITY
    ELSE CopyCell((l.nTail + LenSize) % CAPACITY, l.nHead, l.k - LenSize)
PopCell(l) == CopyCell((l.nHead + LenSize) % CAPACITY, l.nTail, Len(l.got))

-----------------------------------------------------------------------------
(* Push.                                                                   *)

BeginPush(p) ==
    /\ push[p].pc = "idle"
    /\ \/ lock = Nobody /\ Len(sent) < MaxRecords /\ lock' = p
       \/ lock = NoLock /\ Len(sent) < MaxUserRecords /\ UNCHANGED lock
    /\ \E len \in IF lock = NoLock THEN UserLengths ELSE Lengths :
          push' = [push EXCEPT ![p].pc = "head", ![p].rec = [by |-> p, no |-> Len(sent) + 1, len |-> len]]
    /\ UNCHANGED <<ringVars, pop, sent, due, received>>

\* Push returns and its lock is released.
ReturnPush(p) ==
    /\ push' = [push EXCEPT ![p] = IdlePush]
    /\ lock' = IF lock = NoLock THEN NoLock ELSE Nobody

\* IsFull
FullPush(p) ==
    /\ push[p].pc = "head" /\ FreeSize(m_nHead, m_nTail) = 0
    /\ ReturnPush(p)
    /\ UNCHANGED <<ringVars, pop, sent, due, received>>

\* Not full: load the head.
LoadHead(p) ==
    /\ push[p].pc = "head" /\ FreeSize(m_nHead, m_nTail) # 0
    /\ push' = [push EXCEPT ![p].pc = "tail", ![p].nHead = m_nHead]
    /\ UNCHANGED <<ringVars, lock, pop, sent, due, received>>

\* (mutant) the tail moves before the bytes are there
LoadTail_Publishes(p) ==
    LET l == push[p] IN
    /\ l.pc = "tail"
    /\ IF ImageSize(l.rec) > FreeSize(l.nHead, m_nTail)
       THEN ReturnPush(p) /\ UNCHANGED m_nTail
       ELSE /\ push' = [push EXCEPT ![p].pc = "copy", ![p].nTail = m_nTail]
            /\ m_nTail' = (m_nTail + ImageSize(l.rec)) % CAPACITY
            /\ UNCHANGED lock
    /\ UNCHANGED <<m_nHead, m_arrCodeBuffer, pop, sent, due, received>>

\* Load the tail; a record that does not fit is refused.
LoadTail(p) ==
    LET l == push[p] IN
    /\ l.pc = "tail"
    /\ IF ImageSize(l.rec) > FreeSize(l.nHead, m_nTail)
       THEN ReturnPush(p)
       ELSE /\ push' = [push EXCEPT ![p].pc = "copy", ![p].nTail = m_nTail]
            /\ UNCHANGED lock
    /\ UNCHANGED <<ringVars, pop, sent, due, received>>

CopyIn(p) ==
    LET l == push[p] IN
    /\ l.pc = "copy" /\ l.k < ImageSize(l.rec)
    /\ m_arrCodeBuffer' = [m_arrCodeBuffer EXCEPT ![PushCell(l)] = <<l.rec, l.k>>]
    /\ push' = [push EXCEPT ![p].k = l.k + 1]
    /\ UNCHANGED <<m_nHead, m_nTail, lock, pop, sent, due, received>>

\* SetTail: from here the consumer sees the record.
SetTail(p) ==
    LET l == push[p] IN
    /\ l.pc = "copy" /\ l.k = ImageSize(l.rec)
    /\ m_nTail' = (l.nTail + ImageSize(l.rec)) % CAPACITY
    /\ sent' = Append(sent, l.rec)
    /\ due' = IF l.rec.len <= OutSize THEN Append(due, Payload(l.rec)) ELSE due
    /\ ReturnPush(p)
    /\ UNCHANGED <<m_nHead, m_arrCodeBuffer, pop, received>>

-----------------------------------------------------------------------------
(* Pop.                                                                    *)

\* IsEmpty
EmptyPop ==
    /\ pop.pc = "idle" /\ m_nHead = m_nTail
    /\ UNCHANGED vars

BeginPop ==
    /\ pop.pc = "idle" /\ m_nHead # m_nTail
    /\ pop' = [pop EXCEPT !.pc = "load"]
    /\ UNCHANGED <<ringVars, lock, push, sent, due, received>>

\* GetUsedInfo: the head is the log thread's own, so the load of the tail is
\* the step.
LoadUsed ==
    /\ pop.pc = "load"
    /\ pop' = [pop EXCEPT !.nHead = m_nHead, !.nTail = m_nTail,
                          !.pc = IF UsedSize(m_nHead, m_nTail) < LenSize THEN "reset" ELSE "length"]
    /\ UNCHANGED <<ringVars, lock, push, sent, due, received>>

\* The length the next LenSize bytes stand for: that of the record whose
\* length they are, or any number if they are bytes of something else.
LengthsAt(h) ==
    LET cell(k) == m_arrCodeBuffer[(h + k) % CAPACITY]
        first == cell(0)
    IN  IF first # Zero /\ \A k \in 0 .. LenSize - 1 : cell(k) = <<first[1], k>>
        THEN {first[1].len}
        ELSE 0 .. CAPACITY

\* (mutant) a record too long for the caller's buffer stays in the ring
ReadLength_KeepsLong ==
    LET used == UsedSize(pop.nHead, pop.nTail) IN
    /\ pop.pc = "length"
    /\ \E n \in LengthsAt(pop.nHead) :
          IF n = 0 \/ n > used - LenSize THEN pop' = [pop EXCEPT !.pc = "reset"]
          ELSE pop' = IF n > OutSize THEN IdlePop ELSE [pop EXCEPT !.pc = "copy", !.n = n]
    /\ UNCHANGED <<ringVars, lock, push, sent, due, received>>

\* A length that cannot be resets the ring; a record longer than the buffer
\* of the caller is thrown away.
ReadLength ==
    LET used == UsedSize(pop.nHead, pop.nTail) IN
    /\ pop.pc = "length"
    /\ \E n \in LengthsAt(pop.nHead) :
          \/ /\ n = 0 \/ n > used - LenSize
             /\ pop' = [pop EXCEPT !.pc = "reset"]
             /\ UNCHANGED m_nHead
          \/ /\ n # 0 /\ n <= used - LenSize
             /\ IF n > OutSize
                THEN /\ m_nHead' = (pop.nHead + LenSize + n) % CAPACITY
                     /\ pop' = IdlePop
                ELSE /\ pop' = [pop EXCEPT !.pc = "copy", !.n = n]
                     /\ UNCHANGED m_nHead
    /\ UNCHANGED <<m_nTail, m_arrCodeBuffer, lock, push, sent, due, received>>

CopyOut ==
    /\ pop.pc = "copy" /\ Len(pop.got) < pop.n
    /\ pop' = [pop EXCEPT !.got = Append(@, m_arrCodeBuffer[PopCell(pop)])]
    /\ UNCHANGED <<ringVars, lock, push, sent, due, received>>

\* (mutant) the head runs past the end of the ring
SetHead_NoWrap ==
    /\ pop.pc = "copy" /\ Len(pop.got) = pop.n
    /\ m_nHead' = pop.nHead + LenSize + pop.n
    /\ received' = Append(received, pop.got)
    /\ pop' = IdlePop
    /\ UNCHANGED <<m_nTail, m_arrCodeBuffer, lock, push, sent, due>>

\* SetHead: from here the producers may use the cells again.
SetHead ==
    /\ pop.pc = "copy" /\ Len(pop.got) = pop.n
    /\ m_nHead' = (pop.nHead + LenSize + pop.n) % CAPACITY
    /\ received' = Append(received, pop.got)
    /\ pop' = IdlePop
    /\ UNCHANGED <<m_nTail, m_arrCodeBuffer, lock, push, sent, due>>

\* SetBoundary(0, 0) on a ring found in pieces: two stores.
ResetHead ==
    /\ pop.pc = "reset"
    /\ m_nHead' = 0
    /\ pop' = [pop EXCEPT !.pc = "resettail"]
    /\ UNCHANGED <<m_nTail, m_arrCodeBuffer, lock, push, sent, due, received>>

ResetTail ==
    /\ pop.pc = "resettail"
    /\ m_nTail' = 0
    /\ pop' = IdlePop
    /\ UNCHANGED <<m_nHead, m_arrCodeBuffer, lock, push, sent, due, received>>

-----------------------------------------------------------------------------
PushStep(p) == FullPush(p) \/ LoadHead(p) \/ LoadTail(p) \/ CopyIn(p) \/ SetTail(p)
PopStep == BeginPop \/ LoadUsed \/ ReadLength \/ CopyOut \/ SetHead \/ ResetHead \/ ResetTail

Next == EmptyPop \/ PopStep \/ \E p \in Producers : BeginPush(p) \/ PushStep(p)

Spec == Init /\ [][Next]_vars

\* A thread inside Push finishes it, and the log thread keeps polling.
Fairness == WF_vars(PopStep) /\ \A p \in Producers : WF_vars(PushStep(p))

FairSpec == Spec /\ Fairness
-----------------------------------------------------------------------------
TypeOK ==
    /\ m_nHead \in Cells /\ m_nTail \in Cells
    /\ m_arrCodeBuffer \in [Cells -> Bytes]
    /\ lock \in Producers \cup {Nobody, NoLock}
    /\ push \in [Producers -> PushLocals] /\ pop \in PopLocals
    /\ sent \in Seq(Records) /\ due \in Seq(Seq(Bytes)) /\ received \in Seq(Seq(Bytes))

\* Whatever is delivered is, byte for byte, the next record accepted: none is
\* lost, repeated, torn or overwritten while it waits.
DeliversInOrder ==
    /\ Len(received) <= Len(due)
    /\ \A i \in 1 .. Len(received) : received[i] = due[i]

\* So it is in the main log, whose pushes hold its lock.
MainLogInOrder == lock # NoLock => DeliversInOrder

\* A push under way has room for its whole record and the reserve, in front of
\* the head as it is now: it never reaches bytes not consumed yet, and the tail
\* never meets the head from behind (a full ring would look empty).
PushFits ==
    lock # NoLock => \A p \in Producers : push[p].pc = "copy" =>
        UsedSize(m_nHead, m_nTail) + ImageSize(push[p].rec) + Reserved <= CAPACITY

\* No copy leaves the ring, even if the threads that push hold no lock and the
\* consumer reads nonsense and resets the indices under them.
CopiesStayInside ==
    /\ \A p \in Producers :
          push[p].pc = "copy" /\ push[p].k < ImageSize(push[p].rec) => PushCell(push[p]) \in Cells
    /\ pop.pc = "copy" /\ Len(pop.got) < pop.n => PopCell(pop) \in Cells

\* The main log implements a FIFO of records that delivers them all.
OfMainLog(records) == IF lock = NoLock THEN << >> ELSE records
Fifo == INSTANCE RecordFifo WITH in <- OfMainLog(due), out <- OfMainLog(received)
FifoSpec == Fifo!Spec
=============================================================================
