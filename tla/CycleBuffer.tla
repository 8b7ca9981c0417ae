---------------------------- MODULE CycleBuffer -----------------------------
(***************************************************************************)
(* CycleBuffer<SIZE> (src/common/common_cyclebuffer.h): a ring of SIZE     *)
(* bytes with a read index r, a write index w and the number n of bytes    *)
(* held.  An index may be SIZE: it wraps when it is next used.  Every      *)
(* operation runs under the buffer's lock, so it is an operator on the     *)
(* record that stands for the object.  ReadFromTail has no caller.         *)
(***************************************************************************)
EXTENDS Integers, Sequences

CONSTANT SIZE

ASSUME SizeAssumption == SIZE \in Nat \ {0}

Nil == << >>    \* a byte never written
EmptyBuffer == [cell |-> [i \in 0 .. SIZE - 1 |-> Nil], r |-> 0, w |-> 0, n |-> 0]

\* memcpy(&m_arrBuf[at], s, Len(s))
Put(cell, at, s) ==
    [i \in DOMAIN cell |-> IF i \in at .. at + Len(s) - 1 THEN s[i - at + 1] ELSE cell[i]]

\* The bytes held, in the order in which Read returns them.
Contents(b) == [i \in 1 .. b.n |-> b.cell[(b.r + i - 1) % SIZE]]

HasRoom(b, s) == b.n + Len(s) <= SIZE

\* Write, of a sequence that HasRoom: behind the bytes held.
Write(b, s) ==
    LET left == SIZE - b.w
        split == b.w >= b.r /\ left < Len(s)
    IN  [b EXCEPT !.cell = IF split THEN Put(Put(@, b.w, SubSeq(s, 1, left)), 0, SubSeq(s, left + 1, Len(s)))
                           ELSE Put(@, b.w, s),
                  !.w = IF split THEN Len(s) - left ELSE b.w + Len(s),
                  !.n = b.n + Len(s)]

\* WriteToHead, of a sequence that HasRoom: meant to go in front of the bytes
\* held.  In the last case the code moves the write index where the read index
\* is meant; it only arises for a buffer with bytes left in it.
WriteToHead(b, s) ==
    LET tail == Len(s) - b.r
    IN  IF b.w = b.r THEN Write(b, s)
        ELSE IF b.w < b.r \/ tail <= 0
        THEN [b EXCEPT !.cell = Put(@, b.r - Len(s), s), !.r = b.r - Len(s), !.n = b.n + Len(s)]
        ELSE [b EXCEPT !.cell = Put(Put(@, SIZE - tail, SubSeq(s, 1, tail)), 0, SubSeq(s, tail + 1, Len(s))),
                       !.w = SIZE - tail, !.n = b.n + Len(s)]

\* How many bytes Read takes, which, and what it leaves.
ReadSize(b, want) == IF b.n < want THEN b.n ELSE want

ReadBytes(b, want) ==
    LET k == ReadSize(b, want)
        left == SIZE - b.r
    IN  [i \in 1 .. k |-> IF b.r < b.w \/ i <= left THEN b.cell[b.r + i - 1] ELSE b.cell[i - left - 1]]

\* PeekRead: the bytes Read would take, except that a buffer whose indices are
\* equal counts as empty, the full one too.
PeekBytes(b, want) == IF b.r = b.w THEN << >> ELSE ReadBytes(b, want)

AfterRead(b, want) ==
    LET k == ReadSize(b, want)
        left == SIZE - b.r
    IN  [b EXCEPT !.r = IF b.r < b.w \/ k <= left THEN b.r + k ELSE k - left, !.n = b.n - k]

\* The indices agree with the number of bytes held.
Consistent(b) ==
    /\ DOMAIN b.cell = 0 .. SIZE - 1
    /\ b.r \in 0 .. SIZE /\ b.w \in 0 .. SIZE /\ b.n \in 0 .. SIZE
    /\ b.r < b.w => b.n = b.w - b.r
    /\ b.r = b.w => b.n \in {0, SIZE}
    /\ b.r > b.w => b.n = SIZE - b.r + b.w
=============================================================================
